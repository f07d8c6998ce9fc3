------------------------------- MODULE MCSolver -------------------------------
(***************************************************************************)
(* Constraint systems for TLC: every choice of constraints from a pool     *)
(* written for a small well-typed program, in two orders.                  *)
(***************************************************************************)
EXTENDS SolverProperties, SequencesExt

Con(op, d, s) ==
  [op |-> op, dst |-> d, src |-> s, off |-> 0, typ |-> "", exact |-> TRUE, ctx |-> 0]
AddrOf(d, s) == Con("addr", d, s)
Copy(d, s) == Con("copy", d, s)
Load(d, s, o) == [Con("load", d, s) EXCEPT !.off = o]
Store(d, o, s) == [Con("store", d, s) EXCEPT !.off = o]
Field(d, s, o) == [Con("offsetAddr", d, s) EXCEPT !.off = o]
Filter(d, s, t) == [Con("typeFilter", d, s) EXCEPT !.typ = t]
Untag(d, s, t, e) == [Con("untag", d, s) EXCEPT !.typ = t, !.exact = e]
Invoke(i, b, m, k) == [Con("invoke", b, i) EXCEPT !.typ = m, !.ctx = k]

(* p = 1, q = 2, r = 3 are pointers to objects with a pointer field: the   *)
(* object 4 with field 5, the object 6 with field 7.  i = 8, j = 9 are     *)
(* interface variables; 10 is a tagged object of type T with payload 11,   *)
(* 12 one of type U with payload 13.                                       *)
(* Function f = T.m: 14 is its shared object with receiver 15 and result   *)
(* 16; 17, 18, 19 those of its instance in context 1.  g = U.m is out of   *)
(* scope: 20, 21, 22.  The blocks 23, 24 and 25, 26 are the targets and    *)
(* results of two calls.  27 is a pointer to a field.                      *)
Nodes == 1 .. 27
Typing == [n \in Nodes |-> CASE n \in {8, 9} -> {10, 12}
                             [] n \in {23, 25} -> {14, 17, 20}
                             [] n = 27 -> {5, 7}
                             [] OTHER -> {4, 6}]
Tags == (10 :> "T" @@ 12 :> "U")
AssignablePairs == {<<"T", "I">>, <<"T", "T">>, <<"U", "U">>}
Sizes == [t \in {"T", "U"} |-> 1]
Methods == (<<"m", "T">> :> "f" @@ <<"m", "U">> :> "g")
Objs == (<<"f", 0>> :> 14 @@ <<"f", 1>> :> 17 @@ <<"g", 0>> :> 20)
Sigs == [f \in {"f", "g"} |-> [recv |-> 1, params |-> 0, results |-> 1]]
(* func (t T) m() *T { return t }; func (u U) m() *T { *u = new(T); return p }, *)
(* where p is the global pointer 1: it may have been propagated long before.     *)
Bodies ==
  (<<"f", 0>> :> <<Copy(16, 15)>> @@ <<"f", 1>> :> <<Copy(19, 18)>>
     @@ <<"g", 0>> :> <<AddrOf(22, 6), Store(21, 1, 22), Copy(22, 1),
                            Load(22, 1, 1)>>)

Pool == <<AddrOf(1, 4), AddrOf(2, 6), Copy(1, 2), Copy(3, 1), Copy(2, 3), Load(3, 1, 1),
          Store(2, 1, 1), Field(27, 1, 1), Load(2, 27, 0), Store(27, 0, 3), AddrOf(8, 10), AddrOf(8, 12), Copy(11, 1),
          Copy(13, 2), Filter(9, 8, "I"), Untag(3, 8, "T", TRUE), Untag(2, 8, "U", FALSE),
          Invoke(8, 23, "m", 1), Invoke(9, 25, "m", 0), Copy(1, 24), Copy(2, 26)>>

AllConstraints == Elems(Pool) \cup UNION {Elems(Bodies[f]) : f \in DOMAIN Bodies}

\* Systems of Size constraints of the pool, as it lists them and reversed.
CONSTANT Size
Picked(S) == [i \in 1 .. Cardinality(S) |->
                Pool[CHOOSE n \in S : Cardinality({m \in S : m < n}) = i - 1]]
SmallSystems ==
  LET up == {Picked(S) : S \in kSubset(Size, 1 .. Len(Pool))}
  IN  up \cup {Reverse(s) : s \in up}

\* Everything at once, starting at any constraint, in both directions.
Rotation(s, n) == SubSeq(s, n, Len(s)) \o SubSeq(s, 1, n - 1)
LargeSystems ==
  UNION {{Rotation(Pool, n), Rotation(Reverse(Pool), n)} : n \in 1 .. Len(Pool)}

Systems == SmallSystems \cup LargeSystems

==============================================================================

----------------------------- MODULE SolverProofs -----------------------------
(***************************************************************************)
(* Proofs about the constraint solver, for every set of nodes, every       *)
(* well-typed constraint system and every limit.                           *)
(***************************************************************************)
EXTENDS SolverProperties, TLAPS

-----------------------------------------------------------------------------
(* Sequences. *)

LEMMA ElemsAppend ==
  ASSUME NEW S, NEW s \in Seq(S), NEW e \in S
  PROVE  Elems(Append(s, e)) = Elems(s) \cup {e}
  <1>1. Append(s, e) \in Seq(S) /\ Len(Append(s, e)) = Len(s) + 1
    OBVIOUS
  <1>2. \A i \in 1 .. Len(s) : Append(s, e)[i] = s[i]
    OBVIOUS
  <1>3. Append(s, e)[Len(s) + 1] = e
    OBVIOUS
  <1>4. DOMAIN s = 1 .. Len(s) /\ DOMAIN Append(s, e) = 1 .. (Len(s) + 1)
    BY <1>1
  <1>5. Len(s) \in Nat
    OBVIOUS
  <1>6. Elems(Append(s, e)) \subseteq Elems(s) \cup {e}
    BY <1>2, <1>3, <1>4, <1>5 DEF Elems
  <1>7. Elems(s) \subseteq Elems(Append(s, e))
    BY <1>2, <1>4, <1>5 DEF Elems
  <1>8. e \in Elems(Append(s, e))
    BY <1>3, <1>4, <1>5 DEF Elems
  <1> QED BY <1>6, <1>7, <1>8

LEMMA ElemsHeadTail ==
  ASSUME NEW S, NEW s \in Seq(S), s # <<>>
  PROVE  /\ Head(s) \in S
         /\ Tail(s) \in Seq(S)
         /\ Elems(s) = {Head(s)} \cup Elems(Tail(s))
  <1>1. Len(s) \in Nat \ {0} /\ Head(s) = s[1]
    OBVIOUS
  <1>2. Tail(s) \in Seq(S) /\ Len(Tail(s)) = Len(s) - 1
    OBVIOUS
  <1>3. \A i \in 1 .. Len(s) - 1 : Tail(s)[i] = s[i + 1]
    OBVIOUS
  <1>4. DOMAIN s = 1 .. Len(s) /\ DOMAIN Tail(s) = 1 .. Len(s) - 1
    BY <1>2
  <1>5. ASSUME NEW i \in 1 .. Len(s) PROVE s[i] \in {Head(s)} \cup Elems(Tail(s))
    <2>1. CASE i = 1
      BY <2>1, <1>1
    <2>2. CASE i # 1
      <3>1. i - 1 \in 1 .. Len(s) - 1 /\ (i - 1) + 1 = i
        BY <2>2, <1>1
      <3> QED BY <3>1, <1>3, <1>4 DEF Elems
    <2> QED BY <2>1, <2>2
  <1>6. ASSUME NEW i \in 1 .. Len(s) - 1 PROVE Tail(s)[i] \in Elems(s)
    <2>1. i + 1 \in 1 .. Len(s)
      BY <1>1
    <2> QED BY <2>1, <1>3, <1>4 DEF Elems
  <1>7. Head(s) \in Elems(s) /\ Head(s) \in S
    BY <1>1, <1>4 DEF Elems
  <1> QED BY <1>2, <1>4, <1>5, <1>6, <1>7 DEF Elems

LEMMA ElemsConcat ==
  ASSUME NEW S, NEW s \in Seq(S), NEW t \in Seq(S)
  PROVE  s \o t \in Seq(S) /\ Elems(s \o t) = Elems(s) \cup Elems(t)
  <1>1. s \o t \in Seq(S) /\ Len(s \o t) = Len(s) + Len(t)
    OBVIOUS
  <1>2. \A i \in 1 .. Len(s) : (s \o t)[i] = s[i]
    OBVIOUS
  <1>3. \A i \in 1 .. Len(t) : (s \o t)[Len(s) + i] = t[i]
    OBVIOUS
  <1>4. /\ DOMAIN s = 1 .. Len(s) /\ DOMAIN t = 1 .. Len(t)
        /\ DOMAIN (s \o t) = 1 .. (Len(s) + Len(t))
        /\ Len(s) \in Nat /\ Len(t) \in Nat
    BY <1>1
  <1>5. ASSUME NEW i \in 1 .. (Len(s) + Len(t))
        PROVE  (s \o t)[i] \in Elems(s) \cup Elems(t)
    <2>1. CASE i <= Len(s)
      BY <2>1, <1>2, <1>4 DEF Elems
    <2>2. CASE i > Len(s)
      <3>1. i - Len(s) \in 1 .. Len(t) /\ Len(s) + (i - Len(s)) = i
        BY <2>2, <1>4
      <3> QED BY <3>1, <1>3, <1>4 DEF Elems
    <2> QED BY <2>1, <2>2, <1>4
  <1>6. Elems(s) \subseteq Elems(s \o t)
    <2>1. ASSUME NEW i \in 1 .. Len(s) PROVE s[i] \in Elems(s \o t)
      <3>1. i \in 1 .. (Len(s) + Len(t))
        BY <1>4
      <3> QED BY <3>1, <1>2, <1>4 DEF Elems
    <2> QED BY <2>1, <1>4 DEF Elems
  <1>7. Elems(t) \subseteq Elems(s \o t)
    <2>1. ASSUME NEW i \in 1 .. Len(t) PROVE t[i] \in Elems(s \o t)
      <3>1. Len(s) + i \in 1 .. (Len(s) + Len(t))
        BY <1>4
      <3> QED BY <3>1, <1>3, <1>4 DEF Elems
    <2> QED BY <2>1, <1>4 DEF Elems
  <1>8. Elems(s \o t) \subseteq Elems(s) \cup Elems(t)
    BY <1>5, <1>4 DEF Elems
  <1> QED BY <1>1, <1>6, <1>7, <1>8

LEMMA ElemsEmpty == Elems(<<>>) = {}
  BY DEF Elems

LEMMA ElemsIn ==
  ASSUME NEW S, NEW s \in Seq(S)
  PROVE  /\ Elems(s) \subseteq S
         /\ \A i \in 1 .. Len(s) : s[i] \in Elems(s) /\ s[i] \in S
         /\ \A e \in Elems(s) : \E i \in 1 .. Len(s) : s[i] = e
         /\ Len(s) \in Nat
  BY DEF Elems

-----------------------------------------------------------------------------
(* Constraints. *)

LEMMA ComplexFacts ==
  ASSUME NEW c \in Constraint, Complex(c)
  PROVE  /\ ptr(c) \in Node
         /\ \A x \in Points[ptr(c)] :
              /\ Applies(c, x)
              /\ \A f \in Instances(c, x) :
                   /\ c.op = "invoke" => f \in DOMAIN Body
                   /\ Copies(c, x, f) \in Seq(Node \X Node)
                   /\ \A e \in Elems(Copies(c, x, f)) : Points[e[1]] \subseteq Points[e[2]]
                   /\ Labels(c, x, f) \subseteq Node \X Node
                   /\ \A l \in Labels(c, x, f) : l[2] \in Points[l[1]]
  BY ConstraintsAssumption DEF Respects, Complex, ptr

LEMMA BaseFacts ==
  ASSUME NEW c \in Constraint
  PROVE  /\ c.src \in Node /\ c.dst \in Node
         /\ c.op = "addr" => c.src \in Points[c.dst]
         /\ c.op = "copy" => Points[c.src] \subseteq Points[c.dst]
         /\ c.op = "addr" \/ c.op = "copy" \/ Complex(c)
         /\ c.op \in {"addr", "copy"} => ~Complex(c)
         /\ c.op = "addr" => c.op # "copy"
         /\ c.op = "invoke" => Complex(c)
  BY ConstraintsAssumption DEF Respects, Complex

LEMMA IssuedIn == TypeOK => Issued \subseteq Constraint
  <1> SUFFICES ASSUME TypeOK PROVE Issued \subseteq Constraint
    OBVIOUS
  <1>1. input \in Seq(Constraint)
    BY InputsAssumption DEF TypeOK
  <1>2. \A f \in made : Body[f] \in Seq(Constraint)
    BY BodyAssumption DEF TypeOK
  <1>3. Elems(input) \subseteq Constraint /\ \A f \in made : Elems(Body[f]) \subseteq Constraint
    BY <1>1, <1>2, ElemsIn
  <1> QED BY <1>3 DEF Issued

LEMMA EdgeMonotone ==
  ASSUME NEW C, NEW D, NEW P, NEW Q, C \subseteq D, C \subseteq Constraint,
         \A n \in Node : P[n] \subseteq Q[n],
         NEW s, NEW d, Edge(C, P, s, d)
  PROVE  Edge(D, Q, s, d)
  <1>1. PICK c \in C : \/ c.op = "copy" /\ c.src = s /\ c.dst = d
                       \/ /\ Complex(c)
                          /\ \E x \in P[ptr(c)] :
                               Applies(c, x) /\ \E f \in Instances(c, x) :
                                 <<s, d>> \in Elems(Copies(c, x, f))
    BY DEF Edge
  <1>2. CASE c.op = "copy" /\ c.src = s /\ c.dst = d
    BY <1>2 DEF Edge
  <1>3. CASE /\ Complex(c)
             /\ \E x \in P[ptr(c)] :
                  Applies(c, x) /\ \E f \in Instances(c, x) :
                    <<s, d>> \in Elems(Copies(c, x, f))
    <2>1. ptr(c) \in Node
      BY <1>3, ComplexFacts
    <2>2. P[ptr(c)] \subseteq Q[ptr(c)]
      BY <2>1
    <2>3. PICK x \in P[ptr(c)] : Applies(c, x) /\ \E f \in Instances(c, x) :
                                   <<s, d>> \in Elems(Copies(c, x, f))
      BY <1>3
    <2>4. x \in Q[ptr(c)]
      BY <2>2, <2>3
    <2> QED BY <1>3, <2>3, <2>4 DEF Edge
  <1> QED BY <1>1, <1>2, <1>3

\* Edges respect the typing and never leave the targets node of an invoke.
LEMMA EdgeTyped ==
  ASSUME NEW C, NEW P, C \subseteq Constraint, NEW s, NEW d, Edge(C, P, s, d),
         \A n \in Node : P[n] \subseteq Points[n]
  PROVE  /\ s \in Node /\ d \in Node
         /\ Points[s] \subseteq Points[d]
         /\ \A b \in Constraint : b.op = "invoke" => s # b.dst
  <1>1. PICK c \in C : \/ c.op = "copy" /\ c.src = s /\ c.dst = d
                       \/ /\ Complex(c)
                          /\ \E x \in P[ptr(c)] :
                               Applies(c, x) /\ \E f \in Instances(c, x) :
                                 <<s, d>> \in Elems(Copies(c, x, f))
    BY DEF Edge
  <1>2. CASE c.op = "copy" /\ c.src = s /\ c.dst = d
    BY <1>2, BaseFacts, BlockAssumption
  <1>3. CASE /\ Complex(c)
             /\ \E x \in P[ptr(c)] :
                  Applies(c, x) /\ \E f \in Instances(c, x) :
                    <<s, d>> \in Elems(Copies(c, x, f))
    <2>1. ptr(c) \in Node
      BY <1>3, ComplexFacts
    <2> PICK x \in P[ptr(c)] : Applies(c, x) /\ \E f \in Instances(c, x) :
                                 <<s, d>> \in Elems(Copies(c, x, f))
      BY <1>3
    <2>2. PICK f \in Instances(c, x) : <<s, d>> \in Elems(Copies(c, x, f))
      OBVIOUS
    <2>3. x \in Points[ptr(c)]
      BY <2>1, <2>2
    <2>4. /\ Copies(c, x, f) \in Seq(Node \X Node)
          /\ \A e \in Elems(Copies(c, x, f)) : Points[e[1]] \subseteq Points[e[2]]
      BY <1>3, <2>2, <2>3, ComplexFacts
    <2>5. <<s, d>> \in Node \X Node
      BY <2>2, <2>4, ElemsIn
    <2>6. Points[s] \subseteq Points[d]
      BY <2>2, <2>4
    <2>7. \A b \in Constraint : b.op = "invoke" => s # b.dst
      BY <1>3, <2>2, <2>3, BlockAssumption
    <2> QED BY <2>5, <2>6, <2>7
  <1> QED BY <1>1, <1>2, <1>3

\* A label that was asked for has the right type.
LEMMA AskedTyped ==
  ASSUME NEW C, NEW P, C \subseteq Constraint, NEW n, NEW l, Asked(C, P, n, l),
         \A m \in Node : P[m] \subseteq Points[m]
  PROVE  n \in Node /\ l \in Points[n]
  <1>1. CASE \E c \in C : c.op = "addr" /\ c.dst = n /\ c.src = l
    BY <1>1, BaseFacts
  <1>2. CASE \E s \in Node : l \in P[s] /\ Edge(C, P, s, n)
    <2>1. PICK s \in Node : l \in P[s] /\ Edge(C, P, s, n)
      BY <1>2
    <2>2. n \in Node /\ Points[s] \subseteq Points[n]
      BY <2>1, EdgeTyped
    <2> QED BY <2>1, <2>2
  <1>3. CASE \E c \in C : /\ Complex(c)
                          /\ \E x \in P[ptr(c)] :
                               Applies(c, x) /\ \E f \in Instances(c, x) :
                                 <<n, l>> \in Labels(c, x, f)
    <2>1. PICK c \in C : /\ Complex(c)
                         /\ \E x \in P[ptr(c)] :
                               Applies(c, x) /\ \E f \in Instances(c, x) :
                                 <<n, l>> \in Labels(c, x, f)
      BY <1>3
    <2>2. ptr(c) \in Node
      BY <2>1, ComplexFacts
    <2> PICK x \in P[ptr(c)] : \E f \in Instances(c, x) : <<n, l>> \in Labels(c, x, f)
      BY <2>1
    <2>3. PICK f \in Instances(c, x) : <<n, l>> \in Labels(c, x, f)
      OBVIOUS
    <2>4. x \in Points[ptr(c)]
      BY <2>2, <2>3
    <2>5. /\ Labels(c, x, f) \subseteq Node \X Node
          /\ \A k \in Labels(c, x, f) : k[2] \in Points[k[1]]
      BY <2>1, <2>3, <2>4, ComplexFacts
    <2> QED BY <2>3, <2>5
  <1> QED BY <1>1, <1>2, <1>3 DEF Asked

-----------------------------------------------------------------------------
(* One lemma per action: it keeps the inductive invariant. *)

\* What any growth of the points-to sets keeps.
LEMMA AppliedGrows ==
  ASSUME NEW c, NEW x, Applied(c, x, pts, copyTo, copies),
         c \in Constraint, Complex(c), x \in Points[ptr(c)],
         \A n \in Node : pts[n] \subseteq pts'[n],
         \A n \in Node : copyTo[n] \subseteq copyTo'[n],
         \A e \in Elems(copies) :
           e \in Elems(copies') \/ e[1] = e[2] \/ e[2] \in copyTo'[e[1]]
  PROVE  Applied(c, x, pts', copyTo', copies')
  <1>1. PICK f \in Instances(c, x) :
          /\ \A l \in Labels(c, x, f) : l[2] \in pts[l[1]]
          /\ \A e \in Elems(Copies(c, x, f)) :
               e[1] = e[2] \/ e[2] \in copyTo[e[1]] \/ e \in Elems(copies)
    BY DEF Applied
  <1>2. Labels(c, x, f) \subseteq Node \X Node /\ Copies(c, x, f) \in Seq(Node \X Node)
    BY ComplexFacts
  <1>3. \A l \in Labels(c, x, f) : l[2] \in pts'[l[1]]
    BY <1>1, <1>2
  <1>4. Elems(Copies(c, x, f)) \subseteq Node \X Node
    BY <1>2, ElemsIn
  <1>5. \A e \in Elems(Copies(c, x, f)) :
          e[1] = e[2] \/ e[2] \in copyTo'[e[1]] \/ e \in Elems(copies')
    BY <1>1, <1>4
  <1> QED BY <1>3, <1>5 DEF Applied

\* The members of Issued after a step that generates no function.
LEMMA SameIssued == ASSUME UNCHANGED <<input, made>> PROVE Issued' = Issued
  BY DEF Issued

LEMMA EdgesStayAsked ==
  ASSUME SolverInv, Issued \subseteq Issued', \A n \in Node : pts[n] \subseteq pts'[n],
         NEW s, NEW d, Edge(Issued, pts, s, d)
  PROVE  Edge(Issued', pts', s, d)
  <1>1. Issued \subseteq Constraint
    BY IssuedIn DEF SolverInv
  <1> QED BY <1>1, EdgeMonotone

LEMMA AttachedTyped ==
  ASSUME SolverInv, NEW n \in Node, NEW i \in 1 .. Len(complex[n]), NEW x \in prevPTS[n]
  PROVE  /\ complex[n][i] \in Constraint
         /\ Complex(complex[n][i])
         /\ ptr(complex[n][i]) = n
         /\ x \in Points[ptr(complex[n][i])]
  <1>1. complex[n] \in Seq(Constraint)
    BY DEF SolverInv, TypeOK
  <1>2. complex[n][i] \in Elems(complex[n]) /\ complex[n][i] \in Constraint
    BY <1>1, ElemsIn
  <1>3. Complex(complex[n][i]) /\ ptr(complex[n][i]) = n
    BY <1>2 DEF SolverInv, ConstraintsIssued
  <1>4. x \in pts[n]
    BY DEF SolverInv, Registers
  <1>5. pts[n] \subseteq Points[n]
    BY DEF SolverInv, TypeOK
  <1> QED BY <1>2, <1>3, <1>4, <1>5

LEMMA TakeConstraintsKeeps == SolverInv /\ TakeConstraints => SolverInv'
  <1> SUFFICES ASSUME SolverInv, TakeConstraints PROVE SolverInv'
    OBVIOUS
  <1> DEFINE bases == {c \in Elems(constraints) : c.op = "addr"}
  <1>0. /\ pc = "new" /\ pc' = "attach" /\ batch' = constraints /\ constraints' = <<>>
        /\ pts' = [n \in Node |-> pts[n] \cup {x \in Node : \E b \in bases : b.dst = n /\ b.src = x}]
        /\ work' = work \cup {n \in Node : Attached(n) /\ \E b \in bases : b.dst = n}
        /\ UNCHANGED <<input, limit, prevPTS, copyTo, complex, stale, skipIDs, cur, delta,
                       ix, rest, copies, back, made>>
    BY DEF TakeConstraints, given, callVars
  <1>1. TypeOK
    BY DEF SolverInv
  <1>2. stale = {} /\ batch = <<>> /\ copies = <<>> /\ \A n \in Node : prevPTS[n] \subseteq pts[n]
    BY <1>0 DEF SolverInv, Registers
  <1>3. Elems(constraints) \subseteq Constraint
    BY <1>1, ElemsIn DEF TypeOK
  <1>4. \A n \in Node : /\ pts[n] \subseteq pts'[n]
                        /\ pts'[n] = pts[n] \cup {x \in Node : \E b \in bases : b.dst = n /\ b.src = x}
    BY <1>0
  <1>5. Issued' = Issued
    BY <1>0, SameIssued
  <1>6. TypeOK'
    <2>1. ASSUME NEW n \in Node PROVE pts'[n] \subseteq Points[n] /\ pts'[n] \subseteq Node
      <3>1. ASSUME NEW c \in bases, c.dst = n PROVE c.src \in Points[n] /\ c.src \in Node
        BY <3>1, <1>3, BaseFacts
      <3> QED BY <3>1, <1>1, <1>4, SMTT(30) DEF TypeOK
    <2>2. pts' \in [Node -> SUBSET Node]
      BY <2>1, <1>0
    <2> QED BY <2>1, <2>2, <1>0, <1>1 DEF TypeOK
  <1>7. EdgesSeen'
    BY <1>0, <1>1, <1>2, <1>4 DEF SolverInv, EdgesSeen, Owed, TypeOK
  <1>8. ConstraintsSeen'
    <2> SUFFICES ASSUME NEW n \in Node, NEW i \in 1 .. Len(complex[n]), NEW x \in prevPTS[n]
                 PROVE  Applied(complex[n][i], x, pts', copyTo', copies')
      BY <1>0 DEF ConstraintsSeen
    <2>1. Applied(complex[n][i], x, pts, copyTo, copies)
      BY <1>0, <1>2 DEF SolverInv, ConstraintsSeen, OwedTo
    <2>2. Applied(complex[n][i], x, pts', copyTo', copies')
      BY <2>1, <1>0, <1>2, <1>4, AttachedTyped, AppliedGrows, ElemsEmpty
    <2> QED BY <2>2, <1>0
  <1>9. EdgesQuiet'
    <2> SUFFICES ASSUME NEW n \in Node \ (work' \cup skipIDs'), NEW d \in copyTo'[n]
                 PROVE  pts'[n] \ Owed(n)' \subseteq pts'[d]
      BY DEF EdgesQuiet
    <2>1. d \in Node
      BY <1>0, <1>1 DEF TypeOK
    <2>2. pts'[n] \subseteq pts[n]
      <3>1. ~ \E b \in bases : b.dst = n
        BY <1>0 DEF Attached
      <3> QED BY <3>1, <1>4
    <2>3. pts[n] \subseteq pts[d]
      BY <1>0, <1>2 DEF SolverInv, EdgesQuiet, Owed
    <2> QED BY <2>1, <2>2, <2>3, <1>4
  <1>10. ConstraintsQuiet'
    <2> SUFFICES ASSUME NEW n \in Node \ (work' \cup skipIDs), complex[n] # <<>>
                 PROVE  pts'[n] \subseteq prevPTS[n]
      BY <1>0 DEF ConstraintsQuiet
    <2>1. ~ \E b \in bases : b.dst = n
      BY <1>0 DEF Attached
    <2> QED BY <2>1, <1>0, <1>4 DEF SolverInv, ConstraintsQuiet
  <1>11. AllRecorded'
    <2> SUFFICES ASSUME NEW c \in Issued PROVE Recorded(c)'
      BY <1>5 DEF AllRecorded
    <2>1. Recorded(c) /\ c \in Constraint
      BY <1>0, <1>1, IssuedIn DEF SolverInv, AllRecorded
    <2>2. CASE c \in Elems(constraints)
      <3>1. c.op = "addr" => c.src \in pts'[c.dst]
        BY <2>1, <2>2, <1>4, BaseFacts
      <3>2. c \in Elems(batch')
        BY <2>2, <1>0
      <3> QED BY <3>1, <3>2 DEF Recorded
    <2>3. CASE c \notin Elems(constraints)
      <3>1. c \notin Elems(batch)
        BY <1>2, ElemsEmpty
      <3>2. c.op = "addr" => c.src \in pts'[c.dst]
        BY <2>1, <2>3, <1>4, BaseFacts DEF Recorded
      <3>3. c.op = "copy" => c.dst \in copyTo'[c.src]
        BY <2>1, <2>3, <3>1, <1>0 DEF Recorded
      <3>4. c.op \notin {"addr", "copy"} => c \in Elems(complex'[ptr(c)])
        BY <2>1, <2>3, <3>1, <1>0 DEF Recorded
      <3> QED BY <3>2, <3>3, <3>4 DEF Recorded
    <2> QED BY <2>2, <2>3
  <1>12. NoneForgotten'
    BY <1>0, <1>2 DEF NoneForgotten
  <1>13. EdgesAsked'
    <2> SUFFICES ASSUME NEW n \in Node, NEW d \in copyTo[n] PROVE Edge(Issued', pts', n, d)
      BY <1>0 DEF EdgesAsked
    <2>1. Edge(Issued, pts, n, d)
      BY DEF SolverInv, EdgesAsked
    <2> QED BY <2>1, <1>4, <1>5, EdgesStayAsked
  <1>14. ConstraintsIssued'
    BY <1>0, <1>5, ElemsEmpty DEF SolverInv, ConstraintsIssued
  <1>15. CopiesAsked'
    BY <1>0, <1>2, ElemsEmpty DEF CopiesAsked
  <1>16. Registers'
    BY <1>0, <1>2, <1>4 DEF SolverInv, Registers
  <1>17. BlocksBare' /\ Solved' /\ NoPanic'
    BY <1>0 DEF SolverInv, BlocksBare, Solved, NoPanic
  <1> QED BY <1>6, <1>7, <1>8, <1>9, <1>10, <1>11, <1>12, <1>13, <1>14, <1>15, <1>16, <1>17
          DEF SolverInv

LEMMA AttachKeeps == SolverInv /\ Attach => SolverInv'
  <1> SUFFICES ASSUME SolverInv, Attach PROVE SolverInv'
    OBVIOUS
  <1> DEFINE c == Head(batch)
  <1>0. /\ pc = "attach" /\ pc' = pc /\ batch # <<>> /\ batch' = Tail(batch)
        /\ UNCHANGED <<input, limit, constraints, pts, prevPTS, skipIDs, cur, delta,
                       ix, rest, copies, back, made>>
    BY DEF Attach, given, callVars
  <1>1. TypeOK /\ EdgesAsked /\ ConstraintsIssued
    BY DEF SolverInv
  <1>2. copies = <<>> /\ \A n \in Node : prevPTS[n] \subseteq pts[n]
    BY <1>0 DEF SolverInv, Registers
  <1>3. /\ c \in Constraint /\ c \in Issued /\ c \in Elems(batch)
        /\ Tail(batch) \in Seq(Constraint)
        /\ Elems(batch) = {c} \cup Elems(Tail(batch))
    BY <1>0, <1>1, ElemsHeadTail DEF TypeOK, ConstraintsIssued
  <1>4. Issued' = Issued
    BY <1>0, SameIssued
  <1>5. constraints = <<>> /\ Elems(constraints) = {}
    BY <1>0, ElemsEmpty DEF SolverInv, NoneForgotten
  <1>6. \/ c.op = "addr" /\ UNCHANGED <<copyTo, complex, work, stale>>
        \/ /\ c.op = "copy"
           /\ copyTo' = [copyTo EXCEPT ![c.src] = @ \cup {c.dst}]
           /\ Notice(c.src)
           /\ UNCHANGED complex
        \/ /\ Complex(c)
           /\ complex' = [complex EXCEPT ![ptr(c)] = Append(@, c)]
           /\ Notice(ptr(c))
           /\ UNCHANGED copyTo
    BY DEF Attach
  <1> HIDE DEF c
  <1>7. CASE c.op = "addr" /\ UNCHANGED <<copyTo, complex, work, stale>>
    <2>1. TypeOK'
      BY <1>0, <1>1, <1>3, <1>7 DEF TypeOK
    <2>2. \A n \in Node : Owed(n)' = Owed(n) /\ \A i \in Nat : OwedTo(n, i)' = OwedTo(n, i)
      BY <1>0, <1>7 DEF Owed, OwedTo
    <2>3. EdgesSeen' /\ EdgesQuiet' /\ ConstraintsQuiet'
      BY <1>0, <1>7 DEF SolverInv, EdgesSeen, EdgesQuiet, ConstraintsQuiet, Owed
    <2>4. ConstraintsSeen'
      BY <1>0, <1>7 DEF SolverInv, ConstraintsSeen, OwedTo, Applied
    <2>5. AllRecorded'
      <3> SUFFICES ASSUME NEW b \in Issued PROVE Recorded(b)'
        BY <1>4 DEF AllRecorded
      <3>1. Recorded(b) /\ b \in Constraint
        BY <1>0, <1>1, IssuedIn DEF SolverInv, AllRecorded
      <3>2. b.op # "addr" => b # c
        BY <1>7
      <3> QED BY <3>1, <3>2, <1>0, <1>3, <1>7 DEF Recorded
    <2>6. NoneForgotten' /\ Registers'
      BY <1>0, <1>2, <1>5, <1>7 DEF SolverInv, NoneForgotten, Registers
    <2>7. EdgesAsked' /\ ConstraintsIssued' /\ CopiesAsked'
      BY <1>0, <1>1, <1>3, <1>4, <1>7 DEF SolverInv, EdgesAsked, ConstraintsIssued, CopiesAsked
    <2>8. BlocksBare' /\ Solved' /\ NoPanic'
      BY <1>0, <1>7 DEF SolverInv, BlocksBare, Solved, NoPanic
    <2> QED BY <2>1, <2>3, <2>4, <2>5, <2>6, <2>7, <2>8 DEF SolverInv
  <1>8. CASE /\ c.op = "copy"
             /\ copyTo' = [copyTo EXCEPT ![c.src] = @ \cup {c.dst}]
             /\ Notice(c.src)
             /\ UNCHANGED complex
    <2>1. c.src \in Node /\ c.dst \in Node
      BY <1>3, BaseFacts
    <2>2. /\ \A n \in Node : copyTo[n] \subseteq copyTo'[n]
          /\ \A n \in Node : n # c.src => copyTo'[n] = copyTo[n]
          /\ copyTo'[c.src] = copyTo[c.src] \cup {c.dst}
          /\ copyTo' \in [Node -> SUBSET Node]
      BY <1>1, <1>8, <2>1 DEF TypeOK
    <2>3. /\ work \subseteq work' /\ stale \subseteq stale' /\ work' \subseteq Node /\ stale' \subseteq Node
          /\ stale' \subseteq stale \cup {c.src}
          /\ pts[c.src] # {} => c.src \in work'
          /\ prevPTS[c.src] # {} => c.src \in stale'
          /\ stale' \subseteq work'
      BY <1>1, <1>2, <1>8, <2>1 DEF Notice, TypeOK, SolverInv, NoneForgotten
    <2>4. TypeOK'
      BY <1>0, <1>1, <1>3, <1>8, <2>2, <2>3 DEF TypeOK
    <2>5. EdgesSeen'
      <3> SUFFICES ASSUME NEW n \in Node, NEW d \in copyTo'[n]
                   PROVE  prevPTS'[n] \ Owed(n)' \subseteq pts'[d]
        BY DEF EdgesSeen
      <3>1. CASE n = c.src
        BY <3>1, <2>3, <1>0 DEF Owed
      <3>2. CASE n # c.src
        <4>1. d \in copyTo[n] /\ (n \in stale' <=> n \in stale)
          BY <3>2, <2>2, <2>3
        <4> QED BY <4>1, <1>0 DEF SolverInv, EdgesSeen, Owed
      <3> QED BY <3>1, <3>2
    <2>6. ConstraintsSeen'
      <3> SUFFICES ASSUME NEW n \in Node, NEW i \in 1 .. Len(complex'[n]),
                          NEW x \in prevPTS'[n] \ OwedTo(n, i)'
                   PROVE  Applied(complex'[n][i], x, pts', copyTo', copies')
        BY DEF ConstraintsSeen
      <3>1. i \in 1 .. Len(complex[n]) /\ complex'[n][i] = complex[n][i] /\ x \in prevPTS[n]
        BY <1>0, <1>8
      <3>2. n \notin stale'
        BY <1>0 DEF OwedTo
      <3>3. x \in prevPTS[n] \ OwedTo(n, i)
        BY <3>1, <3>2, <2>3, <1>0 DEF OwedTo
      <3>4. Applied(complex[n][i], x, pts, copyTo, copies)
        BY <3>1, <3>3 DEF SolverInv, ConstraintsSeen
      <3>5. Applied(complex[n][i], x, pts', copyTo', copies')
        BY <3>1, <3>4, <1>0, <1>2, <2>2, AttachedTyped, AppliedGrows, ElemsEmpty
      <3> QED BY <3>1, <3>5, <1>8
    <2>7. EdgesQuiet'
      <3> SUFFICES ASSUME NEW n \in Node \ (work' \cup skipIDs'), NEW d \in copyTo'[n]
                   PROVE  pts'[n] \ Owed(n)' \subseteq pts'[d]
        BY DEF EdgesQuiet
      <3>1. CASE n = c.src
        BY <3>1, <2>3, <1>0
      <3>2. CASE n # c.src
        <4>1. d \in copyTo[n] /\ (n \in stale' <=> n \in stale) /\ n \notin work
          BY <3>2, <2>2, <2>3
        <4> QED BY <4>1, <1>0 DEF SolverInv, EdgesQuiet, Owed
      <3> QED BY <3>1, <3>2
    <2>8. ConstraintsQuiet'
      BY <2>3, <1>0, <1>8 DEF SolverInv, ConstraintsQuiet
    <2>9. AllRecorded'
      <3> SUFFICES ASSUME NEW b \in Issued PROVE Recorded(b)'
        BY <1>4 DEF AllRecorded
      <3>1. Recorded(b) /\ b \in Constraint
        BY <1>0, <1>1, IssuedIn DEF SolverInv, AllRecorded
      <3>2. b.src \in Node
        BY <3>1, BaseFacts
      <3>3. CASE b = c
        BY <3>3, <1>8, <2>2 DEF Recorded
      <3>4. CASE b # c
        BY <3>1, <3>2, <3>4, <1>0, <1>3, <1>8, <2>2 DEF Recorded
      <3> QED BY <3>3, <3>4
    <2>10. NoneForgotten' /\ Registers'
      BY <1>0, <1>2, <1>5, <1>8, <2>3 DEF SolverInv, NoneForgotten, Registers
    <2>11. EdgesAsked'
      <3> SUFFICES ASSUME NEW n \in Node, NEW d \in copyTo'[n]
                   PROVE  Edge(Issued', pts', n, d)
        BY DEF EdgesAsked
      <3>1. CASE n = c.src /\ d = c.dst
        BY <3>1, <1>3, <1>4, <1>8 DEF Edge
      <3>2. CASE ~(n = c.src /\ d = c.dst)
        BY <3>2, <2>2, <1>0, <1>1, <1>4 DEF EdgesAsked
      <3> QED BY <3>1, <3>2
    <2>12. ConstraintsIssued' /\ CopiesAsked'
      BY <1>0, <1>1, <1>3, <1>4, <1>8 DEF SolverInv, ConstraintsIssued, CopiesAsked
    <2>13. BlocksBare'
      BY <1>3, <1>8, <2>2, BlockAssumption, BaseFacts DEF SolverInv, BlocksBare
    <2>14. Solved' /\ NoPanic'
      BY <1>0 DEF SolverInv, Solved, NoPanic
    <2> QED BY <2>4, <2>5, <2>6, <2>7, <2>8, <2>9, <2>10, <2>11, <2>12, <2>13, <2>14
            DEF SolverInv
  <1>9. CASE /\ Complex(c)
             /\ complex' = [complex EXCEPT ![ptr(c)] = Append(@, c)]
             /\ Notice(ptr(c))
             /\ UNCHANGED copyTo
    <2>1. ptr(c) \in Node /\ c.op # "addr" /\ c.op # "copy"
      BY <1>3, <1>9, ComplexFacts DEF Complex
    <2>2. /\ \A n \in Node : n # ptr(c) => complex'[n] = complex[n]
          /\ complex'[ptr(c)] = Append(complex[ptr(c)], c)
          /\ complex' \in [Node -> Seq(Constraint)]
          /\ Elems(complex'[ptr(c)]) = Elems(complex[ptr(c)]) \cup {c}
      <3>1. complex[ptr(c)] \in Seq(Constraint)
        BY <1>1, <2>1 DEF TypeOK
      <3>2. complex' = [complex EXCEPT ![ptr(c)] = Append(complex[ptr(c)], c)]
        BY <1>9
      <3>3. Append(complex[ptr(c)], c) \in Seq(Constraint)
        BY <3>1, <1>3
      <3>4. /\ \A n \in Node : n # ptr(c) => complex'[n] = complex[n]
            /\ complex'[ptr(c)] = Append(complex[ptr(c)], c)
            /\ complex' \in [Node -> Seq(Constraint)]
        BY <1>1, <2>1, <3>2, <3>3 DEF TypeOK
      <3> QED BY <3>1, <3>4, <1>3, ElemsAppend
    <2>3. /\ work \subseteq work' /\ stale \subseteq stale' /\ work' \subseteq Node /\ stale' \subseteq Node
          /\ stale' \subseteq stale \cup {ptr(c)}
          /\ pts[ptr(c)] # {} => ptr(c) \in work'
          /\ prevPTS[ptr(c)] # {} => ptr(c) \in stale'
          /\ stale' \subseteq work'
      BY <1>1, <1>2, <1>9, <2>1 DEF Notice, TypeOK, SolverInv, NoneForgotten
    <2>4. TypeOK'
      BY <1>0, <1>1, <1>3, <1>9, <2>2, <2>3 DEF TypeOK
    <2>5. EdgesSeen'
      <3> SUFFICES ASSUME NEW n \in Node, NEW d \in copyTo'[n]
                   PROVE  prevPTS'[n] \ Owed(n)' \subseteq pts'[d]
        BY DEF EdgesSeen
      <3>1. CASE n = ptr(c)
        BY <3>1, <2>3, <1>0 DEF Owed
      <3>2. CASE n # ptr(c)
        <4>1. d \in copyTo[n] /\ (n \in stale' <=> n \in stale)
          BY <3>2, <2>3, <1>9
        <4> QED BY <4>1, <1>0 DEF SolverInv, EdgesSeen, Owed
      <3> QED BY <3>1, <3>2
    <2>6. ConstraintsSeen'
      <3> SUFFICES ASSUME NEW n \in Node, NEW i \in 1 .. Len(complex'[n]),
                          NEW x \in prevPTS'[n] \ OwedTo(n, i)'
                   PROVE  Applied(complex'[n][i], x, pts', copyTo', copies')
        BY DEF ConstraintsSeen
      <3>1. n \notin stale' /\ x \in prevPTS[n]
        BY <1>0 DEF OwedTo
      <3>2. n # ptr(c)
        BY <3>1, <2>3
      <3>3. i \in 1 .. Len(complex[n]) /\ complex'[n][i] = complex[n][i]
        BY <3>2, <2>2
      <3>4. x \in prevPTS[n] \ OwedTo(n, i)
        BY <3>1, <2>3, <1>0 DEF OwedTo
      <3>5. Applied(complex[n][i], x, pts, copyTo, copies)
        BY <3>3, <3>4 DEF SolverInv, ConstraintsSeen
      <3>6. Applied(complex[n][i], x, pts', copyTo', copies')
        BY <3>1, <3>3, <3>5, <1>0, <1>2, <1>9, AttachedTyped, AppliedGrows, ElemsEmpty
      <3> QED BY <3>2, <3>3, <3>6, <2>2
    <2>7. EdgesQuiet'
      <3> SUFFICES ASSUME NEW n \in Node \ (work' \cup skipIDs'), NEW d \in copyTo'[n]
                   PROVE  pts'[n] \ Owed(n)' \subseteq pts'[d]
        BY DEF EdgesQuiet
      <3>1. CASE n = ptr(c)
        BY <3>1, <2>3, <1>0
      <3>2. CASE n # ptr(c)
        <4>1. d \in copyTo[n] /\ (n \in stale' <=> n \in stale) /\ n \notin work
          BY <3>2, <2>3, <1>9
        <4> QED BY <4>1, <1>0 DEF SolverInv, EdgesQuiet, Owed
      <3> QED BY <3>1, <3>2
    <2>8. ConstraintsQuiet'
      <3> SUFFICES ASSUME NEW n \in Node \ (work' \cup skipIDs'), complex'[n] # <<>>
                   PROVE  pts'[n] \subseteq prevPTS'[n]
        BY DEF ConstraintsQuiet
      <3>1. CASE n = ptr(c)
        BY <3>1, <2>3, <1>0
      <3>2. CASE n # ptr(c)
        BY <3>2, <2>2, <2>3, <1>0 DEF SolverInv, ConstraintsQuiet
      <3> QED BY <3>1, <3>2
    <2>9. AllRecorded'
      <3> SUFFICES ASSUME NEW b \in Issued PROVE Recorded(b)'
        BY <1>4 DEF AllRecorded
      <3>1. Recorded(b) /\ b \in Constraint
        BY <1>0, <1>1, IssuedIn DEF SolverInv, AllRecorded
      <3>2. CASE b = c
        BY <3>2, <2>1, <2>2 DEF Recorded
      <3>3. CASE b # c
        <4>1. Complex(b) => Elems(complex[ptr(b)]) \subseteq Elems(complex'[ptr(b)])
          <5>1. ASSUME Complex(b) PROVE ptr(b) \in Node
            BY <5>1, <3>1, ComplexFacts
          <5>2. ASSUME Complex(b), ptr(b) # ptr(c) PROVE complex'[ptr(b)] = complex[ptr(b)]
            BY <5>1, <5>2, <2>2
          <5> QED BY <5>2, <2>2
        <4>2. b.op \notin {"addr", "copy"} => Complex(b)
          BY DEF Complex
        <4> QED BY <4>1, <4>2, <3>1, <3>3, <1>0, <1>3, <1>9 DEF Recorded
      <3> QED BY <3>2, <3>3
    <2>10. NoneForgotten' /\ Registers'
      BY <1>0, <1>2, <1>5, <1>9, <2>3 DEF SolverInv, NoneForgotten, Registers
    <2>11. EdgesAsked' /\ CopiesAsked'
      BY <1>0, <1>1, <1>4, <1>9 DEF SolverInv, EdgesAsked, CopiesAsked
    <2>12. ConstraintsIssued'
      <3>1. ASSUME NEW n \in Node, NEW b \in Elems(complex'[n])
            PROVE  b \in Issued /\ Complex(b) /\ ptr(b) = n
        <4>1. CASE n = ptr(c)
          BY <4>1, <2>2, <1>1, <1>3, <1>9 DEF ConstraintsIssued
        <4>2. CASE n # ptr(c)
          BY <4>2, <2>2, <1>1 DEF ConstraintsIssued
        <4> QED BY <4>1, <4>2
      <3> QED BY <3>1, <1>0, <1>1, <1>3, <1>4 DEF ConstraintsIssued
    <2>13. BlocksBare'
      <3> SUFFICES ASSUME NEW b \in Constraint, b.op = "invoke"
                   PROVE  copyTo'[b.dst] = {} /\ complex'[b.dst] = <<>>
        BY DEF BlocksBare
      <3>1. b.dst \in Node /\ b.dst # ptr(c)
        BY <1>3, <1>9, BlockAssumption, BaseFacts
      <3> QED BY <3>1, <1>9, <2>2 DEF SolverInv, BlocksBare
    <2>14. Solved' /\ NoPanic'
      BY <1>0 DEF SolverInv, Solved, NoPanic
    <2> QED BY <2>4, <2>5, <2>6, <2>7, <2>8, <2>9, <2>10, <2>11, <2>12, <2>13, <2>14
            DEF SolverInv
  <1> QED BY <1>6, <1>7, <1>8, <1>9

LEMMA ApplyStaleKeeps == ASSUME NEW m \in Node PROVE SolverInv /\ ApplyStale(m) => SolverInv'
  <1> SUFFICES ASSUME SolverInv, ApplyStale(m) PROVE SolverInv'
    OBVIOUS
  <1>0. /\ pc = "attach" /\ batch = <<>> /\ m \in stale /\ stale' = stale \ {m}
        /\ pc' = "solve" /\ back' = "attach" /\ cur' = m /\ delta' = prevPTS[m]
        /\ ix' = 1 /\ rest' = prevPTS[m] /\ copies' = <<>>
        /\ UNCHANGED <<input, limit, constraints, batch, pts, prevPTS, copyTo, complex,
                       work, skipIDs, made>>
    BY DEF ApplyStale, SolveConstraints, Smallest, given, nodeVars
  <1>1. TypeOK
    BY DEF SolverInv
  <1>2. copies = <<>> /\ m \in work
    BY <1>0 DEF SolverInv, Registers, NoneForgotten
  <1>3. Issued' = Issued
    BY <1>0, SameIssued
  <1>4. \A n \in Node : Owed(n)' = Owed(n)
    BY <1>0 DEF Owed
  <1>5. \A n \in Node : \A i \in Nat \ {0} : OwedTo(n, i)' = OwedTo(n, i)
    BY <1>0 DEF OwedTo
  <1>6. TypeOK'
    BY <1>0, <1>1 DEF TypeOK
  <1>7. EdgesSeen' /\ EdgesQuiet' /\ ConstraintsQuiet'
    BY <1>0, <1>4 DEF SolverInv, EdgesSeen, EdgesQuiet, ConstraintsQuiet
  <1>8. ConstraintsSeen'
    <2> SUFFICES ASSUME NEW n \in Node, NEW i \in 1 .. Len(complex'[n]),
                        NEW x \in prevPTS'[n] \ OwedTo(n, i)'
                 PROVE  Applied(complex'[n][i], x, pts', copyTo', copies')
      BY DEF ConstraintsSeen
    <2>1. i \in Nat \ {0}
      BY <1>0, <1>1 DEF TypeOK
    <2>2. OwedTo(n, i)' = OwedTo(n, i)
      BY <1>5, <2>1
    <2> QED BY <2>2, <1>0, <1>2 DEF SolverInv, ConstraintsSeen
  <1>9. AllRecorded'
    BY <1>0, <1>3 DEF SolverInv, AllRecorded, Recorded
  <1>10. NoneForgotten' /\ Registers'
    BY <1>0, <1>2 DEF SolverInv, NoneForgotten, Registers
  <1>11. EdgesAsked' /\ ConstraintsIssued' /\ CopiesAsked'
    BY <1>0, <1>2, <1>3 DEF SolverInv, EdgesAsked, ConstraintsIssued, CopiesAsked
  <1>12. BlocksBare' /\ Solved' /\ NoPanic'
    BY <1>0 DEF SolverInv, BlocksBare, Solved, NoPanic
  <1> QED BY <1>6, <1>7, <1>8, <1>9, <1>10, <1>11, <1>12 DEF SolverInv

LEMMA PassKeeps == ASSUME NEW m \in Node PROVE SolverInv /\ Pass(m) => SolverInv'
  <1> SUFFICES ASSUME SolverInv, Pass(m) PROVE SolverInv'
    OBVIOUS
  <1>0. /\ pc = "attach" /\ batch = <<>> /\ stale = {} /\ work' = work \ {m}
        /\ m \in skipIDs \/ pts[m] \subseteq prevPTS[m]
        /\ pc' = "new"
        /\ UNCHANGED <<input, limit, constraints, batch, pts, prevPTS, copyTo, complex,
                       stale, skipIDs, cur, delta, ix, rest, copies, back, made>>
    BY DEF Pass, TakeMin, AtTakeMin, given, callVars
  <1>1. TypeOK
    BY DEF SolverInv
  <1>2. Issued' = Issued
    BY <1>0, SameIssued
  <1>3. \A n \in Node : Owed(n) = {} /\ Owed(n)' = {}
    BY <1>0 DEF Owed
  <1>4. \A n \in Node : \A i : OwedTo(n, i) = {} /\ OwedTo(n, i)' = {}
    BY <1>0 DEF OwedTo
  <1>5. TypeOK'
    BY <1>0, <1>1 DEF TypeOK
  <1>6. EdgesSeen'
    BY <1>0, <1>3 DEF SolverInv, EdgesSeen
  <1>7. ConstraintsSeen'
    BY <1>0, <1>4 DEF SolverInv, ConstraintsSeen
  <1>8. EdgesQuiet'
    <2> SUFFICES ASSUME NEW n \in Node \ (work' \cup skipIDs'), NEW d \in copyTo'[n]
                 PROVE  pts'[n] \ Owed(n)' \subseteq pts'[d]
      BY DEF EdgesQuiet
    <2>1. d \in copyTo[n]
      BY <1>0
    <2>2. CASE n = m
      <3>1. prevPTS[n] \subseteq pts[d]
        BY <2>1, <1>3 DEF SolverInv, EdgesSeen
      <3> QED BY <3>1, <2>2, <1>0
    <2>3. CASE n # m
      BY <2>1, <2>3, <1>0, <1>3 DEF SolverInv, EdgesQuiet
    <2> QED BY <2>2, <2>3
  <1>9. ConstraintsQuiet'
    BY <1>0 DEF SolverInv, ConstraintsQuiet
  <1>10. AllRecorded'
    BY <1>0, <1>2 DEF SolverInv, AllRecorded, Recorded
  <1>11. NoneForgotten' /\ Registers'
    BY <1>0 DEF SolverInv, NoneForgotten, Registers
  <1>12. EdgesAsked' /\ ConstraintsIssued' /\ CopiesAsked'
    BY <1>0, <1>2 DEF SolverInv, EdgesAsked, ConstraintsIssued, CopiesAsked
  <1>13. BlocksBare' /\ Solved' /\ NoPanic'
    BY <1>0 DEF SolverInv, BlocksBare, Solved, NoPanic
  <1> QED BY <1>5, <1>6, <1>7, <1>8, <1>9, <1>10, <1>11, <1>12, <1>13 DEF SolverInv

LEMMA GiveUpKeeps == ASSUME NEW m \in Node PROVE SolverInv /\ GiveUp(m) => SolverInv'
  <1> SUFFICES ASSUME SolverInv, GiveUp(m) PROVE SolverInv'
    OBVIOUS
  <1>0. /\ pc = "attach" /\ batch = <<>> /\ stale = {} /\ work' = work \ {m}
        /\ skipIDs' = skipIDs \cup {m}
        /\ prevPTS' = [prevPTS EXCEPT ![m] = {}]
        /\ pc' = "new"
        /\ UNCHANGED <<input, limit, constraints, batch, pts, copyTo, complex,
                       stale, cur, delta, ix, rest, copies, back, made>>
    BY DEF GiveUp, TakeMin, AtTakeMin, given, callVars
  <1>1. TypeOK
    BY DEF SolverInv
  <1>2. Issued' = Issued
    BY <1>0, SameIssued
  <1>3. \A n \in Node : Owed(n) = {} /\ Owed(n)' = {}
    BY <1>0 DEF Owed
  <1>4. \A n \in Node : \A i : OwedTo(n, i) = {} /\ OwedTo(n, i)' = {}
    BY <1>0 DEF OwedTo
  <1>5. prevPTS' \in [Node -> SUBSET Node] /\ prevPTS'[m] = {} /\ \A n \in Node : n # m => prevPTS'[n] = prevPTS[n]
    BY <1>0, <1>1 DEF TypeOK
  <1>6. TypeOK'
    BY <1>0, <1>1, <1>5 DEF TypeOK
  <1>7. EdgesSeen'
    BY <1>0, <1>3, <1>5 DEF SolverInv, EdgesSeen
  <1>8. ConstraintsSeen'
    BY <1>0, <1>4, <1>5 DEF SolverInv, ConstraintsSeen
  <1>9. EdgesQuiet'
    <2> SUFFICES ASSUME NEW n \in Node \ (work' \cup skipIDs'), NEW d \in copyTo'[n]
                 PROVE  pts'[n] \ Owed(n)' \subseteq pts'[d]
      BY DEF EdgesQuiet
    <2> QED BY <1>0, <1>3 DEF SolverInv, EdgesQuiet
  <1>10. ConstraintsQuiet'
    BY <1>0, <1>5 DEF SolverInv, ConstraintsQuiet
  <1>11. AllRecorded'
    BY <1>0, <1>2 DEF SolverInv, AllRecorded, Recorded
  <1>12. NoneForgotten' /\ Registers'
    BY <1>0, <1>5 DEF SolverInv, NoneForgotten, Registers
  <1>13. EdgesAsked' /\ ConstraintsIssued' /\ CopiesAsked'
    BY <1>0, <1>2 DEF SolverInv, EdgesAsked, ConstraintsIssued, CopiesAsked
  <1>14. BlocksBare' /\ Solved' /\ NoPanic'
    BY <1>0 DEF SolverInv, BlocksBare, Solved, NoPanic
  <1> QED BY <1>6, <1>7, <1>8, <1>9, <1>10, <1>11, <1>12, <1>13, <1>14 DEF SolverInv

LEMMA PropagateKeeps == ASSUME NEW m \in Node PROVE SolverInv /\ Propagate(m) => SolverInv'
  <1> SUFFICES ASSUME SolverInv, Propagate(m) PROVE SolverInv'
    OBVIOUS
  <1>0. /\ pc = "attach" /\ batch = <<>> /\ stale = {} /\ work' = work \ {m}
        /\ prevPTS' = [prevPTS EXCEPT ![m] = pts[m]]
        /\ pc' = "solve" /\ back' = "new" /\ cur' = m /\ delta' = pts[m] \ prevPTS[m]
        /\ ix' = 1 /\ rest' = pts[m] \ prevPTS[m] /\ copies' = <<>>
        /\ UNCHANGED <<input, limit, constraints, batch, pts, copyTo, complex,
                       stale, skipIDs, made>>
    BY DEF Propagate, SolveConstraints, TakeMin, AtTakeMin, given
  <1>1. TypeOK /\ copies = <<>>
    BY <1>0 DEF SolverInv, Registers
  <1>2. Issued' = Issued
    BY <1>0, SameIssued
  <1>3. /\ \A n \in Node : Owed(n) = {} /\ (n # m => Owed(n)' = {})
        /\ Owed(m)' = pts[m] \ prevPTS[m]
    BY <1>0 DEF Owed
  <1>4. /\ \A n \in Node : \A i : OwedTo(n, i) = {} /\ (n # m => OwedTo(n, i)' = {})
        /\ \A i \in Nat \ {0} : OwedTo(m, i)' = pts[m] \ prevPTS[m]
    BY <1>0 DEF OwedTo
  <1>5. /\ prevPTS' \in [Node -> SUBSET Node] /\ prevPTS'[m] = pts[m]
        /\ \A n \in Node : n # m => prevPTS'[n] = prevPTS[n]
    BY <1>0, <1>1 DEF TypeOK
  <1>6. TypeOK'
    BY <1>0, <1>1, <1>5 DEF TypeOK
  <1>7. EdgesSeen'
    BY <1>0, <1>3, <1>5 DEF SolverInv, EdgesSeen
  <1>8. ConstraintsSeen'
    <2> SUFFICES ASSUME NEW n \in Node, NEW i \in 1 .. Len(complex'[n]),
                        NEW x \in prevPTS'[n] \ OwedTo(n, i)'
                 PROVE  Applied(complex'[n][i], x, pts', copyTo', copies')
      BY DEF ConstraintsSeen
    <2>1. i \in Nat \ {0} /\ i \in 1 .. Len(complex[n])
      BY <1>0, <1>1 DEF TypeOK
    <2>2. x \in prevPTS[n]
      BY <2>1, <1>4, <1>5
    <2> QED BY <2>1, <2>2, <1>0, <1>1, <1>4 DEF SolverInv, ConstraintsSeen
  <1>9. EdgesQuiet'
    <2> SUFFICES ASSUME NEW n \in Node \ (work' \cup skipIDs'), NEW d \in copyTo'[n]
                 PROVE  pts'[n] \ Owed(n)' \subseteq pts'[d]
      BY DEF EdgesQuiet
    <2>1. d \in copyTo[n]
      BY <1>0
    <2>2. CASE n = m
      <3>1. prevPTS[n] \subseteq pts[d]
        BY <2>1, <1>3 DEF SolverInv, EdgesSeen
      <3> QED BY <3>1, <2>2, <1>0, <1>3
    <2>3. CASE n # m
      BY <2>1, <2>3, <1>0, <1>3 DEF SolverInv, EdgesQuiet
    <2> QED BY <2>2, <2>3
  <1>10. ConstraintsQuiet'
    BY <1>0, <1>5 DEF SolverInv, ConstraintsQuiet
  <1>11. AllRecorded'
    BY <1>0, <1>2 DEF SolverInv, AllRecorded, Recorded
  <1>12. NoneForgotten' /\ Registers'
    BY <1>0, <1>5 DEF SolverInv, NoneForgotten, Registers
  <1>13. EdgesAsked' /\ ConstraintsIssued' /\ CopiesAsked'
    BY <1>0, <1>1, <1>2 DEF SolverInv, EdgesAsked, ConstraintsIssued, CopiesAsked
  <1>14. BlocksBare' /\ Solved' /\ NoPanic'
    BY <1>0 DEF SolverInv, BlocksBare, Solved, NoPanic
  <1> QED BY <1>6, <1>7, <1>8, <1>9, <1>10, <1>11, <1>12, <1>13, <1>14 DEF SolverInv

LEMMA NextConstraintKeeps == SolverInv /\ NextConstraint => SolverInv'
  <1> SUFFICES ASSUME SolverInv, NextConstraint PROVE SolverInv'
    OBVIOUS
  <1>0. /\ pc = "solve" /\ rest = {} /\ ix' = ix + 1 /\ rest' = delta
        /\ UNCHANGED <<input, limit, pc, constraints, batch, pts, prevPTS, copyTo, complex,
                       work, stale, skipIDs, cur, delta, copies, back, made>>
    BY DEF NextConstraint, AtConstraint, given, nodeVars
  <1>1. TypeOK
    BY DEF SolverInv
  <1>2. Issued' = Issued
    BY <1>0, SameIssued
  <1>3. \A n \in Node : Owed(n)' = Owed(n)
    BY <1>0 DEF Owed
  <1>4. \A n \in Node : \A i \in Nat : OwedTo(n, i)' = OwedTo(n, i)
    BY <1>0, <1>1 DEF OwedTo, TypeOK
  <1>5. TypeOK'
    BY <1>0, <1>1 DEF TypeOK
  <1>6. EdgesSeen' /\ EdgesQuiet' /\ ConstraintsQuiet'
    BY <1>0, <1>3 DEF SolverInv, EdgesSeen, EdgesQuiet, ConstraintsQuiet
  <1>7. ConstraintsSeen'
    <2> SUFFICES ASSUME NEW n \in Node, NEW i \in 1 .. Len(complex'[n]),
                        NEW x \in prevPTS'[n] \ OwedTo(n, i)'
                 PROVE  Applied(complex'[n][i], x, pts', copyTo', copies')
      BY DEF ConstraintsSeen
    <2>1. OwedTo(n, i)' = OwedTo(n, i)
      BY <1>0, <1>1, <1>4 DEF TypeOK
    <2> QED BY <2>1, <1>0 DEF SolverInv, ConstraintsSeen
  <1>8. AllRecorded'
    BY <1>0, <1>2 DEF SolverInv, AllRecorded, Recorded
  <1>9. NoneForgotten' /\ Registers'
    BY <1>0 DEF SolverInv, NoneForgotten, Registers
  <1>10. EdgesAsked' /\ ConstraintsIssued' /\ CopiesAsked'
    BY <1>0, <1>2 DEF SolverInv, EdgesAsked, ConstraintsIssued, CopiesAsked
  <1>11. BlocksBare' /\ Solved' /\ NoPanic'
    BY <1>0 DEF SolverInv, BlocksBare, Solved, NoPanic
  <1> QED BY <1>5, <1>6, <1>7, <1>8, <1>9, <1>10, <1>11 DEF SolverInv

LEMMA CopyOutKeeps == SolverInv /\ CopyOut => SolverInv'
  <1> SUFFICES ASSUME SolverInv, CopyOut PROVE SolverInv'
    OBVIOUS
  <1>0. /\ pc = "solve" /\ copies = <<>> /\ ix > Len(complex[cur])
        /\ pts' = [n \in Node |-> IF n \in copyTo[cur] THEN pts[n] \cup delta ELSE pts[n]]
        /\ work' = work \cup {n \in copyTo[cur] : ~(delta \subseteq pts[n])}
        /\ pc' = back
        /\ UNCHANGED <<input, limit, constraints, batch, prevPTS, copyTo, complex,
                       stale, skipIDs, cur, delta, ix, rest, copies, back, made>>
    BY DEF CopyOut, given, callVars
  <1>1. TypeOK /\ cur \in Node /\ back \in {"new", "attach"}
    BY <1>0 DEF SolverInv, TypeOK
  <1>2. Issued' = Issued
    BY <1>0, SameIssued
  <1>3. \A n \in Node : pts[n] \subseteq pts'[n]
    BY <1>0
  <1>4. \A n \in copyTo[cur] : n \in Node /\ delta \subseteq pts'[n]
    BY <1>0, <1>1 DEF TypeOK
  <1>5. \A n \in Node : n \notin work' => pts'[n] \subseteq pts[n]
    BY <1>0
  <1>6. /\ delta \subseteq prevPTS[cur] /\ batch = <<>> /\ cur \notin stale
        /\ back = "new" => stale = {}
        /\ \A n \in Node : prevPTS[n] \subseteq pts[n]
    BY <1>0 DEF SolverInv, Registers
  <1>7. TypeOK'
    <2>1. ASSUME NEW n \in Node PROVE pts'[n] \subseteq Points[n] /\ pts'[n] \subseteq Node
      <3>1. CASE n \in copyTo[cur]
        <4>1. Edge(Issued, pts, cur, n)
          BY <3>1, <1>1 DEF SolverInv, EdgesAsked
        <4>2. Points[cur] \subseteq Points[n]
          BY <4>1, <1>1, IssuedIn, EdgeTyped DEF TypeOK
        <4>3. delta \subseteq Points[cur]
          BY <1>1, <1>6 DEF TypeOK
        <4> QED BY <4>2, <4>3, <1>0, <1>1 DEF TypeOK
      <3>2. CASE n \notin copyTo[cur]
        BY <3>2, <1>0, <1>1 DEF TypeOK
      <3> QED BY <3>1, <3>2
    <2>2. pts' \in [Node -> SUBSET Node]
      BY <2>1, <1>0
    <2> QED BY <2>1, <2>2, <1>0, <1>1, <1>4 DEF TypeOK
  <1>8. EdgesSeen'
    <2> SUFFICES ASSUME NEW n \in Node, NEW d \in copyTo'[n]
                 PROVE  prevPTS'[n] \ Owed(n)' \subseteq pts'[d]
      BY DEF EdgesSeen
    <2>1. d \in Node /\ d \in copyTo[n]
      BY <1>0, <1>1 DEF TypeOK
    <2>2. prevPTS[n] \ Owed(n) \subseteq pts[d]
      BY <2>1 DEF SolverInv, EdgesSeen
    <2>3. CASE n = cur
      BY <2>1, <2>2, <2>3, <1>0, <1>3, <1>4, <1>6 DEF Owed
    <2>4. CASE n # cur
      <3>1. Owed(n)' = Owed(n)
        BY <2>4, <1>0, <1>1 DEF Owed
      <3> QED BY <3>1, <2>1, <2>2, <1>0, <1>3
    <2> QED BY <2>3, <2>4
  <1>9. ConstraintsSeen'
    <2> SUFFICES ASSUME NEW n \in Node, NEW i \in 1 .. Len(complex'[n]),
                        NEW x \in prevPTS'[n] \ OwedTo(n, i)'
                 PROVE  Applied(complex'[n][i], x, pts', copyTo', copies')
      BY DEF ConstraintsSeen
    <2>1. i \in 1 .. Len(complex[n]) /\ x \in prevPTS[n] /\ complex'[n][i] = complex[n][i]
      BY <1>0
    <2>2. n \notin stale
      BY <1>0 DEF OwedTo
    <2>3. Len(complex[n]) \in Nat /\ ix \in Nat
      BY <1>1 DEF TypeOK
    <2>4. OwedTo(n, i) = {}
      BY <2>1, <2>2, <2>3, <1>0 DEF OwedTo
    <2>5. Applied(complex[n][i], x, pts, copyTo, copies)
      BY <2>1, <2>4 DEF SolverInv, ConstraintsSeen
    <2>6. Applied(complex[n][i], x, pts', copyTo', copies')
      BY <2>1, <2>5, <1>0, <1>3, AttachedTyped, AppliedGrows, ElemsEmpty
    <2> QED BY <2>1, <2>6
  <1>10. EdgesQuiet'
    <2> SUFFICES ASSUME NEW n \in Node \ (work' \cup skipIDs'), NEW d \in copyTo'[n]
                 PROVE  pts'[n] \ Owed(n)' \subseteq pts'[d]
      BY DEF EdgesQuiet
    <2>1. d \in Node /\ d \in copyTo[n] /\ n \notin work \cup skipIDs
      BY <1>0, <1>1 DEF TypeOK
    <2>2. pts[n] \ Owed(n) \subseteq pts[d] /\ pts'[n] \subseteq pts[n]
      BY <2>1, <1>5 DEF SolverInv, EdgesQuiet
    <2>3. CASE n = cur
      BY <2>1, <2>2, <2>3, <1>0, <1>3, <1>4, <1>6 DEF Owed
    <2>4. CASE n # cur
      <3>1. Owed(n)' = Owed(n)
        BY <2>4, <1>0, <1>1 DEF Owed
      <3> QED BY <3>1, <2>1, <2>2, <1>0, <1>3
    <2> QED BY <2>3, <2>4
  <1>11. ConstraintsQuiet'
    BY <1>0, <1>5 DEF SolverInv, ConstraintsQuiet
  <1>12. AllRecorded'
    <2> SUFFICES ASSUME NEW b \in Issued PROVE Recorded(b)'
      BY <1>2 DEF AllRecorded
    <2>1. Recorded(b) /\ b \in Constraint
      BY <1>0, <1>1, IssuedIn DEF SolverInv, AllRecorded
    <2>2. b.src \in pts[b.dst] => b.src \in pts'[b.dst]
      BY <2>1, <1>3, BaseFacts
    <2> QED BY <2>1, <2>2, <1>0 DEF Recorded
  <1>13. NoneForgotten' /\ Registers'
    BY <1>0, <1>1, <1>3, <1>6 DEF SolverInv, NoneForgotten, Registers
  <1>14. EdgesAsked'
    <2> SUFFICES ASSUME NEW n \in Node, NEW d \in copyTo'[n] PROVE Edge(Issued', pts', n, d)
      BY DEF EdgesAsked
    <2>1. Edge(Issued, pts, n, d)
      BY <1>0 DEF SolverInv, EdgesAsked
    <2> QED BY <2>1, <1>2, <1>3, EdgesStayAsked
  <1>15. ConstraintsIssued' /\ CopiesAsked'
    BY <1>0, <1>2, ElemsEmpty DEF SolverInv, ConstraintsIssued, CopiesAsked
  <1>16. BlocksBare' /\ Solved' /\ NoPanic'
    BY <1>0, <1>1 DEF SolverInv, BlocksBare, Solved, NoPanic
  <1> QED BY <1>7, <1>8, <1>9, <1>10, <1>11, <1>12, <1>13, <1>14, <1>15, <1>16 DEF SolverInv

\* An empty worklist means that the constraints hold.
LEMMA EmptyWorkSolved ==
  ASSUME SolverInv, AtTakeMin, work = {}, NEW c \in Issued
  PROVE  Holds(pts, skipIDs, c)
  <1>1. TypeOK /\ pc = "attach" /\ batch = <<>> /\ stale = {} /\ copies = <<>> /\ constraints = <<>>
    BY DEF SolverInv, AtTakeMin, Registers, NoneForgotten
  <1>2. c \in Constraint
    BY <1>1, IssuedIn
  <1>3. Elems(constraints) = {} /\ Elems(batch) = {} /\ Elems(copies) = {}
    BY <1>1, ElemsEmpty
  <1>4. \/ c.op = "addr" /\ c.src \in pts[c.dst]
        \/ c.op = "copy" /\ c.dst \in copyTo[c.src]
        \/ Complex(c) /\ c \in Elems(complex[ptr(c)])
    BY <1>1, <1>3 DEF SolverInv, AllRecorded, Recorded, Complex
  <1>5. ASSUME NEW n \in Node, n \notin skipIDs, NEW d \in copyTo[n] PROVE pts[n] \subseteq pts[d]
    BY <1>1, <1>5 DEF SolverInv, EdgesQuiet, Owed
  <1>6. CASE c.op = "addr" /\ c.src \in pts[c.dst]
    BY <1>6 DEF Holds
  <1>7. CASE c.op = "copy" /\ c.dst \in copyTo[c.src]
    BY <1>7, <1>5, <1>2, BaseFacts DEF Holds
  <1>8. CASE Complex(c) /\ c \in Elems(complex[ptr(c)])
    <2>1. ptr(c) \in Node /\ complex[ptr(c)] \in Seq(Constraint)
      BY <1>8, <1>1, <1>2, ComplexFacts DEF TypeOK
    <2>2. PICK i \in 1 .. Len(complex[ptr(c)]) : complex[ptr(c)][i] = c
      BY <2>1, <1>8, ElemsIn
    <2>3. complex[ptr(c)] # <<>>
      BY <2>1, <2>2
    <2>4. ASSUME ptr(c) \notin skipIDs, NEW x \in pts[ptr(c)]
          PROVE  Applies(c, x) /\ \E f \in Instances(c, x) :
             /\ \A l \in Labels(c, x, f) : l[2] \in pts[l[1]]
             /\ \A e \in Elems(Copies(c, x, f)) :
                  e[1] \in skipIDs \/ pts[e[1]] \subseteq pts[e[2]]
      <3>1. x \in prevPTS[ptr(c)]
        BY <2>1, <2>3, <2>4 DEF SolverInv, ConstraintsQuiet
      <3>2. x \in Points[ptr(c)]
        BY <2>1, <2>4, <1>1 DEF TypeOK
      <3>3. Applied(c, x, pts, copyTo, copies)
        BY <3>1, <2>1, <2>2, <1>1 DEF SolverInv, ConstraintsSeen, OwedTo
      <3>4. PICK f \in Instances(c, x) :
              /\ \A l \in Labels(c, x, f) : l[2] \in pts[l[1]]
              /\ \A e \in Elems(Copies(c, x, f)) :
                   e[1] = e[2] \/ e[2] \in copyTo[e[1]] \/ e \in Elems(copies)
        BY <3>3 DEF Applied
      <3>5. Elems(Copies(c, x, f)) \subseteq Node \X Node
        BY <3>2, <1>2, <1>8, ComplexFacts, ElemsIn
      <3>6. \A e \in Elems(Copies(c, x, f)) : e[1] \in skipIDs \/ pts[e[1]] \subseteq pts[e[2]]
        BY <3>4, <3>5, <1>3, <1>5
      <3> QED BY <3>3, <3>4, <3>6 DEF Applied
    <2>5. c.op # "addr" /\ c.op # "copy"
      BY <1>8 DEF Complex
    <2> QED BY <2>4, <2>5 DEF Holds
  <1> QED BY <1>4, <1>6, <1>7, <1>8

LEMMA BreakKeeps == SolverInv /\ Break => SolverInv'
  <1> SUFFICES ASSUME SolverInv, Break PROVE SolverInv'
    OBVIOUS
  <1>0. /\ AtTakeMin /\ work = {} /\ pc' = "done"
        /\ prevPTS' = [n \in Node |-> {}]
        /\ copyTo' = [n \in Node |-> {}]
        /\ complex' = [n \in Node |-> <<>>]
        /\ UNCHANGED <<input, limit, constraints, batch, pts, work, stale, skipIDs, cur, delta,
                       ix, rest, copies, back, made>>
    BY DEF Break, given, callVars
  <1>1. TypeOK /\ pc = "attach" /\ batch = <<>> /\ stale = {} /\ copies = <<>> /\ constraints = <<>>
    BY <1>0 DEF SolverInv, AtTakeMin, Registers, NoneForgotten
  <1>2. Issued' = Issued
    BY <1>0, SameIssued
  <1>3. \A n \in Node : prevPTS'[n] = {} /\ copyTo'[n] = {} /\ complex'[n] = <<>>
    BY <1>0
  <1>4. TypeOK'
    BY <1>0, <1>1 DEF TypeOK
  <1>5. EdgesSeen' /\ EdgesQuiet' /\ ConstraintsQuiet' /\ EdgesAsked'
    BY <1>3 DEF EdgesSeen, EdgesQuiet, ConstraintsQuiet, EdgesAsked
  <1>6. ConstraintsSeen'
    <2> SUFFICES ASSUME NEW n \in Node, NEW i \in 1 .. Len(complex'[n]),
                        NEW x \in prevPTS'[n] \ OwedTo(n, i)'
                 PROVE  Applied(complex'[n][i], x, pts', copyTo', copies')
      BY DEF ConstraintsSeen
    <2> QED BY <1>3
  <1>7. AllRecorded' /\ NoneForgotten' /\ Registers'
    BY <1>0, <1>1, <1>3 DEF AllRecorded, NoneForgotten, Registers
  <1>8. ConstraintsIssued' /\ CopiesAsked'
    BY <1>0, <1>1, <1>2, <1>3, ElemsEmpty DEF ConstraintsIssued, CopiesAsked
  <1>9. BlocksBare'
    BY <1>3, BaseFacts DEF BlocksBare
  <1>10. Solved'
    BY <1>0, <1>2, EmptyWorkSolved DEF Solved
  <1>11. NoPanic'
    BY <1>0 DEF NoPanic
  <1> QED BY <1>4, <1>5, <1>6, <1>7, <1>8, <1>9, <1>10, <1>11 DEF SolverInv

LEMMA OnlineCopyKeeps == SolverInv /\ OnlineCopy => SolverInv'
  <1> SUFFICES ASSUME SolverInv, OnlineCopy PROVE SolverInv'
    OBVIOUS
  <1> DEFINE src == Head(copies)[1]
             dst == Head(copies)[2]
  <1>0. /\ pc = "solve" /\ copies # <<>> /\ copies' = Tail(copies)
        /\ UNCHANGED <<input, limit, pc, constraints, batch, prevPTS, complex, stale, skipIDs,
                       cur, delta, ix, rest, back, made>>
        /\ \/ (dst = src \/ dst \in copyTo[src]) /\ UNCHANGED <<pts, copyTo, work>>
           \/ /\ copyTo' = [copyTo EXCEPT ![src] = @ \cup {dst}]
              /\ pts' = [pts EXCEPT ![dst] = @ \cup pts[src]]
              /\ work' = IF pts[src] \subseteq pts[dst] THEN work ELSE work \cup {dst}
    BY DEF OnlineCopy, given
  <1>1. TypeOK
    BY DEF SolverInv
  <1>2. Issued' = Issued
    BY <1>0, SameIssued
  <1>3. /\ Head(copies) \in Node \X Node /\ Tail(copies) \in Seq(Node \X Node)
        /\ Elems(copies) = {Head(copies)} \cup Elems(Tail(copies))
    BY <1>0, <1>1, ElemsHeadTail DEF TypeOK
  <1>4. src \in Node /\ dst \in Node /\ Head(copies) = <<src, dst>>
    BY <1>3
  <1>5. Edge(Issued, pts, src, dst)
    BY <1>3 DEF SolverInv, CopiesAsked
  <1> HIDE DEF src, dst
  <1>6. Points[src] \subseteq Points[dst] /\ \A b \in Constraint : b.op = "invoke" => src # b.dst
    <2>1. Issued \subseteq Constraint /\ \A n \in Node : pts[n] \subseteq Points[n]
      BY <1>1, IssuedIn DEF TypeOK
    <2>2. /\ src \in Node /\ dst \in Node
          /\ Points[src] \subseteq Points[dst]
          /\ \A b \in Constraint : b.op = "invoke" => src # b.dst
      BY <2>1, <1>5, EdgeTyped, Zenon
    <2> QED BY <2>2
  <1>a. /\ pts \in [Node -> SUBSET Node] /\ copyTo \in [Node -> SUBSET Node]
        /\ \A n \in Node : pts[n] \subseteq Points[n]
        /\ work \subseteq Node
    BY <1>1 DEF TypeOK
  \* What both cases have in common.
  <1>b. /\ \A n \in Node : pts'[n] = pts[n] \/ (n = dst /\ pts'[n] = pts[n] \cup pts[src])
        /\ \A n \in Node : copyTo'[n] = copyTo[n] \/ (n = src /\ copyTo'[n] = copyTo[n] \cup {dst})
        /\ pts' \in [Node -> SUBSET Node] /\ copyTo' \in [Node -> SUBSET Node]
        /\ work \subseteq work' /\ work' \subseteq Node
        /\ dst \notin work' => pts'[dst] \subseteq pts[dst]
        /\ src = dst \/ dst \in copyTo'[src]
        /\ dst \in copyTo'[src] /\ dst \notin copyTo[src] => pts[src] \subseteq pts'[dst]
    <2>1. CASE (dst = src \/ dst \in copyTo[src]) /\ UNCHANGED <<pts, copyTo, work>>
      BY <2>1, <1>a
    <2>2. CASE /\ copyTo' = [copyTo EXCEPT ![src] = @ \cup {dst}]
               /\ pts' = [pts EXCEPT ![dst] = @ \cup pts[src]]
               /\ work' = IF pts[src] \subseteq pts[dst] THEN work ELSE work \cup {dst}
      <3>1. /\ copyTo' = [copyTo EXCEPT ![src] = copyTo[src] \cup {dst}]
            /\ pts' = [pts EXCEPT ![dst] = pts[dst] \cup pts[src]]
        BY <2>2
      <3>2. /\ \A n \in Node : n # dst => pts'[n] = pts[n]
            /\ pts'[dst] = pts[dst] \cup pts[src]
            /\ pts' \in [Node -> SUBSET Node]
        BY <3>1, <1>a, <1>4
      <3>3. /\ \A n \in Node : n # src => copyTo'[n] = copyTo[n]
            /\ copyTo'[src] = copyTo[src] \cup {dst}
            /\ copyTo' \in [Node -> SUBSET Node]
        BY <3>1, <1>a, <1>4
      <3> QED BY <3>2, <3>3, <2>2, <1>a, <1>4
    <2> QED BY <2>1, <2>2, <1>0
  <1>7. /\ \A n \in Node : pts[n] \subseteq pts'[n] /\ pts'[n] \subseteq Points[n]
        /\ pts' \in [Node -> SUBSET Node] /\ copyTo' \in [Node -> SUBSET Node]
        /\ work \subseteq work' /\ work' \subseteq Node
    BY <1>a, <1>b, <1>4, <1>6
  <1>8. \A n \in Node : n \notin work' => pts'[n] \subseteq pts[n]
    BY <1>b
  <1>9. /\ \A n \in Node : copyTo[n] \subseteq copyTo'[n]
        /\ \A n \in Node : \A d \in copyTo'[n] : d \in Node /\ (d \in copyTo[n] \/ (n = src /\ d = dst))
        /\ \A n \in Node : n # src => copyTo'[n] = copyTo[n]
        /\ src = dst \/ dst \in copyTo'[src]
    BY <1>b
  <1>10. dst \in copyTo'[src] /\ dst \notin copyTo[src] => pts[src] \subseteq pts'[dst]
    BY <1>b
  <1>11. \A n \in Node : Owed(n)' = Owed(n) /\ \A i : OwedTo(n, i)' = OwedTo(n, i)
    BY <1>0 DEF Owed, OwedTo
  <1>12. \A n \in Node : prevPTS[n] \subseteq pts[n]
    BY DEF SolverInv, Registers
  <1>13. TypeOK'
    BY <1>0, <1>1, <1>3, <1>7 DEF TypeOK
  <1>14. EdgesSeen'
    <2> SUFFICES ASSUME NEW n \in Node, NEW d \in copyTo'[n]
                 PROVE  prevPTS'[n] \ Owed(n)' \subseteq pts'[d]
      BY DEF EdgesSeen
    <2>1. d \in Node
      BY <1>9
    <2>2. CASE d \in copyTo[n]
      BY <2>1, <2>2, <1>0, <1>7, <1>11 DEF SolverInv, EdgesSeen
    <2>3. CASE d \notin copyTo[n]
      BY <2>3, <1>0, <1>9, <1>10, <1>12
    <2> QED BY <2>2, <2>3
  <1>15. ConstraintsSeen'
    <2> SUFFICES ASSUME NEW n \in Node, NEW i \in 1 .. Len(complex'[n]),
                        NEW x \in prevPTS'[n] \ OwedTo(n, i)'
                 PROVE  Applied(complex'[n][i], x, pts', copyTo', copies')
      BY DEF ConstraintsSeen
    <2>1. i \in 1 .. Len(complex[n]) /\ x \in prevPTS[n] \ OwedTo(n, i) /\ complex'[n][i] = complex[n][i]
      BY <1>0, <1>11
    <2>2. Applied(complex[n][i], x, pts, copyTo, copies)
      BY <2>1 DEF SolverInv, ConstraintsSeen
    <2>3. \A e \in Elems(copies) : e \in Elems(copies') \/ e[1] = e[2] \/ e[2] \in copyTo'[e[1]]
      BY <1>0, <1>3, <1>4, <1>9
    <2>4. Applied(complex[n][i], x, pts', copyTo', copies')
      BY <2>1, <2>2, <2>3, <1>7, <1>9, AttachedTyped, AppliedGrows
    <2> QED BY <2>1, <2>4
  <1>16. EdgesQuiet'
    <2> SUFFICES ASSUME NEW n \in Node \ (work' \cup skipIDs'), NEW d \in copyTo'[n]
                 PROVE  pts'[n] \ Owed(n)' \subseteq pts'[d]
      BY DEF EdgesQuiet
    <2>1. d \in Node /\ n \notin work \cup skipIDs /\ pts'[n] \subseteq pts[n]
      BY <1>0, <1>7, <1>8, <1>9
    <2>2. CASE d \in copyTo[n]
      <3>1. pts[n] \ Owed(n) \subseteq pts[d]
        BY <2>1, <2>2 DEF SolverInv, EdgesQuiet
      <3> QED BY <3>1, <2>1, <1>7, <1>11
    <2>3. CASE d \notin copyTo[n]
      BY <2>1, <2>3, <1>9, <1>10
    <2> QED BY <2>2, <2>3
  <1>17. ConstraintsQuiet'
    BY <1>0, <1>7, <1>8 DEF SolverInv, ConstraintsQuiet
  <1>18. AllRecorded'
    <2> SUFFICES ASSUME NEW b \in Issued PROVE Recorded(b)'
      BY <1>2 DEF AllRecorded
    <2>1. Recorded(b) /\ b \in Constraint
      BY <1>0, <1>1, IssuedIn DEF SolverInv, AllRecorded
    <2>2. /\ b.src \in pts[b.dst] => b.src \in pts'[b.dst]
          /\ b.dst \in copyTo[b.src] => b.dst \in copyTo'[b.src]
      BY <2>1, <1>7, <1>9, BaseFacts
    <2> QED BY <2>1, <2>2, <1>0 DEF Recorded
  <1>19. NoneForgotten' /\ Registers'
    BY <1>0, <1>7, <1>12 DEF SolverInv, NoneForgotten, Registers
  <1>20. EdgesAsked'
    <2> SUFFICES ASSUME NEW n \in Node, NEW d \in copyTo'[n] PROVE Edge(Issued', pts', n, d)
      BY DEF EdgesAsked
    <2>1. Edge(Issued, pts, n, d)
      BY <1>5, <1>9 DEF SolverInv, EdgesAsked
    <2> QED BY <2>1, <1>2, <1>7, EdgesStayAsked
  <1>21. CopiesAsked'
    <2> SUFFICES ASSUME NEW e \in Elems(copies') PROVE Edge(Issued', pts', e[1], e[2])
      BY DEF CopiesAsked
    <2>1. Edge(Issued, pts, e[1], e[2])
      BY <1>0, <1>3 DEF SolverInv, CopiesAsked
    <2> QED BY <2>1, <1>2, <1>7, EdgesStayAsked
  <1>22. ConstraintsIssued'
    BY <1>0, <1>2 DEF SolverInv, ConstraintsIssued
  <1>23. BlocksBare'
    BY <1>0, <1>6, <1>9, BaseFacts DEF SolverInv, BlocksBare
  <1>24. Solved' /\ NoPanic'
    BY <1>0 DEF Solved, NoPanic
  <1> QED BY <1>13, <1>14, <1>15, <1>16, <1>17, <1>18, <1>19, <1>20, <1>21, <1>22, <1>23, <1>24
          DEF SolverInv

\* The constraint at ix and a label it has still to see.
LEMMA AppliedNow ==
  ASSUME SolverInv, AtConstraint, NEW x \in rest
  PROVE  /\ cur \in Node /\ ix \in 1 .. Len(complex[cur])
         /\ complex[cur][ix] \in Constraint
         /\ complex[cur][ix] \in Issued
         /\ Complex(complex[cur][ix])
         /\ ptr(complex[cur][ix]) = cur
         /\ x \in prevPTS[cur] /\ x \in pts[cur] /\ x \in Points[cur]
         /\ Applies(complex[cur][ix], x)
         /\ ChosenInstance(complex[cur][ix], x) \in Instances(complex[cur][ix], x)
  <1>1. /\ cur \in Node /\ ix \in Nat \ {0} /\ ix <= Len(complex[cur])
        /\ complex[cur] \in Seq(Constraint)
    BY DEF SolverInv, TypeOK, AtConstraint
  <1>2. ix \in 1 .. Len(complex[cur])
    BY <1>1
  <1>3. x \in prevPTS[cur]
    BY DEF SolverInv, TypeOK, Registers, AtConstraint
  <1>4. /\ complex[cur][ix] \in Constraint
        /\ Complex(complex[cur][ix])
        /\ ptr(complex[cur][ix]) = cur
        /\ x \in Points[cur]
    BY <1>1, <1>2, <1>3, AttachedTyped
  <1>5. complex[cur][ix] \in Issued
    BY <1>1, <1>2, ElemsIn DEF SolverInv, ConstraintsIssued
  <1>6. x \in pts[cur]
    BY <1>1, <1>3 DEF SolverInv, Registers
  <1>7. Applies(complex[cur][ix], x)
    BY <1>4, ComplexFacts
  <1>8. ChosenInstance(complex[cur][ix], x) \in Instances(complex[cur][ix], x)
    BY DEF ChosenInstance, Instances
  <1> QED BY <1>1, <1>2, <1>3, <1>4, <1>5, <1>6, <1>7, <1>8

LEMMA ApplyKeeps == ASSUME NEW y \in Node PROVE SolverInv /\ Apply(y) => SolverInv'
  <1> SUFFICES ASSUME SolverInv, Apply(y) PROVE SolverInv'
    OBVIOUS
  <1> DEFINE c == complex[cur][ix]
             f == ChosenInstance(c, y)
  <1>1. TypeOK /\ AtConstraint /\ y \in rest
    BY DEF SolverInv, Apply, Smallest
  <1>2. /\ cur \in Node /\ ix \in 1 .. Len(complex[cur])
        /\ c \in Constraint /\ c \in Issued /\ Complex(c) /\ ptr(c) = cur
        /\ y \in prevPTS[cur] /\ y \in pts[cur] /\ y \in Points[cur]
        /\ Applies(c, y) /\ f \in Instances(c, y)
    BY <1>1, AppliedNow
  <1>0. /\ pc = "solve" /\ copies = <<>> /\ rest' = rest \ {y}
        /\ GenMissingFn(c, f)
        /\ AddLabels(c, Labels(c, y, f))
        /\ copies' = Copies(c, y, f)
        /\ UNCHANGED <<input, limit, pc, batch, prevPTS, copyTo, complex, stale, skipIDs,
                       cur, delta, ix, back>>
    BY <1>2 DEF Apply, AtConstraint, given
  <1> HIDE DEF c, f
  <1>3. /\ c.op = "invoke" => f \in DOMAIN Body
        /\ Copies(c, y, f) \in Seq(Node \X Node)
        /\ Labels(c, y, f) \subseteq Node \X Node
        /\ \A l \in Labels(c, y, f) : l[2] \in Points[l[1]]
    BY <1>2, ComplexFacts
  <1>4. /\ \A n \in Node : /\ pts[n] \subseteq pts'[n]
                           /\ pts'[n] \subseteq Points[n]
                           /\ pts'[n] \subseteq Node
        /\ pts' \in [Node -> SUBSET Node]
        /\ work \subseteq work' /\ work' \subseteq Node
    <2>1. pts' = [n \in Node |-> pts[n] \cup {x \in Node : <<n, x>> \in Labels(c, y, f)}]
      BY <1>0 DEF AddLabels
    <2>2. ASSUME NEW n \in Node, NEW x \in Node, <<n, x>> \in Labels(c, y, f)
          PROVE  x \in Points[n]
      BY <2>2, <1>3
    <2>3. work \subseteq work' /\ work' \subseteq Node
      BY <1>0, <1>1 DEF AddLabels, TypeOK
    <2> QED BY <2>1, <2>2, <2>3, <1>1 DEF TypeOK
  <1>5. \A l \in Labels(c, y, f) : l[2] \in pts'[l[1]]
    BY <1>0, <1>3 DEF AddLabels
  <1>6. ASSUME NEW n \in Node, n \notin work', copyTo[n] # {} \/ complex[n] # <<>>
        PROVE  pts'[n] \subseteq pts[n]
    <2>1. CASE c.op # "invoke"
      BY <1>0, <1>6, <2>1 DEF AddLabels
    <2>2. CASE c.op = "invoke"
      <3>1. n # c.dst
        BY <1>2, <1>6, <2>2 DEF SolverInv, BlocksBare
      <3>2. \A l \in Labels(c, y, f) : l[1] = c.dst
        BY <2>2 DEF Labels
      <3>3. \A x \in Node : <<n, x>> \notin Labels(c, y, f)
        BY <3>1, <3>2
      <3> QED BY <3>3, <1>0 DEF AddLabels
    <2> QED BY <2>1, <2>2
  <1>7. /\ made \subseteq made' /\ made' \subseteq DOMAIN Body
        /\ constraints' \in Seq(Constraint)
        /\ Elems(constraints) \subseteq Elems(constraints')
        /\ \A g \in made' : g \in made \/ Elems(Body[g]) \subseteq Elems(constraints')
        /\ Elems(constraints') \subseteq Elems(constraints) \cup UNION {Elems(Body[g]) : g \in made'}
    <2>1. CASE c.op = "invoke" /\ f \notin made
      <3>1. Body[f] \in Seq(Constraint) /\ constraints \in Seq(Constraint)
        BY <2>1, <1>1, <1>3, BodyAssumption DEF TypeOK
      <3>2. made' = made \cup {f} /\ constraints' = constraints \o Body[f]
        BY <2>1, <1>0 DEF GenMissingFn
      <3>3. constraints' \in Seq(Constraint) /\ Elems(constraints') = Elems(constraints) \cup Elems(Body[f])
        BY <3>1, <3>2, ElemsConcat
      <3> QED BY <3>2, <3>3, <2>1, <1>1, <1>3 DEF TypeOK
    <2>2. CASE ~(c.op = "invoke" /\ f \notin made)
      BY <2>2, <1>0, <1>1 DEF GenMissingFn, TypeOK
    <2> QED BY <2>1, <2>2
  <1>8. /\ Issued \subseteq Issued'
        /\ \A b \in Issued' : b \in Issued \/ b \in Elems(constraints')
        /\ Elems(constraints') \subseteq Issued'
    <2>1. Elems(constraints) \subseteq Issued
      BY DEF SolverInv, ConstraintsIssued
    <2>2. Issued' = Elems(input) \cup UNION {Elems(Body[g]) : g \in made'}
      BY <1>0 DEF Issued
    <2>3. Issued \subseteq Issued'
      BY <2>2, <1>7 DEF Issued
    <2>4. \A b \in Issued' : b \in Issued \/ b \in Elems(constraints')
      BY <2>2, <1>7 DEF Issued
    <2> QED BY <2>1, <2>2, <2>3, <2>4, <1>7
  <1>9. \A n \in Node : Owed(n)' = Owed(n)
    BY <1>0 DEF Owed
  <1>10. TypeOK'
    BY <1>0, <1>1, <1>3, <1>4, <1>7 DEF TypeOK
  <1>11. EdgesSeen'
    <2> SUFFICES ASSUME NEW n \in Node, NEW d \in copyTo'[n]
                 PROVE  prevPTS'[n] \ Owed(n)' \subseteq pts'[d]
      BY DEF EdgesSeen
    <2>1. d \in Node /\ d \in copyTo[n]
      BY <1>0, <1>1 DEF TypeOK
    <2> QED BY <2>1, <1>0, <1>4, <1>9 DEF SolverInv, EdgesSeen
  <1>12. ConstraintsSeen'
    <2> SUFFICES ASSUME NEW n \in Node, NEW i \in 1 .. Len(complex'[n]),
                        NEW x \in prevPTS'[n] \ OwedTo(n, i)'
                 PROVE  Applied(complex'[n][i], x, pts', copyTo', copies')
      BY DEF ConstraintsSeen
    <2>1. i \in 1 .. Len(complex[n]) /\ x \in prevPTS[n] /\ complex'[n][i] = complex[n][i]
      BY <1>0
    <2>2. CASE x \in OwedTo(n, i)
      <3>1. n = cur /\ i = ix /\ x = y
        BY <2>2, <1>0, <1>1 DEF OwedTo, TypeOK
      <3>2. complex[n][i] = c
        BY <3>1 DEF c
      <3>3. Applied(c, y, pts', copyTo', copies')
        BY <1>0, <1>2, <1>5 DEF Applied
      <3> QED BY <3>1, <3>2, <3>3, <2>1
    <2>3. CASE x \notin OwedTo(n, i)
      <3>1. Applied(complex[n][i], x, pts, copyTo, copies)
        BY <2>1, <2>3 DEF SolverInv, ConstraintsSeen
      <3>2. Elems(copies) = {}
        BY <1>0, ElemsEmpty
      <3>3. Applied(complex[n][i], x, pts', copyTo', copies')
        BY <2>1, <3>1, <3>2, <1>0, <1>4, AttachedTyped, AppliedGrows
      <3> QED BY <2>1, <3>3
    <2> QED BY <2>2, <2>3
  <1>13. EdgesQuiet'
    <2> SUFFICES ASSUME NEW n \in Node \ (work' \cup skipIDs'), NEW d \in copyTo'[n]
                 PROVE  pts'[n] \ Owed(n)' \subseteq pts'[d]
      BY DEF EdgesQuiet
    <2>1. d \in Node /\ d \in copyTo[n] /\ n \notin work \cup skipIDs
      BY <1>0, <1>1, <1>4 DEF TypeOK
    <2>2. pts'[n] \subseteq pts[n]
      BY <2>1, <1>6
    <2>3. pts[n] \ Owed(n) \subseteq pts[d]
      BY <2>1 DEF SolverInv, EdgesQuiet
    <2> QED BY <2>1, <2>2, <2>3, <1>4, <1>9
  <1>14. ConstraintsQuiet'
    <2> SUFFICES ASSUME NEW n \in Node \ (work' \cup skipIDs'), complex'[n] # <<>>
                 PROVE  pts'[n] \subseteq prevPTS'[n]
      BY DEF ConstraintsQuiet
    <2>1. n \notin work \cup skipIDs /\ complex[n] # <<>> /\ pts'[n] \subseteq pts[n]
      BY <1>0, <1>4, <1>6
    <2> QED BY <2>1, <1>0 DEF SolverInv, ConstraintsQuiet
  <1>15. AllRecorded'
    <2> SUFFICES ASSUME NEW b \in Issued', b \notin Elems(constraints') PROVE Recorded(b)'
      BY DEF AllRecorded, Recorded
    <2>1. b \in Issued /\ b \notin Elems(constraints)
      BY <1>7, <1>8
    <2>2. Recorded(b) /\ b \in Constraint
      BY <2>1, <1>0, <1>1, IssuedIn DEF SolverInv, AllRecorded
    <2>3. b.src \in pts[b.dst] => b.src \in pts'[b.dst]
      BY <2>2, <1>4, BaseFacts
    <2> QED BY <2>1, <2>2, <2>3, <1>0 DEF Recorded
  <1>16. NoneForgotten' /\ Registers'
    BY <1>0, <1>4 DEF SolverInv, NoneForgotten, Registers
  <1>17. EdgesAsked'
    <2> SUFFICES ASSUME NEW n \in Node, NEW d \in copyTo'[n] PROVE Edge(Issued', pts', n, d)
      BY DEF EdgesAsked
    <2>1. Edge(Issued, pts, n, d)
      BY <1>0 DEF SolverInv, EdgesAsked
    <2> QED BY <2>1, <1>4, <1>8, EdgesStayAsked
  <1>18. CopiesAsked'
    <2> SUFFICES ASSUME NEW e \in Elems(copies') PROVE Edge(Issued', pts', e[1], e[2])
      BY DEF CopiesAsked
    <2>1. e \in Elems(Copies(c, y, f)) /\ e \in Node \X Node
      BY <1>0, <1>3, ElemsIn
    <2>2. e = <<e[1], e[2]>>
      BY <2>1
    <2>3. y \in pts'[ptr(c)] /\ c \in Issued'
      BY <1>2, <1>4, <1>8
    <2> QED BY <2>1, <2>2, <2>3, <1>2 DEF Edge
  <1>19. ConstraintsIssued'
    BY <1>0, <1>8 DEF SolverInv, ConstraintsIssued
  <1>20. BlocksBare' /\ Solved' /\ NoPanic'
    BY <1>0 DEF SolverInv, BlocksBare, Solved, NoPanic
  <1> QED BY <1>10, <1>11, <1>12, <1>13, <1>14, <1>15, <1>16, <1>17, <1>18, <1>19, <1>20
          DEF SolverInv

LEMMA InitSolverInv == Init => SolverInv
  <1> SUFFICES ASSUME Init PROVE SolverInv
    OBVIOUS
  <1>1. input \in Seq(Constraint)
    BY InputsAssumption DEF Init
  <1>2. Issued = Elems(input)
    BY DEF Init, Issued
  <1>3. TypeOK
    BY <1>1, NodesAssumption DEF Init, TypeOK
  <1>4. EdgesSeen /\ EdgesQuiet /\ ConstraintsQuiet /\ EdgesAsked
    BY DEF Init, EdgesSeen, EdgesQuiet, ConstraintsQuiet, EdgesAsked
  <1>5. ConstraintsSeen
    BY DEF Init, ConstraintsSeen
  <1>6. AllRecorded
    BY <1>2 DEF Init, AllRecorded, Recorded
  <1>7. NoneForgotten /\ Registers /\ Solved /\ NoPanic
    BY DEF Init, NoneForgotten, Registers, Solved, NoPanic
  <1>8. ConstraintsIssued /\ CopiesAsked
    BY <1>2, ElemsEmpty DEF Init, ConstraintsIssued, CopiesAsked
  <1>9. BlocksBare
    BY BaseFacts DEF Init, BlocksBare
  <1> QED BY <1>3, <1>4, <1>5, <1>6, <1>7, <1>8, <1>9 DEF SolverInv

LEMMA StutterKeeps == SolverInv /\ UNCHANGED vars => SolverInv'
  <1> SUFFICES ASSUME SolverInv, UNCHANGED vars PROVE SolverInv'
    OBVIOUS
  <1>0. UNCHANGED <<input, limit, pc, back, constraints, batch, pts, prevPTS, copyTo, complex,
                    work, stale, skipIDs, cur, delta, ix, rest, copies, made>>
    BY DEF vars, given, nodeVars, callVars
  <1>1. Issued' = Issued
    BY <1>0, SameIssued
  <1>2. TypeOK'
    BY <1>0 DEF SolverInv, TypeOK
  <1>3. EdgesSeen' /\ EdgesQuiet' /\ ConstraintsQuiet'
    BY <1>0 DEF SolverInv, EdgesSeen, EdgesQuiet, ConstraintsQuiet, Owed
  <1>4. ConstraintsSeen'
    BY <1>0 DEF SolverInv, ConstraintsSeen, OwedTo
  <1>5. AllRecorded' /\ NoneForgotten' /\ Registers'
    BY <1>0, <1>1 DEF SolverInv, AllRecorded, Recorded, NoneForgotten, Registers
  <1>6. EdgesAsked' /\ ConstraintsIssued' /\ CopiesAsked'
    BY <1>0, <1>1 DEF SolverInv, EdgesAsked, ConstraintsIssued, CopiesAsked
  <1>7. BlocksBare' /\ Solved' /\ NoPanic'
    BY <1>0, <1>1 DEF SolverInv, BlocksBare, Solved, NoPanic
  <1> QED BY <1>2, <1>3, <1>4, <1>5, <1>6, <1>7 DEF SolverInv

-----------------------------------------------------------------------------
(* The theorems. *)

\* The solver keeps its inductive invariant: every label of prevPTS has been
\* seen by every edge and constraint of its node except what the current
\* round still owes, and nodes off the worklist have nothing to propagate.
THEOREM SolverInductive == Spec => []SolverInv
  <1>1. SolverInv /\ [Next]_vars => SolverInv'
    <2> SUFFICES ASSUME SolverInv, [Next]_vars PROVE SolverInv'
      OBVIOUS
    <2>1. CASE TakeConstraints
      BY <2>1, TakeConstraintsKeeps
    <2>2. CASE Attach
      BY <2>2, AttachKeeps
    <2>3. CASE Break
      BY <2>3, BreakKeeps
    <2>4. CASE OnlineCopy
      BY <2>4, OnlineCopyKeeps
    <2>5. CASE NextConstraint
      BY <2>5, NextConstraintKeeps
    <2>6. CASE CopyOut
      BY <2>6, CopyOutKeeps
    <2>7. ASSUME NEW n \in Node, ApplyStale(n) PROVE SolverInv'
      BY <2>7, ApplyStaleKeeps
    <2>8. ASSUME NEW n \in Node, Pass(n) PROVE SolverInv'
      BY <2>8, PassKeeps
    <2>9. ASSUME NEW n \in Node, GiveUp(n) PROVE SolverInv'
      BY <2>9, GiveUpKeeps
    <2>10. ASSUME NEW n \in Node, Propagate(n) PROVE SolverInv'
      BY <2>10, PropagateKeeps
    <2>11. ASSUME NEW n \in Node, Apply(n) PROVE SolverInv'
      BY <2>11, ApplyKeeps
    <2>12. CASE UNCHANGED vars
      BY <2>12, StutterKeeps
    <2> QED BY <2>1, <2>2, <2>3, <2>4, <2>5, <2>6, <2>7, <2>8, <2>9, <2>10, <2>11, <2>12 DEF Next
  <1> QED BY <1>1, InitSolverInv, PTL DEF Spec

\* When solve() returns, the points-to sets satisfy every constraint of every
\* function analysed, except for what leaves a node given up at the limit.
THEOREM SolverSolved == Spec => []Solved
  BY SolverInductive, PTL DEF SolverInv

\* On well-typed constraints taggedValue never panics.
THEOREM SolverNoPanic == Spec => []NoPanic
  BY SolverInductive, PTL DEF SolverInv

-----------------------------------------------------------------------------
(* The solver implements Andersen.  The operators of Constraints are seen  *)
(* twice, directly and through the instance.                               *)

LEMMA SameElems == ASSUME NEW s PROVE Promise!Elems(s) = Elems(s)
  BY DEF Promise!Elems, Elems

LEMMA SameCardinality == ASSUME NEW S PROVE Promise!Cardinality(S) = Cardinality(S)
  BY DEF Promise!Cardinality, Cardinality

LEMMA SamePtr == ASSUME NEW c PROVE Promise!ptr(c) = ptr(c) /\ (Promise!Complex(c) <=> Complex(c))
  BY DEF Promise!ptr, ptr, Promise!Complex, Complex

LEMMA SameApplies ==
  ASSUME NEW c, NEW x
  PROVE  /\ Promise!Applies(c, x) <=> Applies(c, x)
         /\ Promise!Instances(c, x) = Instances(c, x)
  BY DEF Promise!Applies, Applies, Promise!OnTagged, OnTagged, Promise!Instances, Instances,
         Promise!OwnInstance, OwnInstance, Promise!SharedInstance, SharedInstance,
         Promise!Callee, Callee

LEMMA SameLabels ==
  ASSUME NEW c, NEW x, NEW f PROVE Promise!Labels(c, x, f) = Labels(c, x, f)
  BY DEF Promise!Labels, Labels

LEMMA SameCopies ==
  ASSUME NEW c, NEW x, NEW f PROVE Promise!Copies(c, x, f) = Copies(c, x, f)
  <1>1. Promise!Untags(c, x) <=> Untags(c, x)
    BY DEF Promise!Untags, Untags
  <1>2. \A d, s, n : Promise!CopyN(d, s, n) = CopyN(d, s, n)
    BY DEF Promise!CopyN, CopyN
  <1>3. \A b, p, o, s : Promise!CallCopies(b, p, o, s) = CallCopies(b, p, o, s)
    BY <1>2 DEF Promise!CallCopies, CallCopies
  <1>4. Promise!Callee(c, x) = Callee(c, x)
    BY DEF Promise!Callee, Callee
  <1> QED BY <1>1, <1>2, <1>3, <1>4 DEF Promise!Copies, Copies

LEMMA SameEdge ==
  ASSUME NEW C, NEW P, NEW s, NEW d PROVE Promise!Edge(C, P, s, d) <=> Edge(C, P, s, d)
  BY SameElems, SamePtr, SameApplies, SameCopies DEF Promise!Edge, Edge

LEMMA SameAsked ==
  ASSUME NEW C, NEW P, NEW n, NEW l PROVE Promise!Asked(C, P, n, l) <=> Asked(C, P, n, l)
  BY SamePtr, SameApplies, SameLabels, SameEdge DEF Promise!Asked, Asked

LEMMA SameCalled ==
  ASSUME NEW C, NEW P, NEW f PROVE Promise!Called(C, P, f) <=> Called(C, P, f)
  BY SamePtr, SameApplies DEF Promise!Called, Called

LEMMA SameHolds ==
  ASSUME NEW P, NEW g, NEW c PROVE Promise!Holds(P, g, c) <=> Holds(P, g, c)
  BY SameElems, SamePtr, SameApplies, SameLabels, SameCopies DEF Promise!Holds, Holds

\* A step that only adds labels somebody asks for.
LEMMA GrowsOnly ==
  ASSUME pc # "done", pc' # "done", pts' \in [Node -> SUBSET Node],
         \A n \in Node : /\ pts[n] \subseteq pts'[n]
                         /\ \A l \in pts'[n] \ pts[n] : Asked(Issued, pts, n, l),
         NEW F \in SUBSET DOMAIN Body,
         \A f \in F : Called(Issued, pts, f),
         Issued' = Issued \cup UNION {Elems(Body[f]) : f \in F},
         UNCHANGED <<limit, skipIDs>>
  PROVE  Promise!Grow
  <1>1. \A n \in Node : /\ pts[n] \subseteq pts'[n]
                        /\ \A l \in pts'[n] \ pts[n] : Promise!Asked(Issued, pts, n, l)
    BY SameAsked
  <1>2. \A f \in F : Promise!Called(Issued, pts, f)
    BY SameCalled
  <1>3. Issued' = Issued \cup UNION {Promise!Elems(Body[f]) : f \in F}
    BY SameElems
  <1>4. (pc = "done") = FALSE /\ (pc = "done")' = (pc = "done")
    OBVIOUS
  <1> QED BY <1>1, <1>2, <1>3, <1>4 DEF Promise!Grow

LEMMA NoFunctions == Issued = Issued \cup UNION {Elems(Body[f]) : f \in {}}
  OBVIOUS

LEMMA StepImplements == SolverInv /\ SolverInv' /\ [Next]_vars => [Promise!ANext]_(Promise!avars)
  <1> SUFFICES ASSUME SolverInv, SolverInv', [Next]_vars
               PROVE  Promise!ANext \/ UNCHANGED Promise!avars
    OBVIOUS
  <1>1. /\ TypeOK /\ pts' \in [Node -> SUBSET Node] /\ Issued \subseteq Constraint
        /\ pts \in [Node -> SUBSET Node] /\ copyTo \in [Node -> SUBSET Node]
    BY IssuedIn DEF SolverInv, TypeOK
  <1>2. \A n \in Node : prevPTS[n] \subseteq pts[n]
    BY DEF SolverInv, Registers
  <1>3. ASSUME UNCHANGED <<input, made, limit, pts, skipIDs>>, pc # "done", pc' # "done"
        PROVE  UNCHANGED Promise!avars
    <2>1. Issued' = Issued
      BY <1>3, SameIssued
    <2>2. (pc = "done")' = (pc = "done")
      BY <1>3
    <2> QED BY <2>1, <2>2, <1>3 DEF Promise!avars
  <1>4. ASSUME UNCHANGED <<input, made, limit, skipIDs>>, pc # "done", pc' # "done",
               \A n \in Node : /\ pts[n] \subseteq pts'[n]
                               /\ \A l \in pts'[n] \ pts[n] : Asked(Issued, pts, n, l)
        PROVE  Promise!ANext
    <2>1. Issued' = Issued
      BY <1>4, SameIssued
    <2>2. Issued' = Issued \cup UNION {Elems(Body[f]) : f \in {}}
      BY <2>1, NoFunctions
    <2>3. {} \in SUBSET DOMAIN Body /\ \A f \in {} : Called(Issued, pts, f)
      OBVIOUS
    <2>4. Promise!Grow
      BY <2>2, <2>3, <1>1, <1>4, GrowsOnly
    <2> QED BY <2>4 DEF Promise!ANext
  <1>5. CASE TakeConstraints
    <2> DEFINE bases == {c \in Elems(constraints) : c.op = "addr"}
    <2>1. /\ pc = "new" /\ pc' = "attach"
          /\ pts' = [n \in Node |-> pts[n] \cup {x \in Node : \E b \in bases : b.dst = n /\ b.src = x}]
          /\ UNCHANGED <<input, limit, skipIDs, made>>
      BY <1>5 DEF TakeConstraints, given, callVars
    <2>2. Elems(constraints) \subseteq Issued
      BY DEF SolverInv, ConstraintsIssued
    <2>3. ASSUME NEW n \in Node, NEW l \in pts'[n] \ pts[n] PROVE Asked(Issued, pts, n, l)
      <3>1. PICK b \in bases : b.dst = n /\ b.src = l
        BY <2>1, <2>3
      <3> QED BY <3>1, <2>2 DEF Asked
    <2>4. \A n \in Node : pts[n] \subseteq pts'[n]
      BY <2>1
    <2> QED BY <2>1, <2>3, <2>4, <1>4
  <1>6. CASE Attach
    BY <1>6, <1>3 DEF Attach, given, callVars
  <1>7. CASE Break
    <2>1. /\ pc = "attach" /\ pc' = "done" /\ AtTakeMin /\ work = {}
          /\ UNCHANGED <<input, limit, pts, skipIDs, made>>
      BY <1>7 DEF Break, AtTakeMin, given, callVars
    <2>2. Issued' = Issued
      BY <2>1, SameIssued
    <2>3. \A c \in Issued : Promise!Holds(pts, skipIDs, c)
      BY <2>1, EmptyWorkSolved, SameHolds
    <2>4. (pc = "done") = FALSE /\ (pc = "done")' = TRUE
      BY <2>1
    <2> QED BY <2>1, <2>2, <2>3, <2>4 DEF Promise!ANext, Promise!Stop
  <1>8. CASE OnlineCopy
    <2> DEFINE src == Head(copies)[1]
               dst == Head(copies)[2]
    <2>1. /\ pc = "solve" /\ pc' = "solve" /\ copies # <<>>
          /\ UNCHANGED <<input, limit, skipIDs, made>>
          /\ pts' = pts \/ pts' = [pts EXCEPT ![dst] = @ \cup pts[src]]
      BY <1>8 DEF OnlineCopy, given
    <2>2. Head(copies) \in Node \X Node /\ Head(copies) \in Elems(copies)
      BY <2>1, <1>1, ElemsHeadTail DEF TypeOK
    <2>3. src \in Node /\ dst \in Node /\ Edge(Issued, pts, src, dst)
      BY <2>2 DEF SolverInv, CopiesAsked
    <2> HIDE DEF src, dst
    <2>4. \A n \in Node : pts'[n] = pts[n] \/ (n = dst /\ pts'[n] = pts[n] \cup pts[src])
      BY <2>1, <2>3, <1>1
    <2>5. ASSUME NEW n \in Node, NEW l \in pts'[n] \ pts[n] PROVE Asked(Issued, pts, n, l)
      <3>1. n = dst /\ l \in pts[src]
        BY <2>4, <2>5
      <3> QED BY <3>1, <2>3 DEF Asked
    <2>6. \A n \in Node : pts[n] \subseteq pts'[n]
      BY <2>4
    <2> QED BY <2>1, <2>5, <2>6, <1>4
  <1>9. CASE NextConstraint
    BY <1>9, <1>3 DEF NextConstraint, AtConstraint, given, nodeVars
  <1>10. CASE CopyOut
    <2>1. /\ pc = "solve" /\ pc' = back
          /\ pts' = [n \in Node |-> IF n \in copyTo[cur] THEN pts[n] \cup delta ELSE pts[n]]
          /\ UNCHANGED <<input, limit, skipIDs, made>>
      BY <1>10 DEF CopyOut, given, callVars
    <2>2. cur \in Node /\ pc' # "done" /\ delta \subseteq pts[cur]
      BY <2>1, <1>2 DEF SolverInv, TypeOK, Registers
    <2>3. ASSUME NEW n \in Node, NEW l \in pts'[n] \ pts[n] PROVE Asked(Issued, pts, n, l)
      <3>1. n \in copyTo[cur] /\ l \in pts[cur]
        BY <2>1, <2>2, <2>3
      <3>2. Edge(Issued, pts, cur, n)
        BY <3>1, <2>2 DEF SolverInv, EdgesAsked
      <3> QED BY <3>1, <3>2, <2>2 DEF Asked
    <2>4. \A n \in Node : pts[n] \subseteq pts'[n]
      BY <2>1
    <2> QED BY <2>1, <2>2, <2>3, <2>4, <1>4
  <1>11. ASSUME NEW n \in Node, ApplyStale(n) PROVE UNCHANGED Promise!avars
    BY <1>11, <1>3 DEF ApplyStale, SolveConstraints, given, nodeVars
  <1>12. ASSUME NEW n \in Node, Pass(n) PROVE UNCHANGED Promise!avars
    BY <1>12, <1>3 DEF Pass, TakeMin, AtTakeMin, given
  <1>13. ASSUME NEW n \in Node, GiveUp(n) PROVE Promise!ANext
    <2>1. /\ pc = "attach" /\ pc' = "new" /\ limit > 0 /\ Cardinality(pts[n]) >= limit
          /\ skipIDs' = skipIDs \cup {n}
          /\ UNCHANGED <<input, limit, pts, made>>
      BY <1>13 DEF GiveUp, TakeMin, AtTakeMin, given
    <2>2. Issued' = Issued
      BY <2>1, SameIssued
    <2>3. (pc = "done") = FALSE /\ (pc = "done")' = (pc = "done")
      BY <2>1
    <2>4. Promise!Cardinality(pts[n]) >= limit
      BY <2>1, SameCardinality
    <2> QED BY <2>1, <2>2, <2>3, <2>4 DEF Promise!ANext, Promise!GiveUp
  <1>14. ASSUME NEW n \in Node, Propagate(n) PROVE UNCHANGED Promise!avars
    BY <1>14, <1>3 DEF Propagate, SolveConstraints, TakeMin, AtTakeMin, given
  <1>15. ASSUME NEW y \in Node, Apply(y) PROVE Promise!ANext
    <2> DEFINE c == complex[cur][ix]
               f == ChosenInstance(c, y)
    <2>1. AtConstraint /\ y \in rest
      BY <1>15 DEF Apply, Smallest
    <2>2. /\ cur \in Node /\ c \in Constraint /\ c \in Issued /\ Complex(c) /\ ptr(c) = cur
          /\ y \in pts[ptr(c)] /\ y \in Points[cur]
          /\ Applies(c, y) /\ f \in Instances(c, y)
      BY <2>1, AppliedNow
    <2>3. /\ pc = "solve" /\ pc' = pc
          /\ GenMissingFn(c, f)
          /\ AddLabels(c, Labels(c, y, f))
          /\ UNCHANGED <<input, limit, skipIDs>>
      BY <2>2, <1>15 DEF Apply, AtConstraint, given
    <2> HIDE DEF c, f
    <2>4. pts' = [n \in Node |-> pts[n] \cup {x \in Node : <<n, x>> \in Labels(c, y, f)}]
      BY <2>3 DEF AddLabels
    <2>5. ASSUME NEW n \in Node, NEW l \in pts'[n] \ pts[n] PROVE Asked(Issued, pts, n, l)
      <3>1. <<n, l>> \in Labels(c, y, f)
        BY <2>4, <2>5
      <3> QED BY <3>1, <2>2 DEF Asked
    <2>6. \A n \in Node : pts[n] \subseteq pts'[n]
      BY <2>4
    <2>7. CASE c.op = "invoke" /\ f \notin made
      <3>1. made' = made \cup {f}
        BY <2>7, <2>3 DEF GenMissingFn
      <3>2. Issued' = Issued \cup UNION {Elems(Body[g]) : g \in {f}}
        BY <3>1, <2>3 DEF Issued
      <3>3. {f} \in SUBSET DOMAIN Body
        BY <2>2, <2>7, ComplexFacts
      <3>4. \A g \in {f} : Called(Issued, pts, g)
        BY <2>2, <2>7 DEF Called
      <3>5. Promise!Grow
        BY <3>2, <3>3, <3>4, <2>3, <2>5, <2>6, <1>1, GrowsOnly
      <3> QED BY <3>5 DEF Promise!ANext
    <2>8. CASE ~(c.op = "invoke" /\ f \notin made)
      <3>1. UNCHANGED made
        BY <2>8, <2>3 DEF GenMissingFn
      <3> QED BY <3>1, <2>3, <2>5, <2>6, <1>4
    <2> QED BY <2>7, <2>8
  <1>16. CASE UNCHANGED vars
    <2>1. UNCHANGED <<input, made, limit, pts, skipIDs, pc>>
      BY <1>16 DEF vars, given, nodeVars
    <2>2. Issued' = Issued
      BY <2>1, SameIssued
    <2> QED BY <2>1, <2>2 DEF Promise!avars
  <1> QED BY <1>5, <1>6, <1>7, <1>8, <1>9, <1>10, <1>11, <1>12, <1>13, <1>14, <1>15, <1>16 DEF Next

\* The worklist solver implements Andersen: whatever the order, it adds only
\* labels the constraints ask for and stops only at a solution.
THEOREM SolverImplements == Spec => Implements
  <1>1. Init => Promise!AInit
    <2> SUFFICES ASSUME Init PROVE Promise!AInit
      OBVIOUS
    <2>1. Issued = Promise!Elems(input) /\ input \in Inputs
      BY SameElems DEF Init, Issued
    <2>2. (pc = "done") = FALSE
      BY DEF Init
    <2> QED BY <2>1, <2>2 DEF Init, Promise!AInit
  <1> QED BY <1>1, StepImplements, SolverInductive, PTL DEF Spec, Implements, Promise!ASpec

==============================================================================

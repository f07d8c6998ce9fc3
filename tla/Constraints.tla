----------------------------- MODULE Constraints -----------------------------
(***************************************************************************)
(* The inclusion constraints of the pointer analysis                       *)
(* (go/pointer/constraint.go) and what applying one of them to one label   *)
(* of the pointer it is attached to asks for: labels to add and copy edges *)
(* to install (the solve methods of go/pointer/solve.go).                  *)
(*                                                                         *)
(* Nodes are numbers, as in the code: an object is a run of consecutive    *)
(* nodes, so x + offset is a field of the object x.  A context is a number *)
(* too, 0 being the shared contour.                                        *)
(***************************************************************************)
EXTENDS Naturals, Sequences, FiniteSets

CONSTANTS
  Node,        \* the node ids, those of functions generated later included
  Constraint,  \* every constraint of the program and of those functions
  Points,      \* node -> the labels its type admits
  Tag,         \* tagged object -> its dynamic type
  Assignable,  \* pairs <<T, U>>: T is assignable to U
  SizeOf,      \* type -> its number of nodes
  Method,      \* <<method, dynamic type>> -> function (Program.LookupMethod)
  InScope,     \* the functions that get a context of their own
  Obj,         \* <<function, context>> -> function object, 0 for none
  Sig,         \* function -> [recv, params, results]: sizes of its blocks
  Body         \* <<function, context>> -> the constraints genFunc adds

Elems(s) == {s[i] : i \in DOMAIN s}

\* A constraint is a record [op, dst, src, off, typ, exact, ctx].  An invoke
\* has the interface in src, the start of its block in dst and the method in
\* typ; ctx is its call site, 0 when the constraint carries none.
Complex(c) == c.op \notin {"addr", "copy"}

\* The node a constraint is attached to.
ptr(c) == IF c.op = "store" THEN c.dst ELSE c.src

OnTagged(c) == c.op \in {"typeFilter", "untag", "invoke"}

Untags(c, x) ==
  IF c.exact THEN Tag[x] = c.typ ELSE <<Tag[x], c.typ>> \in Assignable

Callee(c, x) == Method[<<c.typ, Tag[x]>>]

\* The instance of the callee genMissingFn creates for this call.
OwnInstance(c, x) ==
  <<Callee(c, x), IF Callee(c, x) \in InScope THEN c.ctx ELSE 0>>

SharedInstance(c, x) == <<Callee(c, x), 0>>

\* The instances a call may be connected to: which one depends on whether the
\* shared contour of the callee exists by then.
Instances(c, x) ==
  IF c.op = "invoke" THEN {OwnInstance(c, x), SharedInstance(c, x)} ELSE {<<>>}

\* onlineCopyN: size edges from src on to dst on, in order.
CopyN(dst, src, size) == [i \in 1 .. size |-> <<src + i - 1, dst + i - 1>>]

\* eachSolve: receiver, arguments and results of a call of function object o.
CallCopies(block, payload, o, sig) ==
  CopyN(o + 1, payload, sig.recv)
    \o CopyN(o + 1 + sig.recv, block + 1, sig.params)
    \o CopyN(block + 1 + sig.params, o + 1 + sig.recv + sig.params, sig.results)

\* The copy edges <<from, to>> the constraint asks for when label x reaches
\* its pointer; f is the instance an invoke has chosen.
Copies(c, x, f) ==
  CASE c.op = "load"  -> << <<x + c.off, c.dst>> >>
    [] c.op = "store" -> << <<c.src, x + c.off>> >>
    [] c.op = "untag" -> IF Untags(c, x)
                         THEN CopyN(c.dst, x + 1, SizeOf[Tag[x]]) ELSE <<>>
    [] c.op = "invoke" -> IF Obj[f] = 0 THEN <<>>
                          ELSE CallCopies(c.dst, x + 1, Obj[f], Sig[Callee(c, x)])
    [] OTHER -> <<>>

\* The labels <<node, label>> it asks for.
Labels(c, x, f) ==
  CASE c.op = "offsetAddr" -> {<<c.dst, x + c.off>>}
    [] c.op = "typeFilter" -> IF <<Tag[x], c.typ>> \in Assignable
                              THEN {<<c.dst, x>>} ELSE {}
    [] c.op = "invoke" -> IF Obj[f] = 0 THEN {} ELSE {<<c.dst, Obj[f]>>}
    [] OTHER -> {}

\* Labels that can be applied without the panic of taggedValue.
Applies(c, x) == OnTagged(c) => x \in DOMAIN Tag

-----------------------------------------------------------------------------
(* Constraints C over points-to sets P. *)

\* Some constraint of C asks for an edge from s to d.
Edge(C, P, s, d) ==
  \E c \in C :
    \/ c.op = "copy" /\ c.src = s /\ c.dst = d
    \/ /\ Complex(c)
       /\ \E x \in P[ptr(c)] :
            Applies(c, x) /\ \E f \in Instances(c, x) :
              <<s, d>> \in Elems(Copies(c, x, f))

\* Some constraint of C asks for label l at node n.
Asked(C, P, n, l) ==
  \/ \E c \in C : c.op = "addr" /\ c.dst = n /\ c.src = l
  \/ \E s \in Node : l \in P[s] /\ Edge(C, P, s, n)
  \/ \E c \in C : /\ Complex(c)
                  /\ \E x \in P[ptr(c)] :
                       Applies(c, x) /\ \E f \in Instances(c, x) :
                         <<n, l>> \in Labels(c, x, f)

\* Function instance f is called by an invoke of C.
Called(C, P, f) ==
  \E c \in C : /\ c.op = "invoke"
               /\ \E x \in P[ptr(c)] : Applies(c, x) /\ f \in Instances(c, x)

\* Constraint c holds of P; the edges out of a node given up need not.
Holds(P, gone, c) ==
  CASE c.op = "addr" -> c.src \in P[c.dst]
    [] c.op = "copy" -> c.src \in gone \/ P[c.src] \subseteq P[c.dst]
    [] OTHER ->
         ptr(c) \in gone \/ \A x \in P[ptr(c)] :
           Applies(c, x) /\ \E f \in Instances(c, x) :
             /\ \A l \in Labels(c, x, f) : l[2] \in P[l[1]]
             /\ \A e \in Elems(Copies(c, x, f)) :
                  e[1] \in gone \/ P[e[1]] \subseteq P[e[2]]

-----------------------------------------------------------------------------
(***************************************************************************)
(* What the generator promises the solver: the program is well typed.      *)
(* Points[n] is what the type of node n lets it point to, and every        *)
(* constraint respects it.                                                 *)
(***************************************************************************)
ASSUME NodesAssumption == Node \subseteq Nat \ {0} /\ Points \in [Node -> SUBSET Node]

Respects(c) ==
  CASE c.op = "addr" -> c.src \in Points[c.dst]
    [] c.op = "copy" -> Points[c.src] \subseteq Points[c.dst]
    [] OTHER ->
         \A x \in Points[ptr(c)] :
           /\ Applies(c, x)
           /\ \A f \in Instances(c, x) :
                /\ c.op = "invoke" => f \in DOMAIN Body
                /\ Copies(c, x, f) \in Seq(Node \X Node)
                /\ \A e \in Elems(Copies(c, x, f)) : Points[e[1]] \subseteq Points[e[2]]
                /\ Labels(c, x, f) \subseteq Node \X Node
                /\ \A l \in Labels(c, x, f) : l[2] \in Points[l[1]]

ASSUME ConstraintsAssumption ==
  \A c \in Constraint : c.dst \in Node /\ c.src \in Node /\ Respects(c)

ASSUME BodyAssumption == \A f \in DOMAIN Body : Body[f] \in Seq(Constraint)

\* "There's no need to add it to worklist since it never has attached
\* constraints": nothing is attached to the first node of an invoke block.
ASSUME BlockAssumption ==
  \A b \in Constraint : b.op = "invoke" => \A c \in Constraint :
    /\ c.op = "copy" => c.src # b.dst
    /\ Complex(c) => /\ ptr(c) # b.dst
                     /\ \A x \in Points[ptr(c)] : \A f \in Instances(c, x) :
                          \A e \in Elems(Copies(c, x, f)) : e[1] # b.dst

==============================================================================

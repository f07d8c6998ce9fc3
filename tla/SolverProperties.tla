--------------------------- MODULE SolverProperties ---------------------------
(***************************************************************************)
(* What makes the solver correct, and that it implements Andersen.         *)
(***************************************************************************)
EXTENDS PointerSolver

\* The constraints of the functions analysed so far.
Issued == Elems(input) \cup UNION {Elems(Body[f]) : f \in made}

Promise == INSTANCE Andersen
             WITH cons <- Issued, gaveUp <- skipIDs, over <- (pc = "done")

-----------------------------------------------------------------------------
\* Every variable keeps its type, and the registers of solveConstraints stay
\* inside the node it works on.
TypeOK ==
  /\ input \in Inputs
  /\ limit \in Limits
  /\ pc \in {"new", "attach", "solve", "done", "panic"}
  /\ back \in {"new", "attach"}
  /\ constraints \in Seq(Constraint)
  /\ batch \in Seq(Constraint)
  /\ pts \in [Node -> SUBSET Node]
  /\ \A n \in Node : pts[n] \subseteq Points[n]
  /\ prevPTS \in [Node -> SUBSET Node]
  /\ copyTo \in [Node -> SUBSET Node]
  /\ complex \in [Node -> Seq(Constraint)]
  /\ work \subseteq Node
  /\ stale \subseteq Node
  /\ skipIDs \subseteq Node
  /\ pc = "solve" => cur \in Node
  /\ delta \subseteq Node
  /\ ix \in Nat \ {0}
  /\ rest \subseteq delta
  /\ copies \in Seq(Node \X Node)
  /\ made \subseteq DOMAIN Body

\* When the worklist is empty the points-to sets satisfy every constraint of
\* every function analysed, those generated in the last round included; only
\* what leaves a node that has reached the limit may be missing.  Difference
\* propagation must therefore never skip a label at an edge or a constraint
\* that was attached after the label had been propagated.
Solved == pc = "done" => \A c \in Issued : Holds(pts, skipIDs, c)

\* In a well-typed program no untagged object reaches a type assertion or an
\* interface call, so taggedValue does not panic.
NoPanic == pc # "panic"

\* The solver adds only labels some constraint asks for, generates only
\* functions an invoke can reach, gives up only nodes at the limit and stops
\* only when the rest is solved: it implements Andersen.
Implements == Promise!ASpec

\* The solver ends: points-to sets and edges only grow and a node is put back
\* on the worklist only when its set has grown or a constraint was attached.
Terminates == <>(pc = "done")

-----------------------------------------------------------------------------
(***************************************************************************)
(* The inductive invariant.                                                *)
(***************************************************************************)
\* Labels of prevPTS[n] that the edges and constraints of n have not all seen:
\* everything while n is stale, delta while n is being solved.
Owed(n) ==
  IF n \in stale THEN prevPTS[n]
  ELSE IF pc = "solve" /\ n = cur THEN delta ELSE {}

\* The same for the i-th constraint of n: those before ix are through with
\* delta, the one at ix has rest ahead of it.
OwedTo(n, i) ==
  IF n \in stale THEN prevPTS[n]
  ELSE IF pc = "solve" /\ n = cur
       THEN (IF i < ix THEN {} ELSE IF i = ix THEN rest ELSE delta)
       ELSE {}

\* Constraint c has been applied to label x, with points-to sets P, edges E
\* and up to the copies L still to make.
Applied(c, x, P, E, L) ==
  /\ Applies(c, x)
  /\ \E f \in Instances(c, x) :
       /\ \A l \in Labels(c, x, f) : l[2] \in P[l[1]]
       /\ \A e \in Elems(Copies(c, x, f)) :
            e[1] = e[2] \/ e[2] \in E[e[1]] \/ e \in Elems(L)

EdgesSeen ==
  \A n \in Node : \A d \in copyTo[n] : prevPTS[n] \ Owed(n) \subseteq pts[d]

ConstraintsSeen ==
  \A n \in Node : \A i \in 1 .. Len(complex[n]) :
    \A x \in prevPTS[n] \ OwedTo(n, i) : Applied(complex[n][i], x, pts, copyTo, copies)

\* A node off the worklist has nothing to propagate.
EdgesQuiet ==
  \A n \in Node \ (work \cup skipIDs) : \A d \in copyTo[n] :
    pts[n] \ Owed(n) \subseteq pts[d]

ConstraintsQuiet ==
  \A n \in Node \ (work \cup skipIDs) : complex[n] # <<>> => pts[n] \subseteq prevPTS[n]

\* No constraint is lost between a.constraints and the nodes.
Recorded(c) ==
  \/ c \in Elems(constraints)
  \/ CASE c.op = "addr" -> c.src \in pts[c.dst]
       [] c.op = "copy" -> c \in Elems(batch) \/ c.dst \in copyTo[c.src]
       [] OTHER -> c \in Elems(batch) \/ c \in Elems(complex[ptr(c)])

AllRecorded == pc # "done" => \A c \in Issued : Recorded(c)

\* Constraints generated by a stale node are taken: the main loop goes round
\* once more because the node is also on the worklist.
NoneForgotten ==
  /\ pc = "attach" /\ constraints # <<>> => work # {} /\ batch = <<>>
  /\ pc = "solve" /\ back = "attach" => cur \in work
  /\ pc = "done" => constraints = <<>>
  /\ stale \subseteq work

\* Every edge and every constraint attached was asked for.
EdgesAsked == \A n \in Node : \A d \in copyTo[n] : Edge(Issued, pts, n, d)

ConstraintsIssued ==
  /\ \A n \in Node : \A c \in Elems(complex[n]) : c \in Issued /\ Complex(c) /\ ptr(c) = n
  /\ Elems(constraints) \cup Elems(batch) \subseteq Issued

CopiesAsked == \A e \in Elems(copies) : Edge(Issued, pts, e[1], e[2])

\* The registers.
Registers ==
  /\ pc = "solve" => delta \subseteq prevPTS[cur]
  /\ pc # "solve" => copies = <<>>
  /\ pc = "solve" => batch = <<>> /\ cur \notin stale
  /\ pc = "solve" /\ back = "new" => stale = {}
  /\ pc \in {"new", "done"} => stale = {} /\ batch = <<>>
  /\ \A n \in Node : prevPTS[n] \subseteq pts[n]

\* Nothing is ever attached to the targets node of an invoke.
BlocksBare ==
  \A c \in Constraint : c.op = "invoke" => copyTo[c.dst] = {} /\ complex[c.dst] = <<>>

SolverInv ==
  /\ TypeOK /\ EdgesSeen /\ ConstraintsSeen /\ EdgesQuiet /\ ConstraintsQuiet
  /\ AllRecorded /\ NoneForgotten /\ EdgesAsked /\ ConstraintsIssued /\ CopiesAsked
  /\ Registers /\ BlocksBare /\ Solved /\ NoPanic

==============================================================================

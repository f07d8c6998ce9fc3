---------------------------- MODULE PointerSolver ----------------------------
(***************************************************************************)
(* The constraint solver of the pointer analysis (go/pointer/solve.go):    *)
(* a worklist algorithm with difference propagation.  pts is what a node   *)
(* points to, prevPTS the part of it its attached constraints have seen;   *)
(* new copy edges and new constraints appear while it runs, the latter     *)
(* when an invoke reaches a method nobody has generated yet.               *)
(*                                                                         *)
(* pc is the place in solveDefault or solveLimit:                          *)
(*   "new"    at processNewConstraints,                                    *)
(*   "attach" in its second and third loop, then at TakeMin,               *)
(*   "solve"  in solveConstraints, which returns to the place in back,     *)
(*   "done"   after the main loop, "panic" after the panic of taggedValue. *)
(***************************************************************************)
EXTENDS Constraints

CONSTANTS Inputs,  \* sequences of constraints handed to the solver
          Limits   \* values of flags.PTSLimit, 0 for none

ASSUME InputsAssumption == Inputs \subseteq Seq(Constraint) /\ Limits \subseteq Nat

VARIABLES
  input,        \* the constraints of generate(), for the properties only
  limit,        \* flags.PTSLimit
  pc, back,
  constraints,  \* a.constraints: added, not yet taken
  batch,        \* the slice processNewConstraints has taken
  pts, prevPTS, copyTo, complex,  \* solverState of each node
  work,         \* a.work
  stale,        \* nodes with prevPTS to which the batch has attached something
  skipIDs,      \* nodes given up because of the limit
  cur, delta,   \* the arguments of solveConstraints
  ix, rest,     \* the constraint being applied, the labels it has still to see
  copies,       \* calls of onlineCopy the current label has still to make
  made          \* function instances that have been generated

nodeVars == <<pts, prevPTS, copyTo, complex>>
callVars == <<cur, delta, ix, rest, copies, back>>
given == <<input, limit>>
vars == <<given, pc, constraints, batch, nodeVars, work, stale, skipIDs,
          callVars, made>>

Smallest(x, S) == x \in S /\ \A y \in S : x <= y

Attached(n) == copyTo[n] # {} \/ complex[n] # <<>>

-----------------------------------------------------------------------------
Init ==
  /\ input \in Inputs
  /\ limit \in Limits
  /\ pc = "new"
  /\ back = "new"
  /\ constraints = input
  /\ batch = <<>>
  /\ pts = [n \in Node |-> {}]
  /\ prevPTS = [n \in Node |-> {}]
  /\ copyTo = [n \in Node |-> {}]
  /\ complex = [n \in Node |-> <<>>]
  /\ work = {}
  /\ stale = {}
  /\ skipIDs = {}
  /\ cur = 0
  /\ delta = {}
  /\ ix = 1
  /\ rest = {}
  /\ copies = <<>>
  /\ made = {}

\* processNewConstraints, first loop: the base constraints.
TakeConstraints ==
  LET bases == {c \in Elems(constraints) : c.op = "addr"}
  IN  /\ pc = "new"
      /\ pc' = "attach"
      /\ batch' = constraints
      /\ constraints' = <<>>
      /\ pts' = [n \in Node |-> pts[n] \cup {x \in Node : \E b \in bases : b.dst = n /\ b.src = x}]
      /\ work' = work \cup {n \in Node : Attached(n) /\ \E b \in bases : b.dst = n}
      /\ UNCHANGED <<given, prevPTS, copyTo, complex, stale, skipIDs, callVars, made>>

\* Mutant: the third loop is never needed.
Notice_fresh(n) ==
  /\ work' = IF pts[n] # {} THEN work \cup {n} ELSE work
  /\ UNCHANGED stale

\* Second loop, after c has been attached to node n.
Notice(n) ==
  /\ work' = IF pts[n] # {} THEN work \cup {n} ELSE work
  /\ stale' = IF pts[n] # {} /\ prevPTS[n] # {} THEN stale \cup {n} ELSE stale

\* Mutant: attaches complex constraints to their destination.
Attach_dst ==
  /\ pc = "attach"
  /\ batch # <<>>
  /\ batch' = Tail(batch)
  /\ LET c == Head(batch)
     IN  \/ c.op = "addr" /\ UNCHANGED <<copyTo, complex, work, stale>>
         \/ /\ c.op = "copy"
            /\ copyTo' = [copyTo EXCEPT ![c.src] = @ \cup {c.dst}]
            /\ Notice(c.src)
            /\ UNCHANGED complex
         \/ /\ Complex(c)
            /\ complex' = [complex EXCEPT ![c.dst] = Append(@, c)]
            /\ Notice(c.dst)
            /\ UNCHANGED copyTo
  /\ UNCHANGED <<given, pc, constraints, pts, prevPTS, skipIDs, callVars, made>>

Attach ==
  /\ pc = "attach"
  /\ batch # <<>>
  /\ batch' = Tail(batch)
  /\ LET c == Head(batch)
     IN  \/ c.op = "addr" /\ UNCHANGED <<copyTo, complex, work, stale>>
         \/ /\ c.op = "copy"
            /\ copyTo' = [copyTo EXCEPT ![c.src] = @ \cup {c.dst}]
            /\ Notice(c.src)
            /\ UNCHANGED complex
         \/ /\ Complex(c)
            /\ complex' = [complex EXCEPT ![ptr(c)] = Append(@, c)]
            /\ Notice(ptr(c))
            /\ UNCHANGED copyTo
  /\ UNCHANGED <<given, pc, constraints, pts, prevPTS, skipIDs, callVars, made>>

\* The call solveConstraints(n, d); it comes back to place b.
SolveConstraints(n, d, b) ==
  /\ pc' = "solve"
  /\ back' = b
  /\ cur' = n
  /\ delta' = d
  /\ ix' = 1
  /\ rest' = d
  /\ copies' = <<>>

\* Third loop: new constraints meet the labels already propagated.
ApplyStale(n) ==
  /\ pc = "attach"
  /\ batch = <<>>
  /\ Smallest(n, stale)
  /\ stale' = stale \ {n}
  /\ SolveConstraints(n, prevPTS[n], "attach")
  /\ UNCHANGED <<given, constraints, batch, nodeVars, work, skipIDs, made>>

-----------------------------------------------------------------------------
\* The main loop, from TakeMin on.
AtTakeMin == pc = "attach" /\ batch = <<>> /\ stale = {}

\* The worklist is empty: leave the loop and release the working state.
Break ==
  /\ AtTakeMin
  /\ work = {}
  /\ pc' = "done"
  /\ prevPTS' = [n \in Node |-> {}]
  /\ copyTo' = [n \in Node |-> {}]
  /\ complex' = [n \in Node |-> <<>>]
  /\ UNCHANGED <<given, constraints, batch, pts, work, stale, skipIDs, callVars, made>>

\* Mutant: looks at the smallest node without taking it.
TakeMin_peek(n) ==
  /\ AtTakeMin
  /\ Smallest(n, work)
  /\ UNCHANGED <<given, constraints, batch, pts, copyTo, complex, work, stale, made>>

TakeMin(n) ==
  /\ AtTakeMin
  /\ Smallest(n, work)
  /\ work' = work \ {n}
  /\ UNCHANGED <<given, constraints, batch, pts, copyTo, complex, stale, made>>

\* Nothing to do for n: it was given up, or its constraints have seen it all.
Pass(n) ==
  /\ TakeMin(n)
  /\ n \in skipIDs \/ pts[n] \subseteq prevPTS[n]
  /\ pc' = "new"
  /\ UNCHANGED <<prevPTS, skipIDs, callVars>>

\* solveLimit: n has reached the limit.
GiveUp(n) ==
  /\ TakeMin(n)
  /\ n \notin skipIDs
  /\ ~(pts[n] \subseteq prevPTS[n])
  /\ limit > 0
  /\ Cardinality(pts[n]) >= limit
  /\ skipIDs' = skipIDs \cup {n}
  /\ prevPTS' = [prevPTS EXCEPT ![n] = {}]
  /\ pc' = "new"
  /\ UNCHANGED callVars

Propagate(n) ==
  /\ TakeMin(n)
  /\ n \notin skipIDs
  /\ ~(pts[n] \subseteq prevPTS[n])
  /\ ~(limit > 0 /\ Cardinality(pts[n]) >= limit)
  /\ prevPTS' = [prevPTS EXCEPT ![n] = pts[n]]
  /\ SolveConstraints(n, pts[n] \ prevPTS[n], "new")
  /\ UNCHANGED skipIDs

-----------------------------------------------------------------------------
\* solveConstraints, first loop: complex constraint c sees label x.
AtConstraint == pc = "solve" /\ copies = <<>> /\ ix <= Len(complex[cur])

\* invoke.solve: the object of the callee, generated now if there is none.
\* globalobj knows the shared contour only.
ChosenInstance(c, x) ==
  IF c.op # "invoke" THEN <<>>
  ELSE IF SharedInstance(c, x) \in made THEN SharedInstance(c, x)
       ELSE OwnInstance(c, x)

GenMissingFn(c, f) ==
  IF c.op = "invoke" /\ f \notin made
  THEN made' = made \cup {f} /\ constraints' = constraints \o Body[f]
  ELSE UNCHANGED <<made, constraints>>

\* addLabel and, except for the targets of an invoke, addWork if the set grew.
AddLabels(c, L) ==
  /\ pts' = [n \in Node |-> pts[n] \cup {x \in Node : <<n, x>> \in L}]
  /\ work' = IF c.op = "invoke" THEN work
             ELSE work \cup {n \in Node : \E x \in Node \ pts[n] : <<n, x>> \in L}

Apply(x) ==
  /\ AtConstraint
  /\ Smallest(x, rest)
  /\ rest' = rest \ {x}
  /\ LET c == complex[cur][ix]
         f == ChosenInstance(c, x)
     IN  IF ~Applies(c, x)
         THEN pc' = "panic" /\ UNCHANGED <<constraints, pts, work, copies, made>>
         ELSE /\ GenMissingFn(c, f)
              /\ AddLabels(c, Labels(c, x, f))
              /\ copies' = Copies(c, x, f)
              /\ UNCHANGED pc
  /\ UNCHANGED <<given, batch, prevPTS, copyTo, complex, stale, skipIDs,
                 cur, delta, ix, back>>

\* Mutant: the edge and the labels go the wrong way.
OnlineCopy_back ==
  /\ pc = "solve"
  /\ copies # <<>>
  /\ copies' = Tail(copies)
  /\ LET src == Head(copies)[2]
         dst == Head(copies)[1]
     IN  /\ copyTo' = [copyTo EXCEPT ![src] = @ \cup {dst}]
         /\ pts' = [pts EXCEPT ![dst] = @ \cup pts[src]]
         /\ work' = IF pts[src] \subseteq pts[dst] THEN work ELSE work \cup {dst}
  /\ UNCHANGED <<given, pc, constraints, batch, prevPTS, complex, stale, skipIDs,
                 cur, delta, ix, rest, back, made>>

\* onlineCopy, with the addWork its callers make when it reports a change.
OnlineCopy ==
  /\ pc = "solve"
  /\ copies # <<>>
  /\ copies' = Tail(copies)
  /\ LET src == Head(copies)[1]
         dst == Head(copies)[2]
     IN  IF dst = src \/ dst \in copyTo[src]
         THEN UNCHANGED <<pts, copyTo, work>>
         ELSE /\ copyTo' = [copyTo EXCEPT ![src] = @ \cup {dst}]
              /\ pts' = [pts EXCEPT ![dst] = @ \cup pts[src]]
              /\ work' = IF pts[src] \subseteq pts[dst] THEN work ELSE work \cup {dst}
  /\ UNCHANGED <<given, pc, constraints, batch, prevPTS, complex, stale, skipIDs,
                 cur, delta, ix, rest, back, made>>

NextConstraint ==
  /\ AtConstraint
  /\ rest = {}
  /\ ix' = ix + 1
  /\ rest' = delta
  /\ UNCHANGED <<given, pc, constraints, batch, nodeVars, work, stale, skipIDs,
                 cur, delta, copies, back, made>>

\* Second loop: delta along the copy edges, those just added included.
CopyOut ==
  /\ pc = "solve"
  /\ copies = <<>>
  /\ ix > Len(complex[cur])
  /\ pts' = [n \in Node |-> IF n \in copyTo[cur] THEN pts[n] \cup delta ELSE pts[n]]
  /\ work' = work \cup {n \in copyTo[cur] : ~(delta \subseteq pts[n])}
  /\ pc' = back
  /\ UNCHANGED <<given, constraints, batch, prevPTS, copyTo, complex, stale,
                 skipIDs, callVars, made>>

-----------------------------------------------------------------------------
Next ==
  \/ TakeConstraints
  \/ Attach
  \/ Break
  \/ OnlineCopy
  \/ NextConstraint
  \/ CopyOut
  \/ \E n \in Node :
       \/ ApplyStale(n)
       \/ Pass(n)
       \/ GiveUp(n)
       \/ Propagate(n)
       \/ Apply(n)

Spec == Init /\ [][Next]_vars

\* The solver is one goroutine that is never blocked.
FairSpec == Spec /\ WF_vars(Next)

==============================================================================

----------------------------- MODULE CompleteFlow -----------------------------
(***************************************************************************)
(* The complete-flow checker (concurrency/cfchecker.go): it looks for      *)
(* locks, calls of Done and Broadcast and deferred calls of a function     *)
(* that its control flow may leave unfinished.  CheckCompleteFlow first    *)
(* lists the checkpoints of the function, then searches the control-flow   *)
(* graph from each of them.                                                *)
(*                                                                         *)
(* A basic block is [instrs, exit, line, recover, succs]: the calls and    *)
(* defers the checker looks at, how the block ends ("jump", "return",      *)
(* "panic"), the source line of a return or panic (0 if it has no          *)
(* position), whether it is the recover block, and its successors.  An     *)
(* instruction is [op, pts, line]; pts are the objects its first argument  *)
(* points to.                                                              *)
(***************************************************************************)
EXTENDS Naturals, Sequences, FiniteSets

CONSTANT Functions  \* the functions checked, each a sequence of blocks

VARIABLES
  bbs,          \* the function
  pc,           \* "mark", "next", "visit", "end"
  at,           \* <<block, instruction>>: the next instruction to mark
  checkpoints,  \* checkpoints: [op, pts, start, inst, line]
  pts2lock,     \* pairs <<pts, index in checkpoints>>, one per pts
  outs,         \* blocks with a return or panic
  k,            \* the checkpoint that is searched from
  queue,        \* blocks to visit
  visited,      \* blocks that have been in the queue
  reached,      \* blocks visited whose return was reached
  unlocks,      \* matching unlock calls visited, as <<block, instruction>>
  ret           \* errors: [cp, why, block]

searchVars == <<queue, visited, reached, unlocks>>
markVars == <<checkpoints, pts2lock, outs>>
vars == <<bbs, pc, at, markVars, k, searchVars, ret>>

Ops == {"Lock", "Unlock", "Done", "Broadcast", "defer Unlock", "defer Done"}

Blocks == DOMAIN bbs
Succs(b) == {bbs[b].succs[n] : n \in DOMAIN bbs[b].succs}

Instr == [op : Ops, pts : SUBSET Nat, line : Nat]
Block == [instrs : Seq(Instr), exit : {"jump", "return", "panic"}, line : Nat,
          recover : BOOLEAN, succs : Seq(Nat)]

\* What SSA form guarantees: a return or panic ends its block, which then
\* has no successor; a jump has one and a branch two; the recover block
\* only returns.
IsFunction(f) ==
  /\ f \in Seq(Block)
  /\ f # <<>>
  /\ \A b \in DOMAIN f : /\ \A n \in DOMAIN f[b].succs : f[b].succs[n] \in DOMAIN f
                         /\ Len(f[b].succs) <= 2
                         /\ f[b].exit # "jump" => f[b].succs = <<>>
                         /\ f[b].recover => f[b].exit = "return" /\ f[b].instrs = <<>>

ASSUME FunctionsAssumption == \A f \in Functions : IsFunction(f)

Init ==
  /\ bbs \in Functions
  /\ pc = "mark"
  /\ at = <<1, 1>>
  /\ checkpoints = <<>>
  /\ pts2lock = {}
  /\ outs = {}
  /\ k = 0
  /\ queue = <<>>
  /\ visited = {}
  /\ reached = {}
  /\ unlocks = {}
  /\ ret = <<>>

-----------------------------------------------------------------------------
(* CheckCompleteFlow: the checkpoints. *)

Without(s, n) == SubSeq(s, 1, n - 1) \o SubSeq(s, n + 1, Len(s))

Checkpoint(i) == [op |-> i.op, pts |-> IF i.op \in {"Lock", "defer Unlock"} THEN i.pts ELSE {},
                  start |-> at[1], inst |-> at[2], line |-> i.line]

markLock(i) ==
  /\ checkpoints' = Append(checkpoints, Checkpoint(i))
  /\ pts2lock' = {p \in pts2lock : p[1] # i.pts} \cup {<<i.pts, Len(checkpoints) + 1>>}

\* Mutant: the lock is taken out before the deferred call is put in.
markUnlock_first(i) ==
  /\ \/ \E p \in pts2lock : p[1] = i.pts /\ checkpoints' = Without(checkpoints, p[2])
     \/ /\ \A p \in pts2lock : p[1] # i.pts
        /\ checkpoints' = Append(checkpoints, Checkpoint(i))
  /\ UNCHANGED pts2lock

\* The lock leaves the list: the entry its index stands for, that is.
markUnlock(i) ==
  /\ LET cps == Append(checkpoints, Checkpoint(i))
     IN  \/ \E p \in pts2lock : p[1] = i.pts /\ checkpoints' = Without(cps, p[2])
         \/ (\A p \in pts2lock : p[1] # i.pts) /\ checkpoints' = cps
  /\ UNCHANGED pts2lock

\* markWGDone and markBroadcast
markCall(i) ==
  /\ checkpoints' = Append(checkpoints, Checkpoint(i))
  /\ UNCHANGED pts2lock

Mark ==
  LET b == at[1]
      i == bbs[b].instrs[at[2]]
  IN  /\ pc = "mark"
      /\ b \in Blocks
      /\ at[2] \in DOMAIN bbs[b].instrs
      /\ \/ i.op = "Lock" /\ markLock(i)
         \/ i.op = "defer Unlock" /\ markUnlock(i)
         \/ i.op = "Unlock" /\ UNCHANGED <<checkpoints, pts2lock>>
         \/ i.op \in {"Done", "defer Done", "Broadcast"} /\ markCall(i)
      /\ at' = <<b, at[2] + 1>>
      /\ UNCHANGED <<bbs, pc, outs, k, searchVars, ret>>

\* The end of the block: a return or panic is one of the outs.
MarkOut ==
  LET b == at[1]
  IN  /\ pc = "mark"
      /\ b \in Blocks
      /\ at[2] \notin DOMAIN bbs[b].instrs
      /\ outs' = IF bbs[b].exit # "jump" THEN outs \cup {b} ELSE outs
      /\ at' = <<b + 1, 1>>
      /\ pc' = IF b = Len(bbs) THEN "next" ELSE "mark"
      /\ UNCHANGED <<bbs, checkpoints, pts2lock, k, searchVars, ret>>

-----------------------------------------------------------------------------
(* canReachFromAllPaths: breadth-first search from a checkpoint. *)

cp == checkpoints[k]
is_defer == cp.op \in {"defer Unlock", "defer Done"}
lock_only == cp.op = "Lock"  \* is_lock && !is_defer

\* Starts the search from the next checkpoint, or returns.
Take ==
  /\ pc = "next"
  /\ IF k < Len(checkpoints)
     THEN /\ k' = k + 1
          /\ queue' = <<checkpoints[k + 1].start>>
          /\ visited' = {checkpoints[k + 1].start}
          /\ reached' = {}
          /\ unlocks' = {}
          /\ pc' = "visit"
     ELSE pc' = "end" /\ UNCHANGED <<k, searchVars>>
  /\ UNCHANGED <<bbs, at, markVars, ret>>

\* The search from this checkpoint ends: without an error, or with one.
Complete == ret' = ret /\ pc' = "next"
Incomplete(b, why) ==
  ret' = Append(ret, [cp |-> k, why |-> why, block |-> b]) /\ pc' = "next"

\* The calls of block b that unlock the objects of the checkpoint: what is
\* collected for a lock and for a deferred call.
Matching(b) ==
  {<<b, n>> : n \in {m \in DOMAIN bbs[b].instrs :
     /\ is_defer \/ lock_only
     /\ bbs[b].instrs[m].op = "Unlock"
     /\ bbs[b].instrs[m].pts = cp.pts}}

\* "they belong to the same bb, should not have any problem"
Released(b) == b = cp.start /\ Matching(b) # {}

\* Mutant: only the block of the checkpoint is looked at.
Panics_here(b) == b = cp.start /\ bbs[b].exit = "panic" /\ (is_defer \/ lock_only)

Panics(b) == bbs[b].exit = "panic" /\ (is_defer \/ lock_only)

\* Mutant: an unlock of another lock will do.
Escapes_any(b) ==
  /\ bbs[b].exit = "return"
  /\ lock_only
  /\ unlocks = {}
  /\ ~\E n \in DOMAIN bbs[b].instrs : bbs[b].instrs[n].op = "Unlock"

\* A return, and no unlock has been seen on the way or anywhere else.
Escapes(b) == bbs[b].exit = "return" /\ lock_only /\ unlocks \cup Matching(b) = {}

\* "we see the lock again without unlock in a loop"
Loops(b) == lock_only /\ cp.start \in Succs(b)

\* Visits the block at the head of the queue and ends the search there.
VisitLast ==
  LET b == Head(queue)
  IN  /\ pc = "visit"
      /\ queue # <<>>
      /\ ~bbs[b].recover
      /\ \/ Released(b) /\ Complete
         \/ ~Released(b) /\ Panics(b) /\ Incomplete(b, "panic")
         \/ ~Released(b) /\ Escapes(b) /\ Incomplete(b, "return")
         \/ ~Released(b) /\ Loops(b) /\ Incomplete(b, "loop")
      /\ UNCHANGED <<bbs, at, markVars, k, searchVars>>

\* Mutant: a successor is put into the queue whether or not it was visited.
Enqueue_again(e, s) == [q |-> Append(e.q, s), seen |-> e.seen \cup {s}]

\* The queue and the visited blocks with successor s in them.
Enqueue(e, s) == IF s \in e.seen THEN e ELSE [q |-> Append(e.q, s), seen |-> e.seen \cup {s}]
Enqueued(succs) ==
  LET e == [q |-> Tail(queue), seen |-> visited]
  IN  CASE Len(succs) = 0 -> e
        [] Len(succs) = 1 -> Enqueue(e, succs[1])
        [] OTHER -> Enqueue(Enqueue(e, succs[1]), succs[2])

\* Visits it and goes on to its successors; the recover block is passed over.
Visit ==
  LET b == Head(queue)
  IN  /\ pc = "visit"
      /\ queue # <<>>
      /\ IF bbs[b].recover
         THEN queue' = Tail(queue) /\ UNCHANGED <<visited, reached, unlocks>>
         ELSE /\ ~Released(b) /\ ~Panics(b) /\ ~Escapes(b) /\ ~Loops(b)
              /\ queue' = Enqueued(bbs[b].succs).q
              /\ visited' = Enqueued(bbs[b].succs).seen
              /\ reached' = IF bbs[b].exit = "return" THEN reached \cup {b} ELSE reached
              /\ unlocks' = unlocks \cup Matching(b)
      /\ UNCHANGED <<bbs, pc, at, markVars, k, ret>>

happenBeforeLock(out) == cp.start > out \/ cp.line > bbs[out].line

\* Mutant: the outs before the lock are not excused, and panics are.
Missed_all ==
  CASE is_defer -> {}
    [] lock_only ->
         IF Cardinality(unlocks) = Cardinality(outs) THEN {}
         ELSE {o \in outs : o \notin {u[1] : u \in unlocks}}
    [] OTHER -> {o \in outs \ reached : bbs[o].exit = "return"}

\* The outs that count as missed once the search is over.
Missed ==
  CASE is_defer -> {}
    [] lock_only ->
         IF Cardinality(unlocks) = Cardinality(outs) THEN {}
         ELSE {o \in outs : o \notin {u[1] : u \in unlocks} /\ ~happenBeforeLock(o)}
    [] OTHER ->
         IF Cardinality(reached) = Cardinality(outs) THEN {} ELSE outs \ reached

\* The first out that is missed is reported.
Conclude ==
  /\ pc = "visit"
  /\ queue = <<>>
  /\ \/ Missed = {} /\ Complete
     \/ \E o \in Missed : (\A p \in Missed : o <= p) /\ Incomplete(o, "missed")
  /\ UNCHANGED <<bbs, at, markVars, k, searchVars>>

-----------------------------------------------------------------------------
Next == Mark \/ MarkOut \/ Take \/ VisitLast \/ Visit \/ Conclude

Spec == Init /\ [][Next]_vars

\* The checker is a plain loop: it keeps running.
FairSpec == Spec /\ WF_vars(Next)

==============================================================================

---------------------------- MODULE FlowProperties ----------------------------
(***************************************************************************)
(* What the verdicts of the complete-flow checker mean, in terms of paths  *)
(* of the control-flow graph.                                              *)
(***************************************************************************)
EXTENDS CompleteFlow

\* Blocks that cannot be left: the recover block is not followed.
Closed(S) == \A b \in S : ~bbs[b].recover => Succs(b) \subseteq S

\* There is a path from block b to block o.
Reaches(b, o) == \A S \in SUBSET Blocks : (b \in S /\ Closed(S)) => o \in S

\* The search from checkpoint n is over.
Searched(n) == n \in 1 .. k /\ (n = k => pc # "visit")

Reported(n) == \E e \in DOMAIN ret : ret[e].cp = n

\* Block b calls Unlock on the objects of checkpoint c.
Unlocks(c, b) ==
  \E n \in DOMAIN bbs[b].instrs : bbs[b].instrs[n].op = "Unlock" /\ bbs[b].instrs[n].pts = c.pts

Ends(b, how) == ~bbs[b].recover /\ bbs[b].exit = how

-----------------------------------------------------------------------------
(* The calls of the function, as <<block, instruction>>, and what becomes  *)
(* of their checkpoints.                                                   *)

Sites == UNION {{<<b, n>> : n \in DOMAIN bbs[b].instrs} : b \in Blocks}
Call(s) == bbs[s[1]].instrs[s[2]]
Before(s, t) == s[1] < t[1] \/ (s[1] = t[1] /\ s[2] < t[2])

\* The checkpoint of call s.
Entry(s) == [op |-> Call(s).op,
             pts |-> IF Call(s).op \in {"Lock", "defer Unlock"} THEN Call(s).pts ELSE {},
             start |-> s[1], inst |-> s[2], line |-> Call(s).line]

ReportedAt(s) == \E e \in DOMAIN ret : checkpoints[ret[e].cp] = Entry(s)

\* Lock l is the last one of the objects pts before t.
LastLock(pts, l, t) ==
  /\ Call(l).op = "Lock" /\ Call(l).pts = pts /\ Before(l, t)
  /\ \A m \in Sites :
       (Call(m).op = "Lock" /\ Call(m).pts = pts /\ Before(m, t)) => ~Before(l, m)

\* The deferred unlock d stands for lock l: l is not searched from.
Takes(d, l) == Call(d).op = "defer Unlock" /\ LastLock(Call(d).pts, l, d)

\* A deferred unlock has taken a lock out of checkpoints since lock l was put
\* into it, and not one that comes after l: the index of l is stale.
Stale(l) ==
  \E d \in Sites, m \in Sites :
    Takes(d, m) /\ Before(d, at) /\ Before(l, d) /\ ~Before(l, m)

\* No deferred unlock comes upon a stale index: what it takes out is locked
\* after the deferred unlocks before it, or before what they have taken out.
Orderly ==
  \A d1 \in Sites, d2 \in Sites, l1 \in Sites, l2 \in Sites :
    (Takes(d1, l1) /\ Takes(d2, l2) /\ Before(d1, d2)) => Before(d1, l2) \/ Before(l2, l1)

\* Every call passed has its checkpoint, but for the locks that a deferred
\* unlock stands for.
Kept ==
  \A s \in Sites :
    (/\ Before(s, at)
     /\ Call(s).op # "Unlock"
     /\ ~\E d \in Sites : Before(d, at) /\ Takes(d, s))
    => \E n \in DOMAIN checkpoints : checkpoints[n] = Entry(s)

\* The index kept for objects is within checkpoints, whatever has been taken
\* out of the slice since, and unless it is stale it is that of the last
\* lock of these objects.
InRange == \A p \in pts2lock : p[2] \in DOMAIN checkpoints
IndexSafe ==
  /\ InRange
  /\ \A p \in pts2lock : \E l \in Sites :
       LastLock(p[1], l, at) /\ (~Stale(l) => checkpoints[p[2]] = Entry(l))

\* Every call is searched from, but for the locks that a deferred unlock
\* stands for.  It fails: a stale index takes the checkpoint of another call.
EveryCallChecked == pc # "mark" => Kept

\* In a function whose deferred unlocks come upon no stale index, a deferred
\* call is reported exactly if a panic can be reached from its block, unless
\* that block unlocks the same objects itself.
DeferExact ==
  (pc = "end" /\ Orderly) =>
    \A s \in Sites : Call(s).op \in {"defer Unlock", "defer Done"} =>
      (ReportedAt(s) <=> /\ ~Unlocks(Entry(s), s[1])
                         /\ \E o \in Blocks : Ends(o, "panic") /\ Reaches(s[1], o))

\* Block o can be reached from the entry without passing block b.
ReachedWithout(o, b) ==
  \A S \in SUBSET Blocks :
    (1 \in S /\ \A c \in S \ {b} : ~bbs[c].recover => Succs(c) \subseteq S) => o \in S

\* In such a function, a call of Done or Broadcast is reported exactly if the
\* function has an exit that cannot be reached from it, a panic or a recover
\* block.  So what is reported can be left without the call, or has one of the
\* latter; but a call in a branch that comes together again with a way around
\* it is not reported, for from there every exit can be reached.
DoneReported ==
  (pc = "end" /\ Orderly /\ \A o \in Blocks : Reaches(1, o) \/ bbs[o].recover) =>
    \A s \in Sites : Call(s).op \in {"Done", "Broadcast"} =>
      LET Bad(o) == bbs[o].exit = "panic" \/ bbs[o].recover
      IN  /\ ReportedAt(s) <=>
               \E o \in Blocks : bbs[o].exit # "jump" /\ (Bad(o) \/ ~Reaches(s[1], o))
          /\ ReportedAt(s) =>
               \E o \in Blocks : bbs[o].exit # "jump" /\ (Bad(o) \/ ReachedWithout(o, s[1]))

\* In such a function, a lock that no deferred unlock stands for and no
\* reachable block unlocks is reported if the function can return or panic,
\* or come back to the lock, while it is held.  A single unlock in reach takes
\* it out of what this promises, be it on one way only.
LockReported ==
  (pc = "end" /\ Orderly) =>
    \A s \in Sites :
      ( /\ Call(s).op = "Lock"
        /\ ~\E d \in Sites : Takes(d, s)
        /\ ~\E b \in Blocks : Reaches(s[1], b) /\ Unlocks(Entry(s), b)
        /\ \E b \in Blocks : /\ Reaches(s[1], b)
                             /\ Ends(b, "return") \/ Ends(b, "panic") \/ s[1] \in Succs(b) )
      => ReportedAt(s)

\* No alarm for a lock that is not in a loop, if every exit it can reach is a
\* return that unlocks it in its own block, and every other exit comes before
\* it, by block or by line.  The return of the recover block, which has no
\* position, counts as such an exit.
LockReleased ==
  \A n \in DOMAIN checkpoints : LET c == checkpoints[n] IN
    ( /\ Searched(n)
      /\ c.op = "Lock"
      /\ \A b \in Blocks : Reaches(c.start, b) => c.start \notin Succs(b)
      /\ \A o \in Blocks : bbs[o].exit # "jump" =>
           IF Reaches(c.start, o) /\ ~bbs[o].recover
           THEN Ends(o, "return") /\ Unlocks(c, o)
           ELSE o < c.start \/ bbs[o].line < c.line )
    => ~Reported(n)

\* The search from every checkpoint comes to an end.
FlowEnds == <>(pc = "end")

-----------------------------------------------------------------------------
(* The inductive invariant of the proofs. *)

\* The verdicts on the checkpoints: those of deferred calls, of Done and
\* Broadcast, and of locks.
DeferVerdict ==
  \A n \in DOMAIN checkpoints : LET c == checkpoints[n] IN
    (Searched(n) /\ c.op \in {"defer Unlock", "defer Done"}) =>
      (Reported(n) <=> /\ ~Unlocks(c, c.start)
                       /\ \E o \in Blocks : Ends(o, "panic") /\ Reaches(c.start, o))

DoneVerdict ==
  \A n \in DOMAIN checkpoints : LET c == checkpoints[n] IN
    (Searched(n) /\ c.op \in {"Done", "Broadcast"}) =>
      (Reported(n) <=> \E o \in Blocks :
         bbs[o].exit # "jump" /\ ~(Ends(o, "return") /\ Reaches(c.start, o)))

LockFound ==
  \A n \in DOMAIN checkpoints : LET c == checkpoints[n] IN
    ( /\ Searched(n)
      /\ c.op = "Lock"
      /\ ~\E b \in Blocks : Reaches(c.start, b) /\ Unlocks(c, b)
      /\ \E b \in Blocks : /\ Reaches(c.start, b)
                           /\ Ends(b, "return") \/ Ends(b, "panic") \/ c.start \in Succs(b) )
    => Reported(n)

Reasons == {"panic", "return", "loop", "missed"}
Checkpoints == [op : Ops, pts : SUBSET Nat, start : Blocks, inst : Nat, line : Nat]

FlowType ==
  /\ IsFunction(bbs)
  /\ pc \in {"mark", "next", "visit", "end"}
  /\ at \in Nat \X Nat
  /\ checkpoints \in Seq(Checkpoints)
  /\ pts2lock \subseteq (SUBSET Nat) \X Nat
  /\ k \in 0 .. Len(checkpoints)
  /\ queue \in Seq(Blocks)
  /\ visited \subseteq Blocks
  /\ ret \in Seq([cp : Nat, why : Reasons, block : Blocks])

\* The outs are those of the blocks passed; errors are of checkpoints whose
\* search is over.
FlowPhase ==
  /\ at[1] \in 1 .. Len(bbs) + 1
  /\ pc # "mark" => at[1] = Len(bbs) + 1
  /\ outs = {b \in Blocks : b < at[1] /\ bbs[b].exit # "jump"}
  /\ pc = "mark" => k = 0 /\ ret = <<>>
  /\ pc = "visit" => k > 0
  /\ pc = "end" => k = Len(checkpoints)
  /\ \A e \in DOMAIN ret : ret[e].cp \in 1 .. k /\ (pc = "visit" => ret[e].cp # k)

\* The search: everything visited can be reached from the checkpoint, and a
\* block that has left the queue has been followed.
InQueue(b) == \E n \in DOMAIN queue : queue[n] = b
SearchInv ==
  pc = "visit" =>
    /\ cp.start \in visited
    /\ \A b \in Blocks : InQueue(b) => b \in visited
    /\ InQueue(cp.start) => queue = <<cp.start>>
    /\ \A S \in SUBSET Blocks : (cp.start \in S /\ Closed(S)) => visited \subseteq S
    /\ \A b \in visited : \/ InQueue(b)
                          \/ bbs[b].recover
                          \/ /\ Succs(b) \subseteq visited
                             /\ ~Released(b) /\ ~Panics(b)
                             /\ bbs[b].exit = "return" => b \in reached
    /\ reached \subseteq {b \in visited : Ends(b, "return")}

\* Together with the verdicts reached so far this is inductive.
FlowInv == FlowType /\ FlowPhase /\ InRange /\ SearchInv /\ DeferVerdict /\ DoneVerdict

\* The search from a lock: the unlocks found are those of the blocks that have
\* left the queue, and none of these is a way to leave the function, or to
\* come back to the lock, while it is held.
LockSearch ==
  (pc = "visit" /\ lock_only) =>
    /\ \A u \in unlocks : \E b \in visited : u \in Matching(b)
    /\ \A b \in visited : \/ InQueue(b)
                          \/ bbs[b].recover
                          \/ /\ Matching(b) \subseteq unlocks
                             /\ bbs[b].exit = "return" => unlocks # {}
                             /\ ~Loops(b)

\* Given FlowInv, this is inductive, too.
LockInv == LockSearch /\ LockFound /\ LockReleased

\* The marking: the indices kept are those of the last locks, in their order,
\* and nothing is lost in an orderly function.  Inductive, given FlowInv.
MarkInv ==
  /\ at[2] > 0
  /\ IndexSafe
  /\ \A l \in Sites : (Call(l).op = "Lock" /\ Before(l, at)) =>
       \E p \in pts2lock : p[1] = Call(l).pts
  /\ \A p \in pts2lock, q \in pts2lock : \A l \in Sites, m \in Sites :
       (LastLock(p[1], l, at) /\ LastLock(q[1], m, at) /\ Before(l, m)) => p[2] < q[2]
  /\ Orderly => Kept

==============================================================================

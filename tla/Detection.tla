----------------------------- MODULE Detection -----------------------------
(***************************************************************************)
(* The blocking-bug detector (concurrency/rfg.go): DFSDetectBlockingBugs   *)
(* takes states from a work list, exploreRandomState walks each one by     *)
(* picking goroutines at random, visit() and visitNode() walk one          *)
(* goroutine until it pauses and split off new states.                     *)
(*                                                                         *)
(* The recursion of visit() is an explicit stack, whose frames are the two *)
(* loops that call it: the loop over the kids of a node and, in visitNode, *)
(* the loop over the cases of a select.  The loops that match a producer   *)
(* with its consumers are steps of their own, described by the record m.   *)
(* The detector is sequential, so these steps interleave with nothing; the *)
(* only choices are the random tid and the iteration order of Go maps.     *)
(*                                                                         *)
(* The package variables have the values the code sets, which no flag      *)
(* changes: RANDOM_STATE and EXPLORE_ALL_STATES are TRUE, DEBUG is FALSE.  *)
(***************************************************************************)
EXTENDS DetectionState

VARIABLES
  states,         \* g.states while exploring: the work list
  results,        \* what is kept of each explored state
  berrs,          \* g.berrs after filterStates: sets of paused nodes
  ds,             \* the state being explored
  pc,             \* where the detector is
  cur,            \* argument of the visit() being entered
  stack,          \* pending loops, innermost first
  m,              \* the matching loop of visitNode
  tid             \* tid of exploreRandomState; its prev_tid is always equal

vars == <<g, states, results, berrs, ds, pc, cur, stack, m, tid>>

PC == {"pop", "visit", "visitSkip", "step", "match", "returnTrue",
       "returnFalse", "sched", "filter", "done", "crashed"}

Frame ==
  [kind : {"kids", "cases"}, node : Node, i : Nat \ {0},
   found_producer : BOOLEAN, found_consumer : BOOLEAN,
   found_default : BOOLEAN, traverse : BOOLEAN]

NewFrame(k, n) ==
  [kind |-> k, node |-> n, i |-> 1, found_producer |-> FALSE,
   found_consumer |-> FALSE, found_default |-> FALSE, traverse |-> TRUE]

(* A matching loop: at is cur_node, producer the matched_producer_id, objs *)
(* the objects still to do; pickConsumers returned, for the object in hand,*)
(* those of cons[i..] that are Listed and then, in any order, rest.        *)
MatchMode == {"none", "send", "casesend", "wgdone", "exit", "unlock", "signal", "all"}
Match ==
  [mode : MatchMode, at : Node, producer : Node, objs : Seq(Obj),
   cons : Seq(Node), i : Nat \ {0}, rest : SUBSET Node,
   found : BOOLEAN, ds_consumer : Node \cup {NoNode}]

NoMatch ==
  [mode |-> "none", at |-> 0, producer |-> 0, objs |-> <<>>, cons |-> <<>>,
   i |-> 1, rest |-> {}, found |-> FALSE, ds_consumer |-> NoNode]

Outcome(d) == [pause_ats |-> d.pause_ats, visit_loops |-> d.visit_loops]
OutcomeSet ==
  [pause_ats : [Tid -> Node \cup {Unset, Ended, InLoop}],
   visit_loops : [LoopName -> Node \cup {Absent}]]

TypeOK ==
  /\ g \in RFGs
  /\ states \in Seq(DS)
  /\ results \in Seq(OutcomeSet)
  /\ berrs \in SUBSET (SUBSET Node)
  /\ ds \in DS
  /\ pc \in PC
  /\ cur \in Node
  /\ stack \in Seq(Frame)
  /\ m \in Match
  /\ tid \in Tid

(* DFSDetectBlockingBugs before its loop.                                  *)
Init ==
  /\ g \in RFGs
  /\ ds = updateHIP(FreshDS, g.roots[0])
  /\ states = <<ds>>
  /\ results = <<>>
  /\ berrs = {}
  /\ pc = "pop"
  /\ cur = 0
  /\ stack = <<>>
  /\ m = NoMatch
  /\ tid = 0

-----------------------------------------------------------------------------
(* The work list.                                                          *)

(* Take the next state and enter exploreRandomState: visit its start node. *)
PopState ==
  /\ pc = "pop" /\ states # <<>>
  /\ ds' = Head(states)
  /\ states' = Tail(states)
  /\ cur' = ds'.start_node_id
  /\ tid' = ds'.start_tid
  /\ pc' = "visitSkip"
  /\ UNCHANGED <<g, results, berrs, stack, m>>

(* The work list is empty: filter the results.                             *)
StartFilter ==
  /\ pc = "pop" /\ states = <<>>
  /\ pc' = "filter"
  /\ UNCHANGED <<g, states, results, berrs, ds, cur, stack, m, tid>>

(* One result: a block error unless every goroutine ended with no open     *)
(* loop, or nothing is paused at a node; filterStates drops repetitions.   *)
FilterResult ==
  /\ pc = "filter" /\ results # <<>>
  /\ LET r == Head(results)
         report == /\ ~(noPaused(r) /\ \A l \in LoopName : r.visit_loops[l] = Absent)
                   /\ hasMeaningfulPaused(r)
     IN  berrs' = IF report
                  THEN berrs \cup {{r.pause_ats[t] : t \in {u \in Tid : r.pause_ats[u] \in Node}}}
                  ELSE berrs
  /\ results' = Tail(results)
  /\ UNCHANGED <<g, states, ds, pc, cur, stack, m, tid>>

Finish ==
  /\ pc = "filter" /\ results = <<>>
  /\ pc' = "done"
  /\ UNCHANGED <<g, states, results, berrs, ds, cur, stack, m, tid>>

-----------------------------------------------------------------------------
(* exploreRandomState: one turn of its loop.  Its is_visit_last is set in  *)
(* every turn before it is read, so it is the argument last of WalkOrSkip. *)

(* Mutant: a stale can_walk entry counts as progress.                      *)
Quiet_stale(d) == noPaused(d) \/ noWalk(d)
Quiet(d) == noPaused(d) \/ noWalk(d) \/ noPausedIsWalkable(d)

(* What a quiet turn may prepare, one element per choice: the delayed      *)
(* nodes, each for the tid it was delayed under, or one node returned with *)
(* its gid.  None: the loop ends.                                          *)
WithGid(S) == {{<<n, gid(n)>>} : n \in S}
LastVisits(d) ==
  IF hasVisitLast(d)
  THEN {{<<d.visit_last[t], t>> : t \in {u \in Tid : d.visit_last[u] > 0}}}
  ELSE IF holdingRLock(d) # {} THEN WithGid(holdingRLock(d))
  ELSE IF holdingLock(d) # {} THEN WithGid(holdingLock(d))
  ELSE WithGid(noPausedWaits(d))

(* The end of the exploration of ds: no goroutine left, or no progress.    *)
EndExplore ==
  /\ pc = "sched"
  /\ ds.hip = <<>> \/ (Quiet(ds) /\ LastVisits(ds) = {})
  /\ results' = Append(results, Outcome(ds))
  /\ pc' = "pop"
  /\ UNCHANGED <<g, states, berrs, ds, cur, stack, m, tid>>

canWalkFrom(d, t) ==
  LET n == d.pause_ats[t]
  IN  /\ n \in Node
      /\ \/ n \in d.can_walk
         \/ typId(n) \in {"NLock", "NRLock"} /\ onlyICanWalk(d, t)

(* A node is revisited (skip = false) when it was paused before it was     *)
(* handled.                                                                *)
Revisit(d, n, last) ==
  IF typId(n) \in {"NLock", "NRLock"} THEN d.visited[n] # 1
  ELSE typId(n) \in {"NWGWait", "NCase", "NCaseDone"} \/ last

(* The rest of the turn, with the state d after the quiet branch.          *)
WalkOrSkip(d, t, last) ==
  /\ tid' = t
  /\ IF canWalkFrom(d, t)
     THEN LET n == d.pause_ats[t]
          IN  /\ ds' = [d EXCEPT !.can_walk = @ \ {n}, !.pause_ats[t] = Unset]
              /\ cur' = n
              /\ pc' = IF gid(n) # t THEN "crashed"
                       ELSE IF Revisit(d, n, last) THEN "visit" ELSE "visitSkip"
     ELSE ds' = d /\ UNCHANGED <<cur, pc>>
  /\ UNCHANGED <<g, states, results, berrs, stack, m>>

Turn(t) ==
  /\ pc = "sched" /\ ds.hip # <<>> /\ ~Quiet(ds)
  /\ t \in getRandomTID(ds, tid)
  /\ WalkOrSkip(ds, t, FALSE)

QuietTurn(t) ==
  /\ pc = "sched" /\ ds.hip # <<>> /\ Quiet(ds)
  /\ t \in getRandomTID(ds, tid)
  /\ \E S \in LastVisits(ds) : WalkOrSkip(prepareLastVisit(ds, S), t, TRUE)

-----------------------------------------------------------------------------
(* visit() and the loop over the kids.                                     *)

push(f) == <<f>> \o stack

(* visitNode returned traverse for node cur: go on with its kids or leave. *)
Proceed(d, traverse) ==
  /\ ds' = d
  /\ IF traverse THEN stack' = push(NewFrame("kids", cur)) /\ pc' = "step"
                 ELSE stack' = stack /\ pc' = "returnFalse"
  /\ UNCHANGED <<g, results, berrs, cur, tid>>

Seen(n) == markVisited(ds, n, 1)

VisitSkip ==
  /\ pc = "visitSkip"
  /\ Proceed(Seen(cur), TRUE)
  /\ UNCHANGED <<states, m>>

top == Head(stack)
nextKid == kids(top.node)[top.i]
advance == [top EXCEPT !.i = @ + 1]

(* A kid with an entry in visited is passed over, even if the entry is 0.  *)
KidVisited ==
  /\ pc = "step" /\ top.kind = "kids" /\ top.i <= Len(kids(top.node))
  /\ ds.visited[nextKid] # Absent
  /\ stack' = <<advance>> \o Tail(stack)
  /\ UNCHANGED <<g, states, results, berrs, ds, pc, cur, m, tid>>

KidGoroutine ==
  /\ pc = "step" /\ top.kind = "kids" /\ top.i <= Len(kids(top.node))
  /\ ds.visited[nextKid] = Absent /\ typId(nextKid) = "NGoroutine"
  /\ ds' = updateHIP(ds, nextKid)
  /\ stack' = <<advance>> \o Tail(stack)
  /\ UNCHANGED <<g, states, results, berrs, pc, cur, m, tid>>

KidVisit ==
  /\ pc = "step" /\ top.kind = "kids" /\ top.i <= Len(kids(top.node))
  /\ ds.visited[nextKid] = Absent /\ typId(nextKid) # "NGoroutine"
  /\ cur' = nextKid
  /\ pc' = "visit"
  /\ stack' = <<advance>> \o Tail(stack)
  /\ UNCHANGED <<g, states, results, berrs, ds, m, tid>>

KidsDone ==
  /\ pc = "step" /\ top.kind = "kids" /\ top.i > Len(kids(top.node))
  /\ stack' = Tail(stack)
  /\ pc' = "returnTrue"
  /\ UNCHANGED <<g, states, results, berrs, ds, cur, m, tid>>

(* visit() returns to the loop it was called from: false ends a loop over  *)
(* kids; the loop over cases only records the result.                      *)
ReturnToKids ==
  /\ pc \in {"returnTrue", "returnFalse"} /\ stack # <<>> /\ top.kind = "kids"
  /\ IF pc = "returnTrue" THEN pc' = "step" /\ stack' = stack
                          ELSE pc' = pc /\ stack' = Tail(stack)
  /\ UNCHANGED <<g, states, results, berrs, ds, cur, m, tid>>

ReturnToCases ==
  /\ pc \in {"returnTrue", "returnFalse"} /\ stack # <<>> /\ top.kind = "cases"
  /\ stack' = <<[top EXCEPT !.traverse = (pc = "returnTrue")]>> \o Tail(stack)
  /\ pc' = "step"
  /\ UNCHANGED <<g, states, results, berrs, ds, cur, m, tid>>

ReturnToExplore ==
  /\ pc \in {"returnTrue", "returnFalse"} /\ stack = <<>>
  /\ pc' = "sched"
  /\ UNCHANGED <<g, states, results, berrs, ds, cur, stack, m, tid>>

-----------------------------------------------------------------------------
(* visitNode for the nodes without a matching loop.                        *)

AtNode(types) == pc = "visit" /\ typId(cur) \in types
t_cur == gid(cur)

(* Mutants: go on without a producer; forget the pair when it is used.     *)
matchConsumer_any(d, inform) == Proceed(d, TRUE)
matchConsumer_forget(d, inform) ==
  IF paired(d, cur) THEN Proceed([d EXCEPT !.pairs[cur] = Absent], TRUE)
  ELSE Proceed(pauseAt(d, t_cur, cur), FALSE)

(* matchConsumer(inform): go on if a producer chose this node, else pause. *)
matchConsumer(d, inform) ==
  IF paired(d, cur)
  THEN Proceed(IF inform THEN letWalk(d, d.pairs[cur]) ELSE d, TRUE)
  ELSE Proceed(pauseAt(d, t_cur, cur), FALSE)

VisitReceive ==
  /\ AtNode({"NChannel"}) /\ ~g.id2node[cur].isSender
  /\ matchConsumer(Seen(cur), TRUE)
  /\ UNCHANGED <<states, m>>

VisitCtxDoneOrCondWait ==
  /\ AtNode({"NCtxDone", "NCONDWait"})
  /\ matchConsumer(Seen(cur), FALSE)
  /\ UNCHANGED <<states, m>>

VisitWGWait ==
  /\ AtNode({"NWGWait"})
  /\ IF hasUnclosedLoop(ds, cur)
     THEN Proceed(pauseAt(Seen(cur), t_cur, cur), FALSE)
     ELSE matchConsumer(Seen(cur), TRUE)
  /\ UNCHANGED <<states, m>>

(* A case reached from its producer: the select can walk later.            *)
VisitCase ==
  /\ AtNode(CaseTypes)
  /\ LET s == caseSel(cur)
         d == letWalk(pauseAt(Seen(cur), gid(s), s), s)
     IN  Proceed(IF ~g.id2node[cur].isSender /\ paired(ds, cur)
                 THEN letWalk(d, ds.pairs[cur]) ELSE d, TRUE)
  /\ UNCHANGED <<states, m>>

VisitLoop ==
  /\ AtNode({"NLoop", "NROC"})
  /\ LET nd == g.id2node[cur]
     IN  Proceed([Seen(cur) EXCEPT !.visit_loops[nd.loop_name] =
                    IF nd.enterLoop THEN cur ELSE Absent], TRUE)
  /\ UNCHANGED <<states, m>>

VisitOther ==
  /\ AtNode({"NGoroutine", "NFunc", "NReturn", "NRW"})
  /\ Proceed(IF typId(cur) = "NGoroutine"
             THEN [Seen(cur) EXCEPT !.hip = Append(@, t_cur)] ELSE Seen(cur), TRUE)
  /\ UNCHANGED <<states, m>>

-----------------------------------------------------------------------------
(* Locks.                                                                  *)

(* createNewLockState: a copy in which cur takes the lock and the holder   *)
(* is put back to its own lock.  delete(_ds.lockset, held_tid) there uses  *)
(* a tid as a key of a map of objects and removes nothing.                 *)
LockState(d, held) ==
  LET c == copyFrom(d, cur, cur, t_cur)
  IN  letWalk(markVisited(takeLock(pauseAt(c, gid(held), held), cur), held, 0), cur)

(* Mutant: the walk goes on as if the lock were free.                      *)
BlockedBy_through(held) == Proceed(Seen(cur), TRUE) /\ UNCHANGED states

(* cur cannot take the lock that node held holds.  A holder that is not    *)
(* paused at a node lets the walk go on past cur.                          *)
BlockedBy(held) ==
  LET d == Seen(cur)
      t == gid(held)
      two == [d EXCEPT !.twolock[t] = <<held, cur>>]
  IN  IF t = t_cur
      THEN /\ Proceed(pauseAt([d EXCEPT !.doublelock[t] = <<held, cur>>], t_cur, cur), FALSE)
           /\ UNCHANGED states
      ELSE IF d.twolock[t] # <<>> /\ d.twolock[t][2] = cur
      THEN /\ Proceed(pauseAt(d, t_cur, cur), FALSE)
           /\ UNCHANGED states
      ELSE /\ states' = IF isDuplicateState(states, copyFrom(d, cur, cur, t_cur))
                        THEN states ELSE Append(states, LockState(d, held))
           /\ IF d.pause_ats[t] >= 0
              THEN Proceed(pauseAt(markVisited(letWalk(two, d.pause_ats[t]), cur, 0), t_cur, cur), FALSE)
              ELSE Proceed(two, TRUE)

(* The lock is free: pause after taking it if others use the object.       *)
Acquired(d) ==
  LET e == [d EXCEPT !.doublelock[t_cur] = <<>>]
  IN  /\ IF noOtherLockOnResource(cur) THEN Proceed(e, TRUE)
         ELSE Proceed(pauseAt(e, t_cur, cur), FALSE)
      /\ UNCHANGED states

VisitLock ==
  /\ AtNode({"NLock"})
  /\ IF cannotLock(ds, cur) # NoNode THEN BlockedBy(cannotLock(ds, cur))
     ELSE IF cannotRLock(ds, cur) # NoNode THEN BlockedBy(cannotRLock(ds, cur))
     ELSE Acquired(takeLock(Seen(cur), cur))
  /\ UNCHANGED m

(* A second read lock of the same goroutine is not recorded; it blocks     *)
(* when the goroutine has a double lock pending (r -> w -> r).             *)
VisitRLock ==
  /\ AtNode({"NRLock"})
  /\ LET rheld == cannotRLock(ds, cur)
         doubles == ds.doublelock[t_cur]
     IN  IF cannotLock(ds, cur) # NoNode THEN BlockedBy(cannotLock(ds, cur))
         ELSE IF rheld # NoNode /\ gid(rheld) = t_cur
         THEN /\ IF doubles # <<>>
                 THEN Proceed(pauseAt([Seen(cur) EXCEPT !.triplelocks[t_cur] = Append(doubles, cur)],
                                      t_cur, cur), FALSE)
                 ELSE Proceed(Seen(cur), TRUE)
              /\ UNCHANGED states
         ELSE Acquired(takeRLock(Seen(cur), cur))
  /\ UNCHANGED m

-----------------------------------------------------------------------------
(* Matching loops: start.                                                  *)

StartMatch(d, mode, at, producer, objs, found) ==
  /\ ds' = d
  /\ m' = [NoMatch EXCEPT !.mode = mode, !.at = at, !.producer = producer,
                          !.objs = objs, !.found = found]
  /\ pc' = "match"
  /\ UNCHANGED <<g, states, results, berrs, cur, tid>>

VisitSend ==
  /\ AtNode({"NChannel"}) /\ g.id2node[cur].isSender
  /\ StartMatch(Seen(cur), "send", cur, cur, pts(cur), FALSE)
  /\ UNCHANGED stack

VisitAll ==
  /\ AtNode({"NClose", "NBroadcast", "NCancel"})
  /\ StartMatch(Seen(cur), "all", cur, cur, pts(cur), FALSE)
  /\ UNCHANGED stack

VisitWGDone ==
  /\ AtNode({"NWGDone"})
  /\ StartMatch(Seen(cur), "wgdone", cur, cur, pts(cur), FALSE)
  /\ UNCHANGED stack

(* An unlock by defer is skipped when no object of it is held by cur.      *)
SkipDeferredUnlock ==
  /\ g.id2node[cur].from_defer
  /\ \A i \in DOMAIN pts(cur) :
       LET h == ds.lockset[pts(cur)[i]] IN h = Absent \/ gid(h) # t_cur

VisitUnlock ==
  /\ AtNode({"NUnlock", "NRUnlock"})
  /\ IF SkipDeferredUnlock
     THEN Proceed(Seen(cur), TRUE) /\ UNCHANGED <<states, m>>
     ELSE StartMatch(Seen(cur), "unlock", cur, cur, pts(cur), FALSE) /\ UNCHANGED stack

(* A signal is delayed until a goroutine is paused at a cond.Wait.         *)
VisitSignal ==
  /\ AtNode({"NSignal"})
  /\ IF hasManyPausedWaits(ds)
     THEN StartMatch(Seen(cur), "signal", cur, cur, pts(cur), FALSE) /\ UNCHANGED stack
     ELSE /\ Proceed(pauseAt([Seen(cur) EXCEPT !.visit_last[t_cur] = cur], t_cur, cur), FALSE)
          /\ UNCHANGED <<states, m>>

NoIndex == -1
indexOf(h, x) ==
  LET first == {i \in DOMAIN h : h[i] = x /\ \A j \in 1..(i - 1) : h[j] # x}
  IN  IF first = {} THEN NoIndex ELSE CHOOSE i \in first : TRUE

(* Mutant: the first goroutine is removed.                                 *)
removeAt_first(h, i) == Tail(h)
removeAt(h, i) == SubSeq(h, 1, i - 1) \o SubSeq(h, i + 1, Len(h))

VisitExit ==
  /\ AtNode({"NExit"})
  /\ IF hasUnclosedLoop(ds, cur)
     THEN Proceed(pauseAt(Seen(cur), t_cur, InLoop), FALSE) /\ UNCHANGED <<states, m>>
     ELSE IF indexOf(ds.hip, t_cur) = NoIndex
     THEN /\ pc' = "crashed"     \* panic("X")
          /\ UNCHANGED <<g, states, results, berrs, ds, cur, stack, m, tid>>
     ELSE LET d == [pauseAt(Seen(cur), t_cur, Ended) EXCEPT
                        !.hip = removeAt(@, indexOf(@, t_cur))]
          IN  IF g.id2node[cur].isWGDone
              THEN StartMatch(d, "exit", cur, cur, pts(cur), FALSE) /\ UNCHANGED stack
              ELSE Proceed(d, FALSE) /\ UNCHANGED <<states, m>>

-----------------------------------------------------------------------------
(* Matching loops: steps.                                                  *)

WGModes == {"wgdone", "exit"}
matchTid == gid(m.at)

(* pickConsumers, second loop: the smallest consumer of each goroutine, if *)
(* it is not paired and may run in parallel.                               *)
SmallestConsumers(d, o) ==
  {n \in Node :
     /\ InSeq(n, consumers(o))
     /\ \A j \in DOMAIN consumers(o) : gid(consumers(o)[j]) = gid(n) => n <= consumers(o)[j]
     /\ ~paired(d, n) /\ canHIP(d, gid(n), matchTid)}

(* pickConsumers, first loop: later consumers with the select_node_id of   *)
(* the first one, 0 for a node outside the selects.                        *)
Listed == g.id2node[m.cons[m.i]].select_node_id = g.id2node[m.cons[1]].select_node_id

ConsumersDone == pc = "match" /\ m.i > Len(m.cons) /\ m.rest = {}

(* wg.Wait is informed after each object of the waitgroup.                 *)
Settled ==
  IF m.mode \in WGModes /\ m.ds_consumer # NoNode
  THEN markConsumerAfterMatching(ds, m.ds_consumer, m.producer) ELSE ds

(* Mutant: the lock is kept.                                               *)
Released_kept(d, o) == [d EXCEPT !.twolock[matchTid] = <<>>]

(* An unlock lets go of its object if its goroutine holds the write lock.  *)
Released(d, o) ==
  LET h == d.lockset[o]
      e == [d EXCEPT !.twolock[matchTid] = <<>>]
  IN  IF h # Absent /\ gid(h) = matchTid THEN [e EXCEPT !.lockset[o] = Absent] ELSE e

MatchObject ==
  /\ ConsumersDone /\ m.objs # <<>>
  /\ LET o == Head(m.objs)
         d == IF m.mode = "unlock" THEN Released(ds, o) ELSE Settled
         look == typId(m.at) # "NRUnlock"
         n == [m EXCEPT !.objs = Tail(@), !.i = 2,
                        !.cons = IF look THEN consumers(o) ELSE <<>>,
                        !.rest = IF look THEN SmallestConsumers(d, o) ELSE {}]
     IN  /\ ds' = d
         /\ m' = IF m.mode \in WGModes
                 THEN [n EXCEPT !.found = FALSE, !.ds_consumer = NoNode] ELSE n
  /\ UNCHANGED <<g, states, results, berrs, pc, cur, stack, tid>>

MatchPass ==
  /\ pc = "match" /\ m.i <= Len(m.cons) /\ ~Listed
  /\ m' = [m EXCEPT !.i = @ + 1]
  /\ UNCHANGED <<g, states, results, berrs, ds, pc, cur, stack, tid>>

(* createNewState(c, producer).                                            *)
PairState(c) ==
  LET e == copyFrom(ds, m.at, m.producer, matchTid)
  IN  letWalk([e EXCEPT !.pairs[c] = m.producer], c)
NewPairState(c) ==
  IF /\ ~paired(ds, c) /\ ds.visited[c] # 1 /\ canHIP(ds, gid(c), matchTid)
     /\ ~isDuplicateState(states, copyFrom(ds, m.at, m.producer, matchTid))
  THEN Append(states, PairState(c)) ELSE states

(* Mutant: the pair is marked at once, before the new states are copied.   *)
MatchOne_early(c, n) ==
  /\ IF m.found THEN states' = NewPairState(c) /\ m' = n /\ UNCHANGED ds
     ELSE IF ~paired(ds, c) /\ canHIP(ds, gid(c), matchTid)
     THEN /\ ds' = markConsumerAfterMatching(ds, c, m.producer)
          /\ m' = [n EXCEPT !.found = TRUE, !.ds_consumer = c]
          /\ UNCHANGED states
     ELSE UNCHANGED <<ds, states>> /\ m' = n
  /\ UNCHANGED <<g, results, berrs, pc, cur, stack, tid>>

(* One consumer c of the list, n being the loop after it: a case whose     *)
(* select is matched is passed over; after the first match every other     *)
(* consumer gets a state of its own.                                       *)
MatchOne(c, n) ==
  LET over == /\ m.mode \in {"send", "casesend", "all"} /\ isCase(c)
              /\ ds.visited[caseSel(c)] = 1
      free == ~paired(ds, c) /\ canHIP(ds, gid(c), matchTid)
  IN  /\ IF over THEN UNCHANGED <<ds, states>> /\ m' = n
         ELSE IF m.mode = "all"
         THEN /\ ds' = IF free THEN markConsumerAfterMatching(ds, c, m.producer) ELSE ds
              /\ m' = n /\ UNCHANGED states
         ELSE IF m.found THEN states' = NewPairState(c) /\ m' = n /\ UNCHANGED ds
         ELSE IF free
         THEN /\ ds' = IF m.mode = "unlock" THEN letWalk(ds, c) ELSE ds
              /\ m' = [n EXCEPT !.found = TRUE, !.ds_consumer = c]
              /\ UNCHANGED states
         ELSE UNCHANGED <<ds, states>> /\ m' = n
      /\ UNCHANGED <<g, results, berrs, pc, cur, stack, tid>>

MatchListed ==
  /\ pc = "match" /\ m.i <= Len(m.cons) /\ Listed
  /\ MatchOne(m.cons[m.i], [m EXCEPT !.i = @ + 1])

MatchSmallest(c) ==
  /\ pc = "match" /\ m.i > Len(m.cons) /\ c \in m.rest
  /\ MatchOne(c, [m EXCEPT !.rest = @ \ {c}])

-----------------------------------------------------------------------------
(* Matching loops: end.                                                    *)

MatchOver == ConsumersDone /\ m.objs = <<>>

(* Mutant: the sender does not pause.                                      *)
EndSend_walk ==
  /\ MatchOver /\ m.mode = "send"
  /\ Proceed(IF m.found THEN markConsumerAfterMatching(ds, m.ds_consumer, m.producer)
             ELSE ds, TRUE)
  /\ m' = NoMatch /\ UNCHANGED states

(* matchChannel marks the consumer it chose and pauses at the sender.  For *)
(* a select case, found may have been TRUE from the start with no consumer *)
(* chosen: the code then dereferences a nil node.                          *)
EndSend ==
  /\ MatchOver /\ m.mode = "send"
  /\ Proceed(pauseAt(IF m.found THEN markConsumerAfterMatching(ds, m.ds_consumer, m.producer)
                     ELSE ds, matchTid, m.producer), FALSE)
  /\ m' = NoMatch /\ UNCHANGED states

EndCaseSend ==
  /\ MatchOver /\ m.mode = "casesend" /\ (m.found => m.ds_consumer # NoNode)
  /\ ds' = pauseAt(IF m.found THEN markConsumerAfterMatching(ds, m.ds_consumer, m.producer)
                   ELSE ds, matchTid, m.producer)
  /\ stack' = <<[advance EXCEPT !.found_producer = TRUE, !.traverse = FALSE]>> \o Tail(stack)
  /\ pc' = "step" /\ m' = NoMatch
  /\ UNCHANGED <<g, states, results, berrs, cur, tid>>

NilConsumer ==
  /\ MatchOver /\ m.mode = "casesend" /\ m.found /\ m.ds_consumer = NoNode
  /\ pc' = "crashed"
  /\ UNCHANGED <<g, states, results, berrs, ds, cur, stack, m, tid>>

EndWGDone ==
  /\ MatchOver /\ m.mode = "wgdone"
  /\ Proceed(pauseAt(Settled, matchTid, m.at), FALSE)
  /\ m' = NoMatch /\ UNCHANGED states

EndExit ==
  /\ MatchOver /\ m.mode = "exit"
  /\ Proceed(Settled, FALSE)
  /\ m' = NoMatch /\ UNCHANGED states

EndUnlock ==
  /\ MatchOver /\ m.mode = "unlock"
  /\ Proceed(IF m.found THEN pauseAt(ds, matchTid, m.at) ELSE ds, ~m.found)
  /\ m' = NoMatch /\ UNCHANGED states

EndSignal ==
  /\ MatchOver /\ m.mode = "signal"
  /\ Proceed(IF m.found THEN markConsumerAfterMatching(ds, m.ds_consumer, m.producer)
             ELSE ds, TRUE)
  /\ m' = NoMatch /\ UNCHANGED states

EndAll ==
  /\ MatchOver /\ m.mode = "all"
  /\ Proceed(ds, TRUE)
  /\ m' = NoMatch /\ UNCHANGED states

-----------------------------------------------------------------------------
(* Select: the loop over the cases.                                        *)

VisitSelect ==
  /\ AtNode({"NSelect"})
  /\ ds' = Seen(cur)
  /\ stack' = push(NewFrame("cases", cur))
  /\ pc' = "step"
  /\ UNCHANGED <<g, states, results, berrs, cur, m, tid>>

selCases == g.id2node[top.node].cases
theCase == selCases[top.i]
AtCase == pc = "step" /\ top.kind = "cases" /\ top.i <= Len(selCases)
caseKind == g.id2node[theCase].case_kind
caseSends == g.id2node[theCase].isSender
foundOne == top.found_producer \/ top.found_consumer

(* Nothing to do: a nil case, or a receive with no producer (no timer, or  *)
(* another case was found).                                                *)
CasePass ==
  /\ AtCase
  /\ \/ theCase = NoNode
     \/ /\ theCase # NoNode /\ caseKind # "default" /\ ~caseSends /\ ~paired(ds, theCase)
        /\ foundOne \/ caseKind # "timer"
  /\ stack' = <<advance>> \o Tail(stack)
  /\ UNCHANGED <<g, states, results, berrs, ds, pc, cur, m, tid>>

(* Another case was found: default, or a paired receive, in a new state.   *)
CaseSplit ==
  /\ AtCase /\ theCase # NoNode /\ foundOne
  /\ caseKind = "default" \/ (~caseSends /\ paired(ds, theCase))
  /\ LET isDefault == caseKind = "default"
         e == copyFrom(ds, IF isDefault THEN theCase ELSE top.node, theCase, gid(top.node))
     IN  states' = IF isDuplicateState(states, e) THEN states
                   ELSE Append(states,
                          letWalk(e, IF isDefault THEN theCase ELSE ds.pairs[theCase]))
  /\ stack' = <<advance>> \o Tail(stack)
  /\ UNCHANGED <<g, results, berrs, ds, pc, cur, m, tid>>

(* The default block is walked at once.                                    *)
CaseDefault ==
  /\ AtCase /\ theCase # NoNode /\ ~foundOne /\ caseKind = "default"
  /\ ds' = letWalk(pauseAt(ds, gid(theCase), theCase), theCase)
  /\ cur' = theCase /\ pc' = "visitSkip"
  /\ stack' = <<[advance EXCEPT !.found_default = TRUE]>> \o Tail(stack)
  /\ UNCHANGED <<g, states, results, berrs, m, tid>>

(* The first receive with a producer, or a timer, is walked at once.       *)
CaseReceive ==
  /\ AtCase /\ theCase # NoNode /\ ~foundOne /\ caseKind # "default" /\ ~caseSends
  /\ paired(ds, theCase) \/ caseKind = "timer"
  /\ ds' = IF paired(ds, theCase) THEN letWalk(ds, ds.pairs[theCase]) ELSE ds
  /\ cur' = theCase /\ pc' = "visit"
  /\ stack' = <<[advance EXCEPT !.found_consumer = TRUE]>> \o Tail(stack)
  /\ UNCHANGED <<g, states, results, berrs, m, tid>>

CaseSend ==
  /\ AtCase /\ theCase # NoNode /\ caseKind # "default" /\ caseSends
  /\ StartMatch(ds, "casesend", top.node, theCase, pts(theCase), foundOne)
  /\ UNCHANGED stack

(* Mutant: an unmatched select is left without a pause.                    *)
CasesDone_nopause ==
  /\ pc = "step" /\ top.kind = "cases" /\ top.i > Len(selCases)
  /\ stack' = Tail(stack) /\ pc' = "returnFalse"
  /\ UNCHANGED <<g, states, results, berrs, ds, cur, m, tid>>

(* After the cases: pause an unmatched select, marked unvisited, or go on. *)
CasesDone ==
  /\ pc = "step" /\ top.kind = "cases" /\ top.i > Len(selCases)
  /\ LET n == top.node
         none == ~top.found_consumer /\ ~top.found_producer /\ ~top.found_default
     IN  /\ ds' = IF none THEN pauseAt(markVisited(ds, n, 0), gid(n), n) ELSE ds
         /\ IF top.traverse /\ ~none
            THEN stack' = <<NewFrame("kids", n)>> \o Tail(stack) /\ pc' = "step"
            ELSE stack' = Tail(stack) /\ pc' = "returnFalse"
  /\ UNCHANGED <<g, states, results, berrs, cur, m, tid>>

-----------------------------------------------------------------------------

(* The process has ended.                                                  *)
Terminated == pc \in {"done", "crashed"} /\ UNCHANGED vars

WorkList == PopState \/ StartFilter \/ FilterResult \/ Finish \/ EndExplore
Walk == VisitSkip \/ KidVisited \/ KidGoroutine \/ KidVisit \/ KidsDone
        \/ ReturnToKids \/ ReturnToCases \/ ReturnToExplore
VisitNode == VisitReceive \/ VisitCtxDoneOrCondWait \/ VisitWGWait \/ VisitCase
             \/ VisitLoop \/ VisitOther \/ VisitLock \/ VisitRLock \/ VisitSend
             \/ VisitAll \/ VisitWGDone \/ VisitUnlock \/ VisitSignal \/ VisitExit
             \/ VisitSelect
MatchLoop == MatchObject \/ MatchPass \/ MatchListed \/ (\E c \in Node : MatchSmallest(c))
             \/ EndSend \/ EndCaseSend \/ NilConsumer \/ EndWGDone \/ EndExit
             \/ EndUnlock \/ EndSignal \/ EndAll
Cases == CasePass \/ CaseSplit \/ CaseDefault \/ CaseReceive \/ CaseSend \/ CasesDone

Next == \/ WorkList \/ Walk \/ VisitNode \/ MatchLoop \/ Cases
        \/ \E t \in Tid : Turn(t) \/ QuietTurn(t)
        \/ Terminated

Spec == Init /\ [][Next]_vars

=============================================================================

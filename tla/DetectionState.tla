--------------------------- MODULE DetectionState ---------------------------
(***************************************************************************)
(* detectionState (concurrency/rfg.go): one explored interleaving of the   *)
(* goroutines of an RFG, with the methods that only read it, the           *)
(* duplicate test of the work list and the helpers of util.go it uses.     *)
(*                                                                         *)
(* A map from ids to values is a total function with an explicit absent    *)
(* value; can_walk, whose absent and false entries are never told apart,   *)
(* is the set of the ids that are true.  visited keeps the difference: a   *)
(* lookup of an absent id gives 0, but visit() asks whether the id is      *)
(* present.                                                                *)
(***************************************************************************)
EXTENDS RFG, FiniteSets

Unset == -1     \* pause_ats: not started, or being walked
Ended == -2     \* pause_ats: reached the exit node
InLoop == -3    \* pause_ats: an unclosed loop at the exit

Absent == -1    \* no entry for this key in a map

(* The states the code can write.                                          *)
DS ==
  [splitting_points : Seq(Node),
   pause_ats : [Tid -> Node \cup {Unset, Ended, InLoop}],
   can_walk : SUBSET Node,
   pairs : [Node -> Node \cup {Absent}],     \* consumer -> producer
   hip : Seq(Tid),
   visit_last : [Tid -> Node],               \* 0: nothing delayed
   visit_loops : [LoopName -> Node \cup {Absent}],
   lockset : [Obj -> Node \cup {Absent}],
   rlockset : [Obj -> Node \cup {Absent}],
   doublelock : [Tid -> Seq(Node)],          \* <<>>: no entry
   twolock : [Tid -> Seq(Node)],
   triplelocks : [Tid -> Seq(Node)],
   visited : [Node -> {Absent, 0, 1}],
   start_node_id : Node,
   start_tid : Tid]

(* The first state, before updateHIP(main).                                *)
FreshDS ==
  [splitting_points |-> <<>>,
   pause_ats |-> [t \in Tid |-> Unset],
   can_walk |-> {},
   pairs |-> [n \in Node |-> Absent],
   hip |-> <<>>,
   visit_last |-> [t \in Tid |-> 0],
   visit_loops |-> [l \in LoopName |-> Absent],
   lockset |-> [o \in Obj |-> Absent],
   rlockset |-> [o \in Obj |-> Absent],
   doublelock |-> [t \in Tid |-> <<>>],
   twolock |-> [t \in Tid |-> <<>>],
   triplelocks |-> [t \in Tid |-> <<>>],
   visited |-> [n \in Node |-> Absent],
   start_node_id |-> 0,
   start_tid |-> 0]

-----------------------------------------------------------------------------
(* Queries.                                                                *)

isInHIP(d, t) == InSeq(t, d.hip)
(* Mutant: a goroutine may run in parallel with itself.                    *)
canHIP_self(d, check_tid, cur_tid) == isInHIP(d, check_tid)
canHIP(d, check_tid, cur_tid) == check_tid # cur_tid /\ isInHIP(d, check_tid)
paired(d, n) == d.pairs[n] # Absent

isInLocks(d, n) ==
  \E t \in Tid : \/ InSeq(n, d.doublelock[t])
                 \/ InSeq(n, d.twolock[t])
                 \/ InSeq(n, d.triplelocks[t])

(* What holdingLock / holdingRLock may return: both range over a Go map,   *)
(* so any of these nodes; none means (-1, -1).                             *)
HoldingAt(d, locks, typ) ==
  {n \in Node :
     \E o \in Obj : /\ locks[o] # Absent
                    /\ d.pause_ats[gid(locks[o])] = n
                    /\ isInHIP(d, gid(locks[o]))
                    /\ typId(n) = typ
                    /\ ~isInLocks(d, n)}
holdingLock(d) == HoldingAt(d, d.lockset, "NLock")
holdingRLock(d) == HoldingAt(d, d.rlockset, "NRLock")

(* The tids getRandomTID(cur, prev) can return for a non-empty hip.  Its   *)
(* only caller passes prev = cur.  With three or more entries it draws     *)
(* until the draw differs from cur.                                        *)
getRandomTID(d, cur) ==
  LET h == d.hip
  IN  IF Len(h) = 1 THEN {h[1]}
      ELSE IF Len(h) = 2
           THEN {IF h[i] = cur THEN h[3 - i] ELSE h[i] : i \in 1..2}
           ELSE {h[i] : i \in {j \in DOMAIN h : h[j] # cur}}

hasVisitLast(d) == \E t \in Tid : d.visit_last[t] > 0
hasManyPausedWaits(d) ==
  \E t \in Tid : d.pause_ats[t] \in Node /\ typId(d.pause_ats[t]) = "NCONDWait"
noPausedIsWalkable(d) ==
  \A i \in DOMAIN d.hip : d.pause_ats[d.hip[i]] \notin d.can_walk
noWalk(d) == d.can_walk = {}
hasMeaningfulPaused(d) == \E t \in Tid : d.pause_ats[t] >= 0
noPaused(d) == \A t \in Tid : d.pause_ats[t] = Ended

(* noPausedWaits returns the paused unlock or wg.Wait of the lowest tid.   *)
PausedWaits(d) ==
  {t \in Tid : /\ d.pause_ats[t] \in Node
               /\ typId(d.pause_ats[t]) \in {"NUnlock", "NRUnlock", "NWGWait"}}
noPausedWaits(d) ==
  {d.pause_ats[t] :
     t \in {u \in PausedWaits(d) : \A v \in PausedWaits(d) : u <= v}}

(* onlyICanWalk: every other goroutine has exited or is not started.       *)
onlyICanWalk(d, t) ==
  \A u \in Tid : u = t \/ d.pause_ats[u] \in {Ended, Unset}

(* hasUnclosedLoop inside visitNode(n).                                    *)
hasUnclosedLoop(d, n) ==
  \E l \in LoopName : LET ln == d.visit_loops[l]
                      IN  /\ ln # Absent
                          /\ gid(ln) = gid(n)
                          /\ g.id2node[ln].fn = g.id2node[n].fn

(* cannotLock / cannotRLock: the holder of the first taken object of n.    *)
Taken(locks, n) == {i \in DOMAIN pts(n) : locks[pts(n)[i]] # Absent}
Holder(locks, n) ==
  LET first == {i \in Taken(locks, n) : \A j \in Taken(locks, n) : i <= j}
  IN  IF first = {} THEN NoNode ELSE locks[pts(n)[CHOOSE i \in first : TRUE]]
(* Mutant: the read locks are looked up.                                   *)
cannotLock_read(d, n) == Holder(d.rlockset, n)
cannotLock(d, n) == Holder(d.lockset, n)
cannotRLock(d, n) == Holder(d.rlockset, n)

-----------------------------------------------------------------------------
(* The duplicate test of the work list (isDuplicateState and util.go).     *)

CountIn(s, x) == Cardinality({i \in DOMAIN s : s[i] = x})

(* IntArrayContains(a, b): b is a sub-multiset of a.                       *)
IntArrayContains(a, b) ==
  \A i \in DOMAIN b : CountIn(a, b[i]) >= CountIn(b, b[i])

(* IntMapContains(a, b): no key of a has another value in b.               *)
IntMapContains(a, b) ==
  \A k \in DOMAIN a : (a[k] # Absent /\ b[k] # Absent) => a[k] = b[k]

(* hasRepeatState: the last two splitting points repeat the two before.    *)
hasRepeatState(p) ==
  LET n == Len(p)
  IN  n >= 4 /\ p[n] = p[n - 2] /\ p[n - 1] = p[n - 3]

isDuplicateState(queue, d) ==
  \/ hasRepeatState(d.splitting_points)
  \/ \E i \in DOMAIN queue :
       \/ IntArrayContains(queue[i].splitting_points, d.splitting_points)
       \/ IntMapContains(queue[i].pairs, d.pairs)

-----------------------------------------------------------------------------
(* Updates.                                                                *)

markVisited(d, n, v) == [d EXCEPT !.visited[n] = v]
pauseAt(d, t, n) == [d EXCEPT !.pause_ats[t] = n]
letWalk(d, n) == [d EXCEPT !.can_walk = @ \cup {n}]

(* copy(id), with the place where the new state starts.                    *)
copyFrom(d, id, start, tid) ==
  [d EXCEPT !.splitting_points = Append(@, id),
            !.start_node_id = start, !.start_tid = tid]

(* Mutant: the goroutine is not added to hip.                              *)
updateHIP_nohip(d, n) ==
  [d EXCEPT !.pause_ats[gid(n)] = n, !.can_walk = @ \cup {n}, !.visited[n] = 1]
updateHIP(d, n) ==
  [d EXCEPT !.hip = Append(@, gid(n)),
            !.pause_ats[gid(n)] = n,
            !.can_walk = @ \cup {n},
            !.visited[n] = 1]

(* Mutant: the producer's goroutine is moved.                              *)
markConsumer_producer(d, c, p) ==
  [d EXCEPT !.pairs[c] = p, !.can_walk = @ \cup {c}, !.pause_ats[gid(p)] = c]

(* markConsumerAfterMatching: the pair is recorded; the consumer's         *)
(* goroutine is moved to it unless it is paused before it; a case that     *)
(* matched marks its select as visited.                                    *)
markConsumerAfterMatching(d, c, p) ==
  LET pa == d.pause_ats[gid(c)]
      d1 == [d EXCEPT !.pairs[c] = p]
      d2 == [d1 EXCEPT !.can_walk = @ \cup {c}, !.pause_ats[gid(c)] = c]
  IN  IF pa >= 0 /\ pa < c THEN d1
      ELSE IF isCase(c) THEN markVisited(d2, caseSel(c), 1) ELSE d2

takeLock(d, n) ==
  [d EXCEPT !.lockset =
     [o \in Obj |-> IF InSeq(o, pts(n)) THEN n ELSE @[o]]]
takeRLock(d, n) ==
  [d EXCEPT !.rlockset =
     [o \in Obj |-> IF InSeq(o, pts(n)) THEN n ELSE @[o]]]

(* Mutant: visit_last is reset to -1.                                      *)
prepareLastVisit_minus(d, S) ==
  [d EXCEPT !.can_walk = @ \cup {p[1] : p \in S},
            !.visit_last = [t \in Tid |-> -1]]

(* prepareLastVisit(node_id, n_tid) for each <<node_id, n_tid>> of S, and  *)
(* the reset of visit_last.                                                *)
prepareLastVisit(d, S) ==
  [d EXCEPT !.can_walk = @ \cup {p[1] : p \in S},
            !.pause_ats = [t \in Tid |->
               IF \E p \in S : p[2] = t
               THEN (CHOOSE p \in S : p[2] = t)[1] ELSE @[t]],
            !.visit_last = [t \in Tid |-> 0]]

=============================================================================

----------------------------- MODULE HipProofs -----------------------------
(***************************************************************************)
(* Proofs about hip, for every set of graphs that satisfy IsRFG: it holds  *)
(* no goroutine twice and none that has ended, and no exit finds its       *)
(* goroutine missing.                                                      *)
(*                                                                         *)
(* HipInv is proved inductive.  hip is written in four places, the start   *)
(* of main and of a goroutine, the case of a go node, which is never       *)
(* reached, and the exit; every other step is a KeepsHip step.             *)
(***************************************************************************)
EXTENDS PairProofs

(* What more IsRFG says: a goroutine has one go node and at most one exit, *)
(* and only a go node leads to another goroutine.                          *)
LEMMA GraphGoroutines ==
  ASSUME g \in RFGs
  PROVE  /\ \A t \in Tid : g.roots[t] \in Node /\ typId(g.roots[t]) = "NGoroutine"
                           /\ gid(g.roots[t]) = t
         /\ \A n \in Node : typId(n) = "NGoroutine" => g.roots[gid(n)] = n
         /\ \A n, e \in Node : typId(n) = "NExit" /\ typId(e) = "NExit" /\ gid(n) = gid(e) => n = e
         /\ \A n \in Node : \A i \in DOMAIN kids(n) :
              typId(kids(n)[i]) # "NGoroutine" => gid(kids(n)[i]) = gid(n)
         /\ gid(0) = 0 /\ g.roots[0] = 0 /\ 0 \in Tid /\ 0 \in Node
<1>1. IsRFG(g)
  BY RFGAssumption
<1>2. \A t \in Tid : g.roots[t] \in Node /\ typId(g.roots[t]) = "NGoroutine"
                     /\ gid(g.roots[t]) = t
  BY <1>1 DEF IsRFG, Node, Tid, typId, gid
<1>3. \A n \in Node : typId(n) = "NGoroutine" => g.roots[gid(n)] = n
  BY <1>1 DEF IsRFG, Node, typId, gid
<1>4. \A n, e \in Node : typId(n) = "NExit" /\ typId(e) = "NExit" /\ gid(n) = gid(e) => n = e
  BY <1>1 DEF IsRFG, Node, typId, gid
<1>5. gid(0) = 0 /\ g.roots[0] = 0 /\ 0 \in Tid /\ 0 \in Node
  BY <1>1, <1>2 DEF IsRFG, Node, Tid
<1>6. ASSUME NEW n \in Node, NEW i \in DOMAIN kids(n), typId(kids(n)[i]) # "NGoroutine"
      PROVE  gid(kids(n)[i]) = gid(n)
  <2>1. \A k \in Node : \A j \in DOMAIN g.id2node[k].kids :
          \/ g.id2node[g.id2node[k].kids[j]].typId = "NGoroutine"
          \/ g.id2node[g.id2node[k].kids[j]].gid = g.id2node[k].gid
    BY <1>1 DEF IsRFG, Node
  <2>. QED
    BY <1>6, <2>1 DEF kids, typId, gid
<1>. QED
  BY <1>2, <1>3, <1>4, <1>5, <1>6

-----------------------------------------------------------------------------
(* Steps that leave hip alone.                                             *)

(* e is d after updates that write hip not at all, end nobody, forget no   *)
(* visit and leave the go nodes marked.                                    *)
KeepsHip(d, e) ==
  /\ e.hip = d.hip
  /\ \A n \in Node : d.visited[n] # Absent => e.visited[n] # Absent
  /\ \A n \in Node : typId(n) = "NGoroutine" /\ d.visited[n] = 1 => e.visited[n] = 1
  /\ \A t \in Tid : e.pause_ats[t] = Ended => d.pause_ats[t] = Ended

(* Such updates keep hip sound, and a goroutine that may end.              *)
LEMMA KeepsHipSound ==
  ASSUME g \in RFGs, NEW d, NEW e, KeepsHip(d, e)
  PROVE  /\ HipSoundDS(d) => HipSoundDS(e)
         /\ \A n : MayEnd(d, n) => MayEnd(e, n)
<1>1. \A t : isInHIP(e, t) <=> isInHIP(d, t)
  BY DEF KeepsHip, isInHIP
<1>2. HipSoundDS(d) => HipSoundDS(e)
  BY <1>1, GraphGoroutines DEF HipSoundDS, KeepsHip
<1>3. \A n : MayEnd(d, n) => MayEnd(e, n)
  BY <1>1 DEF MayEnd, KeepsHip
<1>. QED
  BY <1>2, <1>3

(* One after another they are such an update.                              *)
LEMMA KeepsHipTrans ==
  ASSUME NEW d, NEW e, NEW f, KeepsHip(d, e), KeepsHip(e, f)
  PROVE  KeepsHip(d, f)
BY DEF KeepsHip

(* Nothing written is such an update.                                      *)
LEMMA KeepsHipSame == ASSUME NEW d PROVE KeepsHip(d, d)
BY DEF KeepsHip

(* visit() marking a node, and a lock or select marked unvisited.          *)
LEMMA HipMark ==
  ASSUME NEW d \in GoodDS, NEW n \in Node, NEW v \in {0, 1},
         v = 1 \/ typId(n) # "NGoroutine"
  PROVE  KeepsHip(d, markVisited(d, n, v))
BY DEF KeepsHip, markVisited, GoodDS, DS, Absent

(* pauseHere.                                                              *)
LEMMA HipPause ==
  ASSUME NEW d \in GoodDS, NEW t \in Tid, NEW n, n # Ended
  PROVE  KeepsHip(d, pauseAt(d, t, n))
BY DEF KeepsHip, pauseAt, GoodDS, DS

(* Setting can_walk.                                                       *)
LEMMA HipWalk ==
  ASSUME NEW d \in GoodDS, NEW n
  PROVE  KeepsHip(d, letWalk(d, n))
BY DEF KeepsHip, letWalk, GoodDS, DS

(* copy(id).                                                               *)
LEMMA HipCopy ==
  ASSUME NEW d \in GoodDS, NEW id, NEW start, NEW t
  PROVE  KeepsHip(d, copyFrom(d, id, start, t)) /\ copyFrom(d, id, start, t).start_node_id = start
BY DEF KeepsHip, copyFrom, GoodDS, DS

(* Recording or releasing a lock.                                          *)
LEMMA HipLock ==
  ASSUME NEW d \in GoodDS, NEW n, NEW o, NEW v
  PROVE  /\ KeepsHip(d, takeLock(d, n)) /\ KeepsHip(d, takeRLock(d, n))
         /\ KeepsHip(d, [d EXCEPT !.lockset[o] = v])
BY DEF KeepsHip, takeLock, takeRLock, GoodDS, DS

(* The tables of double, two and triple locks, the open loops, delayed     *)
(* signals and pairs.                                                      *)
LEMMA HipTables ==
  ASSUME NEW d \in GoodDS, NEW t, NEW s, NEW l, NEW v
  PROVE  /\ KeepsHip(d, [d EXCEPT !.doublelock[t] = s])
         /\ KeepsHip(d, [d EXCEPT !.twolock[t] = s])
         /\ KeepsHip(d, [d EXCEPT !.triplelocks[t] = s])
         /\ KeepsHip(d, [d EXCEPT !.visit_loops[l] = v])
         /\ KeepsHip(d, [d EXCEPT !.visit_last[t] = v])
         /\ KeepsHip(d, [d EXCEPT !.pairs[t] = v])
BY DEF KeepsHip, GoodDS, DS

(* markConsumerAfterMatching: the consumer's goroutine is moved, a select  *)
(* is marked.                                                              *)
LEMMA HipMarkConsumer ==
  ASSUME GraphOK, NEW d \in GoodDS, NEW c \in Node, NEW p \in Node, Matches(c, p)
  PROVE  KeepsHip(d, markConsumerAfterMatching(d, c, p))
<1>. DEFINE d1 == [d EXCEPT !.pairs[c] = p]
            d2 == letWalk(pauseAt(d1, gid(c), c), c)
            d3 == [d1 EXCEPT !.can_walk = @ \cup {c}, !.pause_ats[gid(c)] = c]
<1>1. d1 \in GoodDS /\ KeepsHip(d, d1)
  BY PairGood, HipTables
<1>2. d2 \in GoodDS /\ KeepsHip(d, d2)
  <2>1. pauseAt(d1, gid(c), c) \in GoodDS /\ KeepsHip(d1, pauseAt(d1, gid(c), c))
    <3>. HIDE DEF d1
    <3>1. c # Ended /\ gid(c) \in Tid
      BY DEF GraphOK, Ended
    <3>. QED
      BY <1>1, <3>1, PauseAtGood, HipPause
  <2>. HIDE DEF d1
  <2>. QED
    BY <1>1, <2>1, LetWalkGood, HipWalk, KeepsHipTrans
<1>3. d3 = d2
  BY <1>1 DEF pauseAt, letWalk, GoodDS, DS
<1>4. KeepsHip(d, markVisited(d2, caseSel(c), 1))
  <2>1. caseSel(c) \in Node
    BY DEF GraphOK
  <2>. HIDE DEF d2
  <2>. QED
    BY <1>2, <2>1, HipMark, KeepsHipTrans
<1>. QED
  BY <1>1, <1>2, <1>3, <1>4 DEF markConsumerAfterMatching

(* prepareLastVisit: goroutines are moved to nodes.                        *)
LEMMA HipPrepare ==
  ASSUME GraphOK, NEW d \in GoodDS, NEW S \in LastVisits(d)
  PROVE  KeepsHip(d, prepareLastVisit(d, S))
<1>. DEFINE e == prepareLastVisit(d, S)
<1>1. e.visited = d.visited
  BY PrepareShape
<1>2. \A t \in Tid : e.pause_ats[t] \in Node \/ e.pause_ats[t] = d.pause_ats[t]
  BY PrepareShape, LastVisitsOwn
<1>3. e.hip = d.hip
  BY DEF prepareLastVisit, GoodDS, DS
<1>. HIDE DEF e
<1>4. KeepsHip(d, e)
  BY <1>1, <1>2, <1>3 DEF KeepsHip, Ended, GraphOK
<1>. QED
  BY <1>4 DEF e

-----------------------------------------------------------------------------
(* The invariant.                                                          *)

(* The states of the work list.                                            *)
StatesHip(sts) ==
  \A i \in DOMAIN sts : HipSoundDS(sts[i]) /\ MayEnd(sts[i], sts[i].start_node_id)

(* The loops of a walk are loops at nodes of goroutine t.                  *)
OneGoroutine(st, t) == \A i \in DOMAIN st : gid(st[i].node) = t

(* The invariant after a step, stated in the graph before it.              *)
KeptHip == Hip(states', ds', pc', cur', stack', m')

(* g is never assigned.                                                    *)
LEMMA FrozenHip == ASSUME HipInv, Preserved, KeptHip, OnceInv' PROVE HipInv'
<1>0. g' = g
  BY DEF Preserved
<1>1. Node' = Node /\ Tid' = Tid
  BY <1>0 DEF Node, Tid
<1>2. \A n : typId(n)' = typId(n) /\ gid(n)' = gid(n)
  BY <1>0 DEF typId, gid
<1>3. \A d, t : isInHIP(d, t)' <=> isInHIP(d, t)
  BY DEF isInHIP
<1>4. \A d : HipSoundDS(d)' <=> HipSoundDS(d)
  BY <1>0, <1>1, <1>3 DEF HipSoundDS
<1>5. \A d, n : MayEnd(d, n)' <=> MayEnd(d, n)
  BY <1>1, <1>2, <1>3 DEF MayEnd
<1>6. \A d, p, n, st, k : WalkHip(d, p, n, st, k)' <=> WalkHip(d, p, n, st, k)
  BY <1>2, <1>5 DEF WalkHip
<1>. QED
  BY <1>4, <1>5, <1>6 DEF HipInv, Hip, KeptHip

(* The parts of the invariant, for citing.                                 *)
LEMMA HipFacts ==
  ASSUME HipInv
  PROVE  /\ OnceInv /\ IInv /\ GraphOK /\ g \in RFGs
         /\ StatesHip(states) /\ HipSoundDS(ds)
         /\ pc \in WalkPC => MayEnd(ds, cur) /\ OneGoroutine(stack, gid(cur))
         /\ pc = "visit" => typId(cur) # "NGoroutine"
         /\ pc = "match" => gid(m.at) = gid(cur)
         /\ ds \in GoodDS /\ cur \in Node /\ stack \in Seq(Frame)
         /\ states \in Seq(GoodDS)
BY OnceFacts, InvFacts DEF HipInv, Hip, WalkHip, StatesHip, OneGoroutine

(* A step of a walk that leaves hip alone.                                 *)
LEMMA WalkStep ==
  ASSUME HipInv, pc \in WalkPC, KeepsHip(ds, ds'), StatesHip(states'), gid(cur') = gid(cur),
         OneGoroutine(stack', gid(cur)), pc' = "visit" => typId(cur') # "NGoroutine",
         pc' = "match" => gid(m'.at) = gid(cur)
  PROVE  KeptHip
<1>1. HipSoundDS(ds') /\ MayEnd(ds', cur)
  BY HipFacts, KeepsHipSound
<1>2. MayEnd(ds', cur')
  BY <1>1 DEF MayEnd
<1>. QED
  BY <1>1, <1>2 DEF KeptHip, Hip, WalkHip, StatesHip, OneGoroutine

(* The stack without its top, with another frame on it, with another top.  *)
LEMMA OneStack ==
  ASSUME NEW st \in Seq(Frame), NEW t, OneGoroutine(st, t)
  PROVE  /\ st # <<>> => gid(Head(st).node) = t /\ OneGoroutine(Tail(st), t)
         /\ \A f \in Frame : gid(f.node) = t =>
              /\ OneGoroutine(<<f>> \o st, t)
              /\ st # <<>> => OneGoroutine(<<f>> \o Tail(st), t)
<1>1. ASSUME st # <<>> PROVE gid(Head(st).node) = t /\ OneGoroutine(Tail(st), t)
  <2>1. /\ 1 \in DOMAIN st /\ Head(st) = st[1]
        /\ \A i \in DOMAIN Tail(st) : i + 1 \in DOMAIN st /\ Tail(st)[i] = st[i + 1]
    BY <1>1
  <2>. QED
    BY <2>1 DEF OneGoroutine
<1>2. ASSUME NEW s \in Seq(Frame), OneGoroutine(s, t), NEW f \in Frame, gid(f.node) = t
      PROVE  OneGoroutine(<<f>> \o s, t)
  <2>1. \A i \in DOMAIN (<<f>> \o s) :
          (<<f>> \o s)[i] = f \/ \E j \in DOMAIN s : (<<f>> \o s)[i] = s[j]
    OBVIOUS
  <2>. QED
    BY <1>2, <2>1 DEF OneGoroutine
<1>3. st # <<>> => Tail(st) \in Seq(Frame)
  OBVIOUS
<1>4. ASSUME NEW f \in Frame, gid(f.node) = t PROVE OneGoroutine(<<f>> \o st, t)
  BY <1>2, <1>4
<1>5. ASSUME NEW f \in Frame, gid(f.node) = t, st # <<>>
      PROVE  OneGoroutine(<<f>> \o Tail(st), t)
  BY <1>1, <1>2, <1>3, <1>5
<1>. QED
  BY <1>1, <1>4, <1>5

(* A state split off in a walk.                                            *)
LEMMA AppendHip ==
  ASSUME HipInv, pc \in WalkPC, NEW d \in GoodDS, KeepsHip(ds, d),
         gid(d.start_node_id) = gid(cur)
  PROVE  StatesHip(Append(states, d))
<1>1. HipSoundDS(d) /\ MayEnd(d, cur)
  BY HipFacts, KeepsHipSound
<1>2. MayEnd(d, d.start_node_id)
  BY <1>1 DEF MayEnd
<1>3. \A i \in DOMAIN Append(states, d) :
        Append(states, d)[i] = d \/ (i \in DOMAIN states /\ Append(states, d)[i] = states[i])
  <2>1. states \in Seq(GoodDS)
    BY HipFacts
  <2>. QED
    BY <2>1
<1>. QED
  BY <1>1, <1>2, <1>3, HipFacts DEF StatesHip

(* Leaving visitNode.                                                      *)
LEMMA ProceedHip ==
  ASSUME HipInv, pc \in WalkPC, NEW d, NEW b \in BOOLEAN, Proceed(d, b), KeepsHip(ds, d),
         StatesHip(states')
  PROVE  KeptHip
<1>. DEFINE f == NewFrame("kids", cur)
<1>1. f \in Frame /\ f.node = cur
  BY HipFacts, FrameType DEF NewFrame
<1>2. OneGoroutine(stack, gid(cur)) /\ stack \in Seq(Frame)
  BY HipFacts
<1>. HIDE DEF f
<1>3. OneGoroutine(<<f>> \o stack, gid(cur))
  BY <1>1, <1>2, OneStack
<1>4. /\ ds' = d /\ cur' = cur /\ pc' \in {"step", "returnFalse"}
      /\ stack' \in {stack, <<f>> \o stack}
  BY DEF Proceed, push, f
<1>. QED
  BY <1>2, <1>3, <1>4, WalkStep

-----------------------------------------------------------------------------
(* The start of a goroutine.                                               *)

(* updateHIP of a go node that was not visited: its goroutine is new.      *)
LEMMA StartHip ==
  ASSUME g \in RFGs, NEW d \in GoodDS, HipSoundDS(d), NEW n \in Node,
         typId(n) = "NGoroutine", d.visited[n] = Absent
  PROVE  /\ HipSoundDS(updateHIP(d, n)) /\ isInHIP(updateHIP(d, n), gid(n))
         /\ \A k : MayEnd(d, k) => MayEnd(updateHIP(d, n), k)
<1>. DEFINE h == Append(d.hip, gid(n))
            e == updateHIP(d, n)
<1>1. /\ gid(n) \in Tid /\ g.roots[gid(n)] = n /\ d.hip \in Seq(Tid)
      /\ n # Ended
  BY GraphFacts, GraphGoroutines DEF GraphOK, GoodDS, DS, Ended
<1>2. /\ e.hip = h
      /\ \A k \in Node : e.visited[k] = IF k = n THEN 1 ELSE d.visited[k]
      /\ \A t \in Tid : e.pause_ats[t] = IF t = gid(n) THEN n ELSE d.pause_ats[t]
  BY <1>1 DEF updateHIP, GoodDS, DS
<1>3. ~isInHIP(d, gid(n))
  BY <1>1 DEF HipSoundDS, Absent
<1>4. /\ Len(h) = Len(d.hip) + 1 /\ h[Len(h)] = gid(n) /\ Len(h) \in DOMAIN h
      /\ \A i \in DOMAIN h : i = Len(h) \/ (i \in DOMAIN d.hip /\ h[i] = d.hip[i])
      /\ \A i \in DOMAIN d.hip : i \in DOMAIN h /\ h[i] = d.hip[i]
  BY <1>1
<1>. HIDE DEF h, e
<1>5. \A t : isInHIP(e, t) <=> isInHIP(d, t) \/ t = gid(n)
  BY <1>2, <1>4 DEF isInHIP, InSeq
<1>6. \A i, j \in DOMAIN h : h[i] = h[j] => i = j
  BY <1>3, <1>4 DEF isInHIP, InSeq, HipSoundDS
<1>7. HipSoundDS(e)
  <2>1. \A t \in Tid : g.roots[t] \in Node
    BY GraphGoroutines
  <2>. QED
    BY <1>1, <1>2, <1>5, <1>6, <2>1 DEF HipSoundDS
<1>8. \A k : MayEnd(d, k) => MayEnd(e, k)
  BY <1>2, <1>5 DEF MayEnd, Absent
<1>. QED
  BY <1>5, <1>7, <1>8 DEF e

(* DFSDetectBlockingBugs starts with main in hip.                          *)
LEMMA InitHip == Init => HipInv
<1>. SUFFICES ASSUME Init PROVE HipInv
  OBVIOUS
<1>1. OnceInv /\ g \in RFGs
  BY InitOnce, OnceFacts
<1>2. FreshDS \in GoodDS /\ HipSoundDS(FreshDS) /\ FreshDS.visited[0] = Absent
  BY <1>1, FreshGood, GraphFacts, GraphGoroutines DEF HipSoundDS, isInHIP, InSeq, FreshDS
<1>3. typId(0) = "NGoroutine" /\ g.roots[0] = 0 /\ 0 \in Node /\ gid(0) = 0
  BY <1>1, GraphGoroutines
<1>4. ds = updateHIP(FreshDS, 0) /\ states = <<ds>> /\ pc = "pop"
  BY <1>3 DEF Init
<1>5. HipSoundDS(ds) /\ isInHIP(ds, 0)
  BY <1>1, <1>2, <1>3, <1>4, StartHip
<1>6. ds.start_node_id = 0
  BY <1>4 DEF updateHIP, FreshDS
<1>7. MayEnd(ds, ds.start_node_id)
  BY <1>3, <1>5, <1>6 DEF MayEnd
<1>. QED
  BY <1>1, <1>4, <1>5, <1>7 DEF HipInv, Hip, WalkHip, WalkPC

-----------------------------------------------------------------------------
(* The work list and the turns.                                            *)

(* Taking a state from the work list and filtering the results.            *)
LEMMA WorkListHip == ASSUME HipInv, WorkList PROVE KeptHip
<1>. USE HipFacts
<1>1. CASE PopState
  <2>1. /\ 1 \in DOMAIN states /\ Head(states) = states[1]
        /\ \A i \in DOMAIN Tail(states) : i + 1 \in DOMAIN states /\ Tail(states)[i] = states[i + 1]
    BY <1>1 DEF PopState
  <2>2. stack = <<>>
    BY <1>1, OnceFacts DEF PopState
  <2>3. /\ ds' = states[1] /\ states' = Tail(states) /\ cur' = ds'.start_node_id
        /\ pc' = "visitSkip" /\ stack' = <<>>
    BY <1>1, <2>1, <2>2 DEF PopState
  <2>4. HipSoundDS(ds') /\ MayEnd(ds', cur') /\ StatesHip(states')
    BY <2>1, <2>3 DEF StatesHip
  <2>. QED
    BY <2>3, <2>4 DEF KeptHip, Hip, WalkHip, StatesHip
<1>2. CASE StartFilter \/ FilterResult \/ Finish \/ EndExplore
  <2>1. pc' \in {"filter", "done", "pop"} /\ UNCHANGED <<states, ds>>
    BY <1>2 DEF StartFilter, FilterResult, Finish, EndExplore
  <2>. QED
    BY <2>1 DEF KeptHip, Hip, WalkHip, WalkPC, StatesHip
<1>. QED
  BY <1>1, <1>2 DEF WorkList

(* A turn resumes a goroutine of hip; what it hands to visitNode is a node *)
(* that is visited again.                                                  *)
LEMMA WalkOrSkipHip ==
  ASSUME HipInv, NEW d \in GoodDS, NEW t \in Tid, NEW last \in BOOLEAN, KeepsHip(ds, d),
         pc = "sched", isInHIP(ds, t), WalkOrSkip(d, t, last),
         canWalkFrom(d, t) /\ last => typId(d.pause_ats[t]) \in AgainTypes
  PROVE  KeptHip
<1>. USE HipFacts
<1>1. stack' = <<>> /\ states' = states
  BY OnceFacts DEF WalkOrSkip
<1>2. HipSoundDS(d) /\ isInHIP(d, t)
  BY KeepsHipSound DEF KeepsHip, isInHIP
<1>3. CASE canWalkFrom(d, t)
  <2>. DEFINE n == d.pause_ats[t]
              d0 == [d EXCEPT !.can_walk = @ \ {n}]
  <2>1. n \in Node /\ gid(n) = t
    BY <1>3 DEF canWalkFrom, GoodDS, OwnDS
  <2>2. d0 \in GoodDS /\ KeepsHip(d, d0)
    BY DEF GoodDS, DS, OwnDS, AgreeDS, KeepsHip
  <2>3. KeepsHip(d, pauseAt(d0, t, Unset))
    <3>. HIDE DEF d0
    <3>. QED
      BY <2>2, HipPause, KeepsHipTrans DEF Unset, Ended
  <2>4. /\ ds' = pauseAt(d0, t, Unset) /\ cur' = n
        /\ pc' = IF Revisit(d, n, last) THEN "visit" ELSE "visitSkip"
    BY <1>3, <2>1, <2>2 DEF WalkOrSkip, pauseAt, GoodDS, DS
  <2>. HIDE DEF d0
  <2>5. HipSoundDS(ds') /\ MayEnd(ds', n)
    BY <1>2, <2>1, <2>3, <2>4, KeepsHipSound DEF MayEnd
  <2>6. Revisit(d, n, last) => typId(n) # "NGoroutine"
    BY <1>3 DEF Revisit, AgainTypes, LockTypes, UnlockTypes, CaseTypes
  <2>. HIDE DEF n
  <2>. QED
    BY <1>1, <2>4, <2>5, <2>6 DEF KeptHip, Hip, WalkHip, StatesHip
<1>4. CASE ~canWalkFrom(d, t)
  <2>1. ds' = d /\ pc' = "sched"
    BY <1>4 DEF WalkOrSkip
  <2>. QED
    BY <1>1, <1>2, <2>1 DEF KeptHip, Hip, WalkHip, WalkPC, StatesHip
<1>. QED
  BY <1>3, <1>4

(* Both kinds of turns of exploreRandomState.                              *)
LEMMA TurnHip ==
  ASSUME HipInv, NEW t \in Tid, Turn(t) \/ QuietTurn(t)
  PROVE  KeptHip
<1>. USE HipFacts
<1>1. pc = "sched" /\ ds.hip # <<>> /\ t \in getRandomTID(ds, tid)
  BY DEF Turn, QuietTurn
<1>2. isInHIP(ds, t)
  BY <1>1, RandomInHIP DEF isInHIP, InSeq, GoodDS
<1>3. CASE Turn(t)
  BY <1>1, <1>2, <1>3, KeepsHipSame, WalkOrSkipHip DEF Turn
<1>4. CASE QuietTurn(t)
  <2>1. PICK S \in LastVisits(ds) : WalkOrSkip(prepareLastVisit(ds, S), t, TRUE)
    BY <1>4 DEF QuietTurn
  <2>. DEFINE e == prepareLastVisit(ds, S)
  <2>2. e \in GoodDS /\ KeepsHip(ds, e)
    BY LastVisitsOwn, PrepareGood, HipPrepare
  <2>3. ASSUME canWalkFrom(e, t) PROVE typId(e.pause_ats[t]) \in AgainTypes
    <3>1. typId(e.pause_ats[t]) \in LockTypes \/ \E p \in S : e.pause_ats[t] = p[1]
      BY <1>1, <1>4, <2>3, QuietWalk DEF QuietTurn
    <3>2. \A p \in S : typId(p[1]) \in AgainTypes
      BY OnceFacts, LastNodes
    <3>. QED
      BY <3>1, <3>2 DEF AgainTypes
  <2>. HIDE DEF e
  <2>. QED
    BY <1>1, <1>2, <2>1, <2>2, <2>3, WalkOrSkipHip DEF e
<1>. QED
  BY <1>3, <1>4

(* The loops over kids and the returns.                                    *)
LEMMA WalkActionsHip == ASSUME HipInv, Walk PROVE KeptHip
<1>. USE HipFacts
<1>1. CASE VisitSkip
  <2>1. pc \in WalkPC /\ Proceed(Seen(cur), TRUE) /\ states' = states
    BY <1>1 DEF VisitSkip, WalkPC
  <2>2. KeepsHip(ds, Seen(cur))
    BY HipMark DEF Seen
  <2>. QED
    BY <2>1, <2>2, ProceedHip
<1>2. ASSUME pc \in WalkPC, stack # <<>>
      PROVE  /\ top \in Frame /\ gid(top.node) = gid(cur)
             /\ OneGoroutine(Tail(stack), gid(cur))
             /\ OneGoroutine(<<advance>> \o Tail(stack), gid(cur))
  <2>1. top \in Frame /\ gid(top.node) = gid(cur) /\ OneGoroutine(Tail(stack), gid(cur))
    BY <1>2, TopFacts, OneStack DEF top
  <2>2. advance \in Frame
    BY <1>2, TopFacts
  <2>3. advance.node = top.node
    BY <2>1 DEF advance, Frame
  <2>. QED
    BY <1>2, <2>1, <2>2, <2>3, OneStack
<1>3. CASE KidVisited \/ KidVisit \/ KidGoroutine
  <2>1. /\ pc \in WalkPC /\ stack # <<>> /\ top.i <= Len(kids(top.node)) /\ top \in Frame
        /\ states' = states /\ stack' = <<advance>> \o Tail(stack) /\ OneGoroutine(stack', gid(cur))
        /\ gid(top.node) = gid(cur)
    BY <1>2, <1>3, InvFacts DEF KidVisited, KidVisit, KidGoroutine, StackInv, WalkPC
  <2>2. nextKid \in Node /\ (typId(nextKid) # "NGoroutine" => gid(nextKid) = gid(cur))
    <3>1. top.node \in Node /\ top.i \in Nat \ {0} /\ kids(top.node) \in Seq(Node)
      BY <2>1 DEF Frame, GraphOK
    <3>2. top.i \in DOMAIN kids(top.node)
      BY <2>1, <3>1
    <3>. QED
      BY <2>1, <3>1, <3>2, GraphGoroutines DEF nextKid
  <2>3. CASE KidVisited
    BY <2>1, <2>3, KeepsHipSame, WalkStep DEF KidVisited
  <2>4. CASE KidVisit
    <3>1. /\ cur' = nextKid /\ gid(cur') = gid(cur) /\ typId(cur') # "NGoroutine"
          /\ ds' = ds /\ pc' = "visit"
      BY <2>2, <2>4 DEF KidVisit
    <3>. QED
      BY <2>1, <3>1, KeepsHipSame, WalkStep
  <2>5. CASE KidGoroutine
    <3>1. /\ ds' = updateHIP(ds, nextKid) /\ typId(nextKid) = "NGoroutine"
          /\ ds.visited[nextKid] = Absent /\ pc' = pc /\ cur' = cur /\ pc = "step"
      BY <2>5 DEF KidGoroutine
    <3>2. HipSoundDS(ds') /\ MayEnd(ds', cur)
      BY <2>1, <2>2, <3>1, StartHip
    <3>. QED
      BY <2>1, <3>1, <3>2 DEF KeptHip, Hip, WalkHip, StatesHip, OneGoroutine
  <2>. QED
    BY <1>3, <2>3, <2>4, <2>5
<1>4. CASE KidsDone \/ ReturnToKids
  <2>1. /\ pc \in WalkPC /\ stack # <<>> /\ UNCHANGED <<states, ds, cur>>
        /\ pc' \in {"returnTrue", "step", "returnFalse"}
        /\ stack' \in {stack, Tail(stack)}
    BY <1>4, InvFacts DEF KidsDone, ReturnToKids, StackInv, WalkPC
  <2>. QED
    BY <1>2, <2>1, KeepsHipSame, WalkStep
<1>5. CASE ReturnToCases
  <2>. DEFINE f == [top EXCEPT !.traverse = (pc = "returnTrue")]
  <2>1. /\ pc \in WalkPC /\ stack # <<>> /\ UNCHANGED <<states, ds, cur>> /\ pc' = "step"
        /\ stack' = <<f>> \o Tail(stack)
    BY <1>5 DEF ReturnToCases, WalkPC
  <2>2. f \in Frame /\ f.node = top.node
    BY <1>2, <2>1 DEF Frame
  <2>. HIDE DEF f
  <2>3. OneGoroutine(stack', gid(cur))
    BY <1>2, <2>1, <2>2, OneStack
  <2>. QED
    BY <2>1, <2>3, KeepsHipSame, WalkStep
<1>6. CASE ReturnToExplore
  <2>1. pc' = "sched" /\ UNCHANGED <<states, ds>>
    BY <1>6 DEF ReturnToExplore
  <2>. QED
    BY <2>1 DEF KeptHip, Hip, WalkHip, WalkPC, StatesHip
<1>. QED
  BY <1>1, <1>3, <1>4, <1>5, <1>6 DEF Walk

-----------------------------------------------------------------------------
(* visitNode without matching.                                             *)

(* visit() marks its node.                                                 *)
LEMMA SeenHip == ASSUME HipInv PROVE Seen(cur) \in GoodDS /\ KeepsHip(ds, Seen(cur))
BY HipFacts, SeenGood, HipMark DEF Seen

(* Pausing the goroutine of a node at it.                                  *)
LEMMA PauseHip ==
  ASSUME HipInv, NEW d \in GoodDS, NEW n \in Node, KeepsHip(ds, d)
  PROVE  pauseAt(d, gid(n), n) \in GoodDS /\ KeepsHip(ds, pauseAt(d, gid(n), n))
<1>1. GraphOK
  BY HipFacts
<1>2. gid(n) \in Tid /\ n # Ended
  BY <1>1 DEF GraphOK, Ended
<1>. QED
  BY <1>1, <1>2, PauseAtGood, HipPause, KeepsHipTrans

(* Letting a node walk.                                                    *)
LEMMA WalkOnHip ==
  ASSUME NEW d \in GoodDS, NEW n \in Node, KeepsHip(ds, d)
  PROVE  letWalk(d, n) \in GoodDS /\ KeepsHip(ds, letWalk(d, n))
BY LetWalkGood, HipWalk, KeepsHipTrans

(* matchConsumer and the cases that use it.                                *)
LEMMA ConsumerHip ==
  ASSUME HipInv, VisitReceive \/ VisitCtxDoneOrCondWait \/ VisitWGWait
  PROVE  KeptHip
<1>. USE HipFacts
<1>. DEFINE d == Seen(cur)
<1>0. pc \in WalkPC /\ states' = states
  BY DEF VisitReceive, VisitCtxDoneOrCondWait, VisitWGWait, AtNode, WalkPC
<1>1. d \in GoodDS /\ KeepsHip(ds, d)
  BY SeenHip
<1>. HIDE DEF d
<1>2. KeepsHip(ds, pauseAt(d, t_cur, cur))
  BY <1>1, PauseHip DEF t_cur
<1>3. ASSUME NEW inform, matchConsumer(d, inform) PROVE KeptHip
  <2>1. paired(d, cur) => d.pairs[cur] \in Node
    BY <1>1 DEF paired, GoodDS, DS
  <2>2. paired(d, cur) => KeepsHip(ds, letWalk(d, d.pairs[cur]))
    BY <1>1, <2>1, WalkOnHip
  <2>. QED
    BY <1>0, <1>1, <1>2, <1>3, <2>2, ProceedHip DEF matchConsumer
<1>. QED
  BY <1>0, <1>2, <1>3, ProceedHip DEF VisitReceive, VisitCtxDoneOrCondWait, VisitWGWait, d

(* The cases of a select case, of the loops and of the nodes without an    *)
(* action; no go node is among them.                                       *)
LEMMA VisitPlainHip ==
  ASSUME HipInv, VisitCase \/ VisitLoop \/ VisitOther
  PROVE  KeptHip
<1>. USE HipFacts
<1>. DEFINE d == Seen(cur)
<1>0. pc \in WalkPC /\ pc = "visit" /\ states' = states
  BY DEF VisitCase, VisitLoop, VisitOther, AtNode, WalkPC
<1>1. d \in GoodDS /\ KeepsHip(ds, d)
  BY SeenHip
<1>2. CASE VisitCase
  <2>. DEFINE s == caseSel(cur)
              e == letWalk(pauseAt(d, gid(s), s), s)
  <2>1. s \in Node
    BY DEF GraphOK
  <2>2. e \in GoodDS /\ KeepsHip(ds, e)
    <3>. HIDE DEF d, s
    <3>. QED
      BY <1>1, <2>1, PauseHip, WalkOnHip
  <2>3. paired(ds, cur) => ds.pairs[cur] \in Node
    BY DEF paired, GoodDS, DS
  <2>4. paired(ds, cur) => KeepsHip(ds, letWalk(e, ds.pairs[cur]))
    <3>. HIDE DEF e
    <3>. QED
      BY <2>2, <2>3, WalkOnHip
  <2>. HIDE DEF e
  <2>. QED
    BY <1>0, <1>2, <2>2, <2>4, ProceedHip DEF VisitCase, e
<1>3. CASE VisitLoop
  <2>. DEFINE nd == g.id2node[cur]
              v == IF nd.enterLoop THEN cur ELSE Absent
              e == [d EXCEPT !.visit_loops[nd.loop_name] = v]
  <2>1. KeepsHip(ds, e)
    <3>. HIDE DEF d, v
    <3>. QED
      BY <1>1, HipTables, KeepsHipTrans
  <2>2. Proceed(e, TRUE)
    BY <1>3 DEF VisitLoop
  <2>. HIDE DEF e
  <2>. QED
    BY <1>0, <2>1, <2>2, ProceedHip
<1>4. CASE VisitOther
  <2>1. Proceed(d, TRUE)
    BY <1>0, <1>4 DEF VisitOther
  <2>. HIDE DEF d
  <2>. QED
    BY <1>0, <1>1, <2>1, ProceedHip
<1>. QED
  BY <1>2, <1>3, <1>4

-----------------------------------------------------------------------------
(* Locks.                                                                  *)

(* The state of createNewLockState: it starts at the lock, and the node    *)
(* marked unvisited is a lock.                                             *)
LEMMA LockStateHip ==
  ASSUME HipInv, NEW d \in GoodDS, KeepsHip(ds, d), NEW held \in Node, typId(held) \in LockTypes
  PROVE  /\ KeepsHip(ds, LockState(d, held))
         /\ LockState(d, held).start_node_id = cur
<1>. USE HipFacts
<1>. DEFINE c == copyFrom(d, cur, cur, t_cur)
            p == pauseAt(c, gid(held), held)
            q == takeLock(p, cur)
            r == markVisited(q, held, 0)
<1>0. typId(held) # "NGoroutine"
  BY DEF LockTypes
<1>1. c \in GoodDS /\ KeepsHip(ds, c) /\ c.start_node_id = cur
  <2>1. t_cur \in Tid
    BY DEF t_cur, GraphOK
  <2>. QED
    BY <2>1, CopyFromGood, HipCopy, KeepsHipTrans
<1>. HIDE DEF c
<1>2. p \in GoodDS /\ KeepsHip(ds, p) /\ p.start_node_id = cur
  <2>1. p.start_node_id = cur
    BY <1>1 DEF pauseAt, GoodDS, DS
  <2>. QED
    BY <1>1, <2>1, PauseHip
<1>. HIDE DEF p
<1>3. KeepsHip(ds, q) /\ q.start_node_id = cur
  <2>1. q.start_node_id = cur
    BY <1>2 DEF takeLock, GoodDS, DS
  <2>. QED
    BY <1>2, <2>1, HipLock, KeepsHipTrans
<1>4. q \in GoodDS
  BY <1>2, TakeLockGood
<1>. HIDE DEF q
<1>5. r \in GoodDS /\ KeepsHip(ds, r) /\ r.start_node_id = cur
  <2>1. r.start_node_id = cur
    BY <1>3, <1>4 DEF markVisited, GoodDS, DS
  <2>. QED
    BY <1>0, <1>3, <1>4, <2>1, MarkVisitedGood, HipMark, KeepsHipTrans
<1>. HIDE DEF r
<1>6. KeepsHip(ds, letWalk(r, cur)) /\ letWalk(r, cur).start_node_id = cur
  <2>1. letWalk(r, cur).start_node_id = cur
    BY <1>5 DEF letWalk, GoodDS, DS
  <2>. QED
    BY <1>5, <2>1, WalkOnHip
<1>. QED
  BY <1>6 DEF LockState, c, p, q, r

(* A lock that is held.                                                    *)
LEMMA BlockedByHip ==
  ASSUME HipInv, pc \in WalkPC, NEW held \in Node, typId(held) \in LockTypes,
         typId(cur) \in LockTypes, BlockedBy(held)
  PROVE  KeptHip
<1>. USE HipFacts
<1>. DEFINE d == Seen(cur)
            t == gid(held)
            double == [d EXCEPT !.doublelock[t] = <<held, cur>>]
            two == [d EXCEPT !.twolock[t] = <<held, cur>>]
<1>0. typId(cur) # "NGoroutine"
  BY DEF LockTypes
<1>1. d \in GoodDS /\ KeepsHip(ds, d) /\ t \in Tid /\ OnceDS(ds)
  BY SeenHip, OnceFacts DEF GraphOK
<1>2. /\ double \in GoodDS /\ KeepsHip(ds, double)
      /\ two \in GoodDS /\ KeepsHip(ds, two)
  <2>1. <<held, cur>> \in Seq(Node)
    OBVIOUS
  <2>. HIDE DEF d, t
  <2>. QED
    BY <1>1, <2>1, LockTablesGood, HipTables, KeepsHipTrans
<1>3. KeepsHip(ds, pauseAt(double, t_cur, cur)) /\ KeepsHip(ds, pauseAt(d, t_cur, cur))
  <2>. HIDE DEF double, d
  <2>. QED
    BY <1>1, <1>2, PauseHip DEF t_cur
<1>4. ASSUME d.pause_ats[t] >= 0
      PROVE  KeepsHip(ds, pauseAt(markVisited(letWalk(two, d.pause_ats[t]), cur, 0), t_cur, cur))
  <2>1. d.pause_ats[t] \in Node
    <3>1. d.pause_ats \in [Tid -> Node \cup {Unset, Ended, InLoop}]
      BY <1>1 DEF GoodDS, DS
    <3>. HIDE DEF d, t
    <3>2. d.pause_ats[t] \in Node \cup {Unset, Ended, InLoop}
      BY <1>1, <3>1
    <3>. QED
      BY <1>4, <3>2 DEF Unset, Ended, InLoop
  <2>. HIDE DEF d, t, two
  <2>. DEFINE w == letWalk(two, d.pause_ats[t])
  <2>2. w \in GoodDS /\ KeepsHip(ds, w)
    BY <1>2, <2>1, WalkOnHip
  <2>. HIDE DEF w
  <2>3. markVisited(w, cur, 0) \in GoodDS /\ KeepsHip(ds, markVisited(w, cur, 0))
    BY <1>0, <2>2, MarkVisitedGood, HipMark, KeepsHipTrans
  <2>. QED
    BY <2>3, PauseHip DEF t_cur, w
<1>5. StatesHip(states')
  <2>1. LockState(d, held) \in GoodDS
    <3>1. Keeps(ds, d)
      BY SeenKeeps
    <3>. HIDE DEF d
    <3>. QED
      BY <1>1, <3>1, LockStateOnce
  <2>2. StatesHip(Append(states, LockState(d, held)))
    <3>. HIDE DEF d
    <3>. QED
      BY <1>1, <2>1, LockStateHip, AppendHip
  <2>. QED
    BY <2>2 DEF BlockedBy
<1>6. \E e : \E b \in BOOLEAN : Proceed(e, b) /\ KeepsHip(ds, e)
  BY <1>2, <1>3, <1>4 DEF BlockedBy
<1>. QED
  BY <1>5, <1>6, ProceedHip

(* A lock that is free.                                                    *)
LEMMA AcquiredHip ==
  ASSUME HipInv, pc \in WalkPC, NEW d \in GoodDS, KeepsHip(ds, d), Acquired(d)
  PROVE  KeptHip
<1>. USE HipFacts
<1>. DEFINE e == [d EXCEPT !.doublelock[t_cur] = <<>>]
<1>1. e \in GoodDS /\ KeepsHip(ds, e)
  <2>1. <<>> \in Seq(Node) /\ t_cur \in Tid
    BY DEF t_cur, GraphOK
  <2>. QED
    BY <2>1, LockTablesGood, HipTables, KeepsHipTrans
<1>2. (Proceed(e, TRUE) \/ Proceed(pauseAt(e, t_cur, cur), FALSE)) /\ states' = states
  BY DEF Acquired
<1>. HIDE DEF e
<1>3. KeepsHip(ds, pauseAt(e, t_cur, cur))
  BY <1>1, PauseHip DEF t_cur
<1>. QED
  BY <1>1, <1>2, <1>3, ProceedHip

(* The cases of NLock and NRLock.                                          *)
LEMMA LocksHip == ASSUME HipInv, VisitLock \/ VisitRLock PROVE KeptHip
<1>. USE HipFacts
<1>. DEFINE d == Seen(cur)
            doubles == ds.doublelock[t_cur]
            triple == [d EXCEPT !.triplelocks[t_cur] = Append(doubles, cur)]
<1>0. pc \in WalkPC /\ typId(cur) \in LockTypes /\ t_cur \in Tid
  BY DEF VisitLock, VisitRLock, AtNode, LockTypes, WalkPC, t_cur, GraphOK
<1>1. d \in GoodDS /\ KeepsHip(ds, d)
  BY SeenHip
<1>2. /\ takeLock(d, cur) \in GoodDS /\ KeepsHip(ds, takeLock(d, cur))
      /\ takeRLock(d, cur) \in GoodDS /\ KeepsHip(ds, takeRLock(d, cur))
  <2>. HIDE DEF d
  <2>. QED
    BY <1>0, <1>1, TakeLockGood, HipLock, KeepsHipTrans
<1>3. triple \in GoodDS /\ KeepsHip(ds, triple)
  <2>1. Append(doubles, cur) \in Seq(Node)
    BY <1>0 DEF GoodDS, DS
  <2>. HIDE DEF d, doubles
  <2>. QED
    BY <1>0, <1>1, <2>1, LockTablesGood, HipTables, KeepsHipTrans
<1>4. KeepsHip(ds, pauseAt(triple, t_cur, cur))
  <2>. HIDE DEF triple
  <2>. QED
    BY <1>3, PauseHip DEF t_cur
<1>5. ASSUME NEW h, h \in {cannotLock(ds, cur), cannotRLock(ds, cur)}, h # NoNode
      PROVE  h \in Node /\ typId(h) \in LockTypes
  BY <1>5, HolderType, HolderLock, OnceFacts
<1>6. \/ \E h \in {cannotLock(ds, cur), cannotRLock(ds, cur)} : h # NoNode /\ BlockedBy(h)
      \/ Acquired(takeLock(d, cur)) \/ Acquired(takeRLock(d, cur))
      \/ (Proceed(d, TRUE) \/ Proceed(pauseAt(triple, t_cur, cur), FALSE)) /\ states' = states
  BY DEF VisitLock, VisitRLock
<1>. HIDE DEF triple, d
<1>. QED
  BY <1>0, <1>1, <1>2, <1>4, <1>5, <1>6, BlockedByHip, AcquiredHip, ProceedHip

-----------------------------------------------------------------------------
(* Matching: start.                                                        *)

(* A walk that turns to matching for a node of its goroutine.              *)
LEMMA StartMatchHip ==
  ASSUME HipInv, pc \in WalkPC, NEW d, NEW mode, NEW at, NEW producer, NEW objs, NEW found,
         StartMatch(d, mode, at, producer, objs, found), KeepsHip(ds, d),
         gid(at) = gid(cur), UNCHANGED stack
  PROVE  KeptHip
<1>1. ds' = d /\ m'.at = at /\ pc' = "match" /\ states' = states /\ cur' = cur
  BY DEF StartMatch, NoMatch
<1>. QED
  BY <1>1, HipFacts, WalkStep

(* The producers that are matched whatever the state is.                   *)
LEMMA VisitProducerHip ==
  ASSUME HipInv, VisitSend \/ VisitAll \/ VisitWGDone
  PROVE  KeptHip
<1>1. pc \in WalkPC /\ UNCHANGED stack
  BY DEF VisitSend, VisitAll, VisitWGDone, AtNode, WalkPC
<1>. DEFINE d == Seen(cur)
<1>2. KeepsHip(ds, d)
  BY SeenHip
<1>3. \/ StartMatch(d, "send", cur, cur, pts(cur), FALSE)
      \/ StartMatch(d, "all", cur, cur, pts(cur), FALSE)
      \/ StartMatch(d, "wgdone", cur, cur, pts(cur), FALSE)
  BY DEF VisitSend, VisitAll, VisitWGDone
<1>. HIDE DEF d
<1>. QED
  BY <1>1, <1>2, <1>3, StartMatchHip

(* An unlock, skipped or matched.                                          *)
LEMMA VisitUnlockHip == ASSUME HipInv, VisitUnlock PROVE KeptHip
<1>1. pc \in WalkPC
  BY DEF VisitUnlock, AtNode, WalkPC
<1>. DEFINE d == Seen(cur)
<1>2. KeepsHip(ds, d)
  BY SeenHip
<1>3. \/ Proceed(d, TRUE) /\ states' = states
      \/ StartMatch(d, "unlock", cur, cur, pts(cur), FALSE) /\ UNCHANGED stack
  BY DEF VisitUnlock
<1>. HIDE DEF d
<1>. QED
  BY <1>1, <1>2, <1>3, HipFacts, ProceedHip, StartMatchHip

(* A signal, delayed or matched.                                           *)
LEMMA VisitSignalHip == ASSUME HipInv, VisitSignal PROVE KeptHip
<1>. DEFINE s == Seen(cur)
            d == [s EXCEPT !.visit_last[t_cur] = cur]
<1>1. pc \in WalkPC /\ s \in GoodDS /\ KeepsHip(ds, s)
  BY SeenHip DEF VisitSignal, AtNode, WalkPC
<1>2. KeepsHip(ds, d)
  <2>. HIDE DEF s
  <2>. QED
    BY <1>1, HipTables, KeepsHipTrans
<1>3. KeepsHip(d, pauseAt(d, t_cur, cur))
  <2>1. cur # Ended
    BY HipFacts DEF GraphOK, Ended
  <2>. QED
    BY <1>1, <2>1 DEF KeepsHip, pauseAt, GoodDS, DS
<1>4. KeepsHip(ds, pauseAt(d, t_cur, cur))
  <2>. HIDE DEF d
  <2>. QED
    BY <1>2, <1>3, KeepsHipTrans
<1>5. \/ Proceed(pauseAt(d, t_cur, cur), FALSE) /\ states' = states
      \/ StartMatch(s, "signal", cur, cur, pts(cur), FALSE) /\ UNCHANGED stack
  BY DEF VisitSignal
<1>. HIDE DEF d, s
<1>. QED
  BY <1>1, <1>4, <1>5, HipFacts, ProceedHip, StartMatchHip

-----------------------------------------------------------------------------
(* The exit of a goroutine.                                                *)

(* indexOf finds what is there, and removeAt takes just that out of a      *)
(* sequence without duplicates.                                            *)
LEMMA RemoveAtGone ==
  ASSUME NEW T, NEW h \in Seq(T), NEW x, InSeq(x, h),
         \A i, j \in DOMAIN h : h[i] = h[j] => i = j
  PROVE  /\ indexOf(h, x) # NoIndex
         /\ \A i, j \in DOMAIN removeAt(h, indexOf(h, x)) :
              removeAt(h, indexOf(h, x))[i] = removeAt(h, indexOf(h, x))[j] => i = j
         /\ \A y : InSeq(y, removeAt(h, indexOf(h, x))) <=> InSeq(y, h) /\ y # x
<1>. DEFINE k == indexOf(h, x)
            r == removeAt(h, k)
<1>1. k \in DOMAIN h /\ h[k] = x
  <2>. DEFINE first == {i \in DOMAIN h : h[i] = x /\ \A j \in 1..(i - 1) : h[j] # x}
  <2>1. PICK i \in DOMAIN h : h[i] = x
    BY DEF InSeq
  <2>2. \A j \in 1..(i - 1) : j \in DOMAIN h /\ j # i
    OBVIOUS
  <2>3. i \in first
    BY <2>1, <2>2
  <2>4. k = CHOOSE l \in first : TRUE
    BY <2>3 DEF indexOf
  <2>5. k \in first
    <3>. HIDE DEF k, first
    <3>. QED
      BY <2>3, <2>4
  <2>. QED
    BY <2>5
<1>. HIDE DEF k
<1>2. k \in 1..Len(h) /\ k # NoIndex
  BY <1>1 DEF NoIndex
<1>3. /\ DOMAIN r = 1..(Len(h) - 1)
      /\ \A i \in 1..(Len(h) - 1) : r[i] = IF i < k THEN h[i] ELSE h[i + 1]
  <2>. DEFINE a == SubSeq(h, 1, k - 1)
              b == SubSeq(h, k + 1, Len(h))
  <2>1. a \in Seq(T) /\ Len(a) = k - 1 /\ \A i \in 1..(k - 1) : a[i] = h[i]
    BY <1>2
  <2>2. b \in Seq(T) /\ Len(b) = Len(h) - k /\ \A i \in 1..(Len(h) - k) : b[i] = h[i + k]
    BY <1>2
  <2>3. r = a \o b
    BY DEF removeAt
  <2>. HIDE DEF a, b, r
  <2>4. r \in Seq(T) /\ Len(r) = Len(h) - 1
    BY <1>2, <2>1, <2>2, <2>3, SMTT(30)
  <2>5. ASSUME NEW i \in 1..(Len(h) - 1)
        PROVE  r[i] = IF i < k THEN h[i] ELSE h[i + 1]
    <3>1. CASE i < k
      BY <1>2, <2>1, <2>2, <2>3, <3>1
    <3>2. CASE i >= k
      <4>1. r[i] = b[i - (k - 1)]
        BY <1>2, <2>1, <2>2, <2>3, <3>2
      <4>2. i - (k - 1) \in 1..(Len(h) - k) /\ (i - (k - 1)) + k = i + 1
        BY <1>2, <3>2
      <4>3. b[i - (k - 1)] = h[(i - (k - 1)) + k]
        BY <2>2, <4>2
      <4>. QED
        BY <1>2, <3>2, <4>1, <4>2, <4>3
    <3>. QED
      BY <1>2, <3>1, <3>2
  <2>. QED
    BY <2>4, <2>5
<1>. HIDE DEF r
<1>4. \A i, j \in DOMAIN r : r[i] = r[j] => i = j
  <2>. SUFFICES ASSUME NEW i \in DOMAIN r, NEW j \in DOMAIN r, r[i] = r[j] PROVE i = j
    OBVIOUS
  <2>1. i \in 1..(Len(h) - 1) /\ j \in 1..(Len(h) - 1)
    BY <1>3
  <2>. QED
    BY <1>2, <1>3, <2>1
<1>5. \A y : InSeq(y, r) <=> InSeq(y, h) /\ y # x
  <2>. SUFFICES ASSUME NEW y PROVE InSeq(y, r) <=> InSeq(y, h) /\ y # x
    OBVIOUS
  <2>1. ASSUME NEW i \in DOMAIN r, r[i] = y PROVE InSeq(y, h) /\ y # x
    <3>1. PICK j \in DOMAIN h : j # k /\ r[i] = h[j]
      BY <1>2, <1>3
    <3>. QED
      BY <1>1, <2>1, <3>1 DEF InSeq
  <2>2. ASSUME NEW j \in DOMAIN h, h[j] = y, y # x PROVE InSeq(y, r)
    <3>1. j \in 1..Len(h) /\ j # k
      BY <1>1, <2>2
    <3>2. CASE j < k
      <4>1. j \in DOMAIN r /\ r[j] = y
        BY <1>2, <1>3, <2>2, <3>1, <3>2
      <4>. QED
        BY <4>1 DEF InSeq
    <3>3. CASE j > k
      <4>1. j - 1 \in DOMAIN r /\ r[j - 1] = y
        BY <1>2, <1>3, <2>2, <3>1, <3>3
      <4>. QED
        BY <4>1 DEF InSeq
    <3>. QED
      BY <1>2, <3>1, <3>2, <3>3
  <2>. QED
    BY <2>1, <2>2 DEF InSeq
<1>. QED
  BY <1>2, <1>4, <1>5 DEF k, r

(* A goroutine reaches its exit while it is in hip: panic("X") is not      *)
(* reached.                                                                *)
LEMMA ExitInHip ==
  ASSUME HipInv, AtNode({"NExit"})
  PROVE  isInHIP(ds, t_cur) /\ indexOf(ds.hip, t_cur) # NoIndex
<1>. USE HipFacts
<1>1. pc = "visit" /\ typId(cur) = "NExit" /\ MayEnd(ds, cur)
  BY DEF AtNode, WalkPC
<1>2. ds.visited[cur] = Absent
  <2>1. typId(cur) \notin AgainTypes
    BY <1>1 DEF AgainTypes, LockTypes, UnlockTypes, CaseTypes
  <2>. QED
    BY <1>1, <2>1, OnceFacts DEF VisitOnce
<1>3. isInHIP(ds, t_cur)
  BY <1>1, <1>2, GraphGoroutines DEF MayEnd, t_cur
<1>4. ds.hip \in Seq(Tid)
  BY DEF GoodDS, DS
<1>. QED
  BY <1>3, <1>4, RemoveAtGone DEF HipSoundDS, isInHIP

(* A goroutine leaves hip when it ends.                                    *)
LEMMA EndHip ==
  ASSUME HipInv, isInHIP(ds, t_cur), NEW e,
         e.hip = removeAt(ds.hip, indexOf(ds.hip, t_cur)),
         \A n \in Node : ds.visited[n] = 1 => e.visited[n] = 1,
         \A t \in Tid : e.pause_ats[t] = Ended => t = t_cur \/ ds.pause_ats[t] = Ended
  PROVE  HipSoundDS(e)
<1>1. HipSoundDS(ds) /\ ds.hip \in Seq(Tid)
  BY HipFacts DEF GoodDS, DS
<1>2. /\ \A i, j \in DOMAIN e.hip : e.hip[i] = e.hip[j] => i = j
      /\ \A t : isInHIP(e, t) <=> isInHIP(ds, t) /\ t # t_cur
  BY <1>1, RemoveAtGone DEF HipSoundDS, isInHIP
<1>3. \A t \in Tid : g.roots[t] \in Node
  BY HipFacts, GraphGoroutines
<1>. QED
  BY <1>1, <1>2, <1>3 DEF HipSoundDS

(* The case of NExit.                                                      *)
LEMMA VisitExitHip == ASSUME HipInv, VisitExit PROVE KeptHip /\ pc' # "crashed"
<1>. USE HipFacts
<1>. DEFINE s == Seen(cur)
            p == pauseAt(s, t_cur, Ended)
            h == removeAt(ds.hip, indexOf(ds.hip, t_cur))
            d == [p EXCEPT !.hip = h]
<1>1. pc \in WalkPC /\ typId(cur) = "NExit" /\ s \in GoodDS /\ KeepsHip(ds, s) /\ t_cur \in Tid
  BY SeenHip DEF VisitExit, AtNode, WalkPC, t_cur, GraphOK
<1>2. isInHIP(ds, t_cur) /\ indexOf(ds.hip, t_cur) # NoIndex
  BY ExitInHip DEF VisitExit
<1>3. CASE hasUnclosedLoop(ds, cur)
  <2>1. KeepsHip(ds, pauseAt(s, t_cur, InLoop))
    <3>. HIDE DEF s
    <3>. QED
      BY <1>1, HipPause, KeepsHipTrans DEF InLoop, Ended
  <2>2. Proceed(pauseAt(s, t_cur, InLoop), FALSE) /\ states' = states
    BY <1>3 DEF VisitExit
  <2>3. pc' # "crashed"
    BY <2>2 DEF Proceed
  <2>. QED
    BY <1>1, <2>1, <2>2, <2>3, ProceedHip
<1>4. CASE ~hasUnclosedLoop(ds, cur)
  <2>1. /\ d.hip = h
        /\ \A n \in Node : d.visited[n] = IF n = cur THEN 1 ELSE ds.visited[n]
        /\ \A t \in Tid : d.pause_ats[t] = IF t = t_cur THEN Ended ELSE ds.pause_ats[t]
        /\ p.hip = ds.hip
    BY <1>1 DEF pauseAt, Seen, markVisited, GoodDS, DS
  <2>2. [p EXCEPT !.hip = removeAt(@, indexOf(@, t_cur))] = d
    BY <2>1
  <2>3. /\ ds' = d /\ cur' = cur /\ states' = states /\ stack' = stack
        /\ pc' = "returnFalse" \/ (pc' = "match" /\ m'.at = cur)
    BY <1>2, <1>4, <2>2 DEF VisitExit, Proceed, StartMatch, NoMatch
  <2>. HIDE DEF p, h, d
  <2>4. HipSoundDS(d)
    BY <1>2, <2>1, EndHip DEF h
  <2>5. MayEnd(d, cur)
    BY <1>1, <2>1 DEF MayEnd, Absent
  <2>. QED
    BY <1>1, <2>3, <2>4, <2>5 DEF KeptHip, Hip, WalkHip, StatesHip, OneGoroutine
<1>. QED
  BY <1>3, <1>4

(* The case of NSelect.                                                    *)
LEMMA VisitSelectHip == ASSUME HipInv, VisitSelect PROVE KeptHip
<1>. USE HipFacts
<1>. DEFINE f == NewFrame("cases", cur)
<1>1. pc \in WalkPC /\ KeepsHip(ds, Seen(cur))
  BY SeenHip DEF VisitSelect, AtNode, WalkPC
<1>2. f \in Frame /\ f.node = cur
  BY FrameType DEF NewFrame
<1>3. /\ ds' = Seen(cur) /\ stack' = <<f>> \o stack /\ pc' = "step" /\ cur' = cur
      /\ states' = states
  BY DEF VisitSelect, push
<1>. HIDE DEF f
<1>4. OneGoroutine(stack', gid(cur))
  BY <1>1, <1>2, <1>3, OneStack
<1>. QED
  BY <1>1, <1>3, <1>4, WalkStep

-----------------------------------------------------------------------------
(* Matching loops: steps.                                                  *)

(* The goroutine being walked is the one of the producer; the consumer     *)
(* chosen is another's.                                                    *)
LEMMA MatchHipFacts ==
  ASSUME HipInv, pc = "match"
  PROVE  /\ pc \in WalkPC /\ gid(m.at) = gid(cur) /\ gid(m.producer) = gid(cur)
         /\ matchTid = gid(cur) /\ m \in Match /\ m.at \in Node /\ m.producer \in Node
         /\ matchTid \in Tid
BY HipFacts, MatchFacts DEF WalkPC, matchTid

(* A step of the loop that leaves hip alone.                               *)
LEMMA MatchHip ==
  ASSUME HipInv, pc = "match", pc' = "match", cur' = cur, stack' = stack, m'.at = m.at,
         KeepsHip(ds, ds'), StatesHip(states')
  PROVE  KeptHip
BY MatchHipFacts, HipFacts, WalkStep

(* Recording the pair of the consumer chosen.                              *)
LEMMA InformedHip ==
  ASSUME HipInv, pc = "match", NEW c \in Node, Matches(c, m.producer)
  PROVE  LET d == markConsumerAfterMatching(ds, c, m.producer)
         IN  d \in GoodDS /\ KeepsHip(ds, d)
BY HipFacts, MatchHipFacts, MarkConsumerGood, HipMarkConsumer

(* Informing wg.Wait.                                                      *)
LEMMA SettledHip ==
  ASSUME HipInv, pc = "match"
  PROVE  Settled \in GoodDS /\ KeepsHip(ds, Settled)
<1>. USE HipFacts
<1>1. CASE m.ds_consumer # NoNode
  <2>1. m.ds_consumer \in Node /\ Matches(m.ds_consumer, m.producer)
    BY <1>1, MatchOnceFacts
  <2>. QED
    BY <2>1, InformedHip, KeepsHipSame DEF Settled
<1>2. CASE m.ds_consumer = NoNode
  BY <1>2, KeepsHipSame DEF Settled
<1>. QED
  BY <1>1, <1>2

(* The next object of the producer.                                        *)
LEMMA MatchObjectHip == ASSUME HipInv, MatchObject PROVE KeptHip
<1>. USE HipFacts
<1>. DEFINE o == Head(m.objs)
            e == [ds EXCEPT !.twolock[matchTid] = <<>>]
<1>1. pc = "match" /\ m \in Match
  BY MatchFacts DEF MatchObject, ConsumersDone
<1>2. KeepsHip(ds, Released(ds, o))
  <2>1. e \in GoodDS /\ KeepsHip(ds, e)
    <3>1. <<>> \in Seq(Node) /\ matchTid \in Tid
      BY <1>1, MatchHipFacts
    <3>. QED
      BY <3>1, LockTablesGood, HipTables
  <2>. HIDE DEF e, o
  <2>2. KeepsHip(ds, [e EXCEPT !.lockset[o] = Absent])
    BY <2>1, HipLock, KeepsHipTrans
  <2>. QED
    BY <2>1, <2>2 DEF Released, e
<1>3. KeepsHip(ds, Settled)
  BY <1>1, SettledHip
<1>4. /\ ds' \in {Released(ds, o), Settled} /\ UNCHANGED <<states, pc, cur, stack>>
      /\ m'.at = m.at
  BY <1>1 DEF MatchObject, Match
<1>. HIDE DEF o
<1>. QED
  BY <1>1, <1>2, <1>3, <1>4, MatchHip

(* The state of createNewState starts at the producer.                     *)
LEMMA NewPairStateHip ==
  ASSUME HipInv, pc = "match", NEW c \in Node, ConsumerOf(c, m.producer)
  PROVE  StatesHip(NewPairState(c))
<1>. USE HipFacts, MatchHipFacts
<1>1. CASE canHIP(ds, gid(c), matchTid)
  <2>. DEFINE e == copyFrom(ds, m.at, m.producer, matchTid)
              f == [e EXCEPT !.pairs[c] = m.producer]
  <2>1. Matches(c, m.producer)
    BY <1>1 DEF Matches, canHIP
  <2>2. e \in GoodDS /\ KeepsHip(ds, e) /\ e.start_node_id = m.producer
    <3>1. ds \in GoodDS /\ m.at \in Node /\ m.producer \in Node /\ matchTid \in Tid
      OBVIOUS
    <3>2. e \in GoodDS
      BY ONLY <3>1, CopyFromGood
    <3>. QED
      BY ONLY <3>1, <3>2, HipCopy
  <2>. HIDE DEF e
  <2>3. f \in GoodDS /\ KeepsHip(ds, f) /\ f.start_node_id = m.producer
    <3>1. f.start_node_id = m.producer
      BY <2>2 DEF GoodDS, DS
    <3>. QED
      BY <2>1, <2>2, <3>1, PairGood, HipTables, KeepsHipTrans
  <2>. HIDE DEF f
  <2>4. /\ letWalk(f, c) \in GoodDS /\ KeepsHip(ds, letWalk(f, c))
        /\ letWalk(f, c).start_node_id = m.producer
    <3>1. letWalk(f, c).start_node_id = m.producer
      BY <2>3 DEF letWalk, GoodDS, DS
    <3>. QED
      BY <2>3, <3>1, WalkOnHip
  <2>5. StatesHip(Append(states, letWalk(f, c)))
    BY <2>4, AppendHip
  <2>6. NewPairState(c) \in {states, Append(states, letWalk(f, c))}
    BY DEF NewPairState, PairState, e, f
  <2>. QED
    BY <2>5, <2>6
<1>2. CASE ~canHIP(ds, gid(c), matchTid)
  BY <1>2 DEF NewPairState
<1>. QED
  BY <1>1, <1>2

(* One consumer of the loop.                                               *)
LEMMA MatchOneHip ==
  ASSUME HipInv, pc = "match", NEW c \in Node, ConsumerOf(c, m.producer),
         NEW n \in Match, n.at = m.at, MatchOne(c, n)
  PROVE  KeptHip
<1>. USE HipFacts, MatchHipFacts
<1>. DEFINE free == ~paired(ds, c) /\ canHIP(ds, gid(c), matchTid)
<1>1. free => Matches(c, m.producer)
  BY DEF Matches, canHIP
<1>2. free => KeepsHip(ds, markConsumerAfterMatching(ds, c, m.producer))
  BY <1>1, InformedHip
<1>3. KeepsHip(ds, letWalk(ds, c))
  BY HipWalk
<1>4. KeepsHip(ds, ds')
  BY <1>2, <1>3, KeepsHipSame DEF MatchOne
<1>5. StatesHip(states')
  BY NewPairStateHip DEF MatchOne
<1>6. /\ m'.at = m.at /\ UNCHANGED <<pc, cur, stack>>
  BY DEF MatchOne, Match
<1>. QED
  BY <1>4, <1>5, <1>6, MatchHip

(* The steps of the loop over the consumers.                               *)
LEMMA MatchStepHip ==
  ASSUME HipInv, MatchPass \/ MatchListed \/ (\E c \in Node : MatchSmallest(c))
  PROVE  KeptHip
<1>. USE HipFacts
<1>. DEFINE j == m.i + 1
            n == [m EXCEPT !.i = j]
<1>0. pc = "match" /\ m \in Match /\ MatchInv(m)
  BY MatchFacts, InvFacts DEF MatchPass, MatchListed, MatchSmallest
<1>1. n \in Match /\ n.at = m.at
  <2>1. j \in Nat \ {0}
    BY <1>0 DEF Match
  <2>. HIDE DEF j
  <2>. QED
    BY <1>0, <2>1 DEF Match
<1>2. CASE MatchPass
  <2>1. m' = n /\ UNCHANGED <<states, ds, pc, cur, stack>>
    BY <1>2 DEF MatchPass
  <2>. HIDE DEF n
  <2>. QED
    BY <1>0, <1>1, <2>1, KeepsHipSame, MatchHip
<1>3. CASE MatchListed
  <2>1. m.cons[m.i] \in Node /\ ConsumerOf(m.cons[m.i], m.producer)
    BY <1>0, <1>3 DEF MatchListed, MatchInv, Match
  <2>2. MatchOne(m.cons[m.i], n)
    BY <1>3 DEF MatchListed
  <2>. HIDE DEF n
  <2>. QED
    BY <1>0, <1>1, <2>1, <2>2, MatchOneHip
<1>4. ASSUME NEW c \in Node, MatchSmallest(c) PROVE KeptHip
  <2>. DEFINE k == [m EXCEPT !.rest = @ \ {c}]
  <2>1. k \in Match /\ k.at = m.at
    BY <1>0 DEF Match
  <2>2. ConsumerOf(c, m.producer) /\ MatchOne(c, k)
    BY <1>0, <1>4 DEF MatchSmallest, MatchInv
  <2>. HIDE DEF k
  <2>. QED
    BY <1>0, <2>1, <2>2, MatchOneHip
<1>. QED
  BY <1>2, <1>3, <1>4

-----------------------------------------------------------------------------
(* Matching loops: end.                                                    *)

(* The state in which the loop ends: the consumer found is marked.         *)
LEMMA FoundHip ==
  ASSUME HipInv, pc = "match", m.found => m.ds_consumer # NoNode
  PROVE  LET d == IF m.found THEN markConsumerAfterMatching(ds, m.ds_consumer, m.producer) ELSE ds
         IN  d \in GoodDS /\ KeepsHip(ds, d)
<1>1. m.found => m.ds_consumer \in Node /\ Matches(m.ds_consumer, m.producer)
  BY HipFacts, MatchOnceFacts
<1>. QED
  BY <1>1, HipFacts, InformedHip, KeepsHipSame

(* The ends of the matching loops.                                         *)
LEMMA EndMatchHip ==
  ASSUME HipInv, EndSend \/ EndWGDone \/ EndExit \/ EndUnlock \/ EndSignal \/ EndAll
  PROVE  KeptHip
<1>. USE HipFacts
<1>0. pc = "match" /\ states' = states
  BY DEF EndSend, EndWGDone, EndExit, EndUnlock, EndSignal, EndAll, MatchOver, ConsumersDone
<1>. USE MatchHipFacts
<1>. DEFINE d == IF m.found THEN markConsumerAfterMatching(ds, m.ds_consumer, m.producer) ELSE ds
<1>1. m.mode \in {"send", "signal"} /\ m.found => m.ds_consumer # NoNode
  BY InvFacts DEF MatchInv
<1>2. m.mode \in {"send", "signal"} => d \in GoodDS /\ KeepsHip(ds, d)
  BY <1>0, <1>1, FoundHip
<1>3. Settled \in GoodDS /\ KeepsHip(ds, Settled)
  BY <1>0, SettledHip
<1>4. ASSUME NEW e \in GoodDS, KeepsHip(ds, e), NEW n \in {m.at, m.producer}
      PROVE  KeepsHip(ds, pauseAt(e, matchTid, n))
  <2>1. n \in Node /\ gid(n) = matchTid
    BY <1>0, <1>4
  <2>. QED
    BY <1>4, <2>1, PauseHip
<1>5. CASE EndSend
  <2>1. m.mode = "send" /\ Proceed(pauseAt(d, matchTid, m.producer), FALSE)
    BY <1>5 DEF EndSend
  <2>. HIDE DEF d
  <2>. QED
    BY <1>0, <1>2, <1>4, <2>1, ProceedHip
<1>6. CASE EndWGDone
  <2>1. Proceed(pauseAt(Settled, matchTid, m.at), FALSE)
    BY <1>6 DEF EndWGDone
  <2>. QED
    BY <1>0, <1>3, <1>4, <2>1, ProceedHip
<1>7. CASE EndExit
  <2>1. Proceed(Settled, FALSE)
    BY <1>7 DEF EndExit
  <2>. QED
    BY <1>0, <1>3, <2>1, ProceedHip
<1>8. CASE EndUnlock
  <2>1. Proceed(pauseAt(ds, matchTid, m.at), FALSE) \/ Proceed(ds, TRUE)
    BY <1>8, <1>0 DEF EndUnlock, Match
  <2>. QED
    BY <1>0, <1>4, <2>1, KeepsHipSame, ProceedHip
<1>9. CASE EndSignal
  <2>1. m.mode = "signal" /\ Proceed(d, TRUE)
    BY <1>9 DEF EndSignal
  <2>. HIDE DEF d
  <2>. QED
    BY <1>0, <1>2, <2>1, ProceedHip
<1>10. CASE EndAll
  BY <1>0, <1>10, KeepsHipSame, ProceedHip DEF EndAll
<1>. QED
  BY <1>5, <1>6, <1>7, <1>8, <1>9, <1>10

(* The end of the matching loop of a send case.                            *)
LEMMA EndCaseSendHip ==
  ASSUME HipInv, EndCaseSend \/ NilConsumer
  PROVE  KeptHip
<1>. USE HipFacts
<1>1. CASE EndCaseSend
  <2>. DEFINE d == IF m.found THEN markConsumerAfterMatching(ds, m.ds_consumer, m.producer) ELSE ds
              f == [advance EXCEPT !.found_producer = TRUE, !.traverse = FALSE]
  <2>1. pc = "match" /\ m.mode = "casesend" /\ (m.found => m.ds_consumer # NoNode)
    BY <1>1 DEF EndCaseSend, MatchOver, ConsumersDone
  <2>2. d \in GoodDS /\ KeepsHip(ds, d)
    BY <2>1, FoundHip
  <2>3. KeepsHip(ds, pauseAt(d, matchTid, m.producer))
    <3>1. gid(m.producer) = matchTid /\ m.producer \in Node
      BY <2>1, MatchHipFacts
    <3>. HIDE DEF d
    <3>. QED
      BY <2>2, <3>1, PauseHip
  <2>4. stack # <<>> /\ OneGoroutine(stack, gid(cur))
    BY <2>1, InvFacts, MatchHipFacts DEF StackInv
  <2>5. top \in Frame /\ gid(top.node) = gid(cur)
    BY <2>4, TopFacts, OneStack DEF top
  <2>6. f \in Frame /\ f.node = top.node
    BY <2>5, AdvanceShape DEF Frame
  <2>7. /\ ds' = pauseAt(d, matchTid, m.producer) /\ stack' = <<f>> \o Tail(stack)
        /\ pc' = "step" /\ cur' = cur /\ states' = states
    BY <1>1 DEF EndCaseSend
  <2>. HIDE DEF d, f
  <2>8. OneGoroutine(stack', gid(cur))
    BY <2>4, <2>5, <2>6, <2>7, OneStack
  <2>. QED
    BY <2>1, <2>3, <2>7, <2>8, MatchHipFacts, WalkStep
<1>2. CASE NilConsumer
  <2>1. pc' = "crashed" /\ UNCHANGED <<states, ds>>
    BY <1>2 DEF NilConsumer
  <2>. QED
    BY <2>1 DEF KeptHip, Hip, WalkHip, WalkPC, StatesHip
<1>. QED
  BY <1>1, <1>2

-----------------------------------------------------------------------------
(* Select: the loop over the cases.                                        *)

(* The goroutine being walked is the one of the select; its cases are of   *)
(* that goroutine, and no go nodes.                                        *)
LEMMA CaseHipFacts ==
  ASSUME HipInv, AtCase
  PROVE  /\ pc \in WalkPC /\ pc = "step" /\ stack # <<>> /\ top \in Frame
         /\ top.node \in Node /\ gid(top.node) = gid(cur) /\ gid(cur) \in Tid
         /\ OneGoroutine(stack, gid(cur))
         /\ theCase # NoNode =>
              theCase \in Node /\ gid(theCase) = gid(cur) /\ typId(theCase) # "NGoroutine"
<1>. USE HipFacts
<1>1. pc \in WalkPC /\ pc = "step" /\ OneGoroutine(stack, gid(cur))
  BY DEF AtCase, WalkPC
<1>2. stack # <<>> /\ top \in Frame /\ top.node \in Node
  BY CaseInHand
<1>3. gid(top.node) = gid(cur)
  BY <1>1, <1>2, OneStack DEF top
<1>4. theCase # NoNode => theCase \in Node /\ typId(theCase) # "NGoroutine"
  BY CaseInHand DEF isCase, CaseTypes
<1>5. gid(cur) \in Tid
  BY DEF GraphOK
<1>. QED
  BY <1>1, <1>2, <1>3, <1>4, <1>5, CaseFacts

(* A case that goes on in the loop or walks the block of the case.         *)
LEMMA CaseStep ==
  ASSUME HipInv, AtCase, NEW f \in Frame, f.node = top.node, stack' = <<f>> \o Tail(stack),
         KeepsHip(ds, ds'), StatesHip(states'),
         \/ pc' = "step" /\ cur' = cur
         \/ theCase # NoNode /\ cur' = theCase /\ pc' \in {"visit", "visitSkip"}
  PROVE  KeptHip
<1>1. OneGoroutine(stack', gid(cur))
  BY HipFacts, CaseHipFacts, OneStack
<1>. QED
  BY <1>1, CaseHipFacts, WalkStep

(* The loop over the cases of a select.                                    *)
LEMMA CasesHip ==
  ASSUME HipInv, CasePass \/ CaseSplit \/ CaseDefault \/ CaseReceive \/ CaseSend \/ CasesDone
  PROVE  KeptHip
<1>. USE HipFacts
<1>1. AtCase => advance \in Frame /\ advance.node = top.node
  BY CaseHipFacts, AdvanceShape
<1>2. ASSUME AtCase, paired(ds, theCase), theCase # NoNode PROVE ds.pairs[theCase] \in Node
  BY <1>2, CaseFacts DEF paired, GoodDS, DS
<1>3. CASE CasePass
  <2>1. AtCase /\ pc' = "step" /\ UNCHANGED <<states, ds, cur>> /\ stack' = <<advance>> \o Tail(stack)
    BY <1>3 DEF CasePass, AtCase
  <2>2. KeepsHip(ds, ds') /\ StatesHip(states') /\ cur' = cur
    BY <2>1, KeepsHipSame
  <2>. QED
    BY <1>1, <2>1, <2>2, CaseStep
<1>4. CASE CaseSplit
  <2>. DEFINE isDefault == caseKind = "default"
              e == copyFrom(ds, IF isDefault THEN theCase ELSE top.node, theCase, gid(top.node))
              w == IF isDefault THEN theCase ELSE ds.pairs[theCase]
  <2>0. AtCase /\ theCase # NoNode
    BY <1>4 DEF CaseSplit
  <2>1. e \in GoodDS /\ KeepsHip(ds, e) /\ e.start_node_id = theCase
    BY <2>0, CaseFacts, CopyFromGood, HipCopy
  <2>2. w \in Node
    BY <1>2, <1>4, <2>0, CaseFacts DEF CaseSplit
  <2>3. states' \in {states, Append(states, letWalk(e, w))}
    BY <1>4 DEF CaseSplit
  <2>. HIDE DEF e, w
  <2>4. letWalk(e, w) \in GoodDS /\ KeepsHip(ds, letWalk(e, w))
    BY <2>1, <2>2, WalkOnHip
  <2>5. letWalk(e, w).start_node_id = theCase
    BY <2>1 DEF letWalk, GoodDS, DS
  <2>6. StatesHip(states')
    BY <2>0, <2>3, <2>4, <2>5, CaseHipFacts, AppendHip
  <2>7. pc' = "step" /\ cur' = cur /\ ds' = ds /\ stack' = <<advance>> \o Tail(stack)
    BY <1>4, <2>0 DEF CaseSplit, AtCase
  <2>8. KeepsHip(ds, ds')
    BY <2>7, KeepsHipSame
  <2>. QED
    BY <1>1, <2>0, <2>6, <2>7, <2>8, CaseStep
<1>5. CASE CaseDefault
  <2>. DEFINE f == [advance EXCEPT !.found_default = TRUE]
              e == letWalk(pauseAt(ds, gid(theCase), theCase), theCase)
  <2>0. AtCase /\ theCase # NoNode
    BY <1>5 DEF CaseDefault
  <2>1. f \in Frame /\ f.node = top.node
    BY <1>1, <2>0 DEF Frame
  <2>2. KeepsHip(ds, e)
    BY <2>0, CaseHipFacts, KeepsHipSame, PauseHip, WalkOnHip
  <2>3. /\ pc' = "visitSkip" /\ cur' = theCase /\ ds' = e /\ states' = states
        /\ stack' = <<f>> \o Tail(stack)
    BY <1>5 DEF CaseDefault
  <2>. HIDE DEF e, f
  <2>. QED
    BY <2>0, <2>1, <2>2, <2>3, CaseStep
<1>6. CASE CaseReceive
  <2>. DEFINE f == [advance EXCEPT !.found_consumer = TRUE]
  <2>0. AtCase /\ theCase # NoNode
    BY <1>6 DEF CaseReceive
  <2>1. f \in Frame /\ f.node = top.node
    BY <1>1, <2>0 DEF Frame
  <2>2. KeepsHip(ds, ds')
    BY <1>2, <1>6, <2>0, KeepsHipSame, HipWalk DEF CaseReceive
  <2>3. pc' = "visit" /\ cur' = theCase /\ states' = states /\ stack' = <<f>> \o Tail(stack)
    BY <1>6 DEF CaseReceive
  <2>. HIDE DEF f
  <2>. QED
    BY <2>0, <2>1, <2>2, <2>3, CaseStep
<1>7. CASE CaseSend
  <2>1. AtCase /\ StartMatch(ds, "casesend", top.node, theCase, pts(theCase), foundOne)
        /\ UNCHANGED stack
    BY <1>7 DEF CaseSend
  <2>. QED
    BY <2>1, CaseHipFacts, KeepsHipSame, StartMatchHip
<1>8. CASE CasesDone
  <2>. DEFINE n == top.node
              f == NewFrame("kids", n)
              d == markVisited(ds, n, 0)
              e == pauseAt(d, gid(n), n)
  <2>1. pc \in WalkPC /\ stack # <<>> /\ OneGoroutine(stack, gid(cur)) /\ top.kind = "cases"
    BY <1>8, InvFacts DEF CasesDone, StackInv, WalkPC
  <2>2. n \in Node /\ gid(n) = gid(cur)
    BY <2>1, TopFacts, OneStack DEF top
  <2>3. f \in Frame /\ f.node = n
    BY <2>2, FrameType DEF NewFrame
  <2>4. typId(n) = "NSelect"
    BY <2>1, OnceFacts DEF FramesOnce, FrameOnce, top
  <2>5. d \in GoodDS /\ KeepsHip(ds, d)
    BY <2>2, <2>4, MarkVisitedGood, HipMark
  <2>6. KeepsHip(ds, e)
    <3>. HIDE DEF d, n
    <3>. QED
      BY <2>2, <2>5, PauseHip
  <2>7. /\ ds' \in {ds, e} /\ states' = states /\ pc' \in {"step", "returnFalse"}
        /\ cur' = cur /\ stack' \in {<<f>> \o Tail(stack), Tail(stack)}
    BY <1>8 DEF CasesDone
  <2>. HIDE DEF d, e, f
  <2>8. OneGoroutine(stack', gid(cur))
    BY <2>1, <2>2, <2>3, <2>7, OneStack
  <2>9. KeepsHip(ds, ds')
    BY <2>6, <2>7, KeepsHipSame
  <2>. QED
    BY <2>1, <2>7, <2>8, <2>9, WalkStep
<1>. QED
  BY <1>3, <1>4, <1>5, <1>6, <1>7, <1>8

-----------------------------------------------------------------------------
(* One step for each action of Next.                                       *)
LEMMA NextHip == ASSUME HipInv, [Next]_vars PROVE KeptHip
<1>1. CASE WorkList
  BY <1>1, WorkListHip
<1>2. CASE \E t \in Tid : Turn(t) \/ QuietTurn(t)
  BY <1>2, TurnHip
<1>3. CASE Walk
  BY <1>3, WalkActionsHip
<1>4. CASE VisitNode
  BY <1>4, ConsumerHip, VisitPlainHip, LocksHip, VisitProducerHip, VisitUnlockHip,
     VisitSignalHip, VisitExitHip, VisitSelectHip DEF VisitNode
<1>5. CASE MatchLoop
  BY <1>5, MatchObjectHip, MatchStepHip, EndMatchHip, EndCaseSendHip DEF MatchLoop
<1>6. CASE Cases
  BY <1>6, CasesHip DEF Cases
<1>7. CASE Terminated \/ UNCHANGED vars
  <2>1. UNCHANGED <<states, ds, pc, cur, stack, m>>
    BY <1>7 DEF Terminated, vars
  <2>. QED
    BY <2>1 DEF HipInv, KeptHip
<1>. QED
  BY <1>1, <1>2, <1>3, <1>4, <1>5, <1>6, <1>7 DEF Next

(* Every step keeps the invariant.                                         *)
LEMMA NextHipInv == HipInv /\ [Next]_vars => HipInv'
<1>. SUFFICES ASSUME HipInv, [Next]_vars PROVE HipInv'
  OBVIOUS
<1>1. OnceInv /\ IInv
  BY HipFacts
<1>2. OnceInv' /\ Preserved
  BY <1>1, NextOnceInv, NextPreserved
<1>. QED
  BY <1>2, NextHip, FrozenHip

(* The invariant of hip holds in every state of every exploration,         *)
(* whatever the graph.                                                     *)
THEOREM HipInductive == Spec => []HipInv
BY InitHip, NextHipInv, PTL DEF Spec

(* updateHIP and NExit: hip holds a goroutine once, from its start to its  *)
(* exit.                                                                   *)
THEOREM HipIsSound == Spec => []HipSound
<1>1. HipInv => HipSound
  BY DEF HipInv, Hip, HipSound, AllDS
<1>. QED
  BY <1>1, HipInductive, PTL

(* Leaving visitNode panics nowhere.                                       *)
LEMMA NodesNeverPanic ==
  ASSUME HipInv, VisitNode \/ Walk \/ WorkList \/ Cases
  PROVE  pc' # "crashed"
<1>1. CASE VisitNode
  <2>1. CASE VisitExit
    BY <2>1, VisitExitHip
  <2>2. CASE VisitLock \/ VisitRLock
    BY <2>2 DEF VisitLock, VisitRLock, BlockedBy, Acquired, Proceed
  <2>3. CASE VisitReceive \/ VisitCtxDoneOrCondWait \/ VisitWGWait
    BY <2>3 DEF VisitReceive, VisitCtxDoneOrCondWait, VisitWGWait, matchConsumer, Proceed
  <2>4. CASE VisitCase \/ VisitLoop \/ VisitOther
    BY <2>4 DEF VisitCase, VisitLoop, VisitOther, Proceed
  <2>5. CASE VisitSend \/ VisitAll \/ VisitWGDone \/ VisitUnlock \/ VisitSignal \/ VisitSelect
    BY <2>5 DEF VisitSend, VisitAll, VisitWGDone, VisitUnlock, VisitSignal, VisitSelect,
       Proceed, StartMatch
  <2>. QED
    BY <1>1, <2>1, <2>2, <2>3, <2>4, <2>5 DEF VisitNode
<1>2. CASE Walk
  BY <1>2 DEF Walk, VisitSkip, KidVisited, KidGoroutine, KidVisit, KidsDone, ReturnToKids,
     ReturnToCases, ReturnToExplore, Proceed
<1>3. CASE WorkList
  BY <1>3 DEF WorkList, PopState, StartFilter, FilterResult, Finish, EndExplore
<1>4. CASE Cases
  BY <1>4 DEF Cases, CasePass, CaseSplit, CaseDefault, CaseReceive, CaseSend, CasesDone,
     StartMatch, AtCase
<1>. QED
  BY <1>1, <1>2, <1>3, <1>4

(* panic("X") of NExit and the panic of exploreRandomState are never       *)
(* reached; the nil consumer of a select case that sends is the only one.  *)
THEOREM PanicsOnlyForNil == Spec => OnlyNilPanics
<1>1. HipInv /\ [Next]_vars =>
        [pc' = "crashed" => pc = "crashed" \/ (pc = "match" /\ m.mode = "casesend")]_vars
  <2>. SUFFICES ASSUME HipInv, [Next]_vars, pc' = "crashed", pc # "crashed"
                PROVE  pc = "match" /\ m.mode = "casesend"
    OBVIOUS
  <2>1. IInv
    BY HipFacts
  <2>2. ASSUME NEW t \in Tid, Turn(t) \/ QuietTurn(t) PROVE FALSE
    BY <2>1, <2>2, TurnPanics
  <2>3. CASE MatchLoop
    BY <2>3 DEF MatchLoop, MatchObject, MatchPass, MatchListed, MatchSmallest, MatchOne,
       EndSend, EndCaseSend, NilConsumer, EndWGDone, EndExit, EndUnlock, EndSignal,
       EndAll, Proceed, MatchOver, ConsumersDone
  <2>4. CASE Terminated \/ UNCHANGED vars
    BY <2>4 DEF Terminated, vars
  <2>. QED
    BY <2>2, <2>3, <2>4, NodesNeverPanic DEF Next
<1>. QED
  BY <1>1, HipInductive, PTL DEF Spec, OnlyNilPanics

=============================================================================

----------------------------- MODULE PairProofs -----------------------------
(***************************************************************************)
(* Proofs about the pairs of producers and consumers, for every set of     *)
(* graphs that satisfy IsRFG: a producer that is not one of the pair-all   *)
(* kinds pairs once, and a pair stays as it is.                            *)
(*                                                                         *)
(* OnceInv is proved inductive, one lemma for each action.  Most of what   *)
(* the actions write leaves the pairs alone and is a Keeps step; the pairs *)
(* are written by markConsumerAfterMatching and by createNewState only.    *)
(***************************************************************************)
EXTENDS DetectionProofs

(* What more IsRFG says: node 0 is no signal, unlocks are no consumers, a  *)
(* case belongs to one select and stands there once.                       *)
LEMMA GraphRoles ==
  ASSUME g \in RFGs
  PROVE  /\ typId(0) = "NGoroutine"
         /\ \A c, p \in Node : ConsumerOf(c, p) => typId(c) \notin UnlockTypes
         /\ \A n \in Node : \A i \in DOMAIN g.id2node[n].cases :
              LET c == g.id2node[n].cases[i]
              IN  c # NoNode => /\ c \in Node /\ isCase(c) /\ caseSel(c) = n
                                /\ \A j \in DOMAIN g.id2node[n].cases :
                                     g.id2node[n].cases[j] = c => j = i
         /\ \A n \in Node : isCase(n) => typId(caseSel(n)) = "NSelect"
<1>1. IsRFG(g) /\ GraphOK
  BY RFGAssumption, GraphFacts
<1>2. \A n \in Node : isCase(n) => typId(caseSel(n)) = "NSelect"
  BY <1>1 DEF IsRFG, Node, isCase, typId, caseSel
<1>3. ASSUME NEW n \in Node, NEW i \in DOMAIN g.id2node[n].cases,
             g.id2node[n].cases[i] # NoNode
      PROVE  LET c == g.id2node[n].cases[i]
             IN  /\ c \in Node /\ isCase(c) /\ caseSel(c) = n
                 /\ \A j \in DOMAIN g.id2node[n].cases : g.id2node[n].cases[j] = c => j = i
  <2>1. g.id2node[n].cases \in Seq(Node \cup {NoNode})
    BY <1>1 DEF GraphOK
  <2>2. g.id2node[n].cases[i] \in Node
    BY <1>3, <2>1
  <2>. QED
    BY <1>1, <1>3, <2>2, ZenonT(60) DEF IsRFG, Node, isCase, typId, caseSel
<1>4. ASSUME NEW c \in Node, NEW p \in Node, ConsumerOf(c, p)
      PROVE  typId(c) \notin UnlockTypes
  <2>1. PICK i \in DOMAIN pts(p) : InSeq(c, consumers(pts(p)[i]))
    BY <1>4 DEF ConsumerOf
  <2>2. pts(p)[i] \in Obj
    BY <1>1 DEF GraphOK
  <2>3. ~Produces(g.id2node[c])
    BY <1>1, <2>1, <2>2 DEF IsRFG, InSeq, consumers
  <2>. QED
    BY <2>3 DEF Produces, typId, UnlockTypes
<1>5. typId(0) = "NGoroutine"
  <2>1. g.roots[0] = 0 /\ 0 \in DOMAIN g.roots
    BY <1>1 DEF IsRFG
  <2>2. \A t \in DOMAIN g.roots : g.id2node[g.roots[t]].typId = "NGoroutine"
    BY <1>1 DEF IsRFG
  <2>. QED
    BY <2>1, <2>2 DEF typId
<1>. QED
  BY <1>2, <1>3, <1>4, <1>5

-----------------------------------------------------------------------------
(* Steps that leave the pairs alone.                                       *)

(* e is d after updates that write no pair, no delayed signal and no pause *)
(* at an unlock, forget no visit and record locks at lock nodes.           *)
Keeps(d, e) ==
  /\ e.pairs = d.pairs
  /\ \A t \in Tid : e.visit_last[t] = d.visit_last[t]
  /\ \A n \in Node : d.visited[n] # Absent => e.visited[n] # Absent
  /\ \A t \in Tid : e.pause_ats[t] \in Node /\ typId(e.pause_ats[t]) \in UnlockTypes =>
       e.pause_ats[t] = d.pause_ats[t]
  /\ \A o \in Obj :
       /\ e.lockset[o] \in {d.lockset[o], Absent} \/ typId(e.lockset[o]) \in LockTypes
       /\ e.rlockset[o] = d.rlockset[o] \/ typId(e.rlockset[o]) \in LockTypes

(* Such updates keep every producer matched once.                          *)
LEMMA KeepsOnce ==
  ASSUME GraphOK, NEW d \in DS, NEW e \in DS, OnceDS(d), Keeps(d, e)
  PROVE  OnceDS(e)
<1>1. SingleDS(e)
  BY DEF OnceDS, SingleDS, Keeps
<1>2. \A p \in Node : Spent(d, p) => Spent(e, p)
  BY DEF Spent, Idle, Keeps, GraphOK
<1>3. \A p \in Node : Used(e, p) /\ Single(p) => Spent(e, p)
  BY <1>2 DEF OnceDS, Used, Keeps
<1>4. \A t \in Tid : e.visit_last[t] # 0 =>
        typId(e.visit_last[t]) = "NSignal" /\ e.visited[e.visit_last[t]] # Absent
  BY DEF OnceDS, Keeps, DS
<1>5. \A t \in Tid : e.pause_ats[t] \in Node /\ typId(e.pause_ats[t]) \in UnlockTypes =>
        e.visited[e.pause_ats[t]] # Absent
  BY DEF OnceDS, Keeps
<1>6. \A o \in Obj : /\ e.lockset[o] # Absent => typId(e.lockset[o]) \in LockTypes
                     /\ e.rlockset[o] # Absent => typId(e.rlockset[o]) \in LockTypes
  BY DEF OnceDS, Keeps
<1>. QED
  BY <1>1, <1>3, <1>4, <1>5, <1>6 DEF OnceDS

(* One such update after another is such an update.                        *)
LEMMA KeepsTrans ==
  ASSUME NEW d, NEW e, NEW f, Keeps(d, e), Keeps(e, f)
  PROVE  Keeps(d, f)
BY DEF Keeps

(* Nothing written is such an update.                                      *)
LEMMA KeepsSame == ASSUME NEW d PROVE Keeps(d, d)
BY DEF Keeps

(* visit() marking a node.                                                 *)
LEMMA KeepsMark ==
  ASSUME NEW d \in GoodDS, NEW n \in Node, NEW v \in {0, 1}
  PROVE  Keeps(d, markVisited(d, n, v))
BY DEF Keeps, markVisited, GoodDS, DS, Absent

(* pauseHere, at no unlock.                                                *)
LEMMA KeepsPause ==
  ASSUME NEW d \in GoodDS, NEW t \in Tid, NEW n, n \in Node => typId(n) \notin UnlockTypes
  PROVE  Keeps(d, pauseAt(d, t, n))
BY DEF Keeps, pauseAt, GoodDS, DS

(* Setting can_walk.                                                       *)
LEMMA KeepsWalk ==
  ASSUME NEW d \in GoodDS, NEW n
  PROVE  Keeps(d, letWalk(d, n))
BY DEF Keeps, letWalk, GoodDS, DS

(* copy(id).                                                               *)
LEMMA KeepsCopy ==
  ASSUME NEW d \in GoodDS, NEW id, NEW start, NEW t
  PROVE  Keeps(d, copyFrom(d, id, start, t))
BY DEF Keeps, copyFrom, GoodDS, DS

(* The tables of double, two and triple locks, hip, the open loops.        *)
LEMMA KeepsTables ==
  ASSUME NEW d \in GoodDS, NEW t, NEW s, NEW h, NEW l, NEW v
  PROVE  /\ Keeps(d, [d EXCEPT !.doublelock[t] = s])
         /\ Keeps(d, [d EXCEPT !.twolock[t] = s])
         /\ Keeps(d, [d EXCEPT !.triplelocks[t] = s])
         /\ Keeps(d, [d EXCEPT !.hip = h])
         /\ Keeps(d, [d EXCEPT !.visit_loops[l] = v])
BY DEF Keeps, GoodDS, DS

(* updateHIP of a goroutine that starts.                                   *)
LEMMA KeepsHIP ==
  ASSUME GraphOK, NEW d \in GoodDS, NEW n \in Node, typId(n) = "NGoroutine"
  PROVE  Keeps(d, updateHIP(d, n))
<1>. DEFINE h == Append(d.hip, gid(n))
            e == [d EXCEPT !.hip = h]
<1>1. h \in Seq(Tid) /\ gid(n) \in Tid
  BY DEF GoodDS, DS, GraphOK
<1>. HIDE DEF h
<1>2. e \in GoodDS /\ Keeps(d, e)
  BY <1>1, KeepsTables DEF GoodDS, DS, OwnDS, AgreeDS
<1>3. pauseAt(e, gid(n), n) \in GoodDS /\ Keeps(e, pauseAt(e, gid(n), n))
  BY <1>1, <1>2, PauseAtGood, KeepsPause DEF UnlockTypes
<1>4. updateHIP(d, n) = markVisited(letWalk(pauseAt(e, gid(n), n), n), n, 1)
  BY <1>2 DEF updateHIP, markVisited, letWalk, pauseAt, h, GoodDS, DS
<1>. HIDE DEF e
<1>. QED
  BY <1>2, <1>3, <1>4, LetWalkGood, KeepsWalk, KeepsMark, KeepsTrans

(* Recording a lock, at a lock.                                            *)
LEMMA KeepsLock ==
  ASSUME NEW d \in GoodDS, NEW n \in Node, typId(n) \in LockTypes
  PROVE  Keeps(d, takeLock(d, n)) /\ Keeps(d, takeRLock(d, n))
BY DEF Keeps, takeLock, takeRLock, GoodDS, DS

-----------------------------------------------------------------------------
(* Steps that write a pair.                                                *)

(* p may be matched: it is used by no consumer, or pairs with all.         *)
Free(d, p) == Single(p) => ~Used(d, p) /\ Spent(d, p)

(* Recording a pair of a producer that may be matched.                     *)
LEMMA PairOnce ==
  ASSUME GraphOK, NEW d \in DS, NEW c \in Node, NEW p \in Node, OnceDS(d), Free(d, p)
  PROVE  OnceDS([d EXCEPT !.pairs[c] = p])
<1>. DEFINE e == [d EXCEPT !.pairs[c] = p]
<1>1. /\ \A n \in Node : e.pairs[n] = IF n = c THEN p ELSE d.pairs[n]
      /\ e.visited = d.visited /\ e.visit_last = d.visit_last
      /\ e.pause_ats = d.pause_ats /\ e.lockset = d.lockset /\ e.rlockset = d.rlockset
  BY DEF DS
<1>. HIDE DEF e
<1>2. SingleDS(e)
  BY <1>1 DEF OnceDS, SingleDS, Free, Used
<1>3. \A q \in Node : Used(e, q) => Used(d, q) \/ q = p
  BY <1>1 DEF Used
<1>4. \A q \in Node : Spent(d, q) => Spent(e, q)
  BY <1>1 DEF Spent, Idle
<1>5. \A q \in Node : Used(e, q) /\ Single(q) => Spent(e, q)
  BY <1>3, <1>4 DEF OnceDS, Free
<1>. QED
  BY <1>1, <1>2, <1>5 DEF OnceDS, e

(* markConsumerAfterMatching leaves the rest alone.                        *)
LEMMA KeepsMarkConsumer ==
  ASSUME GraphOK, NEW d \in GoodDS, NEW c \in Node, NEW p \in Node, Matches(c, p),
         typId(c) \notin UnlockTypes
  PROVE  Keeps([d EXCEPT !.pairs[c] = p], markConsumerAfterMatching(d, c, p))
<1>. DEFINE d1 == [d EXCEPT !.pairs[c] = p]
            d2 == letWalk(pauseAt(d1, gid(c), c), c)
            d3 == [d1 EXCEPT !.can_walk = @ \cup {c}, !.pause_ats[gid(c)] = c]
<1>1. d1 \in GoodDS
  BY PairGood
<1>2. pauseAt(d1, gid(c), c) \in GoodDS /\ Keeps(d1, pauseAt(d1, gid(c), c))
  <2>. HIDE DEF d1
  <2>. QED
    BY <1>1, PauseAtGood, KeepsPause DEF GraphOK
<1>3. d2 \in GoodDS /\ Keeps(d1, d2)
  <2>. HIDE DEF d1
  <2>. QED
    BY <1>2, LetWalkGood, KeepsWalk, KeepsTrans
<1>4. d3 = d2
  BY <1>1 DEF pauseAt, letWalk, GoodDS, DS
<1>5. caseSel(c) \in Node
  BY DEF GraphOK
<1>6. Keeps(d1, markVisited(d2, caseSel(c), 1))
  <2>. HIDE DEF d1, d2
  <2>. QED
    BY <1>3, <1>5, KeepsMark, KeepsTrans
<1>. QED
  BY <1>3, <1>4, <1>6, KeepsSame DEF markConsumerAfterMatching

(* markConsumerAfterMatching with a producer that may be matched.          *)
LEMMA MarkConsumerOnce ==
  ASSUME GraphOK, NEW d \in GoodDS, NEW c \in Node, NEW p \in Node, Matches(c, p),
         typId(c) \notin UnlockTypes, OnceDS(d), Free(d, p)
  PROVE  OnceDS(markConsumerAfterMatching(d, c, p))
<1>1. [d EXCEPT !.pairs[c] = p] \in DS /\ OnceDS([d EXCEPT !.pairs[c] = p])
  BY PairOnce, PairGood DEF GoodDS
<1>2. markConsumerAfterMatching(d, c, p) \in DS
  BY MarkConsumerGood DEF GoodDS
<1>. QED
  BY <1>1, <1>2, KeepsMarkConsumer, KeepsOnce

-----------------------------------------------------------------------------
(* The selects in hand.                                                    *)

(* What the frames need of the change from d to e: visits stay, and a node *)
(* newly used is no case that is still to do.                              *)
LEMMA FramesChange ==
  ASSUME NEW d \in DS, NEW e \in DS, NEW st \in Seq(Frame), FramesOnce(d, st),
         \A n \in Node : d.visited[n] # Absent => e.visited[n] # Absent,
         \A k \in DOMAIN st : st[k].kind = "cases" =>
           \A j \in DOMAIN g.id2node[st[k].node].cases :
             LET c == g.id2node[st[k].node].cases[j]
             IN  j >= st[k].i /\ c # NoNode /\ Used(e, c) => Used(d, c)
  PROVE  FramesOnce(e, st)
<1>1. ASSUME NEW k \in DOMAIN st PROVE FrameOnce(e, st[k])
  <2>0. st[k] \in Frame
    OBVIOUS
  <2>1. st[k].node \in Node /\ FrameOnce(d, st[k])
    BY <2>0 DEF FramesOnce, Frame
  <2>. QED
    BY <2>1 DEF FrameOnce
<1>. QED
  BY <1>1 DEF FramesOnce

(* A step that leaves the pairs alone.                                     *)
LEMMA FramesKeeps ==
  ASSUME NEW d \in DS, NEW e \in DS, NEW st \in Seq(Frame), FramesOnce(d, st), Keeps(d, e)
  PROVE  FramesOnce(e, st)
BY FramesChange DEF Keeps, Used

(* A pair of a producer that is no select case.                            *)
LEMMA FramesPair ==
  ASSUME g \in RFGs, NEW d \in DS, NEW c \in Node, NEW p \in Node, ~isCase(p),
         NEW st \in Seq(Frame), FramesOnce(d, st)
  PROVE  FramesOnce([d EXCEPT !.pairs[c] = p], st)
<1>. DEFINE e == [d EXCEPT !.pairs[c] = p]
<1>1. e \in DS /\ e.visited = d.visited
  BY DEF DS
<1>2. \A n \in Node : e.pairs[n] = IF n = c THEN p ELSE d.pairs[n]
  BY DEF DS
<1>. HIDE DEF e
<1>3. \A q : Used(e, q) => Used(d, q) \/ q = p
  BY <1>2 DEF Used
<1>4. \A k \in DOMAIN st : st[k].node \in Node
  <2>1. \A k \in DOMAIN st : st[k] \in Frame
    OBVIOUS
  <2>. QED
    BY <2>1 DEF Frame
<1>5. FramesOnce(e, st)
  BY <1>1, <1>3, <1>4, GraphRoles, FramesChange
<1>. QED
  BY <1>5 DEF e

(* The stack without its top.                                              *)
LEMMA FramesTail ==
  ASSUME NEW d, NEW st \in Seq(Frame), st # <<>>, FramesOnce(d, st)
  PROVE  FramesOnce(d, Tail(st))
<1>1. \A k \in DOMAIN Tail(st) : k + 1 \in DOMAIN st /\ Tail(st)[k] = st[k + 1]
  OBVIOUS
<1>2. \A k, l \in DOMAIN Tail(st) : k + 1 = l + 1 => k = l
  OBVIOUS
<1>. QED
  BY <1>1, <1>2 DEF FramesOnce

(* A frame on the stack, which is no second one of its select.             *)
LEMMA FramesPush ==
  ASSUME NEW d, NEW st \in Seq(Frame), NEW f \in Frame, FramesOnce(d, st), FrameOnce(d, f),
         f.kind = "cases" =>
           \A k \in DOMAIN st : st[k].kind = "cases" => st[k].node # f.node
  PROVE  FramesOnce(d, <<f>> \o st)
<1>. DEFINE s == <<f>> \o st
<1>1. s \in Seq(Frame) /\ s[1] = f
  OBVIOUS
<1>2. \A k \in DOMAIN s : k # 1 => k - 1 \in DOMAIN st /\ s[k] = st[k - 1]
  OBVIOUS
<1>3. \A k, l \in DOMAIN s : k - 1 = l - 1 => k = l
  OBVIOUS
<1>. HIDE DEF s
<1>4. ASSUME NEW k \in DOMAIN s PROVE FrameOnce(d, s[k])
  BY <1>1, <1>2 DEF FramesOnce
<1>5. ASSUME NEW k \in DOMAIN s, NEW l \in DOMAIN s, s[k].kind = "cases",
             s[l].kind = "cases", s[k].node = s[l].node
      PROVE  k = l
  <2>1. CASE k = 1 \/ l = 1
    BY <1>1, <1>2, <1>5, <2>1
  <2>2. CASE k # 1 /\ l # 1
    BY <1>2, <1>3, <1>5, <2>2 DEF FramesOnce
  <2>. QED
    BY <2>1, <2>2
<1>6. FramesOnce(d, s)
  BY <1>4, <1>5 DEF FramesOnce
<1>. QED
  BY <1>6 DEF s

(* A frame in place of the top one, of the same node and as far or         *)
(* further, or of a loop over kids.                                        *)
LEMMA FramesReplace ==
  ASSUME GraphOK, NEW d, NEW st \in Seq(Frame), st # <<>>, NEW f \in Frame, FramesOnce(d, st),
         \/ f.kind = "kids"
         \/ f.kind = Head(st).kind /\ f.node = Head(st).node /\ f.i >= Head(st).i
  PROVE  FramesOnce(d, <<f>> \o Tail(st))
<1>1. FramesOnce(d, Tail(st)) /\ Tail(st) \in Seq(Frame)
  BY FramesTail
<1>2. FrameOnce(d, Head(st)) /\ Head(st) \in Frame
  BY DEF FramesOnce
<1>3. FrameOnce(d, f)
  <2>1. CASE f.kind = "kids"
    BY <2>1 DEF FrameOnce
  <2>2. CASE f.kind = Head(st).kind /\ f.node = Head(st).node /\ f.i >= Head(st).i
    <3>1. f.i \in Nat /\ Head(st).i \in Nat
      BY <1>2 DEF Frame
    <3>2. \A j \in Nat : j >= f.i => j >= Head(st).i
      BY <2>2, <3>1
    <3>3. DOMAIN g.id2node[f.node].cases \subseteq Nat
      <4>1. f.node \in Node
        BY DEF Frame
      <4>2. g.id2node[f.node].cases \in Seq(Node \cup {NoNode})
        BY <4>1 DEF GraphOK
      <4>. QED
        BY <4>2
    <3>. QED
      BY <1>2, <2>2, <3>2, <3>3 DEF FrameOnce
  <2>. QED
    BY <2>1, <2>2
<1>4. f.kind = "cases" =>
        \A k \in DOMAIN Tail(st) : Tail(st)[k].kind = "cases" => Tail(st)[k].node # f.node
  <2>1. \A k \in DOMAIN Tail(st) : k + 1 \in DOMAIN st /\ Tail(st)[k] = st[k + 1] /\ k + 1 # 1
    OBVIOUS
  <2>2. 1 \in DOMAIN st /\ Head(st) = st[1]
    OBVIOUS
  <2>. QED
    BY <2>1, <2>2 DEF FramesOnce
<1>. QED
  BY <1>1, <1>3, <1>4, FramesPush

-----------------------------------------------------------------------------
(* The invariant.                                                          *)

(* No pair of d is lost or replaced in e.                                  *)
PairsGrow(d, e) == \A c \in Node : paired(d, c) => e.pairs[c] = d.pairs[c]

(* The invariant after a step, stated in the graph before it, and that the *)
(* step, unless it takes another state, keeps the pairs.                   *)
KeptOnce ==
  /\ Once(states', ds', pc', cur', stack', m')
  /\ pc # "pop" => PairsGrow(ds, ds')

(* g is never assigned.                                                    *)
LEMMA FrozenOnce == ASSUME OnceInv, Preserved, KeptOnce PROVE OnceInv'
<1>0. g' = g
  BY DEF Preserved
<1>1. Node' = Node /\ Tid' = Tid
  BY <1>0 DEF Node, Tid
<1>2. \A n : /\ typId(n)' = typId(n) /\ gid(n)' = gid(n) /\ pts(n)' = pts(n)
            /\ isCase(n)' = isCase(n) /\ caseSel(n)' = caseSel(n)
  BY <1>0 DEF typId, gid, pts, isCase, caseSel
<1>3. \A p : Single(p)' <=> Single(p)
  BY <1>2 DEF Single
<1>4. \A d, p : (Used(d, p)' <=> Used(d, p)) /\ (Spent(d, p)' <=> Spent(d, p))
            /\ (Idle(d, p)' <=> Idle(d, p))
  BY <1>1, <1>2 DEF Used, Spent, Idle
<1>5. \A d : OnceDS(d)' <=> OnceDS(d)
  BY <1>1, <1>2, <1>3, <1>4 DEF OnceDS, SingleDS
<1>6. \A p, d, n : VisitOnce(p, d, n)' <=> VisitOnce(p, d, n)
  BY <1>2, <1>4 DEF VisitOnce
<1>7. \A p, d, st, k : MatchOnce(p, d, st, k)' <=> MatchOnce(p, d, st, k)
  BY <1>0, <1>2, <1>3, <1>4 DEF MatchOnce, paired
<1>8. \A d, st : FramesOnce(d, st)' <=> FramesOnce(d, st)
  BY <1>0, <1>2, <1>4 DEF FramesOnce, FrameOnce
<1>. QED
  BY <1>5, <1>6, <1>7, <1>8, Frozen DEF OnceInv, Once, KeptOnce

(* The parts of the invariant, for citing.                                 *)
LEMMA OnceFacts ==
  ASSUME OnceInv
  PROVE  /\ IInv /\ g \in RFGs
         /\ ds \in DS /\ stack \in Seq(Frame)
         /\ \A i \in DOMAIN states : states[i] \in GoodDS /\ OnceDS(states[i])
         /\ OnceDS(ds)
         /\ VisitOnce(pc, ds, cur)
         /\ MatchOnce(pc, ds, stack, m)
         /\ FramesOnce(ds, stack)
         /\ pc \in {"pop", "sched"} => stack = <<>>
BY InvFacts DEF OnceInv, Once, IInv, StackInv, GoodDS

(* What Preserved says of the types after the step.                        *)
LEMMA NextTypes ==
  ASSUME Preserved
  PROVE  /\ ds' \in GoodDS /\ ds' \in DS /\ states' \in Seq(GoodDS)
         /\ stack' \in Seq(Frame) /\ cur' \in Node /\ MatchInv(m')
BY DEF Preserved, Inv, StackInv, GoodDS

(* A step that enters neither visitNode nor a matching loop and leaves the *)
(* walk where it is.                                                       *)
LEMMA Settle ==
  ASSUME pc' \notin {"visit", "match", "pop", "sched"},
         \A i \in DOMAIN states' : OnceDS(states'[i]),
         OnceDS(ds'), FramesOnce(ds', stack'), pc = "pop" \/ PairsGrow(ds, ds')
  PROVE  KeptOnce
BY DEF KeptOnce, Once, VisitOnce, MatchOnce

(* The steps that leave the pairs alone keep them.                         *)
LEMMA GrowKeeps == ASSUME NEW d, NEW e, Keeps(d, e) PROVE PairsGrow(d, e)
BY DEF Keeps, PairsGrow

(* So do those that write nothing.                                         *)
LEMMA GrowSame == ASSUME NEW d PROVE PairsGrow(d, d)
BY DEF PairsGrow

(* No frame is in hand.                                                    *)
LEMMA FramesNone == ASSUME NEW d PROVE FramesOnce(d, <<>>)
BY DEF FramesOnce

(* The first state.                                                        *)
LEMMA FreshOnce == ASSUME GraphOK PROVE OnceDS(FreshDS)
BY DEF OnceDS, SingleDS, Used, FreshDS, GraphOK, Unset, Absent

(* DFSDetectBlockingBugs starts with no pair, no lock and nothing delayed. *)
LEMMA InitOnce == Init => OnceInv
<1>. SUFFICES ASSUME Init PROVE OnceInv
  OBVIOUS
<1>1. IInv /\ GraphOK /\ g \in RFGs
  BY InitInv, InvFacts DEF Init
<1>2. FreshDS \in GoodDS /\ OnceDS(FreshDS) /\ ds \in DS
  BY <1>1, FreshGood, FreshOnce, InvFacts DEF GoodDS
<1>3. g.roots[0] \in Node /\ typId(g.roots[0]) = "NGoroutine"
  <2>1. IsRFG(g)
    BY <1>1, RFGAssumption
  <2>. QED
    BY <2>1 DEF IsRFG, Node, typId
<1>4. OnceDS(ds)
  BY <1>1, <1>2, <1>3, KeepsHIP, KeepsOnce DEF Init, GoodDS
<1>. QED
  BY <1>1, <1>4, FramesNone DEF Init, OnceInv, Once, VisitOnce, MatchOnce

-----------------------------------------------------------------------------
(* The work list.                                                          *)

(* Taking a state from the work list and filtering the results.            *)
LEMMA WorkListOnce == ASSUME OnceInv, Preserved, WorkList PROVE KeptOnce
<1>. USE OnceFacts
<1>1. CASE PopState
  <2>1. states \in Seq(GoodDS) /\ states # <<>>
    BY <1>1, InvFacts DEF PopState
  <2>2. /\ 1 \in DOMAIN states /\ Head(states) = states[1]
        /\ \A i \in DOMAIN Tail(states) : i + 1 \in DOMAIN states /\ Tail(states)[i] = states[i + 1]
    BY <2>1
  <2>3. pc = "pop" /\ stack' = <<>> /\ pc' = "visitSkip" /\ states' = Tail(states) /\ ds' = Head(states)
    BY <1>1 DEF PopState
  <2>. QED
    BY <2>2, <2>3, FramesNone, Settle
<1>2. CASE StartFilter \/ FilterResult \/ Finish
  <2>1. pc' \in {"filter", "done"} /\ UNCHANGED <<states, ds, stack>>
    BY <1>2 DEF StartFilter, FilterResult, Finish
  <2>. QED
    BY <2>1, GrowSame, Settle
<1>3. CASE EndExplore
  <2>1. pc = "sched" /\ pc' = "pop" /\ UNCHANGED <<states, ds, stack>>
    BY <1>3 DEF EndExplore
  <2>. QED
    BY <2>1, GrowSame DEF KeptOnce, Once, VisitOnce, MatchOnce
<1>. QED
  BY <1>1, <1>2, <1>3 DEF WorkList

-----------------------------------------------------------------------------
(* exploreRandomState.                                                     *)

(* What a turn resumes: a lock, wait or case again, or any node it only    *)
(* passes.  An unlock or a signal is visited again in a quiet turn only.   *)
LEMMA WalkOrSkipOnce ==
  ASSUME OnceInv, Preserved, NEW d \in GoodDS, NEW t \in Tid, NEW last \in BOOLEAN,
         OnceDS(d), PairsGrow(ds, d), pc = "sched", WalkOrSkip(d, t, last),
         canWalkFrom(d, t) /\ last =>
           LET n == d.pause_ats[t]
           IN  typId(n) \in AgainTypes /\ (typId(n) = "NSignal" => ~Used(d, n) /\ Idle(d, n))
  PROVE  KeptOnce
<1>. USE OnceFacts, InvFacts, NextTypes
<1>1. CASE canWalkFrom(d, t)
  <2>. DEFINE n == d.pause_ats[t]
              d0 == [d EXCEPT !.can_walk = @ \ {n}]
  <2>1. n \in Node /\ gid(n) = t
    BY <1>1 DEF canWalkFrom, GoodDS, OwnDS
  <2>2. d0 \in GoodDS /\ Keeps(d, d0)
    BY DEF GoodDS, DS, OwnDS, AgreeDS, Keeps
  <2>3. Keeps(d0, pauseAt(d0, t, Unset))
    <3>. HIDE DEF d0
    <3>1. Unset \notin Node
      BY DEF Unset, GraphOK
    <3>. QED
      BY <2>2, <3>1, KeepsPause
  <2>4. ds' = pauseAt(d0, t, Unset) /\ cur' = n /\ stack' = <<>> /\ states' = states
        /\ pc' = IF gid(n) # t THEN "crashed" ELSE IF Revisit(d, n, last) THEN "visit" ELSE "visitSkip"
    BY <1>1, <2>2 DEF WalkOrSkip, pauseAt, GoodDS, DS
  <2>. HIDE DEF d0
  <2>5. Keeps(d, ds')
    BY <2>2, <2>3, <2>4, KeepsTrans
  <2>6. OnceDS(ds') /\ PairsGrow(ds, ds')
    BY <2>5, KeepsOnce DEF GoodDS, PairsGrow, Keeps
  <2>7. CASE Revisit(d, n, last)
    <3>1. typId(n) \in AgainTypes
      BY <1>1, <2>7 DEF Revisit, AgainTypes, LockTypes, CaseTypes
    <3>2. CASE typId(n) = "NSignal"
      <4>1. ~Used(d, n) /\ Idle(d, n)
        BY <1>1, <2>7, <3>2 DEF Revisit
      <4>2. ~Used(ds', n) /\ Idle(ds', n)
        BY <2>1, <2>5, <3>2, <4>1 DEF Idle, Used, Keeps, UnlockTypes
      <4>. QED
        BY <2>4, <2>6, <3>1, <4>2, FramesNone DEF KeptOnce, Once, VisitOnce, MatchOnce
    <3>3. CASE typId(n) \in UnlockTypes
      <4>1. ~Used(d, n)
        BY <2>1, <3>3 DEF OnceDS, Spent, Idle, Single, UnlockTypes, PairAll
      <4>2. ds'.pause_ats[t] = Unset /\ ds'.pairs = d.pairs
        BY <2>4, <2>5, ZenonT(60) DEF pauseAt, DS, GoodDS, Keeps
      <4>3. Unset # n
        BY <2>1 DEF Unset, GraphOK
      <4>4. ~Used(ds', n) /\ Idle(ds', n)
        BY <2>1, <2>6, <3>3, <4>1, <4>2, <4>3
        DEF Idle, Used, UnlockTypes
      <4>. QED
        BY <2>4, <2>6, <3>1, <4>4, FramesNone DEF KeptOnce, Once, VisitOnce, MatchOnce
    <3>. QED
      BY <2>1, <2>4, <2>6, <2>7, <3>1, <3>2, <3>3, FramesNone
      DEF KeptOnce, Once, VisitOnce, MatchOnce
  <2>8. CASE ~Revisit(d, n, last)
    BY <2>1, <2>4, <2>6, <2>8, FramesNone, GrowSame, Settle
  <2>. QED
    BY <2>7, <2>8
<1>2. CASE ~canWalkFrom(d, t)
  <2>1. ds' = d /\ pc' = "sched" /\ stack' = <<>> /\ states' = states
    BY <1>2 DEF WalkOrSkip
  <2>. QED
    BY <2>1, FramesNone DEF KeptOnce, Once, VisitOnce, MatchOnce
<1>. QED
  BY <1>1, <1>2

(* getRandomTID draws a goroutine of hip.                                  *)
LEMMA RandomInHIP ==
  ASSUME NEW d \in DS, NEW u, NEW t \in getRandomTID(d, u), d.hip # <<>>
  PROVE  \E i \in DOMAIN d.hip : d.hip[i] = t
<1>. DEFINE h == d.hip
<1>1. h \in Seq(Tid) /\ h # <<>>
  BY DEF DS
<1>. HIDE DEF h
<1>2. CASE Len(h) = 1
  BY <1>1, <1>2 DEF getRandomTID, h
<1>3. CASE Len(h) = 2
  <2>1. DOMAIN h = 1..2
    BY <1>1, <1>3
  <2>2. PICK i \in 1..2 : t = IF h[i] = u THEN h[3 - i] ELSE h[i]
    BY <1>3 DEF getRandomTID, h
  <2>. QED
    BY <2>1, <2>2 DEF h
<1>4. CASE Len(h) # 1 /\ Len(h) # 2
  BY <1>4 DEF getRandomTID, h
<1>. QED
  BY <1>2, <1>3, <1>4

(* What a quiet turn prepares: delayed signals, under their own tids, or   *)
(* locks, unlocks and waits, an unlock where it is paused already.         *)
LEMMA LastNodes ==
  ASSUME GraphOK, NEW d \in GoodDS, OnceDS(d), NEW S \in LastVisits(d), NEW p \in S
  PROVE  /\ p[1] \in Node /\ p[2] = gid(p[1]) /\ typId(p[1]) \in AgainTypes
         /\ typId(p[1]) = "NSignal" => d.visit_last[gid(p[1])] = p[1]
         /\ typId(p[1]) \in UnlockTypes => d.pause_ats[p[2]] = p[1]
<1>1. p[1] \in Node /\ p[2] = gid(p[1])
  BY LastVisitsOwn
<1>2. CASE hasVisitLast(d)
  <2>1. PICK t \in Tid : d.visit_last[t] > 0 /\ p = <<d.visit_last[t], t>>
    BY <1>2 DEF LastVisits
  <2>2. d.visit_last[t] # 0
    BY <2>1
  <2>3. typId(p[1]) = "NSignal" /\ d.visit_last[p[2]] = p[1]
    BY <2>1, <2>2 DEF OnceDS
  <2>. QED
    BY <1>1, <2>3 DEF AgainTypes, UnlockTypes
<1>3. CASE ~hasVisitLast(d)
  <2>1. PICK n \in holdingRLock(d) \cup holdingLock(d) \cup noPausedWaits(d) : S = {<<n, gid(n)>>}
    BY <1>3 DEF LastVisits, WithGid
  <2>2. p[1] = n
    BY <2>1
  <2>3. CASE n \in holdingRLock(d) \cup holdingLock(d)
    <3>1. typId(n) \in LockTypes
      BY <2>3 DEF holdingRLock, holdingLock, HoldingAt, LockTypes
    <3>. QED
      BY <1>1, <2>2, <3>1 DEF AgainTypes, LockTypes, UnlockTypes
  <2>4. CASE n \in noPausedWaits(d)
    <3>1. PICK t \in PausedWaits(d) : n = d.pause_ats[t]
      BY <2>4 DEF noPausedWaits
    <3>2. /\ t \in Tid /\ n \in Node
          /\ typId(n) \in {"NUnlock", "NRUnlock", "NWGWait"}
      BY <3>1 DEF PausedWaits
    <3>3. gid(n) = t
      BY <3>1, <3>2 DEF GoodDS, OwnDS
    <3>. QED
      BY <1>1, <2>2, <3>1, <3>2, <3>3 DEF AgainTypes, UnlockTypes
  <2>. QED
    BY <2>1, <2>3, <2>4
<1>. QED
  BY <1>2, <1>3

(* prepareLastVisit, field by field.                                       *)
LEMMA PrepareShape ==
  ASSUME NEW d \in GoodDS, NEW S, NEW e, e = prepareLastVisit(d, S)
  PROVE  /\ e.pairs = d.pairs /\ e.visited = d.visited
         /\ e.lockset = d.lockset /\ e.rlockset = d.rlockset
         /\ e.can_walk = d.can_walk \cup {p[1] : p \in S}
         /\ \A t \in Tid : /\ e.visit_last[t] = 0
                           /\ \/ \E p \in S : p[2] = t /\ e.pause_ats[t] = p[1]
                              \/ e.pause_ats[t] = d.pause_ats[t]
<1>. DEFINE pa == [t \in Tid |-> IF \E p \in S : p[2] = t
               THEN (CHOOSE p \in S : p[2] = t)[1] ELSE d.pause_ats[t]]
            vl == [t \in Tid |-> 0]
            cw == d.can_walk \cup {p[1] : p \in S}
<1>1. \A t \in Tid : \/ \E p \in S : p[2] = t /\ pa[t] = p[1]
                     \/ pa[t] = d.pause_ats[t]
  OBVIOUS
<1>2. \A t \in Tid : vl[t] = 0
  OBVIOUS
<1>. HIDE DEF pa, vl
<1>3. e = [d EXCEPT !.can_walk = cw, !.pause_ats = pa, !.visit_last = vl]
  BY DEF prepareLastVisit, pa, vl
<1>4. /\ e.pairs = d.pairs /\ e.visited = d.visited
      /\ e.lockset = d.lockset /\ e.rlockset = d.rlockset
      /\ e.can_walk = cw /\ e.pause_ats = pa /\ e.visit_last = vl
  <2>. HIDE DEF cw
  <2>. QED
    BY <1>3 DEF GoodDS, DS
<1>. QED
  BY <1>1, <1>2, <1>4

(* prepareLastVisit matches nothing and pauses nobody at another unlock.   *)
LEMMA PrepareOnce ==
  ASSUME g \in RFGs, NEW d \in GoodDS, OnceDS(d), NEW S \in LastVisits(d)
  PROVE  OnceDS(prepareLastVisit(d, S))
<1>. DEFINE e == prepareLastVisit(d, S)
<1>0. GraphOK /\ typId(0) = "NGoroutine"
  BY GraphFacts, GraphRoles
<1>1. /\ e.pairs = d.pairs /\ e.visited = d.visited
      /\ e.lockset = d.lockset /\ e.rlockset = d.rlockset
      /\ \A t \in Tid : e.visit_last[t] = 0
  BY PrepareShape
<1>2. \A t \in Tid : e.pause_ats[t] \in Node /\ typId(e.pause_ats[t]) \in UnlockTypes =>
        e.pause_ats[t] = d.pause_ats[t]
  BY <1>0, PrepareShape, LastNodes
<1>. HIDE DEF e
<1>3. \A p \in Node : Spent(d, p) => Spent(e, p)
  <2>. SUFFICES ASSUME NEW p \in Node, Spent(d, p) PROVE Spent(e, p)
    OBVIOUS
  <2>1. gid(p) \in Tid
    BY <1>0 DEF GraphOK
  <2>2. typId(p) = "NSignal" => e.visit_last[gid(p)] # p
    BY <1>0, <1>1, <2>1
  <2>3. typId(p) \in UnlockTypes => e.pause_ats[gid(p)] # p
    BY <1>2, <2>1 DEF Spent, Idle
  <2>. QED
    BY <1>1, <2>2, <2>3 DEF Spent, Idle
<1>4. \A p \in Node : Used(e, p) /\ Single(p) => Spent(e, p)
  BY <1>1, <1>3 DEF OnceDS, Used
<1>5. OnceDS(e)
  BY <1>1, <1>2, <1>4 DEF OnceDS, SingleDS
<1>. QED
  BY <1>5 DEF e

(* A quiet turn resumes what it has prepared, or a lock.                   *)
LEMMA QuietWalk ==
  ASSUME GraphOK, NEW d \in GoodDS, NEW S \in LastVisits(d), NEW u, NEW t \in getRandomTID(d, u),
         t \in Tid, d.hip # <<>>, Quiet(d), canWalkFrom(prepareLastVisit(d, S), t)
  PROVE  LET n == prepareLastVisit(d, S).pause_ats[t]
         IN  typId(n) \in LockTypes \/ \E p \in S : n = p[1]
<1>. DEFINE e == prepareLastVisit(d, S)
            n == e.pause_ats[t]
<1>1. /\ e.can_walk = d.can_walk \cup {p[1] : p \in S}
      /\ (\E p \in S : n = p[1]) \/ n = d.pause_ats[t]
  BY PrepareShape
<1>2. n \in Node /\ (n \in e.can_walk \/ typId(n) \in LockTypes)
  BY DEF canWalkFrom, LockTypes
<1>. HIDE DEF e, n
<1>3. ASSUME n = d.pause_ats[t] PROVE n \notin d.can_walk
  <2>1. PICK i \in DOMAIN d.hip : d.hip[i] = t
    BY RandomInHIP DEF GoodDS
  <2>. QED
    BY <1>2, <1>3, <2>1 DEF Quiet, noPaused, noWalk, noPausedIsWalkable, Ended, GraphOK
<1>. QED
  BY <1>1, <1>2, <1>3 DEF e, n

(* Both kinds of turns of exploreRandomState.                              *)
LEMMA TurnOnce ==
  ASSUME OnceInv, Preserved, NEW t \in Tid, Turn(t) \/ QuietTurn(t)
  PROVE  KeptOnce
<1>. USE OnceFacts, InvFacts
<1>1. CASE Turn(t)
  BY <1>1, GrowSame, WalkOrSkipOnce DEF Turn
<1>2. CASE QuietTurn(t)
  <2>1. PICK S \in LastVisits(ds) : WalkOrSkip(prepareLastVisit(ds, S), t, TRUE)
    BY <1>2 DEF QuietTurn
  <2>. DEFINE e == prepareLastVisit(ds, S)
  <2>2. e \in GoodDS /\ OnceDS(e) /\ PairsGrow(ds, e)
    BY LastVisitsOwn, PrepareGood, PrepareOnce, PrepareShape DEF PairsGrow
  <2>3. ASSUME canWalkFrom(e, t)
        PROVE  LET n == e.pause_ats[t]
               IN  typId(n) \in AgainTypes /\ (typId(n) = "NSignal" => ~Used(e, n) /\ Idle(e, n))
    <3>. DEFINE n == e.pause_ats[t]
    <3>1. n \in Node
      BY <2>3 DEF canWalkFrom
    <3>2. typId(n) \in LockTypes \/ \E p \in S : n = p[1]
      BY <1>2, <2>3, QuietWalk DEF QuietTurn
    <3>3. e.pairs = ds.pairs /\ \A u \in Tid : e.visit_last[u] = 0
      BY PrepareShape
    <3>. HIDE DEF e
    <3>4. CASE typId(n) \in LockTypes
      BY <3>4 DEF AgainTypes, LockTypes
    <3>5. CASE \E p \in S : n = p[1]
      <4>1. typId(n) \in AgainTypes /\ (typId(n) = "NSignal" => ds.visit_last[gid(n)] = n)
        BY <3>5, LastNodes
      <4>2. typId(n) = "NSignal" => ~Used(ds, n)
        BY <3>1, <4>1 DEF OnceDS, Spent, Idle, Single, PairAll
      <4>3. typId(n) = "NSignal" => Idle(e, n)
        BY <3>1, <3>3, GraphRoles DEF Idle, UnlockTypes, GraphOK
      <4>. QED
        BY <3>3, <4>1, <4>2, <4>3 DEF Used
    <3>. QED
      BY <3>2, <3>4, <3>5
  <2>. HIDE DEF e
  <2>. QED
    BY <1>2, <2>1, <2>2, <2>3, WalkOrSkipOnce DEF QuietTurn, e
<1>. QED
  BY <1>1, <1>2

-----------------------------------------------------------------------------
(* visit().                                                                *)

(* Leaving visitNode with nothing matched.                                 *)
LEMMA ProceedOnce ==
  ASSUME OnceInv, Preserved, NEW d, NEW b \in BOOLEAN, Proceed(d, b), OnceDS(d),
         PairsGrow(ds, d), FramesOnce(d, stack), \A i \in DOMAIN states' : OnceDS(states'[i])
  PROVE  KeptOnce
<1>. USE OnceFacts, InvFacts
<1>1. CASE b
  <2>1. NewFrame("kids", cur) \in Frame /\ FrameOnce(d, NewFrame("kids", cur))
        /\ NewFrame("kids", cur).kind = "kids"
    BY FrameType DEF FrameOnce, NewFrame
  <2>2. FramesOnce(d, <<NewFrame("kids", cur)>> \o stack)
    BY <2>1, FramesPush
  <2>3. ds' = d /\ stack' = <<NewFrame("kids", cur)>> \o stack /\ pc' = "step"
    BY <1>1 DEF Proceed, push
  <2>. QED
    BY <2>2, <2>3, GrowSame, Settle
<1>2. CASE ~b
  <2>1. ds' = d /\ stack' = stack /\ pc' = "returnFalse"
    BY <1>2 DEF Proceed
  <2>. QED
    BY <2>1, GrowSame, Settle
<1>. QED
  BY <1>1, <1>2

(* The same, after updates that leave the pairs alone.                     *)
LEMMA ProceedKeeps ==
  ASSUME OnceInv, Preserved, NEW d \in GoodDS, NEW b \in BOOLEAN, Proceed(d, b), Keeps(ds, d),
         \A i \in DOMAIN states' : OnceDS(states'[i])
  PROVE  KeptOnce
<1>1. OnceDS(d) /\ FramesOnce(d, stack)
  BY OnceFacts, InvFacts, KeepsOnce, FramesKeeps DEF GoodDS
<1>. QED
  BY <1>1, ProceedOnce, GrowKeeps

(* visit() marks its node and leaves the pairs alone.                      *)
LEMMA SeenKeeps == ASSUME IInv, NEW n \in Node PROVE Seen(n) \in GoodDS /\ Keeps(ds, Seen(n))
BY InvFacts, SeenGood, KeepsMark DEF Seen

(* The loops over kids and the returns.                                    *)
LEMMA WalkOnce == ASSUME OnceInv, Preserved, Walk PROVE KeptOnce
<1>. USE OnceFacts, InvFacts
<1>1. CASE VisitSkip
  <2>1. Seen(cur) \in GoodDS /\ Keeps(ds, Seen(cur)) /\ Proceed(Seen(cur), TRUE) /\ states' = states
    BY <1>1, SeenKeeps DEF VisitSkip
  <2>. QED
    BY <2>1, ProceedKeeps
<1>2. ASSUME stack # <<>>, stack' = <<advance>> \o Tail(stack) PROVE FramesOnce(ds, stack')
  <2>1. top.i \in Nat \ {0} /\ top \in Frame
    BY <1>2, TopFacts DEF Frame
  <2>2. advance.kind = top.kind /\ advance.node = top.node /\ advance.i >= top.i
    BY <2>1 DEF advance, Frame
  <2>. QED
    BY <1>2, <2>2, TopFacts, FramesReplace DEF top
<1>3. CASE KidVisited
  <2>1. pc' = "step" /\ UNCHANGED <<states, ds>> /\ FramesOnce(ds, stack')
    BY <1>2, <1>3 DEF KidVisited, StackInv
  <2>. QED
    BY <2>1, GrowSame, Settle
<1>4. ASSUME stack # <<>>, top.i <= Len(kids(top.node)) PROVE nextKid \in Node
  BY <1>4, TopFacts, SMTT(30) DEF nextKid, GraphOK, Frame
<1>5. CASE KidGoroutine
  <2>1. /\ pc' = "step" /\ states' = states /\ ds' = updateHIP(ds, nextKid)
        /\ nextKid \in Node /\ typId(nextKid) = "NGoroutine" /\ FramesOnce(ds, stack')
    BY <1>2, <1>4, <1>5 DEF KidGoroutine, StackInv
  <2>2. Keeps(ds, ds')
    BY <2>1, KeepsHIP
  <2>. QED
    BY <2>1, <2>2, KeepsOnce, FramesKeeps, NextTypes, GrowKeeps, Settle
<1>6. CASE KidVisit
  <2>1. /\ pc' = "visit" /\ UNCHANGED <<states, ds>> /\ cur' = nextKid /\ nextKid \in Node
        /\ ds.visited[nextKid] = Absent /\ FramesOnce(ds, stack')
    BY <1>2, <1>4, <1>6 DEF KidVisit, StackInv
  <2>2. ASSUME typId(nextKid) \in UnlockTypes \cup {"NSignal"}
        PROVE  ~Used(ds, nextKid) /\ Idle(ds, nextKid)
    <3>1. Single(nextKid) /\ ~isCase(nextKid)
      BY <2>2 DEF Single, PairAll, isCase, CaseTypes, UnlockTypes
    <3>2. ~Used(ds, nextKid)
      BY <2>1, <3>1 DEF OnceDS, Spent
    <3>3. gid(nextKid) \in Tid /\ nextKid \in Nat
      BY <2>1 DEF GraphOK
    <3>4. typId(nextKid) = "NSignal" => nextKid # 0
      BY GraphRoles
    <3>. QED
      BY <2>1, <3>2, <3>3, <3>4 DEF OnceDS, Idle
  <2>. QED
    BY <2>1, <2>2, GrowSame DEF KeptOnce, Once, VisitOnce, MatchOnce
<1>7. CASE KidsDone
  <2>1. pc' = "returnTrue" /\ UNCHANGED <<states, ds>> /\ FramesOnce(ds, stack')
    BY <1>7, FramesTail DEF KidsDone, StackInv
  <2>. QED
    BY <2>1, GrowSame, Settle
<1>8. CASE ReturnToKids
  <2>1. pc' \notin {"visit", "match", "pop", "sched"} /\ UNCHANGED <<states, ds>>
        /\ FramesOnce(ds, stack')
    BY <1>8, FramesTail DEF ReturnToKids
  <2>. QED
    BY <2>1, GrowSame, Settle
<1>9. CASE ReturnToCases
  <2>. DEFINE f == [top EXCEPT !.traverse = (pc = "returnTrue")]
  <2>1. top \in Frame /\ top.i \in Nat \ {0}
    BY <1>9, TopFacts DEF ReturnToCases, Frame
  <2>2. f.kind = top.kind /\ f.node = top.node /\ f.i = top.i /\ f \in Frame
    BY <2>1 DEF Frame
  <2>. HIDE DEF f
  <2>3. FramesOnce(ds, <<f>> \o Tail(stack))
    BY <1>9, <2>1, <2>2, FramesReplace, SMTT(30) DEF ReturnToCases, top
  <2>4. pc' = "step" /\ UNCHANGED <<states, ds>> /\ stack' = <<f>> \o Tail(stack)
    BY <1>9 DEF ReturnToCases, f
  <2>. QED
    BY <2>3, <2>4, GrowSame, Settle
<1>10. CASE ReturnToExplore
  <2>1. stack' = <<>> /\ pc' = "sched" /\ UNCHANGED <<states, ds>>
    BY <1>10 DEF ReturnToExplore
  <2>. QED
    BY <2>1, FramesNone, GrowSame DEF KeptOnce, Once, VisitOnce, MatchOnce
<1>. QED
  BY <1>1, <1>3, <1>5, <1>6, <1>7, <1>8, <1>9, <1>10 DEF Walk

-----------------------------------------------------------------------------
(* visitNode without matching: no pair is written.                         *)

(* Pausing the goroutine of the node at it, when it is no unlock.          *)
LEMMA PauseKeeps ==
  ASSUME IInv, NEW d \in GoodDS, NEW n \in Node, Keeps(ds, d), typId(n) \notin UnlockTypes
  PROVE  pauseAt(d, gid(n), n) \in GoodDS /\ Keeps(ds, pauseAt(d, gid(n), n))
BY InvFacts, PauseAtGood, KeepsPause, KeepsTrans DEF GraphOK

(* Letting a node walk.                                                    *)
LEMMA WalkKeeps ==
  ASSUME IInv, NEW d \in GoodDS, NEW n \in Node, Keeps(ds, d)
  PROVE  letWalk(d, n) \in GoodDS /\ Keeps(ds, letWalk(d, n))
BY LetWalkGood, KeepsWalk, KeepsTrans

(* matchConsumer and the cases that use it.                                *)
LEMMA ConsumerOnce ==
  ASSUME OnceInv, Preserved, VisitReceive \/ VisitCtxDoneOrCondWait \/ VisitWGWait
  PROVE  KeptOnce
<1>. USE OnceFacts, InvFacts
<1>. DEFINE d == Seen(cur)
<1>0. typId(cur) \notin UnlockTypes
  BY DEF VisitReceive, VisitCtxDoneOrCondWait, VisitWGWait, AtNode, UnlockTypes
<1>1. d \in GoodDS /\ Keeps(ds, d) /\ \A i \in DOMAIN states : OnceDS(states[i])
  BY SeenKeeps
<1>. HIDE DEF d
<1>2. pauseAt(d, t_cur, cur) \in GoodDS /\ Keeps(ds, pauseAt(d, t_cur, cur))
  BY <1>0, <1>1, PauseKeeps DEF t_cur
<1>3. ASSUME NEW inform, matchConsumer(d, inform), states' = states PROVE KeptOnce
  <2>1. paired(d, cur) => d.pairs[cur] \in Node
    BY <1>1 DEF paired, GoodDS, DS
  <2>2. paired(d, cur) => letWalk(d, d.pairs[cur]) \in GoodDS /\ Keeps(ds, letWalk(d, d.pairs[cur]))
    BY <1>1, <2>1, WalkKeeps
  <2>. QED
    BY <1>1, <1>2, <1>3, <2>2, ProceedKeeps DEF matchConsumer
<1>. QED
  BY <1>1, <1>2, <1>3, ProceedKeeps DEF VisitReceive, VisitCtxDoneOrCondWait, VisitWGWait, d

(* The cases of a select case, of the loops and of the nodes without an    *)
(* action.                                                                 *)
LEMMA VisitPlainOnce ==
  ASSUME OnceInv, Preserved, VisitCase \/ VisitLoop \/ VisitOther
  PROVE  KeptOnce
<1>. USE OnceFacts, InvFacts
<1>. DEFINE d == Seen(cur)
<1>1. d \in GoodDS /\ Keeps(ds, d) /\ \A i \in DOMAIN states : OnceDS(states[i])
  BY SeenKeeps
<1>2. CASE VisitCase
  <2>. DEFINE s == caseSel(cur)
              e == letWalk(pauseAt(d, gid(s), s), s)
  <2>1. s \in Node /\ typId(s) \notin UnlockTypes
    BY <1>2, GraphRoles DEF VisitCase, AtNode, isCase, UnlockTypes, GraphOK
  <2>2. e \in GoodDS /\ Keeps(ds, e)
    <3>. HIDE DEF d, s
    <3>. QED
      BY <1>1, <2>1, PauseKeeps, WalkKeeps
  <2>3. paired(ds, cur) => ds.pairs[cur] \in Node
    BY DEF paired, GoodDS, DS
  <2>4. paired(ds, cur) => letWalk(e, ds.pairs[cur]) \in GoodDS /\ Keeps(ds, letWalk(e, ds.pairs[cur]))
    <3>. HIDE DEF e
    <3>. QED
      BY <2>2, <2>3, WalkKeeps
  <2>. HIDE DEF e
  <2>. QED
    BY <1>1, <1>2, <2>2, <2>4, ProceedKeeps DEF VisitCase, e
<1>3. CASE VisitLoop
  <2>. DEFINE nd == g.id2node[cur]
              v == IF nd.enterLoop THEN cur ELSE Absent
              e == [d EXCEPT !.visit_loops[nd.loop_name] = v]
  <2>1. nd.loop_name \in LoopName /\ v \in Node \cup {Absent}
    BY DEF GraphOK
  <2>2. e \in GoodDS /\ Keeps(ds, e)
    <3>. HIDE DEF d, v
    <3>1. e \in GoodDS
      BY <1>1, <2>1 DEF GoodDS, DS, OwnDS, AgreeDS
    <3>2. Keeps(d, e)
      BY <1>1, KeepsTables
    <3>. QED
      BY <1>1, <3>1, <3>2, KeepsTrans
  <2>3. Proceed(e, TRUE) /\ states' = states
    BY <1>3 DEF VisitLoop
  <2>. HIDE DEF e
  <2>. QED
    BY <1>1, <2>2, <2>3, ProceedKeeps
<1>4. CASE VisitOther
  <2>. DEFINE h == Append(d.hip, t_cur)
              e == [d EXCEPT !.hip = h]
  <2>1. h \in Seq(Tid)
    BY <1>1 DEF GoodDS, DS, t_cur, GraphOK
  <2>2. e \in GoodDS /\ Keeps(ds, e)
    <3>. HIDE DEF d, h
    <3>1. e \in GoodDS
      BY <1>1, <2>1 DEF GoodDS, DS, OwnDS, AgreeDS
    <3>2. Keeps(d, e)
      BY <1>1, KeepsTables
    <3>. QED
      BY <1>1, <3>1, <3>2, KeepsTrans
  <2>3. (Proceed(e, TRUE) \/ Proceed(d, TRUE)) /\ states' = states
    BY <1>4 DEF VisitOther
  <2>. HIDE DEF e, d
  <2>. QED
    BY <1>1, <2>2, <2>3, ProceedKeeps
<1>. QED
  BY <1>2, <1>3, <1>4

-----------------------------------------------------------------------------
(* Locks: only locks are recorded as held, so the holder a new state puts  *)
(* back is at a lock.                                                      *)

(* The holder of a lock is at a lock.                                      *)
LEMMA HolderLock ==
  ASSUME GraphOK, NEW d \in DS, OnceDS(d), NEW n \in Node
  PROVE  /\ cannotLock(d, n) # NoNode => typId(cannotLock(d, n)) \in LockTypes
         /\ cannotRLock(d, n) # NoNode => typId(cannotRLock(d, n)) \in LockTypes
<1>1. ASSUME NEW locks, \A o \in Obj : locks[o] # Absent => typId(locks[o]) \in LockTypes,
             Holder(locks, n) # NoNode
      PROVE  typId(Holder(locks, n)) \in LockTypes
  <2>1. \A i \in Taken(locks, n) : typId(locks[pts(n)[i]]) \in LockTypes
    BY <1>1 DEF Taken, GraphOK
  <2>. QED
    BY <1>1, <2>1 DEF Holder
<1>. QED
  BY <1>1 DEF cannotLock, cannotRLock, OnceDS

(* The state of createNewLockState.                                        *)
LEMMA LockStateOnce ==
  ASSUME OnceInv, NEW d \in GoodDS, Keeps(ds, d), NEW held \in Node,
         typId(held) \in LockTypes, typId(cur) \in LockTypes
  PROVE  LockState(d, held) \in GoodDS /\ OnceDS(LockState(d, held))
<1>. USE OnceFacts, InvFacts
<1>. DEFINE c == copyFrom(d, cur, cur, t_cur)
            p == pauseAt(c, gid(held), held)
            q == takeLock(p, cur)
            r == markVisited(q, held, 0)
<1>1. c \in GoodDS /\ Keeps(ds, c)
  BY CopyFromGood, KeepsCopy, KeepsTrans DEF t_cur, GraphOK
<1>. HIDE DEF c
<1>2. p \in GoodDS /\ Keeps(ds, p)
  BY <1>1, PauseKeeps DEF LockTypes, UnlockTypes
<1>. HIDE DEF p
<1>3. q \in GoodDS /\ Keeps(ds, q)
  BY <1>2, TakeLockGood, KeepsLock, KeepsTrans
<1>. HIDE DEF q
<1>4. r \in GoodDS /\ Keeps(ds, r)
  BY <1>3, MarkVisitedGood, KeepsMark, KeepsTrans
<1>. HIDE DEF r
<1>5. letWalk(r, cur) \in GoodDS /\ Keeps(ds, letWalk(r, cur))
  BY <1>4, WalkKeeps
<1>. QED
  BY <1>5, KeepsOnce DEF LockState, c, p, q, r, GoodDS

(* A lock that is held.                                                    *)
LEMMA BlockedByOnce ==
  ASSUME OnceInv, Preserved, NEW held \in Node, typId(held) \in LockTypes,
         typId(cur) \in LockTypes, BlockedBy(held)
  PROVE  KeptOnce
<1>. USE OnceFacts, InvFacts
<1>. DEFINE d == Seen(cur)
            t == gid(held)
            double == [d EXCEPT !.doublelock[t] = <<held, cur>>]
            two == [d EXCEPT !.twolock[t] = <<held, cur>>]
<1>0. typId(cur) \notin UnlockTypes
  BY DEF LockTypes, UnlockTypes
<1>1. d \in GoodDS /\ Keeps(ds, d) /\ t \in Tid
  BY SeenKeeps DEF GraphOK
<1>2. /\ double \in GoodDS /\ Keeps(ds, double)
      /\ two \in GoodDS /\ Keeps(ds, two)
  <2>1. <<held, cur>> \in Seq(Node)
    OBVIOUS
  <2>. HIDE DEF d, t
  <2>. QED
    BY <1>1, <2>1, LockTablesGood, KeepsTables, KeepsTrans
<1>3. /\ pauseAt(double, t_cur, cur) \in GoodDS /\ Keeps(ds, pauseAt(double, t_cur, cur))
      /\ pauseAt(d, t_cur, cur) \in GoodDS /\ Keeps(ds, pauseAt(d, t_cur, cur))
  <2>. HIDE DEF double, d
  <2>. QED
    BY <1>0, <1>1, <1>2, PauseKeeps DEF t_cur
<1>4. LockState(d, held) \in GoodDS /\ OnceDS(LockState(d, held))
  <2>. HIDE DEF d
  <2>. QED
    BY <1>1, LockStateOnce
<1>5. ASSUME d.pause_ats[t] >= 0
      PROVE  LET e == pauseAt(markVisited(letWalk(two, d.pause_ats[t]), cur, 0), t_cur, cur)
             IN  e \in GoodDS /\ Keeps(ds, e)
  <2>1. d.pause_ats[t] \in Node
    <3>1. d.pause_ats \in [Tid -> Node \cup {Unset, Ended, InLoop}]
      BY <1>1 DEF GoodDS, DS
    <3>. HIDE DEF d, t
    <3>2. d.pause_ats[t] \in Node \cup {Unset, Ended, InLoop}
      BY <1>1, <3>1
    <3>. QED
      BY <1>5, <3>2 DEF Unset, Ended, InLoop
  <2>. HIDE DEF d, t, two
  <2>. DEFINE w == letWalk(two, d.pause_ats[t])
  <2>2. w \in GoodDS /\ Keeps(ds, w)
    BY <1>2, <2>1, WalkKeeps
  <2>. HIDE DEF w
  <2>3. markVisited(w, cur, 0) \in GoodDS /\ Keeps(ds, markVisited(w, cur, 0))
    BY <2>2, MarkVisitedGood, KeepsMark, KeepsTrans
  <2>. QED
    BY <1>0, <2>3, PauseKeeps DEF t_cur, w
<1>6. \A i \in DOMAIN states' : OnceDS(states'[i])
  <2>1. states \in Seq(GoodDS)
    BY InvFacts
  <2>2. states' \in {states, Append(states, LockState(d, held))}
    BY DEF BlockedBy
  <2>. HIDE DEF d
  <2>. QED
    BY <1>4, <2>1, <2>2
<1>7. \E e \in GoodDS, b \in BOOLEAN : Proceed(e, b) /\ Keeps(ds, e)
  BY <1>2, <1>3, <1>5 DEF BlockedBy
<1>. QED
  BY <1>6, <1>7, ProceedKeeps

(* A lock that is free.                                                    *)
LEMMA AcquiredOnce ==
  ASSUME OnceInv, Preserved, NEW d \in GoodDS, Keeps(ds, d), typId(cur) \in LockTypes, Acquired(d)
  PROVE  KeptOnce
<1>. USE OnceFacts, InvFacts
<1>. DEFINE e == [d EXCEPT !.doublelock[t_cur] = <<>>]
<1>0. t_cur \in Tid /\ typId(cur) \notin UnlockTypes
  BY DEF t_cur, GraphOK, LockTypes, UnlockTypes
<1>1. e \in GoodDS /\ Keeps(ds, e)
  <2>1. <<>> \in Seq(Node)
    OBVIOUS
  <2>. QED
    BY <1>0, <2>1, LockTablesGood, KeepsTables, KeepsTrans
<1>2. pauseAt(e, t_cur, cur) \in GoodDS /\ Keeps(ds, pauseAt(e, t_cur, cur))
  <2>. HIDE DEF e
  <2>. QED
    BY <1>0, <1>1, PauseKeeps DEF t_cur
<1>3. (Proceed(e, TRUE) \/ Proceed(pauseAt(e, t_cur, cur), FALSE)) /\ states' = states
  BY DEF Acquired
<1>. HIDE DEF e
<1>. QED
  BY <1>1, <1>2, <1>3, ProceedKeeps

(* The cases of NLock and NRLock.                                          *)
LEMMA LocksOnce == ASSUME OnceInv, Preserved, VisitLock \/ VisitRLock PROVE KeptOnce
<1>. USE OnceFacts, InvFacts
<1>. DEFINE d == Seen(cur)
            doubles == ds.doublelock[t_cur]
            triple == [d EXCEPT !.triplelocks[t_cur] = Append(doubles, cur)]
<1>0. typId(cur) \in LockTypes /\ typId(cur) \notin UnlockTypes /\ t_cur \in Tid
  BY DEF VisitLock, VisitRLock, AtNode, LockTypes, UnlockTypes, t_cur, GraphOK
<1>1. d \in GoodDS /\ Keeps(ds, d)
  BY SeenKeeps
<1>2. /\ takeLock(d, cur) \in GoodDS /\ Keeps(ds, takeLock(d, cur))
      /\ takeRLock(d, cur) \in GoodDS /\ Keeps(ds, takeRLock(d, cur))
  <2>. HIDE DEF d
  <2>. QED
    BY <1>0, <1>1, TakeLockGood, KeepsLock, KeepsTrans
<1>3. triple \in GoodDS /\ Keeps(ds, triple)
  <2>1. Append(doubles, cur) \in Seq(Node)
    BY <1>0 DEF GoodDS, DS
  <2>. HIDE DEF d, doubles
  <2>. QED
    BY <1>0, <1>1, <2>1, LockTablesGood, KeepsTables, KeepsTrans
<1>4. pauseAt(triple, t_cur, cur) \in GoodDS /\ Keeps(ds, pauseAt(triple, t_cur, cur))
  <2>. HIDE DEF triple
  <2>. QED
    BY <1>0, <1>3, PauseKeeps DEF t_cur
<1>5. ASSUME NEW h, h \in {cannotLock(ds, cur), cannotRLock(ds, cur)}, h # NoNode
      PROVE  h \in Node /\ typId(h) \in LockTypes
  BY <1>5, HolderType, HolderLock
<1>6. \/ \E h \in {cannotLock(ds, cur), cannotRLock(ds, cur)} : h # NoNode /\ BlockedBy(h)
      \/ Acquired(takeLock(d, cur)) \/ Acquired(takeRLock(d, cur))
      \/ (Proceed(d, TRUE) \/ Proceed(pauseAt(triple, t_cur, cur), FALSE)) /\ states' = states
  BY DEF VisitLock, VisitRLock
<1>. HIDE DEF triple, d
<1>. QED
  BY <1>0, <1>1, <1>2, <1>4, <1>5, <1>6, BlockedByOnce, AcquiredOnce, ProceedKeeps

-----------------------------------------------------------------------------
(* Matching loops: start.                                                  *)

(* Entering a matching loop with a producer that may be matched.           *)
LEMMA StartMatchOnce ==
  ASSUME OnceInv, Preserved, NEW d, NEW mode \in DOMAIN ModeTypes, NEW at, NEW p \in Node,
         NEW found, StartMatch(d, mode, at, p, pts(p), found), stack' = stack,
         typId(p) \in ModeTypes[mode], mode # "casesend" => at = p,
         OnceDS(d), PairsGrow(ds, d), FramesOnce(d, stack), Free(d, p),
         mode = "casesend" => /\ top.kind = "cases" /\ top.i \in DOMAIN selCases
                              /\ p = selCases[top.i]
  PROVE  KeptOnce
<1>. USE OnceFacts
<1>1. /\ m'.mode = mode /\ m'.at = at /\ m'.producer = p /\ m'.objs = pts(p)
      /\ m'.ds_consumer = NoNode /\ m'.cons = <<>> /\ m'.rest = {}
      /\ ds' = d /\ pc' = "match" /\ states' = states
  BY DEF StartMatch, NoMatch
<1>2. mode \in WGModes /\ Single(p) => Len(pts(p)) <= 1
  <2>1. mode = "wgdone" => typId(p) = "NWGDone"
    BY DEF ModeTypes
  <2>2. mode = "exit" => typId(p) = "NExit"
    BY DEF ModeTypes
  <2>. QED
    BY <2>1, <2>2 DEF WGModes, Single
<1>3. MatchOnce(pc', ds', stack', m')
  BY <1>1, <1>2 DEF MatchOnce, Free, top, selCases
<1>. QED
  BY <1>1, <1>3 DEF KeptOnce, Once, VisitOnce

(* A producer that visitNode has just reached may be matched.              *)
LEMMA FreshSeen ==
  ASSUME OnceInv, pc = "visit", ~isCase(cur),
         typId(cur) \in UnlockTypes \cup {"NSignal"} \/ typId(cur) \notin AgainTypes
  PROVE  /\ Seen(cur) \in GoodDS /\ OnceDS(Seen(cur)) /\ FramesOnce(Seen(cur), stack)
         /\ PairsGrow(ds, Seen(cur))
         /\ Free(Seen(cur), cur) /\ (Single(cur) => ~Used(Seen(cur), cur))
         /\ Seen(cur).visited[cur] # Absent
<1>. USE OnceFacts, InvFacts
<1>1. Seen(cur) \in GoodDS /\ Keeps(ds, Seen(cur))
  BY SeenKeeps
<1>2. /\ Seen(cur).visited[cur] # Absent
      /\ Seen(cur).visit_last = ds.visit_last /\ Seen(cur).pause_ats = ds.pause_ats
  BY DEF Seen, markVisited, DS, Absent
<1>3. Single(cur) => ~Used(ds, cur) /\ Idle(ds, cur)
  <2>1. CASE typId(cur) \in UnlockTypes \cup {"NSignal"}
    BY <2>1 DEF VisitOnce
  <2>2. CASE typId(cur) \notin AgainTypes
    <3>1. ds.visited[cur] = Absent /\ typId(cur) \notin UnlockTypes \cup {"NSignal"}
      BY <2>2 DEF VisitOnce, AgainTypes
    <3>. QED
      BY <3>1 DEF OnceDS, Spent, Idle
  <2>. QED
    BY <2>1, <2>2
<1>4. Single(cur) => ~Used(Seen(cur), cur) /\ Idle(Seen(cur), cur)
  BY <1>1, <1>2, <1>3 DEF Used, Idle, Keeps
<1>. QED
  BY <1>1, <1>2, <1>4, KeepsOnce, FramesKeeps, GrowKeeps DEF GoodDS, Free, Spent

(* The cases of the producers that match at once.                          *)
LEMMA VisitProducerOnce ==
  ASSUME OnceInv, Preserved, VisitSend \/ VisitAll \/ VisitWGDone
  PROVE  KeptOnce
<1>. USE OnceFacts, InvFacts
<1>. DEFINE d == Seen(cur)
<1>1. /\ pc = "visit" /\ ~isCase(cur) /\ typId(cur) \notin AgainTypes
      /\ \E mode \in {"send", "all", "wgdone"} :
           typId(cur) \in ModeTypes[mode] /\ StartMatch(d, mode, cur, cur, pts(cur), FALSE)
      /\ stack' = stack
  BY DEF VisitSend, VisitAll, VisitWGDone, AtNode, AgainTypes, LockTypes, UnlockTypes,
         CaseTypes, ModeTypes, PairAll, isCase
<1>2. OnceDS(d) /\ PairsGrow(ds, d) /\ FramesOnce(d, stack) /\ Free(d, cur)
  BY <1>1, FreshSeen
<1>3. {"send", "all", "wgdone"} \subseteq DOMAIN ModeTypes /\ "casesend" \notin {"send", "all", "wgdone"}
  BY DEF ModeTypes
<1>. HIDE DEF d
<1>. QED
  BY <1>1, <1>2, <1>3, StartMatchOnce

(* The case of NUnlock and NRUnlock.                                       *)
LEMMA VisitUnlockOnce == ASSUME OnceInv, Preserved, VisitUnlock PROVE KeptOnce
<1>. USE OnceFacts, InvFacts
<1>. DEFINE d == Seen(cur)
<1>1. pc = "visit" /\ ~isCase(cur) /\ typId(cur) \in UnlockTypes /\ "unlock" \in DOMAIN ModeTypes
      /\ typId(cur) \in ModeTypes["unlock"]
  BY DEF VisitUnlock, AtNode, UnlockTypes, CaseTypes, ModeTypes, isCase
<1>2. d \in GoodDS /\ OnceDS(d) /\ PairsGrow(ds, d) /\ FramesOnce(d, stack) /\ Free(d, cur)
  BY <1>1, FreshSeen
<1>3. \/ StartMatch(d, "unlock", cur, cur, pts(cur), FALSE) /\ stack' = stack
      \/ Proceed(d, TRUE) /\ states' = states
  BY DEF VisitUnlock
<1>. HIDE DEF d
<1>. QED
  BY <1>1, <1>2, <1>3, StartMatchOnce, ProceedOnce

(* Delaying a signal that is not used.                                     *)
LEMMA DelayOnce ==
  ASSUME GraphOK, NEW d \in DS, NEW st \in Seq(Frame), NEW n \in Node, OnceDS(d),
         FramesOnce(d, st), typId(n) = "NSignal", ~Used(d, n), d.visited[n] # Absent
  PROVE  /\ OnceDS([d EXCEPT !.visit_last[gid(n)] = n])
         /\ FramesOnce([d EXCEPT !.visit_last[gid(n)] = n], st)
<1>. DEFINE e == [d EXCEPT !.visit_last[gid(n)] = n]
<1>0. gid(n) \in Tid
  BY DEF GraphOK
<1>1. /\ e \in DS /\ e.pairs = d.pairs /\ e.visited = d.visited /\ e.pause_ats = d.pause_ats
      /\ e.lockset = d.lockset /\ e.rlockset = d.rlockset
      /\ \A t \in Tid : e.visit_last[t] = IF t = gid(n) THEN n ELSE d.visit_last[t]
  BY <1>0 DEF DS
<1>. HIDE DEF e
<1>2. \A p \in Node : Spent(d, p) /\ p # n => Spent(e, p)
  BY <1>1 DEF Spent, Idle, GraphOK
<1>3. \A p \in Node : Used(e, p) /\ Single(p) => Spent(e, p)
  BY <1>1, <1>2 DEF OnceDS, Used
<1>4. OnceDS(e)
  BY <1>1, <1>3 DEF OnceDS, SingleDS
<1>5. FramesOnce(e, st)
  BY <1>1, FramesChange DEF Used
<1>. QED
  BY <1>4, <1>5 DEF e

(* The case of NSignal.                                                    *)
LEMMA VisitSignalOnce == ASSUME OnceInv, Preserved, VisitSignal PROVE KeptOnce
<1>. USE OnceFacts, InvFacts
<1>. DEFINE d == Seen(cur)
            l == [d EXCEPT !.visit_last[t_cur] = cur]
<1>1. pc = "visit" /\ ~isCase(cur) /\ typId(cur) = "NSignal" /\ "signal" \in DOMAIN ModeTypes
      /\ typId(cur) \in ModeTypes["signal"] /\ Single(cur) /\ typId(cur) \notin UnlockTypes
  BY DEF VisitSignal, AtNode, CaseTypes, ModeTypes, isCase, Single, PairAll, UnlockTypes
<1>2. d \in GoodDS /\ OnceDS(d) /\ PairsGrow(ds, d) /\ FramesOnce(d, stack) /\ Free(d, cur)
      /\ ~Used(d, cur) /\ d.visited[cur] # Absent
  BY <1>1, FreshSeen
<1>3. OnceDS(l) /\ FramesOnce(l, stack)
  <2>. HIDE DEF d
  <2>. QED
    BY <1>1, <1>2, DelayOnce DEF t_cur, GoodDS
<1>4. l \in GoodDS /\ l.pairs = d.pairs
  <2>. HIDE DEF d
  <2>1. l \in DS /\ l.pause_ats = d.pause_ats /\ l.pairs = d.pairs
        /\ \A t \in Tid : l.visit_last[t] = IF t = t_cur THEN cur ELSE d.visit_last[t]
    BY <1>2 DEF GoodDS, DS, t_cur, GraphOK
  <2>2. OwnDS(l)
    BY <1>2, <2>1 DEF GoodDS, OwnDS, t_cur
  <2>3. AgreeDS(l)
    BY <1>2, <2>1 DEF GoodDS, AgreeDS
  <2>. QED
    BY <2>1, <2>2, <2>3 DEF GoodDS
<1>. HIDE DEF l
<1>5. pauseAt(l, t_cur, cur) \in GoodDS /\ Keeps(l, pauseAt(l, t_cur, cur))
  BY <1>1, <1>4, PauseAtGood, KeepsPause DEF t_cur, GraphOK
<1>6. /\ OnceDS(pauseAt(l, t_cur, cur)) /\ FramesOnce(pauseAt(l, t_cur, cur), stack)
      /\ PairsGrow(ds, pauseAt(l, t_cur, cur))
  <2>. HIDE DEF d
  <2>. QED
    BY <1>2, <1>3, <1>4, <1>5, KeepsOnce, FramesKeeps DEF GoodDS, Keeps, PairsGrow
<1>7. \/ StartMatch(d, "signal", cur, cur, pts(cur), FALSE) /\ stack' = stack
      \/ Proceed(pauseAt(l, t_cur, cur), FALSE) /\ states' = states
  BY DEF VisitSignal, l
<1>. HIDE DEF d
<1>. QED
  BY <1>1, <1>2, <1>6, <1>7, StartMatchOnce, ProceedOnce

(* The case of NExit.                                                      *)
LEMMA VisitExitOnce == ASSUME OnceInv, Preserved, VisitExit PROVE KeptOnce
<1>. USE OnceFacts, InvFacts
<1>. DEFINE s == Seen(cur)
            p == pauseAt(s, t_cur, Ended)
            h == removeAt(p.hip, indexOf(p.hip, t_cur))
            d == [p EXCEPT !.hip = h]
<1>1. /\ pc = "visit" /\ ~isCase(cur) /\ typId(cur) = "NExit" /\ "exit" \in DOMAIN ModeTypes
      /\ typId(cur) \in ModeTypes["exit"] /\ typId(cur) \notin AgainTypes /\ t_cur \in Tid
      /\ typId(cur) \notin UnlockTypes
  BY DEF VisitExit, AtNode, CaseTypes, ModeTypes, isCase, AgainTypes, LockTypes, UnlockTypes,
         t_cur, GraphOK
<1>2. /\ s \in GoodDS /\ OnceDS(s) /\ FramesOnce(s, stack) /\ Keeps(ds, s)
      /\ Single(cur) => ~Used(s, cur)
      /\ s.visited[cur] # Absent
  BY <1>1, FreshSeen, SeenKeeps
<1>3. Ended \notin Node /\ InLoop \notin Node
  BY DEF Ended, InLoop, GraphOK
<1>4. /\ p \in GoodDS /\ Keeps(s, p)
      /\ pauseAt(s, t_cur, InLoop) \in GoodDS /\ Keeps(ds, pauseAt(s, t_cur, InLoop))
  <2>. HIDE DEF s
  <2>. QED
    BY <1>1, <1>2, <1>3, PauseAtGood, KeepsPause, KeepsTrans
<1>. HIDE DEF s
<1>5. Keeps(p, d) /\ Keeps(s, d)
  <2>. HIDE DEF p, h
  <2>. QED
    BY <1>4, KeepsTables, KeepsTrans
<1>6. \/ Proceed(pauseAt(s, t_cur, InLoop), FALSE) /\ states' = states
      \/ pc' = "crashed" /\ UNCHANGED <<states, ds, stack>>
      \/ StartMatch(d, "exit", cur, cur, pts(cur), FALSE) /\ stack' = stack
      \/ Proceed(d, FALSE) /\ states' = states
  BY DEF VisitExit, s
<1>. HIDE DEF d
<1>7. CASE Proceed(pauseAt(s, t_cur, InLoop), FALSE) /\ states' = states
  BY <1>4, <1>7, ProceedKeeps
<1>8. CASE pc' = "crashed" /\ UNCHANGED <<states, ds, stack>>
  BY <1>8, GrowSame, Settle
<1>9. CASE \/ StartMatch(d, "exit", cur, cur, pts(cur), FALSE) /\ stack' = stack
           \/ Proceed(d, FALSE) /\ states' = states
  <2>1. ds' = d
    BY <1>9 DEF StartMatch, Proceed
  <2>2. d \in DS
    BY <2>1, NextTypes
  <2>3. OnceDS(d) /\ FramesOnce(d, stack) /\ PairsGrow(ds, d)
    BY <1>2, <1>5, <2>2, KeepsOnce, FramesKeeps, KeepsTrans, GrowKeeps DEF GoodDS
  <2>4. Free(d, cur)
    BY <1>1, <1>2, <1>5 DEF Free, Used, Spent, Idle, Keeps
  <2>. QED
    BY <1>1, <1>9, <2>3, <2>4, StartMatchOnce, ProceedOnce
<1>. QED
  BY <1>6, <1>7, <1>8, <1>9
-----------------------------------------------------------------------------
(* Matching loops: steps.                                                  *)

(* What the producer of each kind of loop is.                              *)
LEMMA ModeCases ==
  ASSUME NEW mode \in DOMAIN ModeTypes, NEW p, typId(p) \in ModeTypes[mode]
  PROVE  \/ mode = "send" /\ typId(p) = "NChannel"
         \/ mode = "casesend" /\ typId(p) \in CaseTypes
         \/ mode = "wgdone" /\ typId(p) = "NWGDone"
         \/ mode = "exit" /\ typId(p) = "NExit"
         \/ mode = "unlock" /\ typId(p) \in UnlockTypes
         \/ mode = "signal" /\ typId(p) = "NSignal"
         \/ mode = "all" /\ typId(p) \in PairAll
<1>1. mode \in {"send", "casesend", "wgdone", "exit", "unlock", "signal", "all"}
  BY DEF ModeTypes
<1>. QED
  BY <1>1 DEF ModeTypes

(* The parts of the matching loop's invariant, for citing.                 *)
LEMMA MatchOnceFacts ==
  ASSUME OnceInv, pc = "match"
  PROVE  /\ m.mode \in DOMAIN ModeTypes /\ typId(m.producer) \in ModeTypes[m.mode]
         /\ m.mode # "casesend" => m.at = m.producer /\ ~isCase(m.producer)
         /\ m.mode = "all" => m.ds_consumer = NoNode /\ ~Single(m.producer)
         /\ m.mode \in {"send", "casesend", "unlock", "signal"} => Single(m.producer)
         /\ Free(ds, m.producer)
         /\ m.ds_consumer # NoNode =>
              /\ m.ds_consumer \in Node /\ Matches(m.ds_consumer, m.producer)
              /\ ~paired(ds, m.ds_consumer) /\ typId(m.ds_consumer) \notin UnlockTypes
         /\ m.mode \in WGModes /\ Single(m.producer) =>
              /\ Len(m.objs) <= 1
              /\ m.objs # <<>> => m.cons = <<>> /\ m.rest = {} /\ m.ds_consumer = NoNode
<1>. USE OnceFacts, InvFacts, MatchFacts
<1>1. MatchOnce(pc, ds, stack, m) /\ MatchInv(m)
  OBVIOUS
<1>0. m.mode \in DOMAIN ModeTypes /\ typId(m.producer) \in ModeTypes[m.mode]
  BY <1>1 DEF MatchOnce
<1>2. m.mode # "casesend" => ~isCase(m.producer)
  BY <1>0, ModeCases DEF isCase, CaseTypes, UnlockTypes, PairAll
<1>3. m.mode = "all" => ~Single(m.producer)
  BY <1>0, ModeCases DEF Single
<1>4. m.mode \in {"send", "casesend", "unlock", "signal"} => Single(m.producer)
  BY <1>0, ModeCases DEF Single, CaseTypes, UnlockTypes, PairAll
<1>5. m.ds_consumer # NoNode =>
        /\ m.ds_consumer \in Node /\ Matches(m.ds_consumer, m.producer)
        /\ typId(m.ds_consumer) \notin UnlockTypes
  BY <1>1, GraphRoles DEF MatchInv, Match, Matches
<1>6. /\ m.mode \in DOMAIN ModeTypes /\ typId(m.producer) \in ModeTypes[m.mode]
      /\ m.mode # "casesend" => m.at = m.producer
      /\ m.mode = "all" => m.ds_consumer = NoNode
      /\ Free(ds, m.producer)
      /\ m.ds_consumer # NoNode => ~paired(ds, m.ds_consumer)
  BY <1>1 DEF MatchOnce, Free
<1>7. m.mode \in WGModes /\ Single(m.producer) =>
        /\ Len(m.objs) <= 1
        /\ m.objs # <<>> => m.cons = <<>> /\ m.rest = {} /\ m.ds_consumer = NoNode
  BY <1>1 DEF MatchOnce
<1>. QED
  BY <1>2, <1>3, <1>4, <1>5, <1>6, <1>7

(* A producer stays free through steps that leave the pairs alone.         *)
LEMMA FreeKeeps ==
  ASSUME GraphOK, NEW d, NEW e, NEW p \in Node, Free(d, p), Keeps(d, e)
  PROVE  Free(e, p)
BY DEF Free, Used, Spent, Idle, Keeps, GraphOK

(* A step of the loop that leaves its producer free.                       *)
LEMMA MatchKept ==
  ASSUME OnceInv, pc = "match", pc' = "match", stack' = stack,
         m'.mode = m.mode, m'.at = m.at, m'.producer = m.producer,
         m'.ds_consumer # NoNode => ~paired(ds', m'.ds_consumer),
         m.mode = "all" => m'.ds_consumer = NoNode,
         m.mode \in WGModes /\ Single(m.producer) => m'.objs = <<>>,
         \A i \in DOMAIN states' : OnceDS(states'[i]),
         OnceDS(ds'), PairsGrow(ds, ds'), FramesOnce(ds', stack), Free(ds', m.producer)
  PROVE  KeptOnce
<1>1. MatchOnce(pc, ds, stack, m)
  BY OnceFacts
<1>2. MatchOnce(pc', ds', stack', m')
  BY <1>1 DEF MatchOnce, Free
<1>. QED
  BY <1>2 DEF KeptOnce, Once, VisitOnce

(* Recording the pair of the loop: nothing was paired with either.         *)
LEMMA InformedOnce ==
  ASSUME OnceInv, pc = "match", NEW c \in Node, Matches(c, m.producer), ~paired(ds, c),
         typId(c) \notin UnlockTypes
  PROVE  LET d == markConsumerAfterMatching(ds, c, m.producer)
         IN  /\ d \in GoodDS /\ OnceDS(d) /\ PairsGrow(ds, d)
             /\ ~isCase(m.producer) => FramesOnce(d, stack)
             /\ Keeps([ds EXCEPT !.pairs[c] = m.producer], d)
<1>. USE OnceFacts, InvFacts, MatchFacts, MatchOnceFacts
<1>. DEFINE d == markConsumerAfterMatching(ds, c, m.producer)
            e == [ds EXCEPT !.pairs[c] = m.producer]
<1>1. d \in GoodDS /\ OnceDS(d) /\ Keeps(e, d) /\ e \in GoodDS
  BY MarkConsumerGood, MarkConsumerOnce, KeepsMarkConsumer, PairGood
<1>2. PairsGrow(ds, e)
  BY DEF PairsGrow, paired, DS
<1>3. ~isCase(m.producer) => FramesOnce(e, stack)
  BY FramesPair
<1>. HIDE DEF d, e
<1>4. PairsGrow(ds, d)
  BY <1>1, <1>2 DEF PairsGrow, Keeps
<1>5. ~isCase(m.producer) => FramesOnce(d, stack)
  BY <1>1, <1>3, FramesKeeps DEF GoodDS
<1>. QED
  BY <1>1, <1>4, <1>5 DEF d, e

(* Informing wg.Wait of the consumer chosen for the object in hand.        *)
LEMMA SettledOnce ==
  ASSUME OnceInv, pc = "match"
  PROVE  /\ Settled \in GoodDS /\ OnceDS(Settled) /\ PairsGrow(ds, Settled)
         /\ FramesOnce(Settled, stack)
         /\ m.objs # <<>> \/ m.mode \notin WGModes => Free(Settled, m.producer)
<1>. USE OnceFacts, InvFacts, MatchFacts, MatchOnceFacts
<1>1. CASE m.mode \in WGModes /\ m.ds_consumer # NoNode
  <2>1. Settled = markConsumerAfterMatching(ds, m.ds_consumer, m.producer)
    BY <1>1 DEF Settled
  <2>2. ~isCase(m.producer)
    BY <1>1 DEF WGModes
  <2>3. m.objs # <<>> => ~Single(m.producer)
    BY <1>1
  <2>. QED
    BY <1>1, <2>1, <2>2, <2>3, InformedOnce DEF Free
<1>2. CASE ~(m.mode \in WGModes /\ m.ds_consumer # NoNode)
  BY <1>2, GrowSame DEF Settled
<1>. QED
  BY <1>1, <1>2

(* Letting go of a lock leaves the pairs alone.                            *)
LEMMA ReleasedKeeps ==
  ASSUME IInv, NEW o \in Obj
  PROVE  Keeps(ds, Released(ds, o))
<1>. USE InvFacts, MatchFacts
<1>. DEFINE e == [ds EXCEPT !.twolock[matchTid] = <<>>]
<1>1. Keeps(ds, e) /\ e \in GoodDS
  <2>1. <<>> \in Seq(Node)
    OBVIOUS
  <2>. QED
    BY <2>1, KeepsTables, LockTablesGood
<1>. HIDE DEF e
<1>2. Keeps(e, [e EXCEPT !.lockset[o] = Absent])
  BY <1>1 DEF Keeps, GoodDS, DS
<1>. QED
  BY <1>1, <1>2, KeepsTrans DEF Released, e

(* The next object of the producer.                                        *)
LEMMA MatchObjectOnce == ASSUME OnceInv, Preserved, MatchObject PROVE KeptOnce
<1>. USE OnceFacts, InvFacts, MatchFacts
<1>. DEFINE o == Head(m.objs)
            d == IF m.mode = "unlock" THEN Released(ds, o) ELSE Settled
<1>0. pc = "match" /\ m.objs # <<>> /\ m.objs \in Seq(Obj)
  BY DEF MatchObject, ConsumersDone, Match
<1>1. o \in Obj
  BY <1>0
<1>2. d \in GoodDS /\ OnceDS(d) /\ PairsGrow(ds, d) /\ FramesOnce(d, stack) /\ Free(d, m.producer)
  <2>. HIDE DEF o
  <2>1. CASE m.mode = "unlock"
    <3>1. Released(ds, o) \in GoodDS /\ Keeps(ds, Released(ds, o))
      BY <1>1, ReleasedGood, ReleasedKeeps
    <3>2. Free(ds, m.producer)
      BY <1>0, MatchOnceFacts
    <3>. QED
      BY <2>1, <3>1, <3>2, KeepsOnce, FramesKeeps, FreeKeeps, GrowKeeps DEF GoodDS
  <2>2. CASE m.mode # "unlock"
    BY <1>0, <2>2, SettledOnce
  <2>. QED
    BY <2>1, <2>2
<1>3. /\ ds' = d /\ UNCHANGED <<states, pc, stack>>
      /\ m'.mode = m.mode /\ m'.at = m.at /\ m'.producer = m.producer /\ m'.objs = Tail(m.objs)
      /\ m'.ds_consumer = IF m.mode \in WGModes THEN NoNode ELSE m.ds_consumer
  BY DEF MatchObject, Match
<1>4. m'.ds_consumer # NoNode => ~paired(ds', m'.ds_consumer)
  <2>1. m.mode \notin WGModes => Settled = ds
    BY DEF Settled
  <2>2. m.mode \notin WGModes => d.pairs = ds.pairs
    BY <1>1, <2>1, ReleasedKeeps DEF Keeps
  <2>3. m.ds_consumer # NoNode => ~paired(ds, m.ds_consumer)
    BY <1>0, MatchOnceFacts
  <2>. HIDE DEF d
  <2>. QED
    BY <1>3, <2>2, <2>3 DEF paired
<1>5. m.mode \in WGModes /\ Single(m.producer) => m'.objs = <<>>
  <2>1. m.mode \in WGModes /\ Single(m.producer) => Len(m.objs) <= 1
    BY <1>0, MatchOnceFacts
  <2>. QED
    BY <1>0, <1>3, <2>1
<1>6. m.mode = "all" => m'.ds_consumer = NoNode
  BY <1>0, <1>3, MatchOnceFacts
<1>. HIDE DEF d
<1>. QED
  BY <1>0, <1>2, <1>3, <1>4, <1>5, <1>6, MatchKept

(* The state of createNewState: the pair is recorded in a copy.            *)
LEMMA NewPairStateOnce ==
  ASSUME OnceInv, pc = "match", NEW c \in Node, ConsumerOf(c, m.producer)
  PROVE  \A i \in DOMAIN NewPairState(c) : OnceDS(NewPairState(c)[i])
<1>. USE OnceFacts, InvFacts, MatchFacts
<1>1. CASE canHIP(ds, gid(c), matchTid)
  <2>. DEFINE e == copyFrom(ds, m.at, m.producer, matchTid)
              f == [e EXCEPT !.pairs[c] = m.producer]
  <2>1. Matches(c, m.producer)
    BY <1>1 DEF Matches, canHIP
  <2>2. e \in GoodDS /\ Keeps(ds, e) /\ Free(ds, m.producer)
    BY CopyFromGood, KeepsCopy, MatchOnceFacts
  <2>3. OnceDS(e) /\ Free(e, m.producer)
    <3>. HIDE DEF e
    <3>. QED
      BY <2>2, KeepsOnce, FreeKeeps DEF GoodDS
  <2>4. f \in GoodDS /\ OnceDS(f)
    <3>. HIDE DEF e
    <3>. QED
      BY <2>1, <2>2, <2>3, PairGood, PairOnce DEF GoodDS
  <2>5. PairState(c) \in GoodDS /\ OnceDS(PairState(c))
    <3>1. PairState(c) = letWalk(f, c)
      BY DEF PairState
    <3>. HIDE DEF f
    <3>. QED
      BY <2>4, <3>1, LetWalkGood, KeepsWalk, KeepsOnce DEF GoodDS
  <2>6. NewPairState(c) \in {states, Append(states, PairState(c))}
    BY DEF NewPairState
  <2>. QED
    BY <2>5, <2>6
<1>2. CASE ~canHIP(ds, gid(c), matchTid)
  BY <1>2 DEF NewPairState
<1>. QED
  BY <1>1, <1>2

(* One consumer of the loop: chosen while it is free, or given a state of  *)
(* its own.                                                                *)
LEMMA MatchOneOnce ==
  ASSUME OnceInv, Preserved, pc = "match", NEW c \in Node, ConsumerOf(c, m.producer),
         NEW n \in Match, n.mode = m.mode, n.at = m.at, n.producer = m.producer,
         n.ds_consumer = m.ds_consumer,
         m.mode \in WGModes /\ Single(m.producer) => n.objs = <<>>,
         MatchOne(c, n)
  PROVE  KeptOnce
<1>. USE OnceFacts, InvFacts, MatchFacts, MatchOnceFacts
<1>. DEFINE free == ~paired(ds, c) /\ canHIP(ds, gid(c), matchTid)
            chosen == [n EXCEPT !.found = TRUE, !.ds_consumer = c]
            marked == markConsumerAfterMatching(ds, c, m.producer)
<1>1. free => Matches(c, m.producer)
  BY DEF Matches, canHIP
<1>2. typId(c) \notin UnlockTypes
  BY GraphRoles
<1>3. /\ chosen.mode = m.mode /\ chosen.at = m.at /\ chosen.producer = m.producer
      /\ chosen.ds_consumer = c /\ chosen.objs = n.objs
  BY DEF Match
<1>4. pc' = "match" /\ stack' = stack
  BY DEF MatchOne
<1>5. CASE ds' = ds /\ m' = n /\ states' \in {states, NewPairState(c)}
  BY <1>4, <1>5, NewPairStateOnce, GrowSame, MatchKept
<1>6. CASE m.mode = "all" /\ free /\ ds' = marked /\ m' = n /\ states' = states
  <2>1. OnceDS(marked) /\ PairsGrow(ds, marked) /\ FramesOnce(marked, stack)
    BY <1>1, <1>2, <1>6, InformedOnce
  <2>2. Free(marked, m.producer)
    BY <1>6 DEF Free
  <2>. HIDE DEF marked, chosen, free
  <2>. QED
    BY <1>4, <1>6, <2>1, <2>2, MatchKept
<1>7. CASE /\ m.mode # "all" /\ free /\ ds' \in {ds, letWalk(ds, c)} /\ m' = chosen
           /\ states' = states
  <2>1. Keeps(ds, ds')
    BY <1>7, KeepsSame, KeepsWalk
  <2>2. /\ OnceDS(ds') /\ PairsGrow(ds, ds') /\ FramesOnce(ds', stack)
        /\ Free(ds', m.producer)
    BY <2>1, NextTypes, KeepsOnce, FramesKeeps, FreeKeeps, GrowKeeps
  <2>3. ~paired(ds', c)
    BY <1>7, <2>1 DEF Keeps, paired
  <2>. HIDE DEF chosen, free
  <2>. QED
    BY <1>3, <1>4, <1>7, <2>2, <2>3, MatchKept
<1>. HIDE DEF chosen, marked
<1>. QED
  BY <1>5, <1>6, <1>7 DEF MatchOne, chosen, marked

(* The steps of the loop over the consumers.                               *)
LEMMA MatchStepOnce ==
  ASSUME OnceInv, Preserved, MatchPass \/ MatchListed \/ (\E c \in Node : MatchSmallest(c))
  PROVE  KeptOnce
<1>. USE OnceFacts, InvFacts, MatchFacts
<1>. DEFINE j == m.i + 1
            n == [m EXCEPT !.i = j]
<1>0. pc = "match" /\ j \in Nat \ {0}
  <2>1. pc = "match"
    BY DEF MatchPass, MatchListed, MatchSmallest
  <2>2. m.i \in Nat \ {0}
    BY DEF Match
  <2>. QED
    BY <2>1, <2>2
<1>. HIDE DEF j
<1>1. ASSUME m.i <= Len(m.cons) \/ m.rest # {}
      PROVE  m.mode \in WGModes /\ Single(m.producer) => m.objs = <<>>
  <2>1. m.i \in Nat \ {0}
    BY DEF Match
  <2>2. m.cons = <<>> => ~(m.i <= Len(m.cons))
    BY <2>1
  <2>. QED
    BY <1>0, <1>1, <2>2, MatchOnceFacts
<1>2. /\ n \in Match /\ n.mode = m.mode /\ n.at = m.at /\ n.producer = m.producer
      /\ n.ds_consumer = m.ds_consumer /\ n.objs = m.objs
  BY <1>0 DEF Match
<1>3. CASE MatchPass
  <2>1. m' = n /\ UNCHANGED <<states, ds, pc, stack>> /\ m.i <= Len(m.cons)
    BY <1>3 DEF MatchPass, j
  <2>. HIDE DEF n
  <2>. QED
    BY <1>0, <1>1, <1>2, <2>1, MatchOnceFacts, GrowSame, MatchKept
<1>4. CASE MatchListed
  <2>1. m.cons[m.i] \in Node /\ ConsumerOf(m.cons[m.i], m.producer)
    BY <1>4 DEF MatchListed, MatchInv, Match
  <2>2. MatchOne(m.cons[m.i], n) /\ m.i <= Len(m.cons)
    BY <1>4 DEF MatchListed, j
  <2>. HIDE DEF n
  <2>. QED
    BY <1>0, <1>1, <1>2, <2>1, <2>2, MatchOneOnce
<1>5. ASSUME NEW c \in Node, MatchSmallest(c) PROVE KeptOnce
  <2>. DEFINE k == [m EXCEPT !.rest = @ \ {c}]
  <2>1. /\ k \in Match /\ k.mode = m.mode /\ k.at = m.at /\ k.producer = m.producer
        /\ k.ds_consumer = m.ds_consumer /\ k.objs = m.objs
    BY DEF Match
  <2>2. ConsumerOf(c, m.producer) /\ m.rest # {} /\ MatchOne(c, k)
    BY <1>5 DEF MatchSmallest, MatchInv
  <2>. HIDE DEF k
  <2>. QED
    BY <1>0, <1>1, <2>1, <2>2, MatchOneOnce
<1>. QED
  BY <1>3, <1>4, <1>5

-----------------------------------------------------------------------------
(* Matching loops: end.                                                    *)

(* Pausing at an unlock that is not used.                                  *)
LEMMA PauseUnlockOnce ==
  ASSUME GraphOK, NEW d \in GoodDS, NEW n \in Node, OnceDS(d), ~Used(d, n),
         d.visited[n] # Absent
  PROVE  OnceDS(pauseAt(d, gid(n), n))
<1>. DEFINE e == pauseAt(d, gid(n), n)
<1>0. gid(n) \in Tid
  BY DEF GraphOK
<1>1. /\ e \in DS /\ e.pairs = d.pairs /\ e.visited = d.visited /\ e.visit_last = d.visit_last
      /\ e.lockset = d.lockset /\ e.rlockset = d.rlockset
      /\ \A t \in Tid : e.pause_ats[t] = IF t = gid(n) THEN n ELSE d.pause_ats[t]
  <2>1. e \in DS
    <3>1. e \in GoodDS
      BY <1>0, PauseAtGood
    <3>. QED
      BY <3>1 DEF GoodDS
  <2>2. d \in DS
    BY DEF GoodDS
  <2>. QED
    BY <1>0, <2>1, <2>2 DEF DS, pauseAt
<1>. HIDE DEF e
<1>2. \A p \in Node : Spent(d, p) /\ p # n => Spent(e, p)
  BY <1>1 DEF Spent, Idle, GraphOK
<1>3. \A p \in Node : Used(e, p) /\ Single(p) => Spent(e, p)
  BY <1>1, <1>2 DEF OnceDS, Used
<1>4. OnceDS(e)
  BY <1>1, <1>3 DEF OnceDS, SingleDS
<1>. QED
  BY <1>4 DEF e

(* Recording the pair, if a consumer was found.                            *)
LEMMA FoundOnce ==
  ASSUME OnceInv, pc = "match", m.found => m.ds_consumer # NoNode
  PROVE  LET d == IF m.found THEN markConsumerAfterMatching(ds, m.ds_consumer, m.producer) ELSE ds
         IN  /\ d \in GoodDS /\ OnceDS(d) /\ PairsGrow(ds, d)
             /\ ~isCase(m.producer) => FramesOnce(d, stack)
BY OnceFacts, InvFacts, MatchOnceFacts, InformedOnce, GrowSame

(* The ends of the matching loops.                                         *)
LEMMA EndMatchOnce ==
  ASSUME OnceInv, Preserved,
         EndSend \/ EndWGDone \/ EndExit \/ EndUnlock \/ EndSignal \/ EndAll
  PROVE  KeptOnce
<1>. USE OnceFacts, InvFacts, MatchFacts
<1>. DEFINE d == IF m.found THEN markConsumerAfterMatching(ds, m.ds_consumer, m.producer) ELSE ds
<1>1. pc = "match" /\ states' = states /\ m.mode # "casesend"
  BY DEF EndSend, EndWGDone, EndExit, EndUnlock, EndSignal, EndAll, MatchOver,
         ConsumersDone, WGModes
<1>2. m.at = m.producer /\ ~isCase(m.producer)
  BY <1>1, MatchOnceFacts
<1>3. m.mode \in {"send", "signal"} =>
        d \in GoodDS /\ OnceDS(d) /\ PairsGrow(ds, d) /\ FramesOnce(d, stack)
  BY <1>1, <1>2, FoundOnce DEF MatchInv
<1>4. Settled \in GoodDS /\ OnceDS(Settled) /\ PairsGrow(ds, Settled) /\ FramesOnce(Settled, stack)
  BY <1>1, SettledOnce
<1>5. ASSUME NEW e \in GoodDS, OnceDS(e), PairsGrow(ds, e), FramesOnce(e, stack),
             typId(m.producer) \notin UnlockTypes
      PROVE  LET f == pauseAt(e, matchTid, m.producer)
             IN  OnceDS(f) /\ PairsGrow(ds, f) /\ FramesOnce(f, stack)
  <2>1. pauseAt(e, matchTid, m.producer) \in GoodDS /\ Keeps(e, pauseAt(e, matchTid, m.producer))
    BY <1>5, KeepsPause, PauseAtGood
  <2>. DEFINE f == pauseAt(e, matchTid, m.producer)
  <2>. HIDE DEF f
  <2>2. OnceDS(f) /\ FramesOnce(f, stack)
    BY <1>5, <2>1, KeepsOnce, FramesKeeps DEF GoodDS, f
  <2>3. PairsGrow(ds, f)
    BY <1>5, <2>1 DEF Keeps, PairsGrow, paired, f
  <2>. QED
    BY <2>2, <2>3 DEF f
<1>6. CASE EndSend
  <2>1. typId(m.producer) \notin UnlockTypes /\ m.mode = "send"
    BY <1>1, <1>6, MatchOnceFacts, ModeCases DEF EndSend, UnlockTypes
  <2>2. Proceed(pauseAt(d, matchTid, m.producer), FALSE)
    BY <1>6 DEF EndSend
  <2>. HIDE DEF d
  <2>. QED
    BY <1>1, <1>3, <1>5, <2>1, <2>2, ProceedOnce
<1>7. CASE EndWGDone
  <2>1. typId(m.producer) \notin UnlockTypes
    BY <1>1, <1>7, MatchOnceFacts, ModeCases DEF EndWGDone, UnlockTypes
  <2>2. Proceed(pauseAt(Settled, matchTid, m.producer), FALSE)
    BY <1>2, <1>7 DEF EndWGDone
  <2>. QED
    BY <1>1, <1>4, <1>5, <2>1, <2>2, ProceedOnce
<1>8. CASE EndExit
  <2>1. Proceed(Settled, FALSE)
    BY <1>8 DEF EndExit
  <2>. QED
    BY <1>1, <1>4, <2>1, ProceedOnce
<1>9. CASE EndUnlock
  <2>. DEFINE e == pauseAt(ds, gid(m.producer), m.producer)
  <2>1. ~Used(ds, m.producer) /\ Spent(ds, m.producer)
    BY <1>1, <1>9, MatchOnceFacts DEF EndUnlock, Free
  <2>2. OnceDS(e)
    BY <1>2, <2>1, PauseUnlockOnce DEF Spent
  <2>3. e \in DS /\ e.pairs = ds.pairs /\ e.visited = ds.visited
    BY PauseAtGood DEF pauseAt, GoodDS, DS
  <2>4. FramesOnce(e, stack) /\ PairsGrow(ds, e)
    <3>. HIDE DEF e
    <3>. QED
      BY <2>3, FramesChange DEF Used, PairsGrow
  <2>5. Proceed(e, FALSE) \/ Proceed(ds, TRUE)
    BY <1>2, <1>9 DEF EndUnlock
  <2>. HIDE DEF e
  <2>. QED
    BY <1>1, <2>2, <2>4, <2>5, GrowSame, ProceedOnce
<1>10. CASE EndSignal
  <2>1. m.mode = "signal" /\ Proceed(d, TRUE)
    BY <1>10 DEF EndSignal
  <2>. HIDE DEF d
  <2>. QED
    BY <1>1, <1>3, <2>1, ProceedOnce
<1>11. CASE EndAll
  BY <1>1, <1>11, GrowSame, ProceedOnce DEF EndAll
<1>. QED
  BY <1>6, <1>7, <1>8, <1>9, <1>10, <1>11

(* A node that is a case of a select is a case of no other, and only once. *)
LEMMA CaseStands ==
  ASSUME g \in RFGs, NEW p \in Node, NEW n \in Node, NEW i \in DOMAIN g.id2node[n].cases,
         g.id2node[n].cases[i] = p
  PROVE  /\ caseSel(p) = n
         /\ \A j \in DOMAIN g.id2node[n].cases : g.id2node[n].cases[j] = p => j = i
<1>1. p # NoNode
  BY GraphFacts DEF GraphOK, NoNode
<1>. QED
  BY <1>1, GraphRoles

(* The frame of a select after one of its cases, which may now be used.    *)
LEMMA FramesSent ==
  ASSUME g \in RFGs, NEW d \in DS, NEW e \in DS, NEW st \in Seq(Frame), st # <<>>,
         NEW f \in Frame, NEW p \in Node, FramesOnce(d, st),
         Head(st).kind = "cases", Head(st).i \in DOMAIN g.id2node[Head(st).node].cases,
         p = g.id2node[Head(st).node].cases[Head(st).i],
         f.kind = "cases", f.node = Head(st).node, f.i = Head(st).i + 1,
         \A n \in Node : d.visited[n] # Absent => e.visited[n] # Absent,
         \A q : Used(e, q) => Used(d, q) \/ q = p
  PROVE  FramesOnce(e, <<f>> \o Tail(st))
<1>. DEFINE s == <<f>> \o Tail(st)
<1>0. GraphOK
  BY GraphFacts
<1>1. Head(st) \in Frame /\ Head(st).i \in Nat \ {0} /\ Head(st).node \in Node
  <2>1. Head(st) \in Frame
    OBVIOUS
  <2>. QED
    BY <2>1 DEF Frame
<1>2. FramesOnce(d, s) /\ s \in Seq(Frame) /\ s[1] = f /\ 1 \in DOMAIN s
  BY <1>0, <1>1, FramesReplace, ReplaceTop
<1>. HIDE DEF s
<1>3. \A n \in Node : \A i \in DOMAIN g.id2node[n].cases :
        g.id2node[n].cases[i] = p =>
          /\ caseSel(p) = n
          /\ \A j \in DOMAIN g.id2node[n].cases : g.id2node[n].cases[j] = p => j = i
  BY CaseStands
<1>4. ASSUME NEW k \in DOMAIN s, s[k].kind = "cases", NEW j \in DOMAIN g.id2node[s[k].node].cases,
             j >= s[k].i, g.id2node[s[k].node].cases[j] = p
      PROVE  FALSE
  <2>0. s[k] \in Frame /\ s[k].node \in Node
    <3>1. s[k] \in Frame
      BY <1>2
    <3>. QED
      BY <3>1 DEF Frame
  <2>1. caseSel(p) = s[k].node /\ caseSel(p) = Head(st).node
    BY ONLY <1>1, <1>4, <1>3, <2>0, p = g.id2node[Head(st).node].cases[Head(st).i],
            Head(st).i \in DOMAIN g.id2node[Head(st).node].cases
  <2>2. k = 1
    BY <1>2, <1>4, <2>1 DEF FramesOnce
  <2>3. s[k].node = Head(st).node /\ s[k].i = Head(st).i + 1
    BY <1>2, <2>2
  <2>4. j = Head(st).i
    BY <1>1, <1>4, <1>3, <2>3
  <2>. QED
    BY ONLY <1>1, <1>4, <2>3, <2>4
<1>5. FramesOnce(e, s)
  BY <1>2, <1>4, FramesChange
<1>. QED
  BY <1>5 DEF s

(* The end of the matching loop of a send case.                            *)
LEMMA EndCaseSendOnce ==
  ASSUME OnceInv, Preserved, EndCaseSend \/ NilConsumer
  PROVE  KeptOnce
<1>. USE OnceFacts, InvFacts, MatchFacts
<1>1. CASE EndCaseSend
  <2>. DEFINE d == IF m.found THEN markConsumerAfterMatching(ds, m.ds_consumer, m.producer) ELSE ds
              e == pauseAt(d, matchTid, m.producer)
              f == [advance EXCEPT !.found_producer = TRUE, !.traverse = FALSE]
  <2>1. /\ pc = "match" /\ m.mode = "casesend" /\ (m.found => m.ds_consumer # NoNode)
        /\ ds' = e /\ pc' = "step" /\ states' = states /\ stack' = <<f>> \o Tail(stack)
    BY <1>1 DEF EndCaseSend, MatchOver, ConsumersDone
  <2>2. d \in GoodDS /\ OnceDS(d) /\ PairsGrow(ds, d)
    BY <2>1, FoundOnce
  <2>3. typId(m.producer) \notin UnlockTypes
    BY <2>1, MatchOnceFacts, ModeCases DEF CaseTypes, UnlockTypes
  <2>4. e \in GoodDS /\ Keeps(d, e)
    <3>. HIDE DEF d
    <3>. QED
      BY <2>2, <2>3, KeepsPause, PauseAtGood
  <2>5. /\ \A q : Used(d, q) => Used(ds, q) \/ q = m.producer
        /\ \A n \in Node : ds.visited[n] # Absent => d.visited[n] # Absent
    <3>1. CASE m.found
      <4>. DEFINE c == m.ds_consumer
                  d0 == [ds EXCEPT !.pairs[c] = m.producer]
      <4>1. c \in Node /\ Keeps(d0, d)
        BY <2>1, <3>1, MatchOnceFacts, InformedOnce
      <4>2. d0.visited = ds.visited
            /\ \A n \in Node : d0.pairs[n] = IF n = c THEN m.producer ELSE ds.pairs[n]
        BY <4>1 DEF DS
      <4>. HIDE DEF d0, d, c
      <4>. QED
        BY <4>1, <4>2 DEF Used, Keeps
    <3>2. CASE ~m.found
      BY <3>2
    <3>. QED
      BY <3>1, <3>2
  <2>6. /\ \A q : Used(e, q) => Used(ds, q) \/ q = m.producer
        /\ \A n \in Node : ds.visited[n] # Absent => e.visited[n] # Absent
    <3>. HIDE DEF d, e
    <3>. QED
      BY <2>4, <2>5 DEF Used, Keeps
  <2>7. OnceDS(e) /\ PairsGrow(ds, e)
    <3>. HIDE DEF d, e
    <3>. QED
      BY <2>2, <2>4, KeepsOnce DEF GoodDS, PairsGrow, Keeps
  <2>8. /\ stack # <<>> /\ top.kind = "cases" /\ top.i \in DOMAIN selCases
        /\ m.producer = selCases[top.i]
    BY <2>1 DEF MatchOnce, StackInv, top, selCases
  <2>9. top \in Frame /\ top.i \in Nat \ {0}
    BY <2>8, TopFacts DEF Frame
  <2>10. f \in Frame /\ f.kind = "cases" /\ f.node = top.node /\ f.i = top.i + 1
    <3>. DEFINE j == top.i + 1
                h == [top EXCEPT !.i = j]
    <3>1. j \in Nat \ {0}
      BY <2>9
    <3>. HIDE DEF j
    <3>2. h \in Frame /\ h.kind = top.kind /\ h.node = top.node /\ h.i = j
      BY <2>9, <3>1 DEF Frame
    <3>3. f = [h EXCEPT !.found_producer = TRUE, !.traverse = FALSE]
      BY DEF advance, j
    <3>. HIDE DEF f, h
    <3>. QED
      BY <2>8, <3>2, <3>3 DEF Frame, j
  <2>. HIDE DEF d, e, f
  <2>11. FramesOnce(e, <<f>> \o Tail(stack))
    BY <2>4, <2>6, <2>8, <2>10, FramesSent DEF top, selCases, GoodDS
  <2>. QED
    BY <2>1, <2>7, <2>11, Settle
<1>2. CASE NilConsumer
  <2>1. pc' = "crashed" /\ UNCHANGED <<states, ds, stack>>
    BY <1>2 DEF NilConsumer
  <2>. QED
    BY <2>1, GrowSame, Settle
<1>. QED
  BY <1>1, <1>2

-----------------------------------------------------------------------------
(* Select.                                                                 *)

(* Entering a select: none of its cases is used, as it was not visited.    *)
LEMMA VisitSelectOnce == ASSUME OnceInv, Preserved, VisitSelect PROVE KeptOnce
<1>. USE OnceFacts, InvFacts
<1>. DEFINE d == Seen(cur)
            f == NewFrame("cases", cur)
<1>1. /\ pc = "visit" /\ typId(cur) = "NSelect" /\ ds' = d /\ stack' = <<f>> \o stack
      /\ pc' = "step" /\ states' = states
  BY DEF VisitSelect, AtNode, push
<1>2. ds.visited[cur] = Absent
  BY <1>1 DEF VisitOnce, AgainTypes, LockTypes, UnlockTypes, CaseTypes
<1>3. d \in GoodDS /\ Keeps(ds, d)
  BY SeenKeeps
<1>4. d.visited[cur] # Absent
  BY DEF Seen, markVisited, GoodDS, DS, Absent
<1>. HIDE DEF d
<1>5. f \in Frame /\ f.kind = "cases" /\ f.node = cur
  BY FrameType DEF NewFrame
<1>. HIDE DEF f
<1>6. ASSUME NEW j \in DOMAIN g.id2node[cur].cases, g.id2node[cur].cases[j] # NoNode
      PROVE  ~Used(d, g.id2node[cur].cases[j])
  <2>. DEFINE c == g.id2node[cur].cases[j]
  <2>1. c \in Node /\ isCase(c) /\ caseSel(c) = cur
    BY <1>6, GraphRoles
  <2>. HIDE DEF c
  <2>2. Single(c)
    BY <2>1 DEF isCase, CaseTypes, Single, PairAll
  <2>3. ~Used(ds, c)
    BY <1>2, <2>1, <2>2 DEF OnceDS, Spent
  <2>4. ~Used(d, c)
    BY <1>3, <2>3 DEF Used, Keeps
  <2>. QED
    BY <2>4 DEF c
<1>7. FrameOnce(d, f)
  BY <1>1, <1>4, <1>5, <1>6 DEF FrameOnce
<1>8. FramesOnce(d, stack) /\ OnceDS(d) /\ PairsGrow(ds, d)
  BY <1>3, FramesKeeps, KeepsOnce, GrowKeeps DEF GoodDS
<1>9. \A k \in DOMAIN stack : stack[k].kind = "cases" => stack[k].node # f.node
  BY <1>2, <1>5 DEF FramesOnce, FrameOnce
<1>10. FramesOnce(d, <<f>> \o stack)
  BY <1>5, <1>7, <1>8, <1>9, FramesPush
<1>. QED
  BY <1>1, <1>8, <1>10, Settle

(* The case in hand: nobody used its send.                                 *)
LEMMA CaseInHand ==
  ASSUME OnceInv, AtCase
  PROVE  /\ stack # <<>> /\ top.kind = "cases" /\ top.i \in DOMAIN selCases
         /\ top \in Frame /\ top.i \in Nat \ {0} /\ top.node \in Node
         /\ theCase # NoNode =>
              /\ theCase \in Node /\ isCase(theCase)
              /\ typId(theCase) \notin UnlockTypes \cup {"NSignal"}
              /\ Free(ds, theCase)
<1>. USE OnceFacts, InvFacts
<1>1. stack # <<>> /\ top.kind = "cases"
  BY CaseFacts DEF AtCase
<1>2. top \in Frame /\ top.i \in Nat \ {0} /\ top.node \in Node
  BY <1>1, TopFacts DEF Frame
<1>3. top.i \in DOMAIN selCases
  <2>1. selCases \in Seq(Node \cup {NoNode})
    BY <1>2 DEF selCases, GraphOK
  <2>2. top.i <= Len(selCases)
    BY DEF AtCase
  <2>. QED
    BY <1>2, <2>1, <2>2
<1>4. ASSUME theCase # NoNode
      PROVE  theCase \in Node /\ isCase(theCase) /\ caseSel(theCase) = top.node
  BY <1>2, <1>3, <1>4, GraphRoles DEF theCase, selCases
<1>5. theCase # NoNode => typId(theCase) \notin UnlockTypes \cup {"NSignal"}
  BY <1>4 DEF isCase, CaseTypes, UnlockTypes
<1>6. FrameOnce(ds, top)
  BY <1>1 DEF FramesOnce, top
<1>7. theCase # NoNode => ~Used(ds, theCase) /\ ds.visited[top.node] # Absent
  BY <1>1, <1>2, <1>3, <1>6, SMTT(30) DEF FrameOnce, theCase, selCases
<1>8. theCase # NoNode => Free(ds, theCase)
  BY <1>4, <1>5, <1>7 DEF Free, Spent, Idle
<1>. QED
  BY <1>1, <1>2, <1>3, <1>4, <1>5, <1>8

(* The frame of the case in hand, moved on.                                *)
LEMMA AdvanceFrame ==
  ASSUME OnceInv, stack # <<>>, NEW f, f.kind = top.kind, f.node = top.node,
         f.i = top.i + 1, f \in Frame
  PROVE  FramesOnce(ds, <<f>> \o Tail(stack))
<1>. USE OnceFacts, InvFacts
<1>1. top \in Frame /\ top.i \in Nat \ {0}
  BY TopFacts DEF Frame
<1>2. f.i >= top.i
  BY <1>1
<1>. QED
  BY <1>2, FramesReplace DEF top

(* advance is such a frame, whatever is recorded of the case.              *)
LEMMA AdvanceShape ==
  ASSUME top \in Frame
  PROVE  /\ advance \in Frame /\ advance.kind = top.kind /\ advance.node = top.node
         /\ advance.i = top.i + 1
<1>. DEFINE j == top.i + 1
<1>1. j \in Nat \ {0}
  BY DEF Frame
<1>. HIDE DEF j
<1>2. advance = [top EXCEPT !.i = j]
  BY DEF advance, j
<1>3. advance \in Frame /\ advance.kind = top.kind /\ advance.node = top.node /\ advance.i = j
  BY <1>1, <1>2 DEF Frame
<1>. QED
  BY <1>3 DEF j

(* The loop over the cases of a select.                                    *)
LEMMA CasesOnce ==
  ASSUME OnceInv, Preserved,
         CasePass \/ CaseSplit \/ CaseDefault \/ CaseReceive \/ CaseSend \/ CasesDone
  PROVE  KeptOnce
<1>. USE OnceFacts, InvFacts
<1>0. AtCase => advance \in Frame /\ FramesOnce(ds, <<advance>> \o Tail(stack))
  BY CaseInHand, AdvanceShape, AdvanceFrame
<1>1. CASE CasePass
  <2>1. AtCase /\ pc' = "step" /\ UNCHANGED <<states, ds>> /\ stack' = <<advance>> \o Tail(stack)
    BY <1>1 DEF CasePass, AtCase
  <2>. QED
    BY <1>0, <2>1, GrowSame, Settle
<1>2. ASSUME AtCase, paired(ds, theCase), theCase # NoNode PROVE ds.pairs[theCase] \in Node
  BY <1>2, CaseFacts DEF paired, GoodDS, DS
<1>3. CASE CaseSplit
  <2>. DEFINE isDefault == caseKind = "default"
              e == copyFrom(ds, IF isDefault THEN theCase ELSE top.node, theCase, gid(top.node))
              w == IF isDefault THEN theCase ELSE ds.pairs[theCase]
  <2>0. AtCase /\ theCase # NoNode
    BY <1>3 DEF CaseSplit
  <2>1. e \in GoodDS /\ Keeps(ds, e)
    BY <2>0, CaseFacts, CopyFromGood, KeepsCopy
  <2>2. w \in Node
    BY <1>2, <1>3, <2>0, CaseFacts DEF CaseSplit
  <2>3. states' \in {states, Append(states, letWalk(e, w))}
    BY <1>3 DEF CaseSplit
  <2>. HIDE DEF e, w
  <2>4. letWalk(e, w) \in GoodDS /\ OnceDS(letWalk(e, w))
    BY <2>1, <2>2, WalkKeeps, KeepsOnce DEF GoodDS
  <2>5. \A i \in DOMAIN states' : OnceDS(states'[i])
    BY <2>3, <2>4
  <2>6. pc' = "step" /\ ds' = ds /\ stack' = <<advance>> \o Tail(stack)
    BY <1>3, <2>0 DEF CaseSplit, AtCase
  <2>. QED
    BY <1>0, <2>0, <2>5, <2>6, GrowSame, Settle
<1>4. CASE CaseDefault
  <2>. DEFINE f == [advance EXCEPT !.found_default = TRUE]
              e == letWalk(pauseAt(ds, gid(theCase), theCase), theCase)
  <2>0. AtCase /\ theCase # NoNode
    BY <1>4 DEF CaseDefault
  <2>1. f \in Frame /\ f.kind = top.kind /\ f.node = top.node /\ f.i = top.i + 1
    BY <2>0, CaseInHand, AdvanceShape DEF Frame
  <2>2. e \in GoodDS /\ Keeps(ds, e)
    BY <2>0, CaseInHand, KeepsSame, PauseKeeps, WalkKeeps
  <2>3. pc' = "visitSkip" /\ ds' = e /\ states' = states /\ stack' = <<f>> \o Tail(stack)
    BY <1>4 DEF CaseDefault
  <2>. HIDE DEF e, f
  <2>4. FramesOnce(ds, <<f>> \o Tail(stack))
    BY <2>0, <2>1, CaseInHand, AdvanceFrame
  <2>5. OnceDS(e) /\ FramesOnce(e, stack') /\ PairsGrow(ds, e)
    BY <2>2, <2>3, <2>4, KeepsOnce, FramesKeeps, GrowKeeps, NextTypes DEF GoodDS
  <2>. QED
    BY <2>3, <2>5, Settle
<1>5. CASE CaseReceive
  <2>. DEFINE f == [advance EXCEPT !.found_consumer = TRUE]
  <2>0. AtCase /\ theCase # NoNode
    BY <1>5 DEF CaseReceive
  <2>1. f \in Frame /\ f.kind = top.kind /\ f.node = top.node /\ f.i = top.i + 1
    BY <2>0, CaseInHand, AdvanceShape DEF Frame
  <2>2. Keeps(ds, ds')
    BY <1>2, <1>5, <2>0, KeepsSame, KeepsWalk DEF CaseReceive
  <2>3. pc' = "visit" /\ cur' = theCase /\ states' = states /\ stack' = <<f>> \o Tail(stack)
    BY <1>5 DEF CaseReceive
  <2>. HIDE DEF f
  <2>4. FramesOnce(ds, <<f>> \o Tail(stack))
    BY <2>0, <2>1, CaseInHand, AdvanceFrame
  <2>5. OnceDS(ds') /\ FramesOnce(ds', stack') /\ PairsGrow(ds, ds')
    BY <2>2, <2>3, <2>4, KeepsOnce, FramesKeeps, GrowKeeps, NextTypes
  <2>6. VisitOnce(pc', ds', cur')
    BY <2>0, <2>3, CaseInHand DEF VisitOnce, AgainTypes, isCase
  <2>. QED
    BY <2>3, <2>5, <2>6 DEF KeptOnce, Once, MatchOnce
<1>6. CASE CaseSend
  <2>0. AtCase /\ theCase # NoNode
    BY <1>6 DEF CaseSend
  <2>1. "casesend" \in DOMAIN ModeTypes /\ typId(theCase) \in ModeTypes["casesend"]
    BY <2>0, CaseInHand DEF ModeTypes, isCase
  <2>2. StartMatch(ds, "casesend", top.node, theCase, pts(theCase), foundOne) /\ stack' = stack
    BY <1>6 DEF CaseSend
  <2>. QED
    BY <2>0, <2>1, <2>2, CaseInHand, GrowSame, StartMatchOnce DEF theCase
<1>7. CASE CasesDone
  <2>. DEFINE n == top.node
              f == NewFrame("kids", n)
              e == pauseAt(markVisited(ds, n, 0), gid(n), n)
  <2>0. stack # <<>> /\ top.kind = "cases"
    BY <1>7 DEF CasesDone, StackInv
  <2>1. n \in Node /\ f \in Frame /\ f.kind = "kids"
    BY <2>0, TopFacts, FrameType DEF NewFrame
  <2>2. typId(n) \notin UnlockTypes
    BY <2>0 DEF FramesOnce, FrameOnce, top, UnlockTypes
  <2>3. Keeps(ds, e)
    <3>1. markVisited(ds, n, 0) \in GoodDS /\ Keeps(ds, markVisited(ds, n, 0))
      BY <2>1, MarkVisitedGood, KeepsMark
    <3>. HIDE DEF n
    <3>. QED
      BY <2>1, <2>2, <3>1, PauseKeeps
  <2>4. /\ ds' \in {ds, e} /\ states' = states /\ pc' \in {"step", "returnFalse"}
        /\ stack' \in {<<f>> \o Tail(stack), Tail(stack)}
    BY <1>7 DEF CasesDone
  <2>. HIDE DEF f, e
  <2>5. FramesOnce(ds, stack')
    BY <2>0, <2>1, <2>4, FramesReplace, FramesTail
  <2>6. Keeps(ds, ds')
    BY <2>3, <2>4, KeepsSame
  <2>7. OnceDS(ds') /\ FramesOnce(ds', stack') /\ PairsGrow(ds, ds')
    BY <2>5, <2>6, KeepsOnce, FramesKeeps, GrowKeeps, NextTypes
  <2>. QED
    BY <2>4, <2>7, Settle
<1>. QED
  BY <1>1, <1>3, <1>4, <1>5, <1>6, <1>7

-----------------------------------------------------------------------------
(* One step for each action of Next.                                       *)
LEMMA NextOnce == ASSUME OnceInv, [Next]_vars PROVE Preserved /\ KeptOnce
<1>0. IInv
  BY DEF OnceInv
<1>1. Preserved
  BY <1>0, NextPreserved
<1>2. CASE WorkList
  BY <1>1, <1>2, WorkListOnce
<1>3. CASE \E t \in Tid : Turn(t) \/ QuietTurn(t)
  BY <1>1, <1>3, TurnOnce
<1>4. CASE Walk
  BY <1>1, <1>4, WalkOnce
<1>5. CASE VisitNode
  BY <1>1, <1>5, ConsumerOnce, VisitPlainOnce, LocksOnce, VisitProducerOnce, VisitUnlockOnce,
     VisitSignalOnce, VisitExitOnce, VisitSelectOnce DEF VisitNode
<1>6. CASE MatchLoop
  BY <1>1, <1>6, MatchObjectOnce, MatchStepOnce, EndMatchOnce, EndCaseSendOnce DEF MatchLoop
<1>7. CASE Cases
  BY <1>1, <1>7, CasesOnce DEF Cases
<1>8. CASE Terminated \/ UNCHANGED vars
  <2>1. UNCHANGED <<states, ds, pc, cur, stack, m>>
    BY <1>8 DEF Terminated, vars
  <2>2. Once(states', ds', pc', cur', stack', m')
    BY <2>1 DEF OnceInv, Once
  <2>3. PairsGrow(ds, ds')
    BY <2>1 DEF PairsGrow
  <2>4. KeptOnce
    BY <2>2, <2>3 DEF KeptOnce
  <2>. QED
    BY <1>1, <2>4
<1>. QED
  BY <1>1, <1>2, <1>3, <1>4, <1>5, <1>6, <1>7, <1>8 DEF Next

(* Every step keeps the invariant.                                         *)
LEMMA NextOnceInv == OnceInv /\ [Next]_vars => OnceInv'
BY NextOnce, FrozenOnce

(* The invariant of the pairs holds in every state of every exploration,   *)
(* whatever the graph.                                                     *)
THEOREM OnceInductive == Spec => []OnceInv
BY InitOnce, NextOnceInv, PTL DEF Spec

(* matchChannel, matchUnlock, matchSignal and matchWGDone: a producer that *)
(* is not one of the pair-all kinds has at most one consumer, a Done or    *)
(* exit whose waitgroup is known.                                          *)
THEOREM PairedOnce == Spec => []PairsOnceEach
<1>1. OnceInv => PairsOnceEach
  BY DEF OnceInv, Once, OnceDS, PairsOnceEach, AllDS
<1>. QED
  BY <1>1, OnceInductive, PTL

(* detectionState.pairs, over time: while a state is explored no consumer  *)
(* gets a second producer or loses its own.                                *)
THEOREM PairsAreStable == Spec => PairsStable
<1>1. OnceInv /\ [Next]_vars =>
        [pc # "pop" => \A c \in DOMAIN ds.pairs :
           ds.pairs[c] # Absent => ds'.pairs[c] = ds.pairs[c]]_vars
  <2>. SUFFICES ASSUME OnceInv, [Next]_vars, pc # "pop", NEW c \in DOMAIN ds.pairs,
                       ds.pairs[c] # Absent
                PROVE  ds'.pairs[c] = ds.pairs[c]
    OBVIOUS
  <2>1. PairsGrow(ds, ds')
    BY NextOnce DEF KeptOnce
  <2>2. c \in Node
    BY OnceFacts DEF DS
  <2>. QED
    BY <2>1, <2>2 DEF PairsGrow, paired
<1>. QED
  BY <1>1, OnceInductive, PTL DEF Spec, PairsStable


=============================================================================

-------------------------- MODULE DetectionProofs --------------------------
(***************************************************************************)
(* Proofs about the detector, for every set of graphs that satisfy IsRFG.  *)
(*                                                                         *)
(* The invariant IInv is proved inductive, one lemma for each action.  A   *)
(* step is described by Preserved: g is unchanged and the new values       *)
(* satisfy Inv in the same graph; Frozen turns it into IInv'.              *)
(***************************************************************************)
EXTENDS DetectionProperties, TLAPS, SequenceTheorems

(* What IsRFG says of the current graph, through the accessors.            *)
GraphOK ==
  /\ Node \subseteq Nat /\ 0 \in Node
  /\ Tid \subseteq Nat /\ 0 \in Tid
  /\ \A t \in Tid : g.roots[t] \in Node /\ gid(g.roots[t]) = t
  /\ \A o \in Obj : consumers(o) \in Seq(Node) /\ producers(o) \in Seq(Node)
  /\ \A n \in Node :
       /\ gid(n) \in Tid
       /\ typId(n) \in TypeOfNode
       /\ pts(n) \in Seq(Obj)
       /\ kids(n) \in Seq(Node)
       /\ g.id2node[n].cases \in Seq(Node \cup {NoNode})
       /\ \A i \in DOMAIN g.id2node[n].cases :
            g.id2node[n].cases[i] # NoNode => gid(g.id2node[n].cases[i]) = gid(n)
       /\ caseSel(n) \in Node
       /\ isCase(n) => gid(caseSel(n)) = gid(n)
       /\ g.id2node[n].loop_name \in LoopName

(* RFGAssumption, for the graph being walked.                              *)
LEMMA GraphFacts == ASSUME g \in RFGs PROVE GraphOK
<1>1. IsRFG(g)
  BY RFGAssumption
<1>2. \A n \in Node : g.id2node[n] \in NodeRec
  BY <1>1 DEF IsRFG, Node
<1>3. \A n \in Node : /\ typId(n) \in TypeOfNode /\ pts(n) \in Seq(Obj)
                      /\ g.id2node[n].loop_name \in LoopName
  BY <1>2 DEF NodeRec, typId, pts
<1>4. \A n \in Node : /\ gid(n) \in Tid
                      /\ kids(n) \in Seq(Node)
                      /\ g.id2node[n].cases \in Seq(Node \cup {NoNode})
                      /\ caseSel(n) \in Node
                      /\ isCase(n) => gid(caseSel(n)) = gid(n)
  BY <1>1 DEF IsRFG, Node, Tid, gid, kids, caseSel, isCase, typId
<1>5. \A n \in Node : \A i \in DOMAIN g.id2node[n].cases :
        g.id2node[n].cases[i] # NoNode => gid(g.id2node[n].cases[i]) = gid(n)
  BY <1>1, ZenonT(60) DEF IsRFG, Node, gid
<1>6. \A o \in Obj : consumers(o) \in Seq(Node) /\ producers(o) \in Seq(Node)
  BY <1>1 DEF IsRFG, Node, consumers, producers
<1>7. /\ Node \subseteq Nat /\ 0 \in Node
      /\ Tid \subseteq Nat /\ 0 \in Tid
      /\ \A t \in Tid : g.roots[t] \in Node /\ gid(g.roots[t]) = t
  BY <1>1 DEF IsRFG, Node, Tid, gid
<1>. QED
  BY <1>3, <1>4, <1>5, <1>6, <1>7 DEF GraphOK

-----------------------------------------------------------------------------
(* markVisited keeps a state good.                                         *)
LEMMA MarkVisitedGood ==
  ASSUME NEW d \in GoodDS, NEW n \in Node, NEW v \in {0, 1}
  PROVE  markVisited(d, n, v) \in GoodDS
BY DEF GoodDS, DS, OwnDS, AgreeDS, markVisited

(* pauseHere keeps a state good when the node is of the goroutine paused.  *)
LEMMA PauseAtGood ==
  ASSUME GraphOK, NEW d \in GoodDS, NEW t \in Tid,
         NEW n \in Node \cup {Unset, Ended, InLoop},
         n \in Node => gid(n) = t
  PROVE  pauseAt(d, t, n) \in GoodDS
BY DEF GoodDS, DS, OwnDS, AgreeDS, pauseAt

(* Setting can_walk keeps a state good.                                    *)
LEMMA LetWalkGood ==
  ASSUME NEW d \in GoodDS, NEW n \in Node
  PROVE  letWalk(d, n) \in GoodDS
BY DEF GoodDS, DS, OwnDS, AgreeDS, letWalk

(* copy(id) of a good state is good.                                       *)
LEMMA CopyFromGood ==
  ASSUME NEW d \in GoodDS, NEW id \in Node, NEW start \in Node, NEW t \in Tid
  PROVE  copyFrom(d, id, start, t) \in GoodDS
<1>. DEFINE sp == Append(d.splitting_points, id)
<1>1. sp \in Seq(Node)
  BY DEF GoodDS, DS
<1>. HIDE DEF sp
<1>2. [d EXCEPT !.splitting_points = sp, !.start_node_id = start, !.start_tid = t] \in GoodDS
  BY <1>1 DEF GoodDS, DS, OwnDS, AgreeDS
<1>. QED
  BY <1>2 DEF copyFrom, sp

(* updateHIP keeps a state good.                                           *)
LEMMA UpdateHIPGood ==
  ASSUME GraphOK, NEW d \in GoodDS, NEW n \in Node
  PROVE  updateHIP(d, n) \in GoodDS
<1>. DEFINE h == Append(d.hip, gid(n))
            e == [d EXCEPT !.hip = h]
<1>1. h \in Seq(Tid)
  BY DEF GoodDS, DS, GraphOK
<1>. HIDE DEF h
<1>2. e \in GoodDS
  BY <1>1 DEF GoodDS, DS, OwnDS, AgreeDS
<1>3. markVisited(letWalk(pauseAt(e, gid(n), n), n), n, 1) \in GoodDS
  BY <1>2, PauseAtGood, LetWalkGood, MarkVisitedGood DEF GraphOK
<1>4. updateHIP(d, n) = markVisited(letWalk(pauseAt(e, gid(n), n), n), n, 1)
  BY <1>2 DEF updateHIP, markVisited, letWalk, pauseAt, h, GoodDS, DS
<1>. QED
  BY <1>3, <1>4

(* Recording a lock keeps a state good.                                    *)
LEMMA TakeLockGood ==
  ASSUME NEW d \in GoodDS, NEW n \in Node
  PROVE  takeLock(d, n) \in GoodDS /\ takeRLock(d, n) \in GoodDS
BY DEF GoodDS, DS, OwnDS, AgreeDS, takeLock, takeRLock

(* Recording a real match keeps a state good.                              *)
LEMMA PairGood ==
  ASSUME NEW d \in GoodDS, NEW c \in Node, NEW p \in Node, Matches(c, p)
  PROVE  [d EXCEPT !.pairs[c] = p] \in GoodDS
BY DEF GoodDS, DS, OwnDS, AgreeDS

(* markConsumerAfterMatching with a real match keeps a state good.         *)
LEMMA MarkConsumerGood ==
  ASSUME GraphOK, NEW d \in GoodDS, NEW c \in Node, NEW p \in Node, Matches(c, p)
  PROVE  markConsumerAfterMatching(d, c, p) \in GoodDS
<1>. DEFINE d1 == [d EXCEPT !.pairs[c] = p]
            d2 == letWalk(pauseAt(d1, gid(c), c), c)
            d3 == [d1 EXCEPT !.can_walk = @ \cup {c}, !.pause_ats[gid(c)] = c]
<1>1. d1 \in GoodDS
  BY PairGood
<1>2. d2 \in GoodDS
  BY <1>1, PauseAtGood, LetWalkGood DEF GraphOK
<1>3. d3 = d2
  BY <1>1 DEF pauseAt, letWalk, GoodDS, DS
<1>4. isCase(c) => markVisited(d2, caseSel(c), 1) \in GoodDS
  BY <1>2, MarkVisitedGood DEF GraphOK
<1>. QED
  BY <1>1, <1>2, <1>3, <1>4 DEF markConsumerAfterMatching

(* The first state is good.                                                *)
LEMMA FreshGood == ASSUME GraphOK PROVE FreshDS \in GoodDS
BY DEF GraphOK, GoodDS, DS, OwnDS, AgreeDS, FreshDS, Unset, Absent

(* prepareLastVisit, given nodes with their own tids, keeps a state good.  *)
LEMMA PrepareGood ==
  ASSUME GraphOK, NEW d \in GoodDS, NEW S,
         \A p \in S : p[1] \in Node /\ p[2] = gid(p[1])
  PROVE  prepareLastVisit(d, S) \in GoodDS
<1>. DEFINE pa == [t \in Tid |-> IF \E p \in S : p[2] = t
               THEN (CHOOSE p \in S : p[2] = t)[1] ELSE d.pause_ats[t]]
            vl == [t \in Tid |-> 0]
<1>1. pa \in [Tid -> Node \cup {Unset, Ended, InLoop}]
  BY DEF GoodDS, DS
<1>2. \A t \in Tid : pa[t] \in Node => gid(pa[t]) = t
  BY DEF GoodDS, OwnDS
<1>3. vl \in [Tid -> Node]
  BY DEF GraphOK
<1>. HIDE DEF pa
<1>. DEFINE cw == d.can_walk \cup {p[1] : p \in S}
<1>4. cw \in SUBSET Node
  BY DEF GoodDS, DS
<1>5. \A t \in Tid : vl[t] = 0
  OBVIOUS
<1>. HIDE DEF cw, vl
<1>. DEFINE e == [d EXCEPT !.can_walk = cw, !.pause_ats = pa, !.visit_last = vl]
<1>6. e \in DS
  BY <1>1, <1>3, <1>4 DEF GoodDS, DS
<1>7. e.pause_ats = pa /\ e.visit_last = vl /\ e.pairs = d.pairs
  BY DEF GoodDS, DS
<1>8. OwnDS(e) /\ AgreeDS(e)
  BY <1>2, <1>5, <1>7 DEF GoodDS, OwnDS, AgreeDS
<1>9. prepareLastVisit(d, S) = e
  BY DEF prepareLastVisit, pa, cw, vl
<1>. QED
  BY <1>6, <1>8, <1>9 DEF GoodDS

-----------------------------------------------------------------------------
(* The graph never changes, so the invariant after a step may be stated    *)
(* with the accessors before it.                                           *)
Preserved ==
  g' = g /\ Inv(states', results', berrs', ds', pc', cur', stack', m', tid')

(* g is never assigned, so what Preserved says of the new values in the    *)
(* old graph is the invariant after the step.                              *)
LEMMA Frozen == ASSUME IInv, Preserved PROVE IInv'
<1>0. g' = g /\ g' \in RFGs
  BY DEF IInv, Preserved
<1>1. Node' = Node /\ Tid' = Tid
  BY <1>0 DEF Node, Tid
<1>2. DS' = DS /\ Frame' = Frame /\ OutcomeSet' = OutcomeSet /\ Match' = Match
  BY <1>1 DEF DS, Frame, OutcomeSet, Match
<1>3. \A d : OwnDS(d)' <=> OwnDS(d)
  BY <1>0, <1>1 DEF OwnDS, gid
<1>4. \A c, p : Matches(c, p)' <=> Matches(c, p)
  BY <1>0 DEF Matches, ConsumerOf, gid, pts, consumers, InSeq
<1>5. \A c, p : ConsumerOf(c, p)' <=> ConsumerOf(c, p)
  BY <1>0 DEF ConsumerOf, pts, consumers, InSeq
<1>6. \A d : AgreeDS(d)' <=> AgreeDS(d)
  BY <1>1, <1>4 DEF AgreeDS
<1>7. GoodDS' = GoodDS
  BY <1>2, <1>3, <1>6 DEF GoodDS
<1>8. \A k : MatchInv(k)' <=> MatchInv(k)
  BY <1>0, <1>2, <1>4, <1>5 DEF MatchInv, gid, pts, InSeq
<1>9. \A p, st, k : StackInv(p, st, k)' <=> StackInv(p, st, k)
  BY <1>2 DEF StackInv
<1>. QED
  BY <1>0, <1>1, <1>2, <1>7, <1>8, <1>9 DEF IInv, Inv, Preserved

(* The parts of the invariant, for citing.                                 *)
LEMMA InvFacts ==
  ASSUME IInv
  PROVE  /\ GraphOK
         /\ states \in Seq(GoodDS)
         /\ results \in Seq(OutcomeSet)
         /\ berrs \in SUBSET (SUBSET Node)
         /\ ds \in GoodDS
         /\ pc \in PC
         /\ cur \in Node
         /\ StackInv(pc, stack, m)
         /\ MatchInv(m)
         /\ tid \in Tid
BY GraphFacts DEF IInv, Inv

(* New and changed frames are frames.                                      *)
LEMMA FrameType ==
  ASSUME NEW k \in {"kids", "cases"}, NEW n \in Node
  PROVE  NewFrame(k, n) \in Frame
BY DEF Frame, NewFrame

(* Outside a matching loop its part of the invariant holds.                *)
LEMMA NoMatchInv == ASSUME GraphOK PROVE MatchInv(NoMatch)
BY DEF GraphOK, MatchInv, NoMatch, Match, MatchMode, NoNode, InSeq

(* The initial states of DFSDetectBlockingBugs satisfy the invariant.      *)
LEMMA InitInv == Init => IInv
<1>. SUFFICES ASSUME Init PROVE IInv
  OBVIOUS
<1>1. GraphOK
  BY GraphFacts DEF Init
<1>2. ds \in GoodDS
  BY <1>1, FreshGood, UpdateHIPGood DEF Init, GraphOK
<1>3. states \in Seq(GoodDS)
  BY <1>2 DEF Init
<1>4. MatchInv(m)
  BY <1>1, NoMatchInv DEF Init
<1>5. StackInv(pc, stack, m)
  BY DEF Init, StackInv
<1>6. /\ g \in RFGs /\ results \in Seq(OutcomeSet) /\ berrs \in SUBSET (SUBSET Node)
      /\ pc \in PC /\ cur \in Node /\ tid \in Tid
  BY <1>1 DEF Init, PC, GraphOK
<1>. QED
  BY <1>2, <1>3, <1>4, <1>5, <1>6 DEF IInv, Inv

-----------------------------------------------------------------------------
(* The work list.                                                          *)

(* Taking a state from the work list.                                      *)
LEMMA PopStateInv == ASSUME IInv, PopState PROVE Preserved
<1>. USE InvFacts
<1>1. ds' \in GoodDS /\ states' \in Seq(GoodDS)
  BY DEF PopState
<1>2. cur' \in Node /\ tid' \in Tid
  BY <1>1 DEF PopState, GoodDS, DS
<1>3. StackInv(pc', stack', m')
  BY DEF PopState, StackInv
<1>. QED
  BY <1>1, <1>2, <1>3 DEF PopState, Preserved, Inv, PC

(* Filtering the results.                                                  *)
LEMMA FilterInv ==
  ASSUME IInv, StartFilter \/ FilterResult \/ Finish
  PROVE  Preserved
<1>. USE InvFacts
<1>1. StackInv(pc', stack', m')
  BY DEF StartFilter, FilterResult, Finish, StackInv
<1>2. CASE StartFilter
  BY <1>1, <1>2 DEF StartFilter, Preserved, Inv, PC
<1>3. CASE FilterResult
  <2>1. berrs' \in SUBSET (SUBSET Node)
    BY <1>3 DEF FilterResult
  <2>2. results' \in Seq(OutcomeSet)
    BY <1>3 DEF FilterResult
  <2>. QED
    BY <1>1, <1>3, <2>1, <2>2 DEF FilterResult, Preserved, Inv
<1>4. CASE Finish
  BY <1>1, <1>4 DEF Finish, Preserved, Inv, PC
<1>. QED
  BY <1>2, <1>3, <1>4

(* The end of exploreRandomState.                                          *)
LEMMA EndExploreInv == ASSUME IInv, EndExplore PROVE Preserved
<1>. USE InvFacts
<1>1. Outcome(ds) \in OutcomeSet
  BY DEF Outcome, OutcomeSet, GoodDS, DS
<1>2. results' \in Seq(OutcomeSet)
  BY <1>1 DEF EndExplore
<1>3. StackInv(pc', stack', m')
  BY DEF EndExplore, StackInv
<1>. QED
  BY <1>2, <1>3 DEF EndExplore, Preserved, Inv, PC

-----------------------------------------------------------------------------
(* exploreRandomState.                                                     *)

(* A turn of exploreRandomState, from any good state d.                    *)
LEMMA WalkOrSkipInv ==
  ASSUME IInv, NEW d \in GoodDS, NEW t \in Tid, NEW last, WalkOrSkip(d, t, last),
         pc = "sched"
  PROVE  Preserved
<1>. USE InvFacts
<1>1. CASE canWalkFrom(d, t)
  <2>. DEFINE n == d.pause_ats[t]
              d0 == [d EXCEPT !.can_walk = @ \ {n}]
              e == pauseAt(d0, t, Unset)
  <2>1. n \in Node
    BY <1>1 DEF canWalkFrom
  <2>2. d0 \in GoodDS
    BY DEF GoodDS, DS, OwnDS, AgreeDS
  <2>3. e \in GoodDS
    <3>. HIDE DEF d0
    <3>1. Unset \notin Node
      BY DEF Unset, GraphOK
    <3>. QED
      BY <2>2, <3>1, PauseAtGood
  <2>4. ds' = e
    BY <1>1, <2>2 DEF WalkOrSkip, pauseAt, GoodDS, DS
  <2>5. cur' \in Node /\ pc' \in {"crashed", "visit", "visitSkip"} /\ tid' = t
        /\ UNCHANGED <<g, states, results, berrs, stack, m>>
    BY <1>1, <2>1 DEF WalkOrSkip
  <2>6. StackInv(pc', stack', m')
    BY <2>5 DEF StackInv
  <2>. QED
    BY <2>3, <2>4, <2>5, <2>6 DEF Preserved, Inv, PC
<1>2. CASE ~canWalkFrom(d, t)
  <2>1. StackInv(pc', stack', m')
    BY <1>2 DEF WalkOrSkip, StackInv
  <2>. QED
    BY <1>2, <2>1 DEF WalkOrSkip, Preserved, Inv
<1>. QED
  BY <1>1, <1>2

(* What a quiet turn prepares are nodes with their own tids.               *)
LEMMA LastVisitsOwn ==
  ASSUME GraphOK, NEW d \in GoodDS, NEW S \in LastVisits(d)
  PROVE  \A p \in S : p[1] \in Node /\ p[2] = gid(p[1])
<1>1. holdingRLock(d) \subseteq Node /\ holdingLock(d) \subseteq Node
  BY DEF holdingRLock, holdingLock, HoldingAt
<1>2. noPausedWaits(d) \subseteq Node
  BY DEF noPausedWaits, PausedWaits
<1>3. ASSUME NEW T, T \subseteq Node, S \in WithGid(T)
      PROVE  \A p \in S : p[1] \in Node /\ p[2] = gid(p[1])
  BY <1>3 DEF WithGid
<1>4. ASSUME S = {<<d.visit_last[t], t>> : t \in {u \in Tid : d.visit_last[u] > 0}}
      PROVE  \A p \in S : p[1] \in Node /\ p[2] = gid(p[1])
  <2>1. \A t \in Tid : d.visit_last[t] \in Node /\ (d.visit_last[t] > 0 => gid(d.visit_last[t]) = t)
    BY DEF GoodDS, DS, OwnDS, GraphOK
  <2>. QED
    BY <1>4, <2>1
<1>. QED
  BY <1>1, <1>2, <1>3, <1>4 DEF LastVisits

(* Both kinds of turns of exploreRandomState.                              *)
LEMMA TurnInv ==
  ASSUME IInv, NEW t \in Tid, Turn(t) \/ QuietTurn(t)
  PROVE  Preserved
<1>1. CASE Turn(t)
  BY <1>1, InvFacts, WalkOrSkipInv DEF Turn
<1>2. CASE QuietTurn(t)
  <2>1. PICK S \in LastVisits(ds) : WalkOrSkip(prepareLastVisit(ds, S), t, TRUE)
    BY <1>2 DEF QuietTurn
  <2>2. prepareLastVisit(ds, S) \in GoodDS
    BY InvFacts, LastVisitsOwn, PrepareGood
  <2>. QED
    BY <1>2, <2>1, <2>2, WalkOrSkipInv DEF QuietTurn
<1>. QED
  BY <1>1, <1>2

-----------------------------------------------------------------------------
(* visit().                                                                *)

(* visit() marks its node.                                                 *)
LEMMA SeenGood == ASSUME IInv, NEW n \in Node PROVE Seen(n) \in GoodDS
BY InvFacts, MarkVisitedGood DEF Seen

(* The stack with another top frame.                                       *)
LEMMA ReplaceTop ==
  ASSUME NEW st \in Seq(Frame), NEW f \in Frame
  PROVE  <<f>> \o st \in Seq(Frame) /\ <<f>> \o st # <<>>
OBVIOUS

(* Leaving visitNode with a good state.                                    *)
LEMMA ProceedInv ==
  ASSUME IInv, NEW d \in GoodDS, NEW b, Proceed(d, b),
         states' \in Seq(GoodDS), MatchInv(m')
  PROVE  Preserved
<1>. USE InvFacts
<1>1. CASE b
  <2>1. NewFrame("kids", cur) \in Frame
    BY FrameType
  <2>2. stack' \in Seq(Frame) /\ stack' # <<>> /\ pc' = "step"
    BY <1>1, <2>1, ReplaceTop DEF Proceed, push, StackInv
  <2>. QED
    BY <2>2 DEF Proceed, Preserved, Inv, StackInv, PC
<1>2. CASE ~b
  BY <1>2 DEF Proceed, Preserved, Inv, StackInv, PC
<1>. QED
  BY <1>1, <1>2

(* visit() with skip set.                                                  *)
LEMMA VisitSkipInv == ASSUME IInv, VisitSkip PROVE Preserved
BY InvFacts, SeenGood, ProceedInv DEF VisitSkip

(* The top frame and what it may be replaced by.                           *)
LEMMA TopFacts ==
  ASSUME IInv, stack # <<>>
  PROVE  /\ stack \in Seq(Frame) /\ top \in Frame /\ top.node \in Node
         /\ Tail(stack) \in Seq(Frame) /\ advance \in Frame
<1>1. stack \in Seq(Frame)
  BY InvFacts DEF StackInv
<1>2. top \in Frame /\ Tail(stack) \in Seq(Frame)
  BY <1>1 DEF top
<1>3. advance \in Frame /\ top.node \in Node
  BY <1>2 DEF advance, Frame
<1>. QED
  BY <1>1, <1>2, <1>3

(* The loop over the kids of a node.                                       *)
LEMMA KidsInv ==
  ASSUME IInv, KidVisited \/ KidGoroutine \/ KidVisit \/ KidsDone
  PROVE  Preserved
<1>. USE InvFacts
<1>0. pc = "step" /\ stack # <<>>
  BY DEF KidVisited, KidGoroutine, KidVisit, KidsDone, StackInv
<1>1. CASE KidVisited
  <2>1. stack' \in Seq(Frame) /\ stack' # <<>>
    BY <1>0, <1>1, TopFacts, ReplaceTop DEF KidVisited
  <2>. QED
    BY <1>0, <1>1, <2>1 DEF KidVisited, Preserved, Inv, StackInv
<1>2. ASSUME top.i <= Len(kids(top.node)) PROVE nextKid \in Node
  BY <1>0, <1>2, TopFacts, SMTT(30) DEF nextKid, GraphOK, Frame
<1>3. CASE KidGoroutine
  <2>1. stack' \in Seq(Frame) /\ stack' # <<>>
    BY <1>0, <1>3, TopFacts, ReplaceTop DEF KidGoroutine
  <2>2. ds' \in GoodDS
    BY <1>2, <1>3, UpdateHIPGood DEF KidGoroutine
  <2>. QED
    BY <1>0, <1>3, <2>1, <2>2 DEF KidGoroutine, Preserved, Inv, StackInv
<1>4. CASE KidVisit
  <2>1. stack' \in Seq(Frame) /\ stack' # <<>>
    BY <1>0, <1>4, TopFacts, ReplaceTop DEF KidVisit
  <2>. QED
    BY <1>2, <1>4, <2>1 DEF KidVisit, Preserved, Inv, StackInv, PC
<1>5. CASE KidsDone
  <2>1. stack' \in Seq(Frame)
    BY <1>0, <1>5, TopFacts DEF KidsDone
  <2>. QED
    BY <1>5, <2>1 DEF KidsDone, Preserved, Inv, StackInv, PC
<1>. QED
  BY <1>1, <1>3, <1>4, <1>5

(* The return of visit() to its caller.                                    *)
LEMMA ReturnInv ==
  ASSUME IInv, ReturnToKids \/ ReturnToCases \/ ReturnToExplore
  PROVE  Preserved
<1>. USE InvFacts
<1>1. CASE ReturnToKids
  <2>1. stack' \in Seq(Frame) /\ (pc' = "step" => stack' # <<>>)
    BY <1>1, TopFacts DEF ReturnToKids
  <2>2. pc' \in {"step", "returnFalse"}
    BY <1>1 DEF ReturnToKids
  <2>. QED
    BY <1>1, <2>1, <2>2 DEF ReturnToKids, Preserved, Inv, StackInv, PC
<1>2. CASE ReturnToCases
  <2>. DEFINE f == [top EXCEPT !.traverse = (pc = "returnTrue")]
  <2>1. f \in Frame
    BY <1>2, TopFacts DEF ReturnToCases, Frame
  <2>2. stack' \in Seq(Frame) /\ stack' # <<>>
    BY <1>2, <2>1, TopFacts, ReplaceTop DEF ReturnToCases
  <2>. QED
    BY <1>2, <2>2 DEF ReturnToCases, Preserved, Inv, StackInv, PC
<1>3. CASE ReturnToExplore
  BY <1>3 DEF ReturnToExplore, Preserved, Inv, StackInv, PC
<1>. QED
  BY <1>1, <1>2, <1>3

-----------------------------------------------------------------------------
(* visitNode without matching.                                             *)

(* matchConsumer.                                                          *)
LEMMA MatchConsumerInv ==
  ASSUME IInv, NEW d \in GoodDS, NEW inform, matchConsumer(d, inform),
         UNCHANGED <<states, m>>
  PROVE  Preserved
<1>. USE InvFacts
<1>1. paired(d, cur) => d.pairs[cur] \in Node
  BY DEF paired, GoodDS, DS
<1>2. paired(d, cur) => letWalk(d, d.pairs[cur]) \in GoodDS
  BY <1>1, LetWalkGood
<1>3. pauseAt(d, t_cur, cur) \in GoodDS
  BY PauseAtGood DEF t_cur, GraphOK
<1>. QED
  BY <1>2, <1>3, ProceedInv DEF matchConsumer

(* The cases of the consumers: receive, ctx.Done(), cond.Wait, wg.Wait.    *)
LEMMA ConsumerInv ==
  ASSUME IInv, VisitReceive \/ VisitCtxDoneOrCondWait \/ VisitWGWait
  PROVE  Preserved
<1>. USE InvFacts
<1>1. Seen(cur) \in GoodDS
  BY SeenGood
<1>2. pauseAt(Seen(cur), t_cur, cur) \in GoodDS
  BY <1>1, PauseAtGood DEF t_cur, GraphOK
<1>. QED
  BY <1>1, <1>2, MatchConsumerInv, ProceedInv
  DEF VisitReceive, VisitCtxDoneOrCondWait, VisitWGWait

(* The case of a select case.                                              *)
LEMMA VisitCaseInv == ASSUME IInv, VisitCase PROVE Preserved
<1>. USE InvFacts
<1>. DEFINE s == caseSel(cur)
            d == letWalk(pauseAt(Seen(cur), gid(s), s), s)
<1>1. s \in Node /\ gid(s) \in Tid
  BY DEF GraphOK
<1>2. d \in GoodDS
  BY <1>1, SeenGood, PauseAtGood, LetWalkGood
<1>3. paired(ds, cur) => ds.pairs[cur] \in Node
  BY DEF paired, GoodDS, DS
<1>4. paired(ds, cur) => letWalk(d, ds.pairs[cur]) \in GoodDS
  BY <1>2, <1>3, LetWalkGood
<1>. HIDE DEF d
<1>. QED
  BY <1>2, <1>4, ProceedInv DEF VisitCase, d

(* The cases of NLoop and NROC.                                            *)
LEMMA VisitLoopInv == ASSUME IInv, VisitLoop PROVE Preserved
<1>. USE InvFacts
<1>. DEFINE nd == g.id2node[cur]
            d == [Seen(cur) EXCEPT !.visit_loops[nd.loop_name] =
                    IF nd.enterLoop THEN cur ELSE Absent]
<1>1. Seen(cur) \in GoodDS
  BY SeenGood
<1>2. d \in GoodDS
  BY <1>1 DEF GoodDS, DS, OwnDS, AgreeDS, GraphOK
<1>. HIDE DEF d
<1>. QED
  BY <1>2, ProceedInv DEF VisitLoop, d

(* The default case and the one of a go node.                              *)
LEMMA VisitOtherInv == ASSUME IInv, VisitOther PROVE Preserved
<1>. USE InvFacts
<1>. DEFINE h == Append(Seen(cur).hip, t_cur)
            d == [Seen(cur) EXCEPT !.hip = h]
<1>1. Seen(cur) \in GoodDS
  BY SeenGood
<1>2. h \in Seq(Tid)
  BY <1>1 DEF GoodDS, DS, t_cur, GraphOK
<1>. HIDE DEF h
<1>3. d \in GoodDS
  BY <1>1, <1>2 DEF GoodDS, DS, OwnDS, AgreeDS
<1>. HIDE DEF d
<1>. QED
  BY <1>1, <1>3, ProceedInv DEF VisitOther, d, h

-----------------------------------------------------------------------------
(* Locks.                                                                  *)

(* The tables of double, two and triple locks say nothing of pauses or     *)
(* pairs.                                                                  *)
LEMMA LockTablesGood ==
  ASSUME NEW d \in GoodDS, NEW t \in Tid, NEW s \in Seq(Node)
  PROVE  /\ [d EXCEPT !.doublelock[t] = s] \in GoodDS
         /\ [d EXCEPT !.twolock[t] = s] \in GoodDS
         /\ [d EXCEPT !.triplelocks[t] = s] \in GoodDS
BY DEF GoodDS, DS, OwnDS, AgreeDS

(* cannotLock and cannotRLock return a node or nil.                        *)
LEMMA HolderType ==
  ASSUME GraphOK, NEW d \in GoodDS, NEW n \in Node
  PROVE  /\ cannotLock(d, n) # NoNode => cannotLock(d, n) \in Node
         /\ cannotRLock(d, n) # NoNode => cannotRLock(d, n) \in Node
<1>1. ASSUME NEW locks \in [Obj -> Node \cup {Absent}], Holder(locks, n) # NoNode
      PROVE  Holder(locks, n) \in Node
  <2>1. \A i \in Taken(locks, n) : locks[pts(n)[i]] \in Node
    BY DEF Taken, GraphOK
  <2>. QED
    BY <1>1, <2>1 DEF Holder
<1>. QED
  BY <1>1 DEF cannotLock, cannotRLock, GoodDS, DS

(* The state of createNewLockState is good: the holder goes back to its    *)
(* own lock.                                                               *)
LEMMA LockStateGood ==
  ASSUME IInv, NEW d \in GoodDS, NEW held \in Node
  PROVE  LockState(d, held) \in GoodDS
<1>. USE InvFacts
<1>. DEFINE c == copyFrom(d, cur, cur, t_cur)
            p == pauseAt(c, gid(held), held)
<1>1. c \in GoodDS
  BY CopyFromGood DEF t_cur, GraphOK
<1>2. p \in GoodDS
  BY <1>1, PauseAtGood DEF GraphOK
<1>3. markVisited(takeLock(p, cur), held, 0) \in GoodDS
  BY <1>2, TakeLockGood, MarkVisitedGood
<1>. QED
  BY <1>3, LetWalkGood DEF LockState

(* A lock that is held.                                                    *)
LEMMA BlockedByInv ==
  ASSUME IInv, NEW held \in Node, BlockedBy(held), UNCHANGED m
  PROVE  Preserved
<1>. USE InvFacts
<1>. DEFINE d == Seen(cur)
            t == gid(held)
            double == [d EXCEPT !.doublelock[t] = <<held, cur>>]
            two == [d EXCEPT !.twolock[t] = <<held, cur>>]
<1>1. d \in GoodDS /\ t \in Tid /\ t_cur \in Tid
  BY SeenGood DEF t_cur, GraphOK
<1>2. double \in GoodDS /\ two \in GoodDS
  <2>1. <<held, cur>> \in Seq(Node)
    OBVIOUS
  <2>. HIDE DEF d, t
  <2>. QED
    BY <1>1, <2>1, LockTablesGood
<1>3. pauseAt(double, t_cur, cur) \in GoodDS /\ pauseAt(d, t_cur, cur) \in GoodDS
  <2>. HIDE DEF double, d
  <2>. QED
    BY <1>1, <1>2, PauseAtGood DEF t_cur
<1>4. LockState(d, held) \in GoodDS
  BY <1>1, LockStateGood
<1>5. Append(states, LockState(d, held)) \in Seq(GoodDS)
  BY <1>4
<1>6. ASSUME d.pause_ats[t] >= 0
      PROVE  pauseAt(markVisited(letWalk(two, d.pause_ats[t]), cur, 0), t_cur, cur) \in GoodDS
  <2>1. d.pause_ats[t] \in Node
    <3>1. d.pause_ats \in [Tid -> Node \cup {Unset, Ended, InLoop}]
      BY <1>1 DEF GoodDS, DS
    <3>. HIDE DEF d, t
    <3>2. d.pause_ats[t] \in Node \cup {Unset, Ended, InLoop}
      BY <1>1, <3>1
    <3>. QED
      BY <1>6, <3>2 DEF Unset, Ended, InLoop
  <2>. HIDE DEF d, t, two
  <2>2. letWalk(two, d.pause_ats[t]) \in GoodDS
    BY <1>2, <2>1, LetWalkGood
  <2>3. markVisited(letWalk(two, d.pause_ats[t]), cur, 0) \in GoodDS
    BY <2>2, MarkVisitedGood
  <2>. QED
    BY <1>1, <2>3, PauseAtGood DEF t_cur
<1>7. states' \in Seq(GoodDS)
  BY <1>5 DEF BlockedBy
<1>8. \E e \in GoodDS, b \in BOOLEAN : Proceed(e, b)
  BY <1>2, <1>3, <1>6 DEF BlockedBy
<1>. QED
  BY <1>7, <1>8, ProceedInv

(* A lock that is free.                                                    *)
LEMMA AcquiredInv ==
  ASSUME IInv, NEW d \in GoodDS, Acquired(d), UNCHANGED m
  PROVE  Preserved
<1>. USE InvFacts
<1>. DEFINE e == [d EXCEPT !.doublelock[t_cur] = <<>>]
<1>0. t_cur \in Tid
  BY DEF t_cur, GraphOK
<1>1. e \in GoodDS
  <2>1. <<>> \in Seq(Node)
    OBVIOUS
  <2>. QED
    BY <1>0, <2>1, LockTablesGood
<1>2. pauseAt(e, t_cur, cur) \in GoodDS
  <2>. HIDE DEF e
  <2>. QED
    BY <1>0, <1>1, PauseAtGood DEF t_cur
<1>. QED
  BY <1>1, <1>2, ProceedInv DEF Acquired

(* The case of NLock.                                                      *)
LEMMA VisitLockInv == ASSUME IInv, VisitLock PROVE Preserved
<1>1. takeLock(Seen(cur), cur) \in GoodDS
  BY InvFacts, SeenGood, TakeLockGood
<1>. QED
  BY <1>1, InvFacts, HolderType, BlockedByInv, AcquiredInv DEF VisitLock

(* The case of NRLock.                                                     *)
LEMMA VisitRLockInv == ASSUME IInv, VisitRLock PROVE Preserved
<1>. USE InvFacts
<1>. DEFINE doubles == ds.doublelock[t_cur]
            d == Seen(cur)
            triple == [d EXCEPT !.triplelocks[t_cur] = Append(doubles, cur)]
<1>0. t_cur \in Tid
  BY DEF t_cur, GraphOK
<1>1. d \in GoodDS /\ takeRLock(d, cur) \in GoodDS
  BY SeenGood, TakeLockGood
<1>2. Append(doubles, cur) \in Seq(Node)
  BY <1>0 DEF GoodDS, DS
<1>3. triple \in GoodDS
  <2>. HIDE DEF d, doubles
  <2>. QED
    BY <1>0, <1>1, <1>2, LockTablesGood
<1>4. pauseAt(triple, t_cur, cur) \in GoodDS
  <2>. HIDE DEF triple
  <2>. QED
    BY <1>0, <1>3, PauseAtGood DEF t_cur
<1>5. CASE cannotLock(ds, cur) # NoNode
  BY <1>5, HolderType, BlockedByInv DEF VisitRLock
<1>6. CASE /\ cannotLock(ds, cur) = NoNode
           /\ cannotRLock(ds, cur) # NoNode /\ gid(cannotRLock(ds, cur)) = t_cur
  BY <1>1, <1>4, <1>6, ProceedInv DEF VisitRLock
<1>7. CASE /\ cannotLock(ds, cur) = NoNode
           /\ ~(cannotRLock(ds, cur) # NoNode /\ gid(cannotRLock(ds, cur)) = t_cur)
  <2>1. Acquired(takeRLock(d, cur)) /\ UNCHANGED m
    BY <1>7 DEF VisitRLock
  <2>. QED
    BY <1>1, <2>1, AcquiredInv
<1>. QED
  BY <1>5, <1>6, <1>7

-----------------------------------------------------------------------------
(* Matching loops: start.                                                  *)

(* Entering a matching loop with a producer of the goroutine being walked. *)
LEMMA StartMatchInv ==
  ASSUME IInv, NEW d \in GoodDS, NEW mode \in MatchMode, NEW at \in Node,
         NEW p \in Node, gid(p) = gid(at), NEW found \in BOOLEAN,
         mode \in {"send", "signal"} => ~found,
         mode = "casesend" => stack # <<>>,
         StartMatch(d, mode, at, p, pts(p), found), UNCHANGED stack
  PROVE  Preserved
<1>. USE InvFacts
<1>1. pts(p) \in Seq(Obj)
  BY DEF GraphOK
<1>2. m' = [mode |-> mode, at |-> at, producer |-> p, objs |-> pts(p), cons |-> <<>>,
            i |-> 1, rest |-> {}, found |-> found, ds_consumer |-> NoNode]
  BY DEF StartMatch, NoMatch
<1>3. m' \in Match
  BY <1>1, <1>2 DEF Match
<1>4. \A i \in DOMAIN m'.objs : InSeq(m'.objs[i], pts(p))
  BY <1>1, <1>2 DEF InSeq
<1>5. MatchInv(m')
  BY <1>2, <1>3, <1>4 DEF MatchInv
<1>6. StackInv(pc', stack', m')
  BY <1>2 DEF StartMatch, StackInv
<1>. QED
  BY <1>5, <1>6 DEF StartMatch, Preserved, Inv, PC

(* The cases of the producers that match at once.                          *)
LEMMA VisitProducerInv ==
  ASSUME IInv, VisitSend \/ VisitAll \/ VisitWGDone
  PROVE  Preserved
<1>1. Seen(cur) \in GoodDS /\ cur \in Node
  BY InvFacts, SeenGood
<1>. QED
  BY <1>1, StartMatchInv DEF VisitSend, VisitAll, VisitWGDone, MatchMode

(* The case of NUnlock and NRUnlock.                                       *)
LEMMA VisitUnlockInv == ASSUME IInv, VisitUnlock PROVE Preserved
<1>1. Seen(cur) \in GoodDS /\ cur \in Node
  BY InvFacts, SeenGood
<1>. QED
  BY <1>1, InvFacts, StartMatchInv, ProceedInv DEF VisitUnlock, MatchMode

(* The case of NSignal.                                                    *)
LEMMA VisitSignalInv == ASSUME IInv, VisitSignal PROVE Preserved
<1>. USE InvFacts
<1>. DEFINE s == Seen(cur)
            d == [s EXCEPT !.visit_last[t_cur] = cur]
<1>1. s \in GoodDS /\ cur \in Node /\ t_cur \in Tid
  BY SeenGood DEF t_cur, GraphOK
<1>2. d \in GoodDS
  <2>. HIDE DEF s
  <2>1. d \in DS
    BY <1>1 DEF GoodDS, DS
  <2>2. /\ d.pause_ats = s.pause_ats /\ d.pairs = s.pairs
        /\ \A t \in Tid : d.visit_last[t] = IF t = t_cur THEN cur ELSE s.visit_last[t]
    BY <1>1 DEF GoodDS, DS
  <2>3. OwnDS(d) /\ AgreeDS(d)
    BY <1>1, <2>2 DEF GoodDS, OwnDS, AgreeDS, t_cur
  <2>. QED
    BY <2>1, <2>3 DEF GoodDS
<1>3. pauseAt(d, t_cur, cur) \in GoodDS
  <2>. HIDE DEF d
  <2>. QED
    BY <1>1, <1>2, PauseAtGood DEF t_cur
<1>. QED
  BY <1>1, <1>3, StartMatchInv, ProceedInv DEF VisitSignal, MatchMode

(* Deleting an element of hip gives a sequence of tids.                    *)
LEMMA RemoveAtType ==
  ASSUME NEW T, NEW h \in Seq(T), NEW x, indexOf(h, x) # NoIndex
  PROVE  removeAt(h, indexOf(h, x)) \in Seq(T)
<1>1. indexOf(h, x) \in DOMAIN h
  BY DEF indexOf
<1>. DEFINE k == indexOf(h, x)
<1>2. k \in 1..Len(h)
  BY <1>1
<1>. HIDE DEF k
<1>3. SubSeq(h, 1, k - 1) \in Seq(T) /\ SubSeq(h, k + 1, Len(h)) \in Seq(T)
  BY <1>2
<1>4. removeAt(h, k) \in Seq(T)
  BY <1>3 DEF removeAt
<1>. QED
  BY <1>4 DEF k

(* The case of NExit.                                                      *)
LEMMA VisitExitInv == ASSUME IInv, VisitExit PROVE Preserved
<1>. USE InvFacts
<1>. DEFINE s == Seen(cur)
            p == pauseAt(s, t_cur, Ended)
            h == removeAt(ds.hip, indexOf(ds.hip, t_cur))
            d == [p EXCEPT !.hip = h]
<1>1. s \in GoodDS /\ cur \in Node /\ t_cur \in Tid
  BY SeenGood DEF t_cur, GraphOK
<1>2. Ended \notin Node /\ InLoop \notin Node
  BY DEF Ended, InLoop, GraphOK
<1>3. p \in GoodDS /\ pauseAt(s, t_cur, InLoop) \in GoodDS
  <2>. HIDE DEF s
  <2>. QED
    BY <1>1, <1>2, PauseAtGood
<1>4. p.hip = ds.hip
  BY DEF pauseAt, Seen, markVisited, GoodDS, DS
<1>5. ASSUME indexOf(ds.hip, t_cur) # NoIndex PROVE d \in GoodDS
  <2>1. h \in Seq(Tid)
    BY <1>5, RemoveAtType DEF GoodDS, DS
  <2>. HIDE DEF h, p
  <2>. QED
    BY <1>3, <2>1 DEF GoodDS, DS, OwnDS, AgreeDS
<1>6. [p EXCEPT !.hip = removeAt(@, indexOf(@, t_cur))] = d
  BY <1>4
<1>7. CASE hasUnclosedLoop(ds, cur)
  BY <1>3, <1>7, ProceedInv DEF VisitExit
<1>8. CASE ~hasUnclosedLoop(ds, cur) /\ indexOf(ds.hip, t_cur) = NoIndex
  BY <1>8 DEF VisitExit, Preserved, Inv, StackInv, PC
<1>9. CASE ~hasUnclosedLoop(ds, cur) /\ indexOf(ds.hip, t_cur) # NoIndex
  <2>1. d \in GoodDS
    BY <1>5, <1>9
  <2>2. \/ StartMatch(d, "exit", cur, cur, pts(cur), FALSE) /\ UNCHANGED stack
        \/ Proceed(d, FALSE) /\ UNCHANGED <<states, m>>
    BY <1>6, <1>9 DEF VisitExit
  <2>. HIDE DEF d
  <2>. QED
    BY <1>1, <2>1, <2>2, StartMatchInv, ProceedInv DEF MatchMode
<1>. QED
  BY <1>7, <1>8, <1>9

-----------------------------------------------------------------------------
(* Matching loops: steps.                                                  *)

(* The parts of the matching loop's invariant, for citing.                 *)
LEMMA MatchFacts ==
  ASSUME IInv
  PROVE  /\ m \in Match /\ m.at \in Node /\ m.producer \in Node
         /\ matchTid \in Tid /\ gid(m.producer) = matchTid
BY InvFacts DEF MatchInv, Match, matchTid, GraphOK

(* Informing wg.Wait keeps the state good.                                 *)
LEMMA SettledGood == ASSUME IInv PROVE Settled \in GoodDS
<1>1. m.ds_consumer # NoNode => m.ds_consumer \in Node /\ Matches(m.ds_consumer, m.producer)
  BY InvFacts DEF MatchInv, Match
<1>. QED
  BY <1>1, InvFacts, MatchFacts, MarkConsumerGood DEF Settled

(* Letting go of a lock keeps the state good.                              *)
LEMMA ReleasedGood ==
  ASSUME IInv, NEW o \in Obj
  PROVE  Released(ds, o) \in GoodDS
<1>. USE InvFacts, MatchFacts
<1>. DEFINE e == [ds EXCEPT !.twolock[matchTid] = <<>>]
<1>1. e \in GoodDS
  <2>1. <<>> \in Seq(Node)
    OBVIOUS
  <2>. QED
    BY <2>1, LockTablesGood
<1>. HIDE DEF e
<1>2. [e EXCEPT !.lockset[o] = Absent] \in GoodDS
  BY <1>1 DEF GoodDS, DS, OwnDS, AgreeDS
<1>. QED
  BY <1>1, <1>2 DEF Released, e

(* The next object: all its consumers are consumers of the producer.       *)
LEMMA MatchObjectInv == ASSUME IInv, MatchObject PROVE Preserved
<1>. USE InvFacts, MatchFacts
<1>. DEFINE o == Head(m.objs)
            d == IF m.mode = "unlock" THEN Released(ds, o) ELSE Settled
            look == typId(m.at) # "NRUnlock"
            cs == IF look THEN consumers(o) ELSE <<>>
            rs == IF look THEN SmallestConsumers(d, o) ELSE {}
            os == Tail(m.objs)
<1>0. m.objs \in Seq(Obj) /\ m.objs # <<>>
  BY DEF MatchObject, Match
<1>1. o \in Obj /\ os \in Seq(Obj)
  BY <1>0
<1>2. InSeq(o, pts(m.producer)) /\ \A i \in DOMAIN os : InSeq(os[i], pts(m.producer))
  <2>1. \A i \in DOMAIN m.objs : InSeq(m.objs[i], pts(m.producer))
    BY DEF MatchInv
  <2>2. 1 \in DOMAIN m.objs /\ \A i \in DOMAIN os : i + 1 \in DOMAIN m.objs /\ os[i] = m.objs[i + 1]
    BY <1>0
  <2>. QED
    BY <1>0, <2>1, <2>2
<1>3. d \in GoodDS
  BY <1>1, ReleasedGood, SettledGood
<1>. HIDE DEF o, d, os
<1>4. cs \in Seq(Node) /\ \A i \in DOMAIN cs : InSeq(cs[i], consumers(o))
  BY <1>1 DEF GraphOK, InSeq
<1>5. rs \subseteq Node /\ \A c \in rs : InSeq(c, consumers(o))
  BY DEF SmallestConsumers
<1>6. \A c : InSeq(c, consumers(o)) => ConsumerOf(c, m.producer)
  BY <1>2 DEF ConsumerOf, InSeq
<1>. HIDE DEF cs, rs
<1>. DEFINE n == [m EXCEPT !.objs = os, !.i = 2, !.cons = cs, !.rest = rs]
<1>7. n \in Match /\ n.mode = m.mode /\ MatchInv(n)
  <2>0. 2 \in Nat \ {0} /\ rs \in SUBSET Node
    BY <1>5
  <2>1. n \in Match
    BY <1>1, <1>4, <2>0 DEF Match
  <2>2. /\ n.mode = m.mode /\ n.at = m.at /\ n.producer = m.producer
        /\ n.objs = os /\ n.cons = cs /\ n.rest = rs
        /\ n.found = m.found /\ n.ds_consumer = m.ds_consumer
    BY DEF Match
  <2>. HIDE DEF n
  <2>. QED
    BY <1>2, <1>4, <1>5, <1>6, <2>1, <2>2 DEF MatchInv
<1>8. ASSUME m.mode \in WGModes
      PROVE  MatchInv([n EXCEPT !.found = FALSE, !.ds_consumer = NoNode])
  BY <1>7, <1>8 DEF MatchInv, Match, WGModes
<1>9. /\ ds' = d /\ UNCHANGED <<g, states, results, berrs, pc, cur, stack, tid>>
      /\ m' = IF m.mode \in WGModes
              THEN [n EXCEPT !.found = FALSE, !.ds_consumer = NoNode] ELSE n
  BY DEF MatchObject, o, d, os, cs, rs
<1>10. MatchInv(m') /\ m'.mode = m.mode
  BY <1>7, <1>8, <1>9 DEF Match
<1>11. StackInv(pc', stack', m')
  BY <1>9, <1>10 DEF StackInv
<1>. QED
  BY <1>3, <1>9, <1>10, <1>11 DEF Preserved, Inv

(* The state of createNewState is good.                                    *)
LEMMA NewPairStateGood ==
  ASSUME IInv, NEW c \in Node, ConsumerOf(c, m.producer)
  PROVE  NewPairState(c) \in Seq(GoodDS)
<1>. USE InvFacts, MatchFacts
<1>1. CASE canHIP(ds, gid(c), matchTid)
  <2>. DEFINE e == copyFrom(ds, m.at, m.producer, matchTid)
              f == [e EXCEPT !.pairs[c] = m.producer]
  <2>1. Matches(c, m.producer)
    BY <1>1 DEF Matches, canHIP
  <2>2. e \in GoodDS
    BY CopyFromGood
  <2>3. f \in GoodDS
    <3>. HIDE DEF e
    <3>. QED
      BY <2>1, <2>2, PairGood
  <2>4. PairState(c) \in GoodDS
    BY <2>3, LetWalkGood DEF PairState
  <2>. QED
    BY <2>4 DEF NewPairState
<1>2. CASE ~canHIP(ds, gid(c), matchTid)
  BY <1>2 DEF NewPairState
<1>. QED
  BY <1>1, <1>2

(* One consumer of the loop: it is chosen only if its goroutine is another *)
(* one.                                                                    *)
LEMMA MatchOneInv ==
  ASSUME IInv, pc = "match", NEW c \in Node, ConsumerOf(c, m.producer),
         NEW n, MatchInv(n), n.producer = m.producer, n.mode = m.mode,
         MatchOne(c, n)
  PROVE  Preserved
<1>. USE InvFacts, MatchFacts
<1>. DEFINE free == ~paired(ds, c) /\ canHIP(ds, gid(c), matchTid)
            chosen == [n EXCEPT !.found = TRUE, !.ds_consumer = c]
<1>1. free => Matches(c, m.producer)
  BY DEF Matches, canHIP
<1>2. free => /\ markConsumerAfterMatching(ds, c, m.producer) \in GoodDS
              /\ letWalk(ds, c) \in GoodDS
  BY <1>1, MarkConsumerGood, LetWalkGood
<1>3. free => MatchInv(chosen) /\ chosen.mode = m.mode
  <2>. SUFFICES ASSUME free PROVE MatchInv(chosen) /\ chosen.mode = m.mode
    OBVIOUS
  <2>1. NoNode \notin Node
    BY DEF NoNode, GraphOK
  <2>2. Matches(c, n.producer)
    BY <1>1
  <2>. HIDE DEF free
  <2>. QED
    BY <2>1, <2>2 DEF MatchInv, Match
<1>. HIDE DEF chosen
<1>4. states' \in Seq(GoodDS)
  BY NewPairStateGood DEF MatchOne
<1>5. ds' \in GoodDS
  BY <1>2 DEF MatchOne
<1>6. MatchInv(m') /\ m'.mode = m.mode
  BY <1>3 DEF MatchOne, chosen
<1>7. UNCHANGED <<g, results, berrs, pc, cur, stack, tid>>
  BY DEF MatchOne
<1>8. StackInv(pc', stack', m')
  BY <1>6, <1>7 DEF StackInv
<1>. QED
  BY <1>4, <1>5, <1>6, <1>7, <1>8 DEF Preserved, Inv

(* The steps of the loop over the consumers.                               *)
LEMMA MatchStepInv ==
  ASSUME IInv, MatchPass \/ MatchListed \/ (\E c \in Node : MatchSmallest(c))
  PROVE  Preserved
<1>. USE InvFacts, MatchFacts
<1>. DEFINE j == m.i + 1
            n == [m EXCEPT !.i = j]
<1>0. j \in Nat \ {0}
  BY DEF Match
<1>. HIDE DEF j
<1>1. MatchInv(n) /\ n.mode = m.mode /\ n.producer = m.producer
  <2>1. n \in Match
    BY <1>0 DEF Match
  <2>2. /\ n.mode = m.mode /\ n.at = m.at /\ n.producer = m.producer
        /\ n.objs = m.objs /\ n.cons = m.cons /\ n.rest = m.rest
        /\ n.found = m.found /\ n.ds_consumer = m.ds_consumer
    BY DEF Match
  <2>. HIDE DEF n
  <2>. QED
    BY <2>1, <2>2 DEF MatchInv
<1>2. CASE MatchPass
  <2>1. StackInv(pc', stack', m')
    BY <1>1, <1>2 DEF MatchPass, StackInv, j
  <2>. QED
    BY <1>1, <1>2, <2>1 DEF MatchPass, Preserved, Inv, j
<1>3. CASE MatchListed
  <2>1. m.cons[m.i] \in Node /\ ConsumerOf(m.cons[m.i], m.producer)
    BY <1>3 DEF MatchListed, MatchInv, Match
  <2>. QED
    BY <1>1, <1>3, <2>1, MatchOneInv DEF MatchListed, j
<1>4. ASSUME NEW c \in Node, MatchSmallest(c) PROVE Preserved
  <2>. DEFINE k == [m EXCEPT !.rest = @ \ {c}]
  <2>1. MatchInv(k) /\ k.mode = m.mode /\ k.producer = m.producer
    BY DEF MatchInv, Match
  <2>2. ConsumerOf(c, m.producer)
    BY <1>4 DEF MatchSmallest, MatchInv
  <2>. QED
    BY <1>4, <2>1, <2>2, MatchOneInv DEF MatchSmallest
<1>. QED
  BY <1>2, <1>3, <1>4

-----------------------------------------------------------------------------
(* Matching loops: end.                                                    *)

(* Marking the chosen consumer keeps the state good.                       *)
LEMMA InformedGood ==
  ASSUME IInv, m.ds_consumer # NoNode
  PROVE  markConsumerAfterMatching(ds, m.ds_consumer, m.producer) \in GoodDS
<1>1. m.ds_consumer \in Node /\ Matches(m.ds_consumer, m.producer)
  BY InvFacts DEF MatchInv, Match
<1>. QED
  BY <1>1, InvFacts, MatchFacts, MarkConsumerGood

(* The ends of the matching loops.                                         *)
LEMMA EndMatchInv ==
  ASSUME IInv, EndSend \/ EndWGDone \/ EndExit \/ EndUnlock \/ EndSignal \/ EndAll
  PROVE  Preserved
<1>. USE InvFacts, MatchFacts
<1>1. MatchInv(NoMatch)
  BY NoMatchInv
<1>2. m.mode \in {"send", "signal"} /\ m.found => m.ds_consumer # NoNode
  BY DEF MatchInv
<1>3. CASE EndSend
  <2>. DEFINE d == IF m.found THEN markConsumerAfterMatching(ds, m.ds_consumer, m.producer) ELSE ds
  <2>1. d \in GoodDS
    BY <1>2, <1>3, InformedGood DEF EndSend
  <2>2. pauseAt(d, matchTid, m.producer) \in GoodDS
    <3>. HIDE DEF d
    <3>. QED
      BY <2>1, PauseAtGood
  <2>. QED
    BY <1>1, <1>3, <2>2, ProceedInv DEF EndSend
<1>4. CASE EndWGDone
  <2>1. pauseAt(Settled, matchTid, m.at) \in GoodDS
    BY SettledGood, PauseAtGood DEF matchTid
  <2>. QED
    BY <1>1, <1>4, <2>1, ProceedInv DEF EndWGDone
<1>5. CASE EndExit
  BY <1>1, <1>5, SettledGood, ProceedInv DEF EndExit
<1>7. CASE EndUnlock
  <2>1. pauseAt(ds, matchTid, m.at) \in GoodDS
    BY PauseAtGood DEF matchTid
  <2>. QED
    BY <1>1, <1>7, <2>1, ProceedInv DEF EndUnlock
<1>8. CASE EndSignal
  <2>1. m.found => markConsumerAfterMatching(ds, m.ds_consumer, m.producer) \in GoodDS
    BY <1>2, <1>8, InformedGood DEF EndSignal
  <2>. QED
    BY <1>1, <1>8, <2>1, ProceedInv DEF EndSignal
<1>9. CASE EndAll
  BY <1>1, <1>9, ProceedInv DEF EndAll
<1>. QED
  BY <1>3, <1>4, <1>5, <1>7, <1>8, <1>9

(* The end of the matching loop of a send case.                            *)
LEMMA EndCaseSendInv ==
  ASSUME IInv, EndCaseSend \/ NilConsumer
  PROVE  Preserved
<1>. USE InvFacts, MatchFacts
<1>1. CASE EndCaseSend
  <2>. DEFINE d == IF m.found THEN markConsumerAfterMatching(ds, m.ds_consumer, m.producer) ELSE ds
              f == [advance EXCEPT !.found_producer = TRUE, !.traverse = FALSE]
  <2>1. d \in GoodDS
    BY <1>1, InformedGood DEF EndCaseSend
  <2>2. pauseAt(d, matchTid, m.producer) \in GoodDS
    <3>. HIDE DEF d
    <3>. QED
      BY <2>1, PauseAtGood
  <2>3. stack # <<>>
    BY <1>1 DEF EndCaseSend, MatchOver, ConsumersDone, StackInv
  <2>4. f \in Frame
    BY <2>3, TopFacts DEF Frame
  <2>5. stack' \in Seq(Frame) /\ stack' # <<>>
    BY <1>1, <2>3, <2>4, TopFacts, ReplaceTop DEF EndCaseSend
  <2>6. MatchInv(m') /\ ds' \in GoodDS
    BY <1>1, <2>2, NoMatchInv DEF EndCaseSend
  <2>. QED
    BY <1>1, <2>5, <2>6 DEF EndCaseSend, Preserved, Inv, StackInv, PC
<1>2. CASE NilConsumer
  BY <1>2 DEF NilConsumer, Preserved, Inv, StackInv, PC
<1>. QED
  BY <1>1, <1>2

-----------------------------------------------------------------------------
(* Select.                                                                 *)

(* Entering a select.                                                      *)
LEMMA VisitSelectInv == ASSUME IInv, VisitSelect PROVE Preserved
<1>. USE InvFacts
<1>1. stack' \in Seq(Frame) /\ stack' # <<>>
  <2>1. NewFrame("cases", cur) \in Frame
    BY FrameType
  <2>. QED
    BY <2>1, ReplaceTop DEF VisitSelect, push, StackInv
<1>. QED
  BY <1>1, SeenGood DEF VisitSelect, Preserved, Inv, StackInv, PC

(* The case in hand is a node of the goroutine of its select.              *)
LEMMA CaseFacts ==
  ASSUME IInv, AtCase
  PROVE  /\ stack # <<>> /\ top.node \in Node /\ gid(top.node) \in Tid
         /\ theCase # NoNode => theCase \in Node /\ gid(theCase) = gid(top.node)
<1>. USE InvFacts
<1>1. stack # <<>>
  BY DEF AtCase, StackInv
<1>2. top.node \in Node /\ top.i \in DOMAIN selCases /\ selCases \in Seq(Node \cup {NoNode})
  <2>1. selCases \in Seq(Node \cup {NoNode})
    BY <1>1, TopFacts DEF selCases, GraphOK
  <2>2. top.i \in Nat \ {0} /\ top.i <= Len(selCases)
    BY <1>1, TopFacts DEF Frame, AtCase
  <2>. QED
    BY <1>1, <2>1, <2>2, TopFacts
<1>3. theCase \in Node \cup {NoNode}
  BY <1>2 DEF theCase
<1>4. theCase # NoNode => gid(theCase) = gid(top.node)
  BY <1>2 DEF theCase, selCases, GraphOK
<1>. QED
  BY <1>1, <1>2, <1>3, <1>4 DEF GraphOK

(* The stack after a turn of the loop over the cases.                      *)
LEMMA AdvanceInv ==
  ASSUME IInv, stack # <<>>, NEW f \in Frame, stack' = <<f>> \o Tail(stack), m' = m
  PROVE  StackInv(pc', stack', m')
BY TopFacts, ReplaceTop DEF StackInv

(* The loop over the cases of a select.                                    *)
LEMMA CasesInv ==
  ASSUME IInv, CasePass \/ CaseSplit \/ CaseDefault \/ CaseReceive \/ CaseSend \/ CasesDone
  PROVE  Preserved
<1>. USE InvFacts
<1>1. CASE CasePass
  <2>1. StackInv(pc', stack', m')
    BY <1>1, CaseFacts, TopFacts, AdvanceInv DEF CasePass
  <2>. QED
    BY <1>1, <2>1 DEF CasePass, Preserved, Inv
<1>2. ASSUME AtCase, paired(ds, theCase), theCase # NoNode PROVE ds.pairs[theCase] \in Node
  BY <1>2, CaseFacts DEF paired, GoodDS, DS
<1>3. CASE CaseSplit
  <2>. DEFINE isDefault == caseKind = "default"
              e == copyFrom(ds, IF isDefault THEN theCase ELSE top.node, theCase, gid(top.node))
              w == IF isDefault THEN theCase ELSE ds.pairs[theCase]
  <2>0. AtCase /\ theCase # NoNode
    BY <1>3 DEF CaseSplit
  <2>1. e \in GoodDS
    BY <2>0, CaseFacts, CopyFromGood
  <2>2. w \in Node
    BY <1>2, <1>3, <2>0, CaseFacts DEF CaseSplit
  <2>3. letWalk(e, w) \in GoodDS
    <3>. HIDE DEF e, w
    <3>. QED
      BY <2>1, <2>2, LetWalkGood
  <2>4. states' \in Seq(GoodDS)
    BY <1>3, <2>3 DEF CaseSplit
  <2>5. StackInv(pc', stack', m')
    BY <1>3, <2>0, CaseFacts, TopFacts, AdvanceInv DEF CaseSplit
  <2>. QED
    BY <1>3, <2>4, <2>5 DEF CaseSplit, Preserved, Inv
<1>4. CASE CaseDefault
  <2>. DEFINE f == [advance EXCEPT !.found_default = TRUE]
  <2>0. AtCase /\ theCase # NoNode
    BY <1>4 DEF CaseDefault
  <2>1. f \in Frame
    BY <2>0, CaseFacts, TopFacts DEF Frame
  <2>2. ds' \in GoodDS /\ cur' \in Node
    BY <1>4, <2>0, CaseFacts, PauseAtGood, LetWalkGood DEF CaseDefault
  <2>3. StackInv(pc', stack', m')
    BY <1>4, <2>0, <2>1, CaseFacts, AdvanceInv DEF CaseDefault
  <2>. QED
    BY <1>4, <2>2, <2>3 DEF CaseDefault, Preserved, Inv, PC
<1>5. CASE CaseReceive
  <2>. DEFINE f == [advance EXCEPT !.found_consumer = TRUE]
  <2>0. AtCase /\ theCase # NoNode
    BY <1>5 DEF CaseReceive
  <2>1. f \in Frame
    BY <2>0, CaseFacts, TopFacts DEF Frame
  <2>2. ds' \in GoodDS /\ cur' \in Node
    BY <1>2, <1>5, <2>0, CaseFacts, LetWalkGood DEF CaseReceive
  <2>3. StackInv(pc', stack', m')
    BY <1>5, <2>0, <2>1, CaseFacts, AdvanceInv DEF CaseReceive
  <2>. QED
    BY <1>5, <2>2, <2>3 DEF CaseReceive, Preserved, Inv, PC
<1>6. CASE CaseSend
  <2>0. AtCase /\ theCase # NoNode
    BY <1>6 DEF CaseSend
  <2>1. top.found_producer \in BOOLEAN /\ top.found_consumer \in BOOLEAN
    BY <2>0, CaseFacts, TopFacts DEF Frame
  <2>2. foundOne \in BOOLEAN
    BY <2>1 DEF foundOne
  <2>. QED
    BY <1>6, <2>0, <2>2, CaseFacts, StartMatchInv DEF CaseSend, MatchMode
<1>7. CASE CasesDone
  <2>. DEFINE n == top.node
  <2>0. stack # <<>>
    BY <1>7 DEF CasesDone, StackInv
  <2>1. n \in Node
    BY <2>0, TopFacts
  <2>2. pauseAt(markVisited(ds, n, 0), gid(n), n) \in GoodDS
    BY <2>1, MarkVisitedGood, PauseAtGood DEF GraphOK
  <2>3. <<NewFrame("kids", n)>> \o Tail(stack) \in Seq(Frame)
        /\ <<NewFrame("kids", n)>> \o Tail(stack) # <<>>
    BY <2>0, <2>1, FrameType, TopFacts, ReplaceTop
  <2>4. ds' \in GoodDS
    BY <1>7, <2>2 DEF CasesDone
  <2>5. /\ stack' \in Seq(Frame) /\ pc' \in {"step", "returnFalse"}
        /\ pc' = "step" => stack' # <<>>
    BY <1>7, <2>0, <2>3, TopFacts DEF CasesDone
  <2>. QED
    BY <1>7, <2>4, <2>5 DEF CasesDone, Preserved, Inv, StackInv, PC
<1>. QED
  BY <1>1, <1>3, <1>4, <1>5, <1>6, <1>7

-----------------------------------------------------------------------------
(* One step for each action of Next.                                       *)
LEMMA NextPreserved == ASSUME IInv, [Next]_vars PROVE Preserved
<1>1. CASE WorkList
  BY <1>1, PopStateInv, FilterInv, EndExploreInv DEF WorkList
<1>2. CASE \E t \in Tid : Turn(t) \/ QuietTurn(t)
  BY <1>2, TurnInv
<1>3. CASE Walk
  BY <1>3, VisitSkipInv, KidsInv, ReturnInv DEF Walk
<1>4. CASE VisitNode
  BY <1>4, ConsumerInv, VisitCaseInv, VisitLoopInv, VisitOtherInv, VisitLockInv,
     VisitRLockInv, VisitProducerInv, VisitUnlockInv, VisitSignalInv, VisitExitInv,
     VisitSelectInv DEF VisitNode
<1>5. CASE MatchLoop
  BY <1>5, MatchObjectInv, MatchStepInv, EndMatchInv, EndCaseSendInv DEF MatchLoop
<1>6. CASE Cases
  BY <1>6, CasesInv DEF Cases
<1>7. CASE Terminated \/ UNCHANGED vars
  BY <1>7, InvFacts DEF Terminated, vars, Preserved, Inv
<1>. QED
  BY <1>1, <1>2, <1>3, <1>4, <1>5, <1>6, <1>7 DEF Next

(* Every step keeps the invariant.                                         *)
LEMMA NextInv == IInv /\ [Next]_vars => IInv'
BY NextPreserved, Frozen

(* The detector never leaves IInv, on any set of graphs with IsRFG.        *)
THEOREM Inductive == Spec => []IInv
<1>. QED
  BY InitInv, NextInv, PTL DEF Spec

(* Type correctness of the detector's state.                               *)
THEOREM TypeCorrect == Spec => []TypeOK
<1>1. IInv => TypeOK
  <2>. SUFFICES ASSUME IInv PROVE TypeOK
    OBVIOUS
  <2>. USE InvFacts
  <2>1. GoodDS \subseteq DS
    BY DEF GoodDS
  <2>2. states \in Seq(DS) /\ ds \in DS
    BY <2>1
  <2>. QED
    BY <2>2 DEF TypeOK, IInv, StackInv, MatchInv
<1>. QED
  BY <1>1, Inductive, PTL

(* Whatever matches, lock steals and delays write to pause_ats, a          *)
(* goroutine is never paused or delayed at a node of another one, in any   *)
(* graph.                                                                  *)
THEOREM PausedAtOwnNode == Spec => []OwnPause
<1>1. IInv => OwnPause
  BY InvFacts DEF OwnPause, AllDS, GoodDS
<1>. QED
  BY <1>1, Inductive, PTL

(* matchChannel, matchWGDone and matchAllConsumer only pair nodes of       *)
(* different goroutines that use a common object, for any graph.           *)
THEOREM PairsAreReal == Spec => []PairsAgree
<1>1. IInv => PairsAgree
  BY InvFacts DEF PairsAgree, AllDS, GoodDS
<1>. QED
  BY <1>1, Inductive, PTL

(* A turn resumes a goroutine at a node of its own.                        *)
LEMMA TurnPanics ==
  ASSUME IInv, NEW t \in Tid, Turn(t) \/ QuietTurn(t)
  PROVE  pc' # "crashed"
<1>1. ASSUME NEW d \in GoodDS, NEW last, WalkOrSkip(d, t, last), pc = "sched"
      PROVE  pc' # "crashed"
  <2>1. canWalkFrom(d, t) => gid(d.pause_ats[t]) = t
    BY <1>1 DEF canWalkFrom, GoodDS, OwnDS
  <2>. QED
    BY <1>1, <2>1 DEF WalkOrSkip
<1>2. CASE Turn(t)
  BY <1>1, <1>2, InvFacts DEF Turn
<1>3. CASE QuietTurn(t)
  <2>1. PICK S \in LastVisits(ds) : WalkOrSkip(prepareLastVisit(ds, S), t, TRUE)
    BY <1>3 DEF QuietTurn
  <2>2. prepareLastVisit(ds, S) \in GoodDS
    BY InvFacts, LastVisitsOwn, PrepareGood
  <2>. QED
    BY <1>1, <1>3, <2>1, <2>2 DEF QuietTurn
<1>. QED
  BY <1>2, <1>3

(* The panic of exploreRandomState, "cur_node.gid = %d but tid = %d",      *)
(* cannot happen in any graph: no turn, quiet or not, resumes a goroutine  *)
(* at a node of another one.                                               *)
THEOREM TurnsNeverPanic == Spec => NoTurnPanics
<1>1. IInv /\ [Next]_vars => [\A t \in Tid : Turn(t) \/ QuietTurn(t) => pc' # "crashed"]_vars
  BY TurnPanics
<1>. QED
  BY <1>1, Inductive, PTL DEF Spec, NoTurnPanics

=============================================================================

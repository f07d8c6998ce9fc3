------------------------ MODULE DetectionProperties ------------------------
(***************************************************************************)
(* What the exploration of interleavings promises.                         *)
(***************************************************************************)
EXTENDS Detection

(* The state being explored and the ones still in the work list.           *)
AllDS == {ds} \cup {states[i] : i \in DOMAIN states}

(* The walk has gone on after node n.                                      *)
Passed(d, n) == \E i \in DOMAIN kids(n) : d.visited[kids(n)[i]] # Absent

(* The panic of exploreRandomState, "cur_node.gid = %d but tid = %d", and  *)
(* the mix-up it guards against: a goroutine is only ever paused at, or    *)
(* delayed at, a node of its own, whatever matching, lock stealing or      *)
(* delaying moved it there.                                                *)
OwnDS(d) ==
  \A t \in Tid :
    /\ d.pause_ats[t] \in Node => gid(d.pause_ats[t]) = t
    /\ d.visit_last[t] # 0 => gid(d.visit_last[t]) = t
OwnPause == \A d \in AllDS : OwnDS(d)

(* matchChannel, matchWGDone, matchAllConsumer: a consumer is matched with *)
(* a producer of another goroutine, on an object both may use: no          *)
(* goroutine synchronises with itself.                                     *)
ConsumerOf(c, p) == \E i \in DOMAIN pts(p) : InSeq(c, consumers(pts(p)[i]))
Matches(c, p) == gid(c) # gid(p) /\ ConsumerOf(c, p)
AgreeDS(d) == \A c \in Node : d.pairs[c] # Absent => Matches(c, d.pairs[c])
PairsAgree == \A d \in AllDS : AgreeDS(d)

(* detectionState.pairs: "any producer and consumer can only pair ONCE     *)
(* unless from the pair-all producers".  matchChannel, matchUnlock and     *)
(* matchSignal pair a producer once over all its objects; matchWGDone does *)
(* so once for each of them, so that a Done that may be on several         *)
(* waitgroups is left out.                                                 *)
PairAll == {"NClose", "NBroadcast", "NCancel"}
Single(p) ==
  /\ typId(p) \notin PairAll
  /\ typId(p) \in {"NWGDone", "NExit"} => Len(pts(p)) <= 1
SingleDS(d) ==
  \A c1, c2 \in Node :
    d.pairs[c1] # Absent /\ d.pairs[c1] = d.pairs[c2] /\ Single(d.pairs[c1]) => c1 = c2
PairsOnceEach == \A d \in AllDS : SingleDS(d)

(* A receive, wait or ctx.Done() is left only if a producer that was       *)
(* itself reached had been matched with it.                                *)
Consumed(d, c) ==
  /\ paired(d, c)
  /\ LET p == d.pairs[c]
     IN  d.visited[p] = 1 \/ (isCase(p) /\ d.visited[caseSel(p)] # Absent)
ConsumeAfterProduce ==
  \A d \in AllDS : \A c \in Node :
    /\ typId(c) \in {"NChannel", "NCtxDone", "NCONDWait", "NWGWait"}
    /\ ~g.id2node[c].isSender
    /\ Passed(d, c)
    => Consumed(d, c)

(* matchChannel: "whether found_consumer or not, wait until consumer       *)
(* consumes it": the goroutine of a send goes on only after the receiver   *)
(* reached the receive.                                                    *)
SendWaits ==
  \A d \in AllDS : \A p \in Node :
    /\ typId(p) = "NChannel" /\ g.id2node[p].isSender
    /\ Passed(d, p)
    => \E c \in Node : d.pairs[c] = p /\ d.visited[c] # Absent

(* hip, of which getRandomTID draws and in which canHIP looks for partners, *)
(* holds a goroutine once, and only one that was started and has not       *)
(* reached its exit: nothing ended is resumed, matched or ended again.     *)
HipSoundDS(d) ==
  /\ \A i, j \in DOMAIN d.hip : d.hip[i] = d.hip[j] => i = j
  /\ \A t \in Tid : isInHIP(d, t) => d.visited[g.roots[t]] = 1 /\ d.pause_ats[t] # Ended
HipSound == \A d \in AllDS : HipSoundDS(d)

(* Nothing that runs is forgotten: a goroutine that was started and has    *)
(* not ended is in hip, and between two turns it is paused somewhere: at a *)
(* node, where it can be resumed or reported, or in a loop without exit.   *)
NoneLost ==
  /\ \A d \in AllDS : \A t \in Tid :
       d.visited[g.roots[t]] = 1 /\ d.pause_ats[t] # Ended => isInHIP(d, t)
  /\ pc = "sched" => \A t \in Tid : isInHIP(ds, t) => ds.pause_ats[t] # Unset

(* panic("X") of NExit, the panic of exploreRandomState and the nil        *)
(* dereference in matchChannel are unreachable.                            *)
NoCrash == pc # "crashed"

(* Of the three only the last can happen, in the loop over the consumers   *)
(* of a select case that sends: an exit is reached once per goroutine,     *)
(* while the goroutine is in hip.                                          *)
OnlyNilPanics ==
  [][pc' = "crashed" => pc = "crashed" \/ (pc = "match" /\ m.mode = "casesend")]_vars

(* exploreRandomState: a turn never resumes a goroutine at a node of       *)
(* another one, where the code panics.                                     *)
NoTurnPanics ==
  [][\A t \in Tid : Turn(t) \/ QuietTurn(t) => pc' # "crashed"]_vars

(* matchWGDone: "all producers (NEXITs) have to complete, check first":    *)
(* wg.Wait is left only after every goroutine that counts the waitgroup    *)
(* down has called Done or ended.  The check is there, but its result is   *)
(* used only if DEBUG is set: the wait is left after the first Done.       *)
ProducersComplete(d, o) ==
  \A i \in DOMAIN producers(o) :
    LET t == gid(producers(o)[i])
    IN  \/ d.pause_ats[t] = Ended
        \/ g.tid2end[t] # NoNode /\ d.visited[g.tid2end[t]] = 1
WaitForAll ==
  \A d \in AllDS : \A n \in Node : typId(n) = "NWGWait" /\ Passed(d, n) =>
    \A i \in DOMAIN pts(n) : ProducersComplete(d, pts(n)[i])

(* NLock / NRLock: a goroutine inside a critical section holds the lock;   *)
(* two goroutines are never both inside one.                               *)
Inside(d, n) ==
  /\ typId(n) = "NLock" /\ Passed(d, n)
  /\ \A u \in Node : /\ typId(u) = "NUnlock" /\ gid(u) = gid(n)
                     /\ \E i \in DOMAIN pts(u) : InSeq(pts(u)[i], pts(n))
                     => d.visited[u] = Absent
Exclusion ==
  \A d \in AllDS : \A n1, n2 \in Node :
    Inside(d, n1) /\ Inside(d, n2) /\ gid(n1) # gid(n2)
      => \A i \in DOMAIN pts(n1) : ~InSeq(pts(n1)[i], pts(n2))

(* NUnlock: "we are no longer holding this lock, delete it from the        *)
(* current lockset": once the walk is past an unlock, its goroutine holds  *)
(* none of the objects through an earlier lock.                            *)
Kept(d, n) ==
  \E i \in DOMAIN pts(n) : LET h == d.lockset[pts(n)[i]]
                           IN  h # Absent /\ gid(h) = gid(n) /\ h < n
UnlockReleases ==
  \A d \in AllDS : \A n \in Node :
    typId(n) = "NUnlock" /\ Passed(d, n) => ~Kept(d, n)

(* detectionState.pairs, over time: while a state is explored a consumer   *)
(* is never given a second producer and never loses its own, whatever      *)
(* later sends, closes, broadcasts and dones reach the same object.        *)
PairsStable ==
  [][pc # "pop" => \A c \in DOMAIN ds.pairs :
       ds.pairs[c] # Absent => ds'.pairs[c] = ds.pairs[c]]_vars

-----------------------------------------------------------------------------
(* The inductive invariant behind OwnPause and PairsAgree: besides the     *)
(* states, the matching loop only ever looks at consumers of the objects   *)
(* of its producer, whose goroutine is the one being walked; a send or     *)
(* signal that found a consumer has chosen one; a loop over kids or cases  *)
(* has a frame.                                                            *)
GoodDS == {d \in DS : OwnDS(d) /\ AgreeDS(d)}

MatchInv(k) ==
  /\ k \in Match
  /\ gid(k.producer) = gid(k.at)
  /\ \A i \in DOMAIN k.objs : InSeq(k.objs[i], pts(k.producer))
  /\ \A i \in DOMAIN k.cons : ConsumerOf(k.cons[i], k.producer)
  /\ \A c \in k.rest : ConsumerOf(c, k.producer)
  /\ k.ds_consumer # NoNode => Matches(k.ds_consumer, k.producer)
  /\ k.mode \in {"send", "signal"} /\ k.found => k.ds_consumer # NoNode

StackInv(p, st, k) ==
  /\ st \in Seq(Frame)
  /\ p = "step" => st # <<>>
  /\ p = "match" /\ k.mode = "casesend" => st # <<>>

Inv(sts, res, errs, d, p, n, st, k, t) ==
  /\ sts \in Seq(GoodDS)
  /\ res \in Seq(OutcomeSet)
  /\ errs \in SUBSET (SUBSET Node)
  /\ d \in GoodDS
  /\ p \in PC
  /\ n \in Node
  /\ StackInv(p, st, k)
  /\ MatchInv(k)
  /\ t \in Tid

IInv == g \in RFGs /\ Inv(states, results, berrs, ds, pc, cur, stack, m, tid)

-----------------------------------------------------------------------------
(* The inductive invariant behind PairsOnceEach and PairsStable.           *)

LockTypes == {"NLock", "NRLock"}
UnlockTypes == {"NUnlock", "NRUnlock"}

Used(d, p) == \E c \in Node : d.pairs[c] = p

(* A used producer is not matched again: it was visited, a case as part of *)
(* its select, and neither a delayed signal nor a paused unlock.           *)
Idle(d, p) ==
  /\ typId(p) = "NSignal" => d.visit_last[gid(p)] # p
  /\ typId(p) \in UnlockTypes => d.pause_ats[gid(p)] # p
Spent(d, p) ==
  Idle(d, p) /\ d.visited[IF isCase(p) THEN caseSel(p) ELSE p] # Absent

OnceDS(d) ==
  /\ SingleDS(d)
  /\ \A p \in Node : Used(d, p) /\ Single(p) => Spent(d, p)
  /\ \A t \in Tid : d.visit_last[t] # 0 =>
       typId(d.visit_last[t]) = "NSignal" /\ d.visited[d.visit_last[t]] # Absent
  /\ \A t \in Tid : d.pause_ats[t] \in Node /\ typId(d.pause_ats[t]) \in UnlockTypes =>
       d.visited[d.pause_ats[t]] # Absent
  /\ \A o \in Obj : /\ d.lockset[o] # Absent => typId(d.lockset[o]) \in LockTypes
                    /\ d.rlockset[o] # Absent => typId(d.rlockset[o]) \in LockTypes

(* The nodes that visitNode handles again after a pause.  A producer among *)
(* them is not used when it does.                                          *)
AgainTypes == LockTypes \cup UnlockTypes \cup CaseTypes \cup {"NWGWait", "NSignal"}
VisitOnce(p, d, n) ==
  p = "visit" => /\ typId(n) \in AgainTypes \/ d.visited[n] = Absent
                 /\ typId(n) \in UnlockTypes \cup {"NSignal"} =>
                      ~Used(d, n) /\ Idle(d, n)

(* A producer that is being matched was not matched before, and the        *)
(* consumer chosen for it is still free.                                   *)
ModeTypes ==
  [send |-> {"NChannel"}, casesend |-> CaseTypes, wgdone |-> {"NWGDone"},
   exit |-> {"NExit"}, unlock |-> UnlockTypes, signal |-> {"NSignal"}, all |-> PairAll]
MatchOnce(p, d, st, k) ==
  p = "match" =>
    /\ k.mode \in DOMAIN ModeTypes /\ typId(k.producer) \in ModeTypes[k.mode]
    /\ k.mode # "casesend" => k.at = k.producer
    /\ k.mode = "all" => k.ds_consumer = NoNode
    /\ Single(k.producer) => ~Used(d, k.producer) /\ Spent(d, k.producer)
    /\ k.ds_consumer # NoNode => ~paired(d, k.ds_consumer)
    /\ k.mode \in WGModes /\ Single(k.producer) =>
         /\ Len(k.objs) <= 1
         /\ k.objs # <<>> => k.cons = <<>> /\ k.rest = {} /\ k.ds_consumer = NoNode
    /\ k.mode = "casesend" =>
         LET f == Head(st)
         IN  /\ f.kind = "cases" /\ f.i \in DOMAIN g.id2node[f.node].cases
             /\ k.producer = g.id2node[f.node].cases[f.i]

(* A select in hand was visited, is in hand once, and its sends from the   *)
(* case in hand on are not used.                                           *)
FrameOnce(d, f) ==
  f.kind = "cases" =>
    /\ typId(f.node) = "NSelect" /\ d.visited[f.node] # Absent
    /\ \A j \in DOMAIN g.id2node[f.node].cases :
         LET c == g.id2node[f.node].cases[j]
         IN  j >= f.i /\ c # NoNode => ~Used(d, c)
FramesOnce(d, st) ==
  /\ \A k \in DOMAIN st : FrameOnce(d, st[k])
  /\ \A k, l \in DOMAIN st :
       st[k].kind = "cases" /\ st[l].kind = "cases" /\ st[k].node = st[l].node => k = l

Once(sts, d, p, n, st, k) ==
  /\ \A i \in DOMAIN sts : OnceDS(sts[i])
  /\ OnceDS(d)
  /\ VisitOnce(p, d, n)
  /\ MatchOnce(p, d, st, k)
  /\ FramesOnce(d, st)
  /\ p \in {"pop", "sched"} => st = <<>>

OnceInv == IInv /\ Once(states, ds, pc, cur, stack, m)

-----------------------------------------------------------------------------
(* The inductive invariant behind HipSound and OnlyNilPanics.              *)

(* The goroutine of n can reach its exit: it is in hip, or it has been     *)
(* there.                                                                  *)
MayEnd(d, n) ==
  \/ isInHIP(d, gid(n))
  \/ \E e \in Node : typId(e) = "NExit" /\ gid(e) = gid(n) /\ d.visited[e] # Absent

(* visit() stays in the goroutine it was called for, and handles no go     *)
(* node.                                                                   *)
WalkPC == {"visit", "visitSkip", "step", "match", "returnTrue", "returnFalse"}
WalkHip(d, p, n, st, k) ==
  /\ p \in WalkPC => MayEnd(d, n) /\ \A i \in DOMAIN st : gid(st[i].node) = gid(n)
  /\ p = "visit" => typId(n) # "NGoroutine"
  /\ p = "match" => gid(k.at) = gid(n)

Hip(sts, d, p, n, st, k) ==
  /\ \A i \in DOMAIN sts : HipSoundDS(sts[i]) /\ MayEnd(sts[i], sts[i].start_node_id)
  /\ HipSoundDS(d)
  /\ WalkHip(d, p, n, st, k)

HipInv == OnceInv /\ Hip(states, ds, pc, cur, stack, m)

=============================================================================

------------------------------ MODULE FlowProofs ------------------------------
(***************************************************************************)
(* Proofs about the complete-flow checker, for every function.             *)
(***************************************************************************)
EXTENDS FlowProperties, FiniteSetTheorems, SequenceTheorems, TLAPS

-----------------------------------------------------------------------------
(* Sequences. *)

LEMMA UpToTwo == \A n \in Nat : n <= 2 => n = 0 \/ n = 1 \/ n = 2
  OBVIOUS

\* Taking an entry out of a slice.
LEMMA WithoutEntry ==
  ASSUME NEW T, NEW s \in Seq(T), NEW n \in DOMAIN s
  PROVE  Without(s, n) \in Seq(T) /\ Len(Without(s, n)) = Len(s) - 1
<1>1. n \in 1 .. Len(s) /\ Len(s) \in Nat
  OBVIOUS
<1>2. SubSeq(s, 1, n - 1) \in Seq(T) /\ Len(SubSeq(s, 1, n - 1)) = n - 1
  BY <1>1
<1>3. SubSeq(s, n + 1, Len(s)) \in Seq(T) /\ Len(SubSeq(s, n + 1, Len(s))) = Len(s) - n
  BY <1>1
<1>. QED
  <2>. DEFINE l == SubSeq(s, 1, n - 1)
              r == SubSeq(s, n + 1, Len(s))
  <2>1. l \in Seq(T) /\ r \in Seq(T) /\ Len(l) = n - 1 /\ Len(r) = Len(s) - n
    BY <1>2, <1>3
  <2>. HIDE DEF l, r
  <2>2. l \o r \in Seq(T) /\ Len(l \o r) = Len(l) + Len(r)
    BY <2>1, ConcatProperties
  <2>3. Without(s, n) = l \o r
    BY DEF Without, l, r
  <2>. QED
    BY <2>1, <2>2, <2>3, <1>1, SMTT(30)

\* The blocks of a function are finitely many numbers.
LEMMA BlocksFinite ==
  ASSUME IsFunction(bbs)
  PROVE  Blocks = 1 .. Len(bbs) /\ Len(bbs) \in Nat \ {0} /\ IsFiniteSet(Blocks)
<1>1. Blocks = 1 .. Len(bbs) /\ Len(bbs) \in Nat \ {0}
  BY DEF IsFunction, Blocks
<1>2. IsFiniteSet(1 .. Len(bbs))
  BY <1>1, FS_Interval
<1>. QED
  BY <1>1, <1>2

LEMMA BlockType ==
  ASSUME IsFunction(bbs), NEW b \in Blocks
  PROVE  /\ Succs(b) \subseteq Blocks
         /\ Len(bbs[b].succs) \in Nat /\ Len(bbs[b].succs) <= 2
         /\ bbs[b].succs \in Seq(Nat)
         /\ bbs[b].exit \in {"jump", "return", "panic"}
         /\ bbs[b].recover \in BOOLEAN
         /\ bbs[b].recover => bbs[b].exit = "return" /\ bbs[b].instrs = <<>>
         /\ bbs[b].instrs \in Seq(Instr)
<1>1. bbs[b] \in Block
  BY DEF IsFunction, Blocks
<1>2. /\ bbs[b].succs \in Seq(Nat)
      /\ bbs[b].exit \in {"jump", "return", "panic"}
      /\ bbs[b].recover \in BOOLEAN
      /\ bbs[b].instrs \in Seq(Instr)
  BY <1>1 DEF Block
<1>3. Len(bbs[b].succs) \in Nat /\ Len(bbs[b].succs) <= 2
  <2>1. Len(bbs[b].succs) <= 2
    BY DEF IsFunction, Blocks
  <2>2. Len(bbs[b].succs) \in Nat
    BY <1>2, LenProperties
  <2>. QED
    BY <2>1, <2>2
<1>4. Succs(b) \subseteq Blocks
  BY DEF IsFunction, Blocks, Succs
<1>5. bbs[b].recover => bbs[b].exit = "return" /\ bbs[b].instrs = <<>>
  BY DEF IsFunction, Blocks
<1>. QED
  BY <1>2, <1>3, <1>4, <1>5

-----------------------------------------------------------------------------
LEMMA FlowInit == Init => FlowInv
<1>. SUFFICES ASSUME Init PROVE FlowInv
  OBVIOUS
<1>1. IsFunction(bbs)
  BY FunctionsAssumption DEF Init
<1>2. FlowType
  BY <1>1 DEF Init, FlowType
<1>3. FlowPhase
  BY <1>1, BlocksFinite DEF Init, FlowPhase
<1>. QED
  BY <1>2, <1>3 DEF Init, FlowInv, InRange, SearchInv, DeferVerdict, DoneVerdict, Searched

\* Nothing has been searched from yet.
LEMMA MarkingSafe ==
  ASSUME FlowInv, pc = "mark", pc' \in {"mark", "next"}, k' = k, UNCHANGED <<bbs, searchVars, ret>>
  PROVE  SearchInv' /\ DeferVerdict' /\ DoneVerdict'
<1>1. k' = 0
  BY DEF FlowInv, FlowPhase
<1>2. \A n : ~Searched(n)'
  BY <1>1 DEF Searched
<1>. QED
  BY <1>2 DEF SearchInv, DeferVerdict, DoneVerdict

LEMMA MarkStep == FlowInv /\ Mark => FlowInv'
<1>. SUFFICES ASSUME FlowInv, Mark PROVE FlowInv'
  OBVIOUS
<1>. DEFINE b == at[1]
            i == bbs[b].instrs[at[2]]
<1>1. b \in Blocks /\ at[2] \in DOMAIN bbs[b].instrs /\ pc = "mark"
  BY DEF Mark
<1>0. bbs[b].instrs \in Seq(Instr)
  BY <1>1, BlockType DEF FlowInv, FlowType
<1>2. i \in Instr
  BY <1>0, <1>1
<1>3. Checkpoint(i) \in Checkpoints
  <2>1. at[2] \in Nat
    BY DEF FlowInv, FlowType
  <2>. QED
    BY <1>1, <1>2, <2>1 DEF Checkpoint, Checkpoints, Instr
<1>4. /\ checkpoints' \in Seq(Checkpoints)
      /\ pts2lock' \subseteq (SUBSET Nat) \X Nat
      /\ InRange'
  <2>. DEFINE cps == Append(checkpoints, Checkpoint(i))
  <2>0. /\ checkpoints \in Seq(Checkpoints) /\ Len(checkpoints) \in Nat
        /\ \A p \in pts2lock : p[2] \in 1 .. Len(checkpoints)
        /\ pts2lock \subseteq (SUBSET Nat) \X Nat
    BY DEF FlowInv, FlowType, InRange
  <2>1. cps \in Seq(Checkpoints) /\ Len(cps) = Len(checkpoints) + 1 /\ DOMAIN cps = 1 .. Len(cps)
    BY <1>3, <2>0
  <2>2. CASE i.op = "Lock"
    <3>1. markLock(i)
      BY <2>2 DEF Mark
    <3>2. checkpoints' = cps
      BY <3>1 DEF markLock
    <3>3. \A q \in pts2lock' : q \in pts2lock \/ q = <<i.pts, Len(checkpoints) + 1>>
      BY <3>1 DEF markLock
    <3>4. i.pts \in SUBSET Nat
      BY <1>2 DEF Instr
    <3>5. ASSUME NEW q \in pts2lock'
          PROVE  q \in (SUBSET Nat) \X Nat /\ q[2] \in DOMAIN cps
      BY <3>3, <3>4, <2>0, <2>1
    <3>. HIDE DEF cps
    <3>. QED
      BY <3>2, <3>5, <2>1 DEF InRange
  <2>3. CASE i.op = "defer Unlock"
    <3>1. markUnlock(i)
      BY <2>3 DEF Mark
    <3>2. ASSUME NEW p \in pts2lock, checkpoints' = Without(cps, p[2])
          PROVE  checkpoints' \in Seq(Checkpoints) /\ Len(checkpoints') = Len(checkpoints)
      <4>1. p[2] \in DOMAIN cps
        BY <2>0, <2>1
      <4>. HIDE DEF cps
      <4>. QED
        BY <4>1, <3>2, <2>0, <2>1, WithoutEntry
    <3>3. checkpoints' \in Seq(Checkpoints) /\ Len(checkpoints') >= Len(checkpoints)
      BY <3>1, <3>2, <2>0, <2>1 DEF markUnlock
    <3>. QED
      BY <3>1, <3>3, <2>0 DEF markUnlock, InRange
  <2>4. CASE i.op = "Unlock"
    BY <2>4, <2>0 DEF Mark, InRange
  <2>5. CASE i.op \notin {"Lock", "defer Unlock", "Unlock"}
    <3>1. markCall(i)
      BY <2>5 DEF Mark
    <3>. QED
      BY <3>1, <2>0, <2>1 DEF markCall, InRange
  <2>. QED
    BY <2>2, <2>3, <2>4, <2>5
<1>5. FlowType'
  <2>1. k = 0 /\ at' \in Nat \X Nat
    <3>1. at' = <<b, at[2] + 1>>
      BY DEF Mark
    <3>2. at[1] \in Nat /\ at[2] \in Nat
      BY DEF FlowInv, FlowType
    <3>. QED
      BY <1>1, <3>1, <3>2 DEF FlowInv, FlowPhase
  <2>2. UNCHANGED <<bbs, pc, k, queue, visited, ret>>
    BY DEF Mark, searchVars
  <2>. QED
    BY <2>1, <2>2, <1>4 DEF FlowInv, FlowType, Checkpoints, Blocks
<1>6. FlowPhase'
  BY <1>1, BlockType DEF Mark, FlowInv, FlowType, FlowPhase, Blocks
<1>7. SearchInv' /\ DeferVerdict' /\ DoneVerdict'
  BY <1>1, MarkingSafe DEF Mark
<1>. QED
  BY <1>4, <1>5, <1>6, <1>7 DEF FlowInv

LEMMA MarkOutStep == FlowInv /\ MarkOut => FlowInv'
<1>. SUFFICES ASSUME FlowInv, MarkOut PROVE FlowInv'
  OBVIOUS
<1>1. at[1] \in Blocks /\ pc = "mark" /\ pc' \in {"mark", "next"}
  BY DEF MarkOut
<1>2. FlowType'
  BY <1>1, BlocksFinite DEF MarkOut, FlowInv, FlowType, FlowPhase, searchVars, Checkpoints, Blocks
<1>3. FlowPhase'
  BY <1>1, BlocksFinite DEF MarkOut, FlowInv, FlowType, FlowPhase, Blocks
<1>4. SearchInv' /\ DeferVerdict' /\ DoneVerdict'
  BY <1>1, MarkingSafe DEF MarkOut
<1>. QED
  BY <1>2, <1>3, <1>4 DEF FlowInv, MarkOut, InRange

-----------------------------------------------------------------------------
(* The verdict of a search. *)

\* What the search from checkpoint c is to find out.
DeferFails(c) ==
  ~Unlocks(c, c.start) /\ \E o \in Blocks : Ends(o, "panic") /\ Reaches(c.start, o)
DoneFails(c) ==
  \E o \in Blocks : bbs[o].exit # "jump" /\ ~(Ends(o, "return") /\ Reaches(c.start, o))

LEMMA CheckpointType ==
  ASSUME FlowInv, pc = "visit"
  PROVE  k \in DOMAIN checkpoints /\ cp \in Checkpoints /\ cp.start \in Blocks
<1>1. k \in 1 .. Len(checkpoints) /\ checkpoints \in Seq(Checkpoints)
  BY DEF FlowInv, FlowType, FlowPhase
<1>2. checkpoints[k] \in Checkpoints
  BY <1>1
<1>. QED
  BY <1>1, <1>2 DEF cp, Checkpoints

\* A search that ends with the right verdict preserves the invariant.
LEMMA VerdictStep ==
  ASSUME FlowInv, pc = "visit", pc' = "next", UNCHANGED <<bbs, at, markVars, k, searchVars>>,
         NEW err \in BOOLEAN,
         ~err => ret' = ret,
         err => \E b \in Blocks : \E why \in Reasons :
                  ret' = Append(ret, [cp |-> k, why |-> why, block |-> b]),
         is_defer => (err <=> DeferFails(cp)),
         cp.op \in {"Done", "Broadcast"} => (err <=> DoneFails(cp))
  PROVE  FlowInv'
<1>1. /\ ret \in Seq([cp : Nat, why : Reasons, block : Blocks])
      /\ k \in Nat
      /\ \A e \in DOMAIN ret : ret[e].cp \in 1 .. k /\ ret[e].cp # k
  BY DEF FlowInv, FlowType, FlowPhase
<1>2. /\ ret' \in Seq([cp : Nat, why : Reasons, block : Blocks])
      /\ \A n \in Nat : Reported(n)' <=> (Reported(n) \/ (err /\ n = k))
      /\ \A e \in DOMAIN ret' : ret'[e].cp \in 1 .. k
  <2>1. CASE ~err
    BY <2>1, <1>1 DEF Reported
  <2>2. CASE err
    <3>1. PICK b \in Blocks : \E why \in Reasons :
            ret' = Append(ret, [cp |-> k, why |-> why, block |-> b])
      BY <2>2
    <3>2. PICK why \in Reasons : ret' = Append(ret, [cp |-> k, why |-> why, block |-> b])
      BY <3>1
    <3>3. [cp |-> k, why |-> why, block |-> b] \in [cp : Nat, why : Reasons, block : Blocks]
      BY <1>1
    <3>. DEFINE x == [cp |-> k, why |-> why, block |-> b]
    <3>4. x.cp = k
      OBVIOUS
    <3>. HIDE DEF x
    <3>5. /\ ret' \in Seq([cp : Nat, why : Reasons, block : Blocks])
          /\ Len(ret) \in Nat
          /\ DOMAIN ret = 1 .. Len(ret)
          /\ DOMAIN ret' = 1 .. Len(ret) + 1
          /\ \A e \in 1 .. Len(ret) : ret'[e] = ret[e]
          /\ ret'[Len(ret) + 1] = x
      BY <3>2, <3>3, <1>1 DEF x
    <3>6. \A e \in DOMAIN ret' : ret'[e].cp \in 1 .. k
      BY <3>4, <3>5, <1>1, CheckpointType, SMTT(30) DEF FlowInv, FlowPhase
    <3>7. \A n \in Nat : Reported(n)' <=> (Reported(n) \/ n = k)
      <4>1. ASSUME NEW n \in Nat, Reported(n)' PROVE Reported(n) \/ n = k
        BY <4>1, <3>4, <3>5 DEF Reported
      <4>2. ASSUME NEW n \in Nat, Reported(n) PROVE Reported(n)'
        BY <4>2, <3>4, <3>5 DEF Reported
      <4>3. Reported(k)'
        <5>1. Len(ret) + 1 \in DOMAIN ret' /\ ret'[Len(ret) + 1].cp = k
          BY <3>4, <3>5
        <5>. QED
          BY <5>1 DEF Reported
      <4>. QED
        BY <4>1, <4>2, <4>3
    <3>. QED
      BY <2>2, <3>5, <3>6, <3>7
  <2>. QED
    BY <2>1, <2>2
<1>3. ~Reported(k)
  BY <1>1 DEF Reported
<1>4. \A n \in DOMAIN checkpoints :
        /\ Searched(n)' <=> Searched(n) \/ n = k
        /\ n \in Nat
  BY <1>1, CheckpointType DEF Searched, markVars, FlowInv, FlowType
<1>5. /\ checkpoints' = checkpoints
      /\ \A n \in DOMAIN checkpoints : /\ DeferFails(checkpoints[n])' <=> DeferFails(checkpoints[n])
                                       /\ DoneFails(checkpoints[n])' <=> DoneFails(checkpoints[n])
  BY DEF markVars, DeferFails, DoneFails, Unlocks, Ends, Reaches, Closed, Succs, Blocks
<1>6. DeferVerdict'
  <2>. SUFFICES ASSUME NEW n \in DOMAIN checkpoints, Searched(n)',
                       checkpoints[n].op \in {"defer Unlock", "defer Done"}
                PROVE  Reported(n)' <=> DeferFails(checkpoints[n])'
    BY <1>5 DEF DeferVerdict, DeferFails
  <2>1. CASE n = k
    BY <2>1, <1>2, <1>3, <1>4, <1>5 DEF cp, is_defer
  <2>2. CASE n # k
    BY <2>2, <1>2, <1>4, <1>5 DEF FlowInv, DeferVerdict, DeferFails
  <2>. QED
    BY <2>1, <2>2
<1>7. DoneVerdict'
  <2>. SUFFICES ASSUME NEW n \in DOMAIN checkpoints, Searched(n)',
                       checkpoints[n].op \in {"Done", "Broadcast"}
                PROVE  Reported(n)' <=> DoneFails(checkpoints[n])'
    BY <1>5 DEF DoneVerdict, DoneFails
  <2>1. CASE n = k
    BY <2>1, <1>2, <1>3, <1>4, <1>5 DEF cp
  <2>2. CASE n # k
    BY <2>2, <1>2, <1>4, <1>5 DEF FlowInv, DoneVerdict, DoneFails
  <2>. QED
    BY <2>1, <2>2
<1>8. FlowType'
  BY <1>2 DEF FlowInv, FlowType, markVars, searchVars, Checkpoints, Blocks
<1>9. FlowPhase' /\ InRange' /\ SearchInv'
  BY <1>2, CheckpointType DEF FlowInv, FlowType, FlowPhase, InRange, SearchInv, markVars, Blocks
<1>. QED
  BY <1>6, <1>7, <1>8, <1>9 DEF FlowInv

\* The head of the queue.
LEMMA HeadVisited ==
  ASSUME FlowInv, pc = "visit", queue # <<>>
  PROVE  /\ Head(queue) \in Blocks /\ InQueue(Head(queue)) /\ Head(queue) \in visited
         /\ Tail(queue) \in Seq(Blocks)
         /\ \A x \in Blocks : InQueue(x) <=>
              x = Head(queue) \/ \E n \in DOMAIN Tail(queue) : Tail(queue)[n] = x
<1>1. queue \in Seq(Blocks)
  BY DEF FlowInv, FlowType
<1>2. /\ Head(queue) = queue[1] /\ 1 \in DOMAIN queue /\ Head(queue) \in Blocks
      /\ Tail(queue) \in Seq(Blocks) /\ Len(queue) \in Nat \ {0}
      /\ Len(Tail(queue)) = Len(queue) - 1
      /\ \A n \in 1 .. Len(queue) - 1 : Tail(queue)[n] = queue[n + 1]
  BY <1>1
<1>3. InQueue(Head(queue)) /\ Head(queue) \in visited
  BY <1>2 DEF InQueue, FlowInv, SearchInv
<1>4. ASSUME NEW x \in Blocks, InQueue(x), x # Head(queue)
      PROVE  \E n \in DOMAIN Tail(queue) : Tail(queue)[n] = x
  <2>1. PICK n \in 1 .. Len(queue) : queue[n] = x
    BY <1>1, <1>4 DEF InQueue
  <2>2. n - 1 \in 1 .. Len(queue) - 1 /\ Tail(queue)[n - 1] = x
    BY <2>1, <1>2, <1>4
  <2>3. DOMAIN Tail(queue) = 1 .. Len(queue) - 1
    BY <1>2, LenProperties
  <2>. QED
    BY <2>2, <2>3
<1>5. ASSUME NEW x \in Blocks, NEW n \in DOMAIN Tail(queue), Tail(queue)[n] = x
      PROVE  InQueue(x)
  <2>1. n + 1 \in DOMAIN queue /\ queue[n + 1] = x
    BY <1>1, <1>2, <1>5
  <2>. QED
    BY <2>1 DEF InQueue
<1>. QED
  BY <1>2, <1>3, <1>4, <1>5

\* The checkpoint's own block does not unlock what it has locked, once the
\* search has come past it.
LEMMA StartKeeps ==
  ASSUME FlowInv, pc = "visit", is_defer, queue # <<>> => ~Released(Head(queue))
  PROVE  ~Unlocks(cp, cp.start)
<1>1. cp.start \in Blocks /\ cp.start \in visited
  BY CheckpointType DEF FlowInv, SearchInv
<1>2. CASE InQueue(cp.start)
  <2>1. queue = <<cp.start>>
    BY <1>2 DEF FlowInv, SearchInv
  <2>2. ~Released(cp.start)
    BY <2>1
  <2>. QED
    BY <2>2 DEF Released, Matching, Unlocks
<1>3. CASE bbs[cp.start].recover
  <2>1. bbs[cp.start].instrs = <<>>
    BY <1>1, <1>3, BlockType DEF FlowInv, FlowType
  <2>. QED
    BY <2>1 DEF Unlocks
<1>4. CASE ~InQueue(cp.start) /\ ~bbs[cp.start].recover
  <2>1. ~Released(cp.start)
    BY <1>1, <1>4 DEF FlowInv, SearchInv
  <2>. QED
    BY <2>1 DEF Released, Matching, Unlocks
<1>. QED
  BY <1>2, <1>3, <1>4

LEMMA VisitLastStep == FlowInv /\ VisitLast => FlowInv'
<1>. SUFFICES ASSUME FlowInv, VisitLast PROVE FlowInv'
  OBVIOUS
<1>. DEFINE b == Head(queue)
<1>1. /\ pc = "visit" /\ queue # <<>> /\ ~bbs[b].recover
      /\ UNCHANGED <<bbs, at, markVars, k, searchVars>>
  BY DEF VisitLast
<1>2. /\ b \in Blocks /\ b \in visited
  BY <1>1, HeadVisited
<1>3. Reaches(cp.start, b)
  BY <1>1, <1>2 DEF Reaches, FlowInv, SearchInv
<1>4. CASE Released(b) /\ Complete
  <2>1. b = cp.start /\ Matching(b) # {} /\ pc' = "next" /\ ret' = ret
    BY <1>4 DEF Released, Complete
  <2>2. is_defer \/ lock_only
    BY <2>1 DEF Matching
  <2>3. Unlocks(cp, cp.start)
    BY <2>1 DEF Matching, Unlocks
  <2>4. cp.op \notin {"Done", "Broadcast"}
    BY <2>2 DEF is_defer, lock_only
  <2>5. ~DeferFails(cp)
    BY <2>3 DEF DeferFails
  <2>. QED
    BY <1>1, <2>1, <2>4, <2>5, VerdictStep
<1>5. CASE ~Released(b) /\ Panics(b) /\ Incomplete(b, "panic")
  <2>1. /\ pc' = "next" /\ ret' = Append(ret, [cp |-> k, why |-> "panic", block |-> b])
        /\ cp.op \notin {"Done", "Broadcast"}
        /\ Ends(b, "panic")
    BY <1>1, <1>5 DEF Panics, Incomplete, is_defer, lock_only, Ends
  <2>2. is_defer => DeferFails(cp)
    BY <1>1, <1>2, <1>3, <1>5, <2>1, StartKeeps DEF DeferFails
  <2>3. \E d \in Blocks : \E why \in Reasons :
          ret' = Append(ret, [cp |-> k, why |-> why, block |-> d])
    BY <1>2, <2>1 DEF Reasons
  <2>. QED
    BY <1>1, <2>1, <2>2, <2>3, VerdictStep
<1>6. CASE lock_only /\ \E why \in Reasons : Incomplete(b, why)
  <2>1. PICK why \in Reasons : Incomplete(b, why)
    BY <1>6
  <2>2. cp.op \notin {"Done", "Broadcast"} /\ ~is_defer
    BY <1>6 DEF lock_only, is_defer
  <2>3. pc' = "next" /\ \E d \in Blocks : \E w \in Reasons :
          ret' = Append(ret, [cp |-> k, why |-> w, block |-> d])
    BY <1>2, <2>1 DEF Incomplete
  <2>. QED
    BY <1>1, <2>2, <2>3, VerdictStep
<1>7. CASE Escapes(b) /\ Incomplete(b, "return")
  BY <1>6, <1>7 DEF Escapes, Reasons
<1>8. CASE Loops(b) /\ Incomplete(b, "loop")
  BY <1>6, <1>8 DEF Loops, Reasons
<1>. QED
  BY <1>4, <1>5, <1>7, <1>8 DEF VisitLast

\* An exhausted search has visited exactly what can be reached.
LEMMA Exhausted ==
  ASSUME FlowInv, pc = "visit", queue = <<>>
  PROVE  \A o \in Blocks : Reaches(cp.start, o) <=> o \in visited
<1>1. \A b \in Blocks : ~InQueue(b)
  BY DEF InQueue
<1>2. Closed(visited) /\ visited \in SUBSET Blocks /\ cp.start \in visited
  BY <1>1 DEF Closed, FlowInv, FlowType, SearchInv
<1>3. \A S \in SUBSET Blocks : (cp.start \in S /\ Closed(S)) => visited \subseteq S
  BY DEF FlowInv, SearchInv
<1>. QED
  BY <1>2, <1>3 DEF Reaches

LEMMA ConcludeStep == FlowInv /\ Conclude => FlowInv'
<1>. SUFFICES ASSUME FlowInv, Conclude PROVE FlowInv'
  OBVIOUS
<1>1. /\ pc = "visit" /\ queue = <<>> /\ UNCHANGED <<bbs, at, markVars, k, searchVars>>
      /\ pc' = "next"
  BY DEF Conclude, Complete, Incomplete
<1>2. \A o \in Blocks : Reaches(cp.start, o) <=> o \in visited
  BY <1>1, Exhausted
<1>3. \A b \in visited : ~InQueue(b)
  BY <1>1 DEF InQueue
<1>4. visited \subseteq Blocks
  BY DEF FlowInv, FlowType
<1>5. is_defer => Missed = {} /\ ~DeferFails(cp)
  <2>. SUFFICES ASSUME is_defer PROVE Missed = {} /\ ~DeferFails(cp)
    OBVIOUS
  <2>1. \A o \in visited : ~Ends(o, "panic")
    BY <1>1, <1>3 DEF FlowInv, SearchInv, Ends, Panics
  <2>. QED
    BY <2>1, <1>2 DEF Missed, DeferFails, is_defer, lock_only
<1>6. cp.op \in {"Done", "Broadcast"} => (Missed # {} <=> DoneFails(cp))
  <2>. SUFFICES ASSUME cp.op \in {"Done", "Broadcast"} PROVE Missed # {} <=> DoneFails(cp)
    OBVIOUS
  <2>1. outs = {b \in Blocks : bbs[b].exit # "jump"}
    BY <1>1, BlocksFinite DEF FlowInv, FlowType, FlowPhase
  <2>2. \A o \in Blocks : o \in reached <=> Ends(o, "return") /\ o \in visited
    BY <1>1, <1>3 DEF FlowInv, SearchInv, Ends
  <2>3. reached \subseteq outs
    <3>1. reached \subseteq {b \in visited : Ends(b, "return")}
      BY <1>1 DEF FlowInv, SearchInv
    <3>. QED
      BY <3>1, <2>1, <1>4 DEF Ends
  <2>4. IsFiniteSet(outs)
    BY <2>1, BlocksFinite, FS_Subset DEF FlowInv, FlowType
  <2>5. Cardinality(reached) = Cardinality(outs) => reached = outs
    BY <2>3, <2>4, FS_Subset
  <2>6. Missed = outs \ reached
    BY <2>5 DEF Missed, is_defer, lock_only
  <2>. QED
    BY <2>1, <2>2, <2>6, <1>2 DEF DoneFails
<1>7. CASE Missed = {} /\ Complete
  BY <1>1, <1>5, <1>6, <1>7, VerdictStep DEF Complete
<1>8. ASSUME NEW o \in Missed, Incomplete(o, "missed")
      PROVE  FlowInv'
  <2>1. o \in Blocks
    BY DEF Missed, FlowInv, FlowPhase
  <2>2. \E d \in Blocks : \E w \in Reasons :
          ret' = Append(ret, [cp |-> k, why |-> w, block |-> d])
    BY <2>1, <1>8 DEF Incomplete, Reasons
  <2>3. Missed # {}
    OBVIOUS
  <2>. QED
    BY <1>1, <1>5, <1>6, <2>2, <2>3, VerdictStep
<1>. QED
  BY <1>7, <1>8 DEF Conclude

-----------------------------------------------------------------------------
(* A step of the search. *)

Contains(q, x) == \E n \in DOMAIN q : q[n] = x

LEMMA EnqueueOne ==
  ASSUME NEW e, e.q \in Seq(Blocks), NEW s \in Blocks
  PROVE  /\ Enqueue(e, s).q \in Seq(Blocks)
         /\ Enqueue(e, s).seen = e.seen \cup {s}
         /\ \A x : Contains(Enqueue(e, s).q, x) <=>
                     Contains(e.q, x) \/ (x = s /\ s \notin e.seen)
<1>1. CASE s \in e.seen
  BY <1>1 DEF Enqueue
<1>2. CASE s \notin e.seen
  <2>1. Enqueue(e, s).q = Append(e.q, s) /\ Enqueue(e, s).seen = e.seen \cup {s}
    BY <1>2 DEF Enqueue
  <2>2. /\ Append(e.q, s) \in Seq(Blocks)
        /\ Len(e.q) \in Nat /\ DOMAIN e.q = 1 .. Len(e.q)
        /\ DOMAIN Append(e.q, s) = 1 .. Len(e.q) + 1
        /\ \A n \in 1 .. Len(e.q) : Append(e.q, s)[n] = e.q[n]
        /\ Append(e.q, s)[Len(e.q) + 1] = s
    BY AppendProperties, LenProperties
  <2>3. \A x : Contains(Append(e.q, s), x) <=> Contains(e.q, x) \/ x = s
    <3>1. ASSUME NEW x, Contains(Append(e.q, s), x) PROVE Contains(e.q, x) \/ x = s
      BY <3>1, <2>2 DEF Contains
    <3>2. ASSUME NEW x, Contains(e.q, x) PROVE Contains(Append(e.q, s), x)
      BY <3>2, <2>2 DEF Contains
    <3>3. Contains(Append(e.q, s), s)
      <4>1. Len(e.q) + 1 \in DOMAIN Append(e.q, s)
        BY <2>2
      <4>. QED
        BY <4>1, <2>2 DEF Contains
    <3>. QED
      BY <3>1, <3>2, <3>3
  <2>. QED
    BY <1>2, <2>1, <2>2, <2>3
<1>. QED
  BY <1>1, <1>2

LEMMA EnqueueAll ==
  ASSUME Tail(queue) \in Seq(Blocks), NEW succs \in Seq(Blocks),
         Len(succs) \in Nat, Len(succs) <= 2
  PROVE  /\ Enqueued(succs).q \in Seq(Blocks)
         /\ Enqueued(succs).seen = visited \cup {succs[n] : n \in DOMAIN succs}
         /\ \A x : Contains(Enqueued(succs).q, x) <=>
              Contains(Tail(queue), x) \/ ((\E n \in DOMAIN succs : succs[n] = x) /\ x \notin visited)
<1>. DEFINE e == [q |-> Tail(queue), seen |-> visited]
<1>1. e.q = Tail(queue) /\ e.seen = visited
  OBVIOUS
<1>. HIDE DEF e
<1>2. DOMAIN succs = 1 .. Len(succs)
  BY LenProperties
<1>3. CASE Len(succs) = 0
  <2>1. Enqueued(succs) = e
    BY <1>3 DEF Enqueued, e
  <2>2. DOMAIN succs = {}
    BY <1>2, <1>3
  <2>. QED
    BY <2>1, <2>2, <1>1
<1>4. CASE Len(succs) = 1
  <2>1. Enqueued(succs) = Enqueue(e, succs[1])
    BY <1>4 DEF Enqueued, e
  <2>2. DOMAIN succs = {1} /\ succs[1] \in Blocks
    <3>1. DOMAIN succs = {1}
      BY <1>4
    <3>2. 1 \in 1 .. Len(succs)
      BY <1>4
    <3>. QED
      BY <3>1, <3>2, ElementOfSeq
  <2>3. /\ Enqueue(e, succs[1]).q \in Seq(Blocks)
        /\ Enqueue(e, succs[1]).seen = e.seen \cup {succs[1]}
        /\ \A x : Contains(Enqueue(e, succs[1]).q, x) <=>
                    Contains(e.q, x) \/ (x = succs[1] /\ succs[1] \notin e.seen)
    BY <1>1, <2>2, EnqueueOne
  <2>. QED
    BY <2>1, <2>2, <2>3, <1>1
<1>5. CASE Len(succs) = 2
  <2>. DEFINE d == Enqueue(e, succs[1])
  <2>1. Enqueued(succs) = Enqueue(d, succs[2])
    BY <1>5 DEF Enqueued, e
  <2>2. DOMAIN succs = {1, 2} /\ succs[1] \in Blocks /\ succs[2] \in Blocks
    <3>1. DOMAIN succs = {1, 2}
      BY <1>5
    <3>2. 1 \in 1 .. Len(succs) /\ 2 \in 1 .. Len(succs)
      BY <1>5
    <3>. QED
      BY <3>1, <3>2, ElementOfSeq
  <2>3. /\ d.q \in Seq(Blocks)
        /\ d.seen = e.seen \cup {succs[1]}
        /\ \A x : Contains(d.q, x) <=>
                    Contains(e.q, x) \/ (x = succs[1] /\ succs[1] \notin e.seen)
    BY <1>1, <2>2, EnqueueOne
  <2>. HIDE DEF d
  <2>4. /\ Enqueue(d, succs[2]).q \in Seq(Blocks)
        /\ Enqueue(d, succs[2]).seen = d.seen \cup {succs[2]}
        /\ \A x : Contains(Enqueue(d, succs[2]).q, x) <=>
                    Contains(d.q, x) \/ (x = succs[2] /\ succs[2] \notin d.seen)
    <3>1. d.q \in Seq(Blocks) /\ succs[2] \in Blocks
      BY <2>2, <2>3
    <3>. QED
      BY ONLY <3>1, EnqueueOne
  <2>. QED
    BY <2>1, <2>2, <2>3, <2>4, <1>1
<1>. QED
  BY <1>3, <1>4, <1>5, UpToTwo

\* The verdicts stand while a search goes on.
LEMMA VerdictsKept ==
  ASSUME FlowInv, pc \in {"next", "visit", "end"}, pc' \in {"next", "visit", "end"},
         k' = k \/ (pc = "next" /\ pc' = "visit" /\ k' = k + 1),
         pc = "visit" => pc' = "visit",
         UNCHANGED <<bbs, at, markVars, ret>>
  PROVE  DeferVerdict' /\ DoneVerdict'
<1>1. k \in Nat /\ checkpoints' = checkpoints
  BY DEF FlowInv, FlowType, markVars
<1>2. \A n \in DOMAIN checkpoints : Searched(n)' => Searched(n)
  BY <1>1 DEF Searched, FlowInv, FlowType
<1>3. \A n \in DOMAIN checkpoints :
        /\ Reported(n)' <=> Reported(n)
        /\ DeferFails(checkpoints[n])' <=> DeferFails(checkpoints[n])
        /\ DoneFails(checkpoints[n])' <=> DoneFails(checkpoints[n])
  BY <1>1 DEF Reported, DeferFails, DoneFails, Unlocks, Ends, Reaches, Closed, Succs, Blocks
<1>4. DeferVerdict'
  BY <1>1, <1>2, <1>3 DEF FlowInv, DeferVerdict, DeferFails
<1>5. DoneVerdict'
  BY <1>1, <1>2, <1>3 DEF FlowInv, DoneVerdict, DoneFails
<1>. QED
  BY <1>4, <1>5

LEMMA TakeStep == FlowInv /\ Take => FlowInv'
<1>. SUFFICES ASSUME FlowInv, Take PROVE FlowInv'
  OBVIOUS
<1>1. pc = "next" /\ pc' \in {"visit", "end"} /\ UNCHANGED <<bbs, at, markVars, ret>>
  BY DEF Take
<1>2. /\ checkpoints' = checkpoints /\ pts2lock' = pts2lock /\ outs' = outs
      /\ k \in 0 .. Len(checkpoints) /\ Len(checkpoints) \in Nat
      /\ checkpoints \in Seq(Checkpoints)
  BY <1>1 DEF markVars, FlowInv, FlowType
<1>3. CASE k < Len(checkpoints)
  <2>1. k + 1 \in 1 .. Len(checkpoints)
    BY <1>2, <1>3
  <2>2. checkpoints[k + 1] \in Checkpoints
    BY <1>2, <2>1, ElementOfSeq
  <2>. DEFINE s == checkpoints[k + 1].start
  <2>3. s \in Blocks
    BY <2>2 DEF Checkpoints
  <2>4. pc' = "visit" /\ k' = k + 1 /\ queue' = <<s>> /\ visited' = {s} /\ reached' = {}
    BY <1>3 DEF Take
  <2>5. cp' = checkpoints[k + 1]
    BY <1>2, <2>4 DEF cp
  <2>6. DeferVerdict' /\ DoneVerdict'
    BY <1>1, <2>4, VerdictsKept
  <2>7. FlowType'
    BY <1>1, <1>2, <2>1, <2>3, <2>4 DEF FlowInv, FlowType, Checkpoints, Blocks
  <2>8. FlowPhase' /\ InRange'
    BY <1>1, <1>2, <2>4 DEF FlowInv, FlowType, FlowPhase, InRange, Blocks
  <2>9. SearchInv'
    <3>. HIDE DEF s
    <3>0. cp'.start = s
      BY <2>5 DEF s
    <3>1. \A x : InQueue(x)' <=> x = s
      BY <2>4 DEF InQueue
    <3>. QED
      BY <3>0, <3>1, <2>4 DEF SearchInv
  <2>. QED
    BY <2>6, <2>7, <2>8, <2>9 DEF FlowInv
<1>4. CASE ~(k < Len(checkpoints))
  <2>1. pc' = "end" /\ UNCHANGED <<k, queue, visited>>
    BY <1>4 DEF Take, searchVars
  <2>2. DeferVerdict' /\ DoneVerdict'
    BY <1>1, <2>1, VerdictsKept
  <2>3. FlowType' /\ InRange' /\ SearchInv'
    BY <1>1, <1>2, <2>1
      DEF FlowInv, FlowType, FlowPhase, InRange, SearchInv, Checkpoints, Blocks
  <2>4. FlowPhase'
    <3>1. k = Len(checkpoints)
      BY <1>2, <1>4
    <3>. QED
      BY <1>1, <1>2, <2>1, <3>1 DEF FlowInv, FlowPhase, Blocks
  <2>. QED
    BY <2>2, <2>3, <2>4 DEF FlowInv
<1>. QED
  BY <1>3, <1>4

LEMMA VisitStep == FlowInv /\ Visit => FlowInv'
<1>. SUFFICES ASSUME FlowInv, Visit PROVE FlowInv'
  OBVIOUS
<1>. DEFINE b == Head(queue)
<1>1. pc = "visit" /\ queue # <<>> /\ UNCHANGED <<bbs, pc, at, markVars, k, ret>>
  BY DEF Visit
<1>2. /\ b \in Blocks /\ InQueue(b) /\ b \in visited
      /\ Tail(queue) \in Seq(Blocks)
      /\ \A x \in Blocks : InQueue(x) <=> x = b \/ Contains(Tail(queue), x)
  BY <1>1, HeadVisited DEF Contains
<1>3. IsFunction(bbs) /\ visited \subseteq Blocks /\ cp.start \in Blocks
  BY <1>1, CheckpointType DEF FlowInv, FlowType
<1>4. /\ checkpoints' = checkpoints /\ pts2lock' = pts2lock /\ outs' = outs
      /\ cp' = cp
      /\ \A x \in Blocks : /\ Succs(x)' = Succs(x)
                           /\ Released(x)' = Released(x)
                           /\ Panics(x)' = Panics(x)
                           /\ Ends(x, "return")' = Ends(x, "return")
  BY <1>1 DEF markVars, cp, Succs, Released, Matching, Panics, Ends, is_defer, lock_only
<1>5. \A S : Closed(S)' = Closed(S)
  BY <1>1 DEF Closed, Succs
<1>6. Contains(Tail(queue), cp.start) => FALSE
  <2>. SUFFICES ASSUME Contains(Tail(queue), cp.start) PROVE FALSE
    OBVIOUS
  <2>1. queue = <<cp.start>>
    BY <1>1, <1>2, <1>3 DEF FlowInv, SearchInv
  <2>2. Tail(queue) = <<>>
    BY <2>1
  <2>. QED
    BY <2>2 DEF Contains
<1>7. /\ queue' \in Seq(Blocks) /\ visited' \subseteq Blocks
      /\ SearchInv'
  <2>1. CASE bbs[b].recover
    <3>1. queue' = Tail(queue) /\ visited' = visited /\ reached' = reached
      BY <2>1 DEF Visit
    <3>2. \A x : InQueue(x)' <=> Contains(Tail(queue), x)
      BY <3>1 DEF InQueue, Contains
    <3>3. \A x \in visited : InQueue(x) /\ x # b => InQueue(x)'
      BY <3>2, <1>2, <1>3
    <3>. QED
      BY <2>1, <3>1, <3>2, <3>3, <1>1, <1>2, <1>3, <1>4, <1>5, <1>6 DEF FlowInv, SearchInv, Blocks
  <2>2. CASE ~bbs[b].recover
    <3>. DEFINE E == Enqueued(bbs[b].succs)
    <3>1. /\ ~Released(b) /\ ~Panics(b)
          /\ queue' = E.q /\ visited' = E.seen
          /\ reached' = IF bbs[b].exit = "return" THEN reached \cup {b} ELSE reached
      BY <2>2 DEF Visit
    <3>2. Succs(b) \subseteq Blocks /\ Len(bbs[b].succs) \in Nat /\ Len(bbs[b].succs) <= 2
      BY <1>2, <1>3, BlockType
    <3>3. bbs[b].succs \in Seq(Blocks)
      <4>1. bbs[b].succs \in Seq(Nat)
        BY <1>2, <1>3, BlockType
      <4>2. \A n \in 1 .. Len(bbs[b].succs) : bbs[b].succs[n] \in Blocks
        BY <3>2, <4>1 DEF Succs
      <4>. QED
        BY <4>1, <4>2, SeqDef, SMTT(30)
    <3>4. /\ E.q \in Seq(Blocks)
          /\ E.seen = visited \cup Succs(b)
          /\ \A x : Contains(E.q, x) <=> Contains(Tail(queue), x) \/ (x \in Succs(b) /\ x \notin visited)
      BY <1>2, <3>2, <3>3, EnqueueAll DEF Succs
    <3>. HIDE DEF E
    <3>5. \A x : InQueue(x)' <=> Contains(E.q, x)
      BY <3>1 DEF InQueue, Contains
    <3>6. cp.start \in visited /\ cp.start \in visited'
      BY <1>1, <3>1, <3>4 DEF FlowInv, SearchInv
    <3>7. \A x \in Blocks : InQueue(x)' => x \in visited'
      BY <1>1, <1>2, <3>1, <3>4, <3>5 DEF FlowInv, SearchInv
    <3>8. ~InQueue(cp.start)'
      <4>1. ~Contains(E.q, cp.start)
        BY <1>6, <3>4, <3>6
      <4>. QED
        BY <4>1, <3>5, <1>4
    <3>9. \A S \in SUBSET Blocks : (cp.start \in S /\ Closed(S)) => visited' \subseteq S
      <4>. SUFFICES ASSUME NEW S \in SUBSET Blocks, cp.start \in S, Closed(S)
                    PROVE  visited \cup Succs(b) \subseteq S
        BY <3>1, <3>4
      <4>1. visited \subseteq S
        BY <1>1 DEF FlowInv, SearchInv
      <4>2. Succs(b) \subseteq S
        BY <4>1, <1>2, <2>2 DEF Closed
      <4>. QED
        BY <4>1, <4>2
    <3>10. \A x \in visited' : \/ InQueue(x)'
                               \/ bbs[x].recover
                               \/ /\ Succs(x) \subseteq visited'
                                  /\ ~Released(x) /\ ~Panics(x)
                                  /\ bbs[x].exit = "return" => x \in reached'
      <4>. SUFFICES ASSUME NEW x \in visited', ~InQueue(x)', ~bbs[x].recover
                    PROVE  /\ Succs(x) \subseteq visited'
                           /\ ~Released(x) /\ ~Panics(x)
                           /\ bbs[x].exit = "return" => x \in reached'
        OBVIOUS
      <4>1. x \in visited /\ ~Contains(Tail(queue), x)
        BY <3>1, <3>4, <3>5
      <4>2. CASE x = b
        BY <4>2, <3>1, <3>4
      <4>3. CASE x # b
        <5>1. ~InQueue(x)
          BY <4>1, <4>3, <1>2, <1>3
        <5>2. /\ Succs(x) \subseteq visited
              /\ ~Released(x) /\ ~Panics(x)
              /\ bbs[x].exit = "return" => x \in reached
          BY <4>1, <5>1, <1>1 DEF FlowInv, SearchInv
        <5>. QED
          BY <5>2, <3>1, <3>4
      <4>. QED
        BY <4>2, <4>3
    <3>11. reached' \subseteq {x \in visited' : Ends(x, "return")}
      <4>1. reached \subseteq {x \in visited : Ends(x, "return")}
        BY <1>1 DEF FlowInv, SearchInv
      <4>. QED
        BY <4>1, <1>2, <2>2, <3>1, <3>4 DEF Ends
    <3>12. visited' \subseteq Blocks
      BY <1>3, <3>1, <3>2, <3>4
    <3>13. SearchInv'
      BY <1>1, <1>4, <1>5, <3>6, <3>7, <3>8, <3>9, <3>10, <3>11, <3>12 DEF SearchInv, Blocks
    <3>. QED
      BY <3>1, <3>4, <3>12, <3>13
  <2>. QED
    BY <2>1, <2>2
<1>8. FlowType'
  BY <1>1, <1>4, <1>7 DEF FlowInv, FlowType, Checkpoints, Blocks
<1>9. FlowPhase' /\ InRange'
  BY <1>1, <1>4 DEF FlowInv, FlowPhase, InRange, Blocks
<1>10. DeferVerdict' /\ DoneVerdict'
  BY <1>1, VerdictsKept
<1>. QED
  BY <1>7, <1>8, <1>9, <1>10 DEF FlowInv

-----------------------------------------------------------------------------
(* The verdict on a lock. *)

\* No reachable block unlocks it, and there is a way out of the function, or
\* back to the lock.
LockFails(c) ==
  /\ ~\E b \in Blocks : Reaches(c.start, b) /\ Unlocks(c, b)
  /\ \E b \in Blocks : /\ Reaches(c.start, b)
                       /\ Ends(b, "return") \/ Ends(b, "panic") \/ c.start \in Succs(b)

\* Every way out of the function unlocks it, or comes before it.
LockHolds(c) ==
  /\ \A b \in Blocks : Reaches(c.start, b) => c.start \notin Succs(b)
  /\ \A o \in Blocks : bbs[o].exit # "jump" =>
       IF Reaches(c.start, o) /\ ~bbs[o].recover
       THEN Ends(o, "return") /\ Unlocks(c, o)
       ELSE o < c.start \/ bbs[o].line < c.line

\* A search that ends with an error if the lock fails, and without one if it
\* holds, preserves the verdicts on locks.
LEMMA LockVerdict ==
  ASSUME FlowInv, LockInv, FlowInv', pc = "visit", pc' = "next",
         UNCHANGED <<bbs, at, markVars, k, searchVars>>,
         \/ ret' = ret /\ (lock_only => ~LockFails(cp))
         \/ /\ \E b \in Blocks : \E why \in Reasons :
                 ret' = Append(ret, [cp |-> k, why |-> why, block |-> b])
            /\ lock_only => ~LockHolds(cp)
  PROVE  LockInv'
<1>1. /\ ret \in Seq([cp : Nat, why : Reasons, block : Blocks])
      /\ k \in DOMAIN checkpoints /\ k \in Nat
      /\ \A e \in DOMAIN ret : ret[e].cp # k
  BY CheckpointType DEF FlowInv, FlowType, FlowPhase
<1>2. ~Reported(k)
  BY <1>1 DEF Reported
<1>3. \A n \in DOMAIN checkpoints : Searched(n)' => Searched(n) \/ n = k
  BY <1>1 DEF Searched, FlowInv, FlowType
<1>4. /\ checkpoints' = checkpoints
      /\ \A n \in DOMAIN checkpoints : /\ LockFails(checkpoints[n])' <=> LockFails(checkpoints[n])
                                       /\ LockHolds(checkpoints[n])' <=> LockHolds(checkpoints[n])
  BY DEF markVars, LockFails, LockHolds, Unlocks, Ends, Reaches, Closed, Succs, Blocks
<1>5. CASE ret' = ret /\ (lock_only => ~LockFails(cp))
  <2>1. \A n : Reported(n)' <=> Reported(n)
    BY <1>5 DEF Reported
  <2>2. LockFound'
    <3>. SUFFICES ASSUME NEW n \in DOMAIN checkpoints, Searched(n)',
                         checkpoints[n].op = "Lock", LockFails(checkpoints[n])
                  PROVE  Reported(n)
      BY <1>4, <2>1 DEF LockFound, LockFails
    <3>1. n # k
      BY <1>5 DEF lock_only, cp
    <3>. QED
      BY <3>1, <1>3 DEF LockInv, LockFound, LockFails
  <2>3. LockReleased'
    <3>. SUFFICES ASSUME NEW n \in DOMAIN checkpoints, Searched(n)',
                         checkpoints[n].op = "Lock", LockHolds(checkpoints[n])
                  PROVE  ~Reported(n)
      BY <1>4, <2>1 DEF LockReleased, LockHolds
    <3>. QED
      BY <1>2, <1>3 DEF LockInv, LockReleased, LockHolds
  <2>. QED
    BY <2>2, <2>3 DEF LockInv, LockSearch
<1>6. ASSUME NEW b \in Blocks, NEW why \in Reasons,
             ret' = Append(ret, [cp |-> k, why |-> why, block |-> b]),
             lock_only => ~LockHolds(cp)
      PROVE  LockInv'
  <2>. DEFINE x == [cp |-> k, why |-> why, block |-> b]
  <2>1. x \in [cp : Nat, why : Reasons, block : Blocks] /\ x.cp = k
    BY <1>1
  <2>. HIDE DEF x
  <2>2. /\ Len(ret) \in Nat
        /\ DOMAIN ret = 1 .. Len(ret)
        /\ DOMAIN ret' = 1 .. Len(ret) + 1
        /\ \A e \in 1 .. Len(ret) : ret'[e] = ret[e]
        /\ ret'[Len(ret) + 1] = x
    BY <2>1, <1>1, <1>6 DEF x
  <2>3. \A n : Reported(n) => Reported(n)'
    BY <2>2 DEF Reported
  <2>4. \A n : Reported(n)' => Reported(n) \/ n = k
    BY <2>1, <2>2 DEF Reported
  <2>5. Reported(k)'
    <3>1. Len(ret) + 1 \in DOMAIN ret' /\ ret'[Len(ret) + 1].cp = k
      BY <2>1, <2>2
    <3>. QED
      BY <3>1 DEF Reported
  <2>6. LockFound'
    <3>. SUFFICES ASSUME NEW n \in DOMAIN checkpoints, Searched(n)',
                         checkpoints[n].op = "Lock", LockFails(checkpoints[n])
                  PROVE  Reported(n)'
      BY <1>4 DEF LockFound, LockFails
    <3>. QED
      BY <1>3, <2>3, <2>5 DEF LockInv, LockFound, LockFails
  <2>7. LockReleased'
    <3>. SUFFICES ASSUME NEW n \in DOMAIN checkpoints, Searched(n)',
                         checkpoints[n].op = "Lock", LockHolds(checkpoints[n])
                  PROVE  ~Reported(n)'
      BY <1>4 DEF LockReleased, LockHolds
    <3>1. n # k
      BY <1>6 DEF lock_only, cp
    <3>. QED
      BY <3>1, <1>3, <2>4 DEF LockInv, LockReleased, LockHolds
  <2>. QED
    BY <2>6, <2>7 DEF LockInv, LockSearch
<1>. QED
  BY <1>5, <1>6

\* Nothing has been found to unlock it if nothing in reach does.
LEMMA LockKept ==
  ASSUME FlowInv, LockInv, pc = "visit", lock_only, LockFails(cp)
  PROVE  /\ unlocks = {}
         /\ \A b \in visited : Matching(b) = {}
         /\ \A b \in Blocks : Ends(b, "panic") => b \notin visited \/ InQueue(b)
<1>1. \A b \in visited : b \in Blocks /\ Reaches(cp.start, b)
  BY DEF FlowInv, FlowType, SearchInv, Reaches
<1>2. \A b \in visited : Matching(b) = {}
  BY <1>1 DEF LockFails, Unlocks, Matching
<1>3. unlocks = {}
  BY <1>2 DEF LockInv, LockSearch
<1>. QED
  BY <1>2, <1>3 DEF FlowInv, SearchInv, Panics, Ends

LEMMA LockVisitLast == FlowInv /\ LockInv /\ FlowInv' /\ VisitLast => LockInv'
<1>. SUFFICES ASSUME FlowInv, LockInv, FlowInv', VisitLast PROVE LockInv'
  OBVIOUS
<1>. DEFINE b == Head(queue)
<1>1. /\ pc = "visit" /\ pc' = "next" /\ queue # <<>> /\ ~bbs[b].recover
      /\ UNCHANGED <<bbs, at, markVars, k, searchVars>>
  BY DEF VisitLast, Complete, Incomplete
<1>2. b \in Blocks /\ b \in visited
  BY <1>1, HeadVisited
<1>3. Reaches(cp.start, b)
  BY <1>1, <1>2 DEF Reaches, FlowInv, SearchInv
<1>4. CASE Released(b) /\ Complete
  <2>1. Matching(b) # {} /\ ret' = ret
    BY <1>4 DEF Released, Complete
  <2>2. lock_only => ~LockFails(cp)
    BY <2>1, <1>1, <1>2, LockKept
  <2>. QED
    BY <1>1, <2>1, <2>2, LockVerdict
<1>5. ASSUME NEW why \in Reasons, Incomplete(b, why), lock_only => ~LockHolds(cp)
      PROVE  LockInv'
  <2>1. \E d \in Blocks : \E w \in Reasons :
          ret' = Append(ret, [cp |-> k, why |-> w, block |-> d])
    BY <1>2, <1>5 DEF Incomplete
  <2>. QED
    BY <1>1, <1>5, <2>1, LockVerdict
<1>6. CASE Panics(b) /\ Incomplete(b, "panic")
  <2>1. bbs[b].exit # "jump" /\ ~Ends(b, "return")
    BY <1>6 DEF Panics, Ends
  <2>2. ~LockHolds(cp)
    BY <2>1, <1>1, <1>2, <1>3 DEF LockHolds
  <2>. QED
    BY <2>2, <1>5, <1>6 DEF Reasons
<1>7. CASE Escapes(b) /\ Incomplete(b, "return")
  <2>1. bbs[b].exit = "return" /\ lock_only /\ Matching(b) = {}
    BY <1>7 DEF Escapes
  <2>2. ~Unlocks(cp, b)
    BY <2>1 DEF Unlocks, Matching
  <2>3. ~LockHolds(cp)
    BY <2>1, <2>2, <1>1, <1>2, <1>3 DEF LockHolds
  <2>. QED
    BY <2>3, <1>5, <1>7 DEF Reasons
<1>8. CASE Loops(b) /\ Incomplete(b, "loop")
  <2>1. ~LockHolds(cp)
    BY <1>8, <1>2, <1>3 DEF LockHolds, Loops
  <2>. QED
    BY <2>1, <1>5, <1>8 DEF Reasons
<1>. QED
  BY <1>4, <1>6, <1>7, <1>8 DEF VisitLast

LEMMA LockConclude == FlowInv /\ LockInv /\ FlowInv' /\ Conclude => LockInv'
<1>. SUFFICES ASSUME FlowInv, LockInv, FlowInv', Conclude PROVE LockInv'
  OBVIOUS
<1>1. /\ pc = "visit" /\ queue = <<>> /\ UNCHANGED <<bbs, at, markVars, k, searchVars>>
      /\ pc' = "next"
  BY DEF Conclude, Complete, Incomplete
<1>2. \A o \in Blocks : Reaches(cp.start, o) <=> o \in visited
  BY <1>1, Exhausted
<1>3. \A b \in visited : ~InQueue(b) /\ b \in Blocks
  BY <1>1 DEF InQueue, FlowInv, FlowType
<1>4. ASSUME lock_only PROVE ~LockFails(cp)
  <2>. SUFFICES ASSUME LockFails(cp) PROVE FALSE
    OBVIOUS
  <2>1. PICK b \in Blocks : /\ Reaches(cp.start, b)
                            /\ Ends(b, "return") \/ Ends(b, "panic") \/ cp.start \in Succs(b)
    BY DEF LockFails
  <2>2. b \in visited
    BY <2>1, <1>2
  <2>3. unlocks = {} /\ ~Ends(b, "panic")
    BY <1>1, <1>3, <1>4, <2>2, LockKept
  <2>4. CASE bbs[b].recover
    <3>1. ~Ends(b, "return") /\ ~Ends(b, "panic")
      BY <2>4 DEF Ends
    <3>2. bbs[b].exit = "return" /\ Len(bbs[b].succs) = 0
      <4>1. bbs[b].exit = "return"
        BY <2>4, BlockType DEF FlowInv, FlowType
      <4>2. bbs[b].succs = <<>>
        BY <4>1 DEF FlowInv, FlowType, IsFunction, Blocks
      <4>. QED
        BY <4>1, <4>2
    <3>3. bbs[b].succs = <<>>
      BY <3>2 DEF FlowInv, FlowType, IsFunction, Blocks
    <3>4. Succs(b) = {}
      BY <3>3 DEF Succs
    <3>. QED
      BY <2>1, <3>1, <3>4
  <2>5. CASE ~bbs[b].recover
    <3>1. bbs[b].exit # "return" /\ ~Loops(b)
      BY <1>1, <1>3, <1>4, <2>2, <2>3, <2>5 DEF LockInv, LockSearch
    <3>. QED
      BY <3>1, <2>1, <2>3, <1>4 DEF Ends, Loops
  <2>. QED
    BY <2>4, <2>5
<1>5. ASSUME lock_only, NEW o \in Missed PROVE ~LockHolds(cp)
  <2>. SUFFICES ASSUME LockHolds(cp) PROVE FALSE
    OBVIOUS
  <2>1. o \in outs /\ o \notin {u[1] : u \in unlocks} /\ ~happenBeforeLock(o)
    <3>1. ~is_defer
      BY <1>5 DEF lock_only, is_defer
    <3>. QED
      BY <1>5, <3>1 DEF Missed
  <2>2. o \in Blocks /\ bbs[o].exit # "jump"
    BY <2>1 DEF FlowInv, FlowPhase
  <2>3. ~(o < cp.start \/ bbs[o].line < cp.line)
    BY <2>1, <2>2, <1>1, BlocksFinite, CheckpointType
      DEF happenBeforeLock, FlowInv, FlowType, IsFunction, Block, Checkpoints, Blocks
  <2>4. Reaches(cp.start, o) /\ ~bbs[o].recover /\ Unlocks(cp, o)
    BY <2>2, <2>3 DEF LockHolds
  <2>5. o \in visited
    BY <2>2, <2>4, <1>2
  <2>6. Matching(o) \subseteq unlocks
    BY <1>1, <1>3, <1>5, <2>4, <2>5 DEF LockInv, LockSearch
  <2>7. PICK n : <<o, n>> \in Matching(o)
    BY <1>5, <2>4 DEF Unlocks, Matching
  <2>8. <<o, n>> \in unlocks /\ <<o, n>>[1] = o
    BY <2>6, <2>7
  <2>. QED
    BY <2>1, <2>8
<1>6. CASE Missed = {} /\ Complete
  BY <1>1, <1>4, <1>6, LockVerdict DEF Complete
<1>7. ASSUME NEW o \in Missed, Incomplete(o, "missed") PROVE LockInv'
  <2>1. o \in Blocks
    BY DEF Missed, FlowInv, FlowPhase
  <2>2. \E d \in Blocks : \E w \in Reasons :
          ret' = Append(ret, [cp |-> k, why |-> w, block |-> d])
    BY <2>1, <1>7 DEF Incomplete, Reasons
  <2>. QED
    BY <1>1, <1>5, <2>2, LockVerdict
<1>. QED
  BY <1>6, <1>7 DEF Conclude

\* The verdicts on locks stand while nothing is concluded.
LEMMA LockVerdictsKept ==
  ASSUME FlowInv, LockInv,
         \/ pc' = "mark" \/ pc = "mark"
         \/ UNCHANGED <<checkpoints, pc, k>>
         \/ pc = "next" /\ pc' = "end" /\ UNCHANGED <<checkpoints, k>>
         \/ pc = "next" /\ pc' = "visit" /\ k' = k + 1 /\ UNCHANGED checkpoints,
         pc = "mark" => k' = k, pc' = "mark" => pc = "mark",
         UNCHANGED <<bbs, ret>>
  PROVE  LockFound' /\ LockReleased'
<1>1. k \in Nat
  BY DEF FlowInv, FlowType
<1>2. CASE pc = "mark"
  <2>1. k' = 0
    BY <1>2 DEF FlowInv, FlowPhase
  <2>2. \A n : ~Searched(n)'
    BY <2>1 DEF Searched
  <2>. QED
    BY <2>2 DEF LockFound, LockReleased
<1>3. CASE pc # "mark"
  <2>1. checkpoints' = checkpoints /\ \A n \in DOMAIN checkpoints : Searched(n)' => Searched(n)
    BY <1>1, <1>3 DEF Searched, FlowInv, FlowType
  <2>2. \A n \in DOMAIN checkpoints :
          /\ Reported(n)' <=> Reported(n)
          /\ LockFails(checkpoints[n])' <=> LockFails(checkpoints[n])
          /\ LockHolds(checkpoints[n])' <=> LockHolds(checkpoints[n])
    BY <2>1 DEF Reported, LockFails, LockHolds, Unlocks, Ends, Reaches, Closed, Succs, Blocks
  <2>3. LockFound'
    BY <2>1, <2>2 DEF LockInv, LockFound, LockFails
  <2>4. LockReleased'
    BY <2>1, <2>2 DEF LockInv, LockReleased, LockHolds
  <2>. QED
    BY <2>3, <2>4
<1>. QED
  BY <1>2, <1>3

LEMMA LockVisit == FlowInv /\ LockInv /\ FlowInv' /\ Visit => LockInv'
<1>. SUFFICES ASSUME FlowInv, LockInv, FlowInv', Visit PROVE LockInv'
  OBVIOUS
<1>. DEFINE b == Head(queue)
<1>1. pc = "visit" /\ queue # <<>> /\ UNCHANGED <<bbs, pc, at, markVars, k, ret>>
  BY DEF Visit
<1>2. /\ b \in Blocks /\ b \in visited
      /\ \A x \in Blocks : InQueue(x) => x = b \/ Contains(Tail(queue), x)
  BY <1>1, HeadVisited DEF Contains
<1>3. LockFound' /\ LockReleased'
  BY <1>1, LockVerdictsKept DEF markVars
<1>4. /\ cp' = cp /\ lock_only' = lock_only
      /\ \A x : Matching(x)' = Matching(x) /\ Loops(x)' = Loops(x)
  BY <1>1 DEF markVars, cp, lock_only, is_defer, Matching, Loops, Succs
<1>5. visited \subseteq Blocks
  BY DEF FlowInv, FlowType
<1>6. ASSUME lock_only
      PROVE  /\ \A u \in unlocks' : \E x \in visited' : u \in Matching(x)
             /\ \A x \in visited' : \/ InQueue(x)'
                                    \/ bbs[x].recover
                                    \/ /\ Matching(x) \subseteq unlocks'
                                       /\ bbs[x].exit = "return" => unlocks' # {}
                                       /\ ~Loops(x)
  <2>0. /\ \A u \in unlocks : \E x \in visited : u \in Matching(x)
        /\ \A x \in visited : \/ InQueue(x)
                              \/ bbs[x].recover
                              \/ /\ Matching(x) \subseteq unlocks
                                 /\ bbs[x].exit = "return" => unlocks # {}
                                 /\ ~Loops(x)
    BY <1>1, <1>6 DEF LockInv, LockSearch
  <2>1. CASE bbs[b].recover
    <3>1. queue' = Tail(queue) /\ visited' = visited /\ unlocks' = unlocks
      BY <2>1 DEF Visit
    <3>2. \A x \in visited : InQueue(x) /\ x # b => InQueue(x)'
      BY <3>1, <1>2, <1>5 DEF InQueue, Contains
    <3>. QED
      BY <2>0, <2>1, <3>1, <3>2
  <2>2. CASE ~bbs[b].recover
    <3>. DEFINE E == Enqueued(bbs[b].succs)
    <3>1. /\ ~Escapes(b) /\ ~Loops(b)
          /\ queue' = E.q /\ visited' = E.seen /\ unlocks' = unlocks \cup Matching(b)
      BY <2>2 DEF Visit
    <3>2. /\ E.seen = visited \cup Succs(b)
          /\ \A x : Contains(E.q, x) <=> Contains(Tail(queue), x) \/ (x \in Succs(b) /\ x \notin visited)
      <4>0. IsFunction(bbs)
        BY DEF FlowInv, FlowType
      <4>1. /\ bbs[b].succs \in Seq(Nat) /\ Succs(b) \subseteq Blocks
            /\ Len(bbs[b].succs) \in Nat /\ Len(bbs[b].succs) <= 2
        BY <4>0, <1>2, BlockType
      <4>2. \A n \in 1 .. Len(bbs[b].succs) : bbs[b].succs[n] \in Blocks
        BY <4>1 DEF Succs
      <4>3. bbs[b].succs \in Seq(Blocks)
        BY <4>1, <4>2, SeqDef, SMTT(30)
      <4>4. Tail(queue) \in Seq(Blocks)
        BY <1>1, HeadVisited
      <4>. QED
        BY <4>1, <4>3, <4>4, EnqueueAll DEF Succs
    <3>. HIDE DEF E
    <3>3. \A x : InQueue(x)' <=> Contains(E.q, x)
      BY <3>1 DEF InQueue, Contains
    <3>4. \A u \in unlocks' : \E x \in visited' : u \in Matching(x)
      BY <2>0, <3>1, <3>2, <1>2
    <3>5. ASSUME NEW x \in visited', ~InQueue(x)', ~bbs[x].recover
          PROVE  /\ Matching(x) \subseteq unlocks'
                 /\ bbs[x].exit = "return" => unlocks' # {}
                 /\ ~Loops(x)
      <4>1. x \in visited /\ ~Contains(Tail(queue), x)
        BY <3>1, <3>2, <3>3, <3>5
      <4>2. CASE x = b
        BY <4>2, <3>1, <1>6 DEF Escapes
      <4>3. CASE x # b
        <5>1. ~InQueue(x)
          BY <4>1, <4>3, <1>2, <1>5
        <5>. QED
          BY <5>1, <4>1, <3>5, <2>0, <3>1
      <4>. QED
        BY <4>2, <4>3
    <3>. QED
      BY <3>4, <3>5
  <2>. QED
    BY <2>1, <2>2
<1>7. LockSearch'
  BY <1>1, <1>4, <1>6 DEF LockSearch
<1>. QED
  BY <1>3, <1>7 DEF LockInv

LEMMA LockTake == FlowInv /\ LockInv /\ FlowInv' /\ Take => LockInv'
<1>. SUFFICES ASSUME FlowInv, LockInv, FlowInv', Take PROVE LockInv'
  OBVIOUS
<1>1. /\ pc = "next" /\ UNCHANGED <<bbs, at, markVars, ret>>
      /\ \/ pc' = "visit" /\ k' = k + 1 /\ unlocks' = {}
            /\ queue' = <<checkpoints[k + 1].start>> /\ visited' = {checkpoints[k + 1].start}
         \/ pc' = "end" /\ k' = k
  BY DEF Take
<1>2. LockFound' /\ LockReleased'
  BY <1>1, LockVerdictsKept DEF markVars
<1>3. LockSearch'
  BY <1>1 DEF LockSearch, InQueue
<1>. QED
  BY <1>2, <1>3 DEF LockInv

-----------------------------------------------------------------------------
\* The invariant of the checker, for every function: its search visits only
\* blocks the checkpoint can reach, and leaves none of them unfollowed.
THEOREM FlowInductive == Spec => []FlowInv
<1>1. FlowInv /\ UNCHANGED vars => FlowInv'
  <2>. SUFFICES ASSUME FlowInv, UNCHANGED vars PROVE FlowInv'
    OBVIOUS
  <2>1. UNCHANGED <<bbs, pc, at, checkpoints, pts2lock, outs, k, queue, visited, reached, ret>>
    BY DEF vars, markVars, searchVars
  <2>2. FlowType' /\ FlowPhase' /\ InRange'
    BY <2>1 DEF FlowInv, FlowType, FlowPhase, InRange, Checkpoints, Blocks
  <2>3. SearchInv'
    <3>1. /\ cp' = cp /\ Blocks' = Blocks
          /\ \A x : InQueue(x)' = InQueue(x)
          /\ \A S : Closed(S)' = Closed(S)
      BY <2>1 DEF cp, Blocks, InQueue, Closed, Succs
    <3>2. \A x : /\ Succs(x)' = Succs(x)
                 /\ Released(x)' = Released(x)
                 /\ Panics(x)' = Panics(x)
                 /\ Ends(x, "return")' = Ends(x, "return")
      BY <2>1 DEF cp, Succs, Released, Matching, Panics, Ends, is_defer, lock_only
    <3>. QED
      BY <2>1, <3>1, <3>2 DEF FlowInv, SearchInv
  <2>4. DeferVerdict' /\ DoneVerdict'
    BY <2>1, MarkingSafe, VerdictsKept DEF FlowInv, FlowType, markVars, searchVars, vars
  <2>. QED
    BY <2>2, <2>3, <2>4 DEF FlowInv
<1>2. FlowInv /\ [Next]_vars => FlowInv'
  BY <1>1, MarkStep, MarkOutStep, TakeStep, VisitLastStep, VisitStep, ConcludeStep DEF Next
<1>. QED
  BY <1>2, FlowInit, PTL DEF Spec

-----------------------------------------------------------------------------
(* The marking: what becomes of the checkpoint of every call. *)

LEMMA SiteType ==
  ASSUME IsFunction(bbs), NEW s \in Sites
  PROVE  /\ s[1] \in Blocks /\ s[2] \in DOMAIN bbs[s[1]].instrs
         /\ s = <<s[1], s[2]>> /\ s[1] \in Nat /\ s[2] \in Nat /\ s[2] > 0
         /\ s[2] <= Len(bbs[s[1]].instrs) /\ Len(bbs[s[1]].instrs) \in Nat
         /\ Call(s) \in Instr
<1>1. PICK b \in Blocks : \E n \in DOMAIN bbs[b].instrs : s = <<b, n>>
  BY DEF Sites
<1>2. PICK n \in DOMAIN bbs[b].instrs : s = <<b, n>>
  BY <1>1
<1>3. bbs[b].instrs \in Seq(Instr)
  BY BlockType
<1>4. b \in Nat
  BY BlocksFinite
<1>5. n \in 1 .. Len(bbs[b].instrs) /\ Len(bbs[b].instrs) \in Nat /\ bbs[b].instrs[n] \in Instr
  BY <1>2, <1>3
<1>. QED
  BY <1>2, <1>4, <1>5 DEF Call

\* Calls are passed in one order.
LEMMA Order ==
  ASSUME IsFunction(bbs)
  PROVE  /\ \A s \in Sites : ~Before(s, s)
         /\ \A s \in Sites, t \in Sites : Before(s, t) => ~Before(t, s)
         /\ \A s \in Sites, t \in Sites : s = t \/ Before(s, t) \/ Before(t, s)
         /\ \A s \in Sites, t \in Sites, u \in Sites : Before(s, t) /\ Before(t, u) => Before(s, u)
<1>1. \A s \in Sites : s[1] \in Nat /\ s[2] \in Nat /\ s = <<s[1], s[2]>>
  BY SiteType
<1>2. \A s \in Sites : ~Before(s, s)
  BY <1>1 DEF Before
<1>3. \A s \in Sites, t \in Sites : Before(s, t) => ~Before(t, s)
  BY <1>1 DEF Before
<1>4. ASSUME NEW s \in Sites, NEW t \in Sites, ~Before(s, t), ~Before(t, s) PROVE s = t
  <2>1. s[1] = t[1] /\ s[2] = t[2]
    BY <1>1, <1>4 DEF Before
  <2>. QED
    BY <2>1, <1>1
<1>5. \A s \in Sites, t \in Sites, u \in Sites : Before(s, t) /\ Before(t, u) => Before(s, u)
  BY <1>1 DEF Before
<1>. QED
  BY <1>2, <1>3, <1>4, <1>5

\* The entry of a call tells which one it is.
LEMMA EntryOf ==
  ASSUME IsFunction(bbs), NEW s \in Sites, NEW t \in Sites, Entry(s) = Entry(t)
  PROVE  s = t
<1>1. Entry(s).start = s[1] /\ Entry(s).inst = s[2] /\ Entry(t).start = t[1] /\ Entry(t).inst = t[2]
  BY DEF Entry
<1>. QED
  BY <1>1, SiteType

LEMMA EntryType ==
  ASSUME IsFunction(bbs), NEW s \in Sites
  PROVE  Entry(s) \in Checkpoints
<1>1. s[1] \in Blocks /\ s[2] \in Nat /\ Call(s) \in Instr
  BY SiteType
<1>. QED
  BY <1>1 DEF Entry, Checkpoints, Instr

LEMMA Appended ==
  ASSUME NEW T, NEW s \in Seq(T), NEW x \in T
  PROVE  /\ Append(s, x) \in Seq(T) /\ DOMAIN Append(s, x) = 1 .. Len(s) + 1
         /\ \A n \in 1 .. Len(s) : Append(s, x)[n] = s[n]
         /\ Append(s, x)[Len(s) + 1] = x
  BY AppendProperties

\* What is left in a slice when one entry is taken out.
LEMMA WithoutOther ==
  ASSUME NEW T, NEW s \in Seq(T), NEW n \in DOMAIN s, NEW m \in DOMAIN s, m # n
  PROVE  /\ \E j \in DOMAIN Without(s, n) : Without(s, n)[j] = s[m]
         /\ m < n => m \in DOMAIN Without(s, n) /\ Without(s, n)[m] = s[m]
<1>1. n \in 1 .. Len(s) /\ m \in 1 .. Len(s) /\ Len(s) \in Nat
  OBVIOUS
<1>. DEFINE l == SubSeq(s, 1, n - 1)
            r == SubSeq(s, n + 1, Len(s))
<1>2. l \in Seq(T) /\ Len(l) = n - 1 /\ \A x \in 1 .. n - 1 : l[x] = s[x]
  BY <1>1
<1>3. r \in Seq(T) /\ Len(r) = Len(s) - n /\ \A x \in 1 .. Len(s) - n : r[x] = s[n + x]
  BY <1>1
<1>4. Without(s, n) = l \o r
  BY DEF Without
<1>. HIDE DEF l, r
<1>5. /\ DOMAIN (l \o r) = 1 .. Len(l) + Len(r)
      /\ \A x \in 1 .. Len(l) + Len(r) : (l \o r)[x] = IF x <= Len(l) THEN l[x] ELSE r[x - Len(l)]
  BY <1>2, <1>3, ConcatProperties
<1>6. CASE m < n
  <2>1. m \in 1 .. n - 1 /\ m \in 1 .. Len(l) + Len(r) /\ m <= Len(l)
    BY <1>1, <1>2, <1>3, <1>6
  <2>2. m \in DOMAIN (l \o r) /\ (l \o r)[m] = s[m]
    BY <2>1, <1>2, <1>5
  <2>. QED
    BY <2>2, <1>4
<1>7. CASE m > n
  <2>1. /\ m - 1 \in 1 .. Len(l) + Len(r) /\ ~(m - 1 <= Len(l))
        /\ m - 1 - Len(l) = m - n /\ m - n \in 1 .. Len(s) - n /\ n + (m - n) = m
    <3>1. Len(l) = n - 1 /\ Len(r) = Len(s) - n /\ Len(s) \in Nat
          /\ n \in 1 .. Len(s) /\ m \in 1 .. Len(s) /\ n < m
      BY <1>1, <1>2, <1>3, <1>7
    <3>2. m - 1 \in 1 .. Len(l) + Len(r) /\ ~(m - 1 <= Len(l))
      BY ONLY <3>1
    <3>3. m - 1 - Len(l) = m - n /\ m - n \in 1 .. Len(s) - n /\ n + (m - n) = m
      BY ONLY <3>1
    <3>. QED
      BY <3>2, <3>3
  <2>2. m - 1 \in DOMAIN (l \o r) /\ (l \o r)[m - 1] = r[m - n]
    BY <2>1, <1>5
  <2>3. r[m - n] = s[m]
    BY <2>1, <1>3
  <2>. QED
    BY <2>2, <2>3, <1>4, <1>7, <1>1
<1>. QED
  BY <1>1, <1>6, <1>7

\* What depends on the function alone.
LEMMA SitesFixed ==
  ASSUME bbs' = bbs
  PROVE  /\ Sites' = Sites
         /\ \A s : Call(s)' = Call(s) /\ Entry(s)' = Entry(s)
         /\ \A d, l : Takes(d, l)' = Takes(d, l)
         /\ Orderly' = Orderly
<1>1. Sites' = Sites
  BY DEF Sites, Blocks
<1>2. \A s : Call(s)' = Call(s) /\ Entry(s)' = Entry(s)
  BY DEF Call, Entry
<1>3. \A d, l : Takes(d, l)' = Takes(d, l)
  BY <1>1, <1>2 DEF Takes, LastLock, Before
<1>4. Orderly' = Orderly
  BY <1>1, <1>3 DEF Orderly, Before
<1>. QED
  BY <1>1, <1>2, <1>3, <1>4

\* A step that marks nothing and passes no call.
LEMMA MarkKept ==
  ASSUME FlowInv, MarkInv, UNCHANGED <<bbs, checkpoints, pts2lock>>, at'[2] > 0,
         \A s \in Sites : Before(s, at') <=> Before(s, at)
  PROVE  MarkInv'
<1>1. /\ Sites' = Sites
      /\ \A s : Call(s)' = Call(s) /\ Entry(s)' = Entry(s)
      /\ \A d, l : Takes(d, l)' = Takes(d, l)
      /\ Orderly' = Orderly
  BY SitesFixed
<1>2. \A pts : \A l \in Sites : LastLock(pts, l, at)' <=> LastLock(pts, l, at)
  BY <1>1 DEF LastLock, Before
<1>3. \A l \in Sites : Stale(l)' <=> Stale(l)
  BY <1>1 DEF Stale, Before
<1>4. Kept' <=> Kept
  BY <1>1 DEF Kept, Before
<1>5. IndexSafe'
  BY <1>1, <1>2, <1>3 DEF MarkInv, IndexSafe, InRange
<1>6. \A l \in Sites : (Call(l).op = "Lock" /\ Before(l, at)') => Before(l, at)
  BY DEF Before
<1>. QED
  BY <1>1, <1>2, <1>4, <1>5, <1>6 DEF MarkInv, Before

LEMMA MarkOutMarks == FlowInv /\ MarkInv /\ MarkOut => MarkInv'
<1>. SUFFICES ASSUME FlowInv, MarkInv, MarkOut PROVE MarkInv'
  OBVIOUS
<1>1. /\ at \in Nat \X Nat /\ at[2] > 0 /\ at' = <<at[1] + 1, 1>>
      /\ at[2] \notin DOMAIN bbs[at[1]].instrs
      /\ UNCHANGED <<bbs, checkpoints, pts2lock>>
  BY DEF MarkOut, FlowInv, FlowType, MarkInv
<1>2. ASSUME NEW s \in Sites PROVE Before(s, at') <=> Before(s, at)
  <2>1. /\ s[1] \in Nat /\ s[2] \in Nat /\ s[2] > 0
        /\ s[2] \in DOMAIN bbs[s[1]].instrs /\ s[1] \in Blocks
        /\ s[2] <= Len(bbs[s[1]].instrs) /\ Len(bbs[s[1]].instrs) \in Nat
    BY SiteType DEF FlowInv, FlowType
  <2>2. DOMAIN bbs[s[1]].instrs = 1 .. Len(bbs[s[1]].instrs)
    <3>1. bbs[s[1]].instrs \in Seq(Instr)
      BY <2>1, BlockType DEF FlowInv, FlowType
    <3>. QED
      BY <3>1
  <2>3. s[1] = at[1] => s[2] < at[2]
    BY <1>1, <2>1, <2>2
  <2>4. at'[1] = at[1] + 1 /\ at'[2] = 1 /\ at[1] \in Nat /\ at[2] \in Nat
    BY <1>1
  <2>. QED
    BY <2>1, <2>3, <2>4 DEF Before
<1>. QED
  BY <1>1, <1>2, MarkKept

\* What marking a call does to the calls passed.
LEMMA MarkPasses ==
  ASSUME FlowInv, MarkInv, Mark
  PROVE  /\ at \in Sites /\ Call(at) = bbs[at[1]].instrs[at[2]]
         /\ Checkpoint(Call(at)) = Entry(at)
         /\ at'[2] > 0
         /\ \A s \in Sites : Before(s, at') <=> Before(s, at) \/ s = at
<1>1. /\ at \in Nat \X Nat /\ at[2] > 0 /\ at' = <<at[1], at[2] + 1>>
      /\ at[1] \in Blocks /\ at[2] \in DOMAIN bbs[at[1]].instrs
  BY DEF Mark, FlowInv, FlowType, MarkInv
<1>2. at = <<at[1], at[2]>> /\ at[1] \in Nat /\ at[2] \in Nat
  BY <1>1
<1>3. at \in Sites
  BY <1>1, <1>2 DEF Sites
<1>4. Call(at) = bbs[at[1]].instrs[at[2]]
  BY DEF Call
<1>5. Checkpoint(Call(at)) = Entry(at)
  BY DEF Checkpoint, Entry
<1>6. ASSUME NEW s \in Sites PROVE Before(s, at') <=> Before(s, at) \/ s = at
  <2>1. s[1] \in Nat /\ s[2] \in Nat /\ s = <<s[1], s[2]>>
    BY SiteType DEF FlowInv, FlowType
  <2>2. at'[1] = at[1] /\ at'[2] = at[2] + 1
    BY <1>1
  <2>3. s = at <=> s[1] = at[1] /\ s[2] = at[2]
    BY <1>2, <2>1
  <2>. QED
    BY <1>2, <2>1, <2>2, <2>3 DEF Before
<1>. QED
  BY <1>1, <1>3, <1>4, <1>5, <1>6

\* The last locks after a step.
LEMMA MarkLast ==
  ASSUME FlowInv, MarkInv, Mark, NEW pts, NEW l \in Sites
  PROVE  LastLock(pts, l, at)' <=>
           IF Call(at).op = "Lock" /\ Call(at).pts = pts THEN l = at ELSE LastLock(pts, l, at)
<1>1. /\ at \in Sites
      /\ \A s \in Sites : Before(s, at') <=> Before(s, at) \/ s = at
      /\ bbs' = bbs
  BY MarkPasses DEF Mark
<1>2. Sites' = Sites /\ \A s : Call(s)' = Call(s)
  BY <1>1, SitesFixed
<1>3. /\ ~Before(at, at)
      /\ \A s \in Sites : Before(s, at) => ~Before(at, s)
      /\ \A s \in Sites : s = at \/ Before(s, at) \/ Before(at, s)
  BY <1>1, Order DEF FlowInv, FlowType
<1>4. LastLock(pts, l, at)' <=>
        /\ Call(l).op = "Lock" /\ Call(l).pts = pts /\ Before(l, at')
        /\ \A m \in Sites : (Call(m).op = "Lock" /\ Call(m).pts = pts /\ Before(m, at')) => ~Before(l, m)
  BY <1>2 DEF LastLock, Before
<1>5. CASE Call(at).op = "Lock" /\ Call(at).pts = pts
  <2>1. l = at => LastLock(pts, l, at)'
    BY <1>1, <1>3, <1>4, <1>5
  <2>2. LastLock(pts, l, at)' => l = at
    BY <1>1, <1>4, <1>5
  <2>. QED
    BY <2>1, <2>2, <1>5
<1>6. CASE ~(Call(at).op = "Lock" /\ Call(at).pts = pts)
  BY <1>1, <1>4, <1>6 DEF LastLock
<1>. QED
  BY <1>5, <1>6

\* A step that takes nothing out of checkpoints: the entry of the call is put
\* into it, unless it is an Unlock.
LEMMA MarkAdds ==
  ASSUME FlowInv, MarkInv, Mark, FlowInv',
         \/ checkpoints' = Append(checkpoints, Entry(at))
         \/ checkpoints' = checkpoints /\ Call(at).op = "Unlock",
         Call(at).op = "defer Unlock" => \A l \in Sites : ~Takes(at, l),
         IF Call(at).op = "Lock"
         THEN /\ pts2lock' = {p \in pts2lock : p[1] # Call(at).pts}
                               \cup {<<Call(at).pts, Len(checkpoints) + 1>>}
              /\ checkpoints' = Append(checkpoints, Entry(at))
         ELSE pts2lock' = pts2lock
  PROVE  MarkInv'
<1>1. /\ at \in Sites /\ at'[2] > 0
      /\ \A s \in Sites : Before(s, at') <=> Before(s, at) \/ s = at
      /\ bbs' = bbs
  BY MarkPasses DEF Mark
<1>2. /\ Sites' = Sites
      /\ \A s : Call(s)' = Call(s) /\ Entry(s)' = Entry(s)
      /\ \A d, l : Takes(d, l)' = Takes(d, l)
      /\ Orderly' = Orderly
  BY <1>1, SitesFixed
<1>3. checkpoints \in Seq(Checkpoints) /\ Len(checkpoints) \in Nat
  <2>1. checkpoints \in Seq(Checkpoints)
    BY DEF FlowInv, FlowType
  <2>. QED
    BY <2>1, LenProperties
<1>0. DOMAIN checkpoints = 1 .. Len(checkpoints)
  BY <1>3, LenProperties
<1>4. /\ DOMAIN checkpoints = 1 .. Len(checkpoints)
      /\ \A n \in 1 .. Len(checkpoints) : n \in DOMAIN checkpoints' /\ checkpoints'[n] = checkpoints[n]
      /\ Call(at).op # "Unlock" =>
           Len(checkpoints) + 1 \in DOMAIN checkpoints' /\ checkpoints'[Len(checkpoints) + 1] = Entry(at)
  <2>1. CASE checkpoints' = checkpoints /\ Call(at).op = "Unlock"
    BY <2>1, <1>0
  <2>2. CASE checkpoints' = Append(checkpoints, Entry(at))
    <3>. DEFINE x == Entry(at)
    <3>. HIDE DEF x
    <3>1. checkpoints' = Append(checkpoints, x)
      BY <2>2 DEF x
    <3>2. x \in Checkpoints
      BY <1>1, EntryType DEF x, FlowInv, FlowType
    <3>3. /\ DOMAIN Append(checkpoints, x) = 1 .. Len(checkpoints) + 1
          /\ \A n \in 1 .. Len(checkpoints) : Append(checkpoints, x)[n] = checkpoints[n]
          /\ Append(checkpoints, x)[Len(checkpoints) + 1] = x
      BY ONLY <1>3, <3>2, Appended
    <3>. QED
      BY ONLY <3>1, <3>3, <1>0, <1>3 DEF x
  <2>. QED
    BY <2>1, <2>2
<1>5. \A l \in Sites : Stale(l) => Stale(l)'
  BY <1>1, <1>2 DEF Stale, Before
<1>6. \A p \in pts2lock : p[2] \in 1 .. Len(checkpoints)
  BY <1>4 DEF FlowInv, InRange
<1>7. \A p \in pts2lock' :
        \/ p \in pts2lock /\ (Call(at).op = "Lock" => p[1] # Call(at).pts)
        \/ Call(at).op = "Lock" /\ p = <<Call(at).pts, Len(checkpoints) + 1>>
  OBVIOUS
<1>8. IndexSafe'
  <2>1. InRange'
    BY DEF FlowInv
  <2>2. ASSUME NEW p \in pts2lock'
        PROVE  \E l \in Sites : LastLock(p[1], l, at)' /\ (~Stale(l)' => checkpoints'[p[2]] = Entry(l))
    <3>1. CASE p \in pts2lock /\ (Call(at).op = "Lock" => p[1] # Call(at).pts)
      <4>1. PICK l \in Sites : LastLock(p[1], l, at) /\ (~Stale(l) => checkpoints[p[2]] = Entry(l))
        BY <3>1 DEF MarkInv, IndexSafe
      <4>2. LastLock(p[1], l, at)'
        BY <3>1, <4>1, MarkLast
      <4>3. ~Stale(l)' => checkpoints'[p[2]] = Entry(l)
        BY <4>1, <3>1, <1>4, <1>5, <1>6
      <4>. QED
        BY <4>2, <4>3
    <3>2. CASE Call(at).op = "Lock" /\ p = <<Call(at).pts, Len(checkpoints) + 1>>
      <4>1. PICK a \in Sites : a = at
        BY <1>1
      <4>2. p[1] = Call(at).pts /\ p[2] = Len(checkpoints) + 1
        BY <3>2
      <4>3. LastLock(p[1], a, at)'
        BY <3>2, <4>1, <4>2, MarkLast
      <4>4. checkpoints'[p[2]] = Entry(a)
        BY <3>2, <4>1, <4>2, <1>4
      <4>. QED
        BY <4>3, <4>4
    <3>. QED
      BY <3>1, <3>2, <1>7
  <2>. QED
    BY <2>1, <2>2, <1>2 DEF IndexSafe
<1>9. \A l \in Sites : (Call(l).op = "Lock" /\ Before(l, at')) =>
        \E p \in pts2lock' : p[1] = Call(l).pts
  <2>. SUFFICES ASSUME NEW l \in Sites, Call(l).op = "Lock", Before(l, at')
                PROVE  \E p \in pts2lock' : p[1] = Call(l).pts
    OBVIOUS
  <2>1. CASE Call(at).op = "Lock" /\ Call(at).pts = Call(l).pts
    <3>1. <<Call(at).pts, Len(checkpoints) + 1>> \in pts2lock'
      BY <2>1
    <3>. QED
      BY <3>1, <2>1
  <2>2. CASE ~(Call(at).op = "Lock" /\ Call(at).pts = Call(l).pts)
    <3>1. Before(l, at)
      BY <2>2, <1>1
    <3>2. PICK p \in pts2lock : p[1] = Call(l).pts
      BY <3>1 DEF MarkInv
    <3>3. p \in pts2lock'
      BY <2>2, <3>2
    <3>. QED
      BY <3>2, <3>3
  <2>. QED
    BY <2>1, <2>2
<1>10. ASSUME NEW p \in pts2lock', NEW q \in pts2lock', NEW l \in Sites, NEW m \in Sites,
              LastLock(p[1], l, at)', LastLock(q[1], m, at)', Before(l, m)
       PROVE  p[2] < q[2]
  <2>1. CASE Call(at).op = "Lock" /\ q = <<Call(at).pts, Len(checkpoints) + 1>>
    <3>1. m = at
      BY <2>1, <1>10, MarkLast
    <3>2. p \in pts2lock
      <4>1. ASSUME p = <<Call(at).pts, Len(checkpoints) + 1>> PROVE FALSE
        <5>1. l = at
          BY <4>1, <2>1, <1>10, MarkLast
        <5>. QED
          BY <5>1, <3>1, <1>1, <1>10, Order DEF FlowInv, FlowType
      <4>. QED
        BY <4>1, <1>7
    <3>. QED
      BY <3>2, <2>1, <1>3, <1>6
  <2>2. CASE q \in pts2lock /\ (Call(at).op = "Lock" => q[1] # Call(at).pts)
    <3>1. LastLock(q[1], m, at)
      BY <2>2, <1>10, MarkLast
    <3>2. CASE p \in pts2lock /\ (Call(at).op = "Lock" => p[1] # Call(at).pts)
      <4>1. LastLock(p[1], l, at)
        BY <3>2, <1>10, MarkLast
      <4>. QED
        BY <4>1, <3>1, <3>2, <2>2, <1>10 DEF MarkInv
    <3>3. CASE Call(at).op = "Lock" /\ p = <<Call(at).pts, Len(checkpoints) + 1>>
      <4>1. l = at
        BY <3>3, <1>10, MarkLast
      <4>2. Before(m, at) /\ Before(at, m)
        BY <3>1, <4>1, <1>10 DEF LastLock
      <4>. QED
        BY <4>2, <1>1, Order DEF FlowInv, FlowType
    <3>. QED
      BY <3>2, <3>3, <1>7
  <2>. QED
    BY <2>1, <2>2, <1>7
<1>11. Orderly => Kept'
  <2>. SUFFICES ASSUME Orderly, NEW s \in Sites, Before(s, at'), Call(s).op # "Unlock",
                       ~\E d \in Sites : Before(d, at') /\ Takes(d, s)
                PROVE  \E n \in DOMAIN checkpoints' : checkpoints'[n] = Entry(s)
    BY <1>2 DEF Kept, Before
  <2>1. CASE s = at
    BY <2>1, <1>4
  <2>2. CASE s # at
    <3>1. Before(s, at) /\ ~\E d \in Sites : Before(d, at) /\ Takes(d, s)
      BY <2>2, <1>1
    <3>2. PICK n \in DOMAIN checkpoints : checkpoints[n] = Entry(s)
      BY <3>1 DEF MarkInv, Kept
    <3>. QED
      BY <3>2, <1>4
  <2>. QED
    BY <2>1, <2>2
<1>12. \A l \in Sites : Before(l, at)' <=> Before(l, at')
  BY DEF Before
<1>. QED
  BY <1>1, <1>2, <1>8, <1>9, <1>10, <1>11, <1>12 DEF MarkInv

\* A deferred unlock that comes upon objects that are locked takes out an
\* entry: that of their last lock, unless the index is stale.
LEMMA MarkTakes ==
  ASSUME FlowInv, MarkInv, Mark, FlowInv',
         Call(at).op = "defer Unlock",
         NEW p \in pts2lock, p[1] = Call(at).pts,
         checkpoints' = Without(Append(checkpoints, Entry(at)), p[2]),
         pts2lock' = pts2lock
  PROVE  MarkInv'
<1>. DEFINE cps == Append(checkpoints, Entry(at))
<1>1. /\ at \in Sites /\ at'[2] > 0
      /\ \A s \in Sites : Before(s, at') <=> Before(s, at) \/ s = at
      /\ bbs' = bbs
  BY MarkPasses DEF Mark
<1>2. /\ Sites' = Sites
      /\ \A s : Call(s)' = Call(s) /\ Entry(s)' = Entry(s)
      /\ \A d, l : Takes(d, l)' = Takes(d, l)
      /\ Orderly' = Orderly
  BY <1>1, SitesFixed
<1>3. checkpoints \in Seq(Checkpoints) /\ Len(checkpoints) \in Nat /\ Entry(at) \in Checkpoints
  <2>1. checkpoints \in Seq(Checkpoints)
    BY DEF FlowInv, FlowType
  <2>2. Entry(at) \in Checkpoints
    BY <1>1, EntryType DEF FlowInv, FlowType
  <2>. QED
    BY <2>1, <2>2, LenProperties
<1>4. /\ cps \in Seq(Checkpoints)
      /\ DOMAIN cps = 1 .. Len(checkpoints) + 1
      /\ \A n \in 1 .. Len(checkpoints) : cps[n] = checkpoints[n]
      /\ cps[Len(checkpoints) + 1] = Entry(at)
  BY ONLY <1>3, Appended DEF cps
<1>. HIDE DEF cps
<1>5. /\ DOMAIN checkpoints = 1 .. Len(checkpoints)
      /\ \A q \in pts2lock : q[2] \in 1 .. Len(checkpoints)
      /\ p[2] \in DOMAIN cps
  <2>1. DOMAIN checkpoints = 1 .. Len(checkpoints)
    BY <1>3, LenProperties
  <2>2. \A q \in pts2lock : q[2] \in 1 .. Len(checkpoints)
    BY <2>1 DEF FlowInv, InRange
  <2>. QED
    BY ONLY <2>1, <2>2, <1>3, <1>4, p \in pts2lock
<1>6. checkpoints' = Without(cps, p[2])
  BY DEF cps
<1>7. ASSUME NEW n \in DOMAIN cps, n # p[2]
      PROVE  /\ \E j \in DOMAIN checkpoints' : checkpoints'[j] = cps[n]
             /\ n < p[2] => n \in DOMAIN checkpoints' /\ checkpoints'[n] = cps[n]
  BY ONLY <1>4, <1>5, <1>6, <1>7, WithoutOther
<1>8. PICK l \in Sites : LastLock(p[1], l, at) /\ (~Stale(l) => checkpoints[p[2]] = Entry(l))
  BY DEF MarkInv, IndexSafe
<1>9. Takes(at, l)
  BY <1>8 DEF Takes
<1>10. \A m \in Sites : \A pts : LastLock(pts, m, at)' <=> LastLock(pts, m, at)
  BY MarkLast
<1>11. ASSUME NEW q \in pts2lock
       PROVE  \E m \in Sites : LastLock(q[1], m, at)' /\ (~Stale(m)' => checkpoints'[q[2]] = Entry(m))
  <2>1. PICK m \in Sites : LastLock(q[1], m, at) /\ (~Stale(m) => checkpoints[q[2]] = Entry(m))
    BY DEF MarkInv, IndexSafe
  <2>2. ASSUME ~Stale(m)' PROVE checkpoints'[q[2]] = Entry(m)
    <3>1. ~Stale(m)
      BY <2>2, <1>1, <1>2 DEF Stale, Before
    <3>2. Before(m, l)
      <4>1. Before(m, at)
        BY <2>1 DEF LastLock
      <4>. QED
        BY <4>1, <2>2, <1>1, <1>2, <1>9 DEF Stale, Before
    <3>3. q[2] < p[2]
      BY <3>2, <2>1, <1>8 DEF MarkInv
    <3>4. q[2] \in DOMAIN cps /\ cps[q[2]] = checkpoints[q[2]]
      BY ONLY <1>3, <1>4, <1>5, q \in pts2lock
    <3>5. q[2] # p[2]
      BY ONLY <3>3, <1>3, <1>5, q \in pts2lock, p \in pts2lock
    <3>. QED
      BY <3>1, <3>3, <3>4, <3>5, <2>1, <1>7
  <2>. QED
    BY <2>1, <2>2, <1>10
<1>12. IndexSafe'
  BY <1>2, <1>11 DEF FlowInv, IndexSafe
<1>13. Orderly => Kept'
  <2>. SUFFICES ASSUME Orderly, NEW s \in Sites, Before(s, at'), Call(s).op # "Unlock",
                       ~\E d \in Sites : Before(d, at') /\ Takes(d, s)
                PROVE  \E n \in DOMAIN checkpoints' : checkpoints'[n] = Entry(s)
    BY <1>2 DEF Kept, Before
  <2>1. ~Stale(l)
    <3>. SUFFICES ASSUME NEW d \in Sites, NEW m \in Sites,
                         Takes(d, m), Before(d, at), Before(l, d), ~Before(l, m)
                  PROVE  FALSE
      BY DEF Stale
    <3>1. Before(d, l) \/ Before(l, m)
      BY <1>1, <1>9 DEF Orderly
    <3>. QED
      BY <3>1, Order DEF FlowInv, FlowType
  <2>2. checkpoints[p[2]] = Entry(l)
    BY <2>1, <1>8
  <2>3. CASE s = at
    <3>1. Len(checkpoints) + 1 \in DOMAIN cps /\ Len(checkpoints) + 1 # p[2]
      BY ONLY <1>3, <1>4, <1>5, p \in pts2lock
    <3>. QED
      BY <3>1, <2>3, <1>4, <1>7
  <2>4. CASE s # at
    <3>1. Before(s, at) /\ ~\E d \in Sites : Before(d, at) /\ Takes(d, s)
      BY <2>4, <1>1
    <3>2. PICK n \in DOMAIN checkpoints : checkpoints[n] = Entry(s)
      BY <3>1 DEF MarkInv, Kept
    <3>3. s # l
      BY <1>1, <1>9
    <3>4. n # p[2]
      BY <3>2, <3>3, <2>2, EntryOf DEF FlowInv, FlowType
    <3>5. n \in DOMAIN cps /\ cps[n] = Entry(s)
      BY ONLY <3>2, <1>3, <1>4, <1>5
    <3>. QED
      BY <3>4, <3>5, <1>7
  <2>. QED
    BY <2>3, <2>4
<1>14. \A m \in Sites : (Call(m).op = "Lock" /\ Before(m, at')) => Before(m, at)
  BY <1>1
<1>15. \A m \in Sites : Before(m, at)' <=> Before(m, at')
  BY DEF Before
<1>. QED
  BY <1>1, <1>2, <1>10, <1>12, <1>13, <1>14, <1>15 DEF MarkInv, Before

LEMMA MarkMarks == FlowInv /\ MarkInv /\ FlowInv' /\ Mark => MarkInv'
<1>. SUFFICES ASSUME FlowInv, MarkInv, FlowInv', Mark PROVE MarkInv'
  OBVIOUS
<1>1. /\ at \in Sites /\ Call(at) = bbs[at[1]].instrs[at[2]]
      /\ Checkpoint(Call(at)) = Entry(at)
  BY MarkPasses
<1>2. CASE Call(at).op = "Lock"
  <2>1. markLock(Call(at))
    BY <1>1, <1>2 DEF Mark
  <2>. QED
    BY <2>1, <1>1, <1>2, MarkAdds DEF markLock
<1>3. CASE Call(at).op = "defer Unlock"
  <2>1. markUnlock(Call(at))
    BY <1>1, <1>3 DEF Mark
  <2>2. CASE \E p \in pts2lock : /\ p[1] = Call(at).pts
                                 /\ checkpoints' = Without(Append(checkpoints, Entry(at)), p[2])
    BY <2>1, <2>2, <1>1, <1>3, MarkTakes DEF markUnlock
  <2>3. CASE (\A p \in pts2lock : p[1] # Call(at).pts) /\ checkpoints' = Append(checkpoints, Entry(at))
    <3>1. ASSUME NEW l \in Sites, Takes(at, l) PROVE FALSE
      <4>1. Call(l).op = "Lock" /\ Call(l).pts = Call(at).pts /\ Before(l, at)
        BY <3>1 DEF Takes, LastLock
      <4>. QED
        BY <4>1, <2>3 DEF MarkInv
    <3>. QED
      BY <3>1, <2>1, <2>3, <1>3, MarkAdds DEF markUnlock
  <2>. QED
    BY <2>1, <2>2, <2>3, <1>1 DEF markUnlock
<1>4. CASE Call(at).op = "Unlock"
  BY <1>1, <1>4, MarkAdds DEF Mark
<1>5. CASE Call(at).op \notin {"Lock", "defer Unlock", "Unlock"}
  <2>1. markCall(Call(at))
    BY <1>1, <1>5 DEF Mark
  <2>. QED
    BY <2>1, <1>1, <1>5, MarkAdds DEF markCall
<1>. QED
  BY <1>2, <1>3, <1>4, <1>5

THEOREM FlowMarkInductive == Spec => []MarkInv
<1>1. Init => MarkInv
  <2>. SUFFICES ASSUME Init PROVE MarkInv
    OBVIOUS
  <2>1. IsFunction(bbs) /\ at = <<1, 1>> /\ pts2lock = {}
    BY FunctionsAssumption DEF Init
  <2>2. ASSUME NEW s \in Sites PROVE ~Before(s, at)
    <3>1. s[1] \in Blocks /\ s[2] \in Nat /\ s[2] > 0
      BY <2>1, SiteType
    <3>2. s[1] > 0 /\ s[1] \in Nat
      BY <3>1, <2>1, BlocksFinite
    <3>. QED
      BY <3>1, <3>2, <2>1 DEF Before
  <2>. QED
    BY <2>1, <2>2 DEF MarkInv, IndexSafe, InRange, Kept
<1>2. FlowInv /\ MarkInv /\ FlowInv' /\ [Next]_vars => MarkInv'
  <2>. SUFFICES ASSUME FlowInv, MarkInv, FlowInv', [Next]_vars PROVE MarkInv'
    OBVIOUS
  <2>1. ASSUME UNCHANGED <<bbs, at, checkpoints, pts2lock>> PROVE MarkInv'
    BY <2>1, MarkKept DEF MarkInv
  <2>2. CASE Take \/ VisitLast \/ Visit \/ Conclude \/ UNCHANGED vars
    BY <2>1, <2>2 DEF Take, VisitLast, Visit, Conclude, vars, markVars
  <2>. QED
    BY <2>2, MarkMarks, MarkOutMarks DEF Next
<1>. QED
  BY <1>1, <1>2, FlowInductive, PTL DEF Spec

\* markUnlock never indexes the slice out of range, in spite of the indices
\* it leaves behind, and takes the right lock out unless its index is stale.
THEOREM FlowIndexSafe == Spec => []IndexSafe
<1>1. MarkInv => IndexSafe
  BY DEF MarkInv
<1>. QED
  BY <1>1, FlowMarkInductive, PTL

\* When the checker is done, every call of an orderly function that no
\* deferred unlock stands for has been searched from.
LEMMA AllSearched ==
  ASSUME FlowInv, MarkInv, pc = "end", Orderly, NEW s \in Sites,
         Call(s).op # "Unlock", ~\E d \in Sites : Takes(d, s)
  PROVE  \E n \in DOMAIN checkpoints : checkpoints[n] = Entry(s) /\ Searched(n)
<1>1. /\ at[1] = Len(bbs) + 1 /\ k = Len(checkpoints) /\ IsFunction(bbs)
      /\ checkpoints \in Seq(Checkpoints)
  BY DEF FlowInv, FlowPhase, FlowType
<1>2. s[1] \in 1 .. Len(bbs) /\ Len(bbs) \in Nat
  BY <1>1, SiteType, BlocksFinite
<1>3. Before(s, at)
  BY <1>1, <1>2 DEF Before
<1>4. PICK n \in DOMAIN checkpoints : checkpoints[n] = Entry(s)
  BY <1>3 DEF MarkInv, Kept
<1>5. Searched(n)
  BY <1>1, <1>4 DEF Searched
<1>. QED
  BY <1>4, <1>5

\* An alarm about a call is one about a checkpoint of its.
LEMMA AlarmOf ==
  ASSUME FlowInv, pc = "end", NEW s \in Sites
  PROVE  ReportedAt(s) <=>
           \E n \in DOMAIN checkpoints : checkpoints[n] = Entry(s) /\ Searched(n) /\ Reported(n)
<1>1. /\ k = Len(checkpoints) /\ checkpoints \in Seq(Checkpoints)
      /\ \A e \in DOMAIN ret : ret[e].cp \in 1 .. k
  BY DEF FlowInv, FlowPhase, FlowType
<1>2. \A n \in DOMAIN checkpoints : Searched(n)
  BY <1>1 DEF Searched
<1>3. \A e \in DOMAIN ret : ret[e].cp \in DOMAIN checkpoints
  BY <1>1
<1>. QED
  BY <1>2, <1>3 DEF ReportedAt, Reported

\* Calls other than locks are not taken out.
LEMMA OnlyLocksTaken ==
  \A s, d : Takes(d, s) => Call(s).op = "Lock"
  BY DEF Takes, LastLock

\* The verdict on a deferred call, for every control-flow graph: reported
\* exactly if a panic can be reached from it, when no deferred unlock of the
\* function comes upon a stale index.
THEOREM FlowDeferExact == Spec => []DeferExact
<1>1. FlowInv /\ MarkInv => DeferExact
  <2>. SUFFICES ASSUME FlowInv, MarkInv, pc = "end", Orderly, NEW s \in Sites,
                       Call(s).op \in {"defer Unlock", "defer Done"}
                PROVE  ReportedAt(s) <=> DeferFails(Entry(s))
    BY DEF DeferExact, DeferFails, Entry
  <2>1. Entry(s).op = Call(s).op
    BY DEF Entry
  <2>2. \A n \in DOMAIN checkpoints :
          checkpoints[n] = Entry(s) /\ Searched(n) => (Reported(n) <=> DeferFails(Entry(s)))
    BY <2>1 DEF FlowInv, DeferVerdict, DeferFails
  <2>3. \E n \in DOMAIN checkpoints : checkpoints[n] = Entry(s) /\ Searched(n)
    BY AllSearched, OnlyLocksTaken
  <2>. QED
    BY <2>2, <2>3, AlarmOf
<1>. QED
  BY <1>1, FlowInductive, FlowMarkInductive, PTL

\* The verdict on a call of Done or Broadcast, for every such graph: reported
\* exactly if some exit cannot be reached from it or is not a plain return,
\* and never if all exits are plain returns and none can do without it.
THEOREM FlowDoneReported == Spec => []DoneReported
<1>1. FlowInv /\ MarkInv => DoneReported
  <2>. DEFINE Bad(o) == bbs[o].exit = "panic" \/ bbs[o].recover
  <2>. SUFFICES ASSUME FlowInv, MarkInv, pc = "end", Orderly,
                       \A o \in Blocks : Reaches(1, o) \/ bbs[o].recover,
                       NEW s \in Sites, Call(s).op \in {"Done", "Broadcast"}
                PROVE  /\ ReportedAt(s) <=> \E o \in Blocks :
                            bbs[o].exit # "jump" /\ (Bad(o) \/ ~Reaches(s[1], o))
                       /\ ReportedAt(s) => \E o \in Blocks :
                            bbs[o].exit # "jump" /\ (Bad(o) \/ ReachedWithout(o, s[1]))
    BY DEF DoneReported
  <2>0. IsFunction(bbs) /\ s[1] \in Blocks
    BY SiteType DEF FlowInv, FlowType
  <2>1. Entry(s).op = Call(s).op /\ Entry(s).start = s[1]
    BY DEF Entry
  <2>2. \A n \in DOMAIN checkpoints :
          checkpoints[n] = Entry(s) /\ Searched(n) => (Reported(n) <=> DoneFails(Entry(s)))
    BY <2>1 DEF FlowInv, DoneVerdict, DoneFails
  <2>3. \E n \in DOMAIN checkpoints : checkpoints[n] = Entry(s) /\ Searched(n)
    BY AllSearched, OnlyLocksTaken
  <2>4. ReportedAt(s) <=> DoneFails(Entry(s))
    BY <2>2, <2>3, AlarmOf
  <2>5. DoneFails(Entry(s)) <=>
          \E o \in Blocks : bbs[o].exit # "jump" /\ (Bad(o) \/ ~Reaches(s[1], o))
    <3>1. \A o \in Blocks : bbs[o].exit # "jump" =>
            (Ends(o, "return") <=> ~Bad(o))
      BY <2>0, BlockType DEF Ends
    <3>. QED
      BY <2>1, <3>1 DEF DoneFails
  <2>6. ASSUME NEW o \in Blocks, ~Bad(o), ~Reaches(s[1], o)
        PROVE  ReachedWithout(o, s[1])
    <3>. SUFFICES ASSUME NEW S \in SUBSET Blocks, 1 \in S, o \notin S,
                         \A c \in S \ {s[1]} : ~bbs[c].recover => Succs(c) \subseteq S
                  PROVE  FALSE
      BY DEF ReachedWithout
    <3>1. PICK T \in SUBSET Blocks : s[1] \in T /\ Closed(T) /\ o \notin T
      BY <2>6 DEF Reaches
    <3>2. Closed(S \cup T)
      BY <3>1 DEF Closed
    <3>3. Reaches(1, o)
      BY <2>6
    <3>. QED
      BY <3>1, <3>2, <3>3 DEF Reaches
  <2>. QED
    BY <2>4, <2>5, <2>6
<1>. QED
  BY <1>1, FlowInductive, FlowMarkInductive, PTL

-----------------------------------------------------------------------------
\* What the search of a lock has found, and the verdicts on locks.
THEOREM FlowLockInductive == Spec => []LockInv
<1>1. Init => LockInv
  BY DEF Init, LockInv, LockSearch, LockFound, LockReleased
<1>2. FlowInv /\ LockInv /\ FlowInv' /\ [Next]_vars => LockInv'
  <2>. SUFFICES ASSUME FlowInv, LockInv, FlowInv', [Next]_vars PROVE LockInv'
    OBVIOUS
  <2>1. CASE Mark \/ MarkOut
    <3>1. pc = "mark" /\ pc' \in {"mark", "next"} /\ k' = k /\ UNCHANGED <<bbs, ret>>
      BY <2>1 DEF Mark, MarkOut
    <3>. QED
      BY <3>1, LockVerdictsKept DEF LockInv, LockSearch
  <2>2. CASE UNCHANGED vars
    <3>1. UNCHANGED <<bbs, pc, checkpoints, k, queue, visited, unlocks, ret>>
      BY <2>2 DEF vars, markVars, searchVars
    <3>2. /\ lock_only' = lock_only
          /\ \A x : /\ InQueue(x)' = InQueue(x)
                    /\ Matching(x)' = Matching(x)
                    /\ Loops(x)' = Loops(x)
      BY <3>1 DEF cp, lock_only, is_defer, InQueue, Matching, Loops, Succs
    <3>3. LockSearch'
      BY <3>1, <3>2 DEF LockInv, LockSearch
    <3>. QED
      BY <3>1, <3>3, LockVerdictsKept DEF LockInv
  <2>. QED
    BY <2>1, <2>2, LockTake, LockVisitLast, LockVisit, LockConclude DEF Next
<1>. QED
  BY <1>1, <1>2, FlowInductive, PTL DEF Spec

\* A lock that no deferred unlock stands for and that nothing in its reach
\* unlocks is reported, for every such graph that can leave the function or
\* come back to the lock.
THEOREM FlowLockReported == Spec => []LockReported
<1>1. FlowInv /\ MarkInv /\ LockInv => LockReported
  <2>. SUFFICES ASSUME FlowInv, MarkInv, LockInv, pc = "end", Orderly, NEW s \in Sites,
                       Call(s).op = "Lock", ~\E d \in Sites : Takes(d, s), LockFails(Entry(s))
                PROVE  ReportedAt(s)
    BY DEF LockReported, LockFails, Entry
  <2>1. PICK n \in DOMAIN checkpoints : checkpoints[n] = Entry(s) /\ Searched(n)
    BY AllSearched
  <2>2. checkpoints[n].op = "Lock"
    BY <2>1 DEF Entry
  <2>3. Reported(n)
    BY <2>1, <2>2 DEF LockInv, LockFound, LockFails
  <2>. QED
    BY <2>1, <2>3, AlarmOf
<1>. QED
  BY <1>1, FlowInductive, FlowMarkInductive, FlowLockInductive, PTL

\* A lock that every exit in its reach unlocks is not reported, for every
\* control-flow graph whose other exits come before the lock.
THEOREM FlowLockReleased == Spec => []LockReleased
<1>1. LockInv => LockReleased
  BY DEF LockInv
<1>. QED
  BY <1>1, FlowLockInductive, PTL

=============================================================================

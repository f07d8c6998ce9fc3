---------------------------- MODULE MCDetection ----------------------------
(***************************************************************************)
(* Instances of the blocking-bug detector for TLC: named shapes of Go      *)
(* programs, and all small programs of some kinds.                         *)
(***************************************************************************)
EXTENDS GoPrograms, DetectionProperties, Verdict

-----------------------------------------------------------------------------
(* Channels.                                                               *)

(* go func() { <-a }(); a <- 1 *)
Handoff == MakeRFG(<<Go(0, -1), Go(1, 0), Recv(1, 1, "a"), Exit(1, 2),
                     Send(0, 0, "a"), Exit(0, 4)>>)

(* two receivers, one send: one receiver leaks *)
TwoReceivers == MakeRFG(<<Go(0, -1), Go(1, 0), Recv(1, 1, "a"), Exit(1, 2),
                          Go(2, 0), Recv(2, 4, "a"), Exit(2, 5),
                          Send(0, 0, "a"), Exit(0, 7)>>)

(* go func() { a <- 1; a <- 2 }(); <-a; <-a *)
TwoInARow == MakeRFG(<<Go(0, -1), Go(1, 0), Send(1, 1, "a"), Send(1, 2, "a"), Exit(1, 3),
                       Recv(0, 0, "a"), Recv(0, 5, "a"), Exit(0, 6)>>)

(* go func() { for range a {} }(); close(a) *)
RangeClose == MakeRFG(<<Go(0, -1), In("f", Go(1, 0)),
                        In("f", Loop("NROC", 1, 1, "roc", TRUE)), In("f", Recv(1, 2, "a")),
                        In("f", Loop("NROC", 1, 3, "roc", FALSE)), Exit(1, 4),
                        On("NClose", 0, 0, "a"), Exit(0, 6)>>)

(* go func() { select { case <-a: case <-b: } }(); go func() { b <- 1 }(); a <- 1 *)
SelectTwo == MakeRFG(<<Go(0, -1), Go(1, 0), Select(1, 1, <<3, 4>>),
                       Case(1, 2, "a"), Case(1, 2, "b"), Exit(1, 2),
                       Go(2, 0), Send(2, 6, "b"), Exit(2, 7),
                       Send(0, 0, "a"), Exit(0, 9)>>)

(* go func() { <-a }(); select { case a <- 1: default: } *)
SendOrDefault == MakeRFG(<<Go(0, -1), Go(1, 0), Recv(1, 1, "a"), Exit(1, 2),
                           Select(0, 0, <<5, 6>>), CaseSends(0, 4, "a"), Default(0, 4),
                           Exit(0, 4)>>)

(* select { case <-a: default: }, and nobody sends *)
RecvOrDefault == MakeRFG(<<Go(0, -1), Select(0, 0, <<2, 3>>), Case(0, 1, "a"),
                           Default(0, 1), At("NFunc", 0, 3), Exit(0, 1)>>)

(* for { select { case <-a: case <-ctx.Done(): return } }; cancel() *)
CancelLoop == MakeRFG(<<Go(0, -1), In("f", Go(1, 0)),
                        In("f", Loop("NLoop", 1, 1, "loop", TRUE)),
                        In("f", Select(1, 2, <<4, 5>>)), In("f", Case(1, 3, "a")),
                        In("f", CaseCtx(1, 3, "c")), InSel(3, In("f", At("NReturn", 1, 5))),
                        InSel(3, In("f", Loop("NLoop", 1, 6, "loop", FALSE))),
                        In("f", Loop("NLoop", 1, 3, "none", FALSE)), Exit(1, 8),
                        On("NCancel", 0, 0, "c"), Exit(0, 10)>>)

(* go func() { a <- 1 }(); select { case <-a: case <-time.After(d): } *)
SelectTimer == MakeRFG(<<Go(0, -1), Go(1, 0), Send(1, 1, "a"), Exit(1, 2),
                         Select(0, 0, <<5, 6>>), Case(0, 4, "a"), Timer(0, 4), Exit(0, 4)>>)

(* select { case <-a: case <-b: }, and a goroutine sends on a *)
SelectFirst == MakeRFG(<<Go(0, -1), Go(1, 0), Send(1, 1, "a"), Exit(1, 2),
                         Select(0, 0, <<5, 6>>), Case(0, 4, "a"), Case(0, 4, "b"), Exit(0, 4)>>)

(* the same, and nobody sends *)
SelectNobody == MakeRFG(<<Go(0, -1), Select(0, 0, <<2, 3>>), Case(0, 1, "a"), Case(0, 1, "b"),
                          Exit(0, 1)>>)

(* a <- 1 and nobody receives *)
Leak == MakeRFG(<<Go(0, -1), Go(1, 0), Send(1, 1, "a"), Exit(1, 2), Exit(0, 0)>>)

(* a <- 1; <-a, in one goroutine *)
SelfSend == MakeRFG(<<Go(0, -1), Send(0, 0, "a"), Recv(0, 1, "a"), Exit(0, 2)>>)

(* go func() { <-a; b <- 1 }(); a <- 1; <-b *)
PingPong == MakeRFG(<<Go(0, -1), Go(1, 0), Recv(1, 1, "a"), Send(1, 2, "b"), Exit(1, 3),
                      Send(0, 0, "a"), Recv(0, 5, "b"), Exit(0, 6)>>)

(* go func() { b <- 1; <-a }(); a <- 1; <-b *)
SendSend == MakeRFG(<<Go(0, -1), Go(1, 0), Send(1, 1, "b"), Recv(1, 2, "a"), Exit(1, 3),
                      Send(0, 0, "a"), Recv(0, 5, "b"), Exit(0, 6)>>)

(* two goroutines wait for one close *)
CloseTwo == MakeRFG(<<Go(0, -1), Go(1, 0), Recv(1, 1, "a"), Exit(1, 2),
                      Go(2, 0), Recv(2, 4, "a"), Exit(2, 5),
                      On("NClose", 0, 0, "a"), Exit(0, 7)>>)

-----------------------------------------------------------------------------
(* Locks.                                                                  *)

(* two critical sections of one mutex *)
Mutex == MakeRFG(<<Go(0, -1), Go(1, 0), Lock(1, 1, "a"), Unlock(1, 2, "a"), Exit(1, 3),
                   Lock(0, 0, "a"), Unlock(0, 5, "a"), Exit(0, 6)>>)

(* one with defer: the original unlock, node 3, and its copy, node 4 *)
DeferMutex == MakeRFG(<<Go(0, -1), Go(1, 0), Lock(1, 1, "a"), Deferred(Unlock(1, -1, "a")),
                        Deferred(Unlock(1, 2, "a")), Exit(1, 4),
                        Lock(0, 0, "a"), Unlock(0, 6, "a"), Exit(0, 7)>>)

(* lock order inversion *)
ABBA == MakeRFG(<<Go(0, -1), Go(1, 0), Lock(1, 1, "a"), Lock(1, 2, "b"),
                  Unlock(1, 3, "b"), Unlock(1, 4, "a"), Exit(1, 5),
                  Lock(0, 0, "b"), Lock(0, 7, "a"), Unlock(0, 8, "a"), Unlock(0, 9, "b"),
                  Exit(0, 10)>>)

(* the same two locks in the same order *)
LockOrder == MakeRFG(<<Go(0, -1), Go(1, 0), Lock(1, 1, "a"), Lock(1, 2, "b"),
                       Unlock(1, 3, "b"), Unlock(1, 4, "a"), Exit(1, 5),
                       Lock(0, 0, "a"), Lock(0, 7, "b"), Unlock(0, 8, "b"), Unlock(0, 9, "a"),
                       Exit(0, 10)>>)

(* go func() { m.Lock(); b <- 1; m.Unlock() }(); m.Lock(); <-b; m.Unlock() *)
LockAndSend == MakeRFG(<<Go(0, -1), Go(1, 0), Lock(1, 1, "a"), Send(1, 2, "b"),
                         Unlock(1, 3, "a"), Exit(1, 4),
                         Lock(0, 0, "a"), Recv(0, 6, "b"), Unlock(0, 7, "a"), Exit(0, 8)>>)

(* go func() { m.Lock(); b <- 1; m.Unlock() }(); <-b; m.Lock(); m.Unlock() *)
SendInLock == MakeRFG(<<Go(0, -1), Go(1, 0), Lock(1, 1, "a"), Send(1, 2, "b"),
                        Unlock(1, 3, "a"), Exit(1, 4),
                        Recv(0, 0, "b"), Lock(0, 6, "a"), Unlock(0, 7, "a"), Exit(0, 8)>>)

(* two readers *)
Readers == MakeRFG(<<Go(0, -1), Go(1, 0), RLock(1, 1, "a"), RUnlock(1, 2, "a"), Exit(1, 3),
                     RLock(0, 0, "a"), RUnlock(0, 5, "a"), Exit(0, 6)>>)

(* two goroutines and main, one critical section each *)
MutexThree == MakeRFG(<<Go(0, -1), Go(1, 0), Lock(1, 1, "a"), Unlock(1, 2, "a"), Exit(1, 3),
                        Go(2, 0), Lock(2, 5, "a"), Unlock(2, 6, "a"), Exit(2, 7),
                        Lock(0, 0, "a"), Unlock(0, 9, "a"), Exit(0, 10)>>)

(* a writer among two readers *)
WriterReader == MakeRFG(<<Go(0, -1), Go(1, 0), Lock(1, 1, "a"), Unlock(1, 2, "a"), Exit(1, 3),
                          Go(2, 0), RLock(2, 5, "a"), RUnlock(2, 6, "a"), Exit(2, 7),
                          Exit(0, 0)>>)

(* lock twice *)
DoubleLock == MakeRFG(<<Go(0, -1), Lock(0, 0, "a"), Lock(0, 1, "a"), Unlock(0, 2, "a"),
                        Unlock(0, 3, "a"), Exit(0, 4)>>)

(* read lock against write lock *)
ReadWrite == MakeRFG(<<Go(0, -1), Go(1, 0), RLock(1, 1, "a"), RUnlock(1, 2, "a"), Exit(1, 3),
                       Lock(0, 0, "a"), Unlock(0, 5, "a"), Exit(0, 6)>>)

(* read lock after write lock, in one goroutine *)
WriteRead == MakeRFG(<<Go(0, -1), Lock(0, 0, "a"), RLock(0, 1, "a"), RUnlock(0, 2, "a"),
                       Unlock(0, 3, "a"), Exit(0, 4)>>)

(* nested read locks and a writer *)
RWR == MakeRFG(<<Go(0, -1), Go(1, 0), RLock(1, 1, "a"), RLock(1, 2, "a"),
                 RUnlock(1, 3, "a"), RUnlock(1, 4, "a"), Exit(1, 5),
                 Lock(0, 0, "a"), Unlock(0, 7, "a"), Exit(0, 8)>>)

-----------------------------------------------------------------------------
(* Waitgroups and conditions.                                              *)

(* go func() { defer w.Done() }(); w.Wait() *)
WaitDefer == MakeRFG(<<Go(0, -1), Go(1, 0), ExitWG(1, 1, "w"),
                       On("NWGWait", 0, 0, "w"), Exit(0, 3)>>)

(* go func() { w.Wait(); a <- 1 }(); w.Done(); <-a, and Done in another *)
WaitThenSend == MakeRFG(<<Go(0, -1), Go(1, 0), On("NWGWait", 1, 1, "w"), Send(1, 2, "a"), Exit(1, 3),
                          On("NWGDone", 0, 0, "w"), Recv(0, 5, "a"), Exit(0, 6)>>)

(* one Done on a waitgroup that may be either of two, a goroutine waiting  *)
(* for each                                                                *)
DoneEither == MakeRFG(<<Go(0, -1), Go(1, 0), On("NWGWait", 1, 1, "w"), Exit(1, 2),
                        Go(2, 0), On("NWGWait", 2, 4, "b"), Exit(2, 5),
                        [On("NWGDone", 0, 0, "w") EXCEPT !.pts = <<"w", "b">>], Exit(0, 7)>>)

(* two goroutines, each w.Done(); w.Wait() *)
WaitTwo == MakeRFG(<<Go(0, -1), Go(1, 0), On("NWGDone", 1, 1, "w"), Exit(1, 2),
                     Go(2, 0), On("NWGDone", 2, 4, "w"), Exit(2, 5),
                     On("NWGWait", 0, 0, "w"), Exit(0, 7)>>)

(* go func() { c.Wait() }(); c.Broadcast() *)
CondBroadcast == MakeRFG(<<Go(0, -1), Go(1, 0), On("NCONDWait", 1, 1, "c"), Exit(1, 2),
                           On("NBroadcast", 0, 0, "c"), Exit(0, 4)>>)

(* go func() { c.Wait() }(); c.Signal() *)
CondSignal == MakeRFG(<<Go(0, -1), Go(1, 0), On("NCONDWait", 1, 1, "c"), Exit(1, 2),
                        On("NSignal", 0, 0, "c"), Exit(0, 4)>>)

-----------------------------------------------------------------------------
(* Shapes the detector has trouble with.                                   *)

(* three receivers, one send *)
ThreeReceivers == MakeRFG(<<Go(0, -1), Go(1, 0), Recv(1, 1, "a"), Exit(1, 2),
                            Go(2, 0), Recv(2, 4, "a"), Exit(2, 5),
                            Go(3, 0), Recv(3, 7, "a"), Exit(3, 8),
                            Send(0, 0, "a"), Exit(0, 10)>>)

(* select { case a <- 1: case b <- 1: }, a receiver for each *)
TwoSenders == MakeRFG(<<Go(0, -1), Go(1, 0), Recv(1, 1, "a"), Exit(1, 2),
                        Go(2, 0), Recv(2, 4, "b"), Exit(2, 5),
                        Select(0, 0, <<8, 9>>), CaseSends(0, 7, "a"), CaseSends(0, 7, "b"),
                        Exit(0, 7)>>)

(* go func() { select { case <-a: <-b; case <-c: } }(); a <- 1; b <- 1 *)
CaseBody == MakeRFG(<<Go(0, -1), Go(1, 0), Select(1, 1, <<3, 5, NoNode>>), Case(1, 2, "a"),
                      InSel(2, Recv(1, 3, "b")), Case(1, 2, "c"), Exit(1, 2),
                      Send(0, 0, "a"), Send(0, 7, "b"), Exit(0, 8)>>)

(* go func() { select { case <-a: <-a; case <-c: } }(); a <- 1; a <- 2 *)
CaseAgain == MakeRFG(<<Go(0, -1), Go(1, 0), Select(1, 1, <<3, 5>>), Case(1, 2, "a"),
                       InSel(2, Recv(1, 3, "a")), Case(1, 2, "c"), Exit(1, 2),
                       Send(0, 0, "a"), Send(0, 7, "a"), Exit(0, 8)>>)

(* go func() { <-ctx.Done(); <-b }(); go cancel(): the node after          *)
(* ctx.Done() is its sibling                                               *)
AfterDone == MakeRFG(<<Go(0, -1), Go(1, 0), On("NCtxDone", 1, 1, "c"), Recv(1, 1, "b"),
                       Exit(1, 3), Go(2, 0), On("NCancel", 2, 5, "c"), Exit(2, 6),
                       Exit(0, 0)>>)

(* go func() { a.Lock() }(); a.Lock(); a.Unlock() *)
NeverUnlocked == MakeRFG(<<Go(0, -1), Go(1, 0), Lock(1, 1, "a"), Exit(1, 2),
                           Lock(0, 0, "a"), Unlock(0, 4, "a"), Exit(0, 5)>>)

(* go func() { a.Lock(); a.Unlock(); <-b }(); a.Lock(); a.Unlock() *)
UnlockThenBlock == MakeRFG(<<Go(0, -1), Go(1, 0), Lock(1, 1, "a"), Unlock(1, 2, "a"),
                             Recv(1, 3, "b"), Exit(1, 4),
                             Lock(0, 0, "a"), Unlock(0, 6, "a"), Exit(0, 7)>>)

(* two goroutines, each defer w.Done(); w.Wait(), then a receive nobody    *)
(* serves in one of the goroutines: Wait blocks                            *)
WaitBlocked == MakeRFG(<<Go(0, -1), Go(1, 0), ExitWG(1, 1, "w"),
                         Go(2, 0), Recv(2, 3, "a"), ExitWG(2, 4, "w"),
                         On("NWGWait", 0, 0, "w"), Exit(0, 6)>>)

(* w.Wait(), and no Done anywhere *)
NobodyDone == MakeRFG(<<Go(0, -1), On("NWGWait", 0, 0, "w"), Exit(0, 1)>>)

(* go func() { <-a; w.Done() }(); w.Wait(), and nobody sends *)
DoneBlocked == MakeRFG(<<Go(0, -1), Go(1, 0), Recv(1, 1, "a"), On("NWGDone", 1, 2, "w"),
                         Exit(1, 3), On("NWGWait", 0, 0, "w"), Exit(0, 5)>>)

-----------------------------------------------------------------------------
(* All programs of a goroutine and main with at most two statements each.  *)
(* A statement is a sequence of operations <<typ, object>>.                *)

Bodies(stmts) == {<<>>} \cup stmts \cup {s1 \o s2 : s1, s2 \in stmts}

sendOn(o) == <<<<"send", o>>>>
recvOn(o) == <<<<"recv", o>>>>
locked(o, b) == <<<<"NLock", o>>>> \o b \o <<<<"NUnlock", o>>>>

ChannelPrograms ==
  LET B == Bodies({sendOn("a"), recvOn("a"), sendOn("b"), recvOn("b")})
  IN  {GoAndMain(b1, b0) : b1, b0 \in B}

(* One mutex and one channel.                                              *)
MixedPrograms ==
  LET B == Bodies({sendOn("b"), recvOn("b"), locked("a", <<>>),
                   locked("a", sendOn("b")), locked("a", recvOn("b"))})
  IN  {GoAndMain(b1, b0) : b1, b0 \in B}

(* Two mutexes, nested or one after the other.                             *)
LockPrograms ==
  LET S == {locked("a", <<>>), locked("b", <<>>), locked("a", locked("b", <<>>)),
            locked("b", locked("a", <<>>)), locked("a", locked("a", <<>>))}
  IN  {GoAndMain(b1, b0) : b1, b0 \in {<<>>} \cup S}

-----------------------------------------------------------------------------
(* Sets of programs.                                                       *)

Channels == {Handoff, TwoReceivers, ThreeReceivers, TwoInARow, RangeClose, Leak, SelfSend,
             PingPong, SendSend, CloseTwo}
Selects == {SelectTwo, SelectFirst, SelectNobody, SendOrDefault, RecvOrDefault, CancelLoop, SelectTimer, TwoSenders,
            CaseBody, CaseAgain}
Mutexes == {Mutex, DeferMutex, MutexThree, ABBA, LockOrder, DoubleLock, NeverUnlocked,
            UnlockThenBlock, LockAndSend, SendInLock}
RWMutexes == {WriteRead, ReadWrite, RWR, Readers, WriterReader}
Others == {WaitDefer, WaitTwo, DoneEither, WaitThenSend, WaitBlocked, CondBroadcast,
           CondSignal, AfterDone}
WaitsForEver == {NobodyDone, DoneBlocked}

AllRFGs == Channels \cup Selects \cup Mutexes \cup RWMutexes \cup Others \cup WaitsForEver

(* NoneLost and SendWaits, without the shapes on which the detector breaks *)
(* them: it loses a goroutine whose lock is taken back, one whose case     *)
(* body pauses (its select is walked past), and one with a ctx.Done(),     *)
(* beside which the next node hangs, ...                                   *)
NoneLostElse == g \notin {ABBA, SendInLock, CaseBody, AfterDone} => NoneLost

(* ... and a state split off for another receiver starts at the sender,    *)
(* which is walked past at once.                                           *)
SendWaitsElse == g \notin {TwoReceivers, ThreeReceivers} => SendWaits

(* The verdict is the one Go gives.                                        *)
JudgedRFGs == AllRFGs \ {TwoInARow, SelectFirst, Readers, ReadWrite, WriterReader, MutexThree, WaitTwo,
                         CaseBody, CaseAgain, SendOrDefault, TwoSenders, AfterDone,
                         CondBroadcast, CondSignal, NobodyDone, DoneBlocked}

Verdicts == JudgedRFGs \cup LockPrograms
SmallPrograms == ChannelPrograms \cup MixedPrograms
JudgedPrograms == Verdicts \cup SmallPrograms

(* DFSDetectBlockingBugs on the programs of Verdicts: what is reported can *)
(* block in Go, for every sequence of random draws. In the families of     *)
(* SmallPrograms there are programs with later receives, which the         *)
(* detector reports wrongly.                                               *)
NoFalseVerdict == g \in Verdicts => NoFalseAlarm

SelectTwoSends == {TwoSenders}
TwoDones == {WaitTwo}

-----------------------------------------------------------------------------
(* The detector ends, if every draw of getRandomTID (rand.Intn) that keeps *)
(* being possible is made in the end.                                      *)
MaxTid == 3
Fairness ==
  /\ WF_vars(Next)
  /\ \A t \in 0..MaxTid : SF_vars(Turn(t)) /\ SF_vars(QuietTurn(t))
FairSpec == Spec /\ Fairness

(* noPausedIsWalkable: "no progress after iterating all goroutines again   *)
(* -> quit": the exploration of every state ends, the work list runs empty *)
(* and the detector reports.  A wg.Wait whose Done is not reached breaks   *)
(* it: noPausedWaits returns it in every turn without progress, it is      *)
(* visited again, pauses again, and there is no way out of the loop.       *)
Termination == <>(pc \in {"done", "crashed"})

(* Nothing else keeps the detector from ending: either the exploration of  *)
(* every state ends, whatever blocks in it, or from some time on there is  *)
(* a wg.Wait that was reached and has no Done.                             *)
WaitsInVain ==
  \E n \in Node : typId(n) = "NWGWait" /\ ds.visited[n] # Absent /\ ~paired(ds, n)
SearchEnds == Termination \/ <>[]WaitsInVain

=============================================================================

------------------------------- MODULE FrontEnd -------------------------------
(***************************************************************************)
(* The front end (main/main.go, go/myutil/myutil.go and the entry points   *)
(* of go/pointer/analysis.go): it runs the pointer analysis over the main  *)
(* packages of a program, one after the other, all under one root, or in   *)
(* parallel, and hands the results to the detectors.                       *)
(*                                                                         *)
(* A job <<algo, m>> is one analysis: of main m by GoGuard ("my") or by    *)
(* the unmodified analysis ("default"), or GoGuard's second run without    *)
(* PTSLimit ("full"); m = 0 is all mains under one root.  With a time      *)
(* limit a job runs in a goroutine of its own, which may outlive the call  *)
(* that started it: nothing stops it at the timeout.                       *)
(*                                                                         *)
(* flags.DoSeq is true and no flag of the command line clears it, so       *)
(* goguard itself runs doSeq; DoSameRoot, DoEach and DoParallel (the last  *)
(* deprecated, and called from nowhere) are exported functions.  DoDiff is *)
(* a variable no flag sets.                                                *)
(***************************************************************************)
EXTENDS Naturals

CONSTANTS
  N,         \* number of main packages
  Par,       \* number of mains DoParallel takes: 3 in the code
  Settings,  \* flags, and which of the entry points is called
  NodeId     \* node ids that reach PTSLimit in some analysis

Mains == 1 .. N
Job == ({"my", "default"} \X (0 .. N)) \cup ({"full"} \X Mains)

\* A setting: mode is doSeq, doSameRoot, doEach or DoParallel; only is
\* flags.Main, 0 for none; left and right are the range of packages; detect
\* is DoRace || DoBlocking.
Setting == [mode : {"seq", "sameRoot", "each", "parallel"}, timeLimit : BOOLEAN,
            compare : BOOLEAN, default : BOOLEAN, only : 0 .. N,
            left : Mains, right : Mains, limit : BOOLEAN, diff : BOOLEAN,
            detect : BOOLEAN]

ASSUME FrontAssumption ==
  N \in Nat \ {0} /\ Par \in Nat \ {0} /\ Settings \subseteq Setting

VARIABLES
  flags,     \* the settings the user gave
  PTSLimit,  \* flags.PTSLimit is set now: AnalyzeMultiMains turns it off and on
  pc, i,     \* place and loop index of the driver
  call,      \* job -> its caller: "none", "direct", "select", "got", "returned"
  value,     \* job -> what the call returned: "nil" or "result"
  run,       \* job -> the analysis: "none", "generate", "solve", "send", "ended"
  outcome,   \* job -> result and error variables: "unset", "ok", "error"
  c,         \* job -> number of messages in its channel of capacity 1
  skipIDs,   \* the package variable of go/pointer/solve.go
  gaveUp,    \* job -> nodes it has entered into skipIDs
  skipped,   \* job -> nodes it has skipped because of skipIDs
  limited,   \* job -> whether it solved with PTSLimit
  results,   \* main -> "none" or the job in main2Result
  compared,  \* mains whose results were compared
  parallel,  \* main -> its goroutine in DoParallel: "none", "call", "store", "done"
  detected   \* DetectBugs has been called

jobVars == <<run, outcome, c, skipIDs, gaveUp, skipped, limited>>
callVars == <<call, value>>
ownVars == <<results, compared, parallel, detected>>
vars == <<flags, PTSLimit, pc, i, jobVars, callVars, ownVars>>

Init ==
  /\ flags \in Settings
  /\ PTSLimit = flags.limit
  /\ pc = flags.mode
  /\ i = 1
  /\ call = [j \in Job |-> "none"]
  /\ value = [j \in Job |-> "nil"]
  /\ run = [j \in Job |-> "none"]
  /\ outcome = [j \in Job |-> "unset"]
  /\ c = [j \in Job |-> 0]
  /\ skipIDs = {}
  /\ gaveUp = [j \in Job |-> {}]
  /\ skipped = [j \in Job |-> {}]
  /\ limited = [j \in Job |-> FALSE]
  /\ results = [m \in Mains |-> "none"]
  /\ compared = {}
  /\ parallel = [m \in Mains |-> "none"]
  /\ detected = FALSE

Running == pc \notin {"done", "crash"}

-----------------------------------------------------------------------------
(* An analysis: Analyze or AnalyzeWCtx, in the goroutine of its caller or  *)
(* in one of its own.  A panic inside is recovered and becomes an error.   *)

\* The call of job j is made; the analysis starts.
Start(j) ==
  /\ call[j] = "none"
  /\ call' = [call EXCEPT ![j] = IF flags.timeLimit /\ flags.mode # "seq"
                                 THEN "select" ELSE "direct"]
  /\ run' = [run EXCEPT ![j] = "generate"]
  /\ UNCHANGED <<value, outcome, c, skipIDs, gaveUp, skipped, limited>>

\* Mutant: skipIDs is made once and kept.
Solve_keep(j) ==
  /\ run[j] = "generate"
  /\ run' = [run EXCEPT ![j] = "solve"]
  /\ limited' = [limited EXCEPT ![j] = PTSLimit /\ j[1] # "default"]
  /\ UNCHANGED <<outcome, c, skipIDs, gaveUp, skipped>>

\* solve(): solveLimit makes a new skipIDs.
Solve(j) ==
  LET limits == PTSLimit /\ j[1] # "default"
  IN  /\ run[j] = "generate"
      /\ run' = [run EXCEPT ![j] = "solve"]
      /\ limited' = [limited EXCEPT ![j] = limits]
      /\ skipIDs' = IF limits THEN {} ELSE skipIDs
      /\ UNCHANGED <<outcome, c, gaveUp, skipped>>

\* solveLimit: node n has reached the limit ...
GiveUp(j, n) ==
  /\ run[j] = "solve"
  /\ limited[j]
  /\ n \notin skipIDs
  /\ skipIDs' = skipIDs \cup {n}
  /\ gaveUp' = [gaveUp EXCEPT ![j] = @ \cup {n}]
  /\ UNCHANGED <<run, outcome, c, skipped, limited>>

\* ... or is on the worklist and is skipped.
Skip(j, n) ==
  /\ run[j] = "solve"
  /\ limited[j]
  /\ n \in skipIDs
  /\ n \notin skipped[j]
  /\ skipped' = [skipped EXCEPT ![j] = @ \cup {n}]
  /\ UNCHANGED <<run, outcome, c, skipIDs, gaveUp, limited>>

\* The result and error variables are written, then "done" is sent.
Finish(j) ==
  /\ run[j] \in {"generate", "solve"}
  /\ \E o \in IF run[j] = "solve" THEN {"ok", "error"} ELSE {"error"} :
       outcome' = [outcome EXCEPT ![j] = o]
  /\ run' = [run EXCEPT ![j] = IF call[j] = "direct" THEN "ended" ELSE "send"]
  /\ UNCHANGED <<c, skipIDs, gaveUp, skipped, limited>>

\* Mutant: the channel has no buffer.
Send_unbuffered(j) ==
  /\ run[j] = "send"
  /\ call[j] = "select"
  /\ c' = [c EXCEPT ![j] = @ + 1]
  /\ run' = [run EXCEPT ![j] = "ended"]
  /\ UNCHANGED <<outcome, skipIDs, gaveUp, skipped, limited>>

Send(j) ==
  /\ run[j] = "send"
  /\ c[j] < 1
  /\ c' = [c EXCEPT ![j] = @ + 1]
  /\ run' = [run EXCEPT ![j] = "ended"]
  /\ UNCHANGED <<outcome, skipIDs, gaveUp, skipped, limited>>

\* skipIDs is a Go map without a lock: two analyses in it at a time are a
\* fatal error, if the runtime notices.
Fatal(j) ==
  /\ \E k \in Job \ {j} : \A l \in {j, k} : run[l] = "solve" /\ limited[l]
  /\ pc' = "crash"
  /\ UNCHANGED jobVars

Analysis(j) ==
  /\ pc # "crash"
  /\ \/ Fatal(j)
     \/ /\ Solve(j) \/ Finish(j) \/ Send(j) \/ \E n \in NodeId : GiveUp(j, n) \/ Skip(j, n)
        /\ UNCHANGED pc
  /\ UNCHANGED <<flags, PTSLimit, i, callVars, ownVars>>

-----------------------------------------------------------------------------
(* The caller of job j: the select on the channel and the timer. *)

Receive(j) ==
  /\ Running
  /\ call[j] = "select"
  /\ c[j] = 1
  /\ c' = [c EXCEPT ![j] = 0]
  /\ call' = [call EXCEPT ![j] = "got"]
  /\ UNCHANGED <<flags, PTSLimit, pc, i, value, run, outcome, skipIDs, gaveUp, skipped, limited, ownVars>>

\* Mutant: a timeout delivers what the result variable holds.
Timeout_result(j) ==
  /\ Running
  /\ call[j] = "select"
  /\ call' = [call EXCEPT ![j] = "returned"]
  /\ value' = [value EXCEPT ![j] = "result"]
  /\ UNCHANGED <<flags, PTSLimit, pc, i, jobVars, ownVars>>

\* time.After fires: "Kill it", the call returns nil.
Timeout(j) ==
  /\ Running
  /\ call[j] = "select"
  /\ call' = [call EXCEPT ![j] = "returned"]
  /\ UNCHANGED <<flags, PTSLimit, pc, i, value, jobVars, ownVars>>

Answered(j) == call[j] = "got" \/ (call[j] = "direct" /\ run[j] = "ended")

\* The call panics on an error and otherwise returns its result: the default
\* analysis of one main always, GoGuard's only for a comparison.
Return(j) ==
  /\ Running
  /\ flags.mode # "seq"
  /\ Answered(j)
  /\ IF outcome[j] = "error"
     THEN pc' = "crash" /\ UNCHANGED callVars
     ELSE /\ call' = [call EXCEPT ![j] = "returned"]
          /\ value' = [value EXCEPT ![j] =
               IF (j[1] = "default" /\ j[2] # 0) \/ (j[1] = "my" /\ flags.compare)
               THEN "result" ELSE "nil"]
          /\ UNCHANGED pc
  /\ UNCHANGED <<flags, PTSLimit, i, jobVars, ownVars>>

Calls(j) == Receive(j) \/ Timeout(j) \/ Return(j)

-----------------------------------------------------------------------------
(* doSeq: AnalyzeMultiMains, then DetectBugs. *)

Here == pc = "seq" /\ i \in Mains

OutOfRange == i < flags.left \/ i > flags.right

SeqSkip ==
  /\ Here
  /\ OutOfRange
  /\ i' = IF i < flags.left THEN i + 1 ELSE N + 1
  /\ UNCHANGED <<flags, PTSLimit, pc, jobVars, callVars, ownVars>>

SeqCall ==
  /\ Here
  /\ ~OutOfRange
  /\ Start(<<"my", i>>)
  /\ UNCHANGED <<flags, PTSLimit, pc, i, ownVars>>

\* An error of AnalyzeWCtx is a nil result, on which translateResult panics:
\* AnalyzeMultiMains returns an error and DoSeq panics.
SeqFail(j) ==
  /\ pc' = "crash"
  /\ call' = [call EXCEPT ![j] = "returned"]
  /\ UNCHANGED <<flags, PTSLimit, i, value, jobVars, ownVars>>

\* translateResult, and with DoDiff the run without PTSLimit.
SeqResult ==
  LET j == <<"my", i>>
  IN  /\ Here
      /\ call[j] = "direct"
      /\ run[j] = "ended"
      /\ IF outcome[j] = "error" THEN SeqFail(j)
         ELSE /\ call' = [call EXCEPT ![j] = "returned"]
              /\ results' = [results EXCEPT ![i] = "my"]
              /\ IF PTSLimit /\ flags.diff
                 THEN PTSLimit' = FALSE /\ UNCHANGED i
                 ELSE i' = i + 1 /\ UNCHANGED PTSLimit
              /\ UNCHANGED <<flags, pc, value, jobVars, compared, parallel, detected>>

SeqDiff ==
  /\ Here
  /\ call[<<"my", i>>] = "returned"
  /\ Start(<<"full", i>>)
  /\ UNCHANGED <<flags, PTSLimit, pc, i, ownVars>>

\* Mutant: the setting is not put back.
SeqCompare_off ==
  LET j == <<"full", i>>
  IN  /\ Here
      /\ call[j] = "direct"
      /\ run[j] = "ended"
      /\ IF outcome[j] = "error" THEN SeqFail(j)
         ELSE /\ call' = [call EXCEPT ![j] = "returned"]
              /\ i' = i + 1
              /\ UNCHANGED <<flags, PTSLimit, pc, value, jobVars, ownVars>>

\* The functions PTSLimit has cost are printed, the setting is put back.
SeqCompare ==
  LET j == <<"full", i>>
  IN  /\ Here
      /\ call[j] = "direct"
      /\ run[j] = "ended"
      /\ IF outcome[j] = "error" THEN SeqFail(j)
         ELSE /\ call' = [call EXCEPT ![j] = "returned"]
              /\ PTSLimit' = flags.limit
              /\ i' = i + 1
              /\ UNCHANGED <<flags, pc, value, jobVars, ownVars>>

DetectBugs ==
  /\ pc = "seq"
  /\ i = N + 1
  /\ pc' = "done"
  /\ detected' = flags.detect
  /\ UNCHANGED <<flags, PTSLimit, i, jobVars, callVars, results, compared, parallel>>

Seq == SeqSkip \/ SeqCall \/ SeqResult \/ SeqDiff \/ SeqCompare \/ DetectBugs

-----------------------------------------------------------------------------
(* DoSameRoot and DoEach. *)

WithDefault == flags.compare \/ flags.default

\* The calls of the two analyses for m, the default one first.
DefaultCall(m) == WithDefault /\ Start(<<"default", m>>)
MyCall(m) ==
  /\ ~flags.default
  /\ WithDefault => call[<<"default", m>>] = "returned"
  /\ Start(<<"my", m>>)

\* Mutant: waits for GoGuard's analysis even if only the default one runs.
CallsOver_my(m) == call[<<"my", m>>] = "returned"

\* Both have come back.
CallsOver(m) == call[<<IF flags.default THEN "default" ELSE "my", m>>] = "returned"

SameRoot ==
  /\ pc = "sameRoot"
  /\ \/ (DefaultCall(0) \/ MyCall(0)) /\ UNCHANGED pc
     \/ CallsOver(0) /\ pc' = "done" /\ UNCHANGED <<jobVars, callVars>>
  /\ UNCHANGED <<flags, PTSLimit, i, ownVars>>

EachSkip ==
  /\ pc = "each"
  /\ i \in Mains
  /\ flags.only \notin {0, i}
  /\ i' = i + 1
  /\ UNCHANGED <<flags, PTSLimit, pc, jobVars, callVars, ownVars>>

EachCall ==
  /\ pc = "each"
  /\ i \in Mains
  /\ flags.only \in {0, i}
  /\ DefaultCall(i) \/ MyCall(i)
  /\ UNCHANGED <<flags, PTSLimit, pc, i, ownVars>>

\* Mutant: compares without looking for nil.
EachNext_nil ==
  /\ pc = "each"
  /\ i \in Mains
  /\ CallsOver(i)
  /\ i' = i + 1
  /\ compared' = IF flags.compare /\ ~flags.default THEN compared \cup {i} ELSE compared
  /\ UNCHANGED <<flags, PTSLimit, pc, jobVars, callVars, results, parallel, detected>>

\* Two results are compared, "Cannot compare results due to OOT" otherwise.
EachNext ==
  /\ pc = "each"
  /\ i \in Mains
  /\ CallsOver(i)
  /\ i' = i + 1
  /\ compared' = IF /\ flags.compare /\ ~flags.default
                    /\ value[<<"default", i>>] = "result" /\ value[<<"my", i>>] = "result"
                 THEN compared \cup {i} ELSE compared
  /\ UNCHANGED <<flags, PTSLimit, pc, jobVars, callVars, results, parallel, detected>>

EachDone ==
  /\ pc = "each"
  /\ i = N + 1
  /\ pc' = "done"
  /\ UNCHANGED <<flags, PTSLimit, i, jobVars, callVars, ownVars>>

Each == EachSkip \/ EachCall \/ EachNext \/ EachDone

-----------------------------------------------------------------------------
(* DoParallel: one goroutine per main, for the first Par of them. *)
Workers == {m \in Mains : m <= Par}

\* mains[0:Par] panics when there are fewer; a goroutine is added to _wg before
\* it is started.
Spawn ==
  /\ pc = "parallel"
  /\ IF N < Par THEN pc' = "crash" /\ UNCHANGED parallel
     ELSE pc' = "wait" /\ parallel' = [m \in Mains |-> IF m \in Workers THEN "call" ELSE "none"]
  /\ UNCHANGED <<flags, PTSLimit, i, jobVars, callVars, results, compared, detected>>

WorkerCall(m) ==
  /\ pc = "wait"
  /\ parallel[m] = "call"
  /\ Start(<<"my", m>>)
  /\ UNCHANGED <<flags, PTSLimit, pc, i, ownVars>>

\* ret[main] = r_my: two goroutines in the map at a time are a fatal error,
\* if the runtime notices.
WorkerStore(m) ==
  /\ pc = "wait"
  /\ parallel[m] = "call"
  /\ call[<<"my", m>>] = "returned"
  /\ parallel' = [parallel EXCEPT ![m] = "store"]
  /\ \/ UNCHANGED pc
     \/ (\E k \in Workers : parallel[k] = "store") /\ pc' = "crash"
  /\ UNCHANGED <<flags, PTSLimit, i, jobVars, callVars, results, compared, detected>>

WorkerDone(m) ==
  /\ pc = "wait"
  /\ parallel[m] = "store"
  /\ parallel' = [parallel EXCEPT ![m] = "done"]
  /\ results' = [results EXCEPT ![m] = value[<<"my", m>>]]
  /\ UNCHANGED <<flags, PTSLimit, pc, i, jobVars, callVars, compared, detected>>

\* Mutant: waits for one goroutine only.
Wait_any ==
  /\ pc = "wait"
  /\ \E m \in Workers : parallel[m] = "done"
  /\ pc' = "done"
  /\ UNCHANGED <<flags, PTSLimit, i, jobVars, callVars, ownVars>>

\* _wg.Wait, then the results are read: a nil one is a panic.
Wait ==
  /\ pc = "wait"
  /\ \A m \in Workers : parallel[m] = "done"
  /\ pc' = IF \E m \in Workers : results[m] = "nil" THEN "crash" ELSE "done"
  /\ UNCHANGED <<flags, PTSLimit, i, jobVars, callVars, ownVars>>

Parallel == Spawn \/ Wait \/ \E m \in Workers : WorkerCall(m) \/ WorkerStore(m) \/ WorkerDone(m)

-----------------------------------------------------------------------------
Driver == Seq \/ SameRoot \/ Each \/ Parallel

Next == Driver \/ \E j \in Job : Analysis(j) \/ Calls(j)

Spec == Init /\ [][Next]_vars

\* The driver and the callers are goroutines that the scheduler serves, and
\* timers fire.  Without a time limit an analysis ends; with one it may hang
\* (no fairness), but a goroutine that has got its answer goes on.
FairSpec ==
  /\ Spec
  /\ WF_vars(Driver)
  /\ \A j \in Job : /\ WF_vars(Calls(j))
                    /\ WF_vars(Analysis(j) /\ (run[j] = "send" \/ ~flags.timeLimit \/ flags.mode = "seq"))

==============================================================================

---------------------------- MODULE FrontProperties ----------------------------
(***************************************************************************)
(* What the front end owes its users and the detectors.                    *)
(***************************************************************************)
EXTENDS FrontEnd

InRange == {m \in Mains : flags.left <= m /\ m <= flags.right}

\* A result that a call has returned is the finished, successful one of its
\* own analysis, although the result variable is shared with a goroutine
\* that may still be running: a call that timed out returns nil.
OwnAnswer ==
  \A j \in Job : value[j] = "result" => run[j] = "ended" /\ outcome[j] = "ok" /\ c[j] = 0

\* DoEach compares the two analyses of a main only if both came back in time.
ComparedInTime ==
  \A m \in compared : \A a \in {"default", "my"} :
    call[<<a, m>>] = "returned" /\ outcome[<<a, m>>] = "ok" /\ c[<<a, m>>] = 0

\* DetectBugs runs over all mains of the range and no other, each of them
\* solved under the PTSLimit the user asked for, although AnalyzeMultiMains
\* switches the flag off and on between two mains (DoDiff).
AllOrNothing ==
  detected => \A m \in Mains :
    /\ (results[m] = "my") <=> (m \in InRange)
    /\ m \in InRange => /\ limited[<<"my", m>>] = flags.limit
                        /\ outcome[<<"my", m>>] = "ok"

\* DoParallel returns only after every goroutine has stored its result, and
\* with a result for each of its mains.
ParallelComplete ==
  (flags.mode = "parallel" /\ pc = "done") =>
    \A m \in Workers : parallel[m] = "done" /\ results[m] = "result" /\ outcome[<<"my", m>>] = "ok"

\* The call of job j has come back at the timeout, without its answer.
TimedOut(j) == call[j] = "returned" /\ (run[j] # "ended" \/ c[j] = 1)

\* "these pts reach the ptsLimit, skip their solving if added to worklist":
\* although skipIDs is a package variable, an analysis skips only nodes that
\* have reached the limit in itself, if the analyses are made one after the
\* other and none has been left running at a timeout.
SkipsOwnInTime ==
  (flags.mode # "parallel" /\ ~\E j \in Job : TimedOut(j)) =>
    \A j \in Job : skipped[j] \subseteq gaveUp[j]

\* The program gets through all of its mains, whatever an analysis under a
\* time limit does.
DriverEnds == <>(pc \in {"done", "crash"})

\* The goroutine of an analysis ends once the analysis has, also when nobody
\* listens for its answer any more.
LateEnds == \A j \in Job : run[j] = "send" ~> (run[j] = "ended" \/ pc = "crash")

-----------------------------------------------------------------------------
(* The inductive invariant of the proofs. *)

FrontType ==
  /\ flags \in Setting
  /\ PTSLimit \in BOOLEAN
  /\ pc \in {"seq", "sameRoot", "each", "parallel", "wait", "done", "crash"}
  /\ i \in 1 .. N + 1
  /\ call \in [Job -> {"none", "direct", "select", "got", "returned"}]
  /\ value \in [Job -> {"nil", "result"}]
  /\ run \in [Job -> {"none", "generate", "solve", "send", "ended"}]
  /\ outcome \in [Job -> {"unset", "ok", "error"}]
  /\ c \in [Job -> {0, 1}]
  /\ limited \in [Job -> BOOLEAN]
  /\ results \in [Mains -> {"none", "my", "nil", "result"}]
  /\ parallel \in [Mains -> {"none", "call", "store", "done"}]
  /\ compared \subseteq Mains

\* A job and its caller: what each phase of the one says of the other.
JobInv(j) ==
  /\ call[j] = "none" <=> run[j] = "none"
  /\ call[j] = "direct" => run[j] # "send" /\ c[j] = 0
  /\ run[j] # "ended" => c[j] = 0
  /\ run[j] \in {"send", "ended"} <=> outcome[j] # "unset"
  /\ call[j] = "got" => run[j] = "ended" /\ c[j] = 0
  /\ value[j] = "result" =>
       call[j] = "returned" /\ run[j] = "ended" /\ outcome[j] = "ok" /\ c[j] = 0

\* doSeq at main i: the mains of the range before it are done; PTSLimit
\* differs from the setting only after GoGuard's analysis of main i.
SeqInv ==
  flags.mode = "seq" =>
    /\ pc \in {"seq", "done", "crash"}
    /\ \A m \in Mains :
         LET j == <<"my", m>> IN
           /\ call[j] \in {"none", "direct", "returned"}
           /\ call[j] # "none" => m \in InRange /\ m <= i
           /\ m < i => call[j] \in {"none", "returned"}
           /\ m \in InRange /\ m < i => results[m] = "my"
           /\ results[m] \in {"none", "my"}
           /\ results[m] = "my" => call[j] = "returned" /\ outcome[j] = "ok" /\ m \in InRange
           /\ run[j] = "solve" \/ outcome[j] = "ok" => limited[j] = flags.limit
           /\ call[j] = "returned" => run[j] = "ended" /\ (pc = "seq" => results[m] = "my")
           /\ call[<<"full", m>>] # "none" => call[j] = "returned"
    /\ PTSLimit # flags.limit => i \in Mains /\ call[<<"my", i>>] = "returned"
    /\ detected => pc \in {"done", "crash"} /\ i = N + 1

\* DoEach and DoParallel use values that their calls have returned.
ValueInv ==
  /\ \A m \in compared : \A a \in {"default", "my"} : value[<<a, m>>] = "result"
  /\ \A m \in Mains : /\ parallel[m] = "store" => call[<<"my", m>>] = "returned"
                      /\ parallel[m] = "done" => /\ call[<<"my", m>>] = "returned"
                                                 /\ results[m] = value[<<"my", m>>]
  /\ flags.mode # "seq" => ~detected
  /\ flags.mode = "parallel" => /\ pc \in {"parallel", "wait", "done", "crash"}
                                /\ \A m \in Mains : parallel[m] # "done" => results[m] = "none"
  /\ flags.mode # "parallel" => pc \notin {"parallel", "wait"}
  /\ flags.mode # "parallel" \/ pc = "parallel" => \A m \in Mains : parallel[m] = "none"
  /\ pc = "seq" => flags.mode = "seq"

FrontInv ==
  /\ FrontType
  /\ \A j \in Job : JobInv(j)
  /\ SeqInv
  /\ ValueInv
  /\ ParallelComplete

==============================================================================

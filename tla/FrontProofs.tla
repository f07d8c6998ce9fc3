------------------------------ MODULE FrontProofs ------------------------------
(***************************************************************************)
(* Proofs about the front end, for every number of mains and every setting *)
(* of the flags.                                                           *)
(***************************************************************************)
EXTENDS FrontProperties, TLAPS

LEMMA JobFacts ==
  /\ \A m \in Mains : \A a \in {"my", "default", "full"} : <<a, m>> \in Job
  /\ <<"my", 0>> \in Job /\ <<"default", 0>> \in Job
  BY FrontAssumption DEF Job, Mains

\* The variables the invariant is about.
frontVars == <<flags, PTSLimit, pc, i, call, value, run, outcome, c, limited, results, compared,
               parallel, detected>>

LEMMA FrontStutter == FrontInv /\ UNCHANGED frontVars => FrontInv'
<1>. SUFFICES ASSUME FrontInv, UNCHANGED frontVars PROVE FrontInv'
  OBVIOUS
<1>1. FrontType'
  BY DEF FrontInv, FrontType, frontVars
<1>2. \A j \in Job : JobInv(j)'
  BY DEF FrontInv, JobInv, frontVars
<1>3. SeqInv'
  BY DEF FrontInv, SeqInv, InRange, frontVars
<1>4. ValueInv' /\ ParallelComplete'
  BY DEF FrontInv, ValueInv, ParallelComplete, frontVars
<1>. QED
  BY <1>1, <1>2, <1>3, <1>4 DEF FrontInv

LEMMA FrontInit == Init => FrontInv
<1>. SUFFICES ASSUME Init PROVE FrontInv
  OBVIOUS
<1>1. flags \in Setting /\ N \in Nat \ {0}
  BY FrontAssumption DEF Init
<1>2. FrontType
  BY <1>1 DEF Init, FrontType, Setting, Mains
<1>3. \A j \in Job : JobInv(j)
  BY DEF Init, JobInv
<1>4. SeqInv
  <2>1. ASSUME NEW m \in Mains PROVE ~(m < 1)
    BY <1>1 DEF Mains
  <2>2. /\ \A j \in Job : call[j] = "none" /\ run[j] = "none" /\ outcome[j] = "unset"
        /\ \A m \in Mains : results[m] = "none"
        /\ i = 1 /\ pc = flags.mode /\ PTSLimit = flags.limit /\ ~detected
    BY DEF Init
  <2>. QED
    BY <2>1, <2>2, JobFacts DEF SeqInv
<1>5. ValueInv
  BY <1>1, JobFacts DEF Init, ValueInv, Setting
<1>6. ParallelComplete
  BY <1>1 DEF Init, ParallelComplete, Setting
<1>. QED
  BY <1>2, <1>3, <1>4, <1>5, <1>6 DEF FrontInv

-----------------------------------------------------------------------------
(* An analysis. *)

LEMMA SolveStep ==
  ASSUME FrontInv, NEW j \in Job, Solve(j), UNCHANGED <<flags, PTSLimit, pc, i, callVars, ownVars>>
  PROVE  FrontInv'
<1>1. /\ run[j] = "generate"
      /\ run' = [run EXCEPT ![j] = "solve"]
      /\ limited' = [limited EXCEPT ![j] = PTSLimit /\ j[1] # "default"]
      /\ UNCHANGED <<flags, PTSLimit, pc, i, call, value, outcome, c, results, compared, parallel, detected>>
  BY DEF Solve, callVars, ownVars
<1>2. FrontType'
  BY <1>1 DEF FrontInv, FrontType
<1>3. \A l \in Job : JobInv(l)'
  BY <1>1 DEF FrontInv, FrontType, JobInv
<1>4. SeqInv'
  <2>. SUFFICES ASSUME flags.mode = "seq" PROVE SeqInv'
    BY <1>1 DEF SeqInv
  <2>1. ASSUME NEW m \in Mains, j = <<"my", m>>
        PROVE  PTSLimit = flags.limit /\ limited'[j] = flags.limit /\ call[j] # "returned"
    <3>1. call[j] # "returned" /\ call[j] # "none"
      BY <2>1, <1>1, JobFacts DEF FrontInv, SeqInv, JobInv
    <3>2. m <= i /\ ~(m < i)
      BY <2>1, <3>1 DEF FrontInv, SeqInv
    <3>5. m \in Nat /\ i \in Nat
      BY FrontAssumption DEF FrontInv, FrontType, Mains
    <3>3. m = i
      BY <3>2, <3>5
    <3>4. PTSLimit = flags.limit
      BY <2>1, <3>1, <3>3 DEF FrontInv, SeqInv
    <3>. QED
      BY <1>1, <2>1, <3>1, <3>4 DEF FrontInv, FrontType, Setting
  <2>2. ASSUME NEW m \in Mains PROVE <<"my", m>> \in Job
    BY JobFacts
  <2>. QED
    BY <1>1, <2>1, <2>2 DEF FrontInv, FrontType, SeqInv, InRange
<1>5. ValueInv' /\ ParallelComplete'
  BY <1>1 DEF FrontInv, ValueInv, ParallelComplete
<1>. QED
  BY <1>2, <1>3, <1>4, <1>5 DEF FrontInv

LEMMA FinishStep ==
  ASSUME FrontInv, NEW j \in Job, Finish(j), UNCHANGED <<flags, PTSLimit, pc, i, callVars, ownVars>>
  PROVE  FrontInv'
<1>1. PICK o \in {"ok", "error"} :
      /\ run[j] \in {"generate", "solve"}
      /\ o = "ok" => run[j] = "solve"
      /\ outcome' = [outcome EXCEPT ![j] = o]
      /\ run' = [run EXCEPT ![j] = IF call[j] = "direct" THEN "ended" ELSE "send"]
      /\ UNCHANGED <<flags, PTSLimit, pc, i, call, value, c, limited, results, compared, parallel, detected>>
  BY DEF Finish, callVars, ownVars
<1>2. FrontType'
  BY <1>1 DEF FrontInv, FrontType
<1>3. \A l \in Job : JobInv(l)'
  BY <1>1 DEF FrontInv, FrontType, JobInv
<1>4. SeqInv'
  <2>. SUFFICES ASSUME flags.mode = "seq" PROVE SeqInv'
    BY <1>1 DEF SeqInv
  <2>1. ASSUME NEW m \in Mains, j = <<"my", m>>
        PROVE  call[j] = "direct" /\ (o = "ok" => limited[j] = flags.limit) /\ results[m] # "my"
    BY <1>1, <2>1, JobFacts DEF FrontInv, SeqInv, JobInv
  <2>2. ASSUME NEW m \in Mains PROVE <<"my", m>> \in Job
    BY JobFacts
  <2>. QED
    BY <1>1, <2>1, <2>2 DEF FrontInv, FrontType, SeqInv, InRange
<1>5. ValueInv'
  BY <1>1 DEF FrontInv, ValueInv
<1>6. ParallelComplete'
  <2>1. ASSUME NEW m \in Mains, results[m] = "result", parallel[m] = "done" PROVE run[<<"my", m>>] = "ended"
    <3>1. value[<<"my", m>>] = "result"
      BY <2>1 DEF FrontInv, ValueInv
    <3>2. <<"my", m>> \in Job
      BY JobFacts
    <3>. QED
      BY <3>1, <3>2 DEF FrontInv, JobInv
  <2>. QED
    BY <1>1, <2>1, JobFacts, ZenonT(60) DEF FrontInv, FrontType, ParallelComplete, Workers
<1>. QED
  BY <1>2, <1>3, <1>4, <1>5, <1>6 DEF FrontInv

LEMMA SendStep ==
  ASSUME FrontInv, NEW j \in Job, Send(j), UNCHANGED <<flags, PTSLimit, pc, i, callVars, ownVars>>
  PROVE  FrontInv'
<1>1. /\ run[j] = "send" /\ c[j] = 0
      /\ c' = [c EXCEPT ![j] = 1]
      /\ run' = [run EXCEPT ![j] = "ended"]
      /\ UNCHANGED <<flags, PTSLimit, pc, i, call, value, outcome, limited, results, compared, parallel, detected>>
  <2>1. c[j] \in {0, 1} /\ c[j] < 1
    BY DEF Send, FrontInv, FrontType
  <2>2. c[j] = 0
    BY <2>1
  <2>. QED
    BY <2>2 DEF Send, callVars, ownVars
<1>2. FrontType'
  BY <1>1 DEF FrontInv, FrontType
<1>3. \A l \in Job : JobInv(l)'
  BY <1>1 DEF FrontInv, FrontType, JobInv
<1>4. SeqInv'
  <2>. SUFFICES ASSUME flags.mode = "seq" PROVE SeqInv'
    BY <1>1 DEF SeqInv
  <2>2. ASSUME NEW m \in Mains PROVE <<"my", m>> \in Job
    BY JobFacts
  <2>. QED
    BY <1>1, <2>2 DEF FrontInv, FrontType, SeqInv, InRange
<1>5. ValueInv' /\ ParallelComplete'
  BY <1>1 DEF FrontInv, ValueInv, ParallelComplete
<1>. QED
  BY <1>2, <1>3, <1>4, <1>5 DEF FrontInv

\* The process dies.
LEMMA CrashStep ==
  ASSUME FrontInv, pc' = "crash",
         UNCHANGED <<flags, PTSLimit, i, call, value, run, outcome, c, limited, results, compared,
                     parallel, detected>>
  PROVE  FrontInv'
<1>1. FrontType' /\ \A l \in Job : JobInv(l)'
  BY DEF FrontInv, FrontType, JobInv
<1>2. SeqInv'
  BY DEF FrontInv, SeqInv, InRange
<1>3. ValueInv' /\ ParallelComplete'
  BY DEF FrontInv, ValueInv, ParallelComplete
<1>. QED
  BY <1>1, <1>2, <1>3 DEF FrontInv

LEMMA AnalysisStep == FrontInv /\ (\E j \in Job : Analysis(j)) => FrontInv'
<1>. SUFFICES ASSUME FrontInv, NEW j \in Job, Analysis(j) PROVE FrontInv'
  OBVIOUS
<1>1. UNCHANGED <<flags, PTSLimit, i, callVars, ownVars>>
  BY DEF Analysis
<1>2. CASE Fatal(j)
  BY <1>1, <1>2, CrashStep DEF Fatal, jobVars, callVars, ownVars
<1>3. CASE Solve(j) /\ UNCHANGED pc
  BY <1>1, <1>3, SolveStep
<1>4. CASE Finish(j) /\ UNCHANGED pc
  BY <1>1, <1>4, FinishStep
<1>5. CASE Send(j) /\ UNCHANGED pc
  BY <1>1, <1>5, SendStep
<1>6. CASE (\E n \in NodeId : GiveUp(j, n) \/ Skip(j, n)) /\ UNCHANGED pc
  BY <1>1, <1>6, FrontStutter DEF GiveUp, Skip, callVars, ownVars, frontVars
<1>. QED
  BY <1>2, <1>3, <1>4, <1>5, <1>6 DEF Analysis

-----------------------------------------------------------------------------
(* The caller of a job. *)

\* Only the call and the channel of job j change, and no result is returned.
LEMMA CallStep ==
  ASSUME FrontInv, NEW j \in Job, call[j] \in {"select", "got"} \/ (call[j] = "direct" /\ flags.mode # "seq"),
         NEW a \in {"got", "returned"}, a = "got" => run[j] = "ended",
         call' = [call EXCEPT ![j] = a],
         c' = c \/ (a = "got" /\ c' = [c EXCEPT ![j] = 0]),
         a = "got" => c'[j] = 0,
         value' = value \/ (/\ value' = [value EXCEPT ![j] = "result"]
                            /\ a = "returned" /\ run[j] = "ended" /\ outcome[j] = "ok" /\ c[j] = 0),
         UNCHANGED <<flags, PTSLimit, pc, i, run, outcome, limited, results, compared, parallel, detected>>
  PROVE  FrontInv'
<1>1. FrontType'
  BY DEF FrontInv, FrontType
<1>2. \A l \in Job : JobInv(l)'
  <2>1. ASSUME NEW l \in Job, l # j PROVE JobInv(l)'
    BY <2>1 DEF FrontInv, FrontType, JobInv
  <2>2. JobInv(j)'
    BY DEF FrontInv, FrontType, JobInv
  <2>. QED
    BY <2>1, <2>2
<1>3. SeqInv'
  <2>. SUFFICES ASSUME flags.mode = "seq" PROVE SeqInv'
    BY DEF SeqInv
  <2>1. ASSUME NEW m \in Mains PROVE <<"my", m>> \in Job /\ <<"my", m>> # j
    BY JobFacts DEF FrontInv, SeqInv
  <2>2. i \in Mains => <<"my", i>> \in Job /\ <<"my", i>> # j
    BY <2>1
  <2>. QED
    BY <2>1, <2>2 DEF FrontInv, FrontType, SeqInv, InRange
<1>4. ValueInv'
  <2>1. ASSUME NEW l \in Job, call[l] = "returned" PROVE l # j
    BY <2>1
  <2>2. ASSUME NEW l \in Job, value[l] = "result" PROVE value'[l] = "result"
    BY <2>2 DEF FrontInv, FrontType
  <2>3. ASSUME NEW m \in Mains PROVE <<"my", m>> \in Job /\ <<"default", m>> \in Job
    BY JobFacts
  <2>4. \A m \in compared : \A b \in {"default", "my"} : value'[<<b, m>>] = "result"
    <3>. SUFFICES ASSUME NEW m \in compared, NEW b \in {"default", "my"} PROVE value'[<<b, m>>] = "result"
      OBVIOUS
    <3>1. m \in Mains
      BY DEF FrontInv, FrontType
    <3>3. value[<<b, m>>] = "result"
      <4>1. \A k \in compared : \A a0 \in {"default", "my"} : value[<<a0, k>>] = "result"
        BY DEF FrontInv, ValueInv
      <4>. QED
        BY <4>1
    <3>2. <<b, m>> \in Job
      BY <2>3, <3>1
    <3>. QED
      BY <2>2, <3>2, <3>3
  <2>5. ASSUME NEW m \in Mains, call[<<"my", m>>] = "returned"
        PROVE  call'[<<"my", m>>] = "returned" /\ value'[<<"my", m>>] = value[<<"my", m>>]
    BY <2>1, <2>3, <2>5 DEF FrontInv, FrontType
  <2>. QED
    BY <2>4, <2>5 DEF FrontInv, ValueInv
<1>5. ParallelComplete'
  BY DEF FrontInv, ParallelComplete
<1>. QED
  BY <1>1, <1>2, <1>3, <1>4, <1>5 DEF FrontInv

LEMMA CallsStep == FrontInv /\ (\E j \in Job : Calls(j)) => FrontInv'
<1>. SUFFICES ASSUME FrontInv, NEW j \in Job, Calls(j) PROVE FrontInv'
  OBVIOUS
<1>1. CASE Receive(j)
  <2>1. run[j] = "ended"
    BY <1>1 DEF Receive, FrontInv, FrontType, JobInv
  <2>2. c'[j] = 0
    BY <1>1 DEF Receive, FrontInv, FrontType
  <2>. QED
    BY <1>1, <2>1, <2>2, CallStep DEF Receive, ownVars
<1>2. CASE Timeout(j)
  BY <1>2, CallStep DEF Timeout, jobVars, ownVars
<1>3. CASE Return(j)
  <2>1. flags.mode # "seq" /\ Answered(j) /\ UNCHANGED <<flags, PTSLimit, i, jobVars, ownVars>>
    BY <1>3 DEF Return
  <2>2. CASE outcome[j] = "error"
    BY <1>3, <2>1, <2>2, CrashStep DEF Return, jobVars, callVars, ownVars
  <2>3. CASE outcome[j] # "error"
    <3>1. run[j] = "ended" /\ c[j] = 0 /\ outcome[j] = "ok"
      BY <2>1, <2>3 DEF Answered, FrontInv, FrontType, JobInv
    <3>2. value[j] = "nil"
      BY <2>1 DEF Answered, FrontInv, FrontType, JobInv
    <3>3. /\ call' = [call EXCEPT ![j] = "returned"]
          /\ \/ value' = [value EXCEPT ![j] = "result"]
             \/ value' = [value EXCEPT ![j] = "nil"]
          /\ pc' = pc
      BY <1>3, <2>3 DEF Return
    <3>4. value' = value \/ value' = [value EXCEPT ![j] = "result"]
      BY <3>2, <3>3 DEF FrontInv, FrontType
    <3>. QED
      BY <2>1, <3>1, <3>3, <3>4, CallStep DEF jobVars, ownVars, Answered
  <2>. QED
    BY <2>2, <2>3
<1>. QED
  BY <1>1, <1>2, <1>3 DEF Calls

-----------------------------------------------------------------------------
(* The driver. *)

\* A call is made; in doSeq it is for main i, before or after GoGuard's analysis of it.
LEMMA StartStep ==
  ASSUME FrontInv, NEW j \in Job, Start(j), UNCHANGED <<flags, PTSLimit, pc, i, ownVars>>,
         flags.mode = "seq" =>
           \/ j = <<"my", i>> /\ i \in InRange
           \/ i \in Mains /\ j = <<"full", i>> /\ call[<<"my", i>>] = "returned"
  PROVE  FrontInv'
<1>1. PICK a \in {"direct", "select"} :
        /\ call[j] = "none"
        /\ call' = [call EXCEPT ![j] = a]
        /\ flags.mode = "seq" => a = "direct"
        /\ run' = [run EXCEPT ![j] = "generate"]
        /\ UNCHANGED <<flags, PTSLimit, pc, i, value, outcome, c, limited, results, compared, parallel, detected>>
  BY DEF Start, ownVars
<1>2. run[j] = "none" /\ c[j] = 0 /\ value[j] # "result"
  BY <1>1 DEF FrontInv, JobInv
<1>3. FrontType'
  BY <1>1 DEF FrontInv, FrontType
<1>4. \A l \in Job : JobInv(l)'
  BY <1>1, <1>2 DEF FrontInv, FrontType, JobInv
<1>5. SeqInv'
  <2>. SUFFICES ASSUME flags.mode = "seq" PROVE SeqInv'
    BY <1>1 DEF SeqInv
  <2>1. ASSUME NEW m \in Mains PROVE <<"my", m>> \in Job /\ m \in Nat /\ i \in Nat
    <3>1. <<"my", m>> \in Job
      BY JobFacts
    <3>2. m \in Nat /\ i \in Nat
      BY FrontAssumption DEF Mains, FrontInv, FrontType
    <3>. QED
      BY <3>1, <3>2
  <2>2. ASSUME NEW m \in Mains, <<"my", m>> # j
        PROVE  call'[<<"my", m>>] = call[<<"my", m>>] /\ run'[<<"my", m>>] = run[<<"my", m>>]
    BY <1>1, <2>1, <2>2 DEF FrontInv, FrontType
  <2>3. ASSUME NEW m \in Mains, <<"my", m>> = j
        PROVE  /\ m = i /\ m \in InRange /\ results[m] # "my" /\ outcome[j] # "ok"
               /\ call'[<<"my", m>>] = "direct" /\ run'[<<"my", m>>] = "generate"
    <3>1. m = i /\ m \in InRange
      BY <2>3
    <3>2. results[m] # "my"
      BY <1>1, <2>3 DEF FrontInv, SeqInv
    <3>3. outcome[j] # "ok"
      BY <1>2 DEF FrontInv, JobInv
    <3>. QED
      BY <1>1, <2>1, <2>3, <3>1, <3>2, <3>3 DEF FrontInv, FrontType
  <2>4. PTSLimit # flags.limit => i \in Mains /\ call'[<<"my", i>>] = "returned"
    BY <1>1, <2>1, <2>2, <2>3 DEF FrontInv, SeqInv
  <2>5. ASSUME NEW m \in Mains, call'[<<"full", m>>] # "none" PROVE call'[<<"my", m>>] = "returned"
    <3>1. <<"full", m>> \in Job
      BY JobFacts
    <3>2. CASE j = <<"full", m>>
      <4>1. m = i /\ call[<<"my", i>>] = "returned"
        BY <3>2
      <4>. QED
        BY <4>1, <3>2, <2>2
    <3>3. CASE j # <<"full", m>>
      <4>1. call[<<"full", m>>] # "none"
        BY <1>1, <2>5, <3>1, <3>3 DEF FrontInv, FrontType
      <4>2. call[<<"my", m>>] = "returned"
        BY <4>1 DEF FrontInv, SeqInv
      <4>. QED
        BY <1>1, <2>2, <4>2
    <3>. QED
      BY <3>2, <3>3
  <2>6. ASSUME NEW m \in Mains
        PROVE  LET l == <<"my", m>> IN
           /\ call'[l] \in {"none", "direct", "returned"}
           /\ call'[l] # "none" => m \in InRange /\ m <= i
           /\ m < i => call'[l] \in {"none", "returned"}
           /\ results[m] = "my" => call'[l] = "returned" /\ outcome[l] = "ok" /\ m \in InRange
           /\ run'[l] = "solve" \/ outcome[l] = "ok" => limited[l] = flags.limit
           /\ call'[l] = "returned" => run'[l] = "ended" /\ (pc = "seq" => results[m] = "my")
    <3>1. CASE <<"my", m>> = j
      BY <3>1, <2>1, <2>3
    <3>2. CASE <<"my", m>> # j
      BY <3>2, <2>2, ZenonT(60) DEF FrontInv, SeqInv
    <3>. QED
      BY <3>1, <3>2
  <2>. QED
    BY <1>1, <2>4, <2>5, <2>6 DEF FrontInv, SeqInv, InRange
<1>6. ValueInv'
  <2>1. ASSUME NEW m \in Mains, call[<<"my", m>>] = "returned" PROVE call'[<<"my", m>>] = "returned"
    BY <1>1, <2>1, JobFacts DEF FrontInv, FrontType
  <2>. QED
    BY <1>1, <2>1 DEF FrontInv, ValueInv
<1>7. ParallelComplete'
  BY <1>1 DEF FrontInv, ParallelComplete
<1>. QED
  BY <1>3, <1>4, <1>5, <1>6, <1>7 DEF FrontInv

\* doSeq goes to another main, main i being done with.
LEMMA AdvanceStep ==
  ASSUME FrontInv, pc = "seq", i \in Mains, NEW n \in 1 .. N + 1, n > i, i' = n,
         \A m \in Mains : (m \in InRange /\ i < m) => n <= m,
         i \in InRange => results[i] = "my",
         call[<<"my", i>>] \in {"none", "returned"},
         PTSLimit' = flags.limit \/ (PTSLimit' = PTSLimit /\ call[<<"my", i>>] # "returned"),
         \/ call' = call
         \/ /\ call[<<"full", i>>] = "direct" /\ run[<<"full", i>>] = "ended"
            /\ call' = [call EXCEPT ![<<"full", i>>] = "returned"],
         UNCHANGED <<flags, pc, value, run, outcome, c, limited, results, compared, parallel, detected>>
  PROVE  FrontInv'
<1>1. flags.mode = "seq" /\ ~detected
  BY DEF FrontInv, SeqInv, ValueInv
<1>2. PTSLimit' = flags.limit
  BY <1>1 DEF FrontInv, SeqInv
<1>7. <<"full", i>> \in Job /\ \A m \in Mains : <<"my", m>> \in Job /\ call'[<<"my", m>>] = call[<<"my", m>>]
  BY JobFacts DEF FrontInv, FrontType
<1>3. FrontType'
  BY <1>2, <1>7 DEF FrontInv, FrontType, Setting
<1>4. \A l \in Job : JobInv(l)'
  BY <1>7 DEF FrontInv, FrontType, JobInv
<1>5. SeqInv'
  <2>1. ASSUME NEW m \in Mains PROVE m \in Nat /\ i \in Nat /\ n \in Nat
    BY FrontAssumption DEF Mains, FrontInv, FrontType
  <2>2. ASSUME NEW m \in Mains, m < n
        PROVE  /\ call[<<"my", m>>] \in {"none", "returned"}
               /\ m \in InRange => results[m] = "my"
    <3>1. CASE m < i
      BY <1>1, <3>1 DEF FrontInv, SeqInv
    <3>2. CASE m = i
      BY <3>2
    <3>3. CASE i < m
      <4>1. m \notin InRange
        BY <2>1, <2>2, <3>3
      <4>. QED
        BY <4>1, <1>1 DEF FrontInv, SeqInv
    <3>. QED
      BY <2>1, <3>1, <3>2, <3>3
  <2>3. ASSUME NEW m \in Mains, call[<<"my", m>>] # "none" PROVE m \in InRange /\ m <= n
    <3>1. m \in InRange /\ m <= i
      BY <1>1, <2>3 DEF FrontInv, SeqInv
    <3>. QED
      BY <2>1, <3>1
  <2>4. ASSUME NEW m \in Mains, call'[<<"full", m>>] # "none" PROVE call[<<"my", m>>] = "returned"
    <3>1. call[<<"full", m>>] # "none"
      BY <1>7, <2>4, JobFacts DEF FrontInv, FrontType
    <3>. QED
      BY <1>1, <3>1 DEF FrontInv, SeqInv
  <2>. QED
    BY <1>1, <1>2, <1>7, <2>2, <2>3, <2>4 DEF FrontInv, SeqInv, InRange
<1>6. ValueInv' /\ ParallelComplete'
  BY <1>1, <1>7 DEF FrontInv, ValueInv, ParallelComplete
<1>. QED
  BY <1>3, <1>4, <1>5, <1>6 DEF FrontInv

\* GoGuard's result of main i is kept.
LEMMA KeepStep ==
  ASSUME FrontInv, pc = "seq", i \in Mains, call[<<"my", i>>] = "direct", run[<<"my", i>>] = "ended",
         outcome[<<"my", i>>] = "ok",
         call' = [call EXCEPT ![<<"my", i>>] = "returned"],
         results' = [results EXCEPT ![i] = "my"],
         PTSLimit' \in BOOLEAN,
         i' = i \/ (i' = i + 1 /\ PTSLimit' = PTSLimit),
         UNCHANGED <<flags, pc, value, run, outcome, c, limited, compared, parallel, detected>>
  PROVE  FrontInv'
<1>. DEFINE j == <<"my", i>>
<1>1. flags.mode = "seq" /\ ~detected /\ j \in Job /\ PTSLimit = flags.limit
  BY JobFacts DEF FrontInv, SeqInv, ValueInv
<1>2. i \in Nat /\ N \in Nat /\ i <= N
  BY FrontAssumption DEF Mains
<1>3. FrontType'
  <2>1. i' \in 1 .. N + 1
    BY <1>2 DEF FrontInv, FrontType
  <2>. QED
    BY <1>1, <2>1 DEF FrontInv, FrontType
<1>4. \A l \in Job : JobInv(l)'
  BY <1>1 DEF FrontInv, FrontType, JobInv
<1>5. SeqInv'
  <2>1. ASSUME NEW m \in Mains
        PROVE  <<"my", m>> \in Job /\ m \in Nat /\ (m # i => <<"my", m>> # j)
    <3>1. <<"my", m>> \in Job
      BY JobFacts
    <3>2. m \in Nat
      BY FrontAssumption DEF Mains
    <3>. QED
      BY <3>1, <3>2
  <2>2. /\ call'[j] = "returned" /\ results'[i] = "my" /\ i \in InRange
        /\ outcome[j] = "ok" /\ limited[j] = flags.limit
    <3>1. call'[j] = "returned" /\ results'[i] = "my"
      BY <1>1 DEF FrontInv, FrontType
    <3>. QED
      BY <3>1, <1>1 DEF FrontInv, SeqInv
  <2>9. ASSUME NEW m \in Mains
        PROVE  call'[<<"full", m>>] = call[<<"full", m>>]
    BY <1>1, JobFacts DEF FrontInv, FrontType
  <2>3. ASSUME NEW m \in Mains, m # i
        PROVE  call'[<<"my", m>>] = call[<<"my", m>>] /\ results'[m] = results[m]
    BY <1>1, <2>1, <2>3 DEF FrontInv, FrontType
  <2>4. ASSUME NEW m \in Mains, m < i' PROVE m < i \/ m = i
    <3>1. m \in Nat
      BY <2>1
    <3>2. CASE i' = i
      BY <2>4, <3>2
    <3>3. CASE i' = i + 1
      <4>1. m < i + 1
        BY <2>4, <3>3
      <4>. QED
        BY <4>1, <3>1, <1>2
    <3>. QED
      BY <3>2, <3>3
  <2>5. i <= i'
    BY <1>2
  <2>6. \A m \in Mains : m <= i => m <= i'
    BY <1>2, <2>1, <2>5
  <2>7. PTSLimit' # flags.limit => i' = i
    BY <1>1
  <2>8. ASSUME NEW m \in Mains
        PROVE  LET l == <<"my", m>> IN
           /\ call'[l] \in {"none", "direct", "returned"}
           /\ call'[l] # "none" => m \in InRange /\ m <= i'
           /\ m < i' => call'[l] \in {"none", "returned"}
           /\ m \in InRange /\ m < i' => results'[m] = "my"
           /\ results'[m] \in {"none", "my"}
           /\ results'[m] = "my" => call'[l] = "returned" /\ outcome[l] = "ok" /\ m \in InRange
           /\ run[l] = "solve" \/ outcome[l] = "ok" => limited[l] = flags.limit
           /\ call'[l] = "returned" => run[l] = "ended" /\ (pc = "seq" => results'[m] = "my")
           /\ call'[<<"full", m>>] # "none" => call'[l] = "returned"
    <3>1. CASE m = i
      BY <3>1, <2>2, <2>6, <1>2
    <3>2. CASE m # i
      <4>1. m < i' => m < i
        BY <2>4, <3>2
      <4>. QED
        BY <3>2, <4>1, <2>3, <2>6, <2>9, <1>1 DEF FrontInv, SeqInv
    <3>. QED
      BY <3>1, <3>2
  <2>. QED
    BY <1>1, <2>2, <2>7, <2>8 DEF FrontInv, SeqInv, InRange
<1>6. ValueInv'
  <2>1. flags.mode # "parallel"
    BY <1>1
  <2>2. ASSUME NEW m \in Mains PROVE parallel[m] = "none"
    BY <1>1 DEF FrontInv, ValueInv
  <2>. QED
    BY <1>1, <2>1, <2>2 DEF FrontInv, ValueInv
<1>7. ParallelComplete'
  BY <1>1 DEF ParallelComplete
<1>. QED
  BY <1>3, <1>4, <1>5, <1>6, <1>7 DEF FrontInv

\* An analysis of doSeq has failed.
LEMMA FailStep ==
  ASSUME FrontInv, pc = "seq", pc' = "crash", NEW j \in Job, call[j] = "direct", run[j] = "ended",
         call' = [call EXCEPT ![j] = "returned"],
         UNCHANGED <<flags, PTSLimit, i, value, run, outcome, c, limited, results, compared, parallel, detected>>
  PROVE  FrontInv'
<1>1. flags.mode = "seq" /\ ~detected
  BY DEF FrontInv, SeqInv, ValueInv
<1>2. FrontType'
  BY DEF FrontInv, FrontType
<1>3. \A l \in Job : JobInv(l)'
  BY DEF FrontInv, FrontType, JobInv
<1>4. SeqInv'
  <2>1. ASSUME NEW m \in Mains
        PROVE  /\ <<"my", m>> \in Job
               /\ <<"my", m>> # j => call'[<<"my", m>>] = call[<<"my", m>>]
               /\ <<"my", m>> = j => call'[<<"my", m>>] = "returned"
    BY JobFacts DEF FrontInv, FrontType
  <2>. QED
    BY <1>1, <2>1 DEF FrontInv, SeqInv, InRange
<1>5. ValueInv'
  BY <1>1 DEF FrontInv, ValueInv
<1>6. ParallelComplete'
  BY <1>1 DEF ParallelComplete
<1>. QED
  BY <1>2, <1>3, <1>4, <1>5, <1>6 DEF FrontInv

LEMMA MainFacts ==
  ASSUME FrontInv
  PROVE  /\ \A m \in Mains : m \in Nat /\ m <= N /\ m >= 1
         /\ i \in Nat /\ N \in Nat /\ 1 <= i /\ i <= N + 1
         /\ flags.left \in Nat /\ flags.right \in Nat /\ flags.limit \in BOOLEAN
  BY FrontAssumption DEF Mains, FrontInv, FrontType, Setting

LEMMA SeqStep == FrontInv /\ Seq => FrontInv'
<1>. SUFFICES ASSUME FrontInv, Seq PROVE FrontInv'
  OBVIOUS
<1>. USE MainFacts
<1>1. CASE SeqSkip
  <2>1. i \in Mains /\ pc = "seq" /\ flags.mode = "seq"
    BY <1>1 DEF SeqSkip, Here, FrontInv, ValueInv
  <2>2. i \notin InRange
    BY <1>1, <2>1 DEF SeqSkip, OutOfRange, InRange
  <2>3. call[<<"my", i>>] = "none"
    BY <2>1, <2>2 DEF FrontInv, SeqInv
  <2>4. i' \in 1 .. N + 1 /\ i' > i
    BY <1>1, <2>1 DEF SeqSkip
  <2>5. ASSUME NEW m \in Mains, m \in InRange, i < m PROVE i' <= m
    <3>1. CASE i < flags.left
      <4>1. i' = i + 1
        BY <1>1, <3>1 DEF SeqSkip
      <4>. QED
        BY <4>1, <2>5
    <3>2. CASE ~(i < flags.left)
      <4>1. i > flags.right
        BY <1>1, <3>2 DEF SeqSkip, OutOfRange
      <4>2. m <= flags.right
        BY <2>5 DEF InRange
      <4>. QED
        BY <4>1, <4>2, <2>5
    <3>. QED
      BY <3>1, <3>2
  <2>. QED
    BY <1>1, <2>1, <2>2, <2>3, <2>4, <2>5, AdvanceStep DEF SeqSkip, jobVars, callVars, ownVars
<1>2. CASE SeqCall
  <2>1. i \in Mains /\ <<"my", i>> \in Job
    BY <1>2, JobFacts DEF SeqCall, Here
  <2>2. i \in InRange
    BY <1>2, <2>1 DEF SeqCall, OutOfRange, InRange
  <2>. QED
    BY <1>2, <2>1, <2>2, StartStep DEF SeqCall
<1>3. CASE SeqResult
  <2>. DEFINE j == <<"my", i>>
  <2>1. i \in Mains /\ pc = "seq" /\ j \in Job /\ call[j] = "direct" /\ run[j] = "ended"
    BY <1>3, JobFacts DEF SeqResult, Here
  <2>2. CASE outcome[j] = "error"
    BY <1>3, <2>1, <2>2, FailStep DEF SeqResult, SeqFail, jobVars, ownVars
  <2>3. CASE outcome[j] # "error"
    <3>1. outcome[j] = "ok"
      BY <2>1, <2>3 DEF FrontInv, FrontType, JobInv
    <3>2. PTSLimit' \in BOOLEAN /\ (i' = i \/ (i' = i + 1 /\ PTSLimit' = PTSLimit))
      BY <1>3, <2>3 DEF SeqResult, FrontInv, FrontType
    <3>. QED
      BY <1>3, <2>1, <2>3, <3>1, <3>2, KeepStep DEF SeqResult, jobVars
  <2>. QED
    BY <2>2, <2>3
<1>4. CASE SeqDiff
  <2>1. i \in Mains /\ <<"full", i>> \in Job
    BY <1>4, JobFacts DEF SeqDiff, Here
  <2>. QED
    BY <1>4, <2>1, StartStep DEF SeqDiff
<1>5. CASE SeqCompare
  <2>. DEFINE j == <<"full", i>>
  <2>1. i \in Mains /\ pc = "seq" /\ j \in Job /\ call[j] = "direct" /\ run[j] = "ended"
    BY <1>5, JobFacts DEF SeqCompare, Here
  <2>2. CASE outcome[j] = "error"
    BY <1>5, <2>1, <2>2, FailStep DEF SeqCompare, SeqFail, jobVars, ownVars
  <2>3. CASE outcome[j] # "error"
    <3>1. /\ call' = [call EXCEPT ![j] = "returned"] /\ PTSLimit' = flags.limit /\ i' = i + 1
          /\ UNCHANGED <<flags, pc, value, run, outcome, c, limited, results, compared, parallel, detected>>
      BY <1>5, <2>3 DEF SeqCompare, jobVars, ownVars
    <3>2. i + 1 \in 1 .. N + 1 /\ i + 1 > i /\ \A m \in Mains : i < m => i + 1 <= m
      BY <2>1
    <3>3. flags.mode = "seq"
      BY <2>1 DEF FrontInv, ValueInv
    <3>4. call[<<"my", i>>] = "returned" /\ results[i] = "my"
      BY <2>1, <3>3 DEF FrontInv, SeqInv
    <3>. QED
      BY <2>1, <3>1, <3>2, <3>4, AdvanceStep
  <2>. QED
    BY <2>2, <2>3
<1>6. CASE DetectBugs
  <2>1. /\ pc = "seq" /\ i = N + 1 /\ pc' = "done" /\ detected' = flags.detect
        /\ UNCHANGED <<flags, PTSLimit, i, call, value, run, outcome, c, limited, results, compared, parallel>>
    BY <1>6 DEF DetectBugs, jobVars, callVars
  <2>2. flags.mode = "seq"
    BY <2>1 DEF FrontInv, ValueInv
  <2>3. FrontType' /\ \A l \in Job : JobInv(l)'
    BY <2>1 DEF FrontInv, FrontType, JobInv
  <2>4. SeqInv'
    BY <2>1, <2>2 DEF FrontInv, SeqInv, InRange
  <2>5. ValueInv' /\ ParallelComplete'
    BY <2>1, <2>2 DEF FrontInv, ValueInv, ParallelComplete
  <2>. QED
    BY <2>3, <2>4, <2>5 DEF FrontInv
<1>. QED
  BY <1>1, <1>2, <1>3, <1>4, <1>5, <1>6 DEF Seq

-----------------------------------------------------------------------------

\* DoSameRoot and DoEach go on to the next main, or end.
LEMMA EachStep ==
  ASSUME FrontInv, flags.mode \notin {"seq", "parallel"}, i' \in 1 .. N + 1, pc' \in {pc, "done"},
         compared' \subseteq Mains,
         \A m \in compared' : \A a \in {"default", "my"} : value[<<a, m>>] = "result",
         UNCHANGED <<flags, PTSLimit, call, value, run, outcome, c, limited, results, parallel, detected>>
  PROVE  FrontInv'
<1>1. FrontType' /\ \A l \in Job : JobInv(l)'
  BY DEF FrontInv, FrontType, JobInv
<1>2. SeqInv'
  BY DEF SeqInv
<1>3. ValueInv'
  BY DEF FrontInv, ValueInv
<1>4. ParallelComplete'
  BY DEF ParallelComplete
<1>. QED
  BY <1>1, <1>2, <1>3, <1>4 DEF FrontInv

LEMMA SameRootStep == FrontInv /\ SameRoot => FrontInv'
<1>. SUFFICES ASSUME FrontInv, SameRoot PROVE FrontInv'
  OBVIOUS
<1>1. pc = "sameRoot" /\ flags.mode \notin {"seq", "parallel"} /\ UNCHANGED <<flags, PTSLimit, i, ownVars>>
  BY DEF SameRoot, FrontInv, SeqInv, ValueInv
<1>2. CASE (DefaultCall(0) \/ MyCall(0)) /\ UNCHANGED pc
  BY <1>1, <1>2, StartStep, JobFacts DEF DefaultCall, MyCall
<1>3. CASE pc' = "done" /\ UNCHANGED <<jobVars, callVars>>
  <2>1. compared' \subseteq Mains /\ i' \in 1 .. N + 1
    BY <1>1 DEF FrontInv, FrontType, ownVars
  <2>2. \A m \in compared' : \A a \in {"default", "my"} : value[<<a, m>>] = "result"
    BY <1>1 DEF FrontInv, ValueInv, ownVars
  <2>. QED
    BY <1>1, <1>3, <2>1, <2>2, EachStep DEF jobVars, callVars, ownVars
<1>. QED
  BY <1>2, <1>3 DEF SameRoot

LEMMA EachesStep == FrontInv /\ Each => FrontInv'
<1>. SUFFICES ASSUME FrontInv, Each PROVE FrontInv'
  OBVIOUS
<1>1. pc = "each" /\ flags.mode \notin {"seq", "parallel"}
  BY DEF Each, EachSkip, EachCall, EachNext, EachDone, FrontInv, SeqInv, ValueInv
<1>2. compared \subseteq Mains /\ \A m \in compared : \A a \in {"default", "my"} : value[<<a, m>>] = "result"
  BY DEF FrontInv, FrontType, ValueInv
<1>3. i \in Mains => i \in 1 .. N + 1 /\ i + 1 \in 1 .. N + 1
  BY MainFacts
<1>4. CASE EachSkip
  BY <1>1, <1>2, <1>3, <1>4, EachStep DEF EachSkip, jobVars, callVars, ownVars
<1>5. CASE EachCall
  <2>1. i \in Mains /\ (Start(<<"default", i>>) \/ Start(<<"my", i>>))
        /\ UNCHANGED <<flags, PTSLimit, pc, i, ownVars>>
    BY <1>5 DEF EachCall, DefaultCall, MyCall
  <2>2. <<"default", i>> \in Job /\ <<"my", i>> \in Job
    BY <2>1, JobFacts
  <2>. QED
    BY <1>1, <2>1, <2>2, StartStep
<1>6. CASE EachNext
  <2>1. /\ i \in Mains /\ i' = i + 1
        /\ \/ compared' = compared
           \/ /\ compared' = compared \cup {i}
              /\ value[<<"default", i>>] = "result" /\ value[<<"my", i>>] = "result"
        /\ UNCHANGED <<flags, PTSLimit, pc, jobVars, callVars, results, parallel, detected>>
    BY <1>6 DEF EachNext
  <2>2. compared' \subseteq Mains
    BY <1>2, <2>1
  <2>3. \A m \in compared' : \A a \in {"default", "my"} : value[<<a, m>>] = "result"
    <3>. SUFFICES ASSUME NEW m \in compared', NEW a \in {"default", "my"} PROVE value[<<a, m>>] = "result"
      OBVIOUS
    <3>1. CASE m \in compared
      BY <1>2, <3>1
    <3>2. CASE m = i /\ value[<<"default", i>>] = "result" /\ value[<<"my", i>>] = "result"
      BY <3>2
    <3>. QED
      BY <2>1, <3>1, <3>2
  <2>. QED
    BY <1>1, <1>3, <2>1, <2>2, <2>3, EachStep DEF jobVars, callVars
<1>7. CASE EachDone
  <2>1. i' \in 1 .. N + 1
    BY <1>7 DEF EachDone, FrontInv, FrontType
  <2>. QED
    BY <1>1, <1>2, <1>7, <2>1, EachStep DEF EachDone, jobVars, callVars, ownVars
<1>. QED
  BY <1>4, <1>5, <1>6, <1>7 DEF Each

\* DoParallel and its goroutines.
LEMMA ParallelStep == FrontInv /\ Parallel => FrontInv'
<1>. SUFFICES ASSUME FrontInv, Parallel PROVE FrontInv'
  OBVIOUS
<1>1. flags.mode = "parallel" /\ pc \in {"parallel", "wait"}
  BY DEF Parallel, Spawn, Wait, WorkerCall, WorkerStore, WorkerDone, FrontInv, ValueInv
<1>2. CASE Spawn
  <2>0. UNCHANGED <<flags, PTSLimit, i, call, value, run, outcome, c, limited, results, compared, detected>>
    BY <1>2 DEF Spawn, jobVars, callVars
  <2>1. CASE pc' = "crash" /\ UNCHANGED parallel
    BY <2>0, <2>1, CrashStep
  <2>2. CASE pc' = "wait" /\ parallel' = [m \in Mains |-> IF m \in Workers THEN "call" ELSE "none"]
    <3>1. FrontType' /\ \A l \in Job : JobInv(l)'
      BY <2>0, <2>2 DEF FrontInv, FrontType, JobInv
    <3>2. SeqInv'
      BY <1>1, <2>0 DEF SeqInv
    <3>3. \A m \in Mains : results[m] = "none"
      BY <1>1, <1>2, <2>2 DEF Spawn, FrontInv, ValueInv
    <3>4. ValueInv' /\ ParallelComplete'
      BY <1>1, <2>0, <2>2, <3>3 DEF FrontInv, ValueInv, ParallelComplete
    <3>. QED
      BY <3>1, <3>2, <3>4 DEF FrontInv
  <2>. QED
    BY <1>2, <2>1, <2>2 DEF Spawn
<1>3. ASSUME NEW m \in Workers, WorkerCall(m) PROVE FrontInv'
  <2>1. <<"my", m>> \in Job
    BY JobFacts DEF Workers
  <2>. QED
    BY <1>1, <1>3, <2>1, StartStep DEF WorkerCall
<1>4. ASSUME NEW m \in Workers, WorkerStore(m) PROVE FrontInv'
  <2>0. /\ m \in Mains /\ call[<<"my", m>>] = "returned" /\ pc = "wait" /\ parallel[m] = "call"
        /\ parallel' = [parallel EXCEPT ![m] = "store"] /\ pc' \in {"wait", "crash"}
        /\ UNCHANGED <<flags, PTSLimit, i, call, value, run, outcome, c, limited, results, compared, detected>>
    BY <1>4 DEF WorkerStore, Workers, jobVars, callVars
  <2>1. FrontType' /\ \A l \in Job : JobInv(l)'
    BY <2>0 DEF FrontInv, FrontType, JobInv
  <2>2. SeqInv' /\ ParallelComplete'
    BY <1>1, <2>0 DEF SeqInv, ParallelComplete
  <2>3. ValueInv'
    BY <1>1, <2>0 DEF FrontInv, FrontType, ValueInv
  <2>. QED
    BY <2>1, <2>2, <2>3 DEF FrontInv
<1>5. ASSUME NEW m \in Workers, WorkerDone(m) PROVE FrontInv'
  <2>0. /\ m \in Mains /\ pc = "wait" /\ parallel[m] = "store"
        /\ parallel' = [parallel EXCEPT ![m] = "done"]
        /\ results' = [results EXCEPT ![m] = value[<<"my", m>>]]
        /\ UNCHANGED <<flags, PTSLimit, pc, i, call, value, run, outcome, c, limited, compared, detected>>
    BY <1>5 DEF WorkerDone, Workers, jobVars, callVars
  <2>4. value[<<"my", m>>] \in {"nil", "result"}
    BY <2>0, JobFacts DEF FrontInv, FrontType
  <2>1. FrontType' /\ \A l \in Job : JobInv(l)'
    BY <2>0, <2>4 DEF FrontInv, FrontType, JobInv
  <2>2. SeqInv' /\ ParallelComplete'
    BY <1>1, <2>0 DEF SeqInv, ParallelComplete
  <2>3. ValueInv'
    BY <1>1, <2>0 DEF FrontInv, FrontType, ValueInv
  <2>. QED
    BY <2>1, <2>2, <2>3 DEF FrontInv
<1>6. CASE Wait
  <2>0. /\ \A m \in Workers : parallel[m] = "done"
        /\ pc' = IF \E m \in Workers : results[m] = "nil" THEN "crash" ELSE "done"
        /\ UNCHANGED <<flags, PTSLimit, i, call, value, run, outcome, c, limited, results, compared,
                       parallel, detected>>
    BY <1>6 DEF Wait, jobVars, callVars, ownVars
  <2>1. FrontType' /\ \A l \in Job : JobInv(l)'
    BY <2>0 DEF FrontInv, FrontType, JobInv
  <2>2. SeqInv' /\ ValueInv'
    BY <1>1, <2>0 DEF FrontInv, SeqInv, ValueInv
  <2>3. ASSUME NEW m \in Workers, pc' = "done" PROVE results[m] = "result" /\ outcome[<<"my", m>>] = "ok"
    <3>1. m \in Mains /\ <<"my", m>> \in Job
      BY JobFacts DEF Workers
    <3>2. results[m] = value[<<"my", m>>]
      BY <2>0, <3>1 DEF FrontInv, ValueInv
    <3>3. value[<<"my", m>>] = "result"
      BY <2>0, <2>3, <3>1, <3>2 DEF FrontInv, FrontType
    <3>. QED
      BY <3>1, <3>2, <3>3 DEF FrontInv, JobInv
  <2>4. ParallelComplete'
    BY <2>0, <2>3 DEF ParallelComplete
  <2>. QED
    BY <2>1, <2>2, <2>4 DEF FrontInv
<1>. QED
  BY <1>2, <1>3, <1>4, <1>5, <1>6 DEF Parallel

-----------------------------------------------------------------------------

\* The phases of each analysis, of its caller and of the driver fit together
\* in every reachable state: the inductive invariant of the front end.
THEOREM FrontInductive == Spec => []FrontInv
<1>1. FrontInv /\ [Next]_vars => FrontInv'
  <2>. SUFFICES ASSUME FrontInv, [Next]_vars PROVE FrontInv'
    OBVIOUS
  <2>1. CASE Driver
    BY <2>1, SeqStep, SameRootStep, EachesStep, ParallelStep DEF Driver
  <2>2. CASE UNCHANGED vars
    BY <2>2, FrontStutter DEF vars, jobVars, callVars, ownVars, frontVars
  <2>. QED
    BY <2>1, <2>2, AnalysisStep, CallsStep DEF Next
<1>. QED
  BY FrontInit, <1>1, PTL DEF Spec

\* AnalyzeMultiMains, DoEachMainMy and doEachMainDefault never hand out what
\* an analysis has left behind that did not finish, or not in time.
THEOREM FrontOwnAnswer == Spec => []OwnAnswer
<1>1. FrontInv => OwnAnswer
  BY DEF FrontInv, JobInv, OwnAnswer
<1>. QED
  BY <1>1, FrontInductive, PTL

\* DoEach compares only two results that both came back in time.
THEOREM FrontComparedInTime == Spec => []ComparedInTime
<1>1. FrontInv => ComparedInTime
  <2>. SUFFICES ASSUME FrontInv, NEW m \in compared, NEW a \in {"default", "my"}
                PROVE  call[<<a, m>>] = "returned" /\ outcome[<<a, m>>] = "ok" /\ c[<<a, m>>] = 0
    BY DEF ComparedInTime
  <2>1. \A k \in compared : \A b \in {"default", "my"} : value[<<b, k>>] = "result"
    BY DEF FrontInv, ValueInv
  <2>2. m \in Mains
    BY DEF FrontInv, FrontType
  <2>3. <<a, m>> \in Job
    BY <2>2, JobFacts
  <2>4. value[<<a, m>>] = "result"
    BY <2>1
  <2>. QED
    BY <2>3, <2>4 DEF FrontInv, JobInv
<1>. QED
  BY <1>1, FrontInductive, PTL

\* When doSeq hands over to the detectors, it has the result of every main
\* of the range, each of them solved under the PTSLimit of the settings.
THEOREM FrontAllOrNothing == Spec => []AllOrNothing
<1>1. FrontInv => AllOrNothing
  <2>. SUFFICES ASSUME FrontInv, detected, NEW m \in Mains
                PROVE  /\ (results[m] = "my") <=> (m \in InRange)
                       /\ m \in InRange => limited[<<"my", m>>] = flags.limit /\ outcome[<<"my", m>>] = "ok"
    BY DEF AllOrNothing
  <2>1. flags.mode = "seq"
    BY DEF FrontInv, ValueInv
  <2>2. i = N + 1
    BY <2>1 DEF FrontInv, SeqInv
  <2>3. m < i
    BY <2>2, MainFacts
  <2>. QED
    BY <2>1, <2>3 DEF FrontInv, SeqInv
<1>. QED
  BY <1>1, FrontInductive, PTL

\* DoParallel ends normally only with the finished result of each goroutine.
THEOREM FrontParallelComplete == Spec => []ParallelComplete
<1>1. FrontInv => ParallelComplete
  BY DEF FrontInv
<1>. QED
  BY <1>1, FrontInductive, PTL

==============================================================================

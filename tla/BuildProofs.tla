------------------------------ MODULE BuildProofs ------------------------------
(***************************************************************************)
(* Proofs about the builder, for every set of programs that satisfy        *)
(* IsProgram, every limit and both values of DoRace.                       *)
(*                                                                         *)
(* BuildInv is inductive: the graph is well built after every step, and    *)
(* every activation goes on from nodes of its own goroutine.  Parts        *)
(* states GraphInv node by node; a lemma for every operation on the graph  *)
(* says that it keeps GraphInv and, by Grows, what activations know of the *)
(* nodes.  Then there is one lemma for every action (NextBlockStep ...     *)
(* LeaveStep), and BuildStep combines them.                                *)
(***************************************************************************)
EXTENDS BuildProperties, FiniteSetTheorems, SequenceTheorems, TLAPS

-----------------------------------------------------------------------------
(* Induction over the naturals, for sets instead of predicates, and the      *)
(* increasing enumeration of a finite set of numbers.                        *)

LEMMA NatInd ==
  ASSUME NEW S \in SUBSET Nat, 0 \in S, \A n \in S : n + 1 \in S PROVE S = Nat
<1>1. SUFFICES ASSUME NEW k \in Nat, k \notin S PROVE FALSE
  OBVIOUS
<1>. DEFINE U == 0 .. k
            T == {X \in SUBSET U : \E n \in Nat \ S : X = 0 .. n}
<1>2. IsFiniteSet(U)
  BY FS_Interval
<1>3. IsWellFoundedOn(StrictSubsetOrdering(U), SUBSET U)
  <2>. HIDE DEF U
  <2>. QED BY <1>2, FS_StrictSubsetOrderingWellFounded, FS_FiniteSubsetsOfFinite
<1>4. T # {} /\ T \subseteq SUBSET U
  BY <1>1
<1>5. PICK X \in T : \A Y \in T : ~ (<<Y, X>> \in StrictSubsetOrdering(U))
  <2>. HIDE DEF T, U
  <2>. QED BY <1>3, <1>4, WFMin
<1>6. PICK n \in Nat \ S : X = 0 .. n
  BY <1>5
<1>7. n # 0 /\ n - 1 \in Nat \ S
  BY <1>6
<1>8. 0 .. n - 1 \in T
  BY <1>6, <1>7, SMTT(20)
<1>9. 0 .. n - 1 \subseteq X /\ X # 0 .. n - 1 /\ X \in SUBSET U
  <2>1. n \in X /\ n \notin 0 .. n - 1
    BY <1>6
  <2>. QED BY <1>5, <1>6, <1>7, <2>1, SMTT(20)
<1>10. <<0 .. n - 1, X>> \in StrictSubsetOrdering(U)
  BY <1>9, <1>8 DEF StrictSubsetOrdering
<1>. QED BY <1>5, <1>8, <1>10

Rising(s) == \A i, j \in DOMAIN s : i < j => s[i] < s[j]

LEMMA RisingExists ==
  ASSUME NEW k \in Nat, NEW S \in SUBSET (0 .. k)
  PROVE  Cardinality(S) \in Nat /\ \E s \in [1 .. Cardinality(S) -> S] : Rising(s)
<1>. DEFINE Good(T) == IsFiniteSet(T) /\ \E s \in [1 .. Cardinality(T) -> T] : Rising(s)
            M == {n \in Nat : \A T \in SUBSET (0 .. n - 1) : Good(T)}
<1>1. 0 \in M
  <2>1. ASSUME NEW T \in SUBSET (0 .. 0 - 1) PROVE Good(T)
    <3>1. T = {}
      OBVIOUS
    <3>1a. IsFiniteSet(T) /\ Cardinality(T) = 0
      <4>. HIDE DEF Good
      <4>. QED BY <3>1, FS_EmptySet
    <3>2. [i \in {} |-> 0] \in [1 .. Cardinality(T) -> T] /\ Rising([i \in {} |-> 0])
      BY <3>1, <3>1a DEF Rising
    <3>. QED BY <3>1a, <3>2
  <2>. HIDE DEF Good
  <2>. QED BY <2>1
<1>2. ASSUME NEW n \in M PROVE n + 1 \in M
  <2>0. n \in Nat
    OBVIOUS
  <2>1. ASSUME NEW T \in SUBSET (0 .. n) PROVE Good(T)
    <3>. DEFINE R == T \ {n}
    <3>1. R \in SUBSET (0 .. n - 1)
      BY <2>0
    <3>2. Good(R)
      <4>. HIDE DEF Good, R
      <4>. QED BY <3>1
    <3>3. CASE n \notin T
      <4>1. R = T
        BY <3>3
      <4>. HIDE DEF Good, R
      <4>. QED BY <4>1, <3>2
    <3>4. CASE n \in T
      <4>1. IsFiniteSet(T) /\ Cardinality(T) = Cardinality(R) + 1 /\ Cardinality(R) \in Nat
        <5>1. T = R \cup {n} /\ n \notin R
          BY <3>4
        <5>. HIDE DEF R
        <5>. QED BY <3>2, <5>1, FS_AddElement, FS_CardinalityType
      <4>2. PICK s \in [1 .. Cardinality(R) -> R] : Rising(s)
        BY <3>2
      <4>. DEFINE t == [i \in 1 .. Cardinality(T) |-> IF i = Cardinality(T) THEN n ELSE s[i]]
      <4>3. R \subseteq T
        OBVIOUS
      <4>4. \A i \in R : i < n /\ i \in Nat
        BY <3>1, <2>0
      <4>. HIDE DEF R
      <4>5. t \in [1 .. Cardinality(T) -> T]
        <5>1. ASSUME NEW i \in 1 .. Cardinality(T), i # Cardinality(T) PROVE s[i] \in T
          <6>1. i \in 1 .. Cardinality(R)
            BY <4>1, <5>1
          <6>. QED BY <6>1, <4>3
        <5>. QED BY <5>1, <3>4
      <4>6. \A i \in 1 .. Cardinality(R) : s[i] < n /\ s[i] \in Nat
        BY <4>4
      <4>7. ASSUME NEW i \in DOMAIN t, NEW j \in DOMAIN t, i < j PROVE t[i] < t[j]
        <5>1. i \in 1 .. Cardinality(R) /\ j \in 1 .. Cardinality(R) + 1
          BY <4>1, <4>7
        <5>2. CASE j = Cardinality(T)
          BY <4>1, <4>6, <5>1, <5>2, <2>0
        <5>3. CASE j # Cardinality(T)
          BY <4>1, <4>2, <5>1, <5>3, <4>7 DEF Rising
        <5>. QED BY <5>2, <5>3
      <4>8. Rising(t)
        BY <4>7 DEF Rising
      <4>. QED BY <4>1, <4>5, <4>8
    <3>. QED BY <3>3, <3>4
  <2>. HIDE DEF Good
  <2>2. 0 .. (n + 1) - 1 = 0 .. n
    BY <2>0
  <2>. QED BY <2>0, <2>1, <2>2
<1>3. M = Nat
  <2>. HIDE DEF M
  <2>1. M \subseteq Nat
    BY DEF M
  <2>. QED BY <1>1, <1>2, <2>1, NatInd
<1>4. Good(S)
  <2>0. (k + 1) - 1 = k
    OBVIOUS
  <2>1. \A T \in SUBSET (0 .. (k + 1) - 1) : Good(T)
    <3>. HIDE DEF Good
    <3>. QED BY <1>3
  <2>. HIDE DEF Good
  <2>. QED BY <2>0, <2>1
<1>. QED BY <1>4, FS_CardinalityType

\* Ascending lists the numbers of a set, each once, the smaller ones first.
LEMMA AscendingType ==
  ASSUME NEW k \in Nat, NEW S \in SUBSET (0 .. k)
  PROVE  /\ Ascending(S) \in Seq(S)
         /\ Len(Ascending(S)) = Cardinality(S)
         /\ Rising(Ascending(S))
<1>1. Cardinality(S) \in Nat /\ Ascending(S) \in [1 .. Cardinality(S) -> S] /\ Rising(Ascending(S))
  BY RisingExists DEF Ascending, Rising
<1>. QED BY <1>1, IsASeq

-----------------------------------------------------------------------------
(* Searching the blocks (SSA): what Repeat computes stays in a set that its   *)
(* step does not leave.                                                       *)

Chain(Q, k, X, x0, step) == Q \in [0 .. k -> X] /\ Q[0] = x0 /\ \A m \in 1 .. k : Q[m] = step[Q[m - 1]]

LEMMA ChainExists ==
  ASSUME NEW X, NEW x0 \in X, NEW step \in [X -> X], NEW n \in Nat
  PROVE  \E Q : Chain(Q, n, X, x0, step)
<1>. DEFINE S == {k \in Nat : \E Q : Chain(Q, k, X, x0, step)}
<1>1. 0 \in S
  <2>1. Chain([m \in 0 .. 0 |-> x0], 0, X, x0, step)
    BY DEF Chain
  <2>. QED BY <2>1
<1>2. ASSUME NEW k \in S PROVE k + 1 \in S
  <2>1. PICK Q : Chain(Q, k, X, x0, step)
    BY <1>2
  <2>. DEFINE P == [m \in 0 .. k + 1 |-> IF m = k + 1 THEN step[Q[k]] ELSE Q[m]]
  <2>4. Chain(P, k + 1, X, x0, step)
    BY <2>1 DEF Chain
  <2>. QED BY <2>4
<1>3. S = Nat
  <2>. HIDE DEF S
  <2>1. S \subseteq Nat
    BY DEF S
  <2>. QED BY <1>1, <1>2, <2>1, NatInd
<1>. QED BY <1>3

\* A function that follows step wherever it is in X stays in X.
LEMMA ChainStays ==
  ASSUME NEW X, NEW n \in Nat, NEW R, R[0] \in X,
         \A m \in 1 .. n : R[m - 1] \in X => R[m] \in X
  PROVE  R[n] \in X
<1>. DEFINE S == {k \in Nat : k <= n => R[k] \in X}
<1>1. 0 \in S
  OBVIOUS
<1>2. ASSUME NEW k \in S PROVE k + 1 \in S
  <2>1. k + 1 <= n => k + 1 \in 1 .. n /\ (k + 1) - 1 = k /\ k <= n
    OBVIOUS
  <2>. QED BY <1>2, <2>1
<1>3. S = Nat
  <2>. HIDE DEF S
  <2>1. S \subseteq Nat
    BY DEF S
  <2>. QED BY <1>1, <1>2, <2>1, NatInd
<1>. QED BY <1>3

LEMMA ChooseOne == ASSUME NEW v PROVE (CHOOSE y \in {v} : TRUE) = v
  OBVIOUS

LEMMA SearchType ==
  ASSUME NEW bs, IsSeq(bs), NEW D, D = DOMAIN bs, \A b \in D : bs[b].succs \in Seq(D),
         NEW queue \in Seq(D), NEW visits \in SUBSET D, NEW ends
  PROVE  Search(bs, queue, visits, ends) \in Seq(D)
<1>. DEFINE Step(st) ==
        LET b == Head(st.queue)
        IN  CASE st.queue = <<>> -> st
              [] b \in visits /\ b \notin ToSet(st.found) ->
                   [queue |-> Tail(st.queue) \o (IF b \in ends THEN <<>> ELSE bs[b].succs),
                    found |-> Append(st.found, b)]
              [] OTHER -> [st EXCEPT !.queue = Tail(@)]
            X == [queue : Seq(D), found : Seq(D)]
            x0 == [queue |-> queue, found |-> <<>>]
            n == 2 * Len(bs) + 2
            step == [x \in X |-> Step(x)]
            Def(Q) == Q = [m \in 0 .. n |-> IF m = 0 THEN x0 ELSE CHOOSE y \in {Step(x) : x \in {Q[m - 1]}} : TRUE]
            R == CHOOSE Q : Def(Q)
<1>1. ASSUME NEW st \in X PROVE Step(st) \in X
  <2>0. st.queue \in Seq(D) /\ st.found \in Seq(D)
    OBVIOUS
  <2>. DEFINE c == Head(st.queue)
              more == IF c \in ends THEN <<>> ELSE bs[c].succs
              found == [queue |-> Tail(st.queue) \o more, found |-> Append(st.found, c)]
              other == [st EXCEPT !.queue = Tail(@)]
  <2>1. CASE st.queue = <<>>
    BY <2>1
  <2>2. CASE st.queue # <<>>
    <3>1. c \in D /\ Tail(st.queue) \in Seq(D)
      BY <2>0, <2>2, HeadTailProperties
    <3>2. more \in Seq(D)
      <4>1. bs[c].succs \in Seq(D)
        <5>. HIDE DEF c
        <5>. QED BY <3>1
      <4>. HIDE DEF c
      <4>. QED BY <4>1, EmptySeq
    <3>3. Tail(st.queue) \o more \in Seq(D) /\ Append(st.found, c) \in Seq(D)
      <4>. HIDE DEF more, c
      <4>. QED BY <2>0, <3>1, <3>2
    <3>4. found \in X
      <4>. HIDE DEF more, c
      <4>. QED BY <3>3
    <3>5. other \in X
      BY <2>0, <3>1
    <3>6. Step(st) = found \/ Step(st) = other
      <4>. HIDE DEF X
      <4>. QED BY <2>2
    <3>. HIDE DEF found, other, Step, X
    <3>. QED BY <3>4, <3>5, <3>6
  <2>. QED BY <2>1, <2>2
<1>2. n \in Nat /\ x0 \in X
  BY DEF IsSeq
<1>3. step \in [X -> X]
  BY <1>1
<1>4. PICK Q : Chain(Q, n, X, x0, step)
  <2>. HIDE DEF step, X, n, x0
  <2>. QED BY <1>2, <1>3, ChainExists
<1>5. Def(Q)
  <2>1. ASSUME NEW m \in 1 .. n PROVE Q[m] = CHOOSE y \in {Step(x) : x \in {Q[m - 1]}} : TRUE
    <3>1. Q[m - 1] \in X /\ Q[m] = step[Q[m - 1]]
      <4>. HIDE DEF Step, X, n, x0, step
      <4>. QED BY <1>4, <1>2 DEF Chain
    <3>2. Q[m] = Step(Q[m - 1])
      <4>. HIDE DEF X, Step
      <4>. QED BY <3>1
    <3>3. {Step(x) : x \in {Q[m - 1]}} = {Step(Q[m - 1])}
      <4>. HIDE DEF X, Step
      <4>. QED OBVIOUS
    <3>. HIDE DEF Step
    <3>. QED BY <3>2, <3>3, ChooseOne
  <2>. HIDE DEF Step, X, n, x0
  <2>. QED BY <1>2, <1>4, <2>1 DEF Chain
<1>6. Def(R)
  <2>. HIDE DEF Def
  <2>. QED BY <1>5
<1>7. R[n] \in X
  <2>1. R[0] \in X
    <3>. HIDE DEF Step, X, n, x0, R
    <3>. QED BY <1>2, <1>6
  <2>2. ASSUME NEW m \in 1 .. n, R[m - 1] \in X PROVE R[m] \in X
    <3>1. R[m] = CHOOSE y \in {Step(x) : x \in {R[m - 1]}} : TRUE
      <4>. HIDE DEF Step, X, n, x0, R
      <4>. QED BY <1>2, <1>6
    <3>2. {Step(x) : x \in {R[m - 1]}} = {Step(R[m - 1])}
      <4>. HIDE DEF Step, R
      <4>. QED OBVIOUS
    <3>3. Step(R[m - 1]) \in X
      <4>. HIDE DEF Step, X, R
      <4>. QED BY <1>1, <2>2
    <3>. HIDE DEF Step, X, R
    <3>. QED BY <3>1, <3>2, <3>3, ChooseOne
  <2>. HIDE DEF X, R, n
  <2>. QED BY <1>2, <2>1, <2>2, ChainStays
<1>8. Search(bs, queue, visits, ends) = R[n].found
  BY DEF Search, Repeat
<1>. QED
  <2>. HIDE DEF R, n
  <2>. QED BY <1>7, <1>8

\* The blocks of a program are linked to blocks of the same function.
Linked(bs) ==
  /\ IsSeq(bs)
  /\ \A b \in DOMAIN bs : /\ bs[b].succs \in Seq(DOMAIN bs)
                          /\ bs[b].comment \in DOMAIN LoopOf \ {"for.body"} => Len(bs[b].succs) = 2

LEMMA LoopBlocks ==
  ASSUME NEW bs, Linked(bs), NEW start \in DOMAIN bs, NEW skips,
         bs[start].comment \in DOMAIN LoopOf, bs[start].succs # <<>>
  PROVE  getLoopBBs(bs, start, skips) \in Seq(DOMAIN bs)
<1>. DEFINE D == DOMAIN bs
            isFor == bs[start].comment = "for.body"
            first == bs[start].succs[1]
            body == IF isFor \/ bs[first].comment \in RangeBodies THEN first ELSE bs[start].succs[2]
            visits == {b \in DOMAIN bs : b > start /\ bs[b].comment \notin {"recover", "for.done"}}
                        \ (skips \cup {body})
            found == Search(bs, bs[body].succs, visits, {})
<1>1. bs[start].succs \in Seq(D) /\ Len(bs[start].succs) \in Nat \ {0}
  BY DEF Linked
<1>2. first \in D
  BY <1>1
<1>3. body \in D
  <2>1. CASE isFor
    BY <1>2, <2>1
  <2>2. CASE ~isFor
    <3>1. Len(bs[start].succs) = 2
      BY <2>2 DEF Linked
    <3>2. bs[start].succs[2] \in D
      BY <1>1, <3>1
    <3>. QED BY <1>2, <3>2
  <2>. QED BY <2>1, <2>2
<1>4. found \in Seq(D)
  <2>1. visits \in SUBSET D /\ bs[body].succs \in Seq(D)
    <3>. HIDE DEF body
    <3>. QED BY <1>3 DEF Linked
  <2>. HIDE DEF visits, body
  <2>. QED BY <2>1, SearchType DEF Linked
<1>5. getLoopBBs(bs, start, skips) = (IF isFor THEN <<start>> ELSE <<>>) \o <<body>> \o found
  BY DEF getLoopBBs
<1>6. (IF isFor THEN <<start>> ELSE <<>>) \in Seq(D) /\ <<body>> \in Seq(D)
  <2>1. start \in D
    OBVIOUS
  <2>. HIDE DEF body, D, isFor
  <2>2. <<start>> \in Seq(D) /\ <<body>> \in Seq(D)
    BY <1>3, <2>1
  <2>. QED BY <2>2, EmptySeq
<1>. HIDE DEF isFor, body, found, D
<1>. QED BY <1>4, <1>5, <1>6, ConcatProperties DEF D

LEMMA ChainBodies ==
  ASSUME NEW bs, Linked(bs), NEW sel \in DOMAIN bs, NEW blocking
  PROVE  CaseChain(bs, sel, blocking).bodies \in Seq(0 .. Len(bs))
<1>. DEFINE D == 0 .. Len(bs)
            short(s) == bs[s].two
            default(s) == /\ SelectNext(bs[s]) /\ ~blocking
                          /\ ~(short(s) /\ bs[s].term \in {"panic", "if"})
            bodies(st) == IF default(st.at) THEN Append(st.bodies, st.at) ELSE st.bodies
            stop(st) == [at |-> 0, bodies |-> bodies(st), chain |-> st.chain \cup {st.at}]
            body(s) == bs[s].succs[1]
            onward(s) == Len(bs[s].succs) > 1 /\ SelectNext(bs[bs[s].succs[2]])
            next(st) ==
              [at |-> IF onward(st.at) THEN bs[st.at].succs[2] ELSE 0,
               bodies |-> Append(bodies(st), IF bs[body(st.at)].comment = "select.body" THEN body(st.at) ELSE 0),
               chain |-> st.chain \cup {st.at}]
            Step(st) ==
              CASE st.at = 0 -> st
                [] SelectNext(bs[st.at]) /\ short(st.at) /\ bs[st.at].term = "panic" -> stop(st)
                [] default(st.at) /\ st.at # sel -> stop(st)
                [] bs[st.at].succs = <<>> -> stop(st)
                [] OTHER -> next(st)
            X == [at : D, bodies : Seq(D), chain : SUBSET D]
            x0 == [at |-> sel, bodies |-> <<>>, chain |-> {}]
            n == Len(bs)
            step == [x \in X |-> Step(x)]
            Def(Q) == Q = [m \in 0 .. n |-> IF m = 0 THEN x0 ELSE CHOOSE y \in {Step(x) : x \in {Q[m - 1]}} : TRUE]
            R == CHOOSE Q : Def(Q)
<1>0. n \in Nat /\ DOMAIN bs = 1 .. n
  BY DEF Linked, IsSeq
<1>1. ASSUME NEW st \in X PROVE Step(st) \in X
  <2>. DEFINE s == st.at
  <2>0. s \in D /\ st.bodies \in Seq(D) /\ st.chain \in SUBSET D
    OBVIOUS
  <2>1. bodies(st) \in Seq(D)
    <3>. HIDE DEF D
    <3>. QED BY <2>0
  <2>2. stop(st) \in X
    <3>1. 0 \in D
      BY <1>0
    <3>. HIDE DEF D, bodies
    <3>. QED BY <2>0, <2>1, <3>1
  <2>3. ASSUME s # 0, bs[s].succs # <<>> PROVE next(st) \in X
    <3>1. s \in DOMAIN bs /\ 0 \in D /\ DOMAIN bs \subseteq D
      BY <2>0, <2>3, <1>0
    <3>2. bs[s].succs \in Seq(DOMAIN bs) /\ Len(bs[s].succs) \in Nat \ {0}
      BY <3>1, <2>3 DEF Linked
    <3>3. body(s) \in D
      BY <3>1, <3>2
    <3>4. onward(s) => bs[s].succs[2] \in D
      BY <3>1, <3>2
    <3>. HIDE DEF D, bodies, onward, body
    <3>5. Append(bodies(st), IF bs[body(s)].comment = "select.body" THEN body(s) ELSE 0) \in Seq(D)
      BY <2>1, <3>1, <3>3
    <3>. QED BY <2>0, <3>1, <3>4, <3>5
  <2>4. \/ Step(st) = st
        \/ Step(st) = stop(st)
        \/ s # 0 /\ bs[s].succs # <<>> /\ Step(st) = next(st)
    <3>. HIDE DEF X, D, stop, next, default, short
    <3>. QED OBVIOUS
  <2>. HIDE DEF X, stop, next, Step
  <2>. QED BY <2>2, <2>3, <2>4
<1>2. n \in Nat /\ x0 \in X
  BY <1>0
<1>3. step \in [X -> X]
  <2>. HIDE DEF Step, X
  <2>. QED BY <1>1
<1>4. PICK Q : Chain(Q, n, X, x0, step)
  <2>. HIDE DEF step, X, n, x0
  <2>. QED BY <1>2, <1>3, ChainExists
<1>5. Def(Q)
  <2>1. ASSUME NEW m \in 1 .. n PROVE Q[m] = CHOOSE y \in {Step(x) : x \in {Q[m - 1]}} : TRUE
    <3>1. Q[m - 1] \in X /\ Q[m] = step[Q[m - 1]]
      <4>. HIDE DEF Step, X, n, x0, step
      <4>. QED BY <1>4, <1>2 DEF Chain
    <3>2. Q[m] = Step(Q[m - 1])
      <4>. HIDE DEF X, Step
      <4>. QED BY <3>1
    <3>3. {Step(x) : x \in {Q[m - 1]}} = {Step(Q[m - 1])}
      <4>. HIDE DEF X, Step
      <4>. QED OBVIOUS
    <3>. HIDE DEF Step
    <3>. QED BY <3>2, <3>3, ChooseOne
  <2>. HIDE DEF Step, X, n, x0
  <2>. QED BY <1>2, <1>4, <2>1 DEF Chain
<1>6. Def(R)
  <2>. HIDE DEF Def
  <2>. QED BY <1>5
<1>7. R[n] \in X
  <2>1. R[0] \in X
    <3>. HIDE DEF Step, X, n, x0, R
    <3>. QED BY <1>2, <1>6
  <2>2. ASSUME NEW m \in 1 .. n, R[m - 1] \in X PROVE R[m] \in X
    <3>1. R[m] = CHOOSE y \in {Step(x) : x \in {R[m - 1]}} : TRUE
      <4>. HIDE DEF Step, X, n, x0, R
      <4>. QED BY <1>2, <1>6
    <3>2. {Step(x) : x \in {R[m - 1]}} = {Step(R[m - 1])}
      <4>. HIDE DEF Step, R
      <4>. QED OBVIOUS
    <3>3. Step(R[m - 1]) \in X
      <4>. HIDE DEF Step, X, R
      <4>. QED BY <1>1, <2>2
    <3>. HIDE DEF Step, X, R
    <3>. QED BY <3>1, <3>2, <3>3, ChooseOne
  <2>. HIDE DEF X, R, n
  <2>. QED BY <1>2, <2>1, <2>2, ChainStays
<1>8. CaseChain(bs, sel, blocking) = R[n]
  BY DEF CaseChain, Repeat
<1>. QED
  <2>. HIDE DEF R, n
  <2>. QED BY <1>7, <1>8

LEMMA CaseBlocks ==
  ASSUME NEW bs, Linked(bs), NEW sel \in DOMAIN bs, NEW skips, NEW blocking
  PROVE  LET bodies == getCaseBBs(bs, sel, skips, blocking)
         IN  IsSeq(bodies) /\ \A i \in DOMAIN bodies : bodies[i].start \in 0 .. Len(bs)
<1>. DEFINE bodies == getCaseBBs(bs, sel, skips, blocking)
            starts == CaseChain(bs, sel, blocking).bodies
<1>1. starts \in Seq(0 .. Len(bs))
  BY ChainBodies
<1>2. DOMAIN bodies = DOMAIN starts /\ \A i \in DOMAIN starts : bodies[i].start = starts[i]
  BY DEF getCaseBBs, NoBody
<1>3. bodies \in [1 .. Len(starts) -> ToSet(bodies)] /\ Len(starts) \in Nat
  <2>1. bodies = [i \in DOMAIN bodies |-> bodies[i]]
    BY DEF getCaseBBs
  <2>2. DOMAIN bodies = 1 .. Len(starts) /\ Len(starts) \in Nat
    BY <1>1, <1>2
  <2>. HIDE DEF bodies, starts
  <2>. QED BY <2>1, <2>2 DEF ToSet
<1>4. IsSeq(bodies)
  <2>. HIDE DEF bodies, starts
  <2>. QED BY <1>3, SeqDef DEF IsSeq
<1>5. \A i \in DOMAIN bodies : bodies[i].start \in 0 .. Len(bs)
  <2>. HIDE DEF bodies, starts
  <2>. QED BY <1>1, <1>2
<1>. QED BY <1>4, <1>5

-----------------------------------------------------------------------------
(* Sequences of whatever they hold.                                          *)

LEMMA SeqFacts ==
  ASSUME NEW s, IsSeq(s)
  PROVE  /\ Len(s) \in Nat /\ DOMAIN s = 1 .. Len(s)
         /\ s # <<>> <=> Len(s) # 0
         /\ s # <<>> => Len(s) \in DOMAIN s /\ Last(s) = s[Len(s)]
BY LenProperties, EmptySeq DEF IsSeq, Last

LEMMA SeqIn ==
  ASSUME NEW S, NEW s \in Seq(S), NEW R, \A i \in DOMAIN s : s[i] \in R
  PROVE  s \in Seq(R)
BY LenProperties, SeqDef

LEMMA SelfTyped == ASSUME NEW S, NEW s \in Seq(S) PROVE IsSeq(s)
<1>1. \A i \in DOMAIN s : s[i] \in ToSet(s)
  BY DEF ToSet
<1>. DEFINE R == ToSet(s)
<1>. HIDE DEF R
<1>2. s \in Seq(R)
  BY <1>1, SeqIn DEF R
<1>. QED BY <1>2 DEF IsSeq, R

LEMMA SeqSet ==
  ASSUME NEW s, IsSeq(s), NEW i \in DOMAIN s, NEW e
  PROVE  LET t == [s EXCEPT ![i] = e]
         IN  /\ IsSeq(t) /\ DOMAIN t = DOMAIN s /\ Len(t) = Len(s)
             /\ t[i] = e /\ \A j \in DOMAIN s \ {i} : t[j] = s[j]
<1>. DEFINE t == [s EXCEPT ![i] = e]
            S == ToSet(s) \cup {e}
            n == Len(s)
<1>1. n \in Nat /\ s \in [1 .. n -> S] /\ i \in 1 .. n /\ e \in S
  BY SeqFacts, LenProperties DEF IsSeq, ToSet
<1>2. t \in [1 .. n -> S] /\ t[i] = e /\ \A j \in DOMAIN s \ {i} : t[j] = s[j]
  <2>. HIDE DEF S, n
  <2>. QED BY <1>1
<1>3. t \in [1 .. n -> ToSet(t)]
  <2>. HIDE DEF S, n, t
  <2>. QED BY <1>2 DEF ToSet
<1>4. t \in Seq(ToSet(t)) /\ Len(t) = n
  <2>. HIDE DEF S, n, t
  <2>. QED BY <1>1, <1>3, SeqDef, LenProperties
<1>. HIDE DEF t, n
<1>5. DOMAIN t = DOMAIN s
  BY <1>1, <1>2
<1>. QED BY <1>2, <1>4, <1>5 DEF IsSeq, n, t

LEMMA SeqPush ==
  ASSUME NEW s, IsSeq(s), NEW e
  PROVE  LET t == Append(s, e)
         IN  /\ IsSeq(t) /\ t # <<>> /\ Len(t) = Len(s) + 1 /\ DOMAIN t = 1 .. Len(s) + 1
             /\ t[Len(s) + 1] = e /\ \A j \in DOMAIN s : t[j] = s[j]
             /\ Last(t) = e
<1>. DEFINE t == Append(s, e)
            S == ToSet(s) \cup {e}
<1>1. s \in Seq(S)
  BY SeqMonotonic DEF IsSeq
<1>2. t \in Seq(S) /\ t # <<>> /\ Len(t) = Len(s) + 1 /\ DOMAIN t = 1 .. Len(s) + 1
      /\ t[Len(s) + 1] = e /\ \A j \in 1 .. Len(s) : t[j] = s[j]
  BY <1>1, AppendProperties, LenProperties
<1>3. t \in Seq(ToSet(t))
  <2>. HIDE DEF t, S
  <2>. QED BY <1>2, SeqDef DEF ToSet
<1>. QED BY <1>2, <1>3, SeqFacts DEF IsSeq, Last

LEMMA SeqPop ==
  ASSUME NEW s, IsSeq(s), s # <<>>
  PROVE  LET t == Front(s)
         IN  /\ IsSeq(t) /\ Len(t) = Len(s) - 1 /\ DOMAIN t = 1 .. Len(s) - 1
             /\ \A j \in DOMAIN t : t[j] = s[j]
<1>. DEFINE t == Front(s)
            n == Len(s) - 1
<1>1. n \in Nat /\ DOMAIN s = 1 .. n + 1
  BY SeqFacts
<1>2. t = [i \in 1 .. n |-> s[i]]
  <2>1. t = SubSeq(s, 1, n)
    BY DEF Front
  <2>. QED BY <2>1, <1>1, SubSeqProperties DEF IsSeq
<1>3. t \in [1 .. n -> ToSet(t)] /\ \A j \in 1 .. n : t[j] = s[j]
  <2>. HIDE DEF t, n
  <2>. QED BY <1>2 DEF ToSet
<1>4. t \in Seq(ToSet(t)) /\ Len(t) = n /\ DOMAIN t = 1 .. n
  <2>. HIDE DEF t, n
  <2>. QED BY <1>1, <1>3, SeqDef, LenProperties
<1>. QED BY <1>3, <1>4 DEF IsSeq

-----------------------------------------------------------------------------
(* Graphs: what the builder's operations on one keep.                        *)

Fields == {"id2node", "roots", "resources", "tid2end", "rws", "gid2nloop"}

\* The part of IsRFG that is about node n, but for the exits.
NodeInv(G, n) ==
  LET N == DOMAIN G.id2node
      nd == G.id2node[n]
  IN  /\ nd.gid \in DOMAIN G.roots
      /\ nd.typId = "NGoroutine" => G.roots[nd.gid] = n
      /\ nd.kids \in Seq(N)
      /\ \A i \in DOMAIN nd.kids :
           \/ G.id2node[nd.kids[i]].typId = "NGoroutine"
           \/ G.id2node[nd.kids[i]].gid = nd.gid
      /\ nd.cases \in Seq(N \cup {NoNode})
      /\ nd.cases # <<>> => nd.typId = "NSelect"
      /\ \A i \in DOMAIN nd.cases : nd.cases[i] # NoNode =>
           /\ G.id2node[nd.cases[i]].gid = nd.gid
           /\ G.id2node[nd.cases[i]].typId \in CaseTypes
           /\ G.id2node[nd.cases[i]].case_sel = n
           /\ \A j \in DOMAIN nd.cases : nd.cases[j] = nd.cases[i] => j = i
      /\ nd.case_sel \in N
      /\ nd.typId \in CaseTypes => /\ G.id2node[nd.case_sel].gid = nd.gid
                                   /\ G.id2node[nd.case_sel].typId = "NSelect"

OneExit(G) ==
  \A n, k \in DOMAIN G.id2node :
    G.id2node[n].typId = "NExit" /\ G.id2node[k].typId = "NExit" /\ G.id2node[k].gid = G.id2node[n].gid => k = n

RootsInv(G) ==
  /\ 0 \in DOMAIN G.roots /\ G.roots[0] = 0
  /\ G.roots \in [DOMAIN G.roots -> DOMAIN G.id2node]
  /\ \A t \in DOMAIN G.roots : /\ G.id2node[G.roots[t]].gid = t
                               /\ G.id2node[G.roots[t]].typId = "NGoroutine"
  /\ G.tid2end \in [DOMAIN G.roots -> DOMAIN G.id2node \cup {NoNode}]

ListsInv(G) ==
  LET N == DOMAIN G.id2node
  IN  /\ G.resources \in [Obj -> [producers : Seq(N), consumers : Seq(N)]]
      /\ \A o \in Obj : LET cs == G.resources[o].consumers
                        IN  Rising(cs) /\ \A i \in DOMAIN cs : ~Produces(G.id2node[cs[i]])

Parts(G) ==
  /\ DOMAIN G = Fields
  /\ ID(G) \in Nat \ {0} /\ DOMAIN G.id2node = 0 .. ID(G) - 1
  /\ Numbered(DOMAIN G.roots)
  /\ G.id2node \in [DOMAIN G.id2node -> NodeRec]
  /\ RootsInv(G) /\ ListsInv(G) /\ OneExit(G)
  /\ \A n \in DOMAIN G.id2node : NodeInv(G, n)

LEMMA PartsOf == ASSUME NEW G, GraphInv(G) PROVE Parts(G)
<1>1. ID(G) \in Nat /\ DOMAIN G.id2node = 0 .. ID(G) - 1 /\ 0 \in DOMAIN G.id2node
  BY FS_CardinalityType DEF GraphInv, Numbered, ID, IsRFG
<1>2. ID(G) # 0
  BY <1>1
<1>3. RootsInv(G)
  BY DEF GraphInv, IsRFG, RootsInv
<1>4. ListsInv(G)
  BY DEF GraphInv, IsRFG, ListsInv, InIdOrder, Rising
<1>5. OneExit(G)
  BY DEF GraphInv, IsRFG, OneExit
<1>6. ASSUME NEW n \in DOMAIN G.id2node PROVE NodeInv(G, n)
  BY DEF GraphInv, IsRFG, NodeInv
<1>7. DOMAIN G = Fields /\ Numbered(DOMAIN G.roots) /\ G.id2node \in [DOMAIN G.id2node -> NodeRec]
  BY DEF GraphInv, Fields, IsRFG
<1>. QED BY <1>1, <1>2, <1>3, <1>4, <1>5, <1>6, <1>7 DEF Parts

LEMMA OfParts == ASSUME NEW G, Parts(G) PROVE GraphInv(G)
<1>1. Numbered(DOMAIN G.id2node) /\ DOMAIN G.id2node \subseteq Nat /\ 0 \in DOMAIN G.id2node
  <2>1. ID(G) - 1 \in Int /\ ID(G) \in Nat \ {0} /\ DOMAIN G.id2node = 0 .. ID(G) - 1
    BY DEF Parts
  <2>2. IsFiniteSet(0 .. ID(G) - 1)
    <3>. HIDE DEF ID
    <3>1. \A k \in Int : IsFiniteSet(0 .. k)
      BY FS_Interval
    <3>. QED BY <2>1, <3>1
  <2>3. IsFiniteSet(DOMAIN G.id2node) /\ DOMAIN G.id2node = 0 .. Cardinality(DOMAIN G.id2node) - 1
    <3>1. IsFiniteSet(DOMAIN G.id2node)
      BY <2>1, <2>2
    <3>. QED BY <2>1, <3>1 DEF ID
  <2>4. 0 \in 0 .. ID(G) - 1 /\ 0 .. ID(G) - 1 \subseteq Nat
    BY <2>1
  <2>. QED BY <2>1, <2>3, <2>4 DEF Numbered
<1>2. DOMAIN G.roots \subseteq Nat
  BY FS_CardinalityType DEF Parts, Numbered
<1>3. IsRFG(G)
  <2>. DEFINE N == DOMAIN G.id2node
              T == DOMAIN G.roots
  <2>1. /\ 0 \in N /\ N \subseteq Nat /\ 0 \in T /\ T \subseteq Nat
        /\ G.id2node \in [N -> NodeRec] /\ G.roots \in [T -> N] /\ G.roots[0] = 0
        /\ \A t \in T : G.id2node[G.roots[t]].gid = t /\ G.id2node[G.roots[t]].typId = "NGoroutine"
        /\ G.tid2end \in [T -> N \cup {NoNode}]
    BY <1>1, <1>2 DEF Parts, RootsInv
  <2>2. /\ G.resources \in [Obj -> [producers : Seq(N), consumers : Seq(N)]]
        /\ \A o \in Obj : LET cs == G.resources[o].consumers
                          IN  \A i \in DOMAIN cs : ~Produces(G.id2node[cs[i]])
    BY DEF Parts, ListsInv
  <2>3. ASSUME NEW n \in N
        PROVE  LET nd == G.id2node[n]
               IN  nd.typId = "NExit" => \A k \in N :
                     G.id2node[k].typId = "NExit" /\ G.id2node[k].gid = nd.gid => k = n
    BY DEF Parts, OneExit
  <2>4. ASSUME NEW n \in N
        PROVE  LET nd == G.id2node[n]
               IN  /\ nd.gid \in T
                   /\ nd.typId = "NGoroutine" => G.roots[nd.gid] = n
                   /\ nd.kids \in Seq(N)
                   /\ \A i \in DOMAIN nd.kids :
                        \/ G.id2node[nd.kids[i]].typId = "NGoroutine"
                        \/ G.id2node[nd.kids[i]].gid = nd.gid
                   /\ nd.cases \in Seq(N \cup {NoNode})
                   /\ \A i \in DOMAIN nd.cases : nd.cases[i] # NoNode =>
                        /\ G.id2node[nd.cases[i]].gid = nd.gid
                        /\ G.id2node[nd.cases[i]].typId \in CaseTypes
                        /\ G.id2node[nd.cases[i]].case_sel = n
                        /\ \A j \in DOMAIN nd.cases : nd.cases[j] = nd.cases[i] => j = i
                   /\ nd.case_sel \in N
                   /\ nd.typId \in CaseTypes => /\ G.id2node[nd.case_sel].gid = nd.gid
                                                /\ G.id2node[nd.case_sel].typId = "NSelect"
    BY DEF Parts, NodeInv
  <2>. HIDE DEF N, T
  <2>. QED BY <2>1, <2>2, <2>3, <2>4 DEF IsRFG, N, T
<1>4. InIdOrder(G)
  BY DEF Parts, ListsInv, InIdOrder, Rising
<1>5. \A n \in DOMAIN G.id2node : G.id2node[n].cases # <<>> => G.id2node[n].typId = "NSelect"
  BY DEF Parts, NodeInv
<1>. QED BY <1>1, <1>3, <1>4, <1>5 DEF GraphInv, Parts, Fields

\* Nodes keep their goroutine and type; for Grows, no exit is added.
Keeps(G, H) ==
  /\ DOMAIN G.id2node \subseteq DOMAIN H.id2node
  /\ \A n \in DOMAIN G.id2node : /\ H.id2node[n].gid = G.id2node[n].gid
                                 /\ H.id2node[n].typId = G.id2node[n].typId
  /\ DOMAIN G.roots \subseteq DOMAIN H.roots

Grows(G, H) ==
  /\ Keeps(G, H)
  /\ \A n \in DOMAIN H.id2node : H.id2node[n].typId = "NExit" => n \in DOMAIN G.id2node

LEMMA GrowsRefl == ASSUME NEW G PROVE Grows(G, G)
  BY DEF Grows, Keeps
LEMMA GrowsTrans == ASSUME NEW G, NEW H, NEW K, Grows(G, H), Grows(H, K) PROVE Grows(G, K)
  BY DEF Grows, Keeps
LEMMA KeepsTrans == ASSUME NEW G, NEW H, NEW K, Keeps(G, H), Keeps(H, K) PROVE Keeps(G, K)
  BY DEF Keeps

\* H is G with other edges, points-to sets or marks at some nodes.
Retouched(G, H) ==
  LET N == DOMAIN G.id2node
  IN  /\ DOMAIN H = Fields /\ H.roots = G.roots /\ H.resources = G.resources
      /\ H.tid2end \in [DOMAIN G.roots -> N \cup {NoNode}]
      /\ DOMAIN H.id2node = N /\ H.id2node \in [N -> NodeRec]
      /\ \A n \in N :
           /\ H.id2node[n].gid = G.id2node[n].gid /\ H.id2node[n].typId = G.id2node[n].typId
           /\ H.id2node[n].isSender = G.id2node[n].isSender
           /\ H.id2node[n].cases = G.id2node[n].cases /\ H.id2node[n].case_sel = G.id2node[n].case_sel
           /\ H.id2node[n].kids \in Seq(N)
           /\ \A i \in DOMAIN H.id2node[n].kids :
                \/ G.id2node[H.id2node[n].kids[i]].typId = "NGoroutine"
                \/ G.id2node[H.id2node[n].kids[i]].gid = G.id2node[n].gid

LEMMA RetouchInv ==
  ASSUME NEW G, GraphInv(G), NEW H, Retouched(G, H)
  PROVE  GraphInv(H) /\ Grows(G, H) /\ ID(H) = ID(G)
<1>1. Parts(G)
  BY PartsOf
<1>2. ID(H) = ID(G)
  BY DEF Retouched, ID
<1>3. RootsInv(H)
  <2>1. RootsInv(G) /\ H.roots = G.roots /\ DOMAIN H.id2node = DOMAIN G.id2node
    BY <1>1 DEF Parts, Retouched
  <2>2. ASSUME NEW t \in DOMAIN G.roots
        PROVE  H.id2node[G.roots[t]].gid = t /\ H.id2node[G.roots[t]].typId = "NGoroutine"
    <3>1. G.roots[t] \in DOMAIN G.id2node
      BY <2>1 DEF RootsInv
    <3>. QED BY <2>1, <3>1 DEF Retouched, RootsInv
  <2>3. H.tid2end \in [DOMAIN H.roots -> DOMAIN H.id2node \cup {NoNode}]
    BY <2>1 DEF Retouched
  <2>. QED BY <2>1, <2>2, <2>3 DEF RootsInv
<1>4. ListsInv(H)
  <2>1. H.resources = G.resources /\ DOMAIN H.id2node = DOMAIN G.id2node
    BY DEF Retouched
  <2>2. ASSUME NEW o \in Obj, NEW i \in DOMAIN H.resources[o].consumers
        PROVE  ~Produces(H.id2node[H.resources[o].consumers[i]])
    <3>1. ~Produces(G.id2node[G.resources[o].consumers[i]])
      BY <1>1, <2>1, <2>2 DEF Parts, ListsInv
    <3>2. G.resources[o].consumers[i] \in DOMAIN G.id2node
      <4>1. G.resources[o].consumers \in Seq(DOMAIN G.id2node)
        BY <1>1 DEF Parts, ListsInv
      <4>. QED BY <4>1, <2>1, <2>2
    <3>. QED BY <2>1, <3>1, <3>2 DEF Retouched, Produces
  <2>3. /\ H.resources \in [Obj -> [producers : Seq(DOMAIN H.id2node), consumers : Seq(DOMAIN H.id2node)]]
        /\ \A o \in Obj : Rising(H.resources[o].consumers)
    BY <1>1, <2>1 DEF Parts, ListsInv
  <2>. QED BY <2>2, <2>3 DEF ListsInv
<1>5. OneExit(H)
  BY <1>1 DEF Retouched, Parts, OneExit
<1>6. ASSUME NEW n \in DOMAIN H.id2node PROVE NodeInv(H, n)
  <2>1. NodeInv(G, n) /\ n \in DOMAIN G.id2node /\ DOMAIN H.id2node = DOMAIN G.id2node
    BY <1>1 DEF Parts, Retouched
  <2>2. ASSUME NEW i \in DOMAIN H.id2node[n].kids
        PROVE  \/ H.id2node[H.id2node[n].kids[i]].typId = "NGoroutine"
               \/ H.id2node[H.id2node[n].kids[i]].gid = H.id2node[n].gid
    <3>1. H.id2node[n].kids[i] \in DOMAIN G.id2node
      BY <2>1 DEF Retouched
    <3>. QED BY <3>1, <2>1 DEF Retouched
  <2>3. ASSUME NEW i \in DOMAIN H.id2node[n].cases, H.id2node[n].cases[i] # NoNode
        PROVE  /\ H.id2node[H.id2node[n].cases[i]].gid = H.id2node[n].gid
               /\ H.id2node[H.id2node[n].cases[i]].typId \in CaseTypes
               /\ H.id2node[H.id2node[n].cases[i]].case_sel = n
               /\ \A j \in DOMAIN H.id2node[n].cases : H.id2node[n].cases[j] = H.id2node[n].cases[i] => j = i
    <3>1. H.id2node[n].cases = G.id2node[n].cases
      BY <2>1 DEF Retouched
    <3>2. G.id2node[n].cases[i] \in DOMAIN G.id2node
      BY <2>1, <2>3, <3>1 DEF NodeInv
    <3>3. /\ G.id2node[G.id2node[n].cases[i]].gid = G.id2node[n].gid
          /\ G.id2node[G.id2node[n].cases[i]].typId \in CaseTypes
          /\ G.id2node[G.id2node[n].cases[i]].case_sel = n
          /\ \A j \in DOMAIN G.id2node[n].cases : G.id2node[n].cases[j] = G.id2node[n].cases[i] => j = i
      BY <2>1, <2>3, <3>1 DEF NodeInv
    <3>. QED BY <3>1, <3>2, <3>3, <2>1 DEF Retouched
  <2>4. H.id2node[n].case_sel \in DOMAIN G.id2node
    BY <2>1 DEF Retouched, NodeInv
  <2>5. /\ H.id2node[n].gid \in DOMAIN H.roots
        /\ H.id2node[n].typId = "NGoroutine" => H.roots[H.id2node[n].gid] = n
        /\ H.id2node[n].kids \in Seq(DOMAIN H.id2node)
        /\ H.id2node[n].cases \in Seq(DOMAIN H.id2node \cup {NoNode})
        /\ H.id2node[n].cases # <<>> => H.id2node[n].typId = "NSelect"
        /\ H.id2node[n].case_sel \in DOMAIN H.id2node
    BY <2>1, <2>4 DEF Retouched, NodeInv
  <2>6. H.id2node[n].typId \in CaseTypes => /\ H.id2node[H.id2node[n].case_sel].gid = H.id2node[n].gid
                                            /\ H.id2node[H.id2node[n].case_sel].typId = "NSelect"
    BY <2>1, <2>4 DEF Retouched, NodeInv
  <2>. QED BY <2>2, <2>3, <2>5, <2>6 DEF NodeInv
<1>7. Parts(H)
  BY <1>1, <1>2, <1>3, <1>4, <1>5, <1>6 DEF Parts, Retouched
<1>8. Grows(G, H)
  BY DEF Retouched, Grows, Keeps
<1>. QED BY <1>2, <1>7, <1>8, OfParts

\* New nodes that may be stored in G.
Storable(G, nds) ==
  LET N == DOMAIN G.id2node
  IN  /\ nds \in Seq(NodeRec)
      /\ \A i \in DOMAIN nds :
           LET nd == nds[i]
           IN  /\ nd.gid \in DOMAIN G.roots /\ nd.typId # "NGoroutine"
               /\ \A k \in DOMAIN nd.kids : /\ nd.kids[k] \in ID(G) .. ID(G) + Len(nds) - 1
                                            /\ nds[nd.kids[k] - ID(G) + 1].gid = nd.gid
               /\ \A k \in DOMAIN nd.cases : nd.cases[k] = NoNode
               /\ nd.cases # <<>> => nd.typId = "NSelect"
               /\ nd.case_sel \in N
               /\ nd.typId \in CaseTypes => /\ G.id2node[nd.case_sel].gid = nd.gid
                                            /\ G.id2node[nd.case_sel].typId = "NSelect"

\* H is G with more nodes, the ids of which are in no list yet.
Stored(G, H, nds) ==
  /\ DOMAIN H = Fields /\ H.roots = G.roots /\ H.resources = G.resources /\ H.tid2end = G.tid2end
  /\ ID(H) = ID(G) + Len(nds) /\ DOMAIN H.id2node = 0 .. ID(G) + Len(nds) - 1
  /\ H.id2node = [n \in DOMAIN H.id2node |-> H.id2node[n]]
  /\ \A n \in DOMAIN G.id2node : H.id2node[n] = G.id2node[n]
  /\ \A i \in DOMAIN nds : H.id2node[ID(G) + i - 1] = nds[i]

LEMMA StoreNodes ==
  ASSUME NEW G, GraphInv(G), NEW nds, IsSeq(nds)
  PROVE  Stored(G, Store(G, nds), nds)
<1>. DEFINE H == Store(G, nds)
            D == 0 .. ID(G) + Len(nds) - 1
<1>1. Parts(G) /\ Len(nds) \in Nat /\ DOMAIN nds = 1 .. Len(nds)
  BY PartsOf, SeqFacts
<1>2. DOMAIN H = Fields /\ H.roots = G.roots /\ H.resources = G.resources /\ H.tid2end = G.tid2end
      /\ H.id2node = [n \in D |-> IF n < ID(G) THEN G.id2node[n] ELSE nds[n - ID(G) + 1]]
  BY <1>1 DEF Store, Parts, Fields
<1>3. ID(G) \in Nat /\ DOMAIN G.id2node = 0 .. ID(G) - 1
  BY <1>1 DEF Parts
<1>4. ID(H) = ID(G) + Len(nds)
  <2>1. Cardinality(D) = ID(G) + Len(nds)
    <3>1. \A k \in Nat : Cardinality(0 .. k - 1) = k
      BY FS_Interval
    <3>2. PICK k \in Nat : k = ID(G) + Len(nds)
      BY <1>1, <1>3
    <3>3. D = 0 .. k - 1
      BY <1>1, <1>3, <3>2
    <3>. HIDE DEF D
    <3>. QED BY <3>1, <3>2, <3>3
  <2>2. DOMAIN H.id2node = D
    BY <1>2
  <2>3. ID(H) = Cardinality(DOMAIN H.id2node)
    BY DEF ID
  <2>. HIDE DEF H, D
  <2>. QED BY <2>1, <2>2, <2>3
<1>5. \A n \in DOMAIN G.id2node : H.id2node[n] = G.id2node[n]
  <2>1. ASSUME NEW n \in DOMAIN G.id2node PROVE n \in D /\ n < ID(G)
    BY <1>1, <1>3
  <2>. HIDE DEF H, D
  <2>. QED BY <1>2, <2>1
<1>6. ASSUME NEW i \in DOMAIN nds PROVE H.id2node[ID(G) + i - 1] = nds[i]
  <2>1. ID(G) + i - 1 \in D /\ ~(ID(G) + i - 1 < ID(G)) /\ (ID(G) + i - 1) - ID(G) + 1 = i
    BY <1>1, <1>3
  <2>. HIDE DEF H, D
  <2>. QED BY <1>2, <2>1
<1>7. DOMAIN H.id2node = D /\ H.id2node = [n \in DOMAIN H.id2node |-> H.id2node[n]]
  <2>. HIDE DEF H
  <2>. QED BY <1>2
<1>. HIDE DEF H
<1>. QED BY <1>2, <1>4, <1>5, <1>6, <1>7 DEF Stored, H

LEMMA StoredInv ==
  ASSUME NEW G, GraphInv(G), NEW nds, Storable(G, nds), NEW H, Stored(G, H, nds),
         \A i \in DOMAIN nds : nds[i].typId = "NExit" =>
           /\ Len(nds) = 1
           /\ \A n \in DOMAIN G.id2node : G.id2node[n].typId = "NExit" => G.id2node[n].gid # nds[i].gid
  PROVE  /\ GraphInv(H)
         /\ Keeps(G, H)
         /\ (\A i \in DOMAIN nds : nds[i].typId # "NExit") => Grows(G, H)
<1>. DEFINE N == DOMAIN G.id2node
            M == DOMAIN H.id2node
<1>1. Parts(G) /\ ID(G) \in Nat \ {0} /\ N = 0 .. ID(G) - 1
  BY PartsOf DEF Parts
<1>2. Len(nds) \in Nat /\ DOMAIN nds = 1 .. Len(nds) /\ \A i \in DOMAIN nds : nds[i] \in NodeRec
  BY DEF Storable
<1>3. N \subseteq M /\ M = 0 .. ID(G) + Len(nds) - 1 /\ ID(H) = ID(G) + Len(nds)
  BY <1>1, <1>2 DEF Stored
<1>4. ASSUME NEW n \in M, n \notin N PROVE \E i \in DOMAIN nds : n = ID(G) + i - 1 /\ H.id2node[n] = nds[i]
  <2>1. n - ID(G) + 1 \in DOMAIN nds /\ n = ID(G) + (n - ID(G) + 1) - 1
    BY <1>1, <1>2, <1>3, <1>4
  <2>. QED BY <2>1 DEF Stored
<1>5. H.id2node \in [M -> NodeRec]
  <2>1. ASSUME NEW n \in M PROVE H.id2node[n] \in NodeRec
    <3>1. CASE n \in N
      <4>1. G.id2node[n] \in NodeRec
        BY <1>1, <3>1 DEF Parts
      <4>. QED BY <3>1, <4>1 DEF Stored
    <3>2. CASE n \notin N
      BY <1>2, <1>4, <3>2
    <3>. QED BY <3>1, <3>2
  <2>2. H.id2node = [n \in M |-> H.id2node[n]]
    BY DEF Stored
  <2>. HIDE DEF M
  <2>. QED BY <2>1, <2>2
<1>6. RootsInv(H)
  <2>1. RootsInv(G) /\ H.roots = G.roots /\ H.tid2end = G.tid2end
    BY <1>1 DEF Parts, Stored
  <2>2. ASSUME NEW t \in DOMAIN G.roots
        PROVE  /\ G.roots[t] \in M
               /\ H.id2node[G.roots[t]].gid = t /\ H.id2node[G.roots[t]].typId = "NGoroutine"
    <3>1. G.roots[t] \in N
      BY <2>1 DEF RootsInv
    <3>2. H.id2node[G.roots[t]] = G.id2node[G.roots[t]]
      BY <3>1 DEF Stored
    <3>. QED BY <2>1, <3>1, <3>2, <1>3 DEF RootsInv
  <2>3. H.tid2end \in [DOMAIN H.roots -> M \cup {NoNode}] /\ H.roots \in [DOMAIN H.roots -> M]
    BY <2>1, <1>3 DEF RootsInv
  <2>. QED BY <2>1, <2>2, <2>3 DEF RootsInv
<1>7. ListsInv(H)
  <2>1. H.resources = G.resources /\ ListsInv(G)
    BY <1>1 DEF Stored, Parts
  <2>2. ASSUME NEW o \in Obj
        PROVE  /\ H.resources[o] \in [producers : Seq(M), consumers : Seq(M)]
               /\ \A i \in DOMAIN H.resources[o].consumers : ~Produces(H.id2node[H.resources[o].consumers[i]])
    <3>. DEFINE r == G.resources[o]
    <3>1. r \in [producers : Seq(N), consumers : Seq(N)]
      BY <2>1 DEF ListsInv
    <3>2. r.producers \in Seq(M) /\ r.consumers \in Seq(M)
      <4>. HIDE DEF r, N, M
      <4>. QED BY <3>1, <1>3, SeqMonotonic
    <3>3. ASSUME NEW i \in DOMAIN r.consumers PROVE ~Produces(H.id2node[r.consumers[i]])
      <4>1. r.consumers[i] \in N
        BY <3>1
      <4>2. H.id2node[r.consumers[i]] = G.id2node[r.consumers[i]]
        BY <4>1 DEF Stored
      <4>. QED BY <2>1, <4>2 DEF ListsInv
    <3>4. r \in [producers : Seq(M), consumers : Seq(M)]
      <4>. HIDE DEF r, N, M
      <4>. QED BY <3>1, <3>2
    <3>. QED BY <2>1, <3>3, <3>4
  <2>3. H.resources \in [Obj -> [producers : Seq(M), consumers : Seq(M)]]
    <3>1. H.resources = [o \in Obj |-> H.resources[o]]
      BY <2>1 DEF ListsInv
    <3>. HIDE DEF M
    <3>. QED BY <2>2, <3>1
  <2>. QED BY <2>1, <2>2, <2>3 DEF ListsInv
<1>8. OneExit(H)
  <2>1. ASSUME NEW n \in M, NEW k \in M, H.id2node[n].typId = "NExit", H.id2node[k].typId = "NExit",
               H.id2node[k].gid = H.id2node[n].gid
        PROVE  k = n
    <3>1. CASE n \in N /\ k \in N
      <4>1. H.id2node[n] = G.id2node[n] /\ H.id2node[k] = G.id2node[k]
        BY <3>1 DEF Stored
      <4>. QED BY <1>1, <2>1, <3>1, <4>1 DEF Parts, OneExit
    <3>2. CASE n \notin N /\ k \notin N
      <4>1. PICK i \in DOMAIN nds : n = ID(G) + i - 1 /\ H.id2node[n] = nds[i]
        BY <1>4, <3>2
      <4>2. PICK j \in DOMAIN nds : k = ID(G) + j - 1 /\ H.id2node[k] = nds[j]
        BY <1>4, <3>2
      <4>3. i = j
        BY <2>1, <4>1, <4>2, <1>2
      <4>. QED BY <4>1, <4>2, <4>3
    <3>3. CASE n \in N /\ k \notin N
      <4>1. PICK j \in DOMAIN nds : H.id2node[k] = nds[j]
        BY <1>4, <3>3
      <4>2. H.id2node[n] = G.id2node[n]
        BY <3>3 DEF Stored
      <4>. QED BY <2>1, <3>3, <4>1, <4>2
    <3>4. CASE n \notin N /\ k \in N
      <4>1. PICK j \in DOMAIN nds : H.id2node[n] = nds[j]
        BY <1>4, <3>4
      <4>2. H.id2node[k] = G.id2node[k]
        BY <3>4 DEF Stored
      <4>. QED BY <2>1, <3>4, <4>1, <4>2
    <3>. QED BY <3>1, <3>2, <3>3, <3>4
  <2>. QED BY <2>1 DEF OneExit
<1>9. ASSUME NEW n \in M PROVE NodeInv(H, n)
  <2>0. \A k \in N : H.id2node[k] = G.id2node[k]
    BY DEF Stored
  <2>1. CASE n \in N
    <3>. DEFINE nd == G.id2node[n]
    <3>1. NodeInv(G, n) /\ H.id2node[n] = nd /\ H.roots = G.roots
      BY <1>1, <2>0, <2>1 DEF Parts, Stored
    <3>2. /\ nd.gid \in DOMAIN H.roots
          /\ nd.typId = "NGoroutine" => H.roots[nd.gid] = n
          /\ nd.kids \in Seq(M) /\ nd.cases \in Seq(M \cup {NoNode}) /\ nd.case_sel \in M
          /\ nd.cases # <<>> => nd.typId = "NSelect"
      <4>1. nd.kids \in Seq(N) /\ nd.cases \in Seq(N \cup {NoNode}) /\ nd.case_sel \in N
        BY <3>1 DEF NodeInv
      <4>2. N \cup {NoNode} \subseteq M \cup {NoNode}
        BY <1>3
      <4>3. nd.kids \in Seq(M) /\ nd.cases \in Seq(M \cup {NoNode}) /\ nd.case_sel \in M
        <5>1. N \subseteq M
          BY <1>3
        <5>. DEFINE ks == nd.kids
                    cs == nd.cases
        <5>. HIDE DEF nd, N, M, ks, cs
        <5>2. ks \in Seq(M)
          BY <4>1, <5>1, SeqMonotonic DEF ks
        <5>3. cs \in Seq(M \cup {NoNode})
          BY <4>1, <4>2, SeqMonotonic DEF cs
        <5>. QED BY <4>1, <5>1, <5>2, <5>3 DEF ks, cs
      <4>4. /\ nd.gid \in DOMAIN H.roots
            /\ nd.typId = "NGoroutine" => H.roots[nd.gid] = n
            /\ nd.cases # <<>> => nd.typId = "NSelect"
        BY <3>1 DEF NodeInv
      <4>. HIDE DEF nd, M
      <4>. QED BY <4>3, <4>4
    <3>3. ASSUME NEW i \in DOMAIN nd.kids
          PROVE  \/ H.id2node[nd.kids[i]].typId = "NGoroutine"
                 \/ H.id2node[nd.kids[i]].gid = nd.gid
      <4>1. nd.kids[i] \in N
        BY <3>1 DEF NodeInv
      <4>. QED BY <3>1, <4>1, <2>0 DEF NodeInv
    <3>4. ASSUME NEW i \in DOMAIN nd.cases, nd.cases[i] # NoNode
          PROVE  /\ H.id2node[nd.cases[i]].gid = nd.gid
                 /\ H.id2node[nd.cases[i]].typId \in CaseTypes
                 /\ H.id2node[nd.cases[i]].case_sel = n
                 /\ \A j \in DOMAIN nd.cases : nd.cases[j] = nd.cases[i] => j = i
      <4>1. nd.cases[i] \in N
        BY <3>1, <3>4 DEF NodeInv
      <4>2. H.id2node[nd.cases[i]] = G.id2node[nd.cases[i]]
        BY <4>1, <2>0
      <4>3. /\ G.id2node[nd.cases[i]].gid = nd.gid
            /\ G.id2node[nd.cases[i]].typId \in CaseTypes
            /\ G.id2node[nd.cases[i]].case_sel = n
            /\ \A j \in DOMAIN nd.cases : nd.cases[j] = nd.cases[i] => j = i
        BY <3>1, <3>4 DEF NodeInv
      <4>. HIDE DEF nd
      <4>. QED BY <4>2, <4>3
    <3>5. nd.typId \in CaseTypes => /\ H.id2node[nd.case_sel].gid = nd.gid
                                    /\ H.id2node[nd.case_sel].typId = "NSelect"
      <4>1. /\ nd.case_sel \in N
            /\ nd.typId \in CaseTypes => /\ G.id2node[nd.case_sel].gid = nd.gid
                                         /\ G.id2node[nd.case_sel].typId = "NSelect"
        BY <3>1 DEF NodeInv
      <4>2. H.id2node[nd.case_sel] = G.id2node[nd.case_sel]
        BY <4>1, <2>0
      <4>. HIDE DEF nd
      <4>. QED BY <4>1, <4>2
    <3>. HIDE DEF nd
    <3>6. H.id2node[n] = nd
      BY <3>1
    <3>. HIDE DEF M
    <3>. QED BY <3>2, <3>3, <3>4, <3>5, <3>6 DEF NodeInv, M
  <2>2. CASE n \notin N
    <3>1. PICK i \in DOMAIN nds : n = ID(G) + i - 1 /\ H.id2node[n] = nds[i]
      BY <1>4, <2>2
    <3>. DEFINE nd == nds[i]
    <3>2. /\ nd \in NodeRec
          /\ nd.gid \in DOMAIN G.roots /\ nd.typId # "NGoroutine"
          /\ \A k \in DOMAIN nd.kids : /\ nd.kids[k] \in ID(G) .. ID(G) + Len(nds) - 1
                                       /\ nds[nd.kids[k] - ID(G) + 1].gid = nd.gid
          /\ \A k \in DOMAIN nd.cases : nd.cases[k] = NoNode
          /\ nd.cases # <<>> => nd.typId = "NSelect"
          /\ nd.case_sel \in N
          /\ nd.typId \in CaseTypes => /\ G.id2node[nd.case_sel].gid = nd.gid
                                       /\ G.id2node[nd.case_sel].typId = "NSelect"
      BY <1>2 DEF Storable
    <3>3. nd.kids \in Seq(Nat) /\ nd.cases \in Seq(Int)
      BY <3>2 DEF NodeRec
    <3>4. ASSUME NEW k \in DOMAIN nd.kids PROVE nd.kids[k] \in M /\ H.id2node[nd.kids[k]].gid = nd.gid
      <4>. DEFINE m == nd.kids[k] - ID(G) + 1
      <4>1. nd.kids[k] \in ID(G) .. ID(G) + Len(nds) - 1 /\ nds[m].gid = nd.gid
        BY <3>2
      <4>2. m \in DOMAIN nds /\ ID(G) + m - 1 = nd.kids[k] /\ nd.kids[k] \in M
        BY <4>1, <1>1, <1>2, <1>3
      <4>. HIDE DEF m, nd
      <4>. QED BY <4>1, <4>2 DEF Stored
    <3>5. nd.kids \in Seq(M) /\ nd.cases \in Seq(M \cup {NoNode})
      <4>. HIDE DEF nd, M
      <4>1. nd.kids \in Seq(M)
        BY <3>3, <3>4, SeqIn
      <4>2. \A k \in DOMAIN nd.cases : nd.cases[k] \in M \cup {NoNode}
        BY <3>2
      <4>. QED BY <3>3, <4>1, <4>2, SeqIn
    <3>6. H.roots = G.roots /\ nd.case_sel \in M /\ H.id2node[nd.case_sel] = G.id2node[nd.case_sel]
      BY <3>2, <2>0, <1>3 DEF Stored
    <3>. HIDE DEF nd
    <3>. QED BY <3>1, <3>2, <3>4, <3>5, <3>6 DEF NodeInv, nd
  <2>. QED BY <2>1, <2>2
<1>10. Parts(H)
  <2>1. ID(G) + Len(nds) \in Nat \ {0}
    BY <1>1, <1>2
  <2>2. DOMAIN H = Fields /\ Numbered(DOMAIN H.roots)
    BY <1>1 DEF Stored, Parts
  <2>3. M = 0 .. ID(H) - 1 /\ ID(H) \in Nat \ {0}
    BY <1>1, <1>2, <1>3
  <2>. QED BY <1>5, <1>6, <1>7, <1>8, <1>9, <2>2, <2>3 DEF Parts
<1>11. Keeps(G, H)
  BY <1>3 DEF Keeps, Stored
<1>12. (\A i \in DOMAIN nds : nds[i].typId # "NExit") => Grows(G, H)
  <2>. SUFFICES ASSUME \A i \in DOMAIN nds : nds[i].typId # "NExit" PROVE Grows(G, H)
    OBVIOUS
  <2>1. \A n \in M : H.id2node[n].typId = "NExit" => n \in N
    BY <1>4
  <2>. QED BY <1>11, <2>1 DEF Grows
<1>. QED BY <1>10, <1>11, <1>12, OfParts

LEMMA ResourcesInv ==
  ASSUME NEW G, GraphInv(G), NEW S \in SUBSET DOMAIN G.id2node,
         \A o \in Obj : LET cs == G.resources[o].consumers
                        IN  \A i \in DOMAIN cs : \A n \in S : ~Produces(G.id2node[n]) => cs[i] < n
  PROVE  LET H == UpdateResources(G, S)
         IN  /\ GraphInv(H) /\ Grows(G, H)
             /\ H.id2node = G.id2node /\ ID(H) = ID(G)
<1>. DEFINE H == UpdateResources(G, S)
            N == DOMAIN G.id2node
            Of(o) == {n \in S : InSeq(o, G.id2node[n].pts)}
            made(o) == Ascending({n \in Of(o) : Produces(G.id2node[n])})
            used(o) == Ascending({n \in Of(o) : ~Produces(G.id2node[n])})
            r(o) == G.resources[o]
<1>1. Parts(G) /\ ID(G) \in Nat \ {0} /\ N = 0 .. ID(G) - 1
  BY PartsOf DEF Parts
<1>2. /\ DOMAIN H = Fields /\ H.id2node = G.id2node /\ H.roots = G.roots /\ H.tid2end = G.tid2end
      /\ H.resources = [o \in Obj |-> [producers |-> r(o).producers \o made(o),
                                       consumers |-> r(o).consumers \o used(o)]]
  BY <1>1 DEF UpdateResources, Parts, Fields
<1>3. ASSUME NEW T \in SUBSET S PROVE Ascending(T) \in Seq(T) /\ Rising(Ascending(T))
  <2>1. ID(G) - 1 \in Nat /\ T \in SUBSET (0 .. ID(G) - 1)
    BY <1>1
  <2>. QED BY <2>1, AscendingType
<1>4. ASSUME NEW o \in Obj
      PROVE  /\ made(o) \in Seq(N)
             /\ used(o) \in Seq({n \in S : ~Produces(G.id2node[n])}) /\ Rising(used(o))
  <2>. DEFINE U == {n \in Of(o) : ~Produces(G.id2node[n])}
              V == {n \in Of(o) : Produces(G.id2node[n])}
  <2>1. U \in SUBSET S /\ V \in SUBSET S /\ V \subseteq N /\ U \subseteq {n \in S : ~Produces(G.id2node[n])}
    OBVIOUS
  <2>. HIDE DEF U, V, N
  <2>2. Ascending(U) \in Seq(U) /\ Rising(Ascending(U)) /\ Ascending(V) \in Seq(V)
    BY <1>3, <2>1
  <2>3. Ascending(V) \in Seq(N) /\ Ascending(U) \in Seq({n \in S : ~Produces(G.id2node[n])})
    BY <2>1, <2>2, SeqMonotonic
  <2>. QED BY <2>2, <2>3 DEF U, V
<1>5. ASSUME NEW o \in Obj
      PROVE  /\ r(o).producers \in Seq(N) /\ r(o).consumers \in Seq(N) /\ Rising(r(o).consumers)
             /\ \A i \in DOMAIN r(o).consumers : ~Produces(G.id2node[r(o).consumers[i]])
  BY <1>1 DEF Parts, ListsInv
<1>6. ASSUME NEW o \in Obj
      PROVE  LET cs == r(o).consumers \o used(o)
             IN  /\ r(o).producers \o made(o) \in Seq(N) /\ cs \in Seq(N) /\ Rising(cs)
                 /\ \A i \in DOMAIN cs : ~Produces(G.id2node[cs[i]])
  <2>. DEFINE a == r(o).consumers
              u == used(o)
              cs == a \o u
  <2>1. /\ a \in Seq(N) /\ Rising(a) /\ \A i \in DOMAIN a : ~Produces(G.id2node[a[i]])
        /\ u \in Seq({n \in S : ~Produces(G.id2node[n])}) /\ Rising(u)
    BY <1>4, <1>5
  <2>2. \A i \in DOMAIN a : \A n \in S : ~Produces(G.id2node[n]) => a[i] < n
    OBVIOUS
  <2>3. r(o).producers \o made(o) \in Seq(N)
    <3>. HIDE DEF made, N
    <3>. QED BY <1>4, <1>5, ConcatProperties
  <2>. HIDE DEF a, u
  <2>4. u \in Seq(N)
    <3>1. {n \in S : ~Produces(G.id2node[n])} \subseteq N
      OBVIOUS
    <3>. HIDE DEF N
    <3>. QED BY <2>1, <3>1, SeqMonotonic
  <2>5. /\ cs \in Seq(N) /\ Len(cs) = Len(a) + Len(u)
        /\ \A i \in 1 .. Len(a) + Len(u) : cs[i] = IF i <= Len(a) THEN a[i] ELSE u[i - Len(a)]
    <3>. HIDE DEF N
    <3>. QED BY <2>1, <2>4, ConcatProperties
  <2>. HIDE DEF cs
  <2>6. /\ Len(a) \in Nat /\ Len(u) \in Nat /\ DOMAIN a = 1 .. Len(a) /\ DOMAIN u = 1 .. Len(u)
        /\ DOMAIN cs = 1 .. Len(a) + Len(u)
    <3>. HIDE DEF N
    <3>. QED BY <2>1, <2>4, <2>5, LenProperties
  <2>7. ASSUME NEW i \in DOMAIN cs PROVE ~Produces(G.id2node[cs[i]])
    <3>1. CASE i <= Len(a)
      <4>1. i \in DOMAIN a /\ cs[i] = a[i]
        BY <2>5, <2>6, <3>1
      <4>. QED BY <2>1, <4>1
    <3>2. CASE ~(i <= Len(a))
      <4>1. i - Len(a) \in DOMAIN u /\ cs[i] = u[i - Len(a)]
        BY <2>5, <2>6, <3>2
      <4>2. u[i - Len(a)] \in {n \in S : ~Produces(G.id2node[n])}
        <5>. HIDE DEF N
        <5>. QED BY <2>1, <4>1
      <4>. QED BY <4>1, <4>2
    <3>. QED BY <3>1, <3>2
  <2>8. ASSUME NEW i \in DOMAIN cs, NEW j \in DOMAIN cs, i < j PROVE cs[i] < cs[j]
    <3>1. CASE j <= Len(a)
      <4>1. i \in DOMAIN a /\ j \in DOMAIN a /\ cs[i] = a[i] /\ cs[j] = a[j]
        BY <2>5, <2>6, <2>8, <3>1
      <4>. QED BY <2>1, <2>8, <4>1 DEF Rising
    <3>2. CASE i <= Len(a) /\ ~(j <= Len(a))
      <4>1. i \in DOMAIN a /\ j - Len(a) \in DOMAIN u /\ cs[i] = a[i] /\ cs[j] = u[j - Len(a)]
        BY <2>5, <2>6, <2>8, <3>2
      <4>2. u[j - Len(a)] \in {n \in S : ~Produces(G.id2node[n])}
        <5>. HIDE DEF N
        <5>. QED BY <2>1, <4>1
      <4>. QED BY <2>2, <4>1, <4>2
    <3>3. CASE ~(i <= Len(a))
      <4>1. /\ i - Len(a) \in DOMAIN u /\ j - Len(a) \in DOMAIN u /\ i - Len(a) < j - Len(a)
            /\ cs[i] = u[i - Len(a)] /\ cs[j] = u[j - Len(a)]
        BY <2>5, <2>6, <2>8, <3>3
      <4>. QED BY <2>1, <4>1 DEF Rising
    <3>. QED BY <3>1, <3>2, <3>3, <2>6, <2>8
  <2>. QED BY <2>3, <2>5, <2>7, <2>8 DEF Rising, cs, a, u
<1>7. ListsInv(H)
  <2>1. ASSUME NEW o \in Obj
        PROVE  /\ H.resources[o] \in [producers : Seq(N), consumers : Seq(N)]
               /\ Rising(H.resources[o].consumers)
               /\ \A i \in DOMAIN H.resources[o].consumers : ~Produces(G.id2node[H.resources[o].consumers[i]])
    <3>1. H.resources[o] = [producers |-> r(o).producers \o made(o), consumers |-> r(o).consumers \o used(o)]
      <4>. HIDE DEF H, r, made, used
      <4>. QED BY <1>2
    <3>. HIDE DEF H, r, made, used, N
    <3>. QED BY <1>6, <3>1
  <2>2. H.resources \in [Obj -> [producers : Seq(N), consumers : Seq(N)]]
    <3>1. H.resources = [o \in Obj |-> H.resources[o]]
      <4>. HIDE DEF H, r, made, used
      <4>. QED BY <1>2
    <3>. HIDE DEF H, N
    <3>. QED BY <2>1, <3>1
  <2>. HIDE DEF H
  <2>. QED BY <1>2, <2>1, <2>2 DEF ListsInv
<1>. HIDE DEF H
<1>8. RootsInv(H) /\ OneExit(H) /\ ID(H) = ID(G) /\ \A n \in N : NodeInv(H, n)
  <2>1. RootsInv(H)
    BY <1>1, <1>2 DEF Parts, RootsInv
  <2>2. OneExit(H)
    BY <1>1, <1>2 DEF Parts, OneExit
  <2>3. ASSUME NEW n \in N PROVE NodeInv(H, n)
    <3>1. NodeInv(G, n)
      BY <1>1 DEF Parts
    <3>2. H.id2node = G.id2node /\ H.roots = G.roots
      BY <1>2
    <3>. QED BY <3>1, <3>2 DEF NodeInv
  <2>4. ID(H) = ID(G)
    BY <1>2 DEF ID
  <2>. QED BY <2>1, <2>2, <2>3, <2>4
<1>9. Parts(H)
  BY <1>1, <1>2, <1>7, <1>8 DEF Parts
<1>10. Grows(G, H)
  <2>1. H.id2node = G.id2node /\ H.roots = G.roots
    BY <1>2
  <2>. QED BY <2>1 DEF Grows, Keeps
<1>. QED BY <1>2, <1>8, <1>9, <1>10, OfParts DEF H

LEMMA LinkInv ==
  ASSUME NEW G, GraphInv(G), NEW from \in DOMAIN G.id2node, NEW ns \in Seq(DOMAIN G.id2node),
         \A i \in DOMAIN ns : G.id2node[ns[i]].gid = G.id2node[from].gid
  PROVE  LET H == Link(G, from, ns)
         IN  GraphInv(H) /\ Grows(G, H) /\ ID(H) = ID(G) /\ H.resources = G.resources
             /\ DOMAIN H.id2node = DOMAIN G.id2node
<1>. DEFINE H == Link(G, from, ns)
            N == DOMAIN G.id2node
            old == G.id2node[from]
<1>1. Parts(G) /\ NodeInv(G, from)
  BY PartsOf DEF Parts
<1>2. /\ DOMAIN H = Fields /\ H.roots = G.roots /\ H.resources = G.resources /\ H.tid2end = G.tid2end
      /\ H.id2node = [G.id2node EXCEPT ![from] = [old EXCEPT !.kids = old.kids \o ns]]
  BY <1>1 DEF Link, Parts, Fields
<1>3. old \in NodeRec /\ old.kids \in Seq(N) /\ ns \in Seq(N) /\ N \subseteq Nat
  <2>1. old \in NodeRec /\ N \subseteq Nat
    BY <1>1 DEF Parts
  <2>2. old.kids \in Seq(N)
    BY <1>1 DEF NodeInv
  <2>. QED BY <2>1, <2>2
<1>4. old.kids \o ns \in Seq(N) /\ old.kids \o ns \in Seq(Nat)
  <2>. HIDE DEF old, N
  <2>1. old.kids \o ns \in Seq(N)
    BY <1>3, ConcatProperties
  <2>. QED BY <1>3, <2>1, SeqMonotonic
<1>5. ASSUME NEW i \in DOMAIN (old.kids \o ns)
      PROVE  \/ G.id2node[(old.kids \o ns)[i]].typId = "NGoroutine"
             \/ G.id2node[(old.kids \o ns)[i]].gid = old.gid
  <2>. DEFINE s == old.kids
  <2>1. \A j \in DOMAIN s : G.id2node[s[j]].typId = "NGoroutine" \/ G.id2node[s[j]].gid = old.gid
    BY <1>1 DEF NodeInv
  <2>2. /\ Len(s) \in Nat /\ Len(ns) \in Nat /\ DOMAIN s = 1 .. Len(s) /\ DOMAIN ns = 1 .. Len(ns)
        /\ Len(s \o ns) = Len(s) + Len(ns) /\ DOMAIN (s \o ns) = 1 .. Len(s) + Len(ns)
        /\ \A j \in 1 .. Len(s) + Len(ns) : (s \o ns)[j] = IF j <= Len(s) THEN s[j] ELSE ns[j - Len(s)]
    <3>. HIDE DEF s, N
    <3>. QED BY <1>3, <1>4, ConcatProperties, LenProperties DEF s
  <2>3. CASE i <= Len(s)
    BY <2>1, <2>2, <2>3
  <2>4. CASE ~(i <= Len(s))
    BY <2>2, <2>4
  <2>. QED BY <2>3, <2>4
<1>6. [old EXCEPT !.kids = old.kids \o ns] \in NodeRec
  <2>. HIDE DEF old
  <2>. QED BY <1>3, <1>4 DEF NodeRec
<1>7. Retouched(G, H)
  <2>. DEFINE new == [old EXCEPT !.kids = old.kids \o ns]
  <2>1. /\ new.gid = old.gid /\ new.typId = old.typId /\ new.isSender = old.isSender
        /\ new.cases = old.cases /\ new.case_sel = old.case_sel /\ new.kids = old.kids \o ns
    <3>. HIDE DEF old
    <3>. QED BY <1>3 DEF NodeRec
  <2>2. H.id2node = [G.id2node EXCEPT ![from] = new] /\ new \in NodeRec
    BY <1>2, <1>6
  <2>3. G.id2node \in [N -> NodeRec] /\ G.tid2end \in [DOMAIN G.roots -> N \cup {NoNode}]
    BY <1>1 DEF Parts, RootsInv
  <2>. HIDE DEF H, new
  <2>4. DOMAIN H.id2node = N /\ H.id2node \in [N -> NodeRec]
        /\ H.id2node[from] = new /\ \A n \in N \ {from} : H.id2node[n] = G.id2node[n]
    BY <2>2, <2>3
  <2>5. ASSUME NEW n \in N
        PROVE  /\ H.id2node[n].gid = G.id2node[n].gid /\ H.id2node[n].typId = G.id2node[n].typId
               /\ H.id2node[n].isSender = G.id2node[n].isSender
               /\ H.id2node[n].cases = G.id2node[n].cases /\ H.id2node[n].case_sel = G.id2node[n].case_sel
               /\ H.id2node[n].kids \in Seq(N)
               /\ \A i \in DOMAIN H.id2node[n].kids :
                    \/ G.id2node[H.id2node[n].kids[i]].typId = "NGoroutine"
                    \/ G.id2node[H.id2node[n].kids[i]].gid = G.id2node[n].gid
    <3>1. CASE n = from
      <4>1. H.id2node[n] = new /\ G.id2node[n] = old
        BY <2>4, <3>1
      <4>. HIDE DEF old
      <4>. QED BY <1>4, <1>5, <2>1, <4>1
    <3>2. CASE n # from
      <4>1. H.id2node[n] = G.id2node[n] /\ NodeInv(G, n)
        BY <1>1, <2>4, <3>2 DEF Parts
      <4>. QED BY <4>1 DEF NodeInv
    <3>. QED BY <3>1, <3>2
  <2>. HIDE DEF N
  <2>. QED BY <1>2, <2>3, <2>4, <2>5 DEF Retouched, N
<1>8. GraphInv(H) /\ Grows(G, H) /\ ID(H) = ID(G)
  <2>. HIDE DEF H
  <2>. QED BY <1>7, RetouchInv
<1>9. DOMAIN H.id2node = N
  BY <1>7 DEF Retouched
<1>. QED BY <1>2, <1>8, <1>9

\* An exit may be stored alone, for a goroutine that has none.
FirstExit(G, nds) ==
  \A i \in DOMAIN nds : nds[i].typId = "NExit" =>
    /\ Len(nds) = 1
    /\ \A n \in DOMAIN G.id2node : G.id2node[n].typId = "NExit" => G.id2node[n].gid # nds[i].gid

\* H has the nodes nds on top of those of G.
Added(G, H, nds) ==
  /\ GraphInv(H) /\ Keeps(G, H)
  /\ (\A i \in DOMAIN nds : nds[i].typId # "NExit") => Grows(G, H)
  /\ ID(H) = ID(G) + Len(nds)
  /\ \A i \in DOMAIN nds : LET n == ID(G) + i - 1
                           IN  /\ n \in DOMAIN H.id2node
                               /\ H.id2node[n].gid = nds[i].gid /\ H.id2node[n].typId = nds[i].typId

\* The ids that NewIds gives to nds.
Ids(G, nds) == ID(G) .. ID(G) + Len(nds) - 1

LEMMA StoreInv ==
  ASSUME NEW G, GraphInv(G), NEW nds, Storable(G, nds), FirstExit(G, nds)
  PROVE  /\ Added(G, Store(G, nds), nds) /\ Stored(G, Store(G, nds), nds)
         /\ Ids(G, nds) \subseteq DOMAIN Store(G, nds).id2node
<1>. DEFINE H == Store(G, nds)
<1>1. IsSeq(nds)
  <2>1. nds \in Seq(NodeRec)
    BY DEF Storable
  <2>. QED BY <2>1, SelfTyped
<1>2. Stored(G, H, nds)
  BY <1>1, StoreNodes
<1>. HIDE DEF H
<1>3. GraphInv(H) /\ Keeps(G, H) /\ ((\A i \in DOMAIN nds : nds[i].typId # "NExit") => Grows(G, H))
  BY <1>2, StoredInv DEF FirstExit
<1>4. ID(G) \in Nat /\ Len(nds) \in Nat /\ DOMAIN nds = 1 .. Len(nds)
  BY <1>1, SeqFacts, PartsOf DEF Parts
<1>5. Ids(G, nds) \subseteq DOMAIN H.id2node
  BY <1>2, <1>4 DEF Stored, Ids
<1>6. ASSUME NEW i \in DOMAIN nds
      PROVE  ID(G) + i - 1 \in DOMAIN H.id2node /\ H.id2node[ID(G) + i - 1] = nds[i]
  BY <1>2, <1>4 DEF Stored
<1>7. ID(H) = ID(G) + Len(nds)
  BY <1>2 DEF Stored
<1>. QED BY <1>2, <1>3, <1>5, <1>6, <1>7 DEF Added, H

LEMMA StoreLinkInv ==
  ASSUME NEW G, GraphInv(G), NEW from \in DOMAIN G.id2node, NEW nds, Storable(G, nds), FirstExit(G, nds),
         NEW ns \in Seq(Ids(G, nds)), \A i \in DOMAIN nds : nds[i].gid = G.id2node[from].gid
  PROVE  LET H == Link(Store(G, nds), from, ns)
         IN  Added(G, H, nds) /\ H.resources = G.resources /\ Ids(G, nds) \subseteq DOMAIN H.id2node
<1>. DEFINE K == Store(G, nds)
            H == Link(K, from, ns)
<1>1. Added(G, K, nds) /\ Stored(G, K, nds) /\ Ids(G, nds) \subseteq DOMAIN K.id2node
  BY StoreInv
<1>. HIDE DEF K
<1>2. ID(G) \in Nat /\ Len(nds) \in Nat /\ DOMAIN nds = 1 .. Len(nds)
  BY PartsOf DEF Parts, Storable
<1>3. from \in DOMAIN K.id2node /\ K.id2node[from].gid = G.id2node[from].gid /\ ns \in Seq(DOMAIN K.id2node)
  BY <1>1, SeqMonotonic DEF Added, Keeps
<1>4. ASSUME NEW i \in DOMAIN ns PROVE K.id2node[ns[i]].gid = K.id2node[from].gid
  <2>1. ns[i] \in Ids(G, nds)
    OBVIOUS
  <2>2. ns[i] - ID(G) + 1 \in DOMAIN nds /\ ID(G) + (ns[i] - ID(G) + 1) - 1 = ns[i]
    BY <2>1, <1>2 DEF Ids
  <2>. QED BY <1>1, <1>3, <2>2 DEF Added
<1>5. /\ GraphInv(H) /\ Grows(K, H) /\ ID(H) = ID(K) /\ H.resources = K.resources
      /\ DOMAIN H.id2node = DOMAIN K.id2node
  BY <1>1, <1>3, <1>4, LinkInv DEF Added
<1>. HIDE DEF H
<1>6. Keeps(G, H) /\ ((\A i \in DOMAIN nds : nds[i].typId # "NExit") => Grows(G, H))
  BY <1>1, <1>5, KeepsTrans, GrowsTrans DEF Added, Grows
<1>7. ID(H) = ID(G) + Len(nds) /\ H.resources = G.resources
  BY <1>1, <1>5 DEF Stored
<1>8. ASSUME NEW i \in DOMAIN nds
      PROVE  LET n == ID(G) + i - 1
             IN  /\ n \in DOMAIN H.id2node
                 /\ H.id2node[n].gid = nds[i].gid /\ H.id2node[n].typId = nds[i].typId
  BY <1>1, <1>5 DEF Added, Grows, Keeps
<1>9. Added(G, H, nds)
  BY <1>5, <1>6, <1>7, <1>8 DEF Added
<1>. QED BY <1>1, <1>5, <1>7, <1>9 DEF H, K

LEMMA AddNodesInv ==
  ASSUME NEW G, GraphInv(G), NEW from \in DOMAIN G.id2node, NEW nds, Storable(G, nds), FirstExit(G, nds),
         NEW ns \in Seq(Ids(G, nds)), \A i \in DOMAIN nds : nds[i].gid = G.id2node[from].gid
  PROVE  Added(G, AddNodes(G, from, nds, ns), nds)
<1>. DEFINE K == Link(Store(G, nds), from, ns)
            S == Ids(G, nds)
            H == UpdateResources(K, S)
<1>1. Added(G, K, nds) /\ K.resources = G.resources /\ S \in SUBSET DOMAIN K.id2node
  BY StoreLinkInv
<1>2. ASSUME NEW o \in Obj, NEW i \in DOMAIN K.resources[o].consumers, NEW n \in S
      PROVE  K.resources[o].consumers[i] < n
  <2>1. Parts(G) /\ Len(nds) \in Nat
    BY PartsOf DEF Storable
  <2>2. G.resources[o].consumers \in Seq(DOMAIN G.id2node) /\ DOMAIN G.id2node = 0 .. ID(G) - 1 /\ ID(G) \in Nat
    BY <2>1 DEF Parts, ListsInv
  <2>3. K.resources[o].consumers[i] \in 0 .. ID(G) - 1
    BY <2>2, <1>1
  <2>. HIDE DEF K
  <2>. QED BY <2>1, <2>2, <2>3 DEF Ids
<1>. HIDE DEF K, S
<1>3. GraphInv(H) /\ Grows(K, H) /\ H.id2node = K.id2node /\ ID(H) = ID(K)
  BY <1>1, <1>2, ResourcesInv DEF Added
<1>. HIDE DEF H
<1>4. Keeps(G, H) /\ ((\A i \in DOMAIN nds : nds[i].typId # "NExit") => Grows(G, H))
  BY <1>1, <1>3, KeepsTrans, GrowsTrans DEF Added, Grows
<1>5. Added(G, H, nds)
  BY <1>1, <1>3, <1>4 DEF Added
<1>6. H = AddNodes(G, from, nds, ns)
  BY DEF H, S, K, AddNodes, Ids
<1>. QED BY <1>5, <1>6

-----------------------------------------------------------------------------
(* The program.                                                              *)

StateRec == [kind : {"chan", "done", "other"}, on : Seq(Obj), send : BOOLEAN, case_kind : CaseKind]
InstRec(q) == [op : STRING, on : Seq(Obj), callees : Seq(DOMAIN q), text : STRING,
               states : Seq(StateRec), blocking : BOOLEAN]
BlkRec(q) == [comment : STRING, instrs : Seq(InstRec(q)), term : STRING, two : BOOLEAN, succs : Seq(Nat)]

LEMMA ProgramFacts ==
  ASSUME NEW q, IsProgram(q)
  PROVE  /\ "main" \in DOMAIN q
         /\ \A cg \in DOMAIN q : /\ q[cg].fn \in Fn /\ Linked(q[cg].blocks)
                                 /\ q[cg].blocks \in Seq(BlkRec(q))
                                 /\ \A b \in DOMAIN q[cg].blocks :
                                      <<cg, b>> \in LoopName /\ q[cg].blocks[b].instrs \in Seq(InstRec(q))
<1>1. /\ q \in [DOMAIN q -> [fn : Fn, kind : {"app", "lib", "cancel"}, blocks : Seq(BlkRec(q))]]
      /\ "main" \in DOMAIN q
      /\ \A cg \in DOMAIN q : \A b \in DOMAIN q[cg].blocks :
           LET blk == q[cg].blocks[b]
           IN  /\ blk.succs \in Seq(DOMAIN q[cg].blocks)
               /\ blk.comment \in DOMAIN LoopOf \ {"for.body"} => Len(blk.succs) = 2
               /\ <<cg, b>> \in LoopName
  BY DEF IsProgram, BlkRec, InstRec, StateRec
<1>2. ASSUME NEW cg \in DOMAIN q
      PROVE  q[cg].fn \in Fn /\ q[cg].blocks \in Seq(BlkRec(q))
  BY <1>1
<1>3. ASSUME NEW cg \in DOMAIN q, NEW b \in DOMAIN q[cg].blocks
      PROVE  q[cg].blocks[b].instrs \in Seq(InstRec(q))
  <2>1. q[cg].blocks[b] \in BlkRec(q)
    BY <1>2
  <2>. QED BY <2>1 DEF BlkRec
<1>4. ASSUME NEW cg \in DOMAIN q PROVE Linked(q[cg].blocks)
  <2>1. IsSeq(q[cg].blocks)
    BY <1>2, SelfTyped
  <2>. QED BY <1>1, <2>1 DEF Linked
<1>. QED BY <1>1, <1>2, <1>3, <1>4

LEMMA NodeType ==
  ASSUME p \in Programs, NEW cg \in DOMAIN p, NEW tid \in Nat, NEW typ \in TypeOfNode
  PROVE  NewNode(typ, tid, cg) \in NodeRec
<1>1. p[cg].fn \in Fn /\ NoLoop \in LoopName
  BY ProgramFacts, ProgramsAssumption
<1>2. <<>> \in Seq(Obj) /\ <<>> \in Seq(Nat) /\ <<>> \in Seq(Int) /\ "chan" \in CaseKind
  BY EmptySeq DEF CaseKind
<1>. QED BY <1>1, <1>2 DEF NewNode, NodeRec

\* A node of a goroutine that is in no list yet.
Fresh(G, nd) ==
  /\ nd \in NodeRec /\ nd.gid \in DOMAIN G.roots /\ nd.typId # "NGoroutine"
  /\ nd.kids = <<>> /\ (\A k \in DOMAIN nd.cases : nd.cases[k] = NoNode)
  /\ nd.cases # <<>> => nd.typId = "NSelect"
  /\ nd.case_sel \in DOMAIN G.id2node
  /\ nd.typId \in CaseTypes => /\ G.id2node[nd.case_sel].gid = nd.gid
                               /\ G.id2node[nd.case_sel].typId = "NSelect"

\* H is G with the node nd.
One(G, H, nd) ==
  /\ GraphInv(H) /\ Keeps(G, H) /\ (nd.typId # "NExit" => Grows(G, H))
  /\ ID(H) = ID(G) + 1 /\ In(H, ID(G), nd.gid) /\ H.id2node[ID(G)].typId = nd.typId

OneExitOf(G, nd) ==
  nd.typId = "NExit" => \A n \in DOMAIN G.id2node : G.id2node[n].typId = "NExit" => G.id2node[n].gid # nd.gid

LEMMA OneStorable ==
  ASSUME NEW G, GraphInv(G), NEW nd, Fresh(G, nd), OneExitOf(G, nd)
  PROVE  /\ Storable(G, <<nd>>) /\ FirstExit(G, <<nd>>)
         /\ DOMAIN <<nd>> = {1} /\ Len(<<nd>>) = 1 /\ <<nd>>[1] = nd
         /\ Ids(G, <<nd>>) = {ID(G)} /\ <<ID(G)>> \in Seq({ID(G)})
         /\ ID(G) + 1 - 1 = ID(G)
<1>1. ID(G) \in Nat
  BY PartsOf DEF Parts
<1>2. DOMAIN <<nd>> = {1} /\ Len(<<nd>>) = 1 /\ <<nd>>[1] = nd /\ <<nd>> \in Seq(NodeRec)
  BY DEF Fresh
<1>3. \A k \in DOMAIN nd.kids : FALSE
  BY DEF Fresh
<1>4. Storable(G, <<nd>>)
  BY <1>2, <1>3 DEF Storable, Fresh
<1>5. FirstExit(G, <<nd>>)
  BY <1>2 DEF FirstExit, OneExitOf
<1>6. Ids(G, <<nd>>) = {ID(G)} /\ <<ID(G)>> \in Seq({ID(G)}) /\ ID(G) + 1 - 1 = ID(G)
  BY <1>1, <1>2 DEF Ids
<1>. QED BY <1>2, <1>4, <1>5, <1>6

LEMMA OneOf ==
  ASSUME NEW G, GraphInv(G), NEW nd, Fresh(G, nd), OneExitOf(G, nd), NEW H, Added(G, H, <<nd>>)
  PROVE  One(G, H, nd)
<1>1. DOMAIN <<nd>> = {1} /\ Len(<<nd>>) = 1 /\ <<nd>>[1] = nd /\ ID(G) + 1 - 1 = ID(G)
  BY OneStorable
<1>2. 1 \in DOMAIN <<nd>>
  BY <1>1
<1>. QED BY <1>1, <1>2 DEF Added, One, In

LEMMA UpdateNodesInv ==
  ASSUME NEW G, GraphInv(G), NEW nd, Fresh(G, nd), OneExitOf(G, nd), NEW prev, In(G, prev, nd.gid)
  PROVE  One(G, updateNodes(G, prev, nd), nd)
<1>1. /\ Storable(G, <<nd>>) /\ FirstExit(G, <<nd>>) /\ DOMAIN <<nd>> = {1} /\ <<nd>>[1] = nd
      /\ <<ID(G)>> \in Seq(Ids(G, <<nd>>))
  BY OneStorable
<1>2. prev \in DOMAIN G.id2node /\ \A i \in DOMAIN <<nd>> : <<nd>>[i].gid = G.id2node[prev].gid
  BY <1>1 DEF In
<1>3. Added(G, updateNodes(G, prev, nd), <<nd>>)
  BY <1>1, <1>2, StoreLinkInv DEF updateNodes
<1>. QED BY <1>3, OneOf

LEMMA AddNodeInv ==
  ASSUME NEW G, GraphInv(G), NEW nd, Fresh(G, nd), OneExitOf(G, nd), NEW prev, In(G, prev, nd.gid)
  PROVE  One(G, AddNode(G, prev, nd), nd)
<1>1. /\ Storable(G, <<nd>>) /\ FirstExit(G, <<nd>>) /\ DOMAIN <<nd>> = {1} /\ <<nd>>[1] = nd
      /\ <<ID(G)>> \in Seq(Ids(G, <<nd>>))
  BY OneStorable
<1>2. prev \in DOMAIN G.id2node /\ \A i \in DOMAIN <<nd>> : <<nd>>[i].gid = G.id2node[prev].gid
  BY <1>1 DEF In
<1>3. Added(G, AddNode(G, prev, nd), <<nd>>)
  BY <1>1, <1>2, AddNodesInv DEF AddNode
<1>. QED BY <1>3, OneOf

\* A node that is linked to nothing.
Loose(G, nd) == UpdateResources(Store(G, <<nd>>), {ID(G)})

LEMMA LooseInv ==
  ASSUME NEW G, GraphInv(G), NEW nd, Fresh(G, nd), OneExitOf(G, nd)
  PROVE  /\ One(G, Loose(G, nd), nd)
         /\ Loose(G, nd).id2node[ID(G)] = nd
         /\ \A n \in DOMAIN G.id2node : Loose(G, nd).id2node[n] = G.id2node[n]
<1>. DEFINE K == Store(G, <<nd>>)
            H == UpdateResources(K, {ID(G)})
<1>1. /\ Storable(G, <<nd>>) /\ FirstExit(G, <<nd>>) /\ DOMAIN <<nd>> = {1} /\ <<nd>>[1] = nd
      /\ Ids(G, <<nd>>) = {ID(G)} /\ ID(G) + 1 - 1 = ID(G)
  BY OneStorable
<1>2. Added(G, K, <<nd>>) /\ Stored(G, K, <<nd>>) /\ {ID(G)} \subseteq DOMAIN K.id2node
  BY <1>1, StoreInv
<1>. HIDE DEF K
<1>3. K.id2node[ID(G)] = nd /\ \A n \in DOMAIN G.id2node : K.id2node[n] = G.id2node[n]
  <2>1. 1 \in DOMAIN <<nd>>
    BY <1>1
  <2>. QED BY <1>1, <1>2, <2>1 DEF Stored
<1>4. ASSUME NEW o \in Obj, NEW i \in DOMAIN K.resources[o].consumers PROVE K.resources[o].consumers[i] < ID(G)
  <2>1. Parts(G)
    BY PartsOf
  <2>2. G.resources[o].consumers \in Seq(DOMAIN G.id2node)
    BY <2>1 DEF Parts, ListsInv
  <2>3. K.resources = G.resources
    BY <1>2 DEF Stored
  <2>4. K.resources[o].consumers[i] \in DOMAIN G.id2node
    <3>. DEFINE s == G.resources[o].consumers
    <3>1. s \in Seq(DOMAIN G.id2node) /\ i \in DOMAIN s
      BY <1>4, <2>2, <2>3
    <3>. HIDE DEF s
    <3>2. s[i] \in DOMAIN G.id2node
      BY <3>1
    <3>. QED BY <2>3, <3>2 DEF s
  <2>5. DOMAIN G.id2node = 0 .. ID(G) - 1 /\ ID(G) \in Nat
    BY <2>1 DEF Parts
  <2>. QED BY <2>4, <2>5
<1>5. GraphInv(H) /\ Grows(K, H) /\ H.id2node = K.id2node /\ ID(H) = ID(K)
  BY <1>2, <1>4, ResourcesInv DEF Added
<1>. HIDE DEF H
<1>6. One(G, K, nd)
  BY <1>2, OneOf
<1>7. One(G, H, nd)
  <2>1. Keeps(G, H) /\ (nd.typId # "NExit" => Grows(G, H))
    BY <1>5, <1>6, KeepsTrans, GrowsTrans DEF One, Grows
  <2>. QED BY <1>5, <1>6, <2>1 DEF One, In
<1>8. H = Loose(G, nd)
  BY DEF H, K, Loose
<1>. QED BY <1>3, <1>5, <1>7, <1>8

-----------------------------------------------------------------------------
(* Marks and lists on a graph.                                               *)

LEMMA SameNodes ==
  ASSUME NEW G, GraphInv(G), NEW H, DOMAIN H = Fields, H.id2node = G.id2node, H.roots = G.roots,
         H.resources = G.resources, H.tid2end \in [DOMAIN G.roots -> DOMAIN G.id2node \cup {NoNode}]
  PROVE  GraphInv(H) /\ Grows(G, H) /\ ID(H) = ID(G)
<1>1. Parts(G)
  BY PartsOf
<1>2. ASSUME NEW n \in DOMAIN G.id2node
      PROVE  /\ G.id2node[n].kids \in Seq(DOMAIN G.id2node)
             /\ \A i \in DOMAIN G.id2node[n].kids :
                  \/ G.id2node[G.id2node[n].kids[i]].typId = "NGoroutine"
                  \/ G.id2node[G.id2node[n].kids[i]].gid = G.id2node[n].gid
  BY <1>1 DEF Parts, NodeInv
<1>3. Retouched(G, H)
  BY <1>1, <1>2 DEF Retouched, Parts
<1>. QED BY <1>3, RetouchInv

LEMMA SetEndInv ==
  ASSUME NEW G, GraphInv(G), NEW t, NEW n \in DOMAIN G.id2node
  PROVE  LET H == [G EXCEPT !.tid2end[t] = n]
         IN  GraphInv(H) /\ Grows(G, H) /\ H.id2node = G.id2node /\ ID(H) = ID(G)
<1>. DEFINE H == [G EXCEPT !.tid2end[t] = n]
<1>1. Parts(G)
  BY PartsOf
<1>2. /\ DOMAIN H = Fields /\ H.id2node = G.id2node /\ H.roots = G.roots /\ H.resources = G.resources
      /\ H.tid2end = [G.tid2end EXCEPT ![t] = n]
  BY <1>1 DEF Parts, Fields
<1>3. H.tid2end \in [DOMAIN G.roots -> DOMAIN G.id2node \cup {NoNode}]
  <2>1. G.tid2end \in [DOMAIN G.roots -> DOMAIN G.id2node \cup {NoNode}]
    BY <1>1 DEF Parts, RootsInv
  <2>. HIDE DEF H
  <2>. QED BY <1>2, <2>1
<1>. HIDE DEF H
<1>4. GraphInv(H) /\ Grows(G, H) /\ ID(H) = ID(G)
  BY <1>2, <1>3, SameNodes
<1>. QED BY <1>2, <1>4 DEF H

LEMMA SetListInv ==
  ASSUME NEW G, GraphInv(G), NEW x, NEW H, H \in {[G EXCEPT !.rws = x], [G EXCEPT !.gid2nloop = x]}
  PROVE  GraphInv(H) /\ Grows(G, H) /\ H.id2node = G.id2node /\ ID(H) = ID(G)
<1>1. Parts(G)
  BY PartsOf
<1>2. /\ DOMAIN H = Fields /\ H.id2node = G.id2node /\ H.roots = G.roots /\ H.resources = G.resources
      /\ H.tid2end = G.tid2end
  BY <1>1 DEF Parts, Fields
<1>3. H.tid2end \in [DOMAIN G.roots -> DOMAIN G.id2node \cup {NoNode}]
  BY <1>1, <1>2 DEF Parts, RootsInv
<1>. QED BY <1>2, <1>3, SameNodes

\* The node nd at n instead of the one that is there.
LEMMA SetNodeInv ==
  ASSUME NEW G, GraphInv(G), NEW n \in DOMAIN G.id2node, NEW nd \in NodeRec,
         NEW H, DOMAIN H = Fields, H.id2node = [G.id2node EXCEPT ![n] = nd], H.roots = G.roots,
         H.resources = G.resources, H.tid2end = G.tid2end,
         LET old == G.id2node[n]
         IN  /\ nd.gid = old.gid /\ nd.typId = old.typId /\ nd.isSender = old.isSender
             /\ nd.kids = old.kids /\ nd.cases = old.cases /\ nd.case_sel = old.case_sel
  PROVE  GraphInv(H) /\ Grows(G, H) /\ ID(H) = ID(G)
<1>1. Parts(G) /\ G.id2node \in [DOMAIN G.id2node -> NodeRec]
  BY PartsOf DEF Parts
<1>2. ASSUME NEW m \in DOMAIN G.id2node
      PROVE  /\ G.id2node[m].kids \in Seq(DOMAIN G.id2node)
             /\ \A i \in DOMAIN G.id2node[m].kids :
                  \/ G.id2node[G.id2node[m].kids[i]].typId = "NGoroutine"
                  \/ G.id2node[G.id2node[m].kids[i]].gid = G.id2node[m].gid
  BY <1>1 DEF Parts, NodeInv
<1>3. /\ H.id2node[n] = nd /\ \A m \in DOMAIN G.id2node \ {n} : H.id2node[m] = G.id2node[m]
      /\ DOMAIN H.id2node = DOMAIN G.id2node /\ H.id2node \in [DOMAIN G.id2node -> NodeRec]
  BY <1>1
<1>4. ASSUME NEW m \in DOMAIN G.id2node
      PROVE  /\ H.id2node[m].gid = G.id2node[m].gid /\ H.id2node[m].typId = G.id2node[m].typId
             /\ H.id2node[m].isSender = G.id2node[m].isSender /\ H.id2node[m].kids = G.id2node[m].kids
             /\ H.id2node[m].cases = G.id2node[m].cases /\ H.id2node[m].case_sel = G.id2node[m].case_sel
  <2>1. CASE m = n
    BY <1>3, <2>1
  <2>2. CASE m # n
    BY <1>3, <2>2
  <2>. QED BY <2>1, <2>2
<1>5. H.tid2end \in [DOMAIN G.roots -> DOMAIN G.id2node \cup {NoNode}]
  BY <1>1 DEF Parts, RootsInv
<1>6. ASSUME NEW m \in DOMAIN G.id2node
      PROVE  /\ H.id2node[m].kids \in Seq(DOMAIN G.id2node)
             /\ \A i \in DOMAIN H.id2node[m].kids :
                  \/ G.id2node[H.id2node[m].kids[i]].typId = "NGoroutine"
                  \/ G.id2node[H.id2node[m].kids[i]].gid = G.id2node[m].gid
  <2>1. H.id2node[m].kids = G.id2node[m].kids
    BY <1>4
  <2>2. /\ G.id2node[m].kids \in Seq(DOMAIN G.id2node)
        /\ \A i \in DOMAIN G.id2node[m].kids :
             \/ G.id2node[G.id2node[m].kids[i]].typId = "NGoroutine"
             \/ G.id2node[G.id2node[m].kids[i]].gid = G.id2node[m].gid
    BY <1>2
  <2>. DEFINE ks == H.id2node[m].kids
              was == G.id2node[m].kids
  <2>3. ks = was
    BY <2>1
  <2>4. /\ was \in Seq(DOMAIN G.id2node)
        /\ \A i \in DOMAIN was : \/ G.id2node[was[i]].typId = "NGoroutine"
                                \/ G.id2node[was[i]].gid = G.id2node[m].gid
    BY <2>2
  <2>. HIDE DEF ks, was
  <2>. QED BY <2>3, <2>4 DEF ks
<1>7. Retouched(G, H)
  <2>. DEFINE N == DOMAIN G.id2node
  <2>1. DOMAIN H.id2node = N /\ H.id2node \in [N -> NodeRec]
    BY <1>3
  <2>. HIDE DEF N
  <2>. QED BY <1>4, <1>5, <1>6, <2>1 DEF Retouched, N
<1>. QED BY <1>7, RetouchInv

LEMMA MarkInv ==
  ASSUME NEW G, GraphInv(G), NEW f, f.select_node_id \in Nat, NEW b, b.prev \in DOMAIN G.id2node
  PROVE  GraphInv(Mark(G, f, b)) /\ Grows(G, Mark(G, f, b))
<1>1. CASE ~(f.select_node_id > 0)
  BY <1>1, GrowsRefl DEF Mark
<1>2. CASE f.select_node_id > 0
  <2>. DEFINE n == b.prev
              old == G.id2node[n]
              nd == [old EXCEPT !.select_node_id = f.select_node_id]
              H == [G EXCEPT !.id2node[n].select_node_id = f.select_node_id]
  <2>1. Parts(G)
    BY PartsOf
  <2>2. old \in NodeRec
    BY <2>1 DEF Parts
  <2>3. /\ nd \in NodeRec /\ nd.gid = old.gid /\ nd.typId = old.typId /\ nd.isSender = old.isSender
        /\ nd.kids = old.kids /\ nd.cases = old.cases /\ nd.case_sel = old.case_sel
    <3>. HIDE DEF old
    <3>. QED BY <2>2 DEF NodeRec
  <2>4. /\ DOMAIN H = Fields /\ H.id2node = [G.id2node EXCEPT ![n] = nd] /\ H.roots = G.roots
        /\ H.resources = G.resources /\ H.tid2end = G.tid2end
    BY <2>1 DEF Parts, Fields
  <2>5. Mark(G, f, b) = H
    BY <1>2 DEF Mark
  <2>. HIDE DEF H, nd
  <2>6. n \in DOMAIN G.id2node
    OBVIOUS
  <2>. QED BY <2>3, <2>4, <2>5, <2>6, SetNodeInv DEF old
<1>. QED BY <1>1, <1>2

LEMMA SeqExcept ==
  ASSUME NEW S, NEW s \in Seq(S), NEW i, NEW e \in S
  PROVE  [s EXCEPT ![i] = e] \in Seq(S)
<1>1. Len(s) \in Nat /\ s \in [1 .. Len(s) -> S]
  BY LenProperties
<1>2. [s EXCEPT ![i] = e] \in [1 .. Len(s) -> S]
  BY <1>1
<1>. QED BY <1>1, <1>2, SeqDef

\* Case c of the select sel.
SetCase(G, sel, at, c) == [G EXCEPT !.id2node[sel].cases[at] = c]

LEMMA SetCaseInv ==
  ASSUME NEW G, GraphInv(G), NEW sel \in DOMAIN G.id2node, NEW c \in DOMAIN G.id2node, NEW at,
         G.id2node[sel].typId = "NSelect", G.id2node[c].typId \in CaseTypes,
         G.id2node[c].case_sel = sel, G.id2node[c].gid = G.id2node[sel].gid,
         \A i \in DOMAIN G.id2node[sel].cases : G.id2node[sel].cases[i] # c
  PROVE  GraphInv(SetCase(G, sel, at, c)) /\ Grows(G, SetCase(G, sel, at, c))
<1>. DEFINE H == SetCase(G, sel, at, c)
            N == DOMAIN G.id2node
            old == G.id2node[sel]
            cs == [old.cases EXCEPT ![at] = c]
            nd == [old EXCEPT !.cases = cs]
<1>1. Parts(G) /\ N \subseteq Nat
  BY PartsOf DEF Parts
<1>2. old \in NodeRec /\ old.cases \in Seq(N \cup {NoNode}) /\ old.cases \in Seq(Int) /\ G.id2node \in [N -> NodeRec]
      /\ \A n \in N : NodeInv(G, n)
  BY <1>1 DEF Parts, NodeInv, NodeRec
<1>3. /\ cs \in Seq(N \cup {NoNode}) /\ cs \in Seq(Int) /\ DOMAIN cs = DOMAIN old.cases
      /\ \A i \in DOMAIN cs : cs[i] = IF i = at THEN c ELSE old.cases[i]
  <2>. DEFINE s == old.cases
  <2>1. s \in Seq(N \cup {NoNode}) /\ s \in Seq(Int) /\ c \in N \cup {NoNode} /\ c \in Int
    BY <1>1, <1>2
  <2>2. /\ [s EXCEPT ![at] = c] \in Seq(N \cup {NoNode}) /\ [s EXCEPT ![at] = c] \in Seq(Int)
        /\ DOMAIN [s EXCEPT ![at] = c] = DOMAIN s
        /\ \A i \in DOMAIN s : [s EXCEPT ![at] = c][i] = IF i = at THEN c ELSE s[i]
    <3>. HIDE DEF s, N
    <3>. QED BY <2>1, SeqExcept
  <2>. QED BY <2>2
<1>4. /\ nd \in NodeRec /\ nd.gid = old.gid /\ nd.typId = old.typId /\ nd.isSender = old.isSender
      /\ nd.kids = old.kids /\ nd.case_sel = old.case_sel /\ nd.cases = cs
  <2>. HIDE DEF old, cs
  <2>. QED BY <1>2, <1>3 DEF NodeRec
<1>5. /\ DOMAIN H = Fields /\ H.id2node = [G.id2node EXCEPT ![sel] = nd] /\ H.roots = G.roots
      /\ H.resources = G.resources /\ H.tid2end = G.tid2end
  BY <1>1 DEF Parts, Fields, SetCase
<1>6. /\ DOMAIN H.id2node = N /\ H.id2node[sel] = nd /\ \A n \in N \ {sel} : H.id2node[n] = G.id2node[n]
      /\ H.id2node \in [N -> NodeRec]
  <2>. HIDE DEF H, nd, N
  <2>. QED BY <1>2, <1>4, <1>5
<1>. HIDE DEF H, nd, cs
<1>7. ASSUME NEW n \in N
      PROVE  /\ H.id2node[n].gid = G.id2node[n].gid /\ H.id2node[n].typId = G.id2node[n].typId
             /\ H.id2node[n].isSender = G.id2node[n].isSender /\ H.id2node[n].kids = G.id2node[n].kids
             /\ H.id2node[n].case_sel = G.id2node[n].case_sel
  BY <1>4, <1>6
<1>8. RootsInv(H)
  BY <1>1, <1>5, <1>6, <1>7 DEF Parts, RootsInv
<1>9. ListsInv(H)
  <2>1. ASSUME NEW o \in Obj, NEW i \in DOMAIN H.resources[o].consumers
        PROVE  ~Produces(H.id2node[H.resources[o].consumers[i]])
    <3>1. ~Produces(G.id2node[G.resources[o].consumers[i]]) /\ H.resources[o].consumers[i] \in N
      <4>1. G.resources[o].consumers \in Seq(N)
        BY <1>1 DEF Parts, ListsInv
      <4>2. G.resources[o].consumers[i] \in N
        BY <4>1, <1>5
      <4>. QED BY <1>1, <1>5, <4>2 DEF Parts, ListsInv
    <3>. DEFINE x == H.resources[o].consumers[i]
    <3>2. H.resources = G.resources /\ x \in N
      BY <1>5, <3>1
    <3>3. ~Produces(G.id2node[x])
      BY <3>1, <3>2
    <3>. HIDE DEF x, N
    <3>4. H.id2node[x].typId = G.id2node[x].typId /\ H.id2node[x].isSender = G.id2node[x].isSender
      BY <1>7, <3>2
    <3>5. ~Produces(H.id2node[x])
      BY <3>3, <3>4 DEF Produces
    <3>. QED BY <3>5 DEF x
  <2>2. /\ H.resources \in [Obj -> [producers : Seq(N), consumers : Seq(N)]]
        /\ \A o \in Obj : Rising(H.resources[o].consumers)
    BY <1>1, <1>5 DEF Parts, ListsInv
  <2>. QED BY <1>6, <2>1, <2>2 DEF ListsInv
<1>10. OneExit(H)
  BY <1>1, <1>6, <1>7 DEF Parts, OneExit
<1>11. ASSUME NEW n \in N PROVE NodeInv(H, n)
  <2>1. /\ G.id2node[n].gid \in DOMAIN G.roots
        /\ G.id2node[n].typId = "NGoroutine" => G.roots[G.id2node[n].gid] = n
        /\ G.id2node[n].kids \in Seq(N)
        /\ \A i \in DOMAIN G.id2node[n].kids :
             \/ G.id2node[G.id2node[n].kids[i]].typId = "NGoroutine"
             \/ G.id2node[G.id2node[n].kids[i]].gid = G.id2node[n].gid
        /\ G.id2node[n].cases \in Seq(N \cup {NoNode})
        /\ G.id2node[n].cases # <<>> => G.id2node[n].typId = "NSelect"
        /\ \A i \in DOMAIN G.id2node[n].cases : G.id2node[n].cases[i] # NoNode =>
             /\ G.id2node[G.id2node[n].cases[i]].gid = G.id2node[n].gid
             /\ G.id2node[G.id2node[n].cases[i]].typId \in CaseTypes
             /\ G.id2node[G.id2node[n].cases[i]].case_sel = n
             /\ \A j \in DOMAIN G.id2node[n].cases : G.id2node[n].cases[j] = G.id2node[n].cases[i] => j = i
        /\ G.id2node[n].case_sel \in N
        /\ G.id2node[n].typId \in CaseTypes => /\ G.id2node[G.id2node[n].case_sel].gid = G.id2node[n].gid
                                               /\ G.id2node[G.id2node[n].case_sel].typId = "NSelect"
    BY <1>2 DEF NodeInv
  <2>1a. ASSUME NEW i \in DOMAIN G.id2node[n].cases, G.id2node[n].cases[i] # NoNode
         PROVE  /\ G.id2node[n].cases[i] \in N
                /\ G.id2node[G.id2node[n].cases[i]].gid = G.id2node[n].gid
                /\ G.id2node[G.id2node[n].cases[i]].typId \in CaseTypes
                /\ G.id2node[G.id2node[n].cases[i]].case_sel = n
                /\ \A j \in DOMAIN G.id2node[n].cases : G.id2node[n].cases[j] = G.id2node[n].cases[i] => j = i
    <3>1. G.id2node[n].cases[i] \in N \cup {NoNode}
      BY <2>1
    <3>. QED BY <2>1, <2>1a, <3>1
  <2>2. H.id2node[n].kids \in Seq(N) /\ \A i \in DOMAIN H.id2node[n].kids :
             \/ H.id2node[H.id2node[n].kids[i]].typId = "NGoroutine"
             \/ H.id2node[H.id2node[n].kids[i]].gid = H.id2node[n].gid
    <3>1. H.id2node[n].kids = G.id2node[n].kids
      BY <1>7
    <3>2. ASSUME NEW i \in DOMAIN G.id2node[n].kids
          PROVE  \/ H.id2node[G.id2node[n].kids[i]].typId = "NGoroutine"
                 \/ H.id2node[G.id2node[n].kids[i]].gid = H.id2node[n].gid
      <4>. DEFINE x == G.id2node[n].kids[i]
      <4>1. x \in N /\ (G.id2node[x].typId = "NGoroutine" \/ G.id2node[x].gid = G.id2node[n].gid)
        BY <2>1
      <4>. HIDE DEF x, N
      <4>2. /\ H.id2node[x].typId = G.id2node[x].typId /\ H.id2node[x].gid = G.id2node[x].gid
            /\ H.id2node[n].gid = G.id2node[n].gid
        BY <1>7, <4>1
      <4>3. H.id2node[x].typId = "NGoroutine" \/ H.id2node[x].gid = H.id2node[n].gid
        BY <4>1, <4>2
      <4>. QED BY <4>3 DEF x
    <3>3. G.id2node[n].kids \in Seq(N)
      BY <2>1
    <3>. HIDE DEF N
    <3>. QED BY <3>1, <3>2, <3>3
  <2>3. H.id2node[n].cases \in Seq(N \cup {NoNode}) /\ (H.id2node[n].cases # <<>> => H.id2node[n].typId = "NSelect")
    <3>1. CASE n = sel
      BY <1>3, <1>4, <1>6, <1>7, <3>1
    <3>2. CASE n # sel
      BY <1>6, <1>7, <2>1, <3>2
    <3>. QED BY <3>1, <3>2
  <2>4. ASSUME NEW i \in DOMAIN H.id2node[n].cases, H.id2node[n].cases[i] # NoNode
        PROVE  /\ H.id2node[H.id2node[n].cases[i]].gid = H.id2node[n].gid
               /\ H.id2node[H.id2node[n].cases[i]].typId \in CaseTypes
               /\ H.id2node[H.id2node[n].cases[i]].case_sel = n
               /\ \A j \in DOMAIN H.id2node[n].cases : H.id2node[n].cases[j] = H.id2node[n].cases[i] => j = i
    <3>1. CASE n = sel /\ i = at
      <4>1. H.id2node[n].cases = cs /\ cs[i] = c
        BY <1>3, <1>4, <1>6, <2>4, <3>1
      <4>2. \A j \in DOMAIN cs : cs[j] = c => j = i
        BY <1>3, <3>1
      <4>. QED BY <1>7, <3>1, <4>1, <4>2
    <3>2. CASE n = sel /\ i # at
      <4>1. H.id2node[n].cases = cs /\ cs[i] = old.cases[i] /\ i \in DOMAIN old.cases
        BY <1>3, <1>4, <1>6, <2>4, <3>2
      <4>2. cs[i] # c /\ cs[i] \in N /\ cs[i] # NoNode
        BY <1>2, <2>4, <4>1
      <4>3. \A j \in DOMAIN old.cases : old.cases[j] = old.cases[i] => j = i
        BY <2>1a, <3>2, <4>1, <4>2
      <4>4. ASSUME NEW j \in DOMAIN cs, cs[j] = cs[i] PROVE j = i
        <5>1. j # at /\ cs[j] = old.cases[j] /\ j \in DOMAIN old.cases
          BY <1>3, <4>2, <4>4
        <5>. QED BY <4>1, <4>3, <4>4, <5>1
      <4>. DEFINE x == cs[i]
      <4>5. /\ x \in N /\ G.id2node[x].gid = G.id2node[n].gid /\ G.id2node[x].typId \in CaseTypes
            /\ G.id2node[x].case_sel = n
        BY <2>1a, <3>2, <4>1, <4>2
      <4>. HIDE DEF x, N
      <4>6. /\ H.id2node[x].gid = H.id2node[n].gid /\ H.id2node[x].typId \in CaseTypes
            /\ H.id2node[x].case_sel = n
        BY <1>7, <4>5
      <4>. QED BY <4>1, <4>4, <4>6 DEF x
    <3>3. CASE n # sel
      <4>1. H.id2node[n].cases = G.id2node[n].cases
        BY <1>6, <3>3
      <4>. DEFINE x == G.id2node[n].cases[i]
      <4>2. i \in DOMAIN G.id2node[n].cases /\ x # NoNode
        BY <2>4, <4>1
      <4>3. /\ x \in N /\ G.id2node[x].gid = G.id2node[n].gid /\ G.id2node[x].typId \in CaseTypes
            /\ G.id2node[x].case_sel = n
            /\ \A j \in DOMAIN G.id2node[n].cases : G.id2node[n].cases[j] = x => j = i
        BY <2>1a, <4>2
      <4>. HIDE DEF x, N
      <4>4. /\ H.id2node[x].gid = H.id2node[n].gid /\ H.id2node[x].typId \in CaseTypes
            /\ H.id2node[x].case_sel = n
        BY <1>7, <4>3
      <4>. QED BY <4>1, <4>3, <4>4 DEF x
    <3>. QED BY <3>1, <3>2, <3>3
  <2>5. /\ H.id2node[n].gid \in DOMAIN H.roots
        /\ H.id2node[n].typId = "NGoroutine" => H.roots[H.id2node[n].gid] = n
        /\ H.id2node[n].case_sel \in N
        /\ H.id2node[n].typId \in CaseTypes => /\ H.id2node[H.id2node[n].case_sel].gid = H.id2node[n].gid
                                               /\ H.id2node[H.id2node[n].case_sel].typId = "NSelect"
    <3>. DEFINE x == G.id2node[n].case_sel
    <3>1. /\ H.roots = G.roots /\ H.id2node[n].gid = G.id2node[n].gid
          /\ H.id2node[n].typId = G.id2node[n].typId /\ H.id2node[n].case_sel = x
      BY <1>5, <1>7
    <3>2. /\ x \in N
          /\ G.id2node[n].typId \in CaseTypes => /\ G.id2node[x].gid = G.id2node[n].gid
                                                 /\ G.id2node[x].typId = "NSelect"
      BY <2>1
    <3>3. G.id2node[n].gid \in DOMAIN G.roots /\ (G.id2node[n].typId = "NGoroutine" => G.roots[G.id2node[n].gid] = n)
      BY <2>1
    <3>. HIDE DEF x, N
    <3>4. H.id2node[x].gid = G.id2node[x].gid /\ H.id2node[x].typId = G.id2node[x].typId
      BY <1>7, <3>2
    <3>. QED BY <3>1, <3>2, <3>3, <3>4
  <2>. HIDE DEF N
  <2>. QED BY <1>6, <2>2, <2>3, <2>4, <2>5 DEF NodeInv
<1>12. ID(H) = ID(G)
  BY <1>6 DEF ID
<1>13. Parts(H)
  BY <1>1, <1>5, <1>6, <1>8, <1>9, <1>10, <1>11, <1>12 DEF Parts
<1>14. Grows(G, H)
  BY <1>5, <1>6, <1>7 DEF Grows, Keeps
<1>. QED BY <1>13, <1>14, OfParts DEF H

LEMMA WGExitInv ==
  ASSUME NEW G, GraphInv(G), \A t \in DOMAIN wg_pts : wg_pts[t] \in Seq(Obj),
         NEW tid, NEW exit, In(G, exit, tid), G.id2node[exit].typId = "NExit"
  PROVE  GraphInv(updateWGExit(G, tid, exit)) /\ Grows(G, updateWGExit(G, tid, exit))
<1>1. CASE G.tid2end[tid] # NoNode \/ tid \notin DOMAIN wg_pts
  BY <1>1, GrowsRefl DEF updateWGExit
<1>2. CASE ~(G.tid2end[tid] # NoNode \/ tid \notin DOMAIN wg_pts)
  <2>. DEFINE old == G.id2node[exit]
              nd == [old EXCEPT !.pts = wg_pts[tid], !.isWGDone = TRUE, !.gid = tid]
              K == [G EXCEPT !.id2node[exit].pts = wg_pts[tid], !.id2node[exit].isWGDone = TRUE,
                             !.id2node[exit].gid = tid]
              H == UpdateResources(K, {exit})
  <2>1. Parts(G) /\ exit \in DOMAIN G.id2node /\ old.gid = tid /\ old.typId = "NExit"
    BY PartsOf DEF In
  <2>2. old \in NodeRec /\ wg_pts[tid] \in Seq(Obj)
    BY <1>2, <2>1 DEF Parts
  <2>3. /\ nd \in NodeRec /\ nd.gid = old.gid /\ nd.typId = old.typId /\ nd.isSender = old.isSender
        /\ nd.kids = old.kids /\ nd.cases = old.cases /\ nd.case_sel = old.case_sel
    <3>1. old \in NodeRec /\ old.gid = tid
      BY <2>1, <2>2
    <3>. HIDE DEF old
    <3>. QED BY <2>2, <3>1 DEF NodeRec
  <2>4. /\ DOMAIN K = Fields /\ K.id2node = [G.id2node EXCEPT ![exit] = nd] /\ K.roots = G.roots
        /\ K.resources = G.resources /\ K.tid2end = G.tid2end
    <3>1. G.id2node \in [DOMAIN G.id2node -> NodeRec] /\ DOMAIN G = Fields
      BY <2>1 DEF Parts
    <3>2. K.id2node = [[[G.id2node EXCEPT ![exit].pts = wg_pts[tid]] EXCEPT ![exit].isWGDone = TRUE] EXCEPT ![exit].gid = tid]
          /\ DOMAIN K = Fields /\ K.roots = G.roots /\ K.resources = G.resources /\ K.tid2end = G.tid2end
      BY <3>1 DEF Fields
    <3>. HIDE DEF K
    <3>3. [[[G.id2node EXCEPT ![exit].pts = wg_pts[tid]] EXCEPT ![exit].isWGDone = TRUE] EXCEPT ![exit].gid = tid]
            = [G.id2node EXCEPT ![exit] = nd]
      BY <2>1, <3>1
    <3>. QED BY <3>2, <3>3
  <2>. HIDE DEF K, nd
  <2>5. GraphInv(K) /\ Grows(G, K)
    <3>. HIDE DEF old
    <3>. QED BY <2>1, <2>3, <2>4, SetNodeInv DEF old
  <2>6. {exit} \in SUBSET DOMAIN K.id2node /\ Produces(K.id2node[exit])
    BY <2>1, <2>5 DEF Grows, Keeps, Produces
  <2>7. \A o \in Obj : LET cs == K.resources[o].consumers
                       IN  \A i \in DOMAIN cs : \A n \in {exit} : ~Produces(K.id2node[n]) => cs[i] < n
    BY <2>6
  <2>8. GraphInv(H) /\ Grows(K, H)
    BY <2>5, <2>6, <2>7, ResourcesInv
  <2>9. updateWGExit(G, tid, exit) = H
    BY <1>2 DEF updateWGExit, H, K
  <2>. QED BY <2>5, <2>8, <2>9, GrowsTrans
<1>. QED BY <1>1, <1>2

\* A goroutine: the node and what is kept for it.
Spawned(G, parent, tid, nd) ==
  [updateNodes(G, parent, nd) EXCEPT !.roots = With(@, tid, ID(G)), !.tid2end = With(@, tid, NoNode),
                                     !.gid2nloop = With(@, tid, {})]

LEMMA SpawnInv ==
  ASSUME NEW G, GraphInv(G), NEW parent \in DOMAIN G.id2node, NEW tid, tid = Cardinality(DOMAIN G.roots),
         NEW nd \in NodeRec, nd.gid = tid, nd.typId = "NGoroutine", nd.kids = <<>>, nd.cases = <<>>,
         nd.case_sel \in DOMAIN G.id2node
  PROVE  LET H == Spawned(G, parent, tid, nd)
         IN  /\ GraphInv(H) /\ Grows(G, H) /\ In(H, ID(G), tid) /\ tid \in DOMAIN H.roots
             /\ tid \notin DOMAIN G.roots
             /\ \A m \in DOMAIN H.id2node : H.id2node[m].typId = "NExit" => H.id2node[m].gid \in DOMAIN G.roots
<1>. DEFINE n == ID(G)
            N == DOMAIN G.id2node
            M == 0 .. n
            T == DOMAIN G.roots
            old == G.id2node[parent]
            K == Store(G, <<nd>>)
            link == [old EXCEPT !.kids = old.kids \o <<n>>]
            H == Spawned(G, parent, tid, nd)
<1>1. Parts(G) /\ n \in Nat \ {0} /\ N = 0 .. n - 1 /\ \A m \in N : NodeInv(G, m)
  BY PartsOf DEF Parts
<1>2. IsFiniteSet(T) /\ tid \in Nat /\ T = 0 .. tid - 1 /\ tid \notin T
  <2>1. IsFiniteSet(T) /\ T = 0 .. tid - 1
    BY <1>1 DEF Parts, Numbered
  <2>2. tid \in Nat
    BY <2>1, FS_CardinalityType
  <2>. HIDE DEF T
  <2>3. tid \notin T
    BY <2>1, <2>2
  <2>. QED BY <2>1, <2>2, <2>3
<1>3. N \subseteq M /\ n \in M /\ M \ N = {n} /\ n \notin N /\ M \subseteq Nat
  BY <1>1
<1>4. old \in NodeRec /\ old.kids \in Seq(N) /\ G.id2node \in [N -> NodeRec] /\ old.kids \in Seq(Nat)
  BY <1>1 DEF Parts, NodeInv, NodeRec
<1>5. DOMAIN K = Fields /\ K.roots = G.roots /\ K.resources = G.resources /\ K.tid2end = G.tid2end
      /\ DOMAIN K.id2node = M /\ K.id2node[n] = nd /\ (\A m \in N : K.id2node[m] = G.id2node[m])
      /\ K.id2node = [m \in M |-> K.id2node[m]]
  <2>1. IsSeq(<<nd>>) /\ Len(<<nd>>) = 1 /\ 1 \in DOMAIN <<nd>> /\ <<nd>>[1] = nd
    <3>. DEFINE s == <<nd>>
    <3>1. s \in Seq(NodeRec) /\ Len(s) = 1 /\ 1 \in DOMAIN s /\ s[1] = nd
      OBVIOUS
    <3>. HIDE DEF s
    <3>2. IsSeq(s)
      BY <3>1, SelfTyped
    <3>. QED BY <3>1, <3>2 DEF s
  <2>2. Stored(G, K, <<nd>>)
    BY <2>1, StoreNodes
  <2>3. n + 1 - 1 = n
    BY <1>1
  <2>. HIDE DEF K
  <2>4. DOMAIN K.id2node = M
    <3>1. DOMAIN K.id2node = 0 .. n + 1 - 1
      BY <2>1, <2>2 DEF Stored
    <3>. QED BY <2>3, <3>1
  <2>5. K.id2node[n + 1 - 1] = <<nd>>[1]
    BY <2>1, <2>2 DEF Stored
  <2>. QED BY <2>1, <2>2, <2>3, <2>4, <2>5 DEF Stored
<1>6. /\ old.kids \o <<n>> \in Seq(M) /\ old.kids \o <<n>> \in Seq(Nat)
      /\ \A i \in DOMAIN (old.kids \o <<n>>) :
           (old.kids \o <<n>>)[i] = n \/ \E j \in DOMAIN old.kids : (old.kids \o <<n>>)[i] = old.kids[j]
  <2>. DEFINE s == old.kids
  <2>1. s \in Seq(M) /\ <<n>> \in Seq(M) /\ <<n>>[1] = n /\ Len(<<n>>) = 1
    <3>. HIDE DEF s, N, M, n
    <3>. QED BY <1>3, <1>4, SeqMonotonic DEF s
  <2>2. /\ s \o <<n>> \in Seq(M) /\ Len(s \o <<n>>) = Len(s) + 1
        /\ \A i \in 1 .. Len(s) + 1 : (s \o <<n>>)[i] = IF i <= Len(s) THEN s[i] ELSE <<n>>[i - Len(s)]
    <3>. HIDE DEF s, M, n
    <3>. QED BY <2>1, ConcatProperties
  <2>3. Len(s) \in Nat /\ DOMAIN s = 1 .. Len(s) /\ DOMAIN (s \o <<n>>) = 1 .. Len(s) + 1
    <3>. HIDE DEF s, M, n
    <3>. QED BY <2>1, <2>2, LenProperties
  <2>4. s \o <<n>> \in Seq(Nat)
    <3>. HIDE DEF s, M, n
    <3>. QED BY <1>3, <2>2, SeqMonotonic
  <2>5. ASSUME NEW i \in DOMAIN (s \o <<n>>)
        PROVE  (s \o <<n>>)[i] = n \/ \E j \in DOMAIN s : (s \o <<n>>)[i] = s[j]
    <3>1. CASE i <= Len(s)
      BY <2>2, <2>3, <3>1
    <3>2. CASE ~(i <= Len(s))
      <4>1. i - Len(s) = 1
        BY <2>3, <3>2
      <4>. QED BY <2>1, <2>2, <2>3, <3>2, <4>1
    <3>. QED BY <3>1, <3>2
  <2>. QED BY <2>2, <2>4, <2>5
<1>7. /\ link \in NodeRec /\ link.gid = old.gid /\ link.typId = old.typId /\ link.isSender = old.isSender
      /\ link.cases = old.cases /\ link.case_sel = old.case_sel /\ link.kids = old.kids \o <<n>>
  <2>. HIDE DEF old, n
  <2>. QED BY <1>4, <1>6 DEF NodeRec
<1>8. /\ DOMAIN H = Fields /\ H.id2node = [K.id2node EXCEPT ![parent] = link]
      /\ H.roots = With(G.roots, tid, n) /\ H.tid2end = With(G.tid2end, tid, NoNode)
      /\ H.resources = G.resources
  <2>1. updateNodes(G, parent, nd) = [K EXCEPT !.id2node[parent].kids = K.id2node[parent].kids \o <<n>>]
    BY DEF updateNodes, Link
  <2>2. K.id2node[parent] = old
    BY <1>5
  <2>3. updateNodes(G, parent, nd) = [K EXCEPT !.id2node[parent] = link]
    <3>. HIDE DEF K, old, n
    <3>. QED BY <1>5, <2>1, <2>2 DEF Fields
  <2>. HIDE DEF K, link, n
  <2>. QED BY <1>5, <2>3 DEF Spawned, Fields, n
<1>9. /\ DOMAIN H.id2node = M /\ H.id2node \in [M -> NodeRec] /\ H.id2node[n] = nd /\ H.id2node[parent] = link
      /\ \A m \in N \ {parent} : H.id2node[m] = G.id2node[m]
  <2>. HIDE DEF K, H, link, n, N, M, old
  <2>1. \A m \in M : m \in N \/ m = n
    BY <1>3
  <2>2. K.id2node \in [M -> NodeRec]
    BY <1>4, <1>5, <2>1
  <2>3. parent \in N /\ parent # n
    BY <1>3 DEF N
  <2>4. link \in NodeRec /\ nd \in NodeRec
    BY <1>7
  <2>5. H.id2node = [K.id2node EXCEPT ![parent] = link]
    BY <1>8
  <2>6. DOMAIN H.id2node = M /\ H.id2node \in [M -> NodeRec]
    BY <2>2, <2>4, <2>5
  <2>7. parent \in M /\ n \in M /\ K.id2node[n] = nd
    BY <1>3, <1>5, <2>3
  <2>8. H.id2node[n] = nd /\ H.id2node[parent] = link
    BY <2>2, <2>3, <2>5, <2>7
  <2>9. \A m \in N \ {parent} : H.id2node[m] = G.id2node[m]
    BY <1>3, <1>5, <2>2, <2>5
  <2>. QED BY <2>6, <2>8, <2>9
<1>10. /\ DOMAIN H.roots = T \cup {tid} /\ H.roots[tid] = n /\ \A t \in T : H.roots[t] = G.roots[t]
       /\ H.roots = [t \in T \cup {tid} |-> H.roots[t]]
       /\ DOMAIN H.tid2end = T \cup {tid} /\ H.tid2end[tid] = NoNode /\ \A t \in T : H.tid2end[t] = G.tid2end[t]
       /\ H.tid2end = [t \in T \cup {tid} |-> H.tid2end[t]]
  <2>1. DOMAIN G.tid2end = T
    BY <1>1 DEF Parts, RootsInv
  <2>. HIDE DEF H, n
  <2>. QED BY <1>2, <1>8, <2>1 DEF With
<1>. HIDE DEF H, K, link
<1>11. ASSUME NEW m \in N
       PROVE  /\ H.id2node[m].gid = G.id2node[m].gid /\ H.id2node[m].typId = G.id2node[m].typId
              /\ H.id2node[m].isSender = G.id2node[m].isSender
              /\ H.id2node[m].cases = G.id2node[m].cases /\ H.id2node[m].case_sel = G.id2node[m].case_sel
  BY <1>7, <1>9
<1>12. RootsInv(H)
  <2>1. RootsInv(G)
    BY <1>1 DEF Parts
  <2>2. ASSUME NEW t \in T \cup {tid}
        PROVE  H.roots[t] \in M /\ H.id2node[H.roots[t]].gid = t /\ H.id2node[H.roots[t]].typId = "NGoroutine"
    <3>1. CASE t = tid
      BY <1>3, <1>9, <1>10, <3>1
    <3>2. CASE t \in T
      <4>1. G.roots[t] \in N /\ G.id2node[G.roots[t]].gid = t /\ G.id2node[G.roots[t]].typId = "NGoroutine"
        BY <2>1, <3>2 DEF RootsInv
      <4>. QED BY <1>3, <1>10, <1>11, <3>2, <4>1
    <3>. QED BY <3>1, <3>2
  <2>3. ASSUME NEW t \in T \cup {tid} PROVE H.tid2end[t] \in M \cup {NoNode}
    <3>1. CASE t = tid
      BY <1>10, <3>1
    <3>2. CASE t \in T
      <4>1. G.tid2end[t] \in N \cup {NoNode}
        BY <2>1, <3>2 DEF RootsInv
      <4>. QED BY <1>3, <1>10, <3>2, <4>1
    <3>. QED BY <3>1, <3>2
  <2>4. 0 \in T /\ G.roots[0] = 0
    BY <2>1 DEF RootsInv
  <2>. HIDE DEF T, M, N
  <2>5. H.roots \in [T \cup {tid} -> M] /\ H.tid2end \in [T \cup {tid} -> M \cup {NoNode}]
    BY <1>10, <2>2, <2>3
  <2>6. 0 \in DOMAIN H.roots /\ H.roots[0] = 0
    BY <1>10, <2>4
  <2>. QED BY <1>9, <1>10, <2>2, <2>5, <2>6 DEF RootsInv
<1>13. ListsInv(H)
  <2>1. ASSUME NEW o \in Obj
        PROVE  /\ G.resources[o].producers \in Seq(M) /\ G.resources[o].consumers \in Seq(M)
               /\ Rising(G.resources[o].consumers)
               /\ \A i \in DOMAIN G.resources[o].consumers : ~Produces(H.id2node[G.resources[o].consumers[i]])
    <3>1. /\ G.resources[o].producers \in Seq(N) /\ G.resources[o].consumers \in Seq(N)
          /\ Rising(G.resources[o].consumers)
          /\ \A i \in DOMAIN G.resources[o].consumers : ~Produces(G.id2node[G.resources[o].consumers[i]])
      BY <1>1 DEF Parts, ListsInv
    <3>2. ASSUME NEW i \in DOMAIN G.resources[o].consumers
          PROVE  ~Produces(H.id2node[G.resources[o].consumers[i]])
      <4>1. G.resources[o].consumers[i] \in N
        BY <3>1
      <4>. QED BY <1>11, <3>1, <4>1 DEF Produces
    <3>. HIDE DEF N, M
    <3>. QED BY <1>3, <3>1, <3>2, SeqMonotonic
  <2>2. G.resources \in [Obj -> [producers : Seq(N), consumers : Seq(N)]]
    BY <1>1 DEF Parts, ListsInv
  <2>3. G.resources \in [Obj -> [producers : Seq(M), consumers : Seq(M)]]
    <3>. HIDE DEF N, M
    <3>. QED BY <2>1, <2>2
  <2>. HIDE DEF M, N
  <2>. QED BY <1>8, <1>9, <2>1, <2>3 DEF ListsInv
<1>14. \A m \in M : H.id2node[m].typId = "NExit" => m \in N
  <2>1. \A m \in M : m \in N \/ m = n
    BY <1>3
  <2>. QED BY <1>9, <2>1
<1>15. OneExit(H)
  <2>1. OneExit(G)
    BY <1>1 DEF Parts
  <2>. QED BY <1>9, <1>11, <1>14, <2>1 DEF OneExit
<1>16. ASSUME NEW m \in N PROVE NodeInv(H, m)
  <2>. DEFINE was == G.id2node[m]
              is == H.id2node[m]
  <2>1. NodeInv(G, m)
    BY <1>1
  <2>2. /\ is.gid \in DOMAIN H.roots
        /\ is.typId = "NGoroutine" => H.roots[is.gid] = m
        /\ is.case_sel \in M
        /\ is.typId \in CaseTypes => /\ H.id2node[is.case_sel].gid = is.gid
                                     /\ H.id2node[is.case_sel].typId = "NSelect"
    <3>1. was.gid \in T /\ (was.typId = "NGoroutine" => G.roots[was.gid] = m) /\ was.case_sel \in N
          /\ (was.typId \in CaseTypes => /\ G.id2node[was.case_sel].gid = was.gid
                                         /\ G.id2node[was.case_sel].typId = "NSelect")
      BY <2>1 DEF NodeInv
    <3>2. is.gid = was.gid /\ is.typId = was.typId /\ is.case_sel = was.case_sel
      BY <1>11
    <3>3. H.id2node[was.case_sel].gid = G.id2node[was.case_sel].gid
          /\ H.id2node[was.case_sel].typId = G.id2node[was.case_sel].typId
      BY <1>11, <3>1
    <3>4. was.gid \in DOMAIN H.roots /\ H.roots[was.gid] = G.roots[was.gid] /\ was.case_sel \in M
      BY <1>3, <1>10, <3>1
    <3>. HIDE DEF was, is, N, M, T
    <3>. QED BY <3>1, <3>2, <3>3, <3>4
  <2>3. is.kids \in Seq(M) /\ \A i \in DOMAIN is.kids : \/ H.id2node[is.kids[i]].typId = "NGoroutine"
                                                        \/ H.id2node[is.kids[i]].gid = is.gid
    <3>1. was.kids \in Seq(N) /\ \A i \in DOMAIN was.kids : \/ G.id2node[was.kids[i]].typId = "NGoroutine"
                                                            \/ G.id2node[was.kids[i]].gid = was.gid
      BY <2>1 DEF NodeInv
    <3>2. CASE m = parent
      <4>1. is.kids = was.kids \o <<n>> /\ was = old
        BY <1>7, <1>9, <3>2
      <4>2. ASSUME NEW i \in DOMAIN is.kids
            PROVE  H.id2node[is.kids[i]].typId = "NGoroutine" \/ H.id2node[is.kids[i]].gid = is.gid
        <5>1. CASE is.kids[i] = n
          BY <1>9, <5>1
        <5>2. CASE is.kids[i] # n
          <6>1. PICK j \in DOMAIN was.kids : is.kids[i] = was.kids[j]
            BY <1>6, <4>1, <5>2
          <6>2. was.kids[j] \in N
            BY <3>1
          <6>. QED BY <1>11, <3>1, <6>1, <6>2
        <5>. QED BY <5>1, <5>2
      <4>3. is.kids \in Seq(M)
        BY <1>6, <4>1
      <4>. QED BY <4>2, <4>3
    <3>3. CASE m # parent
      <4>1. is = was
        BY <1>9, <3>3
      <4>2. ASSUME NEW i \in DOMAIN was.kids
            PROVE  H.id2node[was.kids[i]].typId = "NGoroutine" \/ H.id2node[was.kids[i]].gid = was.gid
        <5>1. was.kids[i] \in N
          BY <3>1
        <5>. QED BY <1>11, <3>1, <5>1
      <4>3. was.kids \in Seq(M)
        <5>. HIDE DEF was, N, M
        <5>. QED BY <1>3, <3>1, SeqMonotonic
      <4>. HIDE DEF is, was
      <4>. QED BY <4>1, <4>2, <4>3
    <3>. QED BY <3>2, <3>3
  <2>4. is.cases \in Seq(M \cup {NoNode}) /\ (is.cases # <<>> => is.typId = "NSelect")
        /\ \A i \in DOMAIN is.cases : is.cases[i] # NoNode =>
             /\ H.id2node[is.cases[i]].gid = is.gid
             /\ H.id2node[is.cases[i]].typId \in CaseTypes
             /\ H.id2node[is.cases[i]].case_sel = m
             /\ \A j \in DOMAIN is.cases : is.cases[j] = is.cases[i] => j = i
    <3>1. was.cases \in Seq(N \cup {NoNode}) /\ (was.cases # <<>> => was.typId = "NSelect")
          /\ \A i \in DOMAIN was.cases : was.cases[i] # NoNode =>
               /\ G.id2node[was.cases[i]].gid = was.gid
               /\ G.id2node[was.cases[i]].typId \in CaseTypes
               /\ G.id2node[was.cases[i]].case_sel = m
               /\ \A j \in DOMAIN was.cases : was.cases[j] = was.cases[i] => j = i
      BY <2>1 DEF NodeInv
    <3>2. is.cases = was.cases /\ is.gid = was.gid /\ is.typId = was.typId
      BY <1>11
    <3>3. was.cases \in Seq(M \cup {NoNode})
      <4>1. N \cup {NoNode} \subseteq M \cup {NoNode}
        BY <1>3
      <4>. HIDE DEF was, N, M
      <4>. QED BY <3>1, <4>1, SeqMonotonic
    <3>4. ASSUME NEW i \in DOMAIN was.cases, was.cases[i] # NoNode
          PROVE  /\ H.id2node[was.cases[i]].gid = was.gid
                 /\ H.id2node[was.cases[i]].typId \in CaseTypes
                 /\ H.id2node[was.cases[i]].case_sel = m
      <4>1. was.cases[i] \in N
        BY <3>1, <3>4
      <4>. QED BY <1>11, <3>1, <3>4, <4>1
    <3>. HIDE DEF is, was
    <3>. QED BY <3>1, <3>2, <3>3, <3>4
  <2>. HIDE DEF M
  <2>. QED BY <1>9, <2>2, <2>3, <2>4 DEF NodeInv, is
<1>17. NodeInv(H, n)
  <2>1. nd.kids \in Seq(M) /\ nd.cases \in Seq(M \cup {NoNode}) /\ DOMAIN nd.kids = {} /\ DOMAIN nd.cases = {}
    <3>1. <<>> \in Seq(M) /\ <<>> \in Seq(M \cup {NoNode})
      BY EmptySeq
    <3>. QED BY <3>1
  <2>2. nd.typId \notin CaseTypes
    BY DEF CaseTypes
  <2>3. tid \in DOMAIN H.roots /\ H.roots[tid] = n /\ nd.case_sel \in M
    BY <1>3, <1>10
  <2>. HIDE DEF M, n
  <2>. QED BY <1>9, <2>1, <2>2, <2>3 DEF NodeInv
<1>18. ID(H) = n + 1 /\ M = 0 .. n + 1 - 1
  <2>1. \A k \in Nat : Cardinality(0 .. k - 1) = k
    BY FS_Interval
  <2>2. PICK k \in Nat : k = n + 1
    BY <1>1
  <2>3. M = 0 .. k - 1 /\ M = 0 .. n + 1 - 1
    BY <1>1, <2>2
  <2>4. Cardinality(DOMAIN H.id2node) = k
    <3>. HIDE DEF M, n
    <3>. QED BY <1>9, <2>1, <2>2, <2>3
  <2>. QED BY <2>2, <2>3, <2>4 DEF ID
<1>19. Numbered(DOMAIN H.roots)
  <2>1. IsFiniteSet(T \cup {tid}) /\ Cardinality(T \cup {tid}) = tid + 1
    BY <1>2, FS_AddElement
  <2>2. T \cup {tid} = 0 .. tid + 1 - 1
    <3>. HIDE DEF T
    <3>. QED BY <1>2
  <2>. QED BY <1>10, <2>1, <2>2, SMTT(20) DEF Numbered
<1>20. Parts(H)
  <2>1. ID(H) \in Nat \ {0} /\ DOMAIN H.id2node = 0 .. ID(H) - 1
    BY <1>1, <1>9, <1>18
  <2>2. \A m \in DOMAIN H.id2node : NodeInv(H, m)
    <3>1. \A m \in M : m \in N \/ m = n
      BY <1>3
    <3>. QED BY <1>9, <1>16, <1>17, <3>1
  <2>. QED BY <1>8, <1>9, <1>12, <1>13, <1>15, <1>19, <2>1, <2>2 DEF Parts
<1>21. Grows(G, H)
  BY <1>3, <1>9, <1>10, <1>11, <1>14 DEF Grows, Keeps
<1>22. \A m \in DOMAIN H.id2node : H.id2node[m].typId = "NExit" => H.id2node[m].gid \in T
  <2>1. \A m \in N : G.id2node[m].gid \in T
    BY <1>1 DEF NodeInv
  <2>. QED BY <1>9, <1>11, <1>14, <2>1
<1>. QED BY <1>2, <1>3, <1>9, <1>10, <1>20, <1>21, <1>22, OfParts DEF In, H

-----------------------------------------------------------------------------
(* Several nodes at once.                                                    *)

LEMMA FreshStorable ==
  ASSUME NEW G, NEW nds \in Seq(NodeRec), \A i \in DOMAIN nds : Fresh(G, nds[i]) /\ nds[i].typId # "NExit"
  PROVE  Storable(G, nds) /\ FirstExit(G, nds)
<1>1. \A i \in DOMAIN nds : \A k \in DOMAIN nds[i].kids : FALSE
  BY DEF Fresh
<1>. QED BY <1>1 DEF Storable, FirstExit, Fresh

LEMMA NewIdsType ==
  ASSUME NEW G, GraphInv(G), NEW nds, IsSeq(nds)
  PROVE  NewIds(G, nds) \in Seq(Ids(G, nds)) /\ DOMAIN NewIds(G, nds) = DOMAIN nds
<1>. DEFINE n == Len(nds)
            s == [i \in 1 .. n |-> ID(G) + i - 1]
<1>1. ID(G) \in Nat /\ n \in Nat /\ DOMAIN nds = 1 .. n
  BY PartsOf, SeqFacts DEF Parts
<1>2. \A i \in 1 .. n : ID(G) + i - 1 \in Ids(G, nds)
  BY <1>1 DEF Ids
<1>3. NewIds(G, nds) = s
  <2>. HIDE DEF n
  <2>. QED BY <1>1 DEF NewIds
<1>4. s \in Seq(Ids(G, nds)) /\ DOMAIN s = 1 .. n
  <2>. HIDE DEF n
  <2>. QED BY <1>1, <1>2, IsASeq
<1>. QED BY <1>1, <1>3, <1>4

LEMMA KnownType ==
  ASSUME NEW objs \in Seq(Obj)
  PROVE  Known(objs) \in Seq(Obj) /\ Len(Known(objs)) \in Nat /\ DOMAIN Known(objs) = 1 .. Len(Known(objs))
<1>. DEFINE S == {i \in DOMAIN objs : objs[i] \in contexts}
            at == Ascending(S)
<1>1. Len(objs) \in Nat /\ S \in SUBSET (0 .. Len(objs))
  OBVIOUS
<1>2. at \in Seq(S)
  <2>. HIDE DEF S
  <2>. QED BY <1>1, AscendingType
<1>3. \A k \in DOMAIN at : objs[at[k]] \in Obj
  <2>1. \A k \in DOMAIN at : at[k] \in S
    BY <1>2
  <2>. QED BY <2>1
<1>4. [k \in DOMAIN at |-> objs[at[k]]] \in Seq(Obj)
  <2>. HIDE DEF at
  <2>1. Len(at) \in Nat /\ DOMAIN at = 1 .. Len(at)
    BY <1>2
  <2>. QED BY <1>3, <2>1, IsASeq
<1>5. Known(objs) \in Seq(Obj)
  BY <1>4 DEF Known
<1>. QED BY <1>5

LEMMA NodeFields ==
  ASSUME NEW typ, NEW tid, NEW cg
  PROVE  LET nd == NewNode(typ, tid, cg)
         IN  /\ nd.typId = typ /\ nd.gid = tid /\ nd.kids = <<>> /\ nd.cases = <<>> /\ nd.case_sel = 0
             /\ DOMAIN nd.kids = {} /\ DOMAIN nd.cases = {}
BY DEF NewNode

LEMMA GidType ==
  ASSUME NEW G, GraphInv(G), NEW n, NEW t, In(G, n, t)
  PROVE  t \in Nat /\ t \in DOMAIN G.roots /\ 0 \in DOMAIN G.id2node /\ n \in Nat
<1>1. Parts(G)
  BY PartsOf
<1>2. G.id2node[n] \in NodeRec /\ NodeInv(G, n) /\ n \in DOMAIN G.id2node /\ G.id2node[n].gid = t
  BY <1>1 DEF In, Parts
<1>3. ID(G) \in Nat \ {0} /\ DOMAIN G.id2node = 0 .. ID(G) - 1
  BY <1>1 DEF Parts
<1>. QED BY <1>2, <1>3 DEF NodeInv, NodeRec

\* A new node without edges or cases.
Bare(nd) ==
  /\ nd \in NodeRec /\ nd.typId \notin CaseTypes \cup {"NGoroutine"}
  /\ nd.kids = <<>> /\ nd.cases = <<>> /\ nd.case_sel = 0

LEMMA BareFresh ==
  ASSUME NEW G, GraphInv(G), NEW nd, Bare(nd), nd.gid \in DOMAIN G.roots
  PROVE  Fresh(G, nd)
<1>1. 0 \in DOMAIN G.id2node
  <2>1. Parts(G)
    BY PartsOf
  <2>. QED BY <2>1 DEF Parts
<1>2. \A k \in DOMAIN nd.cases : FALSE
  BY DEF Bare
<1>. QED BY <1>1, <1>2 DEF Bare, Fresh

BareTypes == TypeOfNode \ (CaseTypes \cup {"NGoroutine"})

LEMMA NewBare ==
  ASSUME p \in Programs, NEW cg \in DOMAIN p, NEW tid \in Nat, NEW typ \in BareTypes
  PROVE  /\ Bare(NewNode(typ, tid, cg)) /\ NewNode(typ, tid, cg).gid = tid
         /\ NewNode(typ, tid, cg).typId = typ
<1>1. NewNode(typ, tid, cg) \in NodeRec
  BY NodeType DEF BareTypes
<1>2. LET nd == NewNode(typ, tid, cg)
      IN  nd.typId = typ /\ nd.gid = tid /\ nd.kids = <<>> /\ nd.cases = <<>> /\ nd.case_sel = 0
  BY NodeFields
<1>. QED BY <1>1, <1>2 DEF Bare, BareTypes

LEMMA InKept == ASSUME NEW G, NEW H, Keeps(G, H), NEW n, NEW t, In(G, n, t) PROVE In(H, n, t)
  BY DEF Keeps, In

LEMMA BareStorable ==
  ASSUME NEW G, GraphInv(G), NEW nds, NEW m \in Nat, nds = [i \in 1 .. m |-> nds[i]],
         \A i \in 1 .. m : Bare(nds[i]) /\ nds[i].gid \in DOMAIN G.roots /\ nds[i].typId # "NExit"
  PROVE  /\ Storable(G, nds) /\ FirstExit(G, nds) /\ IsSeq(nds) /\ Len(nds) = m /\ DOMAIN nds = 1 .. m
         /\ NewIds(G, nds) \in Seq(Ids(G, nds))
<1>1. \A i \in 1 .. m : nds[i] \in NodeRec /\ Fresh(G, nds[i])
  BY BareFresh DEF Bare
<1>2. nds \in Seq(NodeRec) /\ Len(nds) = m /\ DOMAIN nds = 1 .. m
  BY <1>1, IsASeq
<1>. QED BY <1>1, <1>2, FreshStorable, NewIdsType, SelfTyped

\* Nodes of kind typ, one for each of the objects os.
OnObjects(typ, cg, t, os) == [i \in DOMAIN os |-> [NewNode(typ, t, cg) EXCEPT !.pts = <<os[i]>>]]

LEMMA OnObjectsInv ==
  ASSUME p \in Programs, NEW cg \in DOMAIN p, NEW G, GraphInv(G), NEW from, NEW t, In(G, from, t),
         NEW typ \in BareTypes \ {"NExit"}, NEW os \in Seq(Obj)
  PROVE  LET nds == OnObjects(typ, cg, t, os)
             H == AddNodes(G, from, nds, NewIds(G, nds))
         IN  GraphInv(H) /\ Grows(G, H)
<1>. DEFINE nds == OnObjects(typ, cg, t, os)
            m == Len(os)
            base == NewNode(typ, t, cg)
<1>1. t \in Nat /\ t \in DOMAIN G.roots /\ from \in DOMAIN G.id2node /\ G.id2node[from].gid = t
  BY GidType DEF In
<1>2. Bare(base) /\ base.gid = t /\ base.typId = typ
  BY <1>1, NewBare
<1>3. m \in Nat /\ DOMAIN os = 1 .. m /\ \A i \in 1 .. m : <<os[i]>> \in Seq(Obj)
  OBVIOUS
<1>4. ASSUME NEW i \in 1 .. m PROVE Bare(nds[i]) /\ nds[i].gid = t /\ nds[i].typId # "NExit"
  <2>. DEFINE s == <<os[i]>>
  <2>1. s \in Seq(Obj) /\ nds[i] = [base EXCEPT !.pts = s]
    BY <1>3 DEF OnObjects
  <2>. HIDE DEF nds, base, s
  <2>. QED BY <1>2, <2>1 DEF Bare, NodeRec
<1>5. nds = [i \in 1 .. m |-> nds[i]]
  BY <1>3 DEF OnObjects
<1>. HIDE DEF nds, m
<1>6. /\ Storable(G, nds) /\ FirstExit(G, nds) /\ DOMAIN nds = 1 .. m /\ NewIds(G, nds) \in Seq(Ids(G, nds))
  <2>1. \A i \in 1 .. m : Bare(nds[i]) /\ nds[i].gid \in DOMAIN G.roots /\ nds[i].typId # "NExit"
    BY <1>1, <1>4
  <2>. QED BY <1>3, <1>5, <2>1, BareStorable
<1>7. Added(G, AddNodes(G, from, nds, NewIds(G, nds)), nds)
  BY <1>1, <1>4, <1>6, AddNodesInv
<1>. QED BY <1>4, <1>6, <1>7 DEF Added, nds

LEMMA AccessInv ==
  ASSUME p \in Programs, h.cg \in DOMAIN p, NEW G, GraphInv(G), NEW prev, In(G, prev, h.tid),
         NEW typ, NEW objs, IsSeq(objs)
  PROVE  LET R == VisitRWNode(G, prev, typ, objs)
         IN  /\ GraphInv(R.G) /\ Grows(G, R.G)
             /\ objs # <<>> => In(R.G, R.prev, h.tid)
<1>. DEFINE R == VisitRWNode(G, prev, typ, objs)
            m == Len(objs)
            joins == G.id2node[prev].typId = "NRW"
            nds == [i \in DOMAIN objs |-> NewNode("NRW", h.tid, h.cg)]
            ids == IF joins THEN [i \in DOMAIN objs |-> prev] ELSE NewIds(G, nds)
            rws == [i \in DOMAIN objs |->
                [n |-> ids[i], typID |-> typ, pts |-> objs[i], lockset |-> computeLockset(h.tid)]]
            made == IF joins THEN G ELSE Link(Store(G, nds), prev, ids)
<1>1. h.tid \in Nat /\ h.tid \in DOMAIN G.roots /\ prev \in DOMAIN G.id2node /\ G.id2node[prev].gid = h.tid
  BY GidType DEF In
<1>2. m \in Nat /\ DOMAIN objs = 1 .. m /\ (objs # <<>> => m # 0)
  BY SeqFacts
<1>3. GraphInv(made) /\ Grows(G, made) /\ (m # 0 => In(made, IF joins THEN prev ELSE ID(G), h.tid))
  <2>1. CASE joins
    BY <2>1, GrowsRefl
  <2>2. CASE ~joins
    <3>. DEFINE base == NewNode("NRW", h.tid, h.cg)
    <3>1. Bare(base) /\ base.gid = h.tid /\ base.typId = "NRW"
      BY <1>1, NewBare DEF BareTypes, TypeOfNode, CaseTypes
    <3>. HIDE DEF base
    <3>2. nds = [i \in 1 .. m |-> nds[i]] /\ \A i \in 1 .. m : nds[i] = base
      BY <1>2 DEF base
    <3>. HIDE DEF nds
    <3>3. \A i \in 1 .. m : /\ Bare(nds[i]) /\ nds[i].gid = h.tid /\ nds[i].typId # "NExit"
                           /\ nds[i].gid \in DOMAIN G.roots
      BY <1>1, <3>1, <3>2
    <3>. HIDE DEF m
    <3>4. /\ Storable(G, nds) /\ FirstExit(G, nds) /\ Len(nds) = m /\ DOMAIN nds = 1 .. m
          /\ NewIds(G, nds) \in Seq(Ids(G, nds))
      BY <1>2, <3>2, <3>3, BareStorable
    <3>5. Added(G, Link(Store(G, nds), prev, NewIds(G, nds)), nds)
      BY <1>1, <3>3, <3>4, StoreLinkInv
    <3>6. made = Link(Store(G, nds), prev, NewIds(G, nds))
      BY <2>2
    <3>. HIDE DEF made
    <3>7. GraphInv(made) /\ Grows(G, made)
      BY <3>3, <3>4, <3>5, <3>6 DEF Added
    <3>8. m # 0 => In(made, ID(G), h.tid)
      <4>. SUFFICES ASSUME m # 0 PROVE In(made, ID(G), h.tid)
        OBVIOUS
      <4>1. 1 \in DOMAIN nds /\ ID(G) + 1 - 1 = ID(G) /\ nds[1].gid = h.tid
        <5>1. ID(G) \in Nat
          BY PartsOf DEF Parts
        <5>2. 1 \in DOMAIN nds
          BY <1>2, <3>4
        <5>. QED BY <3>3, <3>4, <5>1, <5>2
      <4>. QED BY <3>5, <3>6, <4>1 DEF Added, In
    <3>. QED BY <2>2, <3>7, <3>8
  <2>. QED BY <2>1, <2>2
<1>4. R = [G |-> [made EXCEPT !.rws = @ \o rws], prev |-> IF joins THEN prev ELSE ID(G)]
  BY DEF VisitRWNode
<1>. HIDE DEF made, rws, joins, R, m
<1>5. PICK x : x = made.rws \o rws
  OBVIOUS
<1>6. GraphInv(R.G) /\ Grows(made, R.G) /\ R.G.id2node = made.id2node
  <2>1. R.G = [made EXCEPT !.rws = x]
    BY <1>4, <1>5
  <2>2. R.G \in {[made EXCEPT !.rws = x], [made EXCEPT !.gid2nloop = x]}
    BY <2>1
  <2>3. GraphInv(made)
    BY <1>3
  <2>. HIDE DEF R
  <2>. QED BY <2>2, <2>3, SetListInv
<1>7. Grows(G, R.G)
  BY <1>3, <1>6, GrowsTrans
<1>8. objs # <<>> => In(R.G, R.prev, h.tid)
  BY <1>2, <1>3, <1>4, <1>6 DEF In
<1>. QED BY <1>6, <1>7, <1>8 DEF R

LEMMA CancelInv ==
  ASSUME p \in Programs, NEW cg \in DOMAIN p, NEW G, GraphInv(G), NEW from, NEW t, In(G, from, t),
         NEW objs \in Seq(Obj)
  PROVE  LET R == checkCtxCancel(G, t, cg, from, objs)
         IN  GraphInv(R.G) /\ Grows(G, R.G) /\ In(R.G, R.prev, t)
<1>. DEFINE R == checkCtxCancel(G, t, cg, from, objs)
            n == ID(G)
            known == Known(objs)
            m == Len(known)
            base == NewNode("NCancel", t, cg)
            below(i) == IF i = m THEN <<>> ELSE <<n + i>>
            nds == [i \in DOMAIN known |-> [base EXCEPT !.pts = <<known[i]>>, !.kids = below(i)]]
            H == AddNodes(G, from, nds, <<n>>)
<1>1. t \in Nat /\ t \in DOMAIN G.roots /\ from \in DOMAIN G.id2node /\ G.id2node[from].gid = t /\ 0 \in DOMAIN G.id2node
  BY GidType DEF In
<1>2. known \in Seq(Obj) /\ m \in Nat /\ DOMAIN known = 1 .. m
  BY KnownType
<1>3. base \in NodeRec /\ base.gid = t /\ base.typId = "NCancel" /\ base.cases = <<>> /\ base.case_sel = 0
  BY <1>1, NewBare DEF Bare, BareTypes, TypeOfNode, CaseTypes
<1>4. CASE known = <<>>
  BY <1>4, GrowsRefl DEF checkCtxCancel
<1>5. CASE known # <<>>
  <2>1. n \in Nat /\ m # 0
    <3>1. n \in Nat
      BY PartsOf DEF Parts
    <3>2. m # 0
      <4>. HIDE DEF known
      <4>. QED BY <1>2, <1>5, EmptySeq
    <3>. QED BY <3>1, <3>2
  <2>2. ASSUME NEW i \in 1 .. m
        PROVE  /\ nds[i] \in NodeRec /\ nds[i].gid = t /\ nds[i].typId = "NCancel" /\ nds[i].cases = <<>>
               /\ nds[i].case_sel = 0
               /\ \A k \in DOMAIN nds[i].kids : i < m /\ nds[i].kids[k] = n + i
    <3>. DEFINE s == <<known[i]>>
                ks == below(i)
    <3>1. s \in Seq(Obj)
      <4>. HIDE DEF known
      <4>. QED BY <1>2
    <3>2. ks \in Seq(Nat) /\ \A k \in DOMAIN ks : i < m /\ ks[k] = n + i
      <4>. HIDE DEF n, m
      <4>. QED BY <1>2, <2>1
    <3>3. nds[i] = [base EXCEPT !.pts = s, !.kids = ks]
      <4>. HIDE DEF known, m
      <4>. QED BY <1>2
    <3>4. /\ [base EXCEPT !.pts = s, !.kids = ks] \in NodeRec
          /\ [base EXCEPT !.pts = s, !.kids = ks].kids = ks
          /\ [base EXCEPT !.pts = s, !.kids = ks].gid = base.gid
          /\ [base EXCEPT !.pts = s, !.kids = ks].typId = base.typId
          /\ [base EXCEPT !.pts = s, !.kids = ks].cases = base.cases
          /\ [base EXCEPT !.pts = s, !.kids = ks].case_sel = base.case_sel
      <4>. HIDE DEF base, s, ks
      <4>. QED BY <1>3, <3>1, <3>2 DEF NodeRec
    <3>5. nds[i].kids = ks
      <4>. HIDE DEF base, s, ks, nds
      <4>. QED BY <3>3, <3>4
    <3>. HIDE DEF base, s, nds, ks
    <3>. QED BY <1>3, <3>2, <3>3, <3>4, <3>5 DEF ks
  <2>3. nds = [i \in 1 .. m |-> nds[i]]
    <3>. HIDE DEF known, m
    <3>. QED BY <1>2
  <2>. HIDE DEF nds, m, base, known
  <2>4. nds \in Seq(NodeRec) /\ Len(nds) = m /\ DOMAIN nds = 1 .. m
    <3>1. m \in Nat /\ \A i \in 1 .. m : nds[i] \in NodeRec
      BY <1>2, <2>2
    <3>. QED BY <2>3, <3>1, IsASeq
  <2>. HIDE DEF n
  <2>5. Storable(G, nds)
    <3>1. ASSUME NEW i \in 1 .. m, NEW k \in DOMAIN nds[i].kids
          PROVE  nds[i].kids[k] \in ID(G) .. ID(G) + Len(nds) - 1 /\ nds[nds[i].kids[k] - ID(G) + 1].gid = t
      <4>1. i < m /\ nds[i].kids[k] = n + i /\ i \in Nat /\ i + 1 \in 1 .. m
        BY <1>2, <2>1, <2>2, <3>1
      <4>2. n + i \in n .. n + m - 1 /\ (n + i) - n + 1 = i + 1
        BY <1>2, <2>1, <4>1
      <4>3. nds[i + 1].gid = t
        BY <2>2, <4>1
      <4>. QED BY <2>4, <4>1, <4>2, <4>3 DEF n
    <3>2. \A i \in 1 .. m : nds[i].typId # "NGoroutine" /\ nds[i].typId \notin CaseTypes /\ DOMAIN nds[i].cases = {}
      BY <2>2 DEF CaseTypes
    <3>. QED BY <1>1, <2>2, <2>4, <3>1, <3>2 DEF Storable
  <2>6. FirstExit(G, nds)
    BY <2>2, <2>4 DEF FirstExit
  <2>7. <<n>> \in Seq(Ids(G, nds))
    <3>1. n \in Ids(G, nds)
      BY <1>2, <2>1, <2>4 DEF Ids, n
    <3>. QED BY <3>1
  <2>8. Added(G, H, nds)
    BY <1>1, <2>2, <2>4, <2>5, <2>6, <2>7, AddNodesInv
  <2>9. R = [G |-> H, prev |-> n + m - 1]
    BY <1>5 DEF checkCtxCancel, nds, m, base, known, n, H
  <2>. HIDE DEF H, R
  <2>10. GraphInv(H) /\ Grows(G, H)
    BY <2>2, <2>4, <2>8 DEF Added
  <2>11. In(H, n + m - 1, t)
    <3>1. m \in DOMAIN nds
      BY <1>2, <2>1, <2>4
    <3>. QED BY <2>2, <2>4, <2>8, <3>1 DEF Added, In, n
  <2>. QED BY <2>9, <2>10, <2>11 DEF R
<1>. QED BY <1>4, <1>5

\* The nodes of goroutine t with a type in S.
NodesOf(G, t, S) == {n \in DOMAIN G.id2node : In(G, n, t) /\ G.id2node[n].typId \in S}

LEMMA CopyInv ==
  ASSUME NEW st, GraphInv(st.G), NEW t, In(st.G, st.prev, t),
         NEW s \in Seq(NodesOf(st.G, t, {"NUnlock", "NRUnlock", "NClose"}))
  PROVE  LET R == copyDeferNodes(st, s)
         IN  GraphInv(R.G) /\ Grows(st.G, R.G) /\ In(R.G, R.prev, t)
<1>. DEFINE R == copyDeferNodes(st, s)
            G == st.G
            n == ID(G)
            m == Len(s)
            old(i) == G.id2node[s[i]]
            below(i) == IF i = 1 THEN <<>> ELSE <<n + i - 2>>
            nds == [i \in DOMAIN s |-> [old(i) EXCEPT !.kids = below(i), !.select_node_id = 0]]
            H == AddNodes(G, st.prev, nds, <<n + m - 1>>)
<1>1. /\ m \in Nat /\ DOMAIN s = 1 .. m
      /\ \A i \in 1 .. m : In(G, s[i], t) /\ old(i).typId \in {"NUnlock", "NRUnlock", "NClose"}
  BY DEF NodesOf
<1>2. Parts(G) /\ n \in Nat
  BY PartsOf DEF Parts
<1>3. CASE s = <<>>
  BY <1>3, GrowsRefl DEF copyDeferNodes
<1>4. CASE s # <<>>
  <2>1. m # 0
    BY <1>1, <1>4, EmptySeq
  <2>2. ASSUME NEW i \in 1 .. m
        PROVE  /\ old(i) \in NodeRec /\ old(i).gid = t /\ old(i).cases = <<>> /\ old(i).case_sel \in DOMAIN G.id2node
               /\ old(i).typId \in {"NUnlock", "NRUnlock", "NClose"}
    <3>1. s[i] \in DOMAIN G.id2node /\ old(i).gid = t /\ old(i).typId \in {"NUnlock", "NRUnlock", "NClose"}
      BY <1>1 DEF In
    <3>2. old(i) \in NodeRec /\ NodeInv(G, s[i])
      BY <1>2, <3>1 DEF Parts
    <3>. QED BY <3>1, <3>2 DEF NodeInv
  <2>3. ASSUME NEW i \in 1 .. m
        PROVE  /\ nds[i] \in NodeRec /\ nds[i].gid = t /\ nds[i].cases = <<>>
               /\ nds[i].case_sel \in DOMAIN G.id2node
               /\ nds[i].typId \in {"NUnlock", "NRUnlock", "NClose"}
               /\ \A k \in DOMAIN nds[i].kids : i > 1 /\ nds[i].kids[k] = n + i - 2
    <3>. DEFINE ks == below(i)
                o == old(i)
    <3>1. o \in NodeRec /\ o.gid = t /\ o.cases = <<>> /\ o.case_sel \in DOMAIN G.id2node
          /\ o.typId \in {"NUnlock", "NRUnlock", "NClose"}
      BY <2>2
    <3>2. ks \in Seq(Nat) /\ \A k \in DOMAIN ks : i > 1 /\ ks[k] = n + i - 2
      <4>1. i # 1 => n + i - 2 \in Nat /\ i > 1
        <5>. HIDE DEF n, m
        <5>. QED BY <1>1, <1>2
      <4>. HIDE DEF n, m
      <4>. QED BY <4>1
    <3>3. nds[i] = [o EXCEPT !.kids = ks, !.select_node_id = 0]
      <4>. HIDE DEF m
      <4>. QED BY <1>1
    <3>4. LET r == [o EXCEPT !.kids = ks, !.select_node_id = 0]
          IN  /\ r \in NodeRec /\ r.kids = ks /\ r.gid = o.gid /\ r.typId = o.typId
              /\ r.cases = o.cases /\ r.case_sel = o.case_sel
      <4>. HIDE DEF o, ks
      <4>. QED BY <3>1, <3>2 DEF NodeRec
    <3>5. nds[i].kids = ks
      <4>. HIDE DEF o, ks, nds
      <4>. QED BY <3>3, <3>4
    <3>. HIDE DEF o, ks, nds
    <3>. QED BY <3>1, <3>2, <3>3, <3>4, <3>5
  <2>4. nds = [i \in 1 .. m |-> nds[i]]
    <3>. HIDE DEF m
    <3>. QED BY <1>1
  <2>. HIDE DEF nds, m
  <2>5. nds \in Seq(NodeRec) /\ Len(nds) = m /\ DOMAIN nds = 1 .. m
    BY <1>1, <2>3, <2>4, IsASeq
  <2>. HIDE DEF n
  <2>6. t \in DOMAIN G.roots /\ st.prev \in DOMAIN G.id2node /\ G.id2node[st.prev].gid = t
    BY GidType DEF In
  <2>7. Storable(G, nds)
    <3>1. ASSUME NEW i \in 1 .. m, NEW k \in DOMAIN nds[i].kids
          PROVE  nds[i].kids[k] \in ID(G) .. ID(G) + Len(nds) - 1 /\ nds[nds[i].kids[k] - ID(G) + 1].gid = t
      <4>1. i > 1 /\ nds[i].kids[k] = n + i - 2 /\ i \in Nat /\ i - 1 \in 1 .. m
        BY <1>1, <2>1, <2>3, <3>1
      <4>2. n + i - 2 \in n .. n + m - 1 /\ (n + i - 2) - n + 1 = i - 1
        BY <1>1, <1>2, <4>1
      <4>3. nds[i - 1].gid = t
        BY <2>3, <4>1
      <4>. QED BY <2>5, <4>1, <4>2, <4>3 DEF n
    <3>2. \A i \in 1 .. m : nds[i].typId # "NGoroutine" /\ nds[i].typId \notin CaseTypes /\ DOMAIN nds[i].cases = {}
      BY <2>3 DEF CaseTypes
    <3>. QED BY <2>3, <2>5, <2>6, <3>1, <3>2 DEF Storable
  <2>8. FirstExit(G, nds)
    BY <2>3, <2>5 DEF FirstExit
  <2>9. <<n + m - 1>> \in Seq(Ids(G, nds))
    <3>1. n + m - 1 \in Ids(G, nds)
      BY <1>1, <1>2, <2>1, <2>5 DEF Ids, n
    <3>. QED BY <3>1
  <2>10. Added(G, H, nds)
    BY <2>3, <2>5, <2>6, <2>7, <2>8, <2>9, AddNodesInv
  <2>11. R = [G |-> H, prev |-> n]
    BY <1>4 DEF copyDeferNodes, nds, m, n, H
  <2>. HIDE DEF H, R
  <2>12. GraphInv(H) /\ Grows(G, H)
    BY <2>3, <2>5, <2>10 DEF Added
  <2>13. In(H, n, t)
    <3>1. 1 \in DOMAIN nds /\ n + 1 - 1 = n /\ nds[1].gid = t
      BY <1>1, <1>2, <2>1, <2>3, <2>5
    <3>. QED BY <2>10, <3>1 DEF Added, In, n
  <2>. QED BY <2>11, <2>12, <2>13 DEF R
<1>. QED BY <1>3, <1>4

-----------------------------------------------------------------------------
(* Activations stay valid while the graph grows.                             *)

LEMMA BlockKept ==
  ASSUME NEW q, NEW G, NEW H, Keeps(G, H), NEW f, NEW b, BlockInv(q, G, f, b)
  PROVE  BlockInv(q, H, f, b)
<1>1. In(H, b.prev, f.tid)
  BY InKept DEF BlockInv
<1>2. b.cur \in DOMAIN H.id2node
      /\ (In(H, b.cur, f.tid)
          \/ \E k \in DOMAIN q[f.cg].blocks[b.bb].instrs : k <= b.j /\ q[f.cg].blocks[b.bb].instrs[k].op = "AfterFunc")
  BY InKept DEF BlockInv, Keeps
<1>3. b.sel # NoNode => In(H, b.sel, f.tid) /\ H.id2node[b.sel].typId = "NSelect"
  <2>. SUFFICES ASSUME b.sel # NoNode PROVE In(H, b.sel, f.tid) /\ H.id2node[b.sel].typId = "NSelect"
    OBVIOUS
  <2>1. In(G, b.sel, f.tid) /\ G.id2node[b.sel].typId = "NSelect"
    BY DEF BlockInv
  <2>. QED BY <2>1, InKept DEF Keeps, In
<1>. QED BY <1>1, <1>2, <1>3 DEF BlockInv

LEMMA NodesKept ==
  ASSUME NEW G, NEW H, Keeps(G, H), NEW t, NEW S, NEW s \in Seq(NodesOf(G, t, S))
  PROVE  s \in Seq(NodesOf(H, t, S))
<1>1. NodesOf(G, t, S) \subseteq NodesOf(H, t, S)
  BY DEF Keeps, In, NodesOf
<1>. QED BY <1>1, SeqMonotonic

LEMMA CallKept ==
  ASSUME NEW q, NEW G, NEW H, Keeps(G, H), NEW f, CallInv(q, G, f)
  PROVE  CallInv(q, H, f)
<1>1. f.tid \in DOMAIN H.roots /\ In(H, f.prev, f.tid)
  BY InKept DEF CallInv, Keeps
<1>2. f.defer_unlocks \in Seq({n \in DOMAIN H.id2node : In(H, n, f.tid) /\ H.id2node[n].typId \in {"NUnlock", "NRUnlock"}})
  <2>1. f.defer_unlocks \in Seq(NodesOf(G, f.tid, {"NUnlock", "NRUnlock"}))
    BY DEF CallInv, NodesOf
  <2>2. f.defer_unlocks \in Seq(NodesOf(H, f.tid, {"NUnlock", "NRUnlock"}))
    BY <2>1, NodesKept
  <2>. QED BY <2>2 DEF NodesOf
<1>3. f.defer_closes \in Seq({n \in DOMAIN H.id2node : In(H, n, f.tid) /\ H.id2node[n].typId = "NClose"})
  <2>1. f.defer_closes \in Seq(NodesOf(G, f.tid, {"NClose"}))
    BY DEF CallInv, NodesOf
  <2>2. f.defer_closes \in Seq(NodesOf(H, f.tid, {"NClose"}))
    BY <2>1, NodesKept
  <2>. QED BY <2>2 DEF NodesOf
<1>4. \A i \in DOMAIN f.bbs : BlockInv(q, H, f, f.bbs[i]) /\ (i < Len(f.bbs) => f.bbs[i].sel # NoNode)
  BY BlockKept DEF CallInv
<1>. QED BY <1>1, <1>2, <1>3, <1>4 DEF CallInv

-----------------------------------------------------------------------------
(* Steps that change the graph and the last activation only.                 *)

Typed == \A t \in DOMAIN wg_pts : wg_pts[t] \in Seq(Obj)

\* A state while the program is gone through.
Live ==
  /\ p \in Programs /\ OwnNodes(p) /\ GraphInv(g) /\ Typed
  /\ status = "build" /\ StackInv(p, g, calls) /\ CaseInv(h)

LEMMA TopCall ==
  ASSUME Live
  PROVE  /\ IsSeq(calls) /\ Len(calls) \in Nat \ {0} /\ DOMAIN calls = 1 .. Len(calls)
         /\ Len(calls) \in DOMAIN calls /\ h = calls[Len(calls)] /\ CallInv(p, g, h)
         /\ h.cg \in DOMAIN p /\ h.tid \in Nat /\ h.tid \in DOMAIN g.roots
         /\ IsProgram(p) /\ Linked(blocks) /\ In(g, h.prev, h.tid)
<1>1. IsSeq(calls) /\ calls # <<>>
  BY DEF Live, StackInv
<1>2. /\ Len(calls) \in Nat \ {0} /\ DOMAIN calls = 1 .. Len(calls) /\ Len(calls) \in DOMAIN calls
      /\ h = calls[Len(calls)]
  BY <1>1, SeqFacts DEF h
<1>3. CallInv(p, g, h)
  BY <1>2 DEF Live, StackInv
<1>4. h.cg \in DOMAIN p /\ h.tid \in DOMAIN g.roots /\ In(g, h.prev, h.tid)
  BY <1>3 DEF CallInv
<1>5. h.tid \in Nat
  BY <1>4, GidType DEF Live
<1>6. IsProgram(p)
  BY ProgramsAssumption DEF Live
<1>7. Linked(blocks)
  BY <1>4, <1>6, ProgramFacts DEF blocks
<1>. QED BY <1>1, <1>2, <1>3, <1>4, <1>5, <1>6, <1>7

LEMMA TopBlock ==
  ASSUME Live, h.bbs # <<>>
  PROVE  /\ IsSeq(h.bbs) /\ Len(h.bbs) \in DOMAIN h.bbs /\ DOMAIN h.bbs = 1 .. Len(h.bbs)
         /\ Len(h.bbs) \in Nat \ {0}
         /\ B = h.bbs[Len(h.bbs)] /\ BlockInv(p, g, h, B)
         /\ B.bb \in DOMAIN blocks /\ blocks[B.bb].instrs \in Seq(InstRec(p))
         /\ In(g, B.prev, h.tid) /\ B.cur \in DOMAIN g.id2node
         /\ B.j \in DOMAIN blocks[B.bb].instrs => inst \in InstRec(p)
<1>1. CallInv(p, g, h) /\ IsSeq(h.bbs)
  BY TopCall DEF CallInv
<1>2. /\ Len(h.bbs) \in Nat \ {0} /\ DOMAIN h.bbs = 1 .. Len(h.bbs) /\ Len(h.bbs) \in DOMAIN h.bbs
      /\ B = h.bbs[Len(h.bbs)]
  BY <1>1, SeqFacts DEF B
<1>3. BlockInv(p, g, h, B)
  BY <1>1, <1>2 DEF CallInv
<1>4. B.bb \in DOMAIN blocks /\ In(g, B.prev, h.tid) /\ B.cur \in DOMAIN g.id2node
  BY <1>3 DEF BlockInv, blocks
<1>5. blocks[B.bb].instrs \in Seq(InstRec(p))
  BY <1>4, TopCall, ProgramFacts DEF blocks
<1>6. B.j \in DOMAIN blocks[B.bb].instrs => inst \in InstRec(p)
  BY <1>5 DEF inst
<1>. QED BY <1>1, <1>2, <1>3, <1>4, <1>5, <1>6

CallFields == {"cg", "tid", "top", "prev", "bb", "loop", "bodies", "start", "first", "loop_name",
               "for_loop_name", "roc_name", "skips", "select_node_id", "defer_unlocks",
               "defer_closes", "defer_calls", "bbs"}

LEMMA SameOwner ==
  ASSUME NEW q, NEW G, NEW f, NEW e, e.cg = f.cg, e.tid = f.tid, NEW b, BlockInv(q, G, f, b)
  PROVE  BlockInv(q, G, e, b)
BY DEF BlockInv

LEMMA WithBlockInv ==
  ASSUME NEW q, NEW G, NEW f, CallInv(q, G, f), f.bbs # <<>>, NEW b, BlockInv(q, G, f, b)
  PROVE  LET F == WithBlock(f, b)
         IN  /\ CallInv(q, G, F) /\ F.tid = f.tid /\ F.cg = f.cg /\ F.bbs # <<>> /\ Last(F.bbs) = b
             /\ Len(F.bbs) = Len(f.bbs)
<1>. DEFINE F == WithBlock(f, b)
            s == [f.bbs EXCEPT ![Len(f.bbs)] = b]
<1>1. DOMAIN f = CallFields /\ IsSeq(f.bbs)
  BY DEF CallInv, CallFields
<1>2. Len(f.bbs) \in Nat \ {0} /\ Len(f.bbs) \in DOMAIN f.bbs /\ DOMAIN f.bbs = 1 .. Len(f.bbs)
  BY <1>1, SeqFacts
<1>3. /\ IsSeq(s) /\ DOMAIN s = DOMAIN f.bbs /\ Len(s) = Len(f.bbs) /\ s[Len(f.bbs)] = b
      /\ \A j \in DOMAIN f.bbs \ {Len(f.bbs)} : s[j] = f.bbs[j]
  BY <1>1, <1>2, SeqSet
<1>4. s # <<>> /\ Last(s) = b
  <2>. HIDE DEF s
  <2>. QED BY <1>2, <1>3, SeqFacts
<1>. HIDE DEF s
<1>5. /\ DOMAIN F = CallFields /\ F.bbs = s /\ F.cg = f.cg /\ F.tid = f.tid /\ F.prev = f.prev /\ F.bb = f.bb
      /\ F.bodies = f.bodies /\ F.loop_name = f.loop_name /\ F.for_loop_name = f.for_loop_name
      /\ F.roc_name = f.roc_name /\ F.select_node_id = f.select_node_id
      /\ F.defer_unlocks = f.defer_unlocks /\ F.defer_closes = f.defer_closes /\ F.defer_calls = f.defer_calls
  BY <1>1 DEF WithBlock, CallFields, s
<1>. HIDE DEF F
<1>6. ASSUME NEW i \in DOMAIN s PROVE BlockInv(q, G, F, s[i]) /\ (i < Len(s) => s[i].sel # NoNode)
  <2>1. CASE i = Len(f.bbs)
    <3>1. s[i] = b /\ ~(i < Len(s))
      BY <1>2, <1>3, <2>1
    <3>2. BlockInv(q, G, F, b)
      BY <1>5, SameOwner
    <3>. QED BY <3>1, <3>2
  <2>2. CASE i # Len(f.bbs)
    <3>1. s[i] = f.bbs[i] /\ i \in DOMAIN f.bbs
      BY <1>3, <2>2
    <3>2. BlockInv(q, G, f, s[i]) /\ (i < Len(s) => s[i].sel # NoNode)
      BY <1>3, <3>1 DEF CallInv
    <3>. QED BY <1>5, <3>2, SameOwner
  <2>. QED BY <2>1, <2>2
<1>7. CallInv(q, G, F)
  BY <1>3, <1>5, <1>6 DEF CallInv, CallFields
<1>. QED BY <1>3, <1>4, <1>5, <1>7 DEF F

Topped(s, n, f) == [s EXCEPT ![n] = f]

LEMMA TopFacts ==
  ASSUME NEW s, IsSeq(s), s # <<>>, NEW f
  PROVE  LET cs == Topped(s, Len(s), f)
         IN  /\ IsSeq(cs) /\ DOMAIN cs = DOMAIN s /\ cs # <<>> /\ Last(cs) = f /\ cs[Len(s)] = f
             /\ Len(cs) = Len(s) /\ \A j \in DOMAIN s \ {Len(s)} : cs[j] = s[j]
<1>. DEFINE n == Len(s)
            cs == [s EXCEPT ![n] = f]
<1>1. n \in Nat /\ n \in DOMAIN s /\ n # 0
  BY SeqFacts
<1>2. /\ IsSeq(cs) /\ DOMAIN cs = DOMAIN s /\ Len(cs) = n /\ cs[n] = f
      /\ \A j \in DOMAIN s \ {n} : cs[j] = s[j]
  BY <1>1, SeqSet
<1>. HIDE DEF cs
<1>3. cs # <<>> /\ Last(cs) = f
  BY <1>1, <1>2, SeqFacts
<1>. QED BY <1>2, <1>3 DEF cs, Topped

OtherExits(G, H, s) ==
  \A m \in DOMAIN H.id2node : H.id2node[m].typId = "NExit" =>
    m \in DOMAIN G.id2node \/ \A i \in Exiting(s) : H.id2node[m].gid # s[i].tid

\* The last call of a stack goes on as f, in a graph that has no new exit of
\* a goroutine that is still going on.
LEMMA TopStack ==
  ASSUME NEW q, NEW G, NEW H, Keeps(G, H), NEW s, StackInv(q, G, s), NEW n, n = Len(s),
         NEW f, CallInv(q, H, f), f.tid = s[n].tid, f.cg = s[n].cg,
         OtherExits(G, H, s)
  PROVE  StackInv(q, H, Topped(s, n, f))
<1>. DEFINE cs == Topped(s, n, f)
<1>1. /\ IsSeq(s) /\ s # <<>> /\ n \in Nat \ {0} /\ DOMAIN s = 1 .. n /\ n \in DOMAIN s
  <2>1. IsSeq(s) /\ s # <<>>
    BY DEF StackInv
  <2>. QED BY <2>1, SeqFacts
<1>2. /\ IsSeq(cs) /\ DOMAIN cs = DOMAIN s /\ Len(cs) = n /\ cs[n] = f
      /\ \A j \in DOMAIN s \ {n} : cs[j] = s[j]
  BY <1>1, TopFacts
<1>4. cs # <<>>
  BY <1>1, TopFacts
<1>. HIDE DEF cs
<1>5. ASSUME NEW i \in DOMAIN cs PROVE CallInv(q, H, cs[i]) /\ cs[i].tid = s[i].tid
  <2>1. CASE i = n
    BY <1>1, <1>2, <2>1
  <2>2. CASE i # n
    <3>1. cs[i] = s[i] /\ CallInv(q, G, s[i])
      BY <1>2, <2>2 DEF StackInv
    <3>. QED BY <3>1, CallKept
  <2>. QED BY <2>1, <2>2
<1>6. ASSUME NEW i \in 1 .. n - 1 PROVE CalledFrom(q, H, cs[i], cs[i + 1])
  <2>1. i \in DOMAIN s /\ i + 1 \in DOMAIN s /\ i # n /\ cs[i] = s[i]
    BY <1>1, <1>2
  <2>2. CalledFrom(q, G, s[i], s[i + 1]) /\ CallInv(q, G, s[i])
    BY <2>1 DEF StackInv
  <2>3. cs[i + 1].tid = s[i + 1].tid /\ cs[i + 1].cg = s[i + 1].cg
    <3>1. CASE i + 1 = n
      BY <1>1, <1>2, <3>1
    <3>2. CASE i + 1 # n
      BY <1>2, <2>1, <3>2
    <3>. QED BY <3>1, <3>2
  <2>4. Last(s[i].bbs).cur \in DOMAIN G.id2node
    <3>1. IsSeq(s[i].bbs) /\ s[i].bbs # <<>>
      BY <2>2 DEF CallInv, CalledFrom
    <3>2. Len(s[i].bbs) \in DOMAIN s[i].bbs /\ Last(s[i].bbs) = s[i].bbs[Len(s[i].bbs)]
      BY <3>1, SeqFacts
    <3>. QED BY <2>2, <3>2 DEF CallInv, BlockInv
  <2>5. H.id2node[Last(s[i].bbs).cur].gid = G.id2node[Last(s[i].bbs).cur].gid
    BY <2>4 DEF Keeps
  <2>. QED BY <2>1, <2>2, <2>3, <2>5 DEF CalledFrom
<1>7. Exiting(cs) = Exiting(s)
  <2>1. ASSUME NEW i \in DOMAIN s PROVE i \in Exiting(cs) <=> i \in Exiting(s)
    <3>1. CASE i = 1
      BY <1>2, <3>1 DEF Exiting
    <3>2. CASE i # 1
      <4>1. i - 1 \in DOMAIN s /\ i - 1 # n
        BY <1>1, <3>2
      <4>2. cs[i - 1] = s[i - 1]
        BY <1>2, <4>1
      <4>. QED BY <1>2, <3>2, <4>2 DEF Exiting
    <3>. QED BY <3>1, <3>2
  <2>2. Exiting(cs) \subseteq DOMAIN s /\ Exiting(s) \subseteq DOMAIN s
    BY <1>2 DEF Exiting
  <2>. QED BY <2>1, <2>2
<1>8. Exiting(s) \subseteq DOMAIN s
  BY DEF Exiting
<1>9. \A i, j \in Exiting(cs) : cs[i].tid = cs[j].tid => i = j
  BY <1>2, <1>5, <1>7, <1>8 DEF StackInv
<1>10. ASSUME NEW i \in Exiting(cs), NEW m \in DOMAIN H.id2node, H.id2node[m].typId = "NExit"
       PROVE  H.id2node[m].gid # cs[i].tid
  <2>2. i \in Exiting(s) /\ cs[i].tid = s[i].tid
    BY <1>2, <1>5, <1>7, <1>8
  <2>3. CASE m \in DOMAIN G.id2node
    <3>1. G.id2node[m].typId = "NExit" /\ H.id2node[m].gid = G.id2node[m].gid
      BY <1>10, <2>3 DEF Keeps
    <3>. QED BY <2>2, <2>3, <3>1 DEF StackInv
  <2>4. CASE m \notin DOMAIN G.id2node
    BY <1>10, <2>2, <2>4 DEF OtherExits
  <2>. QED BY <2>3, <2>4
<1>11. cs[1].tid = 0
  <2>1. 1 \in DOMAIN cs /\ s[1].tid = 0
    BY <1>1, <1>2 DEF StackInv
  <2>. QED BY <1>5, <2>1
<1>12. StackInv(q, H, cs)
  <2>1. Len(cs) = n
    BY <1>2
  <2>. QED BY <1>2, <1>4, <1>5, <1>6, <1>9, <1>10, <1>11, <2>1 DEF StackInv
<1>. QED BY <1>12 DEF cs

LEMMA TopStep ==
  ASSUME Live, NEW G, Grows(g, G), NEW f, CallInv(p, G, f), f.tid = h.tid, f.cg = h.cg, SetCall(f)
  PROVE  StackInv(p, G, calls') /\ Last(calls') = f
<1>1. Keeps(g, G) /\ \A m \in DOMAIN G.id2node : G.id2node[m].typId = "NExit" => m \in DOMAIN g.id2node
  BY DEF Grows
<1>2. StackInv(p, g, calls) /\ h = calls[Len(calls)]
  BY TopCall DEF Live
<1>3. /\ StackInv(p, g, calls) /\ f.tid = calls[Len(calls)].tid /\ f.cg = calls[Len(calls)].cg
      /\ OtherExits(g, G, calls)
  BY <1>1, <1>2 DEF OtherExits
<1>4. calls' = Topped(calls, Len(calls), f)
  BY DEF SetCall, Topped
<1>5. StackInv(p, G, Topped(calls, Len(calls), f))
  BY <1>1, <1>3, TopStack
<1>6. Last(Topped(calls, Len(calls), f)) = f
  BY <1>3, TopFacts DEF StackInv
<1>. QED BY <1>4, <1>5, <1>6

Kept == Typed /\ GraphInv(g) /\ (status = "build" => StackInv(p, g, calls) /\ CaseInv(h))

\* The current case of the last block is one that can be made.
Settled(f) == f.bbs # <<>> => Last(f.bbs).sel = NoNode \/ Last(f.bbs).nth = 1

LEMMA CallStep ==
  ASSUME Live, p' = p, Typed', NEW G, g' = G, GraphInv(G), Grows(g, G),
         NEW f, CallInv(p, G, f), f.tid = h.tid, f.cg = h.cg, SetCall(f),
         Settled(f) \/ (CaseInv(f) /\ contexts' = contexts)
  PROVE  Kept'
<1>1. StackInv(p, G, calls') /\ Last(calls') = f
  BY TopStep
<1>2. h' = f
  BY <1>1 DEF h
<1>3. CaseInv(h)'
  <2>1. CASE Settled(f)
    BY <1>2, <2>1 DEF Settled, CaseInv
  <2>2. CASE CaseInv(f) /\ contexts' = contexts
    <3>1. p' = p /\ contexts' = contexts
      BY <2>2
    <3>2. CaseInv(f)'
      BY <2>2, <3>1 DEF CaseInv, Dones, Known
    <3>. QED BY <1>2, <3>2 DEF CaseInv
  <2>. QED BY <2>1, <2>2
<1>. QED BY <1>1, <1>3 DEF Kept

LEMMA BlockStep ==
  ASSUME Live, p' = p, Typed', NEW G, g' = G, GraphInv(G), Grows(g, G),
         NEW f, CallInv(p, G, f), f.tid = h.tid, f.cg = h.cg, f.bbs # <<>>,
         NEW b, BlockInv(p, G, f, b), SetCall(WithBlock(f, b)), b.sel = NoNode \/ b.nth = 1
  PROVE  Kept'
<1>. DEFINE F == WithBlock(f, b)
<1>1. CallInv(p, G, F) /\ F.tid = f.tid /\ F.cg = f.cg /\ F.bbs # <<>> /\ Last(F.bbs) = b
  BY WithBlockInv
<1>. HIDE DEF F
<1>2. Settled(F)
  BY <1>1 DEF Settled
<1>3. SetCall(F)
  BY DEF F
<1>. QED BY <1>1, <1>2, <1>3, CallStep

BlockFields == {"bb", "j", "prev", "cur", "how", "todo", "nth", "sel", "case", "bodies", "body"}

\* The instruction that block b is at.
At(f, b) == p[f.cg].blocks[b.bb].instrs

LEMMA OneNat == 1 \in Nat \ {0}
  OBVIOUS

LEMMA IdleBlock ==
  ASSUME NEW q, NEW G, NEW f, NEW c, DOMAIN c = BlockFields, c.bb \in DOMAIN q[f.cg].blocks,
         NEW s, s = q[f.cg].blocks[c.bb].instrs, c.j \in 1 .. Len(s) + 1,
         In(G, c.prev, f.tid), c.cur \in DOMAIN G.id2node,
         In(G, c.cur, f.tid) \/ \E k \in DOMAIN s : k <= c.j /\ s[k].op = "AfterFunc",
         c.how = "none", c.todo \in Seq(DOMAIN q), c.nth = 1, c.sel = NoNode, c.case \in Nat \ {0},
         \A i \in DOMAIN c.bodies : c.bodies[i].start \in 0 .. Len(q[f.cg].blocks)
  PROVE  BlockInv(q, G, f, c)
<1>1. c.how \notin CallOps
  BY Zenon DEF CallOps
<1>2. c.how # "go" /\ c.how \in CallOps \cup {"none", "defer"}
  BY Zenon
<1>3. c.nth \in Nat \ {0}
  BY Zenon, OneNat
<1>. QED BY <1>1, <1>2, <1>3 DEF BlockInv, BlockFields

LEMMA OverStep ==
  ASSUME Live, p' = p, Typed', NEW G, GraphInv(G), Grows(g, G),
         NEW f, CallInv(p, G, f), f.tid = h.tid, f.cg = h.cg, f.bbs # <<>>,
         NEW b, BlockInv(p, G, f, b), b.j \in DOMAIN At(f, b), b.sel = NoNode, At(f, b) \in Seq(InstRec(p)),
         Over(f, b, G)
  PROVE  Kept'
<1>. DEFINE H == Mark(G, f, b)
            c == [b EXCEPT !.j = b.j + 1, !.how = "none", !.todo = <<>>, !.nth = 1]
<1>1. f.select_node_id \in Nat /\ b.prev \in DOMAIN G.id2node
  BY DEF CallInv, BlockInv, In
<1>2. GraphInv(H) /\ Grows(G, H)
  BY <1>1, MarkInv
<1>3. Grows(g, H)
  BY <1>2, GrowsTrans
<1>4. /\ DOMAIN c = BlockFields /\ c.bb = b.bb /\ c.j = b.j + 1 /\ c.prev = b.prev /\ c.cur = b.cur
      /\ c.how = "none" /\ c.todo = <<>> /\ c.nth = 1 /\ c.sel = NoNode /\ c.case = b.case /\ c.bodies = b.bodies
  BY DEF BlockInv, BlockFields
<1>. HIDE DEF c
<1>5. b.j \in Nat /\ b.j + 1 \in 1 .. Len(At(f, b)) + 1 /\ Len(At(f, b)) \in Nat
      /\ DOMAIN At(f, b) = 1 .. Len(At(f, b))
  <2>1. Len(At(f, b)) \in Nat /\ DOMAIN At(f, b) = 1 .. Len(At(f, b))
    BY LenProperties
  <2>. QED BY <2>1
<1>6. BlockInv(p, G, f, c)
  <2>1. <<>> \in Seq(DOMAIN p)
    BY EmptySeq
  <2>2. In(G, b.cur, f.tid) \/ \E k \in DOMAIN At(f, b) : k <= b.j + 1 /\ At(f, b)[k].op = "AfterFunc"
    <3>1. CASE In(G, b.cur, f.tid)
      BY <3>1
    <3>2. CASE ~In(G, b.cur, f.tid)
      <4>1. PICK k \in DOMAIN At(f, b) : k <= b.j /\ At(f, b)[k].op = "AfterFunc"
        BY <3>2 DEF BlockInv, At
      <4>2. k <= b.j + 1
        BY <1>5, <4>1
      <4>. QED BY <4>1, <4>2
    <3>. QED BY <3>1, <3>2
  <2>3. /\ b.bb \in DOMAIN p[f.cg].blocks /\ In(G, b.prev, f.tid) /\ b.cur \in DOMAIN G.id2node
        /\ b.case \in Nat \ {0}
        /\ \A i \in DOMAIN b.bodies : b.bodies[i].start \in 0 .. Len(p[f.cg].blocks)
    BY DEF BlockInv
  <2>4. p[f.cg].blocks[c.bb].instrs = At(f, b)
    BY <1>4 DEF At
  <2>. QED BY <1>4, <1>5, <2>1, <2>2, <2>3, <2>4, IdleBlock
<1>7. BlockInv(p, H, f, c) /\ CallInv(p, H, f)
  BY <1>2, <1>6, BlockKept, CallKept DEF Grows
<1>8. g' = H /\ SetCall(WithBlock(f, c))
  BY DEF Over, c
<1>. HIDE DEF H
<1>. QED BY <1>2, <1>3, <1>4, <1>7, <1>8, BlockStep

\* Block c is b with other nodes, callees or times.
LEMMA MoveBlock ==
  ASSUME NEW q, NEW G, NEW f, NEW b, BlockInv(q, G, f, b), NEW c, DOMAIN c = BlockFields,
         c.bb = b.bb, c.j = b.j, c.how = b.how, c.sel = b.sel, c.bodies = b.bodies,
         c.case \in Nat \ {0}, c.nth \in Nat \ {0}, c.how = "none" /\ c.sel = NoNode => c.nth = 1,
         In(G, c.prev, f.tid), c.cur = b.cur \/ In(G, c.cur, f.tid),
         c.todo \in Seq(DOMAIN q), c.how = "go" => \A i \in DOMAIN c.todo : q[c.todo[i]].kind # "cancel"
  PROVE  BlockInv(q, G, f, c)
<1>. DEFINE bs == q[f.cg].blocks
            s == bs[c.bb].instrs
<1>1. /\ c.bb \in DOMAIN bs /\ c.j \in 1 .. Len(s) + 1
      /\ c.how # "none" => c.j \in DOMAIN s /\ c.sel = NoNode
      /\ c.how \in CallOps \cup {"none", "defer"}
      /\ c.how \in CallOps => s[c.j].op = c.how
      /\ c.sel # NoNode => /\ c.j \in DOMAIN s /\ In(G, c.sel, f.tid) /\ G.id2node[c.sel].typId = "NSelect"
      /\ \A i \in DOMAIN c.bodies : c.bodies[i].start \in 0 .. Len(bs)
  BY Zenon DEF BlockInv
<1>2. c.cur \in DOMAIN G.id2node
      /\ (In(G, c.cur, f.tid) \/ \E k \in DOMAIN s : k <= c.j /\ s[k].op = "AfterFunc")
  BY DEF BlockInv, In
<1>. HIDE DEF bs, s
<1>. QED BY <1>1, <1>2 DEF BlockInv, BlockFields, bs, s

\* Block c is b at the calls that its instruction makes.
LEMMA BusyBlock ==
  ASSUME NEW q, NEW G, NEW f, NEW b, BlockInv(q, G, f, b), NEW c, DOMAIN c = BlockFields,
         c.bb = b.bb, c.j = b.j, c.cur = b.cur, c.sel = NoNode, c.bodies = b.bodies,
         c.case = b.case, c.nth = b.nth, In(G, c.prev, f.tid),
         NEW s, s = q[f.cg].blocks[b.bb].instrs, b.j \in DOMAIN s,
         c.how \in CallOps \cup {"defer"}, c.how \in CallOps => s[b.j].op = c.how,
         c.todo \in Seq(DOMAIN q), c.how = "go" => \A i \in DOMAIN c.todo : q[c.todo[i]].kind # "cancel"
  PROVE  BlockInv(q, G, f, c)
<1>. DEFINE bs == q[f.cg].blocks
<1>1. /\ c.bb \in DOMAIN bs /\ c.j \in 1 .. Len(s) + 1
      /\ c.how \in CallOps => s[c.j].op = c.how
      /\ \A i \in DOMAIN c.bodies : c.bodies[i].start \in 0 .. Len(bs)
      /\ c.cur \in DOMAIN G.id2node
      /\ (In(G, c.cur, f.tid) \/ \E k \in DOMAIN s : k <= c.j /\ s[k].op = "AfterFunc")
      /\ c.nth \in Nat \ {0} /\ c.case \in Nat \ {0}
  BY Zenon DEF BlockInv
<1>2. c.how \in CallOps \cup {"none", "defer"} /\ c.how # "none"
  BY Zenon DEF CallOps
<1>. HIDE DEF bs
<1>. QED BY <1>1, <1>2 DEF BlockInv, BlockFields, bs

\* Block c is b at the cases of the select that its instruction makes.
LEMMA SelectBlock ==
  ASSUME NEW q, NEW G, NEW f, NEW b, BlockInv(q, G, f, b), NEW c, DOMAIN c = BlockFields,
         c.bb = b.bb, c.j = b.j, c.how = "none", c.prev = b.prev, c.todo = b.todo,
         NEW s, s = q[f.cg].blocks[b.bb].instrs, b.j \in DOMAIN s,
         c.cur = b.cur \/ In(G, c.cur, f.tid), c.case \in Nat \ {0}, c.nth \in Nat \ {0},
         c.sel # NoNode, In(G, c.sel, f.tid), G.id2node[c.sel].typId = "NSelect",
         \A i \in DOMAIN c.bodies : c.bodies[i].start \in 0 .. Len(q[f.cg].blocks)
  PROVE  BlockInv(q, G, f, c)
<1>. DEFINE bs == q[f.cg].blocks
<1>1. /\ c.bb \in DOMAIN bs /\ c.j \in 1 .. Len(s) + 1 /\ In(G, c.prev, f.tid) /\ c.todo \in Seq(DOMAIN q)
      /\ \A i \in DOMAIN c.bodies : c.bodies[i].start \in 0 .. Len(bs)
  BY Zenon DEF BlockInv
<1>2. c.cur \in DOMAIN G.id2node
      /\ (In(G, c.cur, f.tid) \/ \E k \in DOMAIN s : k <= c.j /\ s[k].op = "AfterFunc")
  BY DEF BlockInv, In
<1>3. c.how \in CallOps \cup {"none", "defer"} /\ c.how \notin CallOps /\ c.how # "go"
  BY Zenon DEF CallOps
<1>. HIDE DEF bs
<1>. QED BY <1>1, <1>2, <1>3 DEF BlockInv, BlockFields, bs

LEMMA AtInstFacts ==
  ASSUME Live, AtInst
  PROVE  /\ h.bbs # <<>> /\ B.how = "none" /\ B.sel = NoNode /\ B.nth = 1 /\ DOMAIN B = BlockFields
         /\ B.j \in DOMAIN At(h, B) /\ At(h, B) \in Seq(InstRec(p)) /\ inst = At(h, B)[B.j]
         /\ inst \in InstRec(p) /\ BlockInv(p, g, h, B) /\ CallInv(p, g, h) /\ At(h, B) = blocks[B.bb].instrs
         /\ DOMAIN h = CallFields /\ B.bb \in DOMAIN p[h.cg].blocks
<1>1. h.bbs # <<>> /\ B.how = "none" /\ B.sel = NoNode /\ B.j <= Len(blocks[B.bb].instrs)
  BY DEF AtInst, InBlock
<1>2. /\ BlockInv(p, g, h, B) /\ blocks[B.bb].instrs \in Seq(InstRec(p))
      /\ B.j \in DOMAIN blocks[B.bb].instrs => inst \in InstRec(p)
  BY <1>1, TopBlock
<1>3. At(h, B) = blocks[B.bb].instrs /\ inst = At(h, B)[B.j]
  BY DEF At, blocks, inst
<1>4. B.j \in DOMAIN blocks[B.bb].instrs
  <2>1. B.j \in 1 .. Len(blocks[B.bb].instrs) + 1
    BY <1>2 DEF BlockInv, blocks
  <2>2. Len(blocks[B.bb].instrs) \in Nat /\ DOMAIN blocks[B.bb].instrs = 1 .. Len(blocks[B.bb].instrs)
    BY <1>2, LenProperties
  <2>. QED BY <1>1, <2>1, <2>2
<1>5. B.nth = 1 /\ DOMAIN B = BlockFields /\ B.bb \in DOMAIN p[h.cg].blocks
  BY <1>1, <1>2 DEF BlockInv, BlockFields
<1>6. CallInv(p, g, h) /\ DOMAIN h = CallFields
  BY TopCall DEF CallInv, CallFields
<1>. QED BY <1>1, <1>2, <1>3, <1>4, <1>5, <1>6

\* An instruction that makes nodes and goes on from one of them.
LEMMA MoveOver ==
  ASSUME Live, AtInst, p' = p, Typed', NEW G, GraphInv(G), Grows(g, G),
         NEW f, CallInv(p, G, f), f.tid = h.tid, f.cg = h.cg, f.bbs # <<>>,
         NEW c, DOMAIN c = BlockFields, c.bb = B.bb, c.j = B.j, c.how = B.how, c.sel = B.sel, c.bodies = B.bodies,
         c.case = B.case, c.nth = B.nth, c.todo = B.todo,
         In(G, c.prev, h.tid), c.cur = B.cur \/ In(G, c.cur, h.tid),
         Over(f, c, G)
  PROVE  Kept'
<1>1. /\ B.how = "none" /\ B.sel = NoNode /\ B.nth = 1 /\ BlockInv(p, g, h, B)
      /\ B.j \in DOMAIN At(h, B) /\ At(h, B) \in Seq(InstRec(p))
  BY AtInstFacts
<1>2. BlockInv(p, G, h, B)
  BY <1>1, BlockKept DEF Grows
<1>3. BlockInv(p, G, f, B)
  BY <1>2 DEF BlockInv
<1>4. B.case \in Nat \ {0} /\ B.nth \in Nat \ {0} /\ B.todo \in Seq(DOMAIN p)
  BY <1>1 DEF BlockInv
<1>5. BlockInv(p, G, f, c)
  BY <1>1, <1>3, <1>4, MoveBlock
<1>6. c.j \in DOMAIN At(f, c) /\ At(f, c) \in Seq(InstRec(p)) /\ c.sel = NoNode
  BY <1>1 DEF At
<1>. QED BY <1>5, <1>6, OverStep

-----------------------------------------------------------------------------
(* The instructions.                                                         *)

LEMMA InstFacts ==
  ASSUME Live, AtInst
  PROVE  /\ inst.on \in Seq(Obj) /\ inst.callees \in Seq(DOMAIN p) /\ inst.states \in Seq(StateRec)
         /\ In(g, B.prev, h.tid)
<1>1. inst \in InstRec(p) /\ BlockInv(p, g, h, B)
  BY AtInstFacts
<1>. QED BY <1>1 DEF InstRec, BlockInv

LEMMA Still ==
  ASSUME Live, AtInst, p' = p, Typed', Over(h, B, g)
  PROVE  Kept'
<1>1. /\ h.bbs # <<>> /\ DOMAIN B = BlockFields /\ CallInv(p, g, h) /\ In(g, B.prev, h.tid)
  BY AtInstFacts, InstFacts
<1>2. GraphInv(g) /\ Grows(g, g)
  BY GrowsRefl DEF Live
<1>. QED BY <1>1, <1>2, MoveOver

LEMMA PlainStep == ASSUME Live, Plain PROVE Kept'
<1>1. AtInst /\ p' = p /\ Over(h, B, g) /\ wg_pts' = wg_pts
  BY DEF Plain
<1>2. Typed'
  BY <1>1 DEF Live, Typed
<1>. QED BY <1>1, <1>2, Still

LEMMA WithCancelStep == ASSUME Live, WithCancel PROVE Kept'
<1>1. AtInst /\ p' = p /\ Over(h, B, g) /\ wg_pts' = wg_pts
  BY DEF WithCancel
<1>2. Typed'
  BY <1>1 DEF Live, Typed
<1>. QED BY <1>1, <1>2, Still

LEMMA CtxDoneStep == ASSUME Live, CtxDone PROVE Kept'
<1>. DEFINE nds == OnObjects("NCtxDone", h.cg, h.tid, Known(inst.on))
            G == AddNodes(g, B.prev, nds, NewIds(g, nds))
<1>1. AtInst /\ p' = p /\ wg_pts' = wg_pts /\ Over(h, B, G)
  BY DEF CtxDone, OnObjects
<1>2. Typed'
  BY <1>1 DEF Live, Typed
<1>3. /\ h.bbs # <<>> /\ DOMAIN B = BlockFields /\ CallInv(p, g, h) /\ In(g, B.prev, h.tid)
      /\ Known(inst.on) \in Seq(Obj) /\ h.cg \in DOMAIN p /\ p \in Programs /\ GraphInv(g)
  BY <1>1, AtInstFacts, InstFacts, KnownType, TopCall DEF Live
<1>4. "NCtxDone" \in BareTypes \ {"NExit"}
  BY DEF BareTypes, TypeOfNode, CaseTypes
<1>5. GraphInv(G) /\ Grows(g, G)
  BY <1>3, <1>4, OnObjectsInv
<1>. HIDE DEF G
<1>6. CallInv(p, G, h) /\ In(G, B.prev, h.tid)
  BY <1>3, <1>5, CallKept, InKept DEF Grows
<1>. QED BY <1>1, <1>2, <1>3, <1>5, <1>6, MoveOver

\* Block b, gone on to n with prev_node and to m with cur_node.
LEMMA MovedFields ==
  ASSUME NEW b, DOMAIN b = BlockFields, NEW n, NEW m
  PROVE  LET c == [b EXCEPT !.prev = n, !.cur = m]
         IN  /\ DOMAIN c = BlockFields /\ c.prev = n /\ c.cur = m
             /\ c.bb = b.bb /\ c.j = b.j /\ c.how = b.how /\ c.sel = b.sel /\ c.bodies = b.bodies
             /\ c.case = b.case /\ c.nth = b.nth /\ c.todo = b.todo /\ c.body = b.body
BY DEF BlockFields

LEMMA NodeOver ==
  ASSUME Live, AtInst, p' = p, Typed', NEW G, GraphInv(G), Grows(g, G),
         NEW n, In(G, n, h.tid), NEW m, m = B.cur \/ In(G, m, h.tid),
         Over(h, [B EXCEPT !.prev = n, !.cur = m], G)
  PROVE  Kept'
<1>. DEFINE c == [B EXCEPT !.prev = n, !.cur = m]
<1>1. h.bbs # <<>> /\ DOMAIN B = BlockFields /\ CallInv(p, g, h)
  BY AtInstFacts
<1>2. CallInv(p, G, h)
  BY <1>1, CallKept DEF Grows
<1>3. /\ DOMAIN c = BlockFields /\ c.prev = n /\ c.cur = m
      /\ c.bb = B.bb /\ c.j = B.j /\ c.how = B.how /\ c.sel = B.sel /\ c.bodies = B.bodies
      /\ c.case = B.case /\ c.nth = B.nth /\ c.todo = B.todo
  BY <1>1, MovedFields
<1>. HIDE DEF c
<1>4. Over(h, c, G)
  BY DEF c
<1>. QED BY <1>1, <1>2, <1>3, <1>4, MoveOver

LEMMA SyncStep == ASSUME Live, Sync PROVE Kept'
<1>. DEFINE nd == [NewNode(NodeOf[inst.op], h.tid, h.cg) EXCEPT !.pts = inst.on, !.isSender = inst.op = "send"]
            n == ID(g)
            G == AddNode(g, B.prev, nd)
            done == inst.op = "WGDone"
            H == IF done THEN [G EXCEPT !.tid2end[h.tid] = n] ELSE G
            m == IF nd.typId \in DOMAIN LockMode THEN B.cur ELSE n
<1>1. AtInst /\ p' = p /\ inst.op \in DOMAIN NodeOf
      /\ wg_pts' = (IF done THEN With(wg_pts, h.tid, inst.on) ELSE wg_pts)
  BY DEF Sync
<1>2. /\ DOMAIN B = BlockFields /\ In(g, B.prev, h.tid) /\ inst.on \in Seq(Obj) /\ h.cg \in DOMAIN p
      /\ h.tid \in Nat /\ h.tid \in DOMAIN g.roots /\ p \in Programs /\ GraphInv(g)
  BY <1>1, AtInstFacts, InstFacts, TopCall DEF Live
<1>3. Over(h, [B EXCEPT !.prev = n, !.cur = m], H)
  <2>1. Over(h, [B EXCEPT !.prev = n, !.cur = IF nd.typId \in DOMAIN LockMode THEN @ ELSE n], H)
    BY DEF Sync
  <2>2. [B EXCEPT !.prev = n, !.cur = IF nd.typId \in DOMAIN LockMode THEN @ ELSE n]
          = [B EXCEPT !.prev = n, !.cur = m]
    <3>. HIDE DEF n, nd
    <3>. QED BY <1>2 DEF BlockFields
  <2>. HIDE DEF m, H, n
  <2>. QED BY <2>1, <2>2
<1>4. NodeOf[inst.op] \in BareTypes \ {"NExit"}
  BY <1>1 DEF NodeOf, BareTypes, TypeOfNode, CaseTypes
<1>5. Bare(nd) /\ nd.gid = h.tid /\ nd.typId # "NExit"
  <2>. DEFINE base == NewNode(NodeOf[inst.op], h.tid, h.cg)
              x == inst.op = "send"
  <2>1. Bare(base) /\ base.gid = h.tid /\ base.typId # "NExit"
    BY <1>2, <1>4, NewBare
  <2>2. x \in BOOLEAN
    OBVIOUS
  <2>3. nd = [base EXCEPT !.pts = inst.on, !.isSender = x]
    OBVIOUS
  <2>. HIDE DEF base, x, nd
  <2>. QED BY <1>2, <2>1, <2>2, <2>3 DEF Bare, NodeRec
<1>. HIDE DEF nd
<1>6. One(g, G, nd)
  <2>1. Fresh(g, nd) /\ OneExitOf(g, nd)
    BY <1>2, <1>5, BareFresh DEF OneExitOf
  <2>. QED BY <1>2, <1>5, <2>1, AddNodeInv
<1>7. GraphInv(G) /\ Grows(g, G) /\ In(G, n, h.tid)
  BY <1>5, <1>6 DEF One
<1>. HIDE DEF G, n
<1>8. GraphInv(H) /\ Grows(g, H) /\ In(H, n, h.tid)
  <2>1. CASE ~done
    BY <1>7, <2>1
  <2>2. CASE done
    <3>1. n \in DOMAIN G.id2node
      BY <1>7 DEF In
    <3>2. GraphInv(H) /\ Grows(G, H)
      BY <1>7, <2>2, <3>1, SetEndInv
    <3>. HIDE DEF H
    <3>. QED BY <1>7, <3>2, GrowsTrans, InKept DEF Grows
  <2>. QED BY <2>1, <2>2
<1>9. Typed'
  <2>1. Typed
    BY DEF Live
  <2>2. \A t \in DOMAIN wg_pts' : wg_pts'[t] \in Seq(Obj)
    BY <1>1, <1>2, <2>1 DEF Typed, With
  <2>. QED BY <2>2 DEF Typed
<1>10. m = B.cur \/ In(H, m, h.tid)
  BY <1>8
<1>. HIDE DEF m, H
<1>. QED BY <1>1, <1>3, <1>8, <1>9, <1>10, NodeOver

LEMMA AccessStep == ASSUME Live, Access PROVE Kept'
<1>. DEFINE typ == IF inst.op = "read" THEN "NRead" ELSE "NWrite"
            objs == <<ToSet(inst.on)>>
            made == VisitRWNode(g, B.prev, typ, objs)
<1>1. AtInst /\ p' = p /\ wg_pts' = wg_pts
  BY DEF Access
<1>2. Typed'
  BY <1>1 DEF Live, Typed
<1>3. /\ In(g, B.prev, h.tid) /\ h.cg \in DOMAIN p /\ p \in Programs /\ GraphInv(g)
  BY <1>1, InstFacts, TopCall DEF Live
<1>4. IsSeq(objs) /\ objs # <<>>
  <2>1. objs \in Seq({ToSet(inst.on)}) /\ objs # <<>>
    OBVIOUS
  <2>. HIDE DEF objs
  <2>. QED BY <2>1, SelfTyped
<1>. HIDE DEF typ, objs
<1>5. GraphInv(made.G) /\ Grows(g, made.G) /\ In(made.G, made.prev, h.tid)
  BY <1>3, <1>4, AccessInv
<1>6. CASE DoRace
  <2>1. Over(h, [B EXCEPT !.prev = made.prev, !.cur = made.prev], made.G)
    BY <1>6 DEF Access, typ, objs
  <2>. HIDE DEF made
  <2>. QED BY <1>1, <1>2, <1>5, <2>1, NodeOver
<1>7. CASE ~DoRace
  <2>1. Over(h, B, g)
    BY <1>7 DEF Access
  <2>. QED BY <1>1, <1>2, <2>1, Still
<1>. QED BY <1>6, <1>7

LEMMA ReturnStep == ASSUME Live, Return PROVE Kept'
<1>. DEFINE results == [i \in DOMAIN inst.on |-> {inst.on[i]}]
            read == IF DoRace THEN VisitRWNode(g, B.prev, "NRead", results).G ELSE g
            n == ID(read)
            rn == NewNode("NReturn", h.tid, h.cg)
            ret == updateNodes(read, B.prev, rn)
            exit == [NewNode("NLoop", h.tid, h.cg) EXCEPT !.loop_name = h.for_loop_name]
            H == updateNodes(ret, n, exit)
<1>1. AtInst /\ p' = p /\ wg_pts' = wg_pts
  BY DEF Return
<1>2. Typed'
  BY <1>1 DEF Live, Typed
<1>3. /\ In(g, B.prev, h.tid) /\ h.cg \in DOMAIN p /\ p \in Programs /\ GraphInv(g) /\ CallInv(p, g, h)
      /\ inst.on \in Seq(Obj) /\ h.tid \in Nat /\ DOMAIN B = BlockFields /\ h.bbs # <<>>
  BY <1>1, AtInstFacts, InstFacts, TopCall DEF Live
<1>4. IsSeq(results)
  <2>. DEFINE m == Len(inst.on)
              S == {{inst.on[i]} : i \in DOMAIN inst.on}
  <2>1. m \in Nat /\ results = [i \in 1 .. m |-> results[i]] /\ \A i \in 1 .. m : results[i] \in S
    BY <1>3
  <2>. HIDE DEF m, results, S
  <2>2. results \in Seq(S)
    BY <2>1, IsASeq
  <2>. QED BY <2>2, SelfTyped
<1>. HIDE DEF results
<1>5. GraphInv(read) /\ Grows(g, read) /\ In(read, B.prev, h.tid)
  <2>1. CASE DoRace
    <3>1. GraphInv(read) /\ Grows(g, read)
      BY <1>3, <1>4, <2>1, AccessInv
    <3>. HIDE DEF read
    <3>. QED BY <1>3, <3>1, InKept DEF Grows
  <2>2. CASE ~DoRace
    BY <1>3, <2>2, GrowsRefl
  <2>. QED BY <2>1, <2>2
<1>. HIDE DEF read
<1>6. Bare(rn) /\ rn.gid = h.tid /\ rn.typId = "NReturn"
  BY <1>3, NewBare DEF BareTypes, TypeOfNode, CaseTypes
<1>7. Bare(exit) /\ exit.gid = h.tid /\ exit.typId = "NLoop"
  <2>. DEFINE base == NewNode("NLoop", h.tid, h.cg)
  <2>1. Bare(base) /\ base.gid = h.tid /\ base.typId = "NLoop"
    BY <1>3, NewBare DEF BareTypes, TypeOfNode, CaseTypes
  <2>2. h.for_loop_name \in LoopName
    BY <1>3 DEF CallInv
  <2>. HIDE DEF base
  <2>. QED BY <2>1, <2>2 DEF Bare, NodeRec, base
<1>. HIDE DEF rn, exit
<1>8. One(read, ret, rn)
  <2>1. Fresh(read, rn) /\ OneExitOf(read, rn)
    BY <1>5, <1>6, GidType, BareFresh DEF OneExitOf
  <2>. QED BY <1>5, <1>6, <2>1, UpdateNodesInv
<1>9. GraphInv(ret) /\ Grows(read, ret) /\ In(ret, n, h.tid) /\ ID(ret) = n + 1
  BY <1>6, <1>8 DEF One
<1>10. Grows(g, ret)
  BY <1>5, <1>9, GrowsTrans
<1>. HIDE DEF ret, n
<1>11. One(ret, H, exit)
  <2>1. Fresh(ret, exit) /\ OneExitOf(ret, exit)
    BY <1>7, <1>9, GidType, BareFresh DEF OneExitOf
  <2>. QED BY <1>7, <1>9, <2>1, UpdateNodesInv
<1>12. GraphInv(H) /\ Grows(ret, H) /\ In(H, n + 1, h.tid)
  BY <1>7, <1>9, <1>11 DEF One
<1>13. Grows(g, H)
  BY <1>10, <1>12, GrowsTrans
<1>. HIDE DEF H
<1>14. CASE h.loop = "for"
  <2>1. Over(h, [B EXCEPT !.prev = n + 1, !.cur = n + 1], H)
    BY <1>14 DEF Return, H, ret, n, read, results, rn, exit
  <2>2. PICK m : m = n + 1
    OBVIOUS
  <2>. QED BY <1>1, <1>2, <1>12, <1>13, <2>1, <2>2, NodeOver
<1>15. CASE h.loop # "for" /\ blocks[B.bb].comment = "rangechan.done"
  <2>1. Over(h, [B EXCEPT !.prev = n], ret)
    BY <1>15 DEF Return, ret, n, read, results, rn
  <2>2. [B EXCEPT !.prev = n] = [B EXCEPT !.prev = n, !.cur = B.cur]
    BY <1>3 DEF BlockFields
  <2>. QED BY <1>1, <1>2, <1>9, <1>10, <2>1, <2>2, NodeOver
<1>16. CASE h.loop # "for" /\ blocks[B.bb].comment # "rangechan.done"
  <2>1. Over(h, B, read)
    BY <1>16 DEF Return, read, results
  <2>2. CallInv(p, read, h)
    BY <1>3, <1>5, CallKept DEF Grows
  <2>. QED BY <1>1, <1>2, <1>3, <1>5, <2>1, <2>2, MoveOver
<1>. QED BY <1>14, <1>15, <1>16

-----------------------------------------------------------------------------
(* The loop over the blocks.                                                 *)

\* Activation f is e with other blocks or names.
LEMMA MoveCall ==
  ASSUME NEW q, NEW G, NEW e, CallInv(q, G, e), NEW f, DOMAIN f = CallFields, f.cg = e.cg, f.tid = e.tid,
         In(G, f.prev, f.tid), f.bb \in Nat \ {0}, f.bodies \in Seq(DOMAIN q[f.cg].blocks),
         {f.loop_name, f.for_loop_name, f.roc_name} \subseteq LoopName, f.select_node_id \in Nat,
         f.defer_unlocks = e.defer_unlocks, f.defer_closes = e.defer_closes, f.defer_calls = e.defer_calls,
         IsSeq(f.bbs),
         \A i \in DOMAIN f.bbs : BlockInv(q, G, f, f.bbs[i]) /\ (i < Len(f.bbs) => f.bbs[i].sel # NoNode)
  PROVE  CallInv(q, G, f)
BY DEF CallInv, CallFields

LEMMA NoBlocks == IsSeq(<<>>) /\ DOMAIN <<>> = {} /\ Len(<<>>) = 0
<1>1. IsSeq(<<>>)
  <2>1. <<>> \in Seq({})
    BY EmptySeq
  <2>. QED BY <2>1, SelfTyped
<1>2. DOMAIN <<>> = {} /\ Len(<<>>) = 0
  OBVIOUS
<1>. QED BY <1>1, <1>2

LEMMA OneBlock ==
  ASSUME NEW b
  PROVE  IsSeq(<<b>>) /\ DOMAIN <<b>> = {1} /\ Len(<<b>>) = 1 /\ <<b>>[1] = b /\ Last(<<b>>) = b /\ <<b>> # <<>>
<1>. DEFINE s == <<b>>
<1>1. s \in Seq({b}) /\ DOMAIN s = {1} /\ Len(s) = 1 /\ s[1] = b
  OBVIOUS
<1>. HIDE DEF s
<1>2. IsSeq(s)
  BY <1>1, SelfTyped
<1>3. s # <<>> /\ Last(s) = b
  BY <1>1, <1>2, SeqFacts
<1>. QED BY <1>1, <1>2, <1>3 DEF s

LEMMA NewBlock ==
  ASSUME p \in Programs, NEW f, f.cg \in DOMAIN p, NEW b \in DOMAIN p[f.cg].blocks,
         NEW G, NEW n, In(G, n, f.tid)
  PROVE  BlockInv(p, G, f, Block(b, n)) /\ Block(b, n).sel = NoNode
<1>. DEFINE c == Block(b, n)
<1>1. /\ DOMAIN c = BlockFields /\ c.bb = b /\ c.j = 1 /\ c.prev = n /\ c.cur = n /\ c.how = "none"
      /\ c.todo = <<>> /\ c.nth = 1 /\ c.sel = NoNode /\ c.case = 1 /\ DOMAIN c.bodies = {}
  BY DEF Block, BlockFields
<1>2. p[f.cg].blocks[b].instrs \in Seq(InstRec(p))
  <2>1. IsProgram(p)
    BY ProgramsAssumption
  <2>. QED BY <2>1, ProgramFacts
<1>. HIDE DEF c
<1>3. c.j \in 1 .. Len(p[f.cg].blocks[c.bb].instrs) + 1
  <2>1. Len(p[f.cg].blocks[b].instrs) \in Nat
    BY <1>2, LenProperties
  <2>. QED BY <1>1, <2>1
<1>4. c.todo \in Seq(DOMAIN p) /\ c.case \in Nat \ {0}
  BY <1>1, EmptySeq
<1>5. c.cur \in DOMAIN G.id2node
  BY <1>1 DEF In
<1>6. BlockInv(p, G, f, c)
  BY <1>1, <1>3, <1>4, <1>5, IdleBlock
<1>. QED BY <1>1, <1>6 DEF c

LEMMA NextBlockStep == ASSUME Live, NextBlock PROVE Kept'
<1>1. /\ h.bbs = <<>> /\ p' = p /\ g' = g /\ wg_pts' = wg_pts
      /\ \/ h.loop # "none" /\ h.bodies # <<>> /\ StartBlock(h, Head(h.bodies))
         \/ h.loop = "none" /\ h.bb <= Len(blocks) /\ StartBlock(h, h.bb)
  BY DEF NextBlock, InDFS
<1>. DEFINE b == IF h.loop = "none" THEN h.bb ELSE Head(h.bodies)
<1>2. /\ StartBlock(h, b)
      /\ \/ b = Head(h.bodies) /\ h.loop # "none" /\ h.bodies # <<>>
         \/ b = h.bb /\ h.loop = "none" /\ b <= Len(blocks)
  BY <1>1
<1>. HIDE DEF b
<1>3. /\ CallInv(p, g, h) /\ h.bodies \in Seq(DOMAIN blocks) /\ h.bb \in Nat \ {0} /\ In(g, h.prev, h.tid)
      /\ h.cg \in DOMAIN p /\ p \in Programs /\ DOMAIN h = CallFields /\ GraphInv(g)
  BY TopCall DEF CallInv, CallFields, blocks, Live
<1>4. b \in DOMAIN blocks
  <2>1. CASE b = Head(h.bodies) /\ h.bodies # <<>>
    BY <1>3, <2>1, HeadTailProperties
  <2>2. CASE b = h.bb /\ b <= Len(blocks)
    <3>1. IsSeq(blocks)
      BY TopCall DEF Linked
    <3>. QED BY <1>3, <2>2, <3>1, SeqFacts
  <2>. QED BY <1>2, <2>1, <2>2
<1>. DEFINE rest == IF h.loop = "none" THEN [h EXCEPT !.bb = @ + 1] ELSE [h EXCEPT !.bodies = Tail(@)]
            f == [rest EXCEPT !.bbs = <<Block(b, h.prev)>>, !.skips = @ \cup {b}]
<1>5. SetCall(rest) \/ SetCall(f)
  BY <1>2 DEF StartBlock
<1>6. Typed'
  BY <1>1 DEF Live, Typed
<1>7. /\ DOMAIN rest = CallFields /\ rest.cg = h.cg /\ rest.tid = h.tid /\ rest.prev = h.prev /\ rest.bbs = <<>>
      /\ rest.loop_name = h.loop_name /\ rest.for_loop_name = h.for_loop_name /\ rest.roc_name = h.roc_name
      /\ rest.select_node_id = h.select_node_id /\ rest.defer_unlocks = h.defer_unlocks
      /\ rest.defer_closes = h.defer_closes /\ rest.defer_calls = h.defer_calls
      /\ rest.bb \in Nat \ {0} /\ rest.bodies \in Seq(DOMAIN blocks)
  <2>1. CASE h.loop = "none"
    <3>1. rest = [h EXCEPT !.bb = h.bb + 1] /\ h.bb + 1 \in Nat \ {0}
      BY <1>3, <2>1
    <3>. QED BY <1>1, <1>3, <3>1 DEF CallFields
  <2>2. CASE h.loop # "none"
    <3>1. rest = [h EXCEPT !.bodies = Tail(h.bodies)]
      BY <2>2
    <3>2. Tail(h.bodies) \in Seq(DOMAIN blocks)
      BY <1>2, <1>3, <2>2, HeadTailProperties
    <3>. QED BY <1>1, <1>3, <3>1, <3>2 DEF CallFields
  <2>. QED BY <2>1, <2>2
<1>. HIDE DEF rest
<1>8. {h.loop_name, h.for_loop_name, h.roc_name} \subseteq LoopName /\ h.select_node_id \in Nat
  BY <1>3 DEF CallInv
<1>9. GraphInv(g) /\ Grows(g, g)
  BY <1>3, GrowsRefl
<1>10. CASE SetCall(rest)
  <2>1. CallInv(p, g, rest)
    BY <1>3, <1>7, <1>8, NoBlocks, MoveCall DEF blocks
  <2>2. Settled(rest)
    BY <1>7 DEF Settled
  <2>. QED BY <1>1, <1>6, <1>7, <1>9, <1>10, <2>1, <2>2, CallStep
<1>11. CASE SetCall(f)
  <2>. DEFINE c == Block(b, h.prev)
              s == <<c>>
  <2>1. /\ DOMAIN f = CallFields /\ f.cg = h.cg /\ f.tid = h.tid /\ f.prev = h.prev /\ f.bbs = s
        /\ f.loop_name = h.loop_name /\ f.for_loop_name = h.for_loop_name /\ f.roc_name = h.roc_name
        /\ f.select_node_id = h.select_node_id /\ f.defer_unlocks = h.defer_unlocks
        /\ f.defer_closes = h.defer_closes /\ f.defer_calls = h.defer_calls
        /\ f.bb \in Nat \ {0} /\ f.bodies \in Seq(DOMAIN blocks)
    <3>. HIDE DEF s
    <3>. QED BY <1>7 DEF CallFields, s
  <2>2. IsSeq(s) /\ DOMAIN s = {1} /\ Len(s) = 1 /\ s[1] = c /\ Last(s) = c
    BY OneBlock
  <2>. HIDE DEF f, s
  <2>3. BlockInv(p, g, f, c) /\ c.sel = NoNode
    BY <1>3, <1>4, <2>1, NewBlock DEF blocks
  <2>. HIDE DEF c
  <2>4. CallInv(p, g, f)
    <3>1. ASSUME NEW i \in DOMAIN s PROVE BlockInv(p, g, f, s[i]) /\ ~(i < Len(s))
      BY <2>2, <2>3
    <3>. QED BY <1>3, <1>8, <2>1, <2>2, <3>1, MoveCall DEF blocks
  <2>5. Settled(f)
    BY <2>1, <2>2, <2>3 DEF Settled
  <2>. QED BY <1>1, <1>6, <1>9, <1>11, <2>1, <2>4, <2>5, CallStep DEF f
<1>. QED BY <1>5, <1>10, <1>11

\* A bare node below a node of its goroutine.
LEMMA BareNode ==
  ASSUME NEW G, GraphInv(G), NEW nd, Bare(nd), nd.typId # "NExit", NEW prev, In(G, prev, nd.gid)
  PROVE  LET H == updateNodes(G, prev, nd)
         IN  GraphInv(H) /\ Grows(G, H) /\ In(H, ID(G), nd.gid) /\ ID(H) = ID(G) + 1
<1>1. Fresh(G, nd) /\ OneExitOf(G, nd)
  BY GidType, BareFresh DEF OneExitOf
<1>2. One(G, updateNodes(G, prev, nd), nd)
  BY <1>1, UpdateNodesInv
<1>. QED BY <1>2 DEF One

LEMMA LoopEnterStep == ASSUME Live, LoopEnter PROVE Kept'
<1>. DEFINE kind == LoopOf[blocks[h.bb].comment]
            name == <<h.cg, h.bb>>
            n == ID(g)
            typ == IF kind = "roc" THEN "NROC" ELSE "NLoop"
            nd == [NewNode(typ, h.tid, h.cg) EXCEPT !.loop_name = name, !.enterLoop = TRUE]
            G == updateNodes(g, h.prev, nd)
            bodies == getLoopBBs(blocks, h.bb, h.skips)
            f == [h EXCEPT !.loop = kind, !.prev = n, !.start = n,
                           !.for_loop_name = IF kind = "for" THEN name ELSE @,
                           !.roc_name = IF kind = "roc" THEN name ELSE @,
                           !.loop_name = IF kind = "loop" THEN name ELSE @,
                           !.bodies = bodies]
<1>1. /\ h.bbs = <<>> /\ p' = p /\ g' = G /\ wg_pts' = wg_pts /\ h.bb <= Len(blocks)
      /\ blocks[h.bb].comment \in DOMAIN LoopOf
      /\ IF blocks[h.bb].succs = <<>> THEN status' = "crash" ELSE SetCall(f)
  BY DEF LoopEnter, InDFS
<1>2. Typed'
  BY <1>1 DEF Live, Typed
<1>3. /\ CallInv(p, g, h) /\ h.bb \in Nat \ {0} /\ In(g, h.prev, h.tid) /\ h.tid \in Nat /\ Linked(blocks)
      /\ h.cg \in DOMAIN p /\ p \in Programs /\ DOMAIN h = CallFields /\ GraphInv(g)
      /\ h.bodies \in Seq(DOMAIN blocks) /\ h.select_node_id \in Nat
      /\ {h.loop_name, h.for_loop_name, h.roc_name} \subseteq LoopName
  BY TopCall DEF CallInv, CallFields, blocks, Live
<1>4. h.bb \in DOMAIN blocks
  <2>1. IsSeq(blocks)
    BY <1>3 DEF Linked
  <2>. QED BY <1>1, <1>3, <2>1, SeqFacts
<1>5. name \in LoopName
  <2>1. IsProgram(p)
    BY TopCall
  <2>. QED BY <1>3, <1>4, <2>1, ProgramFacts DEF blocks
<1>. HIDE DEF name, kind
<1>6. Bare(nd) /\ nd.gid = h.tid /\ nd.typId # "NExit"
  <2>. DEFINE base == NewNode(typ, h.tid, h.cg)
  <2>1. Bare(base) /\ base.gid = h.tid /\ base.typId = typ /\ typ # "NExit"
    BY <1>3, NewBare DEF BareTypes, TypeOfNode, CaseTypes
  <2>. HIDE DEF base
  <2>. QED BY <1>5, <2>1 DEF Bare, NodeRec, base
<1>. HIDE DEF nd
<1>7. GraphInv(G) /\ Grows(g, G) /\ In(G, n, h.tid)
  BY <1>3, <1>6, BareNode
<1>8. CASE blocks[h.bb].succs = <<>>
  <2>1. status' = "crash" /\ g' = G
    BY <1>1, <1>8
  <2>. HIDE DEF G
  <2>. QED BY <1>2, <1>7, <2>1 DEF Kept
<1>9. CASE blocks[h.bb].succs # <<>>
  <2>1. bodies \in Seq(DOMAIN blocks)
    BY <1>1, <1>3, <1>4, <1>9, LoopBlocks
  <2>. HIDE DEF bodies, n
  <2>2. /\ DOMAIN f = CallFields /\ f.cg = h.cg /\ f.tid = h.tid /\ f.prev = n /\ f.bbs = h.bbs /\ f.bb = h.bb
        /\ f.bodies = bodies /\ f.select_node_id = h.select_node_id /\ f.defer_unlocks = h.defer_unlocks
        /\ f.defer_closes = h.defer_closes /\ f.defer_calls = h.defer_calls
        /\ f.loop_name \in {name, h.loop_name} /\ f.for_loop_name \in {name, h.for_loop_name}
        /\ f.roc_name \in {name, h.roc_name}
    BY <1>3 DEF CallFields
  <2>3. SetCall(f)
    BY <1>1, <1>9
  <2>. HIDE DEF f, G
  <2>4. CallInv(p, G, h)
    BY <1>3, <1>7, CallKept DEF Grows
  <2>5. IsSeq(f.bbs) /\ DOMAIN f.bbs = {}
    BY <1>1, <2>2, NoBlocks
  <2>6. CallInv(p, G, f)
    BY <1>3, <1>5, <1>7, <2>1, <2>2, <2>4, <2>5, MoveCall DEF blocks
  <2>7. Settled(f)
    BY <1>1, <2>2 DEF Settled
  <2>8. g' = G
    BY <1>1
  <2>. QED BY <1>1, <1>2, <1>7, <2>2, <2>3, <2>6, <2>7, <2>8, CallStep
<1>. QED BY <1>8, <1>9

LEMMA LoopExitStep == ASSUME Live, LoopExit PROVE Kept'
<1>. DEFINE n == ID(g)
            typ == IF h.loop = "roc" THEN "NROC" ELSE "NLoop"
            name == IF h.loop = "roc" THEN h.roc_name ELSE h.loop_name
            loops == [t \in DOMAIN g.gid2nloop |->
                        IF t \in h.first THEN {r \in g.gid2nloop[t] : r[1] # h.start} \cup {<<h.start, h.prev>>}
                        ELSE g.gid2nloop[t]]
            G == [g EXCEPT !.gid2nloop = loops]
            base == NewNode(typ, h.tid, h.cg)
            nd == [base EXCEPT !.loop_name = name]
            H == updateNodes(G, h.prev, nd)
            f == [h EXCEPT !.loop = "none", !.prev = n, !.first = {}, !.bb = @ + 1]
<1>1. /\ h.bbs = <<>> /\ p' = p /\ wg_pts' = wg_pts /\ SetCall(f) /\ g' = H
  BY DEF LoopExit, InDFS
<1>2. Typed'
  BY <1>1 DEF Live, Typed
<1>3. /\ CallInv(p, g, h) /\ h.bb \in Nat \ {0} /\ In(g, h.prev, h.tid) /\ h.tid \in Nat
      /\ h.cg \in DOMAIN p /\ p \in Programs /\ DOMAIN h = CallFields /\ GraphInv(g)
      /\ h.bodies \in Seq(DOMAIN blocks) /\ h.select_node_id \in Nat
      /\ {h.loop_name, h.for_loop_name, h.roc_name} \subseteq LoopName
  BY TopCall DEF CallInv, CallFields, blocks, Live
<1>4. GraphInv(G) /\ Grows(g, G) /\ ID(G) = n
  <2>. HIDE DEF loops
  <2>1. PICK x : x = loops
    OBVIOUS
  <2>2. G \in {[g EXCEPT !.rws = x], [g EXCEPT !.gid2nloop = x]}
    BY <2>1
  <2>3. GraphInv(g)
    BY <1>3
  <2>. HIDE DEF G
  <2>. QED BY <2>2, <2>3, SetListInv
<1>5. Bare(nd) /\ nd.gid = h.tid /\ nd.typId # "NExit"
  <2>1. Bare(base) /\ base.gid = h.tid /\ base.typId = typ /\ typ # "NExit"
    BY <1>3, NewBare DEF BareTypes, TypeOfNode, CaseTypes
  <2>2. name \in LoopName
    BY <1>3
  <2>. HIDE DEF base, name
  <2>. QED BY <2>1, <2>2 DEF Bare, NodeRec
<1>. HIDE DEF nd, G
<1>6. In(G, h.prev, h.tid)
  BY <1>3, <1>4, InKept DEF Grows
<1>7. GraphInv(H) /\ Grows(G, H) /\ In(H, n, h.tid)
  BY <1>4, <1>5, <1>6, BareNode
<1>. HIDE DEF H, n
<1>8. Grows(g, H)
  BY <1>4, <1>7, GrowsTrans
<1>9. /\ DOMAIN f = CallFields /\ f.cg = h.cg /\ f.tid = h.tid /\ f.prev = n /\ f.bbs = h.bbs
      /\ f.bodies = h.bodies /\ f.select_node_id = h.select_node_id /\ f.defer_unlocks = h.defer_unlocks
      /\ f.defer_closes = h.defer_closes /\ f.defer_calls = h.defer_calls
      /\ f.loop_name = h.loop_name /\ f.for_loop_name = h.for_loop_name /\ f.roc_name = h.roc_name
      /\ f.bb \in Nat \ {0}
  BY <1>3 DEF CallFields
<1>. HIDE DEF f
<1>10. CallInv(p, H, h)
  BY <1>3, <1>8, CallKept DEF Grows
<1>11. IsSeq(f.bbs) /\ DOMAIN f.bbs = {}
  BY <1>1, <1>9, NoBlocks
<1>12. CallInv(p, H, f)
  BY <1>3, <1>7, <1>9, <1>10, <1>11, MoveCall DEF blocks
<1>13. Settled(f)
  BY <1>1, <1>9 DEF Settled
<1>. QED BY <1>1, <1>2, <1>7, <1>8, <1>9, <1>12, <1>13, CallStep

LEMMA DonesType ==
  ASSUME NEW sel \in InstRec(p), NEW i \in Nat \ {0}
  PROVE  /\ Dones(sel, i) \in Seq(Obj) /\ Len(Dones(sel, i)) \in Nat
         /\ DOMAIN Dones(sel, i) = 1 .. Len(Dones(sel, i))
<1>1. CASE i <= Len(sel.states) /\ sel.states[i].kind = "done"
  <2>1. sel.states \in Seq(StateRec) /\ i \in DOMAIN sel.states
    BY <1>1 DEF InstRec
  <2>2. sel.states[i].on \in Seq(Obj)
    <3>1. sel.states[i] \in StateRec
      BY <2>1
    <3>. QED BY <3>1 DEF StateRec
  <2>3. Dones(sel, i) = Known(sel.states[i].on)
    BY <1>1 DEF Dones
  <2>. QED BY <2>2, <2>3, KnownType
<1>2. CASE ~(i <= Len(sel.states) /\ sel.states[i].kind = "done")
  <2>1. Dones(sel, i) = <<>>
    BY <1>2 DEF Dones
  <2>2. <<>> \in Seq(Obj)
    BY EmptySeq
  <2>. QED BY <2>1, <2>2, NoBlocks
<1>. QED BY <1>1, <1>2

LEMMA NextCaseFacts ==
  ASSUME NEW b, DOMAIN b = BlockFields, b.nth \in Nat \ {0}, b.case \in Nat \ {0},
         NEW sel \in InstRec(p)
  PROVE  LET c == NextCase(b, sel)
         IN  /\ DOMAIN c = BlockFields /\ c.bb = b.bb /\ c.j = b.j /\ c.prev = b.prev /\ c.cur = b.cur
             /\ c.how = b.how /\ c.todo = b.todo /\ c.sel = b.sel /\ c.bodies = b.bodies
             /\ c.nth \in Nat \ {0} /\ c.case \in Nat \ {0}
             /\ c.nth = 1 \/ c.nth <= Len(Dones(sel, c.case))
<1>. DEFINE c == NextCase(b, sel)
            k == Len(Dones(sel, b.case))
<1>1. k \in Nat
  BY DonesType
<1>2. CASE b.nth < k
  <2>1. c = [b EXCEPT !.nth = b.nth + 1]
    BY <1>2 DEF NextCase
  <2>2. /\ DOMAIN c = BlockFields /\ c.bb = b.bb /\ c.j = b.j /\ c.prev = b.prev /\ c.cur = b.cur
        /\ c.how = b.how /\ c.todo = b.todo /\ c.sel = b.sel /\ c.bodies = b.bodies
        /\ c.case = b.case /\ c.nth = b.nth + 1
    <3>. HIDE DEF c, k
    <3>. QED BY <2>1 DEF BlockFields
  <2>3. b.nth + 1 \in Nat \ {0} /\ b.nth + 1 <= k
    <3>. HIDE DEF c, k
    <3>. QED BY <1>1, <1>2
  <2>. HIDE DEF c
  <2>. QED BY <2>2, <2>3 DEF c
<1>3. CASE ~(b.nth < k)
  <2>1. c = [b EXCEPT !.nth = 1, !.case = b.case + 1]
    BY <1>3 DEF NextCase
  <2>. HIDE DEF c, k
  <2>2. /\ DOMAIN c = BlockFields /\ c.bb = b.bb /\ c.j = b.j /\ c.prev = b.prev /\ c.cur = b.cur
        /\ c.how = b.how /\ c.todo = b.todo /\ c.sel = b.sel /\ c.bodies = b.bodies
        /\ c.nth = 1 /\ c.case = b.case + 1
    BY <2>1 DEF BlockFields
  <2>3. b.case + 1 \in Nat \ {0}
    OBVIOUS
  <2>. QED BY <2>2, <2>3, OneNat DEF c
<1>. QED BY <1>2, <1>3

\* Block b of the call f goes on with the next case of its select.
LEMMA CaseStep ==
  ASSUME Live, p' = p, Typed', contexts' = contexts, NEW G, g' = G, GraphInv(G), Grows(g, G),
         NEW f, CallInv(p, G, f), f.tid = h.tid, f.cg = h.cg, f.bbs # <<>>,
         NEW b, BlockInv(p, G, f, b), b.sel # NoNode, SetCall(WithBlock(f, NextCase(b, At(f, b)[b.j])))
  PROVE  Kept'
<1>. DEFINE sel == At(f, b)[b.j]
            c == NextCase(b, sel)
            F == WithBlock(f, c)
<1>1. /\ DOMAIN b = BlockFields /\ b.nth \in Nat \ {0} /\ b.case \in Nat \ {0} /\ b.j \in DOMAIN At(f, b)
      /\ b.bb \in DOMAIN p[f.cg].blocks /\ In(G, b.prev, f.tid) /\ b.todo \in Seq(DOMAIN p)
      /\ b.how = "none"
  BY DEF BlockInv, BlockFields, At
<1>2. sel \in InstRec(p)
  <2>1. f.cg \in DOMAIN p /\ IsProgram(p)
    BY TopCall DEF CallInv
  <2>2. At(f, b) \in Seq(InstRec(p))
    BY <1>1, <2>1, ProgramFacts DEF At
  <2>. QED BY <1>1, <2>2
<1>. HIDE DEF sel
<1>3. /\ DOMAIN c = BlockFields /\ c.bb = b.bb /\ c.j = b.j /\ c.prev = b.prev /\ c.cur = b.cur
      /\ c.how = b.how /\ c.todo = b.todo /\ c.sel = b.sel /\ c.bodies = b.bodies
      /\ c.nth \in Nat \ {0} /\ c.case \in Nat \ {0}
      /\ c.nth = 1 \/ c.nth <= Len(Dones(sel, c.case))
  BY <1>1, <1>2, NextCaseFacts
<1>. HIDE DEF c
<1>4. BlockInv(p, G, f, c)
  <2>1. c.how = "go" => \A i \in DOMAIN c.todo : p[c.todo[i]].kind # "cancel"
    BY <1>1, <1>3
  <2>2. In(G, c.prev, f.tid) /\ c.todo \in Seq(DOMAIN p) /\ ~(c.how = "none" /\ c.sel = NoNode)
    BY <1>1, <1>3
  <2>. QED BY <1>3, <2>1, <2>2, MoveBlock
<1>5. CallInv(p, G, F) /\ F.tid = f.tid /\ F.cg = f.cg /\ F.bbs # <<>> /\ Last(F.bbs) = c
  BY <1>4, WithBlockInv
<1>6. SetCall(F)
  BY DEF c, sel
<1>. HIDE DEF F
<1>7. CaseInv(F)
  BY <1>3, <1>5 DEF CaseInv, At, sel
<1>. QED BY <1>5, <1>6, <1>7, CallStep

LEMMA BlockEndStep == ASSUME Live, BlockEnd PROVE Kept'
<1>. DEFINE G == Mark(g, h, B)
<1>1. /\ h.bbs # <<>> /\ p' = p /\ wg_pts' = wg_pts /\ contexts' = contexts /\ g' = G
  BY DEF BlockEnd, InBlock
<1>2. Typed'
  BY <1>1 DEF Live, Typed
<1>3. /\ CallInv(p, g, h) /\ h.bb \in Nat \ {0} /\ DOMAIN h = CallFields /\ GraphInv(g) /\ IsSeq(h.bbs)
      /\ h.bodies \in Seq(DOMAIN blocks) /\ h.select_node_id \in Nat /\ In(g, h.prev, h.tid)
      /\ {h.loop_name, h.for_loop_name, h.roc_name} \subseteq LoopName
  BY TopCall DEF CallInv, CallFields, blocks, Live
<1>4. /\ Len(h.bbs) \in Nat \ {0} /\ DOMAIN h.bbs = 1 .. Len(h.bbs) /\ In(g, B.prev, h.tid)
  BY <1>1, TopBlock
<1>5. GraphInv(G) /\ Grows(g, G)
  <2>1. B.prev \in DOMAIN g.id2node
    BY <1>4 DEF In
  <2>. QED BY <1>3, <2>1, MarkInv
<1>. HIDE DEF G
<1>6. CallInv(p, G, h) /\ In(G, B.prev, h.tid) /\ In(G, h.prev, h.tid)
  BY <1>3, <1>4, <1>5, CallKept, InKept DEF Grows
<1>7. CASE Len(h.bbs) = 1
  <2>. DEFINE f == [h EXCEPT !.prev = B.prev, !.bbs = <<>>]
  <2>1. SetCall(f)
    BY <1>7 DEF BlockEnd
  <2>2. /\ DOMAIN f = CallFields /\ f.cg = h.cg /\ f.tid = h.tid /\ f.prev = B.prev /\ f.bbs = <<>>
        /\ f.bodies = h.bodies /\ f.select_node_id = h.select_node_id /\ f.defer_unlocks = h.defer_unlocks
        /\ f.defer_closes = h.defer_closes /\ f.defer_calls = h.defer_calls
        /\ f.loop_name = h.loop_name /\ f.for_loop_name = h.for_loop_name /\ f.roc_name = h.roc_name
        /\ f.bb = h.bb
    BY <1>3 DEF CallFields
  <2>. HIDE DEF f
  <2>3. IsSeq(f.bbs) /\ DOMAIN f.bbs = {}
    BY <2>2, NoBlocks
  <2>4. CallInv(p, G, f)
    BY <1>3, <1>6, <2>2, <2>3, MoveCall DEF blocks
  <2>5. Settled(f)
    BY <2>2 DEF Settled
  <2>. QED BY <1>1, <1>2, <1>5, <2>1, <2>2, <2>4, <2>5, CallStep
<1>8. CASE Len(h.bbs) # 1
  <2>. DEFINE outer == h.bbs[Len(h.bbs) - 1]
              s == Front(h.bbs)
              skips == h.skips \cup outer.body.all
              f == [h EXCEPT !.bbs = s, !.skips = skips]
  <2>1. SetCall(WithBlock(f, NextCase(outer, blocks[outer.bb].instrs[outer.j])))
    BY <1>8 DEF BlockEnd
  <2>2. /\ IsSeq(s) /\ Len(s) = Len(h.bbs) - 1 /\ DOMAIN s = 1 .. Len(h.bbs) - 1 /\ s # <<>>
        /\ \A j \in DOMAIN s : s[j] = h.bbs[j]
    <3>1. /\ IsSeq(s) /\ Len(s) = Len(h.bbs) - 1 /\ DOMAIN s = 1 .. Len(h.bbs) - 1
          /\ \A j \in DOMAIN s : s[j] = h.bbs[j]
      BY <1>1, <1>3, SeqPop
    <3>. HIDE DEF s
    <3>2. s # <<>>
      <4>1. Len(s) # 0
        BY <1>4, <1>8, <3>1
      <4>. QED BY <3>1, <4>1, SeqFacts
    <3>. QED BY <3>1, <3>2
  <2>3. Len(h.bbs) - 1 \in DOMAIN s /\ Len(h.bbs) - 1 \in DOMAIN h.bbs
    <3>. HIDE DEF s
    <3>. QED BY <1>4, <1>8, <2>2
  <2>4. BlockInv(p, G, h, outer) /\ outer.sel # NoNode
    <3>1. Len(h.bbs) - 1 < Len(h.bbs)
      BY <1>4
    <3>. HIDE DEF s
    <3>. QED BY <1>6, <2>3, <3>1 DEF CallInv
  <2>. HIDE DEF outer, s, skips
  <2>5. /\ DOMAIN f = CallFields /\ f.cg = h.cg /\ f.tid = h.tid /\ f.prev = h.prev /\ f.bbs = s
        /\ f.bodies = h.bodies /\ f.select_node_id = h.select_node_id /\ f.defer_unlocks = h.defer_unlocks
        /\ f.defer_closes = h.defer_closes /\ f.defer_calls = h.defer_calls
        /\ f.loop_name = h.loop_name /\ f.for_loop_name = h.for_loop_name /\ f.roc_name = h.roc_name
        /\ f.bb = h.bb
    BY <1>3 DEF CallFields
  <2>. HIDE DEF f
  <2>6. ASSUME NEW i \in DOMAIN s
        PROVE  BlockInv(p, G, f, s[i]) /\ (i < Len(s) => s[i].sel # NoNode)
    <3>1. s[i] = h.bbs[i] /\ i \in DOMAIN h.bbs /\ (i < Len(s) => i < Len(h.bbs))
      BY <1>4, <2>2
    <3>2. BlockInv(p, G, h, s[i]) /\ (i < Len(s) => s[i].sel # NoNode)
      BY <1>6, <3>1 DEF CallInv
    <3>. QED BY <2>5, <3>2, SameOwner
  <2>7. CallInv(p, G, f)
    <3>1. IsSeq(f.bbs) /\ \A i \in DOMAIN f.bbs : BlockInv(p, G, f, f.bbs[i]) /\ (i < Len(f.bbs) => f.bbs[i].sel # NoNode)
      BY <2>2, <2>5, <2>6
    <3>2. /\ In(G, f.prev, f.tid) /\ f.bb \in Nat \ {0} /\ f.bodies \in Seq(DOMAIN p[f.cg].blocks)
          /\ {f.loop_name, f.for_loop_name, f.roc_name} \subseteq LoopName /\ f.select_node_id \in Nat
      BY <1>3, <1>6, <2>5 DEF blocks
    <3>. QED BY <1>6, <2>5, <3>1, <3>2, MoveCall
  <2>8. BlockInv(p, G, f, outer)
    BY <2>4, <2>5, SameOwner
  <2>9. SetCall(WithBlock(f, NextCase(outer, At(f, outer)[outer.j])))
    <3>1. At(f, outer) = blocks[outer.bb].instrs
      BY <2>5 DEF At, blocks
    <3>. QED BY <2>1, <3>1 DEF f
  <2>10. f.tid = h.tid /\ f.cg = h.cg /\ f.bbs # <<>>
    BY <2>2, <2>5
  <2>. QED BY <1>1, <1>2, <1>5, <2>4, <2>7, <2>8, <2>9, <2>10, CaseStep
<1>. QED BY <1>7, <1>8

-----------------------------------------------------------------------------
(* Deferred calls.                                                           *)

\* Activation f is e with other deferred calls.
LEMMA DeferCall ==
  ASSUME NEW q, NEW G, NEW e, CallInv(q, G, e), NEW f, DOMAIN f = CallFields, f.cg = e.cg, f.tid = e.tid,
         f.prev = e.prev, f.bb = e.bb, f.bodies = e.bodies, f.bbs = e.bbs, f.select_node_id = e.select_node_id,
         f.loop_name = e.loop_name, f.for_loop_name = e.for_loop_name, f.roc_name = e.roc_name,
         f.defer_unlocks \in Seq(NodesOf(G, f.tid, {"NUnlock", "NRUnlock"})),
         f.defer_closes \in Seq(NodesOf(G, f.tid, {"NClose"})), f.defer_calls \in Seq(DOMAIN q)
  PROVE  CallInv(q, G, f)
<1>1. \A i \in DOMAIN f.bbs : BlockInv(q, G, f, f.bbs[i]) /\ (i < Len(f.bbs) => f.bbs[i].sel # NoNode)
  <2>. TAKE i \in DOMAIN f.bbs
  <2>1. BlockInv(q, G, e, f.bbs[i]) /\ (i < Len(f.bbs) => f.bbs[i].sel # NoNode)
    BY DEF CallInv
  <2>. QED BY <2>1 DEF BlockInv
<1>2. f.defer_unlocks \in Seq({n \in DOMAIN G.id2node : In(G, n, f.tid) /\ G.id2node[n].typId \in {"NUnlock", "NRUnlock"}})
  BY DEF NodesOf
<1>3. f.defer_closes \in Seq({n \in DOMAIN G.id2node : In(G, n, f.tid) /\ G.id2node[n].typId = "NClose"})
  <2>1. {n \in DOMAIN G.id2node : In(G, n, f.tid) /\ G.id2node[n].typId = "NClose"} = NodesOf(G, f.tid, {"NClose"})
    BY DEF NodesOf
  <2>. QED BY <2>1
<1>4. /\ f.cg \in DOMAIN q /\ f.tid \in DOMAIN G.roots
      /\ In(G, f.prev, f.tid)
      /\ f.bb \in Nat \ {0} /\ f.bodies \in Seq(DOMAIN q[f.cg].blocks)
      /\ {f.loop_name, f.for_loop_name, f.roc_name} \subseteq LoopName
      /\ f.select_node_id \in Nat /\ IsSeq(f.bbs)
  BY DEF CallInv
<1>. QED BY <1>1, <1>2, <1>3, <1>4 DEF CallInv, CallFields

LEMMA DeferLists ==
  ASSUME NEW q, NEW G, NEW f, CallInv(q, G, f)
  PROVE  /\ f.defer_unlocks \in Seq(NodesOf(G, f.tid, {"NUnlock", "NRUnlock"}))
         /\ f.defer_closes \in Seq(NodesOf(G, f.tid, {"NClose"})) /\ f.defer_calls \in Seq(DOMAIN q)
<1>1. {n \in DOMAIN G.id2node : In(G, n, f.tid) /\ G.id2node[n].typId = "NClose"} = NodesOf(G, f.tid, {"NClose"})
  BY DEF NodesOf
<1>2. {n \in DOMAIN G.id2node : In(G, n, f.tid) /\ G.id2node[n].typId \in {"NUnlock", "NRUnlock"}}
        = NodesOf(G, f.tid, {"NUnlock", "NRUnlock"})
  BY DEF NodesOf
<1>. QED BY <1>1, <1>2 DEF CallInv

LEMMA DeferNodeBare ==
  ASSUME Live, AtInst, NEW op \in {"Unlock", "RUnlock", "close"}
  PROVE  LET nd == DeferNode(op)
         IN  Bare(nd) /\ nd.gid = h.tid /\ nd.typId = NodeOf[op] /\ nd.typId # "NExit"
<1>. DEFINE base == NewNode(NodeOf[op], h.tid, h.cg)
            x == op # "close"
<1>1. Bare(base) /\ base.gid = h.tid /\ base.typId = NodeOf[op] /\ NodeOf[op] # "NExit"
  <2>1. NodeOf[op] \in BareTypes \ {"NExit"}
    BY DEF NodeOf, BareTypes, TypeOfNode, CaseTypes
  <2>2. h.cg \in DOMAIN p /\ h.tid \in Nat /\ p \in Programs
    BY TopCall DEF Live
  <2>. QED BY <2>1, <2>2, NewBare
<1>2. DeferNode(op) = [base EXCEPT !.pts = inst.on, !.from_defer = x] /\ x \in BOOLEAN
  BY DEF DeferNode
<1>3. inst.on \in Seq(Obj)
  BY InstFacts
<1>. HIDE DEF base, x
<1>. QED BY <1>1, <1>2, <1>3 DEF Bare, NodeRec

LEMMA DeferStep == ASSUME Live, Defer PROVE Kept'
<1>. DEFINE n == ID(g)
            Made(op) == Loose(g, DeferNode(op))
<1>1. AtInst /\ p' = p
  BY DEF Defer
<1>2. /\ CallInv(p, g, h) /\ DOMAIN h = CallFields /\ GraphInv(g) /\ h.bbs # <<>>
      /\ DOMAIN B = BlockFields /\ In(g, B.prev, h.tid) /\ inst.on \in Seq(Obj)
      /\ inst.callees \in Seq(DOMAIN p)
  BY <1>1, AtInstFacts, InstFacts DEF Live
<1>3. ASSUME NEW op \in {"Unlock", "RUnlock", "close"}
      PROVE  /\ GraphInv(Made(op)) /\ Grows(g, Made(op))
             /\ n \in NodesOf(Made(op), h.tid, {NodeOf[op]})
             /\ CallInv(p, Made(op), h) /\ In(Made(op), B.prev, h.tid)
  <2>. DEFINE nd == DeferNode(op)
              G == Loose(g, nd)
  <2>1. Bare(nd) /\ nd.gid = h.tid /\ nd.typId = NodeOf[op] /\ nd.typId # "NExit"
    BY <1>1, DeferNodeBare
  <2>. HIDE DEF nd
  <2>2. Fresh(g, nd) /\ OneExitOf(g, nd)
    <3>1. h.tid \in DOMAIN g.roots
      BY TopCall
    <3>. QED BY <1>2, <2>1, <3>1, BareFresh DEF OneExitOf
  <2>3. One(g, G, nd)
    BY <1>2, <2>2, LooseInv
  <2>. HIDE DEF G
  <2>4. GraphInv(G) /\ Grows(g, G) /\ n \in NodesOf(G, h.tid, {NodeOf[op]})
    BY <2>1, <2>3 DEF One, NodesOf, In
  <2>5. CallInv(p, G, h) /\ In(G, B.prev, h.tid)
    BY <1>2, <2>4, CallKept, InKept DEF Grows
  <2>. QED BY <2>4, <2>5 DEF G, nd
<1>. HIDE DEF Made, n
<1>4. CASE inst.op \in {"defer Unlock", "defer RUnlock"}
  <2>. DEFINE op == IF inst.op = "defer Unlock" THEN "Unlock" ELSE "RUnlock"
              G == Made(op)
              s == Append(h.defer_unlocks, n)
              f == [h EXCEPT !.defer_unlocks = s]
  <2>1. Over(f, B, G) /\ wg_pts' = wg_pts
    BY <1>4 DEF Defer, Made, n, Loose
  <2>2. op \in {"Unlock", "RUnlock", "close"} /\ NodeOf[op] \in {"NUnlock", "NRUnlock"}
    BY DEF NodeOf
  <2>. HIDE DEF op
  <2>3. /\ GraphInv(G) /\ Grows(g, G) /\ n \in NodesOf(G, h.tid, {NodeOf[op]})
        /\ CallInv(p, G, h) /\ In(G, B.prev, h.tid)
    BY <1>3, <2>2
  <2>. HIDE DEF G
  <2>4. s \in Seq(NodesOf(G, h.tid, {"NUnlock", "NRUnlock"}))
    <3>1. n \in NodesOf(G, h.tid, {"NUnlock", "NRUnlock"})
      BY <2>2, <2>3 DEF NodesOf
    <3>2. h.defer_unlocks \in Seq(NodesOf(G, h.tid, {"NUnlock", "NRUnlock"}))
      BY <2>3, DeferLists
    <3>. QED BY <3>1, <3>2, AppendProperties
  <2>. HIDE DEF s
  <2>5. /\ DOMAIN f = CallFields /\ f.cg = h.cg /\ f.tid = h.tid /\ f.prev = h.prev /\ f.bbs = h.bbs
        /\ f.bodies = h.bodies /\ f.select_node_id = h.select_node_id /\ f.defer_unlocks = s
        /\ f.defer_closes = h.defer_closes /\ f.defer_calls = h.defer_calls
        /\ f.loop_name = h.loop_name /\ f.for_loop_name = h.for_loop_name /\ f.roc_name = h.roc_name
        /\ f.bb = h.bb
    BY <1>2 DEF CallFields
  <2>. HIDE DEF f
  <2>6. CallInv(p, G, f)
    BY <2>3, <2>4, <2>5, DeferLists, DeferCall
  <2>7. Typed'
    BY <2>1 DEF Live, Typed
  <2>. QED BY <1>1, <1>2, <2>1, <2>3, <2>5, <2>6, <2>7, MoveOver
<1>5. CASE inst.op = "defer close"
  <2>. DEFINE G == Made("close")
              s == Append(h.defer_closes, n)
              f == [h EXCEPT !.defer_closes = s]
  <2>1. Over(f, B, G) /\ wg_pts' = wg_pts
    BY <1>5 DEF Defer, Made, n, Loose
  <2>2. NodeOf["close"] = "NClose"
    BY DEF NodeOf
  <2>3. /\ GraphInv(G) /\ Grows(g, G) /\ n \in NodesOf(G, h.tid, {"NClose"})
        /\ CallInv(p, G, h) /\ In(G, B.prev, h.tid)
    BY <1>3, <2>2
  <2>. HIDE DEF G
  <2>4. s \in Seq(NodesOf(G, h.tid, {"NClose"}))
    <3>1. h.defer_closes \in Seq(NodesOf(G, h.tid, {"NClose"}))
      BY <2>3, DeferLists
    <3>. QED BY <2>3, <3>1, AppendProperties
  <2>. HIDE DEF s
  <2>5. /\ DOMAIN f = CallFields /\ f.cg = h.cg /\ f.tid = h.tid /\ f.prev = h.prev /\ f.bbs = h.bbs
        /\ f.bodies = h.bodies /\ f.select_node_id = h.select_node_id /\ f.defer_unlocks = h.defer_unlocks
        /\ f.defer_closes = s /\ f.defer_calls = h.defer_calls
        /\ f.loop_name = h.loop_name /\ f.for_loop_name = h.for_loop_name /\ f.roc_name = h.roc_name
        /\ f.bb = h.bb
    BY <1>2 DEF CallFields
  <2>. HIDE DEF f
  <2>6. CallInv(p, G, f)
    BY <2>3, <2>4, <2>5, DeferLists, DeferCall
  <2>7. Typed'
    BY <2>1 DEF Live, Typed
  <2>. QED BY <1>1, <1>2, <2>1, <2>3, <2>5, <2>6, <2>7, MoveOver
<1>6. CASE inst.op = "defer WGDone"
  <2>1. Over(h, B, g) /\ wg_pts' = With(wg_pts, h.tid, inst.on)
    BY <1>6 DEF Defer
  <2>2. Typed'
    <3>1. Typed
      BY DEF Live
    <3>2. \A t \in DOMAIN wg_pts' : wg_pts'[t] \in Seq(Obj)
      BY <1>2, <2>1, <3>1 DEF Typed, With
    <3>. QED BY <3>2 DEF Typed
  <2>. QED BY <1>1, <2>1, <2>2, Still
<1>7. CASE inst.op = "defer call"
  <2>. DEFINE s == inst.callees \o h.defer_calls
              f == [h EXCEPT !.defer_calls = s]
  <2>1. Over(f, B, g) /\ wg_pts' = wg_pts
    BY <1>7 DEF Defer
  <2>2. s \in Seq(DOMAIN p)
    <3>1. h.defer_calls \in Seq(DOMAIN p)
      BY <1>2, DeferLists
    <3>. QED BY <1>2, <3>1, ConcatProperties
  <2>. HIDE DEF s
  <2>3. /\ DOMAIN f = CallFields /\ f.cg = h.cg /\ f.tid = h.tid /\ f.prev = h.prev /\ f.bbs = h.bbs
        /\ f.bodies = h.bodies /\ f.select_node_id = h.select_node_id /\ f.defer_unlocks = h.defer_unlocks
        /\ f.defer_closes = h.defer_closes /\ f.defer_calls = s
        /\ f.loop_name = h.loop_name /\ f.for_loop_name = h.for_loop_name /\ f.roc_name = h.roc_name
        /\ f.bb = h.bb
    BY <1>2 DEF CallFields
  <2>. HIDE DEF f
  <2>4. CallInv(p, g, f)
    BY <1>2, <2>2, <2>3, DeferLists, DeferCall
  <2>5. Typed'
    BY <2>1 DEF Live, Typed
  <2>6. GraphInv(g) /\ Grows(g, g)
    BY <1>2, GrowsRefl
  <2>. QED BY <1>1, <1>2, <2>1, <2>3, <2>4, <2>5, <2>6, MoveOver
<1>8. inst.op \in {"defer Unlock", "defer RUnlock", "defer close", "defer WGDone", "defer call"}
  BY DEF Defer
<1>. QED BY <1>4, <1>5, <1>6, <1>7, <1>8

LEMMA RunDefersStep == ASSUME Live, RunDefers PROVE Kept'
<1>. DEFINE S == {"NUnlock", "NRUnlock", "NClose"}
            st == [G |-> g, prev |-> B.prev]
            closed == copyDeferNodes(st, h.defer_closes)
            copied == copyDeferNodes(closed, h.defer_unlocks)
            c == [B EXCEPT !.prev = copied.prev, !.how = "defer", !.todo = h.defer_calls]
<1>1. AtInst /\ p' = p /\ wg_pts' = wg_pts /\ g' = copied.G /\ SetCall(WithBlock(h, c))
  BY DEF RunDefers
<1>2. Typed'
  BY <1>1 DEF Live, Typed
<1>3. /\ CallInv(p, g, h) /\ GraphInv(g) /\ h.bbs # <<>> /\ DOMAIN B = BlockFields /\ In(g, B.prev, h.tid)
      /\ BlockInv(p, g, h, B) /\ B.j \in DOMAIN At(h, B) /\ B.sel = NoNode
  BY <1>1, AtInstFacts, InstFacts DEF Live
<1>4. /\ h.defer_unlocks \in Seq(NodesOf(g, h.tid, S)) /\ h.defer_closes \in Seq(NodesOf(g, h.tid, S))
      /\ h.defer_calls \in Seq(DOMAIN p)
  <2>1. /\ NodesOf(g, h.tid, {"NUnlock", "NRUnlock"}) \subseteq NodesOf(g, h.tid, S)
        /\ NodesOf(g, h.tid, {"NClose"}) \subseteq NodesOf(g, h.tid, S)
    BY DEF NodesOf
  <2>. QED BY <1>3, <2>1, DeferLists, SeqMonotonic
<1>5. GraphInv(closed.G) /\ Grows(g, closed.G) /\ In(closed.G, closed.prev, h.tid)
  <2>1. st.G = g /\ st.prev = B.prev
    OBVIOUS
  <2>. HIDE DEF st
  <2>. QED BY <1>3, <1>4, <2>1, CopyInv
<1>. HIDE DEF closed
<1>6. GraphInv(copied.G) /\ Grows(closed.G, copied.G) /\ In(copied.G, copied.prev, h.tid)
  <2>1. h.defer_unlocks \in Seq(NodesOf(closed.G, h.tid, S))
    BY <1>4, <1>5, NodesKept DEF Grows
  <2>. QED BY <1>5, <2>1, CopyInv
<1>. HIDE DEF copied
<1>7. Grows(g, copied.G)
  BY <1>5, <1>6, GrowsTrans
<1>8. BlockInv(p, copied.G, h, B) /\ CallInv(p, copied.G, h)
  BY <1>3, <1>7, BlockKept, CallKept DEF Grows
<1>9. /\ DOMAIN c = BlockFields /\ c.bb = B.bb /\ c.j = B.j /\ c.cur = B.cur /\ c.sel = NoNode /\ c.bodies = B.bodies
      /\ c.case = B.case /\ c.nth = B.nth /\ c.prev = copied.prev /\ c.how = "defer" /\ c.todo = h.defer_calls
  BY <1>3 DEF BlockFields
<1>. HIDE DEF c
<1>10. BlockInv(p, copied.G, h, c)
  <2>1. c.how \in CallOps \cup {"defer"} /\ c.how \notin CallOps /\ c.how # "go"
    BY <1>9, Zenon DEF CallOps
  <2>2. PICK s : s = p[h.cg].blocks[B.bb].instrs
    OBVIOUS
  <2>3. B.j \in DOMAIN s
    BY <1>3, <2>2 DEF At
  <2>. QED BY <1>4, <1>6, <1>8, <1>9, <2>1, <2>2, <2>3, BusyBlock
<1>. QED BY <1>1, <1>2, <1>3, <1>6, <1>7, <1>8, <1>9, <1>10, BlockStep

-----------------------------------------------------------------------------
(* Calls.                                                                    *)

\* A go statement calls no cancel function, a Do comes after no AfterFunc.
LEMMA OwnInst ==
  ASSUME Live, NEW b, BlockInv(p, g, h, b), NEW s, s = At(h, b), b.j \in DOMAIN s
  PROVE  /\ s[b.j].op = "go" => \A i \in DOMAIN s[b.j].callees : p[s[b.j].callees[i]].kind # "cancel"
         /\ s[b.j].op = "Do" => \A k \in DOMAIN s : k <= b.j => s[k].op # "AfterFunc"
<1>1. h.cg \in DOMAIN p /\ b.bb \in DOMAIN p[h.cg].blocks
  BY TopCall DEF BlockInv
<1>2. /\ s[b.j].op = "go" => \A i \in DOMAIN s[b.j].callees : p[s[b.j].callees[i]].kind # "cancel"
      /\ s[b.j].op = "Do" => \A k \in 1 .. b.j - 1 : s[k].op # "AfterFunc"
  BY <1>1 DEF Live, OwnNodes, At
<1>3. s \in Seq(InstRec(p))
  <2>1. IsProgram(p)
    BY TopCall
  <2>. QED BY <1>1, <2>1, ProgramFacts DEF At
<1>4. ASSUME s[b.j].op = "Do", NEW k \in DOMAIN s, k <= b.j PROVE s[k].op # "AfterFunc"
  <2>1. k \in 1 .. b.j - 1 \/ k = b.j
    <3>1. DOMAIN s = 1 .. Len(s) /\ Len(s) \in Nat
      BY <1>3, LenProperties
    <3>. QED BY <1>4, <3>1
  <2>. QED BY <1>2, <1>4, <2>1
<1>. QED BY <1>2, <1>4

LEMMA StartCallStep == ASSUME Live, StartCall PROVE Kept'
<1>. DEFINE c == [B EXCEPT !.how = inst.op, !.todo = inst.callees]
            s == At(h, B)
<1>1. AtInst /\ p' = p /\ g' = g /\ wg_pts' = wg_pts /\ inst.op \in CallOps /\ SetCall(WithBlock(h, c))
  BY DEF StartCall
<1>2. Typed'
  BY <1>1 DEF Live, Typed
<1>3. /\ CallInv(p, g, h) /\ GraphInv(g) /\ h.bbs # <<>> /\ DOMAIN B = BlockFields /\ In(g, B.prev, h.tid)
      /\ BlockInv(p, g, h, B) /\ B.j \in DOMAIN s /\ B.sel = NoNode /\ inst.callees \in Seq(DOMAIN p)
      /\ inst = s[B.j] /\ s = p[h.cg].blocks[B.bb].instrs
  BY <1>1, AtInstFacts, InstFacts DEF Live, At
<1>. HIDE DEF s
<1>4. /\ DOMAIN c = BlockFields /\ c.bb = B.bb /\ c.j = B.j /\ c.cur = B.cur /\ c.sel = NoNode /\ c.bodies = B.bodies
      /\ c.case = B.case /\ c.nth = B.nth /\ c.prev = B.prev /\ c.how = inst.op /\ c.todo = inst.callees
  BY <1>3 DEF BlockFields
<1>. HIDE DEF c
<1>5. c.how = "go" => \A i \in DOMAIN c.todo : p[c.todo[i]].kind # "cancel"
  BY <1>3, <1>4, OwnInst DEF s
<1>6. c.how \in CallOps \cup {"defer"} /\ (c.how \in CallOps => s[B.j].op = c.how) /\ In(g, c.prev, h.tid)
      /\ c.todo \in Seq(DOMAIN p)
  BY <1>1, <1>3, <1>4
<1>7. BlockInv(p, g, h, c)
  BY <1>3, <1>4, <1>5, <1>6, BusyBlock
<1>8. GraphInv(g) /\ Grows(g, g)
  BY <1>3, GrowsRefl
<1>. QED BY <1>1, <1>2, <1>3, <1>4, <1>7, <1>8, BlockStep

LEMMA FollowingFacts ==
  ASSUME Live, Following
  PROVE  /\ h.bbs # <<>> /\ B.how # "none" /\ B.sel = NoNode /\ B.todo \in Seq(DOMAIN p) /\ B.todo # <<>>
         /\ callee \in DOMAIN p /\ BlockInv(p, g, h, B) /\ CallInv(p, g, h) /\ DOMAIN B = BlockFields
         /\ B.j \in DOMAIN At(h, B) /\ inst = At(h, B)[B.j] /\ inst \in InstRec(p) /\ inst.on \in Seq(Obj)
         /\ B.nth \in Nat \ {0} /\ B.case \in Nat \ {0} /\ In(g, B.prev, h.tid) /\ Tail(B.todo) \in Seq(DOMAIN p)
         /\ B.how = "go" => p[callee].kind # "cancel" /\ \A i \in DOMAIN Tail(B.todo) : p[Tail(B.todo)[i]].kind # "cancel"
<1>1. h.bbs # <<>> /\ B.how # "none" /\ B.todo # <<>>
  BY DEF Following, InBlock
<1>2. BlockInv(p, g, h, B) /\ CallInv(p, g, h)
  BY <1>1, TopBlock, TopCall
<1>3. /\ B.sel = NoNode /\ B.todo \in Seq(DOMAIN p) /\ DOMAIN B = BlockFields /\ B.nth \in Nat \ {0}
      /\ B.case \in Nat \ {0} /\ In(g, B.prev, h.tid) /\ B.j \in DOMAIN At(h, B)
      /\ B.how = "go" => \A i \in DOMAIN B.todo : p[B.todo[i]].kind # "cancel"
  BY <1>1, <1>2 DEF BlockInv, BlockFields, At
<1>4. inst = At(h, B)[B.j] /\ inst \in InstRec(p)
  <2>1. At(h, B) = blocks[B.bb].instrs
    BY DEF At, blocks
  <2>. QED BY <1>1, <1>3, <2>1, TopBlock DEF inst
<1>5. inst.on \in Seq(Obj)
  BY <1>4 DEF InstRec
<1>6. /\ callee = B.todo[1] /\ 1 \in DOMAIN B.todo /\ Tail(B.todo) \in Seq(DOMAIN p)
      /\ \A i \in DOMAIN Tail(B.todo) : i + 1 \in DOMAIN B.todo /\ Tail(B.todo)[i] = B.todo[i + 1]
  <2>. DEFINE t == B.todo
  <2>1. t \in Seq(DOMAIN p) /\ t # <<>>
    BY <1>1, <1>3
  <2>. HIDE DEF t
  <2>2. Len(t) \in Nat \ {0} /\ DOMAIN t = 1 .. Len(t)
    BY <2>1, LenProperties, EmptySeq
  <2>3. Head(t) = t[1] /\ Tail(t) \in Seq(DOMAIN p) /\ Len(Tail(t)) = Len(t) - 1
        /\ \A i \in 1 .. Len(Tail(t)) : Tail(t)[i] = t[i + 1]
    BY <2>1, HeadTailProperties
  <2>4. DOMAIN Tail(t) = 1 .. Len(t) - 1
    BY <2>3, LenProperties
  <2>. QED BY <2>2, <2>3, <2>4 DEF t, callee
<1>7. callee \in DOMAIN p
  BY <1>3, <1>6
<1>. QED BY <1>1, <1>2, <1>3, <1>4, <1>5, <1>6, <1>7

LEMMA DroppedFacts ==
  ASSUME Live, Following
  PROVE  /\ DOMAIN Dropped = BlockFields /\ Dropped.bb = B.bb /\ Dropped.j = B.j /\ Dropped.how = B.how
         /\ Dropped.sel = B.sel /\ Dropped.bodies = B.bodies /\ Dropped.case = B.case
         /\ Dropped.prev = B.prev /\ Dropped.cur = B.cur /\ Dropped.todo = Tail(B.todo)
         /\ Dropped.nth \in Nat \ {0}
<1>1. DOMAIN B = BlockFields /\ B.nth \in Nat \ {0}
  BY FollowingFacts
<1>2. Dropped = [B EXCEPT !.todo = Tail(B.todo), !.nth = B.nth + 1]
  BY DEF Dropped
<1>3. B.nth + 1 \in Nat \ {0}
  BY <1>1
<1>. QED BY <1>1, <1>2, <1>3 DEF BlockFields

LEMMA SkipCalleeStep == ASSUME Live, SkipCallee PROVE Kept'
<1>. DEFINE c == IF B.how = "go" THEN [B EXCEPT !.todo = <<>>] ELSE Dropped
<1>1. Following /\ p' = p /\ g' = g /\ wg_pts' = wg_pts /\ SetCall(WithBlock(h, c))
  BY DEF SkipCallee
<1>2. Typed'
  BY <1>1 DEF Live, Typed
<1>3. /\ h.bbs # <<>> /\ B.how # "none" /\ B.sel = NoNode /\ DOMAIN B = BlockFields
      /\ BlockInv(p, g, h, B) /\ CallInv(p, g, h) /\ Tail(B.todo) \in Seq(DOMAIN p)
      /\ B.nth \in Nat \ {0} /\ B.case \in Nat \ {0} /\ In(g, B.prev, h.tid)
  BY <1>1, FollowingFacts
<1>4. /\ DOMAIN c = BlockFields /\ c.bb = B.bb /\ c.j = B.j /\ c.how = B.how
      /\ c.sel = B.sel /\ c.bodies = B.bodies /\ c.case = B.case
      /\ c.prev = B.prev /\ c.cur = B.cur /\ c.nth \in Nat \ {0}
      /\ c.todo \in Seq(DOMAIN p) /\ (c.how = "go" => DOMAIN c.todo = {})
  <2>1. CASE B.how = "go"
    <3>1. c = [B EXCEPT !.todo = <<>>]
      BY <2>1
    <3>2. <<>> \in Seq(DOMAIN p) /\ DOMAIN <<>> = {}
      BY EmptySeq
    <3>. HIDE DEF c
    <3>. QED BY <1>3, <3>1, <3>2 DEF BlockFields
  <2>2. CASE B.how # "go"
    <3>1. c = Dropped
      BY <2>2
    <3>. HIDE DEF c
    <3>. QED BY <1>1, <1>3, <2>2, <3>1, DroppedFacts
  <2>. QED BY <2>1, <2>2
<1>. HIDE DEF c
<1>5. BlockInv(p, g, h, c)
  BY <1>3, <1>4, MoveBlock
<1>6. GraphInv(g) /\ Grows(g, g)
  BY GrowsRefl DEF Live
<1>. QED BY <1>1, <1>2, <1>3, <1>4, <1>5, <1>6, BlockStep

LEMMA CancelStep == ASSUME Live, Cancel PROVE Kept'
<1>. DEFINE made == checkCtxCancel(g, h.tid, h.cg, B.prev, inst.on)
            m == IF Known(inst.on) = <<>> THEN B.cur ELSE made.prev
            c == [Dropped EXCEPT !.cur = m]
<1>1. Following /\ p' = p /\ g' = made.G /\ wg_pts' = wg_pts
  BY DEF Cancel
<1>2. Typed'
  BY <1>1 DEF Live, Typed
<1>3. /\ h.bbs # <<>> /\ B.how # "none" /\ B.sel = NoNode /\ inst.on \in Seq(Obj)
      /\ BlockInv(p, g, h, B) /\ CallInv(p, g, h) /\ Tail(B.todo) \in Seq(DOMAIN p)
      /\ B.nth \in Nat \ {0} /\ B.case \in Nat \ {0} /\ In(g, B.prev, h.tid)
      /\ B.how = "go" => \A i \in DOMAIN Tail(B.todo) : p[Tail(B.todo)[i]].kind # "cancel"
  BY <1>1, FollowingFacts
<1>4. /\ DOMAIN Dropped = BlockFields /\ Dropped.bb = B.bb /\ Dropped.j = B.j /\ Dropped.how = B.how
      /\ Dropped.sel = B.sel /\ Dropped.bodies = B.bodies /\ Dropped.case = B.case
      /\ Dropped.prev = B.prev /\ Dropped.cur = B.cur /\ Dropped.todo = Tail(B.todo)
      /\ Dropped.nth \in Nat \ {0}
  BY <1>1, DroppedFacts
<1>5. SetCall(WithBlock(h, c))
  <2>1. SetCall(WithBlock(h, [Dropped EXCEPT !.cur = IF Known(inst.on) = <<>> THEN @ ELSE made.prev]))
    BY DEF Cancel
  <2>2. [Dropped EXCEPT !.cur = IF Known(inst.on) = <<>> THEN @ ELSE made.prev] = c
    <3>. HIDE DEF made
    <3>. QED BY <1>4
  <2>. HIDE DEF c, made
  <2>. QED BY <2>1, <2>2
<1>6. GraphInv(made.G) /\ Grows(g, made.G) /\ In(made.G, made.prev, h.tid)
  <2>1. p \in Programs /\ h.cg \in DOMAIN p /\ GraphInv(g)
    BY TopCall DEF Live
  <2>. QED BY <1>3, <2>1, CancelInv
<1>. HIDE DEF made
<1>7. m = B.cur \/ In(made.G, m, h.tid)
  BY <1>6
<1>. HIDE DEF m
<1>8. /\ DOMAIN c = BlockFields /\ c.bb = B.bb /\ c.j = B.j /\ c.how = B.how
      /\ c.sel = B.sel /\ c.bodies = B.bodies /\ c.case = B.case
      /\ c.prev = B.prev /\ c.cur = m /\ c.nth \in Nat \ {0} /\ c.todo = Tail(B.todo)
  BY <1>4 DEF BlockFields
<1>. HIDE DEF c
<1>9. BlockInv(p, made.G, h, B) /\ CallInv(p, made.G, h) /\ In(made.G, B.prev, h.tid)
  BY <1>3, <1>6, BlockKept, CallKept, InKept DEF Grows
<1>10. BlockInv(p, made.G, h, c)
  BY <1>3, <1>7, <1>8, <1>9, MoveBlock
<1>. QED BY <1>1, <1>2, <1>3, <1>5, <1>6, <1>8, <1>9, <1>10, BlockStep

LEMMA EndCallStep == ASSUME Live, EndCall PROVE Kept'
<1>. DEFINE c == IF B.how = "Do" THEN [B EXCEPT !.prev = B.cur] ELSE B
            s == At(h, B)
<1>1. h.bbs # <<>> /\ B.how # "none" /\ p' = p /\ wg_pts' = wg_pts /\ Over(h, c, g)
  BY DEF EndCall, InBlock
<1>2. Typed'
  BY <1>1 DEF Live, Typed
<1>3. BlockInv(p, g, h, B) /\ CallInv(p, g, h) /\ s \in Seq(InstRec(p))
  BY <1>1, TopBlock, TopCall DEF At, blocks
<1>4. /\ B.sel = NoNode /\ DOMAIN B = BlockFields /\ B.j \in DOMAIN s /\ In(g, B.prev, h.tid)
      /\ B.nth \in Nat \ {0} /\ B.case \in Nat \ {0} /\ B.todo \in Seq(DOMAIN p)
      /\ B.how = "go" => \A i \in DOMAIN B.todo : p[B.todo[i]].kind # "cancel"
  BY <1>1, <1>3 DEF BlockInv, BlockFields, At
<1>5. B.how = "Do" => In(g, B.cur, h.tid)
  <2>. SUFFICES ASSUME B.how = "Do" PROVE In(g, B.cur, h.tid)
    OBVIOUS
  <2>1. s[B.j].op = "Do"
    <3>1. B.how \in CallOps
      BY Zenon DEF CallOps
    <3>. QED BY <1>3, <3>1 DEF BlockInv, At
  <2>2. \A k \in DOMAIN s : k <= B.j => s[k].op # "AfterFunc"
    <3>. HIDE DEF s
    <3>. QED BY <1>3, <1>4, <2>1, OwnInst DEF s
  <2>. QED BY <1>3, <2>2 DEF BlockInv, At
<1>6. /\ DOMAIN c = BlockFields /\ c.bb = B.bb /\ c.j = B.j /\ c.how = B.how
      /\ c.sel = B.sel /\ c.bodies = B.bodies /\ c.case = B.case
      /\ c.cur = B.cur /\ c.nth = B.nth /\ c.todo = B.todo /\ In(g, c.prev, h.tid)
  <2>1. CASE B.how = "Do"
    <3>1. c = [B EXCEPT !.prev = B.cur]
      BY <2>1
    <3>. HIDE DEF c
    <3>. QED BY <1>4, <1>5, <2>1, <3>1 DEF BlockFields
  <2>2. CASE B.how # "Do"
    BY <1>4, <2>2
  <2>. QED BY <2>1, <2>2
<1>. HIDE DEF c, s
<1>7. BlockInv(p, g, h, c)
  BY <1>1, <1>3, <1>4, <1>6, MoveBlock
<1>8. GraphInv(g) /\ Grows(g, g)
  BY GrowsRefl DEF Live
<1>9. c.j \in DOMAIN At(h, c) /\ At(h, c) \in Seq(InstRec(p)) /\ c.sel = NoNode
  BY <1>3, <1>4, <1>6 DEF At, s
<1>. QED BY <1>1, <1>2, <1>3, <1>7, <1>8, <1>9, OverStep

-----------------------------------------------------------------------------
(* Select.                                                                   *)

\* Activation f is e, other blocks handled or at another select.
LEMMA SameCall ==
  ASSUME NEW q, NEW G, NEW e, CallInv(q, G, e),
         NEW f, DOMAIN f = CallFields, f.cg = e.cg, f.tid = e.tid, f.prev = e.prev, f.bbs = e.bbs,
         f.bodies = e.bodies, f.select_node_id \in Nat, f.defer_unlocks = e.defer_unlocks,
         f.defer_closes = e.defer_closes, f.defer_calls = e.defer_calls,
         f.loop_name = e.loop_name, f.for_loop_name = e.for_loop_name, f.roc_name = e.roc_name, f.bb = e.bb
  PROVE  CallInv(q, G, f)
<1>1. /\ In(G, f.prev, f.tid) /\ f.bb \in Nat \ {0} /\ f.bodies \in Seq(DOMAIN q[f.cg].blocks)
      /\ {f.loop_name, f.for_loop_name, f.roc_name} \subseteq LoopName /\ f.select_node_id \in Nat
      /\ IsSeq(f.bbs)
  BY DEF CallInv
<1>2. \A i \in DOMAIN f.bbs : BlockInv(q, G, f, f.bbs[i]) /\ (i < Len(f.bbs) => f.bbs[i].sel # NoNode)
  <2>. TAKE i \in DOMAIN f.bbs
  <2>1. BlockInv(q, G, e, f.bbs[i]) /\ (i < Len(f.bbs) => f.bbs[i].sel # NoNode)
    BY DEF CallInv
  <2>. QED BY <2>1 DEF BlockInv
<1>. QED BY <1>1, <1>2, MoveCall

LEMMA SelectStep == ASSUME Live, Select PROVE Kept'
<1>. DEFINE n == ID(g)
            bodies == getCaseBBs(blocks, B.bb, h.skips, inst.blocking)
            k == Len(bodies)
            states == Len(inst.states)
            size == IF k \in {0, states} /\ ~inst.blocking THEN states + 1
                    ELSE IF k = 0 THEN states ELSE k
            cs == [i \in 1 .. size |-> NoNode]
            base == NewNode("NSelect", h.tid, h.cg)
            nd == [base EXCEPT !.cases = cs]
            G == updateNodes(g, B.prev, nd)
            f == [h EXCEPT !.select_node_id = n]
            c == [B EXCEPT !.sel = n, !.cur = n, !.case = 1, !.bodies = bodies]
<1>1. AtInst /\ p' = p /\ wg_pts' = wg_pts /\ g' = G /\ SetCall(WithBlock(f, c))
  BY DEF Select
<1>2. Typed'
  BY <1>1 DEF Live, Typed
<1>3. /\ CallInv(p, g, h) /\ GraphInv(g) /\ h.bbs # <<>> /\ DOMAIN B = BlockFields /\ In(g, B.prev, h.tid)
      /\ BlockInv(p, g, h, B) /\ B.j \in DOMAIN At(h, B) /\ B.sel = NoNode /\ B.how = "none" /\ B.nth = 1
      /\ inst.states \in Seq(StateRec) /\ DOMAIN h = CallFields
  BY <1>1, AtInstFacts, InstFacts DEF Live
<1>4. /\ IsSeq(bodies) /\ k \in Nat /\ \A i \in DOMAIN bodies : bodies[i].start \in 0 .. Len(p[h.cg].blocks)
  <2>1. Linked(blocks) /\ B.bb \in DOMAIN blocks
    BY <1>3, TopCall, TopBlock
  <2>2. IsSeq(bodies) /\ \A i \in DOMAIN bodies : bodies[i].start \in 0 .. Len(blocks)
    BY <2>1, CaseBlocks
  <2>. HIDE DEF bodies
  <2>. QED BY <2>2, SeqFacts DEF blocks
<1>. HIDE DEF bodies
<1>5. cs \in Seq({NoNode}) /\ DOMAIN cs = 1 .. size /\ cs \in Seq(Int) /\ \A i \in DOMAIN cs : cs[i] = NoNode
  <2>1. size \in Nat
    BY <1>3, <1>4
  <2>. HIDE DEF size
  <2>2. NoNode \in {NoNode} /\ NoNode \in Int
    BY DEF NoNode
  <2>. QED BY <2>1, <2>2, IsASeq
<1>. HIDE DEF size, cs
<1>6. Fresh(g, nd) /\ OneExitOf(g, nd) /\ nd.gid = h.tid /\ nd.typId = "NSelect"
  <2>1. h.tid \in Nat /\ h.tid \in DOMAIN g.roots /\ h.cg \in DOMAIN p /\ p \in Programs
    BY TopCall DEF Live
  <2>2. Bare(base) /\ base.gid = h.tid /\ base.typId = "NSelect"
    BY <2>1, NewBare DEF BareTypes, TypeOfNode, CaseTypes
  <2>3. 0 \in DOMAIN g.id2node
    BY <1>3, GidType
  <2>. HIDE DEF base
  <2>4. /\ nd \in NodeRec /\ nd.gid = h.tid /\ nd.typId = "NSelect" /\ nd.kids = <<>> /\ nd.cases = cs
        /\ nd.case_sel = 0
    BY <1>5, <2>2 DEF Bare, NodeRec
  <2>. HIDE DEF nd
  <2>. QED BY <1>5, <2>1, <2>3, <2>4 DEF Fresh, OneExitOf, CaseTypes
<1>. HIDE DEF nd
<1>7. One(g, G, nd)
  BY <1>3, <1>6, UpdateNodesInv
<1>. HIDE DEF G
<1>8. GraphInv(G) /\ Grows(g, G) /\ In(G, n, h.tid) /\ G.id2node[n].typId = "NSelect"
  BY <1>6, <1>7 DEF One
<1>9. n \in Nat /\ n # NoNode
  <2>1. n \in Nat
    BY <1>8, GidType
  <2>. QED BY <2>1 DEF NoNode
<1>. HIDE DEF n
<1>10. BlockInv(p, G, h, B) /\ CallInv(p, G, h)
  BY <1>3, <1>8, BlockKept, CallKept DEF Grows
<1>11. CallInv(p, G, f) /\ f.cg = h.cg /\ f.tid = h.tid /\ f.bbs = h.bbs
  <2>1. DOMAIN f = CallFields /\ f.cg = h.cg /\ f.tid = h.tid /\ f.prev = h.prev /\ f.bbs = h.bbs
        /\ f.bodies = h.bodies /\ f.defer_unlocks = h.defer_unlocks
        /\ f.defer_closes = h.defer_closes /\ f.defer_calls = h.defer_calls
        /\ f.loop_name = h.loop_name /\ f.for_loop_name = h.for_loop_name /\ f.roc_name = h.roc_name
        /\ f.bb = h.bb /\ f.select_node_id = n
    BY <1>3 DEF CallFields
  <2>. HIDE DEF f
  <2>. QED BY <1>9, <1>10, <2>1, SameCall
<1>. HIDE DEF f
<1>12. /\ DOMAIN c = BlockFields /\ c.bb = B.bb /\ c.j = B.j /\ c.prev = B.prev /\ c.how = "none" /\ c.todo = B.todo
       /\ c.sel = n /\ c.cur = n /\ c.case = 1 /\ c.bodies = bodies /\ c.nth = 1
  BY <1>3 DEF BlockFields
<1>. HIDE DEF c
<1>13. BlockInv(p, G, f, c)
  <2>1. BlockInv(p, G, f, B)
    BY <1>10, <1>11 DEF BlockInv
  <2>2. c.case \in Nat \ {0} /\ c.nth \in Nat \ {0}
    BY <1>12
  <2>3. PICK s : s = p[f.cg].blocks[B.bb].instrs
    OBVIOUS
  <2>4. B.j \in DOMAIN s
    BY <1>3, <1>11, <2>3 DEF At
  <2>5. In(G, c.cur, f.tid) /\ In(G, c.sel, f.tid) /\ G.id2node[c.sel].typId = "NSelect" /\ c.sel # NoNode
    BY <1>8, <1>9, <1>11, <1>12
  <2>6. \A i \in DOMAIN c.bodies : c.bodies[i].start \in 0 .. Len(p[f.cg].blocks)
    BY <1>4, <1>11, <1>12
  <2>. QED BY <1>12, <2>1, <2>2, <2>3, <2>4, <2>5, <2>6, SelectBlock
<1>. QED BY <1>1, <1>2, <1>3, <1>8, <1>11, <1>12, <1>13, BlockStep

LEMMA AtSelect ==
  ASSUME Live, InBlock, B.sel # NoNode
  PROVE  /\ h.bbs # <<>> /\ BlockInv(p, g, h, B) /\ CallInv(p, g, h) /\ DOMAIN B = BlockFields /\ DOMAIN h = CallFields
         /\ B.how = "none" /\ B.j \in DOMAIN At(h, B) /\ inst = At(h, B)[B.j] /\ inst \in InstRec(p)
         /\ In(g, B.sel, h.tid) /\ g.id2node[B.sel].typId = "NSelect"
         /\ B.nth \in Nat \ {0} /\ B.case \in Nat \ {0} /\ B.todo \in Seq(DOMAIN p) /\ In(g, B.prev, h.tid)
         /\ \A i \in DOMAIN B.bodies : B.bodies[i].start \in 0 .. Len(blocks)
         /\ B.nth = 1 \/ B.nth <= Len(Dones(inst, B.case))
         /\ At(h, B) \in Seq(InstRec(p)) /\ B.bb \in DOMAIN blocks
<1>1. h.bbs # <<>>
  BY DEF InBlock
<1>2. BlockInv(p, g, h, B) /\ CallInv(p, g, h) /\ At(h, B) = blocks[B.bb].instrs
  BY <1>1, TopBlock, TopCall DEF At, blocks
<1>3. /\ DOMAIN B = BlockFields /\ B.how = "none" /\ B.j \in DOMAIN At(h, B)
      /\ In(g, B.sel, h.tid) /\ g.id2node[B.sel].typId = "NSelect"
      /\ B.nth \in Nat \ {0} /\ B.case \in Nat \ {0} /\ B.todo \in Seq(DOMAIN p) /\ In(g, B.prev, h.tid)
      /\ \A i \in DOMAIN B.bodies : B.bodies[i].start \in 0 .. Len(blocks)
  BY <1>2 DEF BlockInv, BlockFields, At, blocks
<1>4. inst = At(h, B)[B.j] /\ inst \in InstRec(p) /\ At(h, B) \in Seq(InstRec(p)) /\ B.bb \in DOMAIN blocks
  BY <1>1, <1>2, <1>3, TopBlock DEF inst
<1>5. B.nth = 1 \/ B.nth <= Len(Dones(inst, B.case))
  BY <1>1, <1>2, <1>4 DEF Live, CaseInv, B, At
<1>6. DOMAIN h = CallFields
  BY <1>2 DEF CallInv, CallFields
<1>. QED BY <1>1, <1>2, <1>3, <1>4, <1>5, <1>6

LEMMA SelectEndStep == ASSUME Live, SelectEnd PROVE Kept'
<1>. DEFINE f == [h EXCEPT !.select_node_id = 0]
            c == [B EXCEPT !.prev = B.sel, !.cur = B.sel, !.sel = NoNode]
<1>1. InBlock /\ B.sel # NoNode /\ B.case > Cases /\ p' = p /\ wg_pts' = wg_pts /\ Over(f, c, g)
  BY DEF SelectEnd
<1>2. Typed'
  BY <1>1 DEF Live, Typed
<1>3. /\ h.bbs # <<>> /\ CallInv(p, g, h) /\ DOMAIN B = BlockFields /\ DOMAIN h = CallFields
      /\ B.how = "none" /\ B.j \in DOMAIN At(h, B) /\ inst \in InstRec(p)
      /\ In(g, B.sel, h.tid) /\ B.nth \in Nat \ {0} /\ B.case \in Nat \ {0} /\ B.todo \in Seq(DOMAIN p)
      /\ \A i \in DOMAIN B.bodies : B.bodies[i].start \in 0 .. Len(blocks)
      /\ B.nth = 1 \/ B.nth <= Len(Dones(inst, B.case))
      /\ At(h, B) \in Seq(InstRec(p)) /\ B.bb \in DOMAIN blocks
  BY <1>1, AtSelect
<1>4. B.nth = 1
  <2>1. Len(inst.states) \in Nat
    BY <1>3 DEF InstRec
  <2>2. B.case > Len(inst.states)
    <3>. DEFINE m == Len(inst.states)
    <3>1. Cases = m + 0 \/ Cases = m + 1
      BY DEF Cases
    <3>2. B.case > Cases /\ B.case \in Nat
      BY <1>1, <1>3
    <3>. HIDE DEF m
    <3>3. m \in Nat
      BY <2>1 DEF m
    <3>4. B.case > m
      BY <3>1, <3>2, <3>3
    <3>. QED BY <3>4 DEF m
  <2>3. Dones(inst, B.case) = <<>>
    BY <1>3, <2>1, <2>2 DEF Dones
  <2>4. Len(Dones(inst, B.case)) = 0
    BY <2>3
  <2>. QED BY <1>3, <2>4
<1>5. CallInv(p, g, f) /\ f.cg = h.cg /\ f.tid = h.tid /\ f.bbs = h.bbs
  <2>1. DOMAIN f = CallFields /\ f.cg = h.cg /\ f.tid = h.tid /\ f.prev = h.prev /\ f.bbs = h.bbs
        /\ f.bodies = h.bodies /\ f.defer_unlocks = h.defer_unlocks
        /\ f.defer_closes = h.defer_closes /\ f.defer_calls = h.defer_calls
        /\ f.loop_name = h.loop_name /\ f.for_loop_name = h.for_loop_name /\ f.roc_name = h.roc_name
        /\ f.bb = h.bb /\ f.select_node_id = 0
    BY <1>3 DEF CallFields
  <2>. HIDE DEF f
  <2>. QED BY <1>3, <2>1, SameCall
<1>. HIDE DEF f
<1>6. /\ DOMAIN c = BlockFields /\ c.bb = B.bb /\ c.j = B.j /\ c.prev = B.sel /\ c.how = "none" /\ c.todo = B.todo
      /\ c.sel = NoNode /\ c.cur = B.sel /\ c.case = B.case /\ c.bodies = B.bodies /\ c.nth = 1
  BY <1>3, <1>4 DEF BlockFields
<1>. HIDE DEF c
<1>7. c.j \in DOMAIN At(f, c) /\ At(f, c) \in Seq(InstRec(p))
  BY <1>3, <1>5, <1>6 DEF At
<1>8. BlockInv(p, g, f, c)
  <2>1. In(g, c.prev, f.tid) /\ In(g, c.cur, f.tid) /\ c.cur \in DOMAIN g.id2node
    BY <1>3, <1>5, <1>6 DEF In
  <2>2. c.bb \in DOMAIN p[f.cg].blocks /\ c.todo \in Seq(DOMAIN p) /\ c.case \in Nat \ {0}
        /\ \A i \in DOMAIN c.bodies : c.bodies[i].start \in 0 .. Len(p[f.cg].blocks)
    BY <1>3, <1>5, <1>6 DEF blocks
  <2>3. PICK s : s = At(f, c)
    OBVIOUS
  <2>4. c.j \in 1 .. Len(s) + 1
    <3>1. Len(s) \in Nat /\ DOMAIN s = 1 .. Len(s)
      BY <1>7, <2>3, LenProperties
    <3>. QED BY <1>7, <2>3, <3>1
  <2>5. s = p[f.cg].blocks[c.bb].instrs
    BY <2>3 DEF At
  <2>. QED BY <1>6, <2>1, <2>2, <2>4, <2>5, IdleBlock
<1>9. GraphInv(g) /\ Grows(g, g)
  BY GrowsRefl DEF Live
<1>. QED BY <1>1, <1>2, <1>3, <1>5, <1>6, <1>7, <1>8, <1>9, OverStep

LEMMA CaseNodeFacts ==
  ASSUME Live, InBlock, B.sel # NoNode
  PROVE  /\ Fresh(g, CaseNode) /\ OneExitOf(g, CaseNode) /\ CaseNode.typId \in CaseTypes
         /\ CaseNode.gid = h.tid /\ CaseNode.case_sel = B.sel /\ CaseNode.typId # "NExit"
<1>. DEFINE new == NewNode("NCase", h.tid, h.cg)
            base == [new EXCEPT !.case_sel = B.sel]
            s == inst.states[B.case]
            d == Dones(inst, B.case)
            os == <<d[B.nth]>>
            e1 == [base EXCEPT !.case_kind = "default"]
            e2 == [base EXCEPT !.typId = "NCaseDone", !.pts = os]
            e3 == [base EXCEPT !.pts = s.on, !.isSender = s.send, !.case_kind = s.case_kind]
<1>1. /\ inst \in InstRec(p) /\ In(g, B.sel, h.tid) /\ g.id2node[B.sel].typId = "NSelect"
      /\ B.nth \in Nat \ {0} /\ B.case \in Nat \ {0}
      /\ B.nth = 1 \/ B.nth <= Len(d)
  BY AtSelect
<1>2. /\ h.tid \in Nat /\ h.tid \in DOMAIN g.roots /\ h.cg \in DOMAIN p /\ p \in Programs /\ GraphInv(g)
  BY TopCall DEF Live
<1>3. B.sel \in Nat /\ B.sel \in DOMAIN g.id2node /\ g.id2node[B.sel].gid = h.tid
  BY <1>1, <1>2, GidType DEF In
<1>4. /\ new \in NodeRec /\ new.typId = "NCase" /\ new.gid = h.tid /\ new.kids = <<>> /\ new.cases = <<>>
  <2>1. "NCase" \in TypeOfNode
    BY DEF TypeOfNode
  <2>. QED BY <1>2, <2>1, NodeType, NodeFields
<1>. HIDE DEF new
<1>5. /\ base \in NodeRec /\ base.typId = "NCase" /\ base.gid = h.tid /\ base.kids = <<>> /\ base.cases = <<>>
      /\ base.case_sel = B.sel
  BY <1>3, <1>4 DEF NodeRec
<1>6. inst.states \in Seq(StateRec) /\ Len(inst.states) \in Nat /\ DOMAIN inst.states = 1 .. Len(inst.states)
  BY <1>1 DEF InstRec
<1>7. CaseNode = IF B.case > Len(inst.states) THEN e1 ELSE IF d # <<>> THEN e2 ELSE e3
  <2>1. B.case > Len(inst.states) => d = <<>>
    <3>1. B.case > Len(inst.states) => ~(B.case <= Len(inst.states))
      BY <1>1, <1>6
    <3>. QED BY <3>1 DEF Dones
  <2>. HIDE DEF e1, e2, e3, d
  <2>. QED BY <2>1 DEF CaseNode, e1, e2, e3, d, base, new, s, os
<1>. HIDE DEF base
<1>. DEFINE Good(e) == /\ e \in NodeRec /\ e.typId \in CaseTypes /\ e.gid = h.tid /\ e.kids = <<>> /\ e.cases = <<>>
                       /\ e.case_sel = B.sel
<1>8. Good(e1)
  BY <1>5 DEF NodeRec, CaseKind, CaseTypes
<1>9. d # <<>> => Good(e2)
  <2>. SUFFICES ASSUME d # <<>> PROVE Good(e2)
    OBVIOUS
  <2>1. d \in Seq(Obj) /\ Len(d) \in Nat /\ DOMAIN d = 1 .. Len(d)
    BY <1>1, DonesType
  <2>. HIDE DEF d
  <2>2. B.nth \in DOMAIN d
    <3>1. Len(d) # 0
      BY <2>1, EmptySeq
    <3>2. Len(d) >= 1
      BY <2>1, <3>1
    <3>. QED BY <1>1, <2>1, <3>2
  <2>3. os \in Seq(Obj)
    BY <2>1, <2>2
  <2>. HIDE DEF os
  <2>. QED BY <1>5, <2>3 DEF NodeRec, CaseTypes, TypeOfNode
<1>10. B.case <= Len(inst.states) => Good(e3)
  <2>. SUFFICES ASSUME B.case <= Len(inst.states) PROVE Good(e3)
    OBVIOUS
  <2>1. s \in StateRec
    <3>1. B.case \in DOMAIN inst.states
      BY <1>1, <1>6
    <3>. QED BY <1>6, <3>1
  <2>2. s.on \in Seq(Obj) /\ s.send \in BOOLEAN /\ s.case_kind \in CaseKind
    <3>. HIDE DEF s
    <3>. QED BY <2>1 DEF StateRec
  <2>. HIDE DEF s
  <2>. QED BY <1>5, <2>2 DEF NodeRec, CaseTypes
<1>11. Good(CaseNode)
  <2>1. ~(B.case > Len(inst.states)) => B.case <= Len(inst.states)
    BY <1>1, <1>6
  <2>. HIDE DEF e1, e2, e3, d, Good
  <2>. QED BY <1>7, <1>8, <1>9, <1>10, <2>1
<1>12. \A k \in DOMAIN CaseNode.cases : FALSE
  BY <1>11
<1>. QED BY <1>1, <1>2, <1>3, <1>11, <1>12 DEF Fresh, OneExitOf, CaseTypes

LEMMA CaseGraphInv ==
  ASSUME Live, InBlock, B.sel # NoNode, NEW at
  PROVE  LET G == SetCase(Loose(g, CaseNode), B.sel, at, ID(g))
         IN  GraphInv(G) /\ Grows(g, G) /\ In(G, ID(g), h.tid)
<1>. DEFINE c == ID(g)
            nd == CaseNode
            K == Loose(g, nd)
            G == SetCase(K, B.sel, at, c)
<1>1. /\ Fresh(g, nd) /\ OneExitOf(g, nd) /\ nd.typId \in CaseTypes
      /\ nd.gid = h.tid /\ nd.case_sel = B.sel /\ nd.typId # "NExit"
  BY CaseNodeFacts
<1>2. In(g, B.sel, h.tid) /\ g.id2node[B.sel].typId = "NSelect" /\ GraphInv(g)
  BY AtSelect DEF Live
<1>. HIDE DEF nd
<1>3. /\ One(g, K, nd) /\ K.id2node[c] = nd /\ \A n \in DOMAIN g.id2node : K.id2node[n] = g.id2node[n]
  BY <1>1, <1>2, LooseInv
<1>. HIDE DEF K
<1>4. GraphInv(K) /\ Grows(g, K) /\ In(K, c, h.tid)
  BY <1>1, <1>3 DEF One
<1>5. Parts(g) /\ c \in Nat /\ c \notin DOMAIN g.id2node
  <2>1. Parts(g)
    BY <1>2, PartsOf
  <2>2. ID(g) \in Nat \ {0} /\ DOMAIN g.id2node = 0 .. ID(g) - 1
    BY <2>1 DEF Parts
  <2>. QED BY <2>1, <2>2
<1>6. \A i \in DOMAIN K.id2node[B.sel].cases : K.id2node[B.sel].cases[i] # c
  <2>. DEFINE s == g.id2node[B.sel].cases
  <2>1. K.id2node[B.sel].cases = s
    BY <1>2, <1>3 DEF In
  <2>2. s \in Seq(DOMAIN g.id2node \cup {NoNode})
    BY <1>2, <1>5 DEF Parts, NodeInv, In
  <2>3. c # NoNode
    <3>. HIDE DEF c
    <3>. QED BY <1>5 DEF NoNode
  <2>. HIDE DEF s, c
  <2>4. ASSUME NEW i \in DOMAIN s PROVE s[i] # c
    <3>1. s[i] \in DOMAIN g.id2node \cup {NoNode}
      BY <2>2
    <3>. QED BY <1>5, <2>3, <3>1
  <2>. QED BY <2>1, <2>4
<1>7. /\ B.sel \in DOMAIN K.id2node /\ c \in DOMAIN K.id2node /\ K.id2node[B.sel].typId = "NSelect"
      /\ K.id2node[c].typId \in CaseTypes /\ K.id2node[c].case_sel = B.sel
      /\ K.id2node[c].gid = K.id2node[B.sel].gid
  BY <1>1, <1>2, <1>3, <1>4 DEF In, Grows, Keeps
<1>. HIDE DEF c
<1>8. GraphInv(G) /\ Grows(K, G)
  BY <1>4, <1>6, <1>7, SetCaseInv
<1>. HIDE DEF G
<1>9. Grows(g, G) /\ In(G, c, h.tid)
  BY <1>4, <1>8, GrowsTrans, InKept DEF Grows
<1>. QED BY <1>8, <1>9 DEF G, K, nd, c

LEMMA SelectCaseStep == ASSUME Live, SelectCase PROVE Kept'
<1>. DEFINE c == ID(g)
            at == IF B.case > Len(inst.states) THEN Len(g.id2node[B.sel].cases) ELSE B.case
            none == B.case <= Len(inst.states) /\ inst.states[B.case].kind = "other"
            body == IF ~none /\ at \in DOMAIN B.bodies THEN B.bodies[at] ELSE NoBody
            handled == \/ body.start \in {0} \cup h.skips
                       \/ blocks[body.start].comment = "recover" \/ onlyDeferReturn(blocks[body.start])
            G == SetCase(Loose(g, CaseNode), B.sel, at, c)
            skips == h.skips \cup body.all
            f == [h EXCEPT !.skips = skips]
            b == [B EXCEPT !.body = body]
            nb == Block(body.start, c)
            F == WithBlock(h, b)
            E == [F EXCEPT !.bbs = Append(@, nb), !.skips = @ \cup {body.start}]
            H == IF none THEN g ELSE G
<1>1. /\ InBlock /\ B.sel # NoNode /\ p' = p /\ wg_pts' = wg_pts /\ contexts' = contexts /\ g' = H
      /\ IF handled THEN SetCall(WithBlock(f, NextCase(B, inst))) ELSE SetCall(E)
  BY DEF SelectCase, SetCase, Loose
<1>2. Typed'
  BY <1>1 DEF Live, Typed
<1>3. /\ h.bbs # <<>> /\ BlockInv(p, g, h, B) /\ CallInv(p, g, h) /\ DOMAIN B = BlockFields /\ DOMAIN h = CallFields
      /\ inst = At(h, B)[B.j] /\ GraphInv(g) /\ h.select_node_id \in Nat /\ p \in Programs /\ h.cg \in DOMAIN p
      /\ B.nth \in Nat \ {0} /\ B.case \in Nat \ {0} /\ B.todo \in Seq(DOMAIN p) /\ In(g, B.prev, h.tid)
      /\ \A i \in DOMAIN B.bodies : B.bodies[i].start \in 0 .. Len(blocks)
      /\ B.how = "none"
  BY <1>1, AtSelect, TopCall DEF CallInv, Live
<1>. HIDE DEF at
<1>4. GraphInv(G) /\ Grows(g, G) /\ In(G, c, h.tid)
  BY <1>1, CaseGraphInv
<1>. HIDE DEF G, c, none
<1>5. GraphInv(H) /\ Grows(g, H) /\ (~none => In(H, c, h.tid))
  BY <1>3, <1>4, GrowsRefl
<1>. HIDE DEF H
<1>6. BlockInv(p, H, h, B) /\ CallInv(p, H, h) /\ In(H, B.prev, h.tid)
  BY <1>3, <1>5, BlockKept, CallKept, InKept DEF Grows
<1>7. CASE handled
  <2>. HIDE DEF skips
  <2>1. DOMAIN f = CallFields /\ f.cg = h.cg /\ f.tid = h.tid /\ f.prev = h.prev /\ f.bbs = h.bbs
        /\ f.bodies = h.bodies /\ f.defer_unlocks = h.defer_unlocks
        /\ f.defer_closes = h.defer_closes /\ f.defer_calls = h.defer_calls
        /\ f.loop_name = h.loop_name /\ f.for_loop_name = h.for_loop_name /\ f.roc_name = h.roc_name
        /\ f.bb = h.bb /\ f.select_node_id = h.select_node_id
    BY <1>3 DEF CallFields
  <2>2. SetCall(WithBlock(f, NextCase(B, inst)))
    BY <1>1, <1>7
  <2>. HIDE DEF f, handled
  <2>3. CallInv(p, H, f)
    BY <1>3, <1>6, <2>1, SameCall
  <2>4. BlockInv(p, H, f, B) /\ At(f, B) = At(h, B)
    BY <1>6, <2>1 DEF BlockInv, At
  <2>5. SetCall(WithBlock(f, NextCase(B, At(f, B)[B.j])))
    BY <1>3, <2>2, <2>4
  <2>6. f.bbs # <<>>
    BY <1>3, <2>1
  <2>. QED BY <1>1, <1>2, <1>5, <2>1, <2>3, <2>4, <2>5, <2>6, CaseStep
<1>8. CASE ~handled
  <2>1. body.start # 0
    BY <1>8
  <2>2. ~none /\ body.start \in DOMAIN blocks
    <3>1. NoBody.start = 0
      BY DEF NoBody
    <3>2. ~none /\ at \in DOMAIN B.bodies /\ body = B.bodies[at]
      BY <2>1, <3>1
    <3>3. body.start \in 0 .. Len(blocks)
      BY <1>3, <3>2
    <3>4. DOMAIN blocks = 1 .. Len(blocks) /\ Len(blocks) \in Nat
      BY TopCall, SeqFacts DEF Linked
    <3>. HIDE DEF body
    <3>. QED BY <2>1, <3>2, <3>3, <3>4
  <2>3. SetCall(E)
    BY <1>1, <1>8
  <2>. HIDE DEF body, handled
  <2>4. /\ DOMAIN b = BlockFields /\ b.bb = B.bb /\ b.j = B.j /\ b.prev = B.prev /\ b.cur = B.cur
        /\ b.how = B.how /\ b.todo = B.todo /\ b.sel = B.sel /\ b.bodies = B.bodies
        /\ b.case = B.case /\ b.nth = B.nth
    BY <1>3 DEF BlockFields
  <2>. HIDE DEF b
  <2>5. BlockInv(p, H, h, b)
    <3>1. /\ b.case \in Nat \ {0} /\ b.nth \in Nat \ {0} /\ ~(b.how = "none" /\ b.sel = NoNode)
          /\ In(H, b.prev, h.tid) /\ b.todo \in Seq(DOMAIN p)
      BY <1>1, <1>3, <1>6, <2>4
    <3>2. b.how = "go" => \A i \in DOMAIN b.todo : p[b.todo[i]].kind # "cancel"
      BY <1>3, <2>4
    <3>. QED BY <1>6, <2>4, <3>1, <3>2, MoveBlock
  <2>6. CallInv(p, H, F) /\ F.tid = h.tid /\ F.cg = h.cg /\ F.bbs # <<>> /\ Last(F.bbs) = b
    BY <1>3, <1>6, <2>5, WithBlockInv
  <2>. HIDE DEF F
  <2>. DEFINE s == F.bbs
              t == Append(s, nb)
  <2>7. IsSeq(s) /\ DOMAIN F = CallFields
    BY <2>6 DEF CallInv, CallFields
  <2>8. /\ Len(s) \in Nat \ {0} /\ DOMAIN s = 1 .. Len(s) /\ s[Len(s)] = b
    BY <2>6, <2>7, SeqFacts
  <2>. HIDE DEF nb
  <2>9. /\ IsSeq(t) /\ t # <<>> /\ Len(t) = Len(s) + 1 /\ DOMAIN t = 1 .. Len(s) + 1
        /\ t[Len(s) + 1] = nb /\ (\A j \in DOMAIN s : t[j] = s[j]) /\ Last(t) = nb
    BY <2>7, SeqPush
  <2>. HIDE DEF s, t
  <2>10. /\ DOMAIN E = CallFields /\ E.cg = F.cg /\ E.tid = F.tid /\ E.prev = F.prev /\ E.bbs = t
         /\ E.bodies = F.bodies /\ E.defer_unlocks = F.defer_unlocks
         /\ E.defer_closes = F.defer_closes /\ E.defer_calls = F.defer_calls
         /\ E.loop_name = F.loop_name /\ E.for_loop_name = F.for_loop_name /\ E.roc_name = F.roc_name
         /\ E.bb = F.bb /\ E.select_node_id = F.select_node_id
    BY <2>7 DEF CallFields, s, t
  <2>. HIDE DEF E
  <2>11. BlockInv(p, H, E, nb) /\ nb.sel = NoNode
    <3>1. E.cg \in DOMAIN p /\ body.start \in DOMAIN p[E.cg].blocks /\ In(H, c, E.tid)
      BY <1>3, <1>5, <2>2, <2>6, <2>10 DEF blocks
    <3>. QED BY <1>3, <3>1, NewBlock DEF nb
  <2>12. ASSUME NEW i \in DOMAIN t PROVE BlockInv(p, H, E, t[i]) /\ (i < Len(t) => t[i].sel # NoNode)
    <3>1. CASE i = Len(s) + 1
      BY <2>8, <2>9, <2>11, <3>1
    <3>2. CASE i # Len(s) + 1
      <4>1. i \in DOMAIN s /\ t[i] = s[i]
        BY <2>8, <2>9, <3>2
      <4>2. BlockInv(p, H, F, s[i]) /\ (i < Len(s) => s[i].sel # NoNode)
        BY <2>6, <4>1 DEF CallInv, s
      <4>3. i = Len(s) => s[i].sel # NoNode
        BY <1>1, <2>4, <2>8
      <4>4. i < Len(s) \/ i = Len(s)
        BY <2>8, <4>1
      <4>5. BlockInv(p, H, E, s[i])
        BY <2>10, <4>2 DEF BlockInv
      <4>. QED BY <4>1, <4>2, <4>3, <4>4, <4>5
    <3>. QED BY <3>1, <3>2
  <2>13. CallInv(p, H, E)
    <3>1. /\ In(H, E.prev, E.tid) /\ E.bb \in Nat \ {0} /\ E.bodies \in Seq(DOMAIN p[E.cg].blocks)
          /\ {E.loop_name, E.for_loop_name, E.roc_name} \subseteq LoopName /\ E.select_node_id \in Nat
      BY <2>6, <2>10 DEF CallInv
    <3>. QED BY <2>6, <2>9, <2>10, <2>12, <3>1, MoveCall
  <2>14. Settled(E)
    BY <2>9, <2>10, <2>11 DEF Settled
  <2>15. E.tid = h.tid /\ E.cg = h.cg
    BY <2>6, <2>10
  <2>. QED BY <1>1, <1>2, <1>5, <2>3, <2>13, <2>14, <2>15, CallStep DEF E
<1>. QED BY <1>7, <1>8

-----------------------------------------------------------------------------
(* The stack of activations: a call is followed, a call returns.             *)

\* A call made by the last call of the stack.
LEMMA PushInv ==
  ASSUME NEW q, NEW G, NEW s, StackInv(q, G, s), NEW c, CallInv(q, G, c), CalledFrom(q, G, Last(s), c),
         Last(Last(s).bbs).how = "go" =>
           /\ \A i \in DOMAIN s : s[i].tid # c.tid
           /\ \A m \in DOMAIN G.id2node : G.id2node[m].typId = "NExit" => G.id2node[m].gid # c.tid
  PROVE  StackInv(q, G, Append(s, c)) /\ Last(Append(s, c)) = c
<1>. DEFINE n == Len(s)
            cs == Append(s, c)
<1>1. /\ IsSeq(s) /\ s # <<>> /\ n \in Nat \ {0} /\ DOMAIN s = 1 .. n /\ n \in DOMAIN s /\ Last(s) = s[n]
  <2>1. IsSeq(s) /\ s # <<>>
    BY DEF StackInv
  <2>. QED BY <2>1, SeqFacts
<1>2. /\ IsSeq(cs) /\ cs # <<>> /\ Len(cs) = n + 1 /\ DOMAIN cs = 1 .. n + 1 /\ cs[n + 1] = c /\ Last(cs) = c
      /\ \A j \in DOMAIN s : cs[j] = s[j]
  BY <1>1, SeqPush
<1>. HIDE DEF cs, n
<1>3. ASSUME NEW i \in DOMAIN cs PROVE i \in DOMAIN s \/ i = n + 1
  BY <1>1, <1>2
<1>4. \A i \in DOMAIN cs : CallInv(q, G, cs[i])
  BY <1>2, <1>3 DEF StackInv
<1>5. ASSUME NEW i \in 1 .. n PROVE CalledFrom(q, G, cs[i], cs[i + 1])
  <2>1. CASE i = n
    <3>1. cs[i] = Last(s) /\ cs[i + 1] = c
      BY <1>1, <1>2, <2>1
    <3>. QED BY <3>1
  <2>2. CASE i # n
    <3>1. i \in 1 .. n - 1 /\ i \in DOMAIN s /\ i + 1 \in DOMAIN s
      BY <1>1, <2>2
    <3>2. cs[i] = s[i] /\ cs[i + 1] = s[i + 1]
      BY <1>2, <3>1
    <3>. QED BY <3>1, <3>2 DEF StackInv, n
  <2>. QED BY <2>1, <2>2
<1>6. ASSUME NEW i \in Exiting(cs)
      PROVE  \/ i \in Exiting(s) /\ i \in DOMAIN s /\ cs[i] = s[i]
             \/ i = n + 1 /\ cs[i] = c /\ Last(Last(s).bbs).how = "go"
  <2>1. i \in DOMAIN cs /\ (i = 1 \/ Last(cs[i - 1].bbs).how = "go")
    BY DEF Exiting
  <2>2. CASE i = n + 1
    <3>1. i # 1 /\ i - 1 = n /\ cs[i - 1] = Last(s)
      BY <1>1, <1>2, <2>2
    <3>. QED BY <1>2, <2>1, <2>2, <3>1
  <2>3. CASE i \in DOMAIN s
    <3>1. i = 1 \/ (i - 1 \in DOMAIN s /\ cs[i - 1] = s[i - 1])
      BY <1>1, <1>2, <2>3
    <3>. QED BY <1>2, <2>1, <2>3, <3>1 DEF Exiting
  <2>. QED BY <1>3, <2>1, <2>2, <2>3
<1>7. \A i, j \in Exiting(cs) : cs[i].tid = cs[j].tid => i = j
  BY <1>6 DEF StackInv
<1>8. \A i \in Exiting(cs) : \A m \in DOMAIN G.id2node :
        G.id2node[m].typId = "NExit" => G.id2node[m].gid # cs[i].tid
  BY <1>6 DEF StackInv
<1>9. cs[1].tid = 0
  <2>1. 1 \in DOMAIN s
    BY <1>1
  <2>. QED BY <1>2, <2>1 DEF StackInv
<1>10. StackInv(q, G, cs)
  <2>1. Len(cs) - 1 = n
    BY <1>1, <1>2
  <2>. QED BY <1>2, <1>4, <1>5, <1>7, <1>8, <1>9, <2>1 DEF StackInv
<1>. QED BY <1>2, <1>10 DEF cs

\* The last call of the stack returns.
LEMMA PopInv ==
  ASSUME NEW q, NEW G, NEW s, StackInv(q, G, s), NEW n \in Nat, n = Len(s), n > 1
  PROVE  /\ StackInv(q, G, Front(s)) /\ Len(Front(s)) = n - 1 /\ DOMAIN Front(s) = 1 .. n - 1
         /\ \A i \in 1 .. n - 1 : Front(s)[i] = s[i]
         /\ \A i \in Exiting(Front(s)) : i \in Exiting(s) /\ i \in 1 .. n - 1
<1>. DEFINE cs == Front(s)
<1>1. IsSeq(s) /\ s # <<>> /\ DOMAIN s = 1 .. n
  <2>1. IsSeq(s) /\ s # <<>>
    BY DEF StackInv
  <2>. QED BY <2>1, SeqFacts
<1>2. /\ IsSeq(cs) /\ Len(cs) = n - 1 /\ DOMAIN cs = 1 .. n - 1
      /\ \A j \in 1 .. n - 1 : cs[j] = s[j]
  BY <1>1, SeqPop
<1>. HIDE DEF cs
<1>3. 1 .. n - 1 \subseteq DOMAIN s /\ 1 \in DOMAIN cs
  BY <1>1, <1>2
<1>4. cs # <<>>
  BY <1>2, SeqFacts
<1>5. ASSUME NEW i \in Exiting(cs) PROVE i \in Exiting(s) /\ i \in 1 .. n - 1
  <2>1. i \in DOMAIN cs /\ (i = 1 \/ Last(cs[i - 1].bbs).how = "go")
    BY DEF Exiting
  <2>2. i = 1 \/ cs[i - 1] = s[i - 1]
    BY <1>2, <2>1
  <2>. QED BY <1>2, <1>3, <2>1, <2>2 DEF Exiting
<1>6. \A i \in DOMAIN cs : CallInv(q, G, cs[i])
  BY <1>2, <1>3 DEF StackInv
<1>7. ASSUME NEW i \in 1 .. n - 1 - 1 PROVE CalledFrom(q, G, cs[i], cs[i + 1])
  <2>1. i \in 1 .. n - 1 /\ i + 1 \in 1 .. n - 1
    OBVIOUS
  <2>. QED BY <1>2, <2>1 DEF StackInv
<1>8. \A i, j \in Exiting(cs) : cs[i].tid = cs[j].tid => i = j
  BY <1>2, <1>5 DEF StackInv
<1>9. \A i \in Exiting(cs) : \A m \in DOMAIN G.id2node :
        G.id2node[m].typId = "NExit" => G.id2node[m].gid # cs[i].tid
  BY <1>2, <1>5 DEF StackInv
<1>10. cs[1].tid = 0
  BY <1>2, <1>3 DEF StackInv
<1>11. StackInv(q, G, cs)
  BY <1>2, <1>4, <1>6, <1>7, <1>8, <1>9, <1>10 DEF StackInv
<1>. QED BY <1>2, <1>5, <1>11 DEF cs

\* A new activation starts at a node of its goroutine.
LEMMA NewCall ==
  ASSUME p \in Programs, NEW cg \in DOMAIN p, NEW G, GraphInv(G), NEW n, NEW t, In(G, n, t)
  PROVE  LET c == Call(cg, t, n)
         IN  CallInv(p, G, c) /\ c.cg = cg /\ c.tid = t /\ c.bbs = <<>>
<1>. DEFINE c == Call(cg, t, n)
            k == IF hasInterestingInsts(p[cg].blocks) /\ p[cg].kind # "cancel" THEN 1 ELSE Len(p[cg].blocks) + 1
<1>1. p[cg].blocks \in Seq(BlkRec(p))
  BY ProgramsAssumption, ProgramFacts
<1>2. k \in Nat \ {0}
  <2>. DEFINE bs == p[cg].blocks
  <2>1. Len(bs) \in Nat
    BY <1>1, LenProperties
  <2>2. k = 1 \/ k = Len(bs) + 1
    OBVIOUS
  <2>. HIDE DEF k, bs
  <2>. QED BY <2>1, <2>2
<1>3. /\ DOMAIN c = CallFields /\ c.cg = cg /\ c.tid = t /\ c.prev = n /\ c.bb = k /\ c.bodies = <<>>
      /\ c.loop_name = NoLoop /\ c.for_loop_name = NoLoop /\ c.roc_name = NoLoop /\ c.select_node_id = 0
      /\ c.defer_unlocks = <<>> /\ c.defer_closes = <<>> /\ c.defer_calls = <<>> /\ c.bbs = <<>>
  BY DEF Call, CallFields
<1>. HIDE DEF c, k
<1>4. t \in DOMAIN G.roots
  BY GidType
<1>5. IsSeq(<<>>) /\ DOMAIN <<>> = {}
  BY NoBlocks
<1>6. c.bodies \in Seq(DOMAIN p[c.cg].blocks) /\ c.defer_calls \in Seq(DOMAIN p)
  BY <1>3
<1>7. /\ c.defer_unlocks \in Seq(NodesOf(G, c.tid, {"NUnlock", "NRUnlock"}))
      /\ c.defer_closes \in Seq(NodesOf(G, c.tid, {"NClose"}))
  BY <1>3
<1>8. /\ c.defer_unlocks \in Seq({m \in DOMAIN G.id2node : In(G, m, c.tid) /\ G.id2node[m].typId \in {"NUnlock", "NRUnlock"}})
      /\ c.defer_closes \in Seq({m \in DOMAIN G.id2node : In(G, m, c.tid) /\ G.id2node[m].typId = "NClose"})
  BY <1>3
<1>9. {c.loop_name, c.for_loop_name, c.roc_name} \subseteq LoopName
  BY <1>3, ProgramsAssumption
<1>10. IsSeq(c.bbs) /\ \A i \in DOMAIN c.bbs : BlockInv(p, G, c, c.bbs[i]) /\ (i < Len(c.bbs) => c.bbs[i].sel # NoNode)
  BY <1>3, <1>5
<1>11. c.select_node_id \in Nat /\ c.bb \in Nat \ {0} /\ In(G, c.prev, c.tid) /\ c.tid \in DOMAIN G.roots
  BY <1>2, <1>3, <1>4
<1>12. CallInv(p, G, c)
  BY <1>3, <1>6, <1>8, <1>9, <1>10, <1>11 DEF CallInv, CallFields
<1>. QED BY <1>3, <1>12 DEF c

\* The node of a function below parent.
LEMMA CalleeNode ==
  ASSUME Live, NEW parent \in DOMAIN g.id2node, NEW cg \in DOMAIN p
  PROVE  LET H == updateNodes(g, parent, NewNode("NFunc", gid(parent), cg))
         IN  GraphInv(H) /\ Grows(g, H) /\ In(H, ID(g), gid(parent))
<1>. DEFINE t == gid(parent)
            nd == NewNode("NFunc", t, cg)
<1>1. GraphInv(g) /\ p \in Programs
  BY DEF Live
<1>2. In(g, parent, t)
  BY DEF In, gid
<1>. HIDE DEF t
<1>3. t \in Nat
  BY <1>1, <1>2, GidType
<1>4. "NFunc" \in BareTypes
  BY DEF BareTypes, TypeOfNode, CaseTypes
<1>5. Bare(nd) /\ nd.gid = t /\ nd.typId = "NFunc"
  BY <1>1, <1>3, <1>4, NewBare
<1>. HIDE DEF nd
<1>6. nd.typId # "NExit" /\ In(g, parent, nd.gid)
  BY <1>2, <1>5
<1>7. GraphInv(updateNodes(g, parent, nd)) /\ Grows(g, updateNodes(g, parent, nd)) /\ In(updateNodes(g, parent, nd), ID(g), nd.gid)
  BY <1>1, <1>5, <1>6, BareNode
<1>. QED BY <1>5, <1>7 DEF nd, t

\* The node of a goroutine below parent.
LEMMA ThreadNode ==
  ASSUME Live, NEW parent \in DOMAIN g.id2node, NEW cg \in DOMAIN p, NEW tid, tid = Cardinality(DOMAIN g.roots)
  PROVE  LET H == Spawned(g, parent, tid, NewNode("NGoroutine", tid, cg))
         IN  /\ GraphInv(H) /\ Grows(g, H) /\ In(H, ID(g), tid) /\ tid \notin DOMAIN g.roots
             /\ \A m \in DOMAIN H.id2node : H.id2node[m].typId = "NExit" => H.id2node[m].gid # tid
<1>. DEFINE nd == NewNode("NGoroutine", tid, cg)
            H == Spawned(g, parent, tid, nd)
<1>1. GraphInv(g) /\ p \in Programs /\ Parts(g)
  BY PartsOf DEF Live
<1>2. tid \in Nat
  BY <1>1, FS_CardinalityType DEF Parts, Numbered
<1>3. nd \in NodeRec
  BY <1>1, <1>2, NodeType DEF TypeOfNode
<1>4. nd.gid = tid /\ nd.typId = "NGoroutine" /\ nd.kids = <<>> /\ nd.cases = <<>> /\ nd.case_sel = 0
  BY NodeFields
<1>. HIDE DEF nd
<1>5. nd.case_sel \in DOMAIN g.id2node
  BY <1>1, <1>4 DEF Parts, ID
<1>6. /\ GraphInv(H) /\ Grows(g, H) /\ In(H, ID(g), tid) /\ tid \notin DOMAIN g.roots
      /\ \A m \in DOMAIN H.id2node : H.id2node[m].typId = "NExit" => H.id2node[m].gid \in DOMAIN g.roots
  BY <1>1, <1>3, <1>4, <1>5, SpawnInv
<1>7. \A m \in DOMAIN H.id2node : H.id2node[m].typId = "NExit" => H.id2node[m].gid # tid
  BY <1>6
<1>. QED BY <1>6, <1>7 DEF nd

LEMMA FollowStep == ASSUME Live, Follow PROVE Kept'
<1>. DEFINE f == WithBlock(h, Dropped)
            thread == B.how \in {"go", "AfterFunc"}
            parent == IF B.how \in {"go", "call", "defer"} THEN B.prev ELSE B.cur
            tid == IF thread THEN Cardinality(DOMAIN g.roots) ELSE gid(parent)
            c == Call(callee, tid, ID(g))
            s == Topped(calls, Len(calls), f)
<1>1. /\ Following /\ p' = p /\ status' = status /\ wg_pts' = wg_pts
      /\ Enter(f, callee, sigText, parent, thread)
  BY DEF Follow
<1>2. Typed'
  BY <1>1 DEF Live, Typed
<1>3. /\ h.bbs # <<>> /\ B.how # "none" /\ callee \in DOMAIN p
      /\ BlockInv(p, g, h, B) /\ CallInv(p, g, h) /\ Tail(B.todo) \in Seq(DOMAIN p)
      /\ B.nth \in Nat \ {0} /\ B.case \in Nat \ {0} /\ In(g, B.prev, h.tid)
      /\ B.how = "go" => p[callee].kind # "cancel" /\ \A i \in DOMAIN Tail(B.todo) : p[Tail(B.todo)[i]].kind # "cancel"
  BY <1>1, FollowingFacts
<1>4. /\ DOMAIN Dropped = BlockFields /\ Dropped.bb = B.bb /\ Dropped.j = B.j /\ Dropped.how = B.how
      /\ Dropped.sel = B.sel /\ Dropped.bodies = B.bodies /\ Dropped.case = B.case
      /\ Dropped.prev = B.prev /\ Dropped.cur = B.cur /\ Dropped.todo = Tail(B.todo)
      /\ Dropped.nth \in Nat \ {0}
  BY <1>1, DroppedFacts
<1>5. parent \in DOMAIN g.id2node /\ B.cur \in DOMAIN g.id2node
  BY <1>3 DEF BlockInv, In
<1>. HIDE DEF parent
<1>6. /\ GraphInv(g') /\ Grows(g, g') /\ In(g', ID(g), tid)
      /\ thread => tid \notin DOMAIN g.roots /\ \A m \in DOMAIN g'.id2node : g'.id2node[m].typId = "NExit" => g'.id2node[m].gid # tid
  <2>1. CASE thread
    <3>1. g' = Spawned(g, parent, tid, NewNode("NGoroutine", tid, callee)) /\ tid = Cardinality(DOMAIN g.roots)
      BY <1>1, <2>1 DEF Enter, Spawned
    <3>. HIDE DEF tid
    <3>. QED BY <1>3, <1>5, <3>1, ThreadNode
  <2>2. CASE ~thread
    <3>1. g' = updateNodes(g, parent, NewNode("NFunc", gid(parent), callee)) /\ tid = gid(parent)
      BY <1>1, <2>2 DEF Enter
    <3>. HIDE DEF tid
    <3>. QED BY <1>3, <1>5, <2>2, <3>1, CalleeNode
  <2>. QED BY <2>1, <2>2
<1>7. calls' = Append(s, c)
  BY <1>1 DEF Enter, Topped
<1>8. BlockInv(p, g', h, Dropped) /\ CallInv(p, g', h)
  <2>1. BlockInv(p, g', h, B) /\ CallInv(p, g', h) /\ In(g', B.prev, h.tid)
    BY <1>3, <1>6, BlockKept, CallKept, InKept DEF Grows
  <2>2. Dropped.how = "go" => \A i \in DOMAIN Dropped.todo : p[Dropped.todo[i]].kind # "cancel"
    BY <1>3, <1>4
  <2>3. Dropped.how # "none" /\ Dropped.todo \in Seq(DOMAIN p) /\ Dropped.case \in Nat \ {0} /\ In(g', Dropped.prev, h.tid)
    BY <1>3, <1>4, <2>1
  <2>. QED BY <1>4, <2>1, <2>2, <2>3, MoveBlock
<1>9. CallInv(p, g', f) /\ f.tid = h.tid /\ f.cg = h.cg /\ f.bbs # <<>> /\ Last(f.bbs) = Dropped
  BY <1>3, <1>8, WithBlockInv
<1>. HIDE DEF f
<1>10. StackInv(p, g', s) /\ IsSeq(s) /\ Last(s) = f /\ (\A i \in DOMAIN s : s[i].tid \in DOMAIN g.roots)
  <2>1. Keeps(g, g') /\ OtherExits(g, g', calls)
    BY <1>6 DEF Grows, OtherExits
  <2>2. StackInv(p, g, calls) /\ h = calls[Len(calls)]
    BY TopCall DEF Live
  <2>3. f.tid = calls[Len(calls)].tid /\ f.cg = calls[Len(calls)].cg
    BY <1>9, <2>2
  <2>4. StackInv(p, g', s)
    BY <1>9, <2>1, <2>2, <2>3, TopStack
  <2>5. IsSeq(s) /\ Last(s) = f /\ DOMAIN s = DOMAIN calls /\ \A i \in DOMAIN calls : s[i].tid = calls[i].tid
    <3>1. IsSeq(calls) /\ calls # <<>>
      BY <2>2 DEF StackInv
    <3>2. /\ IsSeq(s) /\ Last(s) = f /\ DOMAIN s = DOMAIN calls /\ s[Len(calls)] = f
          /\ \A i \in DOMAIN calls \ {Len(calls)} : s[i] = calls[i]
      BY <3>1, TopFacts
    <3>. QED BY <2>3, <3>2
  <2>6. \A i \in DOMAIN calls : calls[i].tid \in DOMAIN g.roots
    BY <2>2 DEF StackInv, CallInv
  <2>. QED BY <2>4, <2>5, <2>6
<1>. HIDE DEF s
<1>11. CallInv(p, g', c) /\ c.cg = callee /\ c.tid = tid /\ c.bbs = <<>>
  <2>. HIDE DEF tid
  <2>1. p \in Programs
    BY DEF Live
  <2>. QED BY <1>3, <1>6, <2>1, NewCall
<1>12. CalledFrom(p, g', f, c)
  <2>1. B.how \in {"call", "defer"} => c.tid = f.tid
    <3>1. B.how \in {"call", "defer"} => tid = gid(B.prev)
      BY DEF parent
    <3>. QED BY <1>3, <1>9, <1>11, <3>1 DEF In, gid
  <2>2. B.how \in {"Do", "Range"} => c.tid = g'.id2node[B.cur].gid
    <3>1. B.how \in {"Do", "Range"} => tid = gid(B.cur)
      BY DEF parent
    <3>2. g'.id2node[B.cur].gid = gid(B.cur)
      BY <1>5, <1>6 DEF Grows, Keeps, gid
    <3>. QED BY <1>11, <3>1, <3>2
  <2>3. B.how = "go" => p[c.cg].kind # "cancel"
    BY <1>3, <1>11
  <2>. HIDE DEF c
  <2>. QED BY <1>3, <1>4, <1>9, <2>1, <2>2, <2>3 DEF CalledFrom
<1>13. Last(f.bbs).how = "go" =>
         /\ \A i \in DOMAIN s : s[i].tid # c.tid
         /\ \A m \in DOMAIN g'.id2node : g'.id2node[m].typId = "NExit" => g'.id2node[m].gid # c.tid
  <2>1. ASSUME B.how = "go" PROVE tid \notin DOMAIN g.roots
    BY <1>6, <2>1
  <2>2. ASSUME B.how = "go" PROVE \A m \in DOMAIN g'.id2node : g'.id2node[m].typId = "NExit" => g'.id2node[m].gid # tid
    BY <1>6, <2>2
  <2>. HIDE DEF c, tid
  <2>. QED BY <1>4, <1>9, <1>10, <1>11, <2>1, <2>2
<1>. HIDE DEF c
<1>14. StackInv(p, g', Append(s, c)) /\ Last(Append(s, c)) = c
  BY <1>10, <1>11, <1>12, <1>13, PushInv
<1>15. StackInv(p, g', calls') /\ h' = c
  BY <1>7, <1>14 DEF h
<1>16. CaseInv(h)'
  BY <1>11, <1>15 DEF CaseInv
<1>. QED BY <1>1, <1>2, <1>6, <1>15, <1>16 DEF Kept

\* The exit of goroutine t, which has none yet, below its node last.
LEMMA ExitNode ==
  ASSUME Live, NEW last, NEW t, In(g, last, t), NEW cg \in DOMAIN p,
         \A m \in DOMAIN g.id2node : g.id2node[m].typId = "NExit" => g.id2node[m].gid # t
  PROVE  LET H == updateNodes(g, last, NewNode("NExit", t, cg))
         IN  /\ GraphInv(H) /\ Keeps(g, H) /\ In(H, ID(g), t) /\ H.id2node[ID(g)].typId = "NExit"
             /\ DOMAIN H.id2node = DOMAIN g.id2node \cup {ID(g)}
<1>. DEFINE nd == NewNode("NExit", t, cg)
            H == updateNodes(g, last, nd)
<1>1. GraphInv(g) /\ p \in Programs
  BY DEF Live
<1>2. t \in Nat /\ t \in DOMAIN g.roots
  BY <1>1, GidType
<1>3. "NExit" \in BareTypes
  BY DEF BareTypes, TypeOfNode, CaseTypes
<1>4. Bare(nd) /\ nd.gid = t /\ nd.typId = "NExit"
  BY <1>1, <1>2, <1>3, NewBare
<1>. HIDE DEF nd
<1>5. Fresh(g, nd)
  BY <1>1, <1>2, <1>4, BareFresh
<1>6. OneExitOf(g, nd) /\ In(g, last, nd.gid)
  BY <1>4 DEF OneExitOf
<1>7. One(g, H, nd)
  BY <1>1, <1>5, <1>6, UpdateNodesInv
<1>. HIDE DEF H
<1>8. Parts(g) /\ Parts(H) /\ ID(H) = ID(g) + 1
  BY <1>1, <1>7, PartsOf DEF One
<1>9. DOMAIN H.id2node = DOMAIN g.id2node \cup {ID(g)}
  <2>. DEFINE n == ID(g)
  <2>1. n \in Nat /\ DOMAIN g.id2node = 0 .. n - 1 /\ DOMAIN H.id2node = 0 .. n + 1 - 1
    BY <1>8 DEF Parts
  <2>. HIDE DEF n
  <2>2. 0 .. n + 1 - 1 = (0 .. n - 1) \cup {n}
    BY <2>1
  <2>. QED BY <2>1, <2>2 DEF n
<1>. QED BY <1>4, <1>7, <1>9 DEF One, H, nd

\* Block c is b with another cur_node, which may be in a goroutine that an
\* AfterFunc before it has started.
LEMMA CurBlock ==
  ASSUME NEW q, NEW G, NEW f, NEW b, BlockInv(q, G, f, b), b.how # "none", NEW c, DOMAIN c = BlockFields,
         c.bb = b.bb, c.j = b.j, c.how = b.how, c.sel = b.sel, c.bodies = b.bodies, c.prev = b.prev,
         c.case = b.case, c.nth = b.nth, c.todo = b.todo,
         NEW m, c.cur = m, m \in DOMAIN G.id2node,
         In(G, m, f.tid) \/ ~In(G, b.cur, f.tid) \/ b.how = "AfterFunc"
  PROVE  BlockInv(q, G, f, c)
<1>. DEFINE s == q[f.cg].blocks[b.bb].instrs
<1>1. In(G, c.cur, f.tid) \/ \E k \in DOMAIN s : k <= c.j /\ s[k].op = "AfterFunc"
  <2>1. CASE In(G, m, f.tid)
    BY <2>1
  <2>2. CASE ~In(G, b.cur, f.tid)
    BY <2>2 DEF BlockInv
  <2>3. CASE b.how = "AfterFunc"
    <3>1. b.how \in CallOps
      BY <2>3 DEF CallOps
    <3>2. b.j \in DOMAIN s /\ s[b.j].op = "AfterFunc" /\ b.j \in 1 .. Len(s) + 1
      BY <2>3, <3>1 DEF BlockInv
    <3>3. b.j <= b.j
      BY <3>2
    <3>. QED BY <3>2, <3>3
  <2>. QED BY <2>1, <2>2, <2>3
<1>2. b.sel = NoNode
  BY DEF BlockInv
<1>. QED BY <1>1, <1>2 DEF BlockInv, BlockFields

\* The activation that called the last one.
Caller == calls[Len(calls) - 1]

LEMMA CallerFacts ==
  ASSUME Live, Len(calls) > 1
  PROVE  LET n == Len(calls)
             s == Front(calls)
             b == Last(Caller.bbs)
         IN  /\ StackInv(p, g, s) /\ Len(s) = n - 1 /\ s[n - 1] = Caller
             /\ CallInv(p, g, Caller) /\ DOMAIN Caller = CallFields /\ CalledFrom(p, g, Caller, h)
             /\ Caller.bbs # <<>> /\ BlockInv(p, g, Caller, b) /\ DOMAIN b = BlockFields
             /\ \A i \in Exiting(s) : i \in Exiting(calls) /\ i # n /\ s[i] = calls[i]
<1>. DEFINE n == Len(calls)
            s == Front(calls)
            f == Caller
<1>1. n \in Nat /\ h = calls[n] /\ DOMAIN calls = 1 .. n /\ StackInv(p, g, calls)
  BY TopCall DEF Live
<1>. HIDE DEF n
<1>2. n \in Nat /\ n = Len(calls) /\ n > 1
  BY <1>1 DEF n
<1>3. /\ StackInv(p, g, s) /\ Len(s) = n - 1
      /\ \A i \in 1 .. n - 1 : s[i] = calls[i]
      /\ \A i \in Exiting(s) : i \in Exiting(calls) /\ i \in 1 .. n - 1
  BY <1>1, <1>2, PopInv
<1>4. n - 1 \in 1 .. n - 1 /\ n - 1 \in DOMAIN calls /\ n - 1 + 1 = n
  BY <1>1, <1>2
<1>5. s[n - 1] = f /\ f = calls[n - 1]
  BY <1>3, <1>4 DEF Caller, n
<1>6. CallInv(p, g, f) /\ CalledFrom(p, g, f, h)
  BY <1>1, <1>2, <1>4, <1>5 DEF StackInv
<1>7. f.bbs # <<>> /\ IsSeq(f.bbs) /\ DOMAIN f = CallFields
  BY <1>6 DEF CallInv, CalledFrom, CallFields
<1>8. Len(f.bbs) \in DOMAIN f.bbs /\ Last(f.bbs) = f.bbs[Len(f.bbs)]
  BY <1>7, SeqFacts
<1>9. BlockInv(p, g, f, Last(f.bbs))
  BY <1>6, <1>8 DEF CallInv
<1>10. DOMAIN Last(f.bbs) = BlockFields
  BY <1>9 DEF BlockInv, BlockFields
<1>11. \A i \in Exiting(s) : i \in Exiting(calls) /\ i # n /\ s[i] = calls[i]
  BY <1>2, <1>3
<1>. QED BY <1>3, <1>5, <1>6, <1>7, <1>9, <1>10, <1>11 DEF n

\* The last activation is over, its caller goes on as f.
LEMMA BackStep ==
  ASSUME Live, Len(calls) > 1, p' = p, Typed', GraphInv(g'), Keeps(g, g'), OtherExits(g, g', Front(calls)),
         NEW f, CallInv(p, g', f), f.tid = Caller.tid, f.cg = Caller.cg,
         f.bbs # <<>>, Last(f.bbs).sel = NoNode,
         calls' = Topped(Front(calls), Len(calls) - 1, f)
  PROVE  Kept'
<1>. DEFINE s == Front(calls)
            n == Len(calls) - 1
<1>1. StackInv(p, g, s) /\ n = Len(s) /\ s[n] = Caller
  BY CallerFacts
<1>. HIDE DEF s, n
<1>2. OtherExits(g, g', s) /\ calls' = Topped(s, n, f)
  BY DEF s, n
<1>3. f.tid = s[n].tid /\ f.cg = s[n].cg
  BY <1>1
<1>4. StackInv(p, g', Topped(s, n, f))
  BY <1>1, <1>2, <1>3, TopStack
<1>5. IsSeq(s) /\ s # <<>>
  BY <1>1 DEF StackInv
<1>6. Last(Topped(s, n, f)) = f
  BY <1>1, <1>5, TopFacts
<1>7. StackInv(p, g', calls') /\ h' = f
  BY <1>2, <1>4, <1>6 DEF h
<1>8. CaseInv(h)'
  BY <1>7 DEF CaseInv
<1>. QED BY <1>7, <1>8 DEF Kept

LEMMA LeaveMain ==
  ASSUME Live, Len(calls) = 1, p' = p, Typed', status' = "done",
         g' = updateNodes(g, h.prev, NewNode("NExit", 0, "main"))
  PROVE  Kept'
<1>1. h = calls[1] /\ In(g, h.prev, h.tid) /\ 1 \in DOMAIN calls
  BY TopCall
<1>2. h.tid = 0
  BY <1>1 DEF Live, StackInv
<1>3. 1 \in Exiting(calls)
  BY <1>1 DEF Exiting
<1>4. \A m \in DOMAIN g.id2node : g.id2node[m].typId = "NExit" => g.id2node[m].gid # 0
  BY <1>1, <1>2, <1>3 DEF Live, StackInv
<1>5. "main" \in DOMAIN p
  BY ProgramsAssumption, ProgramFacts DEF Live
<1>6. In(g, h.prev, 0)
  BY <1>1, <1>2
<1>7. GraphInv(g')
  BY <1>4, <1>5, <1>6, ExitNode
<1>. QED BY <1>7 DEF Kept

\* Back in the function that made an ordinary call.
LEMMA LeaveCall ==
  ASSUME Live, Len(calls) > 1, p' = p, Typed', g' = g,
         Last(Caller.bbs).how # "go",
         calls' = Topped(Front(calls), Len(calls) - 1, WithBlock(Caller, After(Last(Caller.bbs), h.prev)))
  PROVE  Kept'
<1>. DEFINE f == Caller
            b == Last(f.bbs)
            c == After(b, h.prev)
            F == WithBlock(f, c)
<1>1. /\ CallInv(p, g, f) /\ f.bbs # <<>> /\ BlockInv(p, g, f, b) /\ DOMAIN b = BlockFields
      /\ CalledFrom(p, g, f, h)
  BY CallerFacts
<1>2. GraphInv(g) /\ In(g, h.prev, h.tid)
  BY TopCall DEF Live
<1>. HIDE DEF f, b
<1>3. /\ b.how # "none" /\ b.how # "go"
      /\ b.how \in {"call", "defer"} => h.tid = f.tid
      /\ b.how \in {"Do", "Range"} => h.tid = g.id2node[b.cur].gid
  BY <1>1 DEF CalledFrom, b, f
<1>4. b.how \in {"call", "defer", "Do", "Range", "AfterFunc"} /\ b.sel = NoNode
  BY <1>1, <1>3 DEF BlockInv, CallOps
<1>5. BlockInv(p, g, f, c) /\ c.sel = NoNode
  <2>1. CASE b.how \in {"call", "defer"}
    <3>1. c = [b EXCEPT !.prev = h.prev, !.cur = h.prev]
      BY <2>1 DEF After
    <3>2. /\ DOMAIN c = BlockFields /\ c.prev = h.prev /\ c.cur = h.prev
          /\ c.bb = b.bb /\ c.j = b.j /\ c.how = b.how /\ c.sel = b.sel /\ c.bodies = b.bodies
          /\ c.case = b.case /\ c.nth = b.nth /\ c.todo = b.todo
      <4>. HIDE DEF c
      <4>. QED BY <1>1, <3>1, MovedFields
    <3>. HIDE DEF c
    <3>3. In(g, c.prev, f.tid) /\ In(g, c.cur, f.tid)
      BY <1>2, <1>3, <2>1, <3>2
    <3>4. /\ b.nth \in Nat \ {0} /\ b.case \in Nat \ {0} /\ b.todo \in Seq(DOMAIN p)
      BY <1>1 DEF BlockInv
    <3>5. c.how # "none" /\ c.how # "go" /\ c.sel = NoNode
      BY <1>3, <1>4, <3>2
    <3>. QED BY <1>1, <3>2, <3>3, <3>4, <3>5, MoveBlock
  <2>2. CASE b.how \notin {"call", "defer"}
    <3>1. c = [b EXCEPT !.cur = h.prev]
      BY <2>2 DEF After
    <3>2. /\ DOMAIN c = BlockFields /\ c.prev = b.prev /\ c.cur = h.prev
          /\ c.bb = b.bb /\ c.j = b.j /\ c.how = b.how /\ c.sel = b.sel /\ c.bodies = b.bodies
          /\ c.case = b.case /\ c.nth = b.nth /\ c.todo = b.todo
      <4>. HIDE DEF c
      <4>. QED BY <1>1, <3>1 DEF BlockFields
    <3>. HIDE DEF c
    <3>3. h.prev \in DOMAIN g.id2node
      BY <1>2 DEF In
    <3>4. In(g, h.prev, f.tid) \/ ~In(g, b.cur, f.tid) \/ b.how = "AfterFunc"
      BY <1>2, <1>3, <1>4, <2>2 DEF In
    <3>5. BlockInv(p, g, f, c)
      BY <1>1, <1>3, <3>2, <3>3, <3>4, CurBlock
    <3>. QED BY <1>4, <3>2, <3>5
  <2>. QED BY <2>1, <2>2
<1>. HIDE DEF c
<1>6. CallInv(p, g, F) /\ F.tid = f.tid /\ F.cg = f.cg /\ F.bbs # <<>> /\ Last(F.bbs) = c
  BY <1>1, <1>5, WithBlockInv DEF b
<1>. HIDE DEF F
<1>7. Keeps(g, g') /\ OtherExits(g, g', Front(calls))
  BY DEF Keeps, OtherExits
<1>8. CallInv(p, g', F) /\ GraphInv(g') /\ Last(F.bbs).sel = NoNode
  BY <1>2, <1>5, <1>6
<1>9. calls' = Topped(Front(calls), Len(calls) - 1, F)
  BY DEF F, f, c, b
<1>10. F.tid = Caller.tid /\ F.cg = Caller.cg
  BY <1>6 DEF f
<1>. QED BY <1>6, <1>7, <1>8, <1>9, <1>10, BackStep

\* Record e is f but for the field x.
SameBut(e, f, S, x) == DOMAIN e = S /\ \A y \in S \ {x} : e[y] = f[y]

\* Back in the function with the go statement: the goroutine has its exit.
LEMMA LeaveGo ==
  ASSUME Live, Len(calls) > 1, p' = p, Typed',
         Last(Caller.bbs).how = "go",
         NEW site, g' = GoExit(Caller, Last(Caller.bbs), h.prev, site).G,
         NEW e, SameBut(e, Caller, CallFields, "first"),
         NEW c, SameBut(c, Last(Caller.bbs), BlockFields, "cur"), c.cur = GoExit(Caller, Last(Caller.bbs), h.prev, site).cur,
         calls' = Topped(Front(calls), Len(calls) - 1, WithBlock(e, c))
  PROVE  Kept'
<1>. DEFINE f == Caller
            b == Last(f.bbs)
            t == h.tid
            last == h.prev
            ended == GoExit(f, b, last, site)
            H == updateNodes(g, last, NewNode("NExit", t, f.cg))
            F == WithBlock(e, c)
<1>1. /\ CallInv(p, g, f) /\ f.bbs # <<>> /\ BlockInv(p, g, f, b) /\ DOMAIN b = BlockFields
      /\ CalledFrom(p, g, f, h) /\ DOMAIN f = CallFields
      /\ \A i \in Exiting(Front(calls)) : i \in Exiting(calls) /\ i # Len(calls) /\ Front(calls)[i] = calls[i]
  BY CallerFacts
<1>2. GraphInv(g) /\ In(g, last, t) /\ h = calls[Len(calls)] /\ Len(calls) \in DOMAIN calls /\ Typed
  BY TopCall DEF Live
<1>3. p[h.cg].kind # "cancel" /\ b.sel = NoNode
  BY <1>1 DEF CalledFrom, BlockInv
<1>4. gid(last) = t
  BY <1>2 DEF In, gid
<1>5. g' = updateWGExit(H, t, ID(g)) /\ ended.cur = b.cur
  BY <1>3, <1>4 DEF GoExit, ExitGid
<1>6. Len(calls) \in Exiting(calls)
  BY <1>2 DEF Exiting, Caller
<1>7. /\ \A m \in DOMAIN g.id2node : g.id2node[m].typId = "NExit" => g.id2node[m].gid # t
      /\ \A i \in Exiting(calls) : calls[i].tid = t => i = Len(calls)
  BY <1>2, <1>6 DEF Live, StackInv
<1>8. f.cg \in DOMAIN p
  BY <1>1 DEF CallInv
<1>9. /\ GraphInv(H) /\ Keeps(g, H) /\ In(H, ID(g), t) /\ H.id2node[ID(g)].typId = "NExit"
      /\ DOMAIN H.id2node = DOMAIN g.id2node \cup {ID(g)}
  <2>. HIDE DEF f, t
  <2>. QED BY <1>2, <1>7, <1>8, ExitNode
<1>. HIDE DEF H, last
<1>10. GraphInv(g') /\ Grows(H, g')
  <2>. HIDE DEF t
  <2>. QED BY <1>2, <1>5, <1>9, WGExitInv DEF Typed
<1>11. Keeps(g, g')
  BY <1>9, <1>10, KeepsTrans DEF Grows
<1>12. OtherExits(g, g', Front(calls))
  <2>. SUFFICES ASSUME NEW m \in DOMAIN g'.id2node, g'.id2node[m].typId = "NExit", m \notin DOMAIN g.id2node,
                       NEW i \in Exiting(Front(calls))
                PROVE  g'.id2node[m].gid # Front(calls)[i].tid
    BY DEF OtherExits
  <2>1. m = ID(g)
    BY <1>9, <1>10 DEF Grows
  <2>2. g'.id2node[m].gid = t
    BY <1>9, <1>10, <2>1 DEF Grows, Keeps, In
  <2>3. i \in Exiting(calls) /\ i # Len(calls) /\ Front(calls)[i] = calls[i]
    BY <1>1
  <2>. QED BY <1>7, <2>2, <2>3
<1>. HIDE DEF f, b, t
<1>13. /\ DOMAIN e = CallFields /\ e.cg = f.cg /\ e.tid = f.tid /\ e.prev = f.prev /\ e.bbs = f.bbs
       /\ e.bodies = f.bodies /\ e.select_node_id = f.select_node_id /\ e.defer_unlocks = f.defer_unlocks
       /\ e.defer_closes = f.defer_closes /\ e.defer_calls = f.defer_calls
       /\ e.loop_name = f.loop_name /\ e.for_loop_name = f.for_loop_name /\ e.roc_name = f.roc_name /\ e.bb = f.bb
  BY <1>1 DEF SameBut, CallFields, f
<1>14. /\ DOMAIN c = BlockFields /\ c.bb = b.bb /\ c.j = b.j /\ c.how = b.how /\ c.sel = b.sel /\ c.bodies = b.bodies
       /\ c.prev = b.prev /\ c.case = b.case /\ c.nth = b.nth /\ c.todo = b.todo /\ c.cur = b.cur
  BY <1>1, <1>5 DEF SameBut, BlockFields, f, b, last
<1>15. CallInv(p, g', e)
  <2>1. CallInv(p, g', f)
    BY <1>1, <1>11, CallKept DEF f
  <2>2. f.select_node_id \in Nat
    BY <2>1 DEF CallInv
  <2>. QED BY <1>13, <2>1, <2>2, SameCall
<1>16. BlockInv(p, g', e, c)
  <2>1. BlockInv(p, g', f, b) /\ b.how # "none" /\ b.cur \in DOMAIN g'.id2node
    <3>1. BlockInv(p, g', f, b) /\ b.how # "none"
      BY <1>1, <1>11, BlockKept DEF f, b, CalledFrom
    <3>. QED BY <3>1 DEF BlockInv
  <2>2. In(g', b.cur, f.tid) \/ ~In(g', b.cur, f.tid) \/ b.how = "AfterFunc"
    OBVIOUS
  <2>3. BlockInv(p, g', f, c)
    BY <1>14, <2>1, <2>2, CurBlock
  <2>. QED BY <1>13, <2>3, SameOwner
<1>17. e.bbs # <<>> /\ c.sel = NoNode
  BY <1>1, <1>3, <1>13, <1>14 DEF f, b
<1>18. CallInv(p, g', F) /\ F.tid = e.tid /\ F.cg = e.cg /\ F.bbs # <<>> /\ Last(F.bbs) = c
  BY <1>15, <1>16, <1>17, WithBlockInv
<1>19. calls' = Topped(Front(calls), Len(calls) - 1, F)
  OBVIOUS
<1>. HIDE DEF F
<1>20. F.tid = Caller.tid /\ F.cg = Caller.cg /\ Last(F.bbs).sel = NoNode
  BY <1>13, <1>17, <1>18 DEF f
<1>. QED BY <1>10, <1>11, <1>12, <1>18, <1>19, <1>20, BackStep

LEMMA LeaveStep == ASSUME Live, Leave PROVE Kept'
<1>1. p' = p /\ wg_pts' = wg_pts
  BY DEF Leave
<1>2. Typed'
  BY <1>1 DEF Live, Typed
<1>3. IsSeq(calls) /\ calls # <<>>
  BY DEF Live, StackInv
<1>. DEFINE f == Caller
            b == Last(f.bbs)
            site == p[f.cg].blocks[b.bb].instrs[b.j]
            ended == GoExit(f, b, h.prev, site)
<1>. DEFINE y == [f EXCEPT !.first = IF DoRace /\ f.loop # "none" /\ b.nth = 2
                                       THEN @ \cup {gid(h.prev)} ELSE @]
            z == [b EXCEPT !.cur = ended.cur]
            done == g' = updateNodes(g, h.prev, NewNode("NExit", 0, "main")) /\ status' = "done"
            back == calls' = [Front(calls) EXCEPT ![Len(calls) - 1] = WithBlock(f, After(b, h.prev))]
            over == calls' = [Front(calls) EXCEPT ![Len(calls) - 1] = WithBlock(y, z)]
<1>8. \/ Len(calls) = 1 /\ done
      \/ Len(calls) > 1 /\ b.how # "go" /\ back /\ g' = g
      \/ Len(calls) > 1 /\ b.how = "go" /\ g' = ended.G /\ over
  BY Zenon DEF Leave, Caller
<1>4. CASE Len(calls) = 1
  <2>1. status' = "done" /\ g' = updateNodes(g, h.prev, NewNode("NExit", 0, "main"))
    <3>. HIDE DEF ended, back, over, f, b
    <3>. QED BY <1>4, <1>8
  <2>. QED BY <1>1, <1>2, <1>4, <2>1, LeaveMain
<1>5. CASE Len(calls) > 1 /\ b.how # "go"
  <2>1. g' = g /\ calls' = Topped(Front(calls), Len(calls) - 1, WithBlock(f, After(b, h.prev)))
    <3>1. g' = g /\ back
      <4>. HIDE DEF ended, back, over, f, b, done
      <4>1. Len(calls) # 1
        BY <1>3, <1>5, SeqFacts
      <4>. QED BY <1>5, <1>8, <4>1, Zenon
    <3>. QED BY <3>1 DEF Topped
  <2>. QED BY <1>1, <1>2, <1>5, <2>1, LeaveCall
<1>6. CASE Len(calls) > 1 /\ b.how = "go"
  <2>. DEFINE x == IF DoRace /\ f.loop # "none" /\ b.nth = 2 THEN f.first \cup {gid(h.prev)} ELSE f.first
              e == [f EXCEPT !.first = x]
              c == [b EXCEPT !.cur = ended.cur]
  <2>1. DOMAIN f = CallFields /\ DOMAIN b = BlockFields
    BY <1>6, CallerFacts
  <2>2. g' = ended.G /\ over
    <3>. HIDE DEF ended, back, over, f, b, done
    <3>1. Len(calls) # 1
      BY <1>3, <1>6, SeqFacts
    <3>. QED BY <1>6, <1>8, <3>1, Zenon
  <2>3. calls' = Topped(Front(calls), Len(calls) - 1, WithBlock(e, c))
    <3>1. over /\ z = c
      BY <2>2
    <3>2. y = e
      <4>. HIDE DEF f, b
      <4>. QED BY <2>1 DEF CallFields
    <3>. HIDE DEF e, c, ended, f, b, y, z
    <3>. QED BY <3>1, <3>2 DEF Topped
  <2>. HIDE DEF x
  <2>4. SameBut(e, f, CallFields, "first")
    <3>. HIDE DEF f
    <3>. QED BY <2>1 DEF SameBut, CallFields
  <2>5. SameBut(c, b, BlockFields, "cur") /\ c.cur = ended.cur
    <3>. HIDE DEF b, ended
    <3>. QED BY <2>1 DEF SameBut, BlockFields
  <2>6. Last(Caller.bbs).how = "go" /\ Len(calls) > 1
    BY <1>6
  <2>. HIDE DEF e, c, site
  <2>. QED BY <1>1, <1>2, <2>2, <2>3, <2>4, <2>5, <2>6, LeaveGo
<1>7. Len(calls) = 1 \/ Len(calls) > 1
  BY <1>3, SeqFacts
<1>. QED BY <1>4, <1>5, <1>6, <1>7

-----------------------------------------------------------------------------
(* All steps.                                                                *)

LEMMA BuildStep == ASSUME Live, Next PROVE Kept'
<1>1. CASE NextBlock BY <1>1, NextBlockStep
<1>2. CASE LoopEnter BY <1>2, LoopEnterStep
<1>3. CASE LoopExit BY <1>3, LoopExitStep
<1>4. CASE BlockEnd BY <1>4, BlockEndStep
<1>5. CASE Leave BY <1>5, LeaveStep
<1>6. CASE Sync BY <1>6, SyncStep
<1>7. CASE Plain BY <1>7, PlainStep
<1>8. CASE WithCancel BY <1>8, WithCancelStep
<1>9. CASE CtxDone BY <1>9, CtxDoneStep
<1>10. CASE Access BY <1>10, AccessStep
<1>11. CASE Return BY <1>11, ReturnStep
<1>12. CASE Defer BY <1>12, DeferStep
<1>13. CASE RunDefers BY <1>13, RunDefersStep
<1>14. CASE StartCall BY <1>14, StartCallStep
<1>15. CASE SkipCallee BY <1>15, SkipCalleeStep
<1>16. CASE Cancel BY <1>16, CancelStep
<1>17. CASE Follow BY <1>17, FollowStep
<1>18. CASE EndCall BY <1>18, EndCallStep
<1>19. CASE Select BY <1>19, SelectStep
<1>20. CASE SelectCase BY <1>20, SelectCaseStep
<1>21. CASE SelectEnd BY <1>21, SelectEndStep
<1>. QED BY <1>1, <1>2, <1>3, <1>4, <1>5, <1>6, <1>7, <1>8, <1>9, <1>10, <1>11, <1>12, <1>13, <1>14,
            <1>15, <1>16, <1>17, <1>18, <1>19, <1>20, <1>21 DEF Next

LEMMA InitInv == ASSUME Init, OwnNodes(p) PROVE Live
<1>. DEFINE nd == NewNode("NGoroutine", 0, "main")
            N == DOMAIN g.id2node
            none == [producers |-> <<>>, consumers |-> <<>>]
<1>1. p \in Programs /\ "main" \in DOMAIN p
  BY ProgramsAssumption, ProgramFacts DEF Init
<1>2. nd \in NodeRec /\ nd.gid = 0 /\ nd.typId = "NGoroutine" /\ nd.kids = <<>> /\ nd.cases = <<>> /\ nd.case_sel = 0
  <2>1. "NGoroutine" \in TypeOfNode /\ 0 \in Nat
    BY DEF TypeOfNode
  <2>2. nd \in NodeRec
    BY <1>1, <2>1, NodeType
  <2>. QED BY <2>2, NodeFields
<1>. HIDE DEF nd
<1>3. /\ DOMAIN g = Fields
      /\ N = {0} /\ g.id2node[0] = nd /\ g.id2node = [n \in {0} |-> nd]
      /\ g.roots = [t \in {0} |-> 0] /\ g.tid2end = [t \in {0} |-> NoNode]
      /\ g.resources = [o \in Obj |-> none]
  BY DEF Init, Fields, nd
<1>4. IsFiniteSet({0}) /\ Cardinality({0}) = 1 /\ {0} = 0 .. 1 - 1
  BY FS_Singleton
<1>5. ID(g) = 1 /\ Numbered(DOMAIN g.roots)
  BY <1>3, <1>4 DEF ID, Numbered
<1>6. RootsInv(g)
  BY <1>2, <1>3 DEF RootsInv
<1>7. ListsInv(g)
  <2>. HIDE DEF N
  <2>1. none \in [producers : Seq(N), consumers : Seq(N)] /\ none.consumers = <<>>
    OBVIOUS
  <2>2. DOMAIN none.consumers = {}
    BY <2>1
  <2>3. \A o \in Obj : Rising(g.resources[o].consumers) /\ \A i \in DOMAIN g.resources[o].consumers : FALSE
    <3>. HIDE DEF none
    <3>. QED BY <1>3, <2>2 DEF Rising
  <2>. HIDE DEF none
  <2>4. g.resources \in [Obj -> [producers : Seq(N), consumers : Seq(N)]]
    BY <1>3, <2>1
  <2>. QED BY <2>3, <2>4 DEF ListsInv, N
<1>8. OneExit(g)
  BY <1>2, <1>3 DEF OneExit
<1>9. NodeInv(g, 0)
  <2>1. DOMAIN nd.kids = {} /\ DOMAIN nd.cases = {} /\ nd.kids \in Seq(N) /\ nd.cases \in Seq(N \cup {NoNode})
    BY <1>2
  <2>2. "NGoroutine" \notin CaseTypes
    BY DEF CaseTypes
  <2>. HIDE DEF N
  <2>. QED BY <1>2, <1>3, <2>1, <2>2 DEF NodeInv, N
<1>10. Parts(g)
  <2>1. g.id2node \in [N -> NodeRec]
    BY <1>2, <1>3
  <2>. QED BY <1>3, <1>4, <1>5, <1>6, <1>7, <1>8, <1>9, <2>1 DEF Parts
<1>11. GraphInv(g)
  BY <1>10, OfParts
<1>12. Typed /\ status = "build"
  BY DEF Init, Typed
<1>. DEFINE c == Call("main", 0, 0)
<1>13. In(g, 0, 0)
  BY <1>2, <1>3 DEF In
<1>14. CallInv(p, g, c) /\ c.cg = "main" /\ c.tid = 0 /\ c.bbs = <<>>
  BY <1>1, <1>11, <1>13, NewCall
<1>15. calls = <<c>>
  BY DEF Init
<1>. HIDE DEF c
<1>16. IsSeq(calls) /\ DOMAIN calls = {1} /\ Len(calls) = 1 /\ calls[1] = c /\ Last(calls) = c /\ calls # <<>>
  BY <1>15, OneBlock
<1>17. StackInv(p, g, calls)
  <2>1. \A i \in 1 .. Len(calls) - 1 : CalledFrom(p, g, calls[i], calls[i + 1])
    BY <1>16
  <2>2. Exiting(calls) \subseteq {1}
    BY <1>16 DEF Exiting
  <2>3. \A n \in N : g.id2node[n].typId # "NExit"
    BY <1>2, <1>3
  <2>. QED BY <1>14, <1>16, <2>1, <2>2, <2>3 DEF StackInv
<1>18. CaseInv(h)
  BY <1>14, <1>16 DEF CaseInv, h
<1>. QED BY <1>1, <1>11, <1>12, <1>17, <1>18 DEF Live

\* The builder keeps the graph well built, and every activation at nodes of
\* its goroutine, in every program that does not mix the goroutines up itself
\* (DFS, DFSBB, updateNodes).
THEOREM BuildInductive == Spec => []BuildInv
<1>1. Init => BuildInv
  BY InitInv DEF Init, BuildInv, Live, Typed
<1>2. BuildInv /\ [Next]_vars => BuildInv'
  <2>. SUFFICES ASSUME BuildInv, [Next]_vars PROVE BuildInv'
    OBVIOUS
  <2>1. p' = p /\ p \in Programs
    BY DEF BuildInv, Next, vars, NextBlock, LoopEnter, LoopExit, BlockEnd, Leave, Sync, Plain, WithCancel,
           CtxDone, Access, Return, Defer, RunDefers, StartCall, SkipCallee, Cancel, Follow, EndCall,
           Select, SelectCase, SelectEnd
  <2>2. OwnNodes(p)' <=> OwnNodes(p)
    BY <2>1 DEF OwnNodes
  <2>3. CASE ~OwnNodes(p)
    BY <2>1, <2>2, <2>3 DEF BuildInv
  <2>4. CASE OwnNodes(p) /\ UNCHANGED vars
    <3>1. GraphInv(g) /\ Typed /\ (status = "build" => StackInv(p, g, calls) /\ CaseInv(h))
      BY <2>4 DEF BuildInv, Typed
    <3>2. UNCHANGED <<p, g, status, calls, contexts, wg_pts>>
      BY <2>4 DEF vars
    <3>3. CaseInv(h)' <=> CaseInv(h)
      BY <3>2 DEF CaseInv, h, Dones, Known
    <3>. QED BY <2>1, <3>1, <3>2, <3>3 DEF BuildInv, Typed
  <2>5. CASE OwnNodes(p) /\ Next
    <3>1. status = "build"
      BY <2>5 DEF Next, NextBlock, LoopEnter, LoopExit, BlockEnd, Leave, Sync, Plain, WithCancel,
           CtxDone, Access, Return, Defer, RunDefers, StartCall, SkipCallee, Cancel, Follow, EndCall,
           Select, SelectCase, SelectEnd, InDFS, AtInst, InBlock, Following, Building
    <3>2. Live
      BY <2>1, <2>5, <3>1 DEF BuildInv, Live, Typed
    <3>3. Kept'
      BY <2>5, <3>2, BuildStep
    <3>. QED BY <2>1, <3>3 DEF Kept, BuildInv, Typed
  <2>. QED BY <2>3, <2>4, <2>5
<1>. QED BY <1>1, <1>2, PTL DEF Spec

\* The graph that CreateGraph leaves is one the detectors can rely on: edges
\* that start no goroutine stay in theirs, goroutines have one exit, cases
\* know their select, resources list their nodes in the order of the ids.
THEOREM BuildsRFG == Spec => []WellBuilt
<1>1. BuildInv => WellBuilt
  BY DEF BuildInv, WellBuilt, GraphInv
<1>. QED BY <1>1, BuildInductive, PTL

================================================================================

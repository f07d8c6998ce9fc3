-------------------------------- MODULE MCFlow --------------------------------
(***************************************************************************)
(* Functions for TLC: small control-flow graphs with calls put into their  *)
(* blocks in every way.                                                    *)
(***************************************************************************)
EXTENDS FlowProperties

\* A graph: the successors and the exit of each block.
To(s) == [succs |-> s, exit |-> "jump"]
Out(e) == [succs |-> <<>>, exit |-> e]

Straight == <<Out("return")>>
IfThen == <<To(<<2, 3>>), To(<<3>>), Out("return")>>
EarlyReturn == <<To(<<2, 3>>), Out("return"), Out("return")>>
EarlyPanic == <<To(<<2, 3>>), Out("panic"), Out("return")>>
Loop == <<To(<<2>>), To(<<3, 4>>), To(<<2>>), Out("return")>>
Forever == <<To(<<2>>), To(<<2>>)>>
Diamond == <<To(<<2, 3>>), To(<<4>>), To(<<4>>), Out("return")>>
LoopReturn == <<To(<<2>>), To(<<3, 4>>), To(<<2, 5>>), Out("return"), Out("panic")>>
\* The return of block 4 comes after block 2, which cannot reach it.
Late == <<To(<<2, 4>>), To(<<3>>), Out("return"), Out("return")>>
Graphs == {Late, Straight, Diamond, LoopReturn, IfThen, EarlyReturn, EarlyPanic, Loop, Forever}

\* Two locks, the second reached through two objects.
Calls == {<<"Lock", {1}>>, <<"Unlock", {1}>>, <<"defer Unlock", {1}>>, <<"Done", {}>>,
          <<"defer Done", {}>>, <<"Broadcast", {}>>, <<"Unlock", {2, 3}>>}
LockCalls == {<<"Lock", {1}>>, <<"Unlock", {1}>>}
NestedCalls == {<<"Lock", {1}>>, <<"Lock", {2, 3}>>, <<"defer Unlock", {1}>>,
                <<"defer Unlock", {2, 3}>>}

\* n calls, each <<block, op, pts>>, in the order of the blocks.
Placed(g, calls, n) ==
  {p \in [1 .. n -> (DOMAIN g) \X calls] : \A m \in 1 .. n - 1 : p[m][1] <= p[m + 1][1]}

\* The function: every call has a line of its own; the last return is an
\* implicit one without a position, or not; a function with a deferred call
\* has a recover block.
Function(g, p, implicit) ==
  LET Instrs(b) == SelectSeq([m \in DOMAIN p |->
                     [op |-> p[m][2][1], pts |-> p[m][2][2], line |-> 10 * p[m][1] + m,
                      b |-> p[m][1]]], LAMBDA i : i.b = b)
      Body(b) == [instrs |-> [m \in DOMAIN Instrs(b) |->
                     [op |-> Instrs(b)[m].op, pts |-> Instrs(b)[m].pts, line |-> Instrs(b)[m].line]],
                   exit |-> g[b].exit, succs |-> g[b].succs, recover |-> FALSE,
                   line |-> IF g[b].exit = "jump" \/ (implicit /\ b = Len(g)) THEN 0
                            ELSE 10 * b + 9]
      body == [b \in DOMAIN g |-> Body(b)]
  IN  IF \E m \in DOMAIN p : p[m][2][1] \in {"defer Unlock", "defer Done"}
      THEN Append(body, [instrs |-> <<>>, exit |-> "return", succs |-> <<>>,
                         recover |-> TRUE, line |-> 0])
      ELSE body

TwoCalls ==
  UNION {{Function(g, p, i) : p \in Placed(g, Calls, 2), i \in BOOLEAN} : g \in Graphs}
LockUnlocks ==
  UNION {{Function(g, p, FALSE) : p \in Placed(g, LockCalls, 3)} : g \in Graphs}
Nested == {Function(Straight, p, FALSE) : p \in Placed(Straight, NestedCalls, 4)}

SmallFunctions == TwoCalls \cup LockUnlocks \cup Nested

==============================================================================

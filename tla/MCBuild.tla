------------------------------- MODULE MCBuild -------------------------------
(***************************************************************************)
(* Programs for TLC: short functions without branches in every             *)
(* combination, and the control flow that go/ssa gives to selects and      *)
(* loops.                                                                  *)
(***************************************************************************)
EXTENDS BuildProperties

NoGraphs == {}
MCFn == {"main", "f", "g", "lib", "cancel"}
MCLoopName == {NoLoop} \cup (MCFn \X (1 .. 8))

-----------------------------------------------------------------------------
(* Instructions. *)

Do(op, on) == [op |-> op, on |-> on, callees |-> <<>>, text |-> "", states |-> <<>>, blocking |-> TRUE]
CallOf(op, callees) == [Do(op, <<>>) EXCEPT !.callees = callees, !.text = "call"]
Case(send, on) == [kind |-> "chan", on |-> on, send |-> send, case_kind |-> "chan"]
CaseOf(kind, on) == [Case(FALSE, on) EXCEPT !.kind = kind]
Choose(states, blocking) == [Do("select", <<>>) EXCEPT !.states = states, !.blocking = blocking]

BB(comment, instrs, term, succs) ==
  [comment |-> comment, instrs |-> instrs, term |-> term, succs |-> succs,
   two |-> comment = "select.next" \/ (Len(instrs) = 2 /\ term = "return")]

RunReturn == <<Do("rundefers", <<>>), Do("return", <<>>)>>
End(instrs) == BB("entry", instrs \o RunReturn, "return", <<>>)
App(fn, blks) == [fn |-> fn, kind |-> "app", blocks |-> blks]
Lib == [fn |-> "lib", kind |-> "lib", blocks |-> <<End(<<Do("send", <<"a">>)>>)>>]
CancelFn == [fn |-> "cancel", kind |-> "cancel", blocks |-> <<End(<<Do("plain", <<>>), CallOf("call", <<"lib">>)>>)>>]

-----------------------------------------------------------------------------
(* Functions without branches: main has any two instructions, or three of  *)
(* the ones that make calls and hold locks.                                *)

MainInstrs ==
  {Do("send", <<"a">>), Do("Lock", <<"m">>), Do("Unlock", <<"m">>), Do("write", <<"x">>),
   CallOf("call", <<"f">>), CallOf("go", <<"f">>), CallOf("Do", <<"f">>), CallOf("defer call", <<"f">>),
   Do("defer Unlock", <<"m">>), Do("defer close", <<"a">>)}
FInstrs ==
  {<<Do("recv", <<"a">>)>>, <<Do("Lock", <<"m">>), Do("write", <<"x">>)>>,
   <<Do("RLock", <<"m">>), Do("defer RUnlock", <<"m">>), Do("read", <<"x">>)>>,
   <<Do("defer WGDone", <<"w">>), Do("close", <<"a">>)>>,
   <<Do("Unlock", <<"m">>)>>,
   <<Do("Lock", <<"m">>), Do("Lock", <<"n">>), Do("defer Unlock", <<"m">>), Do("defer Unlock", <<"n">>),
     Do("write", <<"x">>)>>}
Short(S, n) == UNION {[1 .. k -> S] : k \in 0 .. n}

Nesting == {Do("Lock", <<"m">>), Do("write", <<"x">>), CallOf("call", <<"f">>), CallOf("go", <<"f">>),
            Do("defer Unlock", <<"m">>)}

StraightPrograms ==
  {"main" :> App("main", <<End(s)>>) @@ "f" :> App("f", <<End(t)>>) :
     s \in Short(MainInstrs, 2) \cup [1 .. 3 -> Nesting], t \in FInstrs}

-----------------------------------------------------------------------------
(* Calls: recursion, goroutines that start goroutines, several callees,    *)
(* functions out of scope, contexts.                                       *)

FG(s, tf, tg) ==
  "main" :> App("main", <<End(s)>>) @@ "f" :> App("f", <<End(tf)>>) @@ "g" :> App("g", <<End(tg)>>)
  @@ "lib" :> Lib @@ "cancel" :> CancelFn

How == {"call", "go", "Do", "Range", "defer call"}
Recursive ==
  {FG(<<CallOf(a, <<"f">>), Do("WGWait", <<"w">>)>>,
      <<Do("send", <<"a">>), CallOf(b, <<"f">>), Do("WGDone", <<"w">>)>>, <<>>) : a \in {"call", "go"}, b \in How}
  \cup {FG(<<CallOf("call", <<"f">>)>>, <<CallOf(a, <<"g">>), Do("read", <<"x">>)>>,
           <<CallOf(b, <<"f">>), Do("Signal", <<"c">>)>>) : a, b \in {"call", "go"}}
Several ==
  {FG(<<Do("CondWait", <<"c">>), CallOf(a, s), Do("Broadcast", <<"c">>), CallOf(b, t)>>,
      <<Do("recv", <<"a">>), Do("returned recv", <<"a">>)>>, <<Do("defer RUnlock", <<"m">>), CallOf("go", <<"f">>)>>) :
    a, b \in How, s, t \in {<<"f", "g">>, <<"lib", "g">>, <<>>}}
AfterFuncs ==
  {FG(<<Do("send", <<"a">>), CallOf("AfterFunc", <<"f">>), CallOf(a, <<"g">>)>>,
      <<Do("Lock", <<"m">>)>>, <<Do("recv", <<"a">>)>>) : a \in {"call", "go", "Range", "AfterFunc"}}
Cancelled(how) == [CallOf(how, <<"cancel">>) EXCEPT !.on = <<"x">>]
Contexts ==
  {FG(<<a, CallOf("go", <<"f">>), Cancelled("call"), CallOf("call", <<"g">>), CallOf("defer call", <<"cancel">>)>>,
      <<Do("ctxDone", <<"x", "y">>), Do("send", <<"a">>)>>, <<b, Do("return", <<"x", "y">>)>>) :
    a \in {Do("WithCancel", <<"x">>), Do("WithCancel", <<"x", "y">>), Do("plain", <<>>)},
    b \in {Do("read", <<"y">>), Do("send", <<"b">>)}}

-----------------------------------------------------------------------------
(* Selects: two cases, then a block for a case, the test of the next one,  *)
(* the panic of a blocking select or the default case, and select.done.    *)

Bodies == {<<Do("send", <<"b">>)>>, <<Do("Lock", <<"m">>), Do("return", <<>>)>>, <<CallOf("call", <<"f">>)>>}
AfterSelect == <<Do("Unlock", <<"m">>)>> \o RunReturn
SelectBlocks(sel, c1, c2, last, blocking) ==
  <<BB("entry", <<Do("WithCancel", <<"x">>), sel>>, "if", <<2, 4>>),
    BB("select.body", c1, "jump", <<3>>),
    BB("select.done", AfterSelect, "return", <<>>),
    BB("select.next", <<>>, "if", <<5, 6>>),
    BB("select.body", c2, "jump", <<3>>),
    IF blocking THEN BB("select.next", <<>>, "panic", <<>>)
    ELSE [BB("select.next", last, "jump", <<3>>) EXCEPT !.two = FALSE]>>

WithF(blks) == "main" :> App("main", blks) @@ "f" :> App("f", <<End(<<Do("recv", <<"a">>)>>)>>)
States == {<<Case(FALSE, <<"a">>), Case(TRUE, <<"b">>)>>, <<CaseOf("done", <<"x">>), Case(FALSE, <<"a">>)>>,
           <<CaseOf("other", <<>>), CaseOf("done", <<"y", "x">>)>>}
Selects ==
  {WithF(SelectBlocks(Choose(s, blocking), c1, c2, last, blocking)) :
     s \in States, c1, c2, last \in Bodies, blocking \in BOOLEAN}

\* Empty cases: both lead to select.done at once.
EmptyCases(blocking) ==
  WithF(<<BB("entry", <<Choose(<<Case(FALSE, <<"a">>), Case(FALSE, <<"b">>)>>, blocking)>>, "if", <<2, 3>>),
          BB("select.done", AfterSelect, "return", <<>>),
          BB("select.next", <<>>, "if", <<2, IF blocking THEN 4 ELSE 2>>),
          BB("select.next", <<>>, "panic", <<>>)>>)

\* A select in the body of a case.
NestedSelect ==
  WithF(<<BB("entry", <<Choose(<<Case(FALSE, <<"a">>), Case(TRUE, <<"b">>)>>, FALSE)>>, "if", <<2, 3>>),
          BB("select.body", <<Choose(<<Case(FALSE, <<"b">>)>>, FALSE)>>, "if", <<4, 5>>),
          BB("select.next", <<>>, "if", <<6, 7>>),
          BB("select.body", <<Do("close", <<"a">>)>>, "jump", <<5>>),
          BB("select.done", <<>>, "jump", <<7>>),
          BB("select.body", <<Do("close", <<"b">>)>>, "jump", <<7>>),
          BB("select.done", AfterSelect, "return", <<>>)>>)

\* A case of several blocks: if e { b <- 1 }, and a statement after the select.
BranchInCase ==
  {WithF(<<BB("entry", <<Do("Lock", <<"m">>), Choose(<<Case(FALSE, <<"a">>), Case(FALSE, <<"b">>)>>, TRUE)>>,
              "if", <<2, 3>>),
           BB("select.body", <<>>, "if", <<5, 6>>),
           BB("select.next", <<>>, "if", <<7, 4>>),
           BB("select.next", <<>>, "panic", <<>>),
           BB("if.then", <<Do("send", <<"b">>)>>, "jump", <<6>>),
           BB("select.done", AfterSelect, "return", <<>>),
           BB("select.body", <<>>, "jump", <<6>>)>>)}

-----------------------------------------------------------------------------
(* Loops.                                                                  *)

LoopBodies == {<<Do("send", <<"a">>)>>, <<CallOf("go", <<"f", "g">>), Do("write", <<"x">>)>>,
               <<CallOf("go", <<"f">>), CallOf("call", <<"g">>)>>}
WithFG(blks) == [FG(<<>>, <<Do("Lock", <<"m">>), Do("defer Unlock", <<"m">>), Do("write", <<"x">>)>>, <<Do("recv", <<"a">>)>>)
                  EXCEPT !["main"] = App("main", blks)]

RangeLoop(kind, body, after) ==
  <<BB("entry", <<>>, "jump", <<2>>),
    BB(kind[1], <<>>, "if", <<3, 4>>),
    BB(kind[2], body, "jump", <<2>>),
    BB(kind[3], after \o RunReturn, "return", <<>>)>>
ForLoop(body, after, leave) ==
  <<BB("entry", <<>>, "jump", <<3>>),
    BB("for.body", body, IF leave THEN "return" ELSE "if", IF leave THEN <<>> ELSE <<4, 3>>),
    BB("for.loop", <<>>, "if", <<2, 5>>),
    BB("if.then", <<Do("close", <<"a">>)>> \o RunReturn, "return", <<>>),
    BB("for.done", after \o RunReturn, "return", <<>>)>>
Kinds == {<<"rangechan.loop", "rangechan.body", "rangechan.done">>,
          <<"rangeindex.loop", "rangeindex.body", "rangeindex.done">>,
          <<"rangeiter.loop", "rangeiter.body", "rangeiter.done">>}
Loops ==
  {WithFG(RangeLoop(k, b, a)) : k \in Kinds, b \in LoopBodies, a \in {<<>>, <<Do("write", <<"x">>)>>}}
  \cup {WithFG(ForLoop(b, <<Do("write", <<"x">>)>>, leave)) : b \in LoopBodies, leave \in BOOLEAN}

-----------------------------------------------------------------------------
SmallPrograms ==
  StraightPrograms \cup Recursive \cup Several \cup AfterFuncs \cup Contexts \cup Selects
  \cup {EmptyCases(TRUE), EmptyCases(FALSE), NestedSelect} \cup BranchInCase \cup Loops

==============================================================================

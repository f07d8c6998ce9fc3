----------------------------- MODULE GoPrograms -----------------------------
(***************************************************************************)
(* Small Go programs as resource flow graphs, for TLC.  A program is the   *)
(* sequence of its nodes in id order (node 0 first), the order in which    *)
(* DFS and DFSBB create them: the body of a goroutine right after its go   *)
(* node.  up is the node under which updateNodes appends it (prev_node),   *)
(* NoNode for main, for the cases of a select and for a node that is only  *)
(* the original of a deferred copy.                                        *)
(***************************************************************************)
EXTENDS RFG

At(typ, t, up) ==
  [typId |-> typ, gid |-> t, pts |-> <<>>, isSender |-> FALSE,
   up |-> up, cases |-> <<>>, case_sel |-> 0, case_kind |-> "chan",
   select_node_id |-> 0, from_defer |-> FALSE, isWGDone |-> FALSE,
   loop_name |-> "none", enterLoop |-> FALSE, fn |-> "main"]
On(typ, t, up, o) == [At(typ, t, up) EXCEPT !.pts = <<o>>]
In(f, nd) == [nd EXCEPT !.fn = f]

Go(t, up) == At("NGoroutine", t, up)
Exit(t, up) == At("NExit", t, up)
ExitWG(t, up, w) == [On("NExit", t, up, w) EXCEPT !.isWGDone = TRUE]
Send(t, up, ch) == [On("NChannel", t, up, ch) EXCEPT !.isSender = TRUE]
Recv(t, up, ch) == On("NChannel", t, up, ch)
Select(t, up, cs) == [At("NSelect", t, up) EXCEPT !.cases = cs]
Case(t, sel, ch) == [On("NCase", t, NoNode, ch) EXCEPT !.case_sel = sel]
CaseSends(t, sel, ch) == [Case(t, sel, ch) EXCEPT !.isSender = TRUE]
CaseCtx(t, sel, c) == [On("NCaseDone", t, NoNode, c) EXCEPT !.case_sel = sel]
Timer(t, sel) == [At("NCase", t, NoNode) EXCEPT !.case_sel = sel, !.case_kind = "timer"]
Default(t, sel) == [At("NCase", t, NoNode) EXCEPT !.case_sel = sel, !.case_kind = "default"]
Loop(typ, t, up, l, enter) == [At(typ, t, up) EXCEPT !.loop_name = l, !.enterLoop = enter]
Deferred(nd) == [nd EXCEPT !.from_defer = TRUE]
InSel(s, nd) == [nd EXCEPT !.select_node_id = s]

RWs(t, up) == At("NRW", t, up)
Lock(t, up, o) == On("NLock", t, up, o)
Unlock(t, up, o) == On("NUnlock", t, up, o)
RLock(t, up, o) == On("NRLock", t, up, o)
RUnlock(t, up, o) == On("NRUnlock", t, up, o)

MakeRFG(p) ==
  LET N == 0..(Len(p) - 1)
      ids == [i \in 1..Len(p) |-> i - 1]
      T == {p[i].gid : i \in 1..Len(p)}
      kidsOf(n) == SelectSeq(ids, LAMBDA k : p[k + 1].up = n)
      uses(k, o) == InSeq(o, p[k + 1].pts)
      doneOf(t) == {n \in N : p[n + 1].typId = "NWGDone" /\ p[n + 1].gid = t}
  IN  [id2node |-> [n \in N |->
         [f \in (DOMAIN p[n + 1] \ {"up"}) \cup {"kids"} |->
            IF f = "kids" THEN kidsOf(n) ELSE p[n + 1][f]]],
       roots |-> [t \in T |-> CHOOSE n \in N :
                    p[n + 1].typId = "NGoroutine" /\ p[n + 1].gid = t],
       resources |-> [o \in Obj |->
         [producers |-> SelectSeq(ids, LAMBDA k : uses(k, o) /\ Produces(p[k + 1])),
          consumers |-> SelectSeq(ids, LAMBDA k : uses(k, o) /\ ~Produces(p[k + 1]))]],
       tid2end |-> [t \in T |-> IF doneOf(t) = {} THEN NoNode
                    ELSE CHOOSE n \in doneOf(t) : \A k \in doneOf(t) : k <= n]]

-----------------------------------------------------------------------------
(* Programs of a goroutine and main without branches.  A body is a         *)
(* sequence of operations <<typ, object>>.                                 *)

Node1(op, t, up) ==
  CASE op[1] = "send" -> Send(t, up, op[2])
    [] op[1] = "recv" -> Recv(t, up, op[2])
    [] op[1] = "NRW" -> RWs(t, up)
    [] OTHER -> On(op[1], t, up, op[2])

(* The body of goroutine t under its go node: first is the id of its first *)
(* node.                                                                   *)
Chain(b, t, root, first) ==
  [i \in 1..(Len(b) + 1) |->
     LET up == IF i = 1 THEN root ELSE first + i - 2
     IN  IF i > Len(b) THEN Exit(t, up) ELSE Node1(b[i], t, up)]

GoAndMain(b1, b0) ==
  MakeRFG(<<Go(0, -1), Go(1, 0)>> \o Chain(b1, 1, 1, 2) \o Chain(b0, 0, 0, Len(b1) + 3))

=============================================================================

-------------------------------- MODULE Build --------------------------------
(***************************************************************************)
(* Creating the resource flow graph (concurrency/rfg.go: CreateGraph, DFS, *)
(* DFSBB): the builder goes through the functions of a program in call     *)
(* order and leaves the graph g that the detectors walk.                   *)
(*                                                                         *)
(* The recursion of DFS and DFSBB is a stack of calls, each with a stack   *)
(* of blocks: the outermost block comes from the loop over the blocks of   *)
(* the function, the others are bodies of select cases.  Objects of an     *)
(* instruction are what getPTS returns, after g.alias.                     *)
(***************************************************************************)
EXTENDS RFG, SSA, FiniteSets, TLC

CONSTANTS
  Programs,  \* the programs, functions from call-graph nodes
  limit,     \* how often a call is followed: 3 in the code
  DoRace     \* flags.DoRace

ASSUME BuildAssumption == limit \in Nat \ {0} /\ DoRace \in BOOLEAN

NoLoop == <<"", 0>>
LoopOf == [c \in {"for.body", "rangechan.loop", "rangeindex.loop", "rangeiter.loop"} |->
             CASE c = "for.body" -> "for" [] c = "rangechan.loop" -> "roc" [] OTHER -> "loop"]

\* Blocks lead to blocks of the function; the head of a range loop decides
\* between the body and what comes after it.
IsProgram(q) ==
  LET State == [kind : {"chan", "done", "other"}, on : Seq(Obj), send : BOOLEAN, case_kind : CaseKind]
      Inst == [op : STRING, on : Seq(Obj), callees : Seq(DOMAIN q), text : STRING,
               states : Seq(State), blocking : BOOLEAN]
      Blk == [comment : STRING, instrs : Seq(Inst), term : STRING, two : BOOLEAN, succs : Seq(Nat)]
  IN  /\ q \in [DOMAIN q -> [fn : Fn, kind : {"app", "lib", "cancel"}, blocks : Seq(Blk)]]
      /\ "main" \in DOMAIN q
      /\ \A cg \in DOMAIN q : \A b \in DOMAIN q[cg].blocks :
           LET blk == q[cg].blocks[b]
           IN  /\ blk.succs \in Seq(DOMAIN q[cg].blocks)
               /\ blk.comment \in DOMAIN LoopOf \ {"for.body"} => Len(blk.succs) = 2
               /\ <<cg, b>> \in LoopName

ASSUME ProgramsAssumption == NoLoop \in LoopName /\ \A q \in Programs : IsProgram(q)

VARIABLES
  p,         \* the program
  status,    \* "build", "done", "crash"
  calls,     \* the activations of DFS
  visited,   \* g.visited: signature -> times
  contexts,  \* g.contexts: objects of WithCancel
  wg_pts,    \* g.tid2wg_pts: goroutine -> objects
  held       \* holding_locks and holding_rlocks: <<"w" or "r", goroutine, object>>

vars == <<p, g, status, calls, visited, contexts, wg_pts, held>>

With(f, x, v) == [y \in DOMAIN f \cup {x} |-> IF y = x THEN v ELSE f[y]]

-----------------------------------------------------------------------------
(* Nodes and edges. *)

ID(G) == Cardinality(DOMAIN G.id2node)

NewNode(typ, tid, cg) ==
  [typId |-> typ, gid |-> tid, pts |-> <<>>, isSender |-> FALSE, kids |-> <<>>,
   cases |-> <<>>, case_sel |-> 0, case_kind |-> "chan", select_node_id |-> 0,
   from_defer |-> FALSE, isWGDone |-> FALSE, loop_name |-> NoLoop, enterLoop |-> FALSE, fn |-> p[cg].fn]

\* The nodes nds get the next ids, NewIds, in their order.
Store(G, nds) ==
  [G EXCEPT !.id2node = [n \in 0 .. ID(G) + Len(nds) - 1 |->
                           IF n < ID(G) THEN @[n] ELSE nds[n - ID(G) + 1]]]
NewIds(G, nds) == [i \in DOMAIN nds |-> ID(G) + i - 1]
Link(G, from, ns) == [G EXCEPT !.id2node[from].kids = @ \o ns]
updateNodes(G, prev_node, nd) == Link(Store(G, <<nd>>), prev_node, <<ID(G)>>)

Ascending(S) ==
  CHOOSE s \in [1 .. Cardinality(S) -> S] : \A i, j \in DOMAIN s : i < j => s[i] < s[j]

\* UpdateResources and UpdateResourcesInner, for the nodes in S by their ids.
UpdateResources(G, S) ==
  LET Of(o) == {n \in S : InSeq(o, G.id2node[n].pts)}
  IN  [G EXCEPT !.resources = [o \in Obj |->
         [producers |-> @[o].producers \o Ascending({n \in Of(o) : Produces(G.id2node[n])}),
          consumers |-> @[o].consumers \o Ascending({n \in Of(o) : ~Produces(G.id2node[n])})]]]

\* The nodes nds of some resources, with edges from prev_node to ns.
AddNodes(G, prev_node, nds, ns) ==
  UpdateResources(Link(Store(G, nds), prev_node, ns), ID(G) .. ID(G) + Len(nds) - 1)
AddNode(G, prev_node, nd) == AddNodes(G, prev_node, <<nd>>, <<ID(G)>>)

\* UpdateLockset: what a lock or unlock node does to the locks held.
LockMode == [NLock |-> "w", NUnlock |-> "w", NRLock |-> "r", NRUnlock |-> "r"]
UpdateLockset(L, nd) ==
  LET these == IF nd.typId \in DOMAIN LockMode
               THEN {<<LockMode[nd.typId], nd.gid, o>> : o \in ToSet(nd.pts)} ELSE {}
  IN  IF ~DoRace THEN L
      ELSE IF nd.typId \in {"NLock", "NRLock"} THEN L \cup these ELSE L \ these

computeLockset(tid) == {l[3] : l \in {x \in held : x[2] = tid}}

-----------------------------------------------------------------------------
(* Activations. *)

\* hasInterestingInsts: a store is of interest to the race detector only.
hasInterestingInsts(bs) ==
  LET dull == {"rundefers", "return", "plain"} \cup (IF DoRace THEN {} ELSE {"write"})
  IN  \E b \in DOMAIN bs : \E j \in DOMAIN bs[b].instrs : bs[b].instrs[j].op \notin dull

\* creatorHelper, and the loop of DFS over the blocks.
Call(cg, tid, node) ==
  [cg |-> cg, tid |-> tid, top |-> node, prev |-> node,
   bb |-> IF hasInterestingInsts(p[cg].blocks) /\ p[cg].kind # "cancel" THEN 1
          ELSE Len(p[cg].blocks) + 1,
   loop |-> "none", bodies |-> <<>>, start |-> 0, first |-> {},
   loop_name |-> NoLoop, for_loop_name |-> NoLoop, roc_name |-> NoLoop,
   skips |-> {}, select_node_id |-> 0,
   defer_unlocks |-> <<>>, defer_closes |-> <<>>, defer_calls |-> <<>>, bbs |-> <<>>]

\* An activation of DFSBB.  how: the kind of call whose callees (todo) are
\* being followed; sel: the select whose cases are being made, body: the
\* blocks of the current one.
Block(b, prev_node) ==
  [bb |-> b, j |-> 1, prev |-> prev_node, cur |-> prev_node,
   how |-> "none", todo |-> <<>>, nth |-> 1,
   sel |-> NoNode, case |-> 1, bodies |-> <<>>, body |-> NoBody]

h == Last(calls)
blocks == p[h.cg].blocks
B == Last(h.bbs)
inst == blocks[B.bb].instrs[B.j]

Building == status = "build"
InBlock == Building /\ h.bbs # <<>>
AtInst == InBlock /\ B.how = "none" /\ B.sel = NoNode /\ B.j <= Len(blocks[B.bb].instrs)

SetCall(f) == calls' = [calls EXCEPT ![Len(calls)] = f]
WithBlock(f, b) == [f EXCEPT !.bbs[Len(f.bbs)] = b]

Mark(G, f, b) ==
  IF f.select_node_id > 0 THEN [G EXCEPT !.id2node[b.prev].select_node_id = f.select_node_id] ELSE G

\* The instruction is over: the graph is G, the block b of the call f goes on.
Over(f, b, G) ==
  /\ g' = Mark(G, f, b)
  /\ SetCall(WithBlock(f, [b EXCEPT !.j = @ + 1, !.how = "none", !.todo = <<>>, !.nth = 1]))

\* What a deferred call reads as is not part of it, nor is its context.
getSig(text, callee) == IF text = "" THEN <<text, p[callee].fn>> ELSE <<text, callee>>
Times(sig) == IF sig \in DOMAIN visited THEN visited[sig] ELSE 0

doVisit(text, callee) == p[callee].kind # "lib" /\ Times(getSig(text, callee)) < limit

Count(sig) == visited' = With(visited, sig, Times(sig) + 1)

\* DFS starts: the node of a goroutine or function, below the node parent.
Enter(f, cg, text, parent, isThread) ==
  LET tid == IF isThread THEN Cardinality(DOMAIN g.roots) ELSE gid(parent)
      n == ID(g)
      G == updateNodes(g, parent, NewNode(IF isThread THEN "NGoroutine" ELSE "NFunc", tid, cg))
  IN  /\ g' = IF ~isThread THEN G
              ELSE [G EXCEPT !.roots = With(@, tid, n), !.tid2end = With(@, tid, NoNode),
                             !.gid2nloop = With(@, tid, {})]
      /\ calls' = Append([calls EXCEPT ![Len(calls)] = f], Call(cg, tid, n))
      /\ Count(getSig(text, cg))

-----------------------------------------------------------------------------
(* DFS: the loop over the blocks of the function. *)

Init ==
  /\ p \in Programs
  /\ g = [id2node |-> [n \in {0} |-> NewNode("NGoroutine", 0, "main")], roots |-> [t \in {0} |-> 0],
          resources |-> [o \in Obj |-> [producers |-> <<>>, consumers |-> <<>>]],
          tid2end |-> [t \in {0} |-> NoNode], rws |-> <<>>, gid2nloop |-> [t \in {0} |-> {}]]
  /\ status = "build"
  /\ calls = <<Call("main", 0, 0)>>
  /\ visited = (getSig("", "main") :> 1)
  /\ contexts = {}
  /\ wg_pts = [t \in {} |-> <<>>]
  /\ held = {}

InDFS == Building /\ h.bbs = <<>>

\* DFSBB is called on block b, or returns at once.
StartBlock(f, b) ==
  LET handled == b \in f.skips \/ blocks[b].comment = "recover" \/ onlyDeferReturn(blocks[b])
      rest == IF f.loop = "none" THEN [f EXCEPT !.bb = @ + 1] ELSE [f EXCEPT !.bodies = Tail(@)]
  IN  SetCall(IF handled THEN rest
              ELSE [rest EXCEPT !.bbs = <<Block(b, f.prev)>>, !.skips = @ \cup {b}])

NextBlock ==
  /\ InDFS
  /\ \/ h.loop # "none" /\ h.bodies # <<>> /\ StartBlock(h, Head(h.bodies))
     \/ /\ h.loop = "none" /\ h.bb <= Len(blocks)
        /\ blocks[h.bb].comment \notin DOMAIN LoopOf
        /\ StartBlock(h, h.bb)
  /\ UNCHANGED <<p, g, status, visited, contexts, wg_pts, held>>

\* The first block of a loop: its node, then its blocks.  getLoopBBs takes
\* the first successor of the block without looking whether there is one.
LoopEnter ==
  LET kind == LoopOf[blocks[h.bb].comment]
      name == <<h.cg, h.bb>>
      n == ID(g)
      typ == IF kind = "roc" THEN "NROC" ELSE "NLoop"
  IN  /\ InDFS
      /\ h.loop = "none"
      /\ h.bb <= Len(blocks)
      /\ blocks[h.bb].comment \in DOMAIN LoopOf
      /\ g' = updateNodes(g, h.prev, [NewNode(typ, h.tid, h.cg) EXCEPT !.loop_name = name, !.enterLoop = TRUE])
      /\ IF blocks[h.bb].succs = <<>> THEN status' = "crash" /\ UNCHANGED calls
         ELSE /\ SetCall([h EXCEPT !.loop = kind, !.prev = n, !.start = n,
                                   !.for_loop_name = IF kind = "for" THEN name ELSE @,
                                   !.roc_name = IF kind = "roc" THEN name ELSE @,
                                   !.loop_name = IF kind = "loop" THEN name ELSE @,
                                   !.bodies = getLoopBBs(blocks, h.bb, h.skips)])
              /\ UNCHANGED status
      /\ UNCHANGED <<p, visited, contexts, wg_pts, held>>

\* The end of a loop: the nodes in it may run in parallel with the first
\* goroutines it starts.  A for loop is closed under the name of a range loop.
LoopExit ==
  LET n == ID(g)
      typ == IF h.loop = "roc" THEN "NROC" ELSE "NLoop"
      name == IF h.loop = "roc" THEN h.roc_name ELSE h.loop_name
      G == [g EXCEPT !.gid2nloop = [t \in DOMAIN @ |->
              IF t \in h.first THEN {r \in @[t] : r[1] # h.start} \cup {<<h.start, h.prev>>} ELSE @[t]]]
  IN  /\ InDFS
      /\ h.loop # "none"
      /\ h.bodies = <<>>
      /\ g' = updateNodes(G, h.prev, [NewNode(typ, h.tid, h.cg) EXCEPT !.loop_name = name])
      /\ SetCall([h EXCEPT !.loop = "none", !.prev = n, !.first = {}, !.bb = @ + 1])
      /\ UNCHANGED <<p, status, visited, contexts, wg_pts, held>>

\* The contexts of a ctx.Done() that are known, one node each.
Known(objs) ==
  LET at == Ascending({i \in DOMAIN objs : objs[i] \in contexts}) IN [k \in DOMAIN at |-> objs[at[k]]]
Dones(sel, i) ==
  IF i <= Len(sel.states) /\ sel.states[i].kind = "done" THEN Known(sel.states[i].on) ELSE <<>>

\* The next case of the select, or the next context of the same case.
NextCase(b, sel) ==
  IF b.nth < Len(Dones(sel, b.case)) THEN [b EXCEPT !.nth = @ + 1]
  ELSE [b EXCEPT !.nth = 1, !.case = @ + 1]

\* The last instruction of a block, then DFSBB returns: to the loop over the
\* blocks, or to the select whose case it was, where the other blocks of
\* that case are marked as handled.
BlockEnd ==
  /\ InBlock
  /\ B.how = "none"
  /\ B.sel = NoNode
  /\ B.j > Len(blocks[B.bb].instrs)
  /\ g' = Mark(g, h, B)
  /\ IF Len(h.bbs) = 1 THEN SetCall([h EXCEPT !.prev = B.prev, !.bbs = <<>>])
     ELSE LET outer == h.bbs[Len(h.bbs) - 1]
              f == [h EXCEPT !.bbs = Front(@), !.skips = @ \cup outer.body.all]
          IN  SetCall(WithBlock(f, NextCase(outer, blocks[outer.bb].instrs[outer.j])))
  /\ UNCHANGED <<p, status, visited, contexts, wg_pts, held>>

-----------------------------------------------------------------------------
(* DFSBB: instructions that make one node. *)

NodeOf ==
  [Lock |-> "NLock", RLock |-> "NRLock", Unlock |-> "NUnlock", RUnlock |-> "NRUnlock",
   close |-> "NClose", WGWait |-> "NWGWait", WGDone |-> "NWGDone", CondWait |-> "NCONDWait",
   Signal |-> "NSignal", Broadcast |-> "NBroadcast", send |-> "NChannel", recv |-> "NChannel"]

\* Lock and unlock nodes are assigned to prev_node only.
Sync ==
  LET nd == [NewNode(NodeOf[inst.op], h.tid, h.cg) EXCEPT !.pts = inst.on, !.isSender = inst.op = "send"]
      n == ID(g)
      G == AddNode(g, B.prev, nd)
      done == inst.op = "WGDone"
  IN  /\ AtInst
      /\ inst.op \in DOMAIN NodeOf
      /\ Over(h, [B EXCEPT !.prev = n, !.cur = IF nd.typId \in DOMAIN LockMode THEN @ ELSE n],
              IF done THEN [G EXCEPT !.tid2end[h.tid] = n] ELSE G)
      /\ wg_pts' = IF done THEN With(wg_pts, h.tid, inst.on) ELSE wg_pts
      /\ held' = UpdateLockset(held, nd)
      /\ UNCHANGED <<p, status, visited, contexts>>

\* An instruction without a node; also a receive whose value is returned at once.
Plain ==
  /\ AtInst
  /\ inst.op \in {"plain", "returned recv"}
  /\ Over(h, B, g)
  /\ UNCHANGED <<p, status, visited, contexts, wg_pts, held>>

WithCancel ==
  /\ AtInst
  /\ inst.op = "WithCancel"
  /\ contexts' = contexts \cup ToSet(inst.on)
  /\ Over(h, B, g)
  /\ UNCHANGED <<p, status, visited, wg_pts, held>>

\* A receive from ctx.Done(): prev_node stays where it is.
CtxDone ==
  LET known == Known(inst.on)
      nds == [i \in DOMAIN known |-> [NewNode("NCtxDone", h.tid, h.cg) EXCEPT !.pts = <<known[i]>>]]
  IN  /\ AtInst
      /\ inst.op = "ctxDone"
      /\ Over(h, B, AddNodes(g, B.prev, nds, NewIds(g, nds)))
      /\ UNCHANGED <<p, status, visited, contexts, wg_pts, held>>

\* VisitRWNode, once for every set in objs: an access joins the read/write
\* node before it, if any.
VisitRWNode(G, prev_node, typ, objs) ==
  LET joins == G.id2node[prev_node].typId = "NRW"
      nds == [i \in DOMAIN objs |-> NewNode("NRW", h.tid, h.cg)]
      ids == IF joins THEN [i \in DOMAIN objs |-> prev_node] ELSE NewIds(G, nds)
      rws == [i \in DOMAIN objs |->
                [n |-> ids[i], typID |-> typ, pts |-> objs[i], lockset |-> computeLockset(h.tid)]]
      made == IF joins THEN G ELSE Link(Store(G, nds), prev_node, ids)
  IN  [G |-> [made EXCEPT !.rws = @ \o rws], prev |-> IF joins THEN prev_node ELSE ID(G)]

Access ==
  LET made == VisitRWNode(g, B.prev, IF inst.op = "read" THEN "NRead" ELSE "NWrite", <<ToSet(inst.on)>>)
  IN  /\ AtInst
      /\ inst.op \in {"read", "write"}
      /\ IF DoRace THEN Over(h, [B EXCEPT !.prev = made.prev, !.cur = made.prev], made.G)
         ELSE Over(h, B, g)
      /\ UNCHANGED <<p, status, visited, contexts, wg_pts, held>>

\* The results of a return are read; prev_node stays where it is.  A return
\* matters in a for loop, which it leaves, and after a range over a channel.
Return ==
  LET results == [i \in DOMAIN inst.on |-> {inst.on[i]}]
      read == IF DoRace THEN VisitRWNode(g, B.prev, "NRead", results).G ELSE g
      n == ID(read)
      ret == updateNodes(read, B.prev, NewNode("NReturn", h.tid, h.cg))
      exit == [NewNode("NLoop", h.tid, h.cg) EXCEPT !.loop_name = h.for_loop_name]
  IN  /\ AtInst
      /\ inst.op = "return"
      /\ IF h.loop = "for" THEN Over(h, [B EXCEPT !.prev = n + 1, !.cur = n + 1], updateNodes(ret, n, exit))
         ELSE IF blocks[B.bb].comment = "rangechan.done" THEN Over(h, [B EXCEPT !.prev = n], ret)
         ELSE Over(h, B, read)
      /\ UNCHANGED <<p, status, visited, contexts, wg_pts, held>>

-----------------------------------------------------------------------------
(* Deferred calls. *)

DeferNode(op) ==
  [NewNode(NodeOf[op], h.tid, h.cg) EXCEPT !.pts = inst.on, !.from_defer = op # "close"]

\* Its node is made now and linked to nothing; WaitGroup.Done is left to the
\* exit of the goroutine.
Defer ==
  LET n == ID(g)
      Made(op) == UpdateResources(Store(g, <<DeferNode(op)>>), {n})
  IN  /\ AtInst
      /\ \/ /\ inst.op \in {"defer Unlock", "defer RUnlock"}
            /\ Over([h EXCEPT !.defer_unlocks = Append(@, n)], B,
                    Made(IF inst.op = "defer Unlock" THEN "Unlock" ELSE "RUnlock"))
            /\ UNCHANGED wg_pts
         \/ /\ inst.op = "defer close"
            /\ Over([h EXCEPT !.defer_closes = Append(@, n)], B, Made("close"))
            /\ UNCHANGED wg_pts
         \/ /\ inst.op = "defer WGDone"
            /\ wg_pts' = With(wg_pts, h.tid, inst.on)
            /\ Over(h, B, g)
         \/ /\ inst.op = "defer call"
            /\ Over([h EXCEPT !.defer_calls = inst.callees \o @], B, g)
            /\ UNCHANGED wg_pts
      /\ UNCHANGED <<p, status, visited, contexts, held>>

\* Copies of the nodes in s, the last one first on the path from prev.
copyDeferNodes(st, s) ==
  LET n == ID(st.G)
      Copy(i) == [st.G.id2node[s[i]] EXCEPT !.kids = IF i = 1 THEN <<>> ELSE <<n + i - 2>>,
                                            !.select_node_id = 0]
  IN  IF s = <<>> THEN st
      ELSE [G |-> AddNodes(st.G, st.prev, [i \in DOMAIN s |-> Copy(i)], <<n + Len(s) - 1>>), prev |-> n]

\* The closes, then the unlocks, then the other calls.
RunDefers ==
  LET copied == copyDeferNodes(copyDeferNodes([G |-> g, prev |-> B.prev], h.defer_closes), h.defer_unlocks)
  IN  /\ AtInst
      /\ inst.op = "rundefers"
      /\ g' = copied.G
      /\ SetCall(WithBlock(h, [B EXCEPT !.prev = copied.prev, !.how = "defer",
                                        !.todo = h.defer_calls]))
      /\ UNCHANGED <<p, status, visited, contexts, wg_pts, held>>

-----------------------------------------------------------------------------
(* Calls: go, ordinary calls, sync.Once.Do, sync.Map.Range, time.AfterFunc. *)

CallOps == {"go", "call", "Do", "Range", "AfterFunc"}

StartCall ==
  /\ AtInst
  /\ inst.op \in CallOps
  /\ SetCall(WithBlock(h, [B EXCEPT !.how = inst.op, !.todo = inst.callees]))
  /\ UNCHANGED <<p, g, status, visited, contexts, wg_pts, held>>

\* checkCtxCancel: a node for every known context that is cancelled.
checkCtxCancel(G, tid, cg, from, objs) ==
  LET n == ID(G)
      known == Known(objs)
      Made(i) == [NewNode("NCancel", tid, cg) EXCEPT !.pts = <<known[i]>>,
                                                    !.kids = IF i = Len(known) THEN <<>> ELSE <<n + i>>]
  IN  IF known = <<>> THEN [G |-> G, prev |-> from]
      ELSE [G |-> AddNodes(G, from, [i \in DOMAIN known |-> Made(i)], <<n>>), prev |-> n + Len(known) - 1]

Following == InBlock /\ B.how # "none" /\ B.todo # <<>>
callee == Head(B.todo)
sigText == IF B.how = "defer" THEN "" ELSE inst.text
Dropped == [B EXCEPT !.todo = Tail(@), !.nth = @ + 1]

\* Mutant: a callee that is not followed stays where it is.
SkipCallee_stay == Following /\ ~doVisit(sigText, callee) /\ UNCHANGED vars

\* A callee that is not followed; the go statement then leaves out the rest.
SkipCallee ==
  /\ Following
  /\ ~doVisit(sigText, callee)
  /\ SetCall(WithBlock(h, IF B.how = "go" THEN [B EXCEPT !.todo = <<>>] ELSE Dropped))
  /\ UNCHANGED <<p, g, status, visited, contexts, wg_pts, held>>

\* A call of the cancel function: prev_node stays where it is.
Cancel ==
  LET made == checkCtxCancel(g, h.tid, h.cg, B.prev, inst.on)
  IN  /\ Following
      /\ doVisit(sigText, callee)
      /\ B.how = "call"
      /\ p[callee].kind = "cancel"
      /\ g' = made.G
      /\ SetCall(WithBlock(h, [Dropped EXCEPT !.cur = IF Known(inst.on) = <<>> THEN @ ELSE made.prev]))
      /\ UNCHANGED <<p, status, visited, contexts, wg_pts, held>>

\* Do, Range and AfterFunc hang the callee below cur_node.
Follow ==
  /\ Following
  /\ doVisit(sigText, callee)
  /\ ~(B.how = "call" /\ p[callee].kind = "cancel")
  /\ Enter(WithBlock(h, Dropped), callee, sigText,
           IF B.how \in {"go", "call", "defer"} THEN B.prev ELSE B.cur, B.how \in {"go", "AfterFunc"})
  /\ UNCHANGED <<p, status, contexts, wg_pts, held>>

EndCall ==
  /\ InBlock
  /\ B.how # "none"
  /\ B.todo = <<>>
  /\ Over(h, IF B.how = "Do" THEN [B EXCEPT !.prev = B.cur] ELSE B, g)
  /\ UNCHANGED <<p, status, visited, contexts, wg_pts, held>>

\* Mutant: the exit is a node of the goroutine that executes the go statement.
ExitGid_spawner(f, last) == f.tid

ExitGid(f, last) == gid(last)

\* updateWGExit: the exit of goroutine tid stands for its deferred Done.
updateWGExit(G, tid, exit) ==
  IF G.tid2end[tid] # NoNode \/ tid \notin DOMAIN wg_pts THEN G
  ELSE UpdateResources([G EXCEPT !.id2node[exit].pts = wg_pts[tid], !.id2node[exit].isWGDone = TRUE,
                                 !.id2node[exit].gid = tid], {exit})

\* The goroutine that call f has started ends after the node last.
GoExit(f, b, last, site) ==
  LET cancels == p[h.cg].kind = "cancel" /\ Known(site.on) # <<>>
      made == IF cancels THEN checkCtxCancel(g, f.tid, f.cg, last, site.on) ELSE [G |-> g, prev |-> b.cur]
      exit == ID(made.G)
      G == updateNodes(made.G, last, NewNode("NExit", ExitGid(f, last), f.cg))
  IN  [G |-> updateWGExit(G, h.tid, exit), cur |-> made.prev]

\* Mutant: the caller goes on from the first node of the function.
After_top(b, last) ==
  CASE b.how \in {"call", "defer"} -> [b EXCEPT !.prev = h.top, !.cur = h.top]
    [] OTHER -> [b EXCEPT !.cur = last]

After(b, last) ==
  CASE b.how \in {"call", "defer"} -> [b EXCEPT !.prev = last, !.cur = last]
    [] OTHER -> [b EXCEPT !.cur = last]

\* Mutant: deferred unlocks do not count.
Released_never == held

\* The locks a function releases when it returns.
Released ==
  FoldLeft(LAMBDA L, n : UpdateLockset(L, g.id2node[n]), held, Reverse(h.defer_unlocks))

\* DFS returns, to the instruction that called it or to CreateGraph.
Leave ==
  LET f == calls[Len(calls) - 1]
      b == Last(f.bbs)
      site == p[f.cg].blocks[b.bb].instrs[b.j]
      ended == GoExit(f, b, h.prev, site)
  IN  /\ InDFS
      /\ h.loop = "none"
      /\ h.bb > Len(blocks)
      /\ held' = Released
      /\ \/ /\ Len(calls) = 1
            /\ g' = updateNodes(g, h.prev, NewNode("NExit", 0, "main"))
            /\ status' = "done"
            /\ calls' = <<>>
         \/ /\ Len(calls) > 1
            /\ b.how # "go"
            /\ calls' = [Front(calls) EXCEPT ![Len(calls) - 1] = WithBlock(f, After(b, h.prev))]
            /\ UNCHANGED <<g, status>>
         \/ /\ Len(calls) > 1
            /\ b.how = "go"
            /\ g' = ended.G
            /\ calls' = [Front(calls) EXCEPT ![Len(calls) - 1] =
                 WithBlock([f EXCEPT !.first = IF DoRace /\ f.loop # "none" /\ b.nth = 2
                                               THEN @ \cup {gid(h.prev)} ELSE @],
                           [b EXCEPT !.cur = ended.cur])]
            /\ UNCHANGED status
      /\ UNCHANGED <<p, visited, contexts, wg_pts>>

-----------------------------------------------------------------------------
(* Select. *)

Select ==
  LET n == ID(g)
      bodies == getCaseBBs(blocks, B.bb, h.skips, inst.blocking)
      k == Len(bodies)
      states == Len(inst.states)
      size == IF k \in {0, states} /\ ~inst.blocking THEN states + 1
              ELSE IF k = 0 THEN states ELSE k
      nd == [NewNode("NSelect", h.tid, h.cg) EXCEPT !.cases = [i \in 1 .. size |-> NoNode]]
  IN  /\ AtInst
      /\ inst.op = "select"
      /\ g' = updateNodes(g, B.prev, nd)
      /\ SetCall(WithBlock([h EXCEPT !.select_node_id = n],
                           [B EXCEPT !.sel = n, !.cur = n, !.case = 1, !.bodies = bodies]))
      /\ UNCHANGED <<p, status, visited, contexts, wg_pts, held>>

Cases == Len(inst.states) + (IF inst.blocking THEN 0 ELSE 1)

\* The node of the current case: an unknown kind of channel has none.
CaseNode ==
  LET base == [NewNode("NCase", h.tid, h.cg) EXCEPT !.case_sel = B.sel]
      s == inst.states[B.case]
  IN  CASE B.case > Len(inst.states) -> [base EXCEPT !.case_kind = "default"]
        [] Dones(inst, B.case) # <<>> -> [base EXCEPT !.typId = "NCaseDone", !.pts = <<Dones(inst, B.case)[B.nth]>>]
        [] OTHER -> [base EXCEPT !.pts = s.on, !.isSender = s.send, !.case_kind = s.case_kind]

\* completeCaseNode: DFSBB on the first block of the case.  For the others
\* h.skips is set before DFSBB is called, which then returns at once.
SelectCase ==
  LET c == ID(g)
      at == IF B.case > Len(inst.states) THEN Len(g.id2node[B.sel].cases) ELSE B.case
      none == B.case <= Len(inst.states) /\ inst.states[B.case].kind = "other"
      body == IF ~none /\ at \in DOMAIN B.bodies THEN B.bodies[at] ELSE NoBody
      handled == \/ body.start \in {0} \cup h.skips
                 \/ blocks[body.start].comment = "recover" \/ onlyDeferReturn(blocks[body.start])
      G == [UpdateResources(Store(g, <<CaseNode>>), {c}) EXCEPT !.id2node[B.sel].cases[at] = c]
      skips == h.skips \cup body.all
  IN  /\ InBlock
      /\ B.sel # NoNode
      /\ B.case <= Cases
      /\ g' = IF none THEN g ELSE G
      /\ SetCall(IF handled THEN WithBlock([h EXCEPT !.skips = skips], NextCase(B, inst))
                 ELSE [WithBlock(h, [B EXCEPT !.body = body]) EXCEPT
                         !.bbs = Append(@, Block(body.start, c)), !.skips = @ \cup {body.start}])
      /\ UNCHANGED <<p, status, visited, contexts, wg_pts, held>>

SelectEnd ==
  /\ InBlock
  /\ B.sel # NoNode
  /\ B.case > Cases
  /\ Over([h EXCEPT !.select_node_id = 0], [B EXCEPT !.prev = B.sel, !.cur = B.sel, !.sel = NoNode], g)
  /\ UNCHANGED <<p, status, visited, contexts, wg_pts, held>>

-----------------------------------------------------------------------------
Next ==
  \/ NextBlock \/ LoopEnter \/ LoopExit \/ BlockEnd \/ Leave
  \/ Sync \/ Plain \/ WithCancel \/ CtxDone \/ Access \/ Return \/ Defer \/ RunDefers
  \/ StartCall \/ SkipCallee \/ Cancel \/ Follow \/ EndCall
  \/ Select \/ SelectCase \/ SelectEnd

Spec == Init /\ [][Next]_vars

\* The builder is one goroutine in a plain recursion: it keeps running.
FairSpec == Spec /\ WF_vars(Next)

==============================================================================

--------------------------- MODULE BuildProperties ---------------------------
(***************************************************************************)
(* What the detectors expect of the graph that CreateGraph leaves.         *)
(*                                                                         *)
(* The reference is the order in which Go executes a program of functions  *)
(* without branches: events of a goroutine, with the calls it makes and,   *)
(* when a function returns, its deferred calls, last in first out.         *)
(***************************************************************************)
EXTENDS Build

Body(cg) == p[cg].blocks[1].instrs
Ops(cg) == {Body(cg)[j].op : j \in DOMAIN Body(cg)}
DeferOps == {"defer Unlock", "defer RUnlock", "defer close", "defer WGDone", "defer call"}
Deferred == [op \in DeferOps \ {"defer call"} |->
  CASE op = "defer Unlock" -> "NUnlock" [] op = "defer RUnlock" -> "NRUnlock"
    [] op = "defer close" -> "NClose" [] OTHER -> "NWGDone"]

\* How a function is called.
CalledBy(cg) == UNION {{Body(c)[j].op : j \in {k \in DOMAIN Body(c) : cg \in ToSet(Body(c)[k].callees)}} :
                         c \in DOMAIN p}

\* Programs whose order the builder should get right: no branches, calls with
\* one callee, no call cut off by the limit.  Left out is what it is known
\* to put elsewhere: sync.Once.Do after a lock, whose node is not in
\* cur_node; deferred calls of more than one kind in a function, which run
\* by kind; wg.Done deferred by a function that is not the goroutine's own,
\* or more than once.
Ordinary ==
  /\ \A sig \in DOMAIN visited : visited[sig] < limit
  /\ \A cg \in DOMAIN p :
       /\ Len(p[cg].blocks) = 1 /\ p[cg].kind = "app"
       /\ \A j \in DOMAIN Body(cg) : LET i == Body(cg)[j] IN
            /\ Len(i.callees) <= 1
            /\ i.op \in DOMAIN NodeOf \cup DeferOps \cup {"read", "write", "plain", "call", "go", "Do", "rundefers", "return"}
            /\ i.op = "return" => i.on = <<>>
            /\ i.op = "Do" => \A k \in 1 .. j - 1 : Body(cg)[k].op \notin {"Lock", "RLock", "Unlock", "RUnlock"}
       /\ Cardinality(Ops(cg) \cap DeferOps) <= 1
       /\ "WGDone" \notin Ops(cg)
       /\ "defer WGDone" \in Ops(cg) =>
            /\ cg # "main" /\ CalledBy(cg) = {"go"}
            /\ Cardinality({j \in DOMAIN Body(cg) : Body(cg)[j].op = "defer WGDone"}) = 1

\* The events of every function, with calls up to depth d.
Events(d) ==
  LET F[n \in 0 .. d] == [cg \in DOMAIN p |->
        LET Event(i) ==
              CASE i.op \in DOMAIN NodeOf -> <<<<NodeOf[i.op], i.on>>>>
                [] i.op = "read" -> <<<<"NRead", i.on>>>>
                [] i.op = "write" -> <<<<"NWrite", i.on>>>>
                [] i.op \in {"call", "Do"} /\ n > 0 -> F[n - 1][i.callees[1]]
                [] i.op = "rundefers" -> FlattenSeq(Reverse([j \in DOMAIN Body(cg) |->
                     LET def == Body(cg)[j]
                     IN  CASE def.op \in DOMAIN Deferred -> <<<<Deferred[def.op], def.on>>>>
                           [] def.op = "defer call" /\ n > 0 -> F[n - 1][def.callees[1]]
                           [] OTHER -> <<>>]))
                [] OTHER -> <<>>
        IN  FlattenSeq([j \in DOMAIN Body(cg) |-> Event(Body(cg)[j])])]
  IN  F[d]

\* The function each goroutine starts in.
StartOf(t) == CHOOSE cg \in DOMAIN p : p[cg].fn = g.id2node[g.roots[t]].fn
EventsOf(t) == Events(Cardinality(DOMAIN p))[StartOf(t)]
Accesses == {"NRead", "NWrite"}

\* The nodes of goroutine t from its root, as long as there is one way on.
Onward(n) == SelectSeq(kids(n), LAMBDA k : typId(k) # "NGoroutine")
PathOf(t) ==
  LET W[k \in 1 .. Cardinality(Node)] ==
        IF k = 1 THEN <<g.roots[t]>>
        ELSE LET path == W[k - 1]
                 onward == Onward(Last(path))
             IN  IF Len(onward) = 1 THEN Append(path, Head(onward)) ELSE path
  IN  W[Cardinality(Node)]

\* What a node of the path stands for.
Shown(n) ==
  IF typId(n) = "NExit" /\ g.id2node[n].isWGDone THEN <<<<"NWGDone", pts(n)>>>>
  ELSE IF typId(n) \in {"NGoroutine", "NFunc", "NRW", "NExit"} THEN <<>>
  ELSE <<<<typId(n), pts(n)>>>>

-----------------------------------------------------------------------------

\* Programs in which the builder hangs no node of one goroutine below another:
\* it does so for go cancel(), whose node gets the spawner's goroutine, and
\* after a time.AfterFunc, which leaves cur_node in the goroutine it starts
\* for a sync.Once.Do later in the block to go on from.
OwnNodes(q) ==
  \A cg \in DOMAIN q : \A b \in DOMAIN q[cg].blocks : \A j \in DOMAIN q[cg].blocks[b].instrs :
    LET s == q[cg].blocks[b].instrs
    IN  /\ s[j].op = "go" => \A i \in DOMAIN s[j].callees : q[s[j].callees[i]].kind # "cancel"
        /\ s[j].op = "Do" => \A k \in 1 .. j - 1 : s[k].op # "AfterFunc"

InIdOrder(G) ==
  \A o \in Obj : LET cs == G.resources[o].consumers
                 IN  \A i, j \in DOMAIN cs : i < j => cs[i] < cs[j]

\* The detectors get the graph they rely on (RFGAssumption): edges that do
\* not start a goroutine stay in theirs, cases know their select, every
\* resource lists existing nodes, the consumers in the order of their ids.
WellBuilt == (status = "done" /\ OwnNodes(p)) => IsRFG(g) /\ InIdOrder(g)

\* Along the graph a goroutine meets its operations in the order in which Go
\* executes them, through calls and deferred calls, up to its own exit.
PathExact ==
  (status = "done" /\ Ordinary) => \A t \in Tid :
    LET path == PathOf(t)
    IN  /\ FlattenSeq([k \in DOMAIN path |-> Shown(path[k])])
             = SelectSeq(EventsOf(t), LAMBDA e : e[1] \notin Accesses)
        /\ typId(Last(path)) = "NExit" /\ gid(Last(path)) = t
        /\ kids(Last(path)) = <<>>

\* The lockset recorded with an access is the set of locks that its goroutine
\* holds there, also when they are taken or released in a function it calls
\* or by a deferred unlock.
HeldAfter(events) ==
  FoldLeft(LAMBDA L, e : CASE e[1] \in {"NLock", "NRLock"} -> L \cup {<<LockMode[e[1]], e[2]>>}
                           [] e[1] \in {"NUnlock", "NRUnlock"} -> L \ {<<LockMode[e[1]], e[2]>>}
                           [] OTHER -> L, {}, events)
LocksetExact ==
  (status = "done" /\ Ordinary) => \A t \in Tid :
    LET events == EventsOf(t)
        Seen(k) == [typID |-> events[k][1], pts |-> ToSet(events[k][2]),
                    lockset |-> UNION {ToSet(l[2]) : l \in HeldAfter(SubSeq(events, 1, k - 1))}]
        rws == SelectSeq(g.rws, LAMBDA r : gid(r.n) = t)
        expected == FlattenSeq([k \in DOMAIN events |->
                      IF events[k][1] \in Accesses THEN <<Seen(k)>> ELSE <<>>])
    IN  [k \in DOMAIN rws |-> [typID |-> rws[k].typID, pts |-> rws[k].pts, lockset |-> rws[k].lockset]]
          = expected

\* Recursion, loops and selects notwithstanding, the builder ends.
BuildEnds == <>(status # "build")

-----------------------------------------------------------------------------
(* The inductive invariant of BuildProofs: the graph is well built from     *)
(* the start, and every activation goes on from nodes of its goroutine.     *)

Numbered(S) == IsFiniteSet(S) /\ S = 0 .. Cardinality(S) - 1
IsSeq(s) == s \in Seq(ToSet(s))

GraphInv(G) ==
  /\ DOMAIN G = {"id2node", "roots", "resources", "tid2end", "rws", "gid2nloop"}
  /\ IsRFG(G) /\ InIdOrder(G)
  /\ Numbered(DOMAIN G.id2node) /\ Numbered(DOMAIN G.roots)
  /\ \A n \in DOMAIN G.id2node : G.id2node[n].cases # <<>> => G.id2node[n].typId = "NSelect"

\* n is a node of goroutine t.
In(G, n, t) == n \in DOMAIN G.id2node /\ G.id2node[n].gid = t

BlockInv(q, G, f, b) ==
  LET bs == q[f.cg].blocks
      s == bs[b.bb].instrs
  IN  /\ DOMAIN b = {"bb", "j", "prev", "cur", "how", "todo", "nth", "sel", "case", "bodies", "body"}
      /\ b.bb \in DOMAIN bs /\ b.j \in 1 .. Len(s) + 1
      /\ In(G, b.prev, f.tid)
      /\ b.cur \in DOMAIN G.id2node
      /\ In(G, b.cur, f.tid) \/ \E k \in DOMAIN s : k <= b.j /\ s[k].op = "AfterFunc"
      /\ b.how # "none" => b.j \in DOMAIN s /\ b.sel = NoNode
      /\ b.how \in CallOps \cup {"none", "defer"}
      /\ b.how \in CallOps => s[b.j].op = b.how
      /\ b.todo \in Seq(DOMAIN q)
      /\ b.how = "go" => \A i \in DOMAIN b.todo : q[b.todo[i]].kind # "cancel"
      /\ b.sel # NoNode => /\ b.j \in DOMAIN s /\ In(G, b.sel, f.tid)
                           /\ G.id2node[b.sel].typId = "NSelect"
      /\ b.nth \in Nat \ {0} /\ b.case \in Nat \ {0}
      /\ b.how = "none" /\ b.sel = NoNode => b.nth = 1
      /\ \A i \in DOMAIN b.bodies : b.bodies[i].start \in 0 .. Len(bs)

CallInv(q, G, f) ==
  LET bs == q[f.cg].blocks
  IN  /\ DOMAIN f = {"cg", "tid", "top", "prev", "bb", "loop", "bodies", "start", "first", "loop_name",
                     "for_loop_name", "roc_name", "skips", "select_node_id", "defer_unlocks",
                     "defer_closes", "defer_calls", "bbs"}
      /\ f.cg \in DOMAIN q /\ f.tid \in DOMAIN G.roots
      /\ In(G, f.prev, f.tid)
      /\ f.bb \in Nat \ {0} /\ f.bodies \in Seq(DOMAIN bs)
      /\ {f.loop_name, f.for_loop_name, f.roc_name} \subseteq LoopName
      /\ f.select_node_id \in Nat
      /\ f.defer_unlocks \in Seq({n \in DOMAIN G.id2node : In(G, n, f.tid) /\ G.id2node[n].typId \in {"NUnlock", "NRUnlock"}})
      /\ f.defer_closes \in Seq({n \in DOMAIN G.id2node : In(G, n, f.tid) /\ G.id2node[n].typId = "NClose"})
      /\ f.defer_calls \in Seq(DOMAIN q)
      /\ IsSeq(f.bbs)
      /\ \A i \in DOMAIN f.bbs : BlockInv(q, G, f, f.bbs[i]) /\ (i < Len(f.bbs) => f.bbs[i].sel # NoNode)

\* The call c is made by the instruction that f is at.
CalledFrom(q, G, f, c) ==
  LET b == Last(f.bbs)
  IN  /\ f.bbs # <<>> /\ b.how # "none"
      /\ b.how \in {"call", "defer"} => c.tid = f.tid
      /\ b.how \in {"Do", "Range"} => c.tid = G.id2node[b.cur].gid
      /\ b.how = "go" => q[c.cg].kind # "cancel"

\* The activations that end with an exit; no goroutine of theirs has one yet.
Exiting(cs) == {i \in DOMAIN cs : i = 1 \/ Last(cs[i - 1].bbs).how = "go"}

StackInv(q, G, cs) ==
  /\ IsSeq(cs) /\ cs # <<>> /\ cs[1].tid = 0
  /\ \A i \in DOMAIN cs : CallInv(q, G, cs[i])
  /\ \A i \in 1 .. Len(cs) - 1 : CalledFrom(q, G, cs[i], cs[i + 1])
  /\ \A i, j \in Exiting(cs) : cs[i].tid = cs[j].tid => i = j
  /\ \A i \in Exiting(cs) : \A n \in DOMAIN G.id2node :
       G.id2node[n].typId = "NExit" => G.id2node[n].gid # cs[i].tid

\* The context of the current case is one of those that are known.
CaseInv(f) ==
  LET b == Last(f.bbs)
      sel == p[f.cg].blocks[b.bb].instrs[b.j]
  IN  (f.bbs # <<>> /\ b.sel # NoNode) => b.nth = 1 \/ b.nth <= Len(Dones(sel, b.case))

BuildInv ==
  /\ p \in Programs
  /\ OwnNodes(p) =>
       /\ GraphInv(g)
       /\ \A t \in DOMAIN wg_pts : wg_pts[t] \in Seq(Obj)
       /\ status = "build" => StackInv(p, g, calls) /\ CaseInv(h)

-----------------------------------------------------------------------------

\* Every operation of the blocks of a select case has a node: "collect all
\* success bbs for each case", "fill in the case body if exists".
CaseBodiesFilled ==
  status = "done" => \A cg \in DOMAIN p : \A b \in DOMAIN p[cg].blocks :
    \A j \in DOMAIN p[cg].blocks[b].instrs :
      LET i == p[cg].blocks[b].instrs[j]
      IN  i.op \in DOMAIN NodeOf =>
            \E n \in Node : /\ g.id2node[n].fn = p[cg].fn
                            /\ typId(n) = NodeOf[i.op] /\ pts(n) = i.on

==============================================================================

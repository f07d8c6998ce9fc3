-------------------------------- MODULE RFG --------------------------------
(***************************************************************************)
(* The resource flow graph (concurrency/rfg.go, types Node and RFGraph):   *)
(* what CreateGraph leaves behind and the blocking-bug detector walks.     *)
(*                                                                         *)
(* A node is its id, an integer.  The points-to sets that the detector     *)
(* asks getPTS for (channel, lock, condition, waitgroup or context of the  *)
(* node, after the replacement by g.alias) are the sequence pts of the     *)
(* node.  Names, positions and SSA instructions are left out.              *)
(***************************************************************************)
EXTENDS Integers, Sequences

CONSTANTS
  Obj,        \* abstract objects of the pointer analysis
  LoopName,   \* loop_name / roc_name of the loop nodes
  Fn,         \* functions: node.cgnode.GetFunc()
  RFGs        \* the graphs the detector is run on

VARIABLE g    \* the receiver g *RFGraph

NoNode == -1  \* a nil *Node

TypeOfNode ==
  {"NGoroutine", "NChannel", "NSelect", "NCase", "NCaseDone", "NReturn",
   "NLoop", "NROC", "NClose", "NLock", "NUnlock", "NRLock", "NRUnlock",
   "NFunc", "NExit", "NCancel", "NCtxDone", "NWGWait", "NWGDone",
   "NCONDWait", "NSignal", "NBroadcast", "NRW"}

CaseTypes == {"NCase", "NCaseDone"}

(* The kind of a select case: case_state = nil is a default block; a       *)
(* channel of type <-chan time.Time is a timer.                            *)
CaseKind == {"chan", "timer", "default"}

NodeRec ==
  [typId : TypeOfNode, gid : Nat, pts : Seq(Obj), isSender : BOOLEAN,
   kids : Seq(Nat),                         \* adjList[node]
   cases : Seq(Int), case_sel : Nat, case_kind : CaseKind,
   select_node_id : Nat, from_defer : BOOLEAN, isWGDone : BOOLEAN,
   loop_name : LoopName, enterLoop : BOOLEAN, fn : Fn]

(* UpdateResourcesInner: a node of a resource is a producer or a consumer. *)
Produces(nd) ==
  \/ nd.isSender
  \/ nd.typId \in {"NCancel", "NUnlock", "NRUnlock", "NClose", "NExit", "NWGDone",
                   "NSignal", "NBroadcast"}

(* r is a graph as DFS, DFSBB and updateNodes build it: node 0 is the main *)
(* goroutine; an edge that does not lead to a go node stays in its         *)
(* goroutine; a goroutine has one go node and at most one exit; the cases  *)
(* of a select are different nodes that belong to its goroutine and point  *)
(* back to it.                                                             *)
IsRFG(r) ==
  LET N == DOMAIN r.id2node
      T == DOMAIN r.roots
  IN  /\ 0 \in N /\ N \subseteq Nat
      /\ 0 \in T /\ T \subseteq Nat
      /\ r.id2node \in [N -> NodeRec]
      /\ r.roots \in [T -> N]
      /\ r.roots[0] = 0
      /\ \A t \in T : /\ r.id2node[r.roots[t]].gid = t
                      /\ r.id2node[r.roots[t]].typId = "NGoroutine"
      /\ r.resources \in [Obj -> [producers : Seq(N), consumers : Seq(N)]]
      /\ \A o \in Obj : LET cs == r.resources[o].consumers
                        IN  \A i \in DOMAIN cs : ~Produces(r.id2node[cs[i]])
      /\ r.tid2end \in [T -> N \cup {NoNode}]
      /\ \A n \in N :
           LET nd == r.id2node[n]
           IN  /\ nd.gid \in T
               /\ nd.typId = "NGoroutine" => r.roots[nd.gid] = n
               /\ nd.typId = "NExit" => \A k \in N :
                    r.id2node[k].typId = "NExit" /\ r.id2node[k].gid = nd.gid => k = n
               /\ nd.kids \in Seq(N)
               /\ \A i \in DOMAIN nd.kids :
                    \/ r.id2node[nd.kids[i]].typId = "NGoroutine"
                    \/ r.id2node[nd.kids[i]].gid = nd.gid
               /\ nd.cases \in Seq(N \cup {NoNode})
               /\ \A i \in DOMAIN nd.cases : nd.cases[i] # NoNode =>
                    /\ r.id2node[nd.cases[i]].gid = nd.gid
                    /\ r.id2node[nd.cases[i]].typId \in CaseTypes
                    /\ r.id2node[nd.cases[i]].case_sel = n
                    /\ \A j \in DOMAIN nd.cases : nd.cases[j] = nd.cases[i] => j = i
               /\ nd.case_sel \in N
               /\ nd.typId \in CaseTypes => /\ r.id2node[nd.case_sel].gid = nd.gid
                                           /\ r.id2node[nd.case_sel].typId = "NSelect"

ASSUME RFGAssumption == \A r \in RFGs : IsRFG(r)

-----------------------------------------------------------------------------
(* Access to the current graph.                                            *)

InSeq(x, s) == \E i \in DOMAIN s : s[i] = x

Node == DOMAIN g.id2node
Tid == DOMAIN g.roots

typId(n) == g.id2node[n].typId
gid(n) == g.id2node[n].gid
pts(n) == g.id2node[n].pts              \* getPTS(ptr of n, n.cgnode)
kids(n) == g.id2node[n].kids
isCase(n) == typId(n) \in CaseTypes
caseSel(n) == g.id2node[n].case_sel
consumers(o) == g.resources[o].consumers
producers(o) == g.resources[o].producers

(* noOtherLockOnResource: at most one lock is recorded for each object.    *)
noOtherLockOnResource(n) ==
  \A i \in DOMAIN pts(n) : Len(consumers(pts(n)[i])) <= 1

=============================================================================

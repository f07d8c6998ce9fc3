--------------------------- MODULE RaceProperties ---------------------------
(***************************************************************************)
(* What the searches, the cache and the loops of the race detector compute.*)
(***************************************************************************)
EXTENDS RaceDetection

InEntry == pc \notin {"entry", "done"}     \* detectEntry is running
Comparing == pc \in {"compare", "order", "search", "add"}
Busy == pc \in {"order", "search", "add"}  \* write and other are compared

(* The loop variables belong to the graph and the object at hand.          *)
LoopType ==
  /\ objs \subseteq Obj
  /\ wnodes \subseteq obj2WriteNode(obj)
  /\ reads \subseteq obj2ReadNode(obj)
  /\ later \subseteq wnodes
  /\ Busy \/ reads # {} \/ later # {} => write \in obj2WriteNode(obj) \ wnodes
  /\ Busy => /\ other \in (obj2ReadNode(obj) \cup obj2WriteNode(obj)) \ {write}
             /\ ~Exempt(write, other)

(* Everything the detector writes is about the graph of the current entry. *)
RaceTypeOK ==
  /\ g \in RFGs /\ todo \subseteq RFGs
  /\ pc \in {"entry", "edges", "compare", "order", "search", "add", "done"}
  /\ InEntry => /\ g \notin todo
                /\ queue \subseteq seen /\ seen \subseteq Node
                /\ sync \in [Node -> SUBSET Node]
  /\ Comparing => LoopType
  /\ pc = "search" => /\ path \in Seq(Node) /\ path # <<>>
                      /\ visited \subseteq Node /\ forward \in BOOLEAN
  /\ \A k \in DOMAIN cache : cache[k] \in BOOLEAN

(* AddHappenBeforeEdges: when races are looked for, syncAdjList leads from *)
(* each signalling node of a started goroutine to all consumers of its     *)
(* objects, and from nowhere else, whatever order the nodes were in.       *)
SyncExact == Comparing => sync = SyncKids[g]

(* DFSCanReach: an answer in the cache, which is shared by all accesses of *)
(* the two nodes and by both directions, is the happens-before relation.   *)
CacheExact ==
  \A a, b \in Node : InEntry /\ {a, b} \in DOMAIN cache =>
    (cache[{a, b}] <=> Ordered(g, a, b))

(* AddRace: whatever pair was met first, a reported race is a conflict of  *)
(* two goroutines without a common lock and without an order.              *)
OnlyRaces ==
  InEntry => \A k \in DOMAIN races :
    /\ ~Dropped(k)
    /\ \E w, x \in RW : /\ races[k] = <<w, x>> /\ PosKey(g, w, x) = k
                        /\ Racy(g, w, x)

(* DetectRace, SummarizeRaces: the report is the one of RaceReport; an     *)
(* entry counts as analysed when it is summarised.                         *)
pending == IF InEntry THEN {g} ELSE {}
Promise == INSTANCE RaceReport WITH
  todo <- todo \cup pending,
  summary <- [k \in DOMAIN summary |-> summary[k].entries]
ReportsRaces == Promise!Spec

-----------------------------------------------------------------------------
(* The inductive invariant.                                                *)

(* AddHappenBeforeEdges: nodes that have left the queue have their edges   *)
(* and have passed the search on to their kids.                            *)
EdgesInv ==
  InEntry =>
    /\ IF Plus THEN g.roots[0] \in seen ELSE seen = {}
    /\ seen \subseteq Started[g]
    /\ \A n \in seen \ queue : Kids(g)[n] \subseteq seen
    /\ \A n \in Node : sync[n] = IF n \in seen \ queue /\ Signals(g.id2node[n])
                                 THEN SyncConsumers(g, n) ELSE {}
    /\ pc # "edges" => queue = {}

(* DFSVisit: every visited node is reachable; a call that has returned has *)
(* left no neighbour out; the destination has not been met; the search     *)
(* back only starts when there is no way forward.                          *)
SearchInv ==
  pc = "search" =>
    /\ src \in visited /\ dest \notin visited
    /\ ElementsOf(path) \subseteq visited
    /\ \A n \in visited : Before[g][src][n]
    /\ \A n \in visited \ ElementsOf(path) : HB[g][n] \subseteq visited
    /\ ~forward => ~Before[g][a_n][b_n]
    /\ ~CheckGoInLoops(g, a_n, b_n)

(* DetectRace: a pair of accesses of object o is behind the loops, or      *)
(* still ahead of them.                                                    *)
Ahead(o, w, x) ==
  \/ o \in objs
  \/ /\ o = obj
     /\ \/ w \in wnodes /\ (x \in wnodes \/ g.rws[x].typID = "NRead")
        \/ w = write /\ x \in reads \cup later
        \/ x = write /\ w \in later
        \/ Busy /\ {w, x} = {write, other}
Behind(w, x) ==
  Racy(g, w, x) /\ ~Dropped(PosKey(g, w, x)) => PosKey(g, w, x) \in DOMAIN races
PairsInv ==
  Comparing => \A o \in Obj : \A w \in obj2WriteNode(o) :
    \A x \in obj2ReadNode(o) \cup (obj2WriteNode(o) \ {w}) :
      Ahead(o, w, x) \/ Behind(w, x)

RaceInv ==
  /\ RaceTypeOK /\ EdgesInv /\ SearchInv /\ CacheExact /\ OnlyRaces /\ PairsInv
  /\ pc = "edges" => cache = Empty /\ races = Empty
  /\ pc = "add" => ~Ordered(g, a_n, b_n)

=============================================================================

------------------------------- MODULE Races -------------------------------
(***************************************************************************)
(* Which accesses race (concurrency/rfgplus.go): the accesses recorded in  *)
(* an RFG, the happens-before relation of RFG+ and the races to report,    *)
(* each defined from the graph alone.  RaceDetection computes them with    *)
(* searches, caches and loops over maps.                                   *)
(*                                                                         *)
(* A graph r of the race detector has three more fields: rws, its RWNodes  *)
(* by id, gid2nloop and the name of the entry it was built for.  pts and   *)
(* lockset of an RWNode are sets: their order is never looked at.  pos is  *)
(* the source position of its instruction.                                 *)
(***************************************************************************)
EXTENDS RFG

CONSTANTS
  Plus,      \* flags.Plus
  Runs,      \* the sets of graphs that one run of DetectBugs goes through
  Entry,     \* names of entry functions
  Pos,       \* source positions
  NoPos,     \* token.NoPos
  text,      \* the statement at a position, in lower case
  Noisy,     \* positions of statements about errors and logging
  Defines    \* texts that contain ":="

RWRec(r) ==
  [n : DOMAIN r.id2node, typID : {"NRead", "NWrite"},
   pts : SUBSET Obj, lockset : SUBSET Obj, pos : Pos \cup {NoPos}]

IsRFGPlus(r) ==
  /\ \A w \in DOMAIN r.rws : r.rws[w] \in RWRec(r)
  /\ r.gid2nloop \in [DOMAIN r.roots -> SUBSET (Nat \X Nat)]
  /\ r.entry \in Entry

ASSUME RFGPlusAssumption == \A r \in RFGs : IsRFGPlus(r)
ASSUME RunsAssumption == Runs \subseteq (SUBSET RFGs) \ {{}}
ASSUME FlagAssumption == Plus \in BOOLEAN
ASSUME PosAssumption == NoPos \notin Pos /\ Noisy \subseteq Pos

-----------------------------------------------------------------------------
(* Reachability.  next gives the successors of every node; b is reachable  *)
(* from a unless some set that is closed under next holds a and not b.     *)
Closed(next, S) == \A n \in S : next[n] \subseteq S
Reach(next, a, b) ==
  \A S \in SUBSET (DOMAIN next \ {b}) : a \in S => ~Closed(next, S)

ElementsOf(s) == {s[i] : i \in DOMAIN s}
Kids(r) == [n \in DOMAIN r.id2node |-> ElementsOf(r.id2node[n].kids)]
Cases(r, n) ==
  IF r.id2node[n].typId = "NSelect" THEN ElementsOf(r.id2node[n].cases) \ {NoNode} ELSE {}

(* The nodes that order another goroutine: the cases of the switch in      *)
(* AddHappenBeforeEdges.                                                   *)
Signals(nd) ==
  \/ nd.typId = "NChannel" /\ nd.isSender
  \/ nd.typId \in {"NClose", "NCancel", "NWGDone", "NSignal", "NBroadcast"}
  \/ nd.typId = "NExit" /\ nd.isWGDone

SyncConsumers(r, n) ==
  UNION {ElementsOf(r.resources[o].consumers) : o \in ElementsOf(r.id2node[n].pts)}

(* Relations of a graph are functions on RFGs, computed once.  Started:    *)
(* the nodes that adjList leads to, from the main goroutine.               *)
Started == [r \in RFGs |->
  {n \in DOMAIN r.id2node : Reach(Kids(r), r.roots[0], n)}]

(* syncAdjList: from every signalling node that is started to all          *)
(* consumers of its objects.                                               *)
SyncKids == [r \in RFGs |-> [n \in DOMAIN r.id2node |->
  IF Plus /\ n \in Started[r] /\ Signals(r.id2node[n]) THEN SyncConsumers(r, n) ELSE {}]]

(* The edges DFSVisit follows.                                             *)
HB == [r \in RFGs |-> [n \in DOMAIN r.id2node |->
  SyncKids[r][n] \cup Cases(r, n) \cup Kids(r)[n]]]

(* a happens before b.                                                     *)
Before == [r \in RFGs |-> [a \in DOMAIN r.id2node |->
  [b \in DOMAIN r.id2node |-> Reach(HB[r], a, b)]]]

(* CheckGoInLoops: one of the nodes is in a loop that spawns the goroutine *)
(* of the other one.                                                       *)
InLoopOf(r, a, b) ==
  \E p \in r.gid2nloop[r.id2node[a].gid] : p[1] <= b /\ b <= p[2]
CheckGoInLoops(r, a, b) == InLoopOf(r, a, b) \/ InLoopOf(r, b, a)

Ordered(r, a, b) ==
  ~CheckGoInLoops(r, a, b) /\ (Before[r][a][b] \/ Before[r][b][a])

-----------------------------------------------------------------------------
(* Races.                                                                  *)

NodeOf(r, w) == r.rws[w].n
GidOf(r, w) == r.id2node[NodeOf(r, w)].gid

Conflict(r, w, x) ==
  w # x /\ r.rws[w].typID = "NWrite" /\ r.rws[w].pts \cap r.rws[x].pts # {}
Racy(r, w, x) ==
  /\ Conflict(r, w, x)
  /\ GidOf(r, w) # GidOf(r, x)
  /\ r.rws[w].lockset \cap r.rws[x].lockset = {}
  /\ ~Ordered(r, NodeOf(r, w), NodeOf(r, x))

(* AddRace: races are told apart by their two positions; the ones without  *)
(* a position, about errors or logs, or between two copies of a definition *)
(* are dropped.                                                            *)
PosKey(r, w, x) == {r.rws[w].pos, r.rws[x].pos}
Dropped(k) ==
  \/ NoPos \in k \/ k \cap Noisy # {}
  \/ \E t \in Defines : \A p \in k : text[p] = t

RaceKeys == [r \in RFGs |->
  {k \in {PosKey(r, w, x) : w, x \in DOMAIN r.rws} :
     ~Dropped(k) /\ \E w, x \in DOMAIN r.rws : Racy(r, w, x) /\ PosKey(r, w, x) = k}]

=============================================================================

--------------------------- MODULE RaceDetection ---------------------------
(***************************************************************************)
(* The race detector: DetectBugs and detectEntry (detect.go) with the race *)
(* flag, AddHappenBeforeEdges, DFSCanReach, DFSVisit (rfg.go), DetectRace, *)
(* AddRace and SummarizeRaces (rfgplus.go).                                *)
(*                                                                         *)
(* Maps are iterated in any order, and so is the result of DetectBugs'     *)
(* caller.  The adjacency lists are sets of nodes: the order in which a    *)
(* search goes through them and duplicates in them are left open.          *)
(* Checked is always false, since nothing is ever put into g.checked;      *)
(* USE_PTS_COMBINE and MORE_WRITE are false, UNIQUE_RACE_LOC is true.      *)
(***************************************************************************)
EXTENDS Races

CONSTANT AppPkg   \* flags.AppPkg # ""

ASSUME AppPkgAssumption == AppPkg \in BOOLEAN

VARIABLES
  pc,
  todo,      \* entries DetectBugs has still to go through
  summary,   \* position key -> [race, entries]
  queue,     \* AddHappenBeforeEdges: nodes to dequeue
  seen,      \* AddHappenBeforeEdges: visited
  sync,      \* g.syncAdjList
  objs,      \* DetectRace: keys of obj2WriteNode still to come
  obj,       \* the current one
  wnodes,    \* its writes after the current one
  write,     \* the current write
  reads,     \* its reads still to compare with write
  later,     \* its writes still to compare with write
  other,     \* the access being compared with write
  cache,     \* g.cache: set of two node ids -> ordered
  forward,   \* DFSCanReach: search from write to other, or back
  path,      \* the calls of DFSVisit, the innermost first
  visited,   \* DFSVisit: visited
  races      \* g.races: position key -> pair of accesses

bfsVars == <<queue, seen, sync>>
loopVars == <<objs, obj, wnodes, write, reads, later>>
dfsVars == <<forward, path, visited>>
vars == <<g, pc, todo, summary, queue, seen, sync, objs, obj, wnodes, write,
          reads, later, other, cache, forward, path, visited, races>>

-----------------------------------------------------------------------------
(* The records of the current graph.                                       *)

RW == DOMAIN g.rws
NoRW == -1
NoObj == "none"

(* UpdateRecords.                                                          *)
obj2WriteNode(o) == {w \in RW : g.rws[w].typID = "NWrite" /\ o \in g.rws[w].pts}
obj2ReadNode(o) == {x \in RW : g.rws[x].typID = "NRead" /\ o \in g.rws[x].pts}

Empty == [k \in {} |-> {}]
Put(f, k, v) == [x \in DOMAIN f \cup {k} |-> IF x = k THEN v ELSE f[x]]

Init ==
  /\ todo \in Runs
  /\ g \in todo
  /\ pc = "entry"
  /\ summary = Empty
  /\ queue = {} /\ seen = {} /\ sync = Empty
  /\ objs = {} /\ obj = NoObj /\ wnodes = {} /\ write = NoRW
  /\ reads = {} /\ later = {} /\ other = NoRW
  /\ cache = Empty /\ forward = TRUE /\ path = <<>> /\ visited = {}
  /\ races = Empty

-----------------------------------------------------------------------------
(* detectEntry: a fresh graph, then AddHappenBeforeEdges if flags.Plus.    *)
DetectEntry(r) ==
  /\ pc = "entry" /\ r \in todo
  /\ ~(AppPkg /\ DOMAIN r.roots = {0})
  /\ todo' = todo \ {r}
  /\ g' = r
  /\ queue' = IF Plus THEN {r.roots[0]} ELSE {}
  /\ seen' = queue'
  /\ sync' = [n \in DOMAIN r.id2node |-> {}]
  /\ cache' = Empty
  /\ races' = Empty
  /\ pc' = "edges"
  /\ UNCHANGED <<summary, loopVars, other, dfsVars>>

(* "Single goroutine program, return."                                     *)
SkipEntry(r) ==
  /\ pc = "entry" /\ r \in todo
  /\ AppPkg /\ DOMAIN r.roots = {0}
  /\ todo' = todo \ {r}
  /\ UNCHANGED <<g, pc, summary, bfsVars, loopVars, other, cache, dfsVars, races>>

AllDone ==
  /\ pc = "entry" /\ todo = {}
  /\ pc' = "done"
  /\ UNCHANGED <<g, todo, summary, bfsVars, loopVars, other, cache, dfsVars, races>>

(* AddHappenBeforeEdges, one turn of its loop.                             *)
AddHappenBeforeEdges(n) ==
  /\ pc = "edges" /\ n \in queue
  /\ sync' = IF Signals(g.id2node[n])
             THEN [sync EXCEPT ![n] = @ \cup SyncConsumers(g, n)] ELSE sync
  /\ queue' = (queue \ {n}) \cup (ElementsOf(kids(n)) \ seen)
  /\ seen' = seen \cup ElementsOf(kids(n))
  /\ UNCHANGED <<g, pc, todo, summary, loopVars, other, cache, dfsVars, races>>

-----------------------------------------------------------------------------
(* DetectRace.                                                             *)

(* Mutant: the edges were added to another graph than the one searched.    *)
StartRaces_unlinked ==
  /\ pc = "edges" /\ queue = {}
  /\ objs' = {o \in Obj : obj2WriteNode(o) # {}}
  /\ wnodes' = {} /\ reads' = {} /\ later' = {}
  /\ sync' = [n \in Node |-> {}]
  /\ pc' = "compare"
  /\ UNCHANGED <<g, todo, summary, queue, seen, obj, write, other, cache, dfsVars, races>>
StartRaces ==
  /\ pc = "edges" /\ queue = {}
  /\ objs' = {o \in Obj : obj2WriteNode(o) # {}}
  /\ wnodes' = {} /\ reads' = {} /\ later' = {}
  /\ pc' = "compare"
  /\ UNCHANGED <<g, todo, summary, bfsVars, obj, write, other, cache, dfsVars, races>>

Compared == pc = "compare" /\ reads = {} /\ later = {}

NextObj(o) ==
  /\ Compared /\ wnodes = {} /\ o \in objs
  /\ objs' = objs \ {o}
  /\ obj' = o
  /\ wnodes' = obj2WriteNode(o)
  /\ UNCHANGED <<g, pc, todo, summary, bfsVars, write, reads, later, other, cache, dfsVars, races>>

NextWrite(w) ==
  /\ Compared /\ w \in wnodes
  /\ write' = w
  /\ wnodes' = wnodes \ {w}
  /\ reads' = obj2ReadNode(obj)
  /\ later' = wnodes \ {w}
  /\ UNCHANGED <<g, pc, todo, summary, bfsVars, objs, obj, other, cache, dfsVars, races>>

(* The next access to compare with write: its reads come before the other  *)
(* writes.                                                                 *)
Take(x) ==
  /\ pc = "compare"
  /\ x \in (IF reads # {} THEN reads ELSE later)
  /\ reads' = reads \ {x}
  /\ later' = IF reads # {} THEN later ELSE later \ {x}

(* Mutant: without the locksets.                                           *)
Exempt_locks(w, x) == GidOf(g, w) = GidOf(g, x)
(* write.n.gid != read.n.gid, HasCommonIntArray.                           *)
Exempt(w, x) ==
  GidOf(g, w) = GidOf(g, x) \/ g.rws[w].lockset \cap g.rws[x].lockset # {}

SkipPair(x) ==
  /\ Take(x) /\ Exempt(write, x)
  /\ UNCHANGED <<g, pc, todo, summary, bfsVars, objs, obj, wnodes, write, other, cache, dfsVars, races>>

ComparePair(x) ==
  /\ Take(x) /\ ~Exempt(write, x)
  /\ other' = x
  /\ pc' = "order"
  /\ UNCHANGED <<g, todo, summary, bfsVars, objs, obj, wnodes, write, cache, dfsVars, races>>

-----------------------------------------------------------------------------
(* DFSCanReach.                                                            *)

a_n == NodeOf(g, write)
b_n == NodeOf(g, other)
nodeKey == {a_n, b_n}
src == IF forward THEN a_n ELSE b_n
dest == IF forward THEN b_n ELSE a_n

Answer(ordered) == pc' = IF ordered THEN "compare" ELSE "add"

CacheHit ==
  /\ pc = "order" /\ nodeKey \in DOMAIN cache
  /\ Answer(cache[nodeKey])
  /\ UNCHANGED <<g, todo, summary, bfsVars, loopVars, other, cache, dfsVars, races>>

GoInLoop ==
  /\ pc = "order" /\ nodeKey \notin DOMAIN cache
  /\ CheckGoInLoops(g, a_n, b_n)
  /\ cache' = Put(cache, nodeKey, FALSE)
  /\ Answer(FALSE)
  /\ UNCHANGED <<g, todo, summary, bfsVars, loopVars, other, dfsVars, races>>

(* A call of DFSVisit.  The two nodes are of two goroutines, so that the   *)
(* first call of a search never finds its destination.                     *)
Search(from, fwd) ==
  /\ forward' = fwd
  /\ path' = <<from>>
  /\ visited' = {from}
  /\ pc' = "search"

StartSearch ==
  /\ pc = "order" /\ nodeKey \notin DOMAIN cache
  /\ ~CheckGoInLoops(g, a_n, b_n)
  /\ Search(a_n, TRUE)
  /\ UNCHANGED <<g, todo, summary, bfsVars, loopVars, other, cache, races>>

neighbors(n) == (IF Plus THEN sync[n] ELSE {}) \cup Cases(g, n) \cup ElementsOf(kids(n))
fresh(n) == neighbors(n) \ visited

Found(k) ==
  /\ pc = "search" /\ k \in fresh(Head(path)) /\ k = dest
  /\ cache' = Put(cache, nodeKey, TRUE)
  /\ Answer(TRUE)
  /\ UNCHANGED <<g, todo, summary, bfsVars, loopVars, other, dfsVars, races>>

Descend(k) ==
  /\ pc = "search" /\ k \in fresh(Head(path)) /\ k # dest
  /\ path' = <<k>> \o path
  /\ visited' = visited \cup {k}
  /\ UNCHANGED <<g, pc, todo, summary, bfsVars, loopVars, other, cache, forward, races>>

Return ==
  /\ pc = "search" /\ fresh(Head(path)) = {} /\ Len(path) > 1
  /\ path' = Tail(path)
  /\ UNCHANGED <<g, pc, todo, summary, bfsVars, loopVars, other, cache, forward, visited, races>>

(* Mutant: the answer is cached after one direction.                       *)
SearchBack_never ==
  /\ pc = "search" /\ fresh(Head(path)) = {} /\ Len(path) = 1 /\ forward
  /\ cache' = Put(cache, nodeKey, FALSE)
  /\ Answer(FALSE)
  /\ UNCHANGED <<g, todo, summary, bfsVars, loopVars, other, dfsVars, races>>
SearchBack ==
  /\ pc = "search" /\ fresh(Head(path)) = {} /\ Len(path) = 1 /\ forward
  /\ Search(b_n, FALSE)
  /\ UNCHANGED <<g, todo, summary, bfsVars, loopVars, other, cache, races>>

NotFound ==
  /\ pc = "search" /\ fresh(Head(path)) = {} /\ Len(path) = 1 /\ ~forward
  /\ cache' = Put(cache, nodeKey, FALSE)
  /\ Answer(FALSE)
  /\ UNCHANGED <<g, todo, summary, bfsVars, loopVars, other, dfsVars, races>>

-----------------------------------------------------------------------------
AddRace ==
  LET key == PosKey(g, write, other)
  IN  /\ pc = "add"
      /\ races' = IF Dropped(key) \/ key \in DOMAIN races THEN races
                  ELSE Put(races, key, <<write, other>>)
      /\ pc' = "compare"
      /\ UNCHANGED <<g, todo, summary, bfsVars, loopVars, other, cache, dfsVars>>

(* Mutant: later entries of a known race are lost.                         *)
Summarized_first(k) ==
  IF k \in DOMAIN summary THEN summary[k]
  ELSE [race |-> races[k], entries |-> {g.entry}]
(* A race that is in the summary already keeps its first representative.   *)
Summarized(k) ==
  IF k \in DOMAIN summary
  THEN [summary[k] EXCEPT !.entries = @ \cup {g.entry}]
  ELSE [race |-> races[k], entries |-> {g.entry}]

SummarizeRaces ==
  /\ Compared /\ wnodes = {} /\ objs = {}
  /\ summary' = [k \in DOMAIN summary \cup DOMAIN races |->
                   IF k \in DOMAIN races THEN Summarized(k) ELSE summary[k]]
  /\ pc' = "entry"
  /\ UNCHANGED <<g, todo, bfsVars, loopVars, other, cache, dfsVars, races>>

Terminated == pc = "done" /\ UNCHANGED vars

-----------------------------------------------------------------------------
Entries == (\E r \in todo : DetectEntry(r) \/ SkipEntry(r)) \/ AllDone
Edges == (\E n \in queue : AddHappenBeforeEdges(n)) \/ StartRaces
Pairs == \/ \E o \in objs : NextObj(o)
         \/ \E w \in wnodes : NextWrite(w)
         \/ \E x \in reads \cup later : SkipPair(x) \/ ComparePair(x)
Order == \/ CacheHit \/ GoInLoop \/ StartSearch
         \/ \E k \in Node : Found(k) \/ Descend(k)
         \/ Return \/ SearchBack \/ NotFound
Report == AddRace \/ SummarizeRaces

Next == Entries \/ Edges \/ Pairs \/ Order \/ Report \/ Terminated

Spec == Init /\ [][Next]_vars

=============================================================================

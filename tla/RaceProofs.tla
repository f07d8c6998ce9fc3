----------------------------- MODULE RaceProofs -----------------------------
(***************************************************************************)
(* Theorems about the race detector, for every set of graphs: its edges,   *)
(* its cached answers and its races are exact, and it implements           *)
(* RaceReport.                                                             *)
(*                                                                         *)
(* Reach is defined by closed sets, so that the searches are proved        *)
(* without induction: what a search has visited is reachable step by step, *)
(* and is a closed set when the search ends without an answer.             *)
(***************************************************************************)
EXTENDS RaceProperties, TLAPS

-----------------------------------------------------------------------------
(* Sequences.                                                              *)

(* The head of a call stack is one of its elements.                        *)
LEMMA HeadElement ==
  ASSUME NEW S, NEW s \in Seq(S), s # <<>>
  PROVE  Head(s) \in ElementsOf(s) /\ Head(s) \in S /\ ElementsOf(s) \subseteq S
<1>1. Len(s) \in Nat /\ Len(s) # 0 /\ 1 \in DOMAIN s
  OBVIOUS
<1> QED  BY <1>1 DEF ElementsOf

(* A call puts its node on the stack and leaves the others there.          *)
LEMMA PushElements ==
  ASSUME NEW S, NEW s \in Seq(S), NEW k \in S
  PROVE  /\ <<k>> \o s \in Seq(S) /\ <<k>> \o s # <<>>
         /\ Head(<<k>> \o s) = k
         /\ ElementsOf(<<k>> \o s) = {k} \cup ElementsOf(s)
<1> DEFINE p == <<k>> \o s
<1>1. p \in Seq(S) /\ Len(p) = Len(s) + 1 /\ p[1] = k
  OBVIOUS
<1>2. \A i \in 1..Len(s) : p[i + 1] = s[i]
  OBVIOUS
<1>3. \A i \in 2..Len(p) : p[i] = s[i - 1] /\ i - 1 \in 1..Len(s)
  BY <1>1
<1>4. DOMAIN s = 1..Len(s) /\ DOMAIN p = 1..Len(p) /\ Len(s) \in Nat
  BY <1>1
<1>5. ElementsOf(p) \subseteq {k} \cup ElementsOf(s)
  <2> SUFFICES ASSUME NEW i \in 1..Len(p) PROVE p[i] \in {k} \cup ElementsOf(s)
    BY <1>4 DEF ElementsOf
  <2>1. CASE i = 1
    BY <2>1, <1>1
  <2>2. CASE i # 1
    BY <2>2, <1>3, <1>4, <1>1 DEF ElementsOf
  <2> QED  BY <2>1, <2>2
<1>6. {k} \cup ElementsOf(s) \subseteq ElementsOf(p)
  <2>1. k \in ElementsOf(p)
    BY <1>1, <1>4 DEF ElementsOf
  <2>2. ASSUME NEW i \in 1..Len(s) PROVE s[i] \in ElementsOf(p)
    <3>1. i + 1 \in DOMAIN p
      BY <1>1, <1>4
    <3> QED  BY <3>1, <1>2 DEF ElementsOf
  <2> QED  BY <2>1, <2>2, <1>4 DEF ElementsOf
<1>7. p # <<>> /\ Head(p) = k
  BY <1>1
<1> QED  BY <1>1, <1>5, <1>6, <1>7

(* A return takes at most its own node off the stack.                      *)
LEMMA PopElements ==
  ASSUME NEW S, NEW s \in Seq(S), Len(s) > 1
  PROVE  /\ Tail(s) \in Seq(S) /\ Tail(s) # <<>>
         /\ ElementsOf(Tail(s)) \subseteq ElementsOf(s)
         /\ ElementsOf(s) \subseteq {Head(s)} \cup ElementsOf(Tail(s))
<1> DEFINE t == Tail(s)
<1>1. s # <<>> /\ t \in Seq(S) /\ Len(t) = Len(s) - 1 /\ Len(s) \in Nat /\ Head(s) = s[1]
  OBVIOUS
<1>2. \A i \in 1..Len(t) : t[i] = s[i + 1] /\ i + 1 \in 1..Len(s)
  BY <1>1
<1>3. DOMAIN s = 1..Len(s) /\ DOMAIN t = 1..Len(t)
  BY <1>1
<1>4. ElementsOf(t) \subseteq ElementsOf(s)
  BY <1>2, <1>3 DEF ElementsOf
<1>5. ASSUME NEW i \in 1..Len(s) PROVE s[i] \in {s[1]} \cup ElementsOf(t)
  <2>1. CASE i = 1
    BY <2>1
  <2>2. CASE i # 1
    <3>1. i - 1 \in 1..Len(t) /\ t[i - 1] = s[i]
      BY <2>2, <1>1, <1>2
    <3> QED  BY <3>1, <1>3 DEF ElementsOf
  <2> QED  BY <2>1, <2>2
<1>6. t # <<>>
  <2>1. Len(t) # 0
    BY <1>1
  <2>2. Len(<<>>) = 0
    OBVIOUS
  <2> HIDE DEF t
  <2> QED  BY <2>1, <2>2
<1> QED  BY <1>1, <1>3, <1>4, <1>5, <1>6 DEF ElementsOf

(* The outermost call is alone on the stack.                               *)
LEMMA OneElement ==
  ASSUME NEW S, NEW s \in Seq(S), Len(s) = 1
  PROVE  ElementsOf(s) = {Head(s)}
<1>1. DOMAIN s = {1} /\ Head(s) = s[1]
  OBVIOUS
<1> QED  BY <1>1 DEF ElementsOf

(* A search starts with its source on the stack.                           *)
LEMMA SingletonElements ==
  ASSUME NEW S, NEW k \in S
  PROVE  <<k>> \in Seq(S) /\ <<k>> # <<>> /\ ElementsOf(<<k>>) = {k} /\ Head(<<k>>) = k
  BY DEF ElementsOf

-----------------------------------------------------------------------------
(* Reachability.                                                           *)

(* A node reaches itself: the empty way.                                   *)
LEMMA ReachRefl ==
  ASSUME NEW next, NEW a \in DOMAIN next
  PROVE  Reach(next, a, a)
  BY DEF Reach

(* A search may go on from what it has reached.                            *)
LEMMA ReachStep ==
  ASSUME NEW next, NEW a, NEW b \in DOMAIN next, NEW c \in next[b], Reach(next, a, b)
  PROVE  Reach(next, a, c)
<1> SUFFICES ASSUME NEW S \in SUBSET (DOMAIN next \ {c}), a \in S, Closed(next, S)
             PROVE  FALSE
  BY DEF Reach
<1>1. b \notin S
  BY DEF Closed
<1>2. S \in SUBSET (DOMAIN next \ {b})
  BY <1>1
<1> QED  BY <1>2 DEF Reach

(* A search that has visited a closed set has missed nothing.              *)
LEMMA ReachClosed ==
  ASSUME NEW next, NEW S \in SUBSET DOMAIN next, NEW a \in S, Closed(next, S),
         NEW b, b \notin S
  PROVE  ~Reach(next, a, b)
  BY DEF Reach

-----------------------------------------------------------------------------
(* Graphs.                                                                 *)

(* The parts of IsRFG and IsRFGPlus that the searches rest on: every edge  *)
(* leads to a node of the graph, and every access is at one.               *)
LEMMA GraphFacts ==
  ASSUME NEW r \in RFGs
  PROVE  LET N == DOMAIN r.id2node
         IN  /\ r.roots[0] \in N
             /\ \A n \in N : /\ ElementsOf(r.id2node[n].kids) \subseteq N
                             /\ Cases(r, n) \subseteq N
                             /\ SyncConsumers(r, n) \subseteq N
                             /\ r.id2node[n].gid \in DOMAIN r.roots
             /\ \A w \in DOMAIN r.rws : NodeOf(r, w) \in N
<1> DEFINE N == DOMAIN r.id2node
<1>1. IsRFG(r) /\ IsRFGPlus(r)
  BY RFGAssumption, RFGPlusAssumption
<1>2. /\ r.roots[0] \in N
      /\ \A o \in Obj : r.resources[o].consumers \in Seq(N)
      /\ \A n \in N : /\ r.id2node[n].kids \in Seq(N)
                      /\ r.id2node[n].cases \in Seq(N \cup {NoNode})
                      /\ r.id2node[n].pts \in Seq(Obj)
                      /\ r.id2node[n].gid \in DOMAIN r.roots
  BY <1>1 DEF IsRFG, NodeRec
<1>3. ASSUME NEW S, NEW s \in Seq(S) PROVE ElementsOf(s) \subseteq S
  BY <1>3 DEF ElementsOf
<1>4. ASSUME NEW n \in N
      PROVE  /\ ElementsOf(r.id2node[n].kids) \subseteq N
             /\ Cases(r, n) \subseteq N
             /\ SyncConsumers(r, n) \subseteq N
  <2>1. ElementsOf(r.id2node[n].kids) \subseteq N
    BY <1>2, <1>3
  <2>2. ElementsOf(r.id2node[n].cases) \subseteq N \cup {NoNode}
    BY <1>2, <1>3
  <2>3. ElementsOf(r.id2node[n].pts) \subseteq Obj
    BY <1>2, <1>3
  <2>4. \A o \in Obj : ElementsOf(r.resources[o].consumers) \subseteq N
    BY <1>2, <1>3
  <2> QED  BY <2>1, <2>2, <2>3, <2>4 DEF Cases, SyncConsumers
<1>5. \A w \in DOMAIN r.rws : NodeOf(r, w) \in N
  BY <1>1 DEF IsRFGPlus, RWRec, NodeOf
<1> QED  BY <1>2, <1>4, <1>5

(* The relations of a graph, at its nodes.                                 *)
LEMMA RelationFacts ==
  ASSUME NEW r \in RFGs
  PROVE  LET N == DOMAIN r.id2node
         IN  /\ Kids(r) \in [N -> SUBSET N]
             /\ \A n \in N : Kids(r)[n] = ElementsOf(r.id2node[n].kids)
             /\ Started[r] = {n \in N : Reach(Kids(r), r.roots[0], n)}
             /\ SyncKids[r] = [n \in N |->
                  IF Plus /\ n \in Started[r] /\ Signals(r.id2node[n])
                  THEN SyncConsumers(r, n) ELSE {}]
             /\ HB[r] \in [N -> SUBSET N]
             /\ \A n \in N : HB[r][n] = SyncKids[r][n] \cup Cases(r, n) \cup Kids(r)[n]
             /\ \A a, b \in N : Before[r][a][b] = Reach(HB[r], a, b)
<1> DEFINE N == DOMAIN r.id2node
<1>1. Kids(r) \in [N -> SUBSET N] /\ \A n \in N : Kids(r)[n] = ElementsOf(r.id2node[n].kids)
  BY GraphFacts DEF Kids
<1>2. Started[r] = {n \in N : Reach(Kids(r), r.roots[0], n)}
  BY DEF Started
<1>3. SyncKids[r] = [n \in N |-> IF Plus /\ n \in Started[r] /\ Signals(r.id2node[n])
                                 THEN SyncConsumers(r, n) ELSE {}]
  BY DEF SyncKids
<1>4. HB[r] = [n \in N |-> SyncKids[r][n] \cup Cases(r, n) \cup Kids(r)[n]]
  BY DEF HB
<1>5. \A n \in N : HB[r][n] \subseteq N
  BY <1>1, <1>3, <1>4, GraphFacts
<1>6. HB[r] \in [N -> SUBSET N]
  BY <1>4, <1>5
<1>7. \A a, b \in N : Before[r][a][b] = Reach(HB[r], a, b)
  BY DEF Before
<1> QED  BY <1>1, <1>2, <1>3, <1>4, <1>6, <1>7

(* Before, at two nodes of the current graph.                              *)
LEMMA BeforeReach ==
  ASSUME g \in RFGs, NEW a \in Node, NEW b \in Node
  PROVE  DOMAIN HB[g] = Node /\ Before[g][a][b] = Reach(HB[g], a, b)
<1>1. HB[g] \in [Node -> SUBSET Node]
  BY RelationFacts DEF Node
<1>2. Before[g] = [c \in Node |-> [d \in Node |-> Reach(HB[g], c, d)]]
  BY DEF Before, Node
<1> QED  BY <1>1, <1>2

(* The order of two nodes does not depend on which one is looked at first, *)
(* which is what the key of the cache relies on.                           *)
LEMMA OrderedSym ==
  ASSUME NEW r, NEW a, NEW b
  PROVE  Ordered(r, a, b) <=> Ordered(r, b, a)
  BY DEF Ordered, CheckGoInLoops

(* A race is one from both of its writes, and has one key.                 *)
LEMMA KeySym ==
  ASSUME NEW r, NEW w, NEW x
  PROVE  PosKey(r, w, x) = PosKey(r, x, w)
  BY DEF PosKey

-----------------------------------------------------------------------------
(* AddHappenBeforeEdges.                                                   *)

(* When the queue has run empty, the edges are exact, and the search       *)
(* follows HB.                                                             *)
LEMMA EdgesExact ==
  ASSUME RaceTypeOK, EdgesInv, InEntry, queue = {}
  PROVE  /\ sync = SyncKids[g]
         /\ \A n \in Node : neighbors(n) = HB[g][n]
<1>1. g \in RFGs /\ seen \subseteq Node /\ sync \in [Node -> SUBSET Node]
  BY DEF RaceTypeOK
<1>2. Plus => seen = Started[g]
  <2> SUFFICES ASSUME Plus, NEW n \in Started[g] PROVE n \in seen
    BY DEF EdgesInv
  <2>1. Kids(g) \in [Node -> SUBSET Node] /\ Reach(Kids(g), g.roots[0], n)
    BY <1>1, RelationFacts DEF Node
  <2>2. seen \in SUBSET DOMAIN Kids(g) /\ g.roots[0] \in seen
    BY <1>1, <2>1 DEF EdgesInv
  <2>3. Closed(Kids(g), seen)
    BY DEF EdgesInv, Closed
  <2> QED  BY <2>1, <2>2, <2>3, ReachClosed
<1>3. ASSUME NEW n \in Node PROVE sync[n] = SyncKids[g][n]
  <2>1. SyncKids[g][n] = IF Plus /\ n \in Started[g] /\ Signals(g.id2node[n])
                         THEN SyncConsumers(g, n) ELSE {}
    BY <1>1, RelationFacts DEF Node
  <2>2. sync[n] = IF n \in seen /\ Signals(g.id2node[n]) THEN SyncConsumers(g, n) ELSE {}
    BY DEF EdgesInv
  <2>3. ~Plus => seen = {}
    BY DEF EdgesInv
  <2> QED  BY <1>2, <2>1, <2>2, <2>3
<1>4. DOMAIN sync = Node /\ DOMAIN SyncKids[g] = Node
  BY <1>1, RelationFacts DEF Node
<1>5. SyncKids[g] = [n \in Node |-> SyncKids[g][n]]
  BY <1>1, RelationFacts DEF Node
<1>6. sync = SyncKids[g]
  BY <1>1, <1>3, <1>5
<1>7. ASSUME NEW n \in Node PROVE neighbors(n) = HB[g][n]
  <2>1. HB[g][n] = sync[n] \cup Cases(g, n) \cup ElementsOf(kids(n))
    <3>1. HB[g][n] = SyncKids[g][n] \cup Cases(g, n) \cup Kids(g)[n]
      BY <1>1, RelationFacts DEF Node
    <3>2. Kids(g)[n] = ElementsOf(kids(n))
      BY <1>1, RelationFacts DEF Node, kids
    <3> QED  BY <1>3, <3>1, <3>2
  <2>2. ~Plus => sync[n] = {}
    BY DEF EdgesInv
  <2> QED  BY <2>1, <2>2 DEF neighbors
<1> QED  BY <1>6, <1>7

(* The edges are left alone by the rest of detectEntry.                    *)
LEMMA EdgesFrame ==
  ASSUME EdgesInv, UNCHANGED <<g, bfsVars>>, InEntry' => InEntry,
         pc' # "edges" => queue = {}
  PROVE  EdgesInv'
  BY DEF EdgesInv, bfsVars, Node

(* The cache is left alone.                                                *)
LEMMA CacheFrame ==
  ASSUME CacheExact, UNCHANGED <<g, cache>>, InEntry' => InEntry
  PROVE  CacheExact'
  BY DEF CacheExact, Node

(* The races are left alone.                                               *)
LEMMA RacesFrame ==
  ASSUME OnlyRaces, UNCHANGED <<g, races>>, InEntry' => InEntry
  PROVE  OnlyRaces'
  BY DEF OnlyRaces, RW

(* An answer that is right may be put into the cache, for both directions. *)
LEMMA CachePut ==
  ASSUME RaceTypeOK, CacheExact, UNCHANGED g, InEntry, NEW v \in BOOLEAN,
         v <=> Ordered(g, a_n, b_n), cache' = Put(cache, nodeKey, v)
  PROVE  CacheExact' /\ \A k \in DOMAIN cache' : cache'[k] \in BOOLEAN
<1>1. DOMAIN cache' = DOMAIN cache \cup {nodeKey} /\ cache'[nodeKey] = v
      /\ \A k \in DOMAIN cache : k # nodeKey => cache'[k] = cache[k]
  BY DEF Put
<1>2. \A k \in DOMAIN cache' : cache'[k] \in BOOLEAN
  BY <1>1 DEF RaceTypeOK
<1>3. ASSUME NEW a \in Node, NEW b \in Node, {a, b} \in DOMAIN cache'
      PROVE  cache'[{a, b}] <=> Ordered(g, a, b)
  <2>1. CASE {a, b} = nodeKey
    <3>1. (a = a_n /\ b = b_n) \/ (a = b_n /\ b = a_n)
      BY <2>1 DEF nodeKey
    <3> QED  BY <2>1, <3>1, <1>1, OrderedSym
  <2>2. CASE {a, b} # nodeKey
    BY <2>2, <1>1, <1>3 DEF CacheExact
  <2> QED  BY <2>1, <2>2
<1>4. CacheExact'
  BY <1>3 DEF CacheExact, Node
<1> QED  BY <1>2, <1>4

-----------------------------------------------------------------------------
(* The actions.                                                            *)

(* A run starts before its first entry.                                    *)
LEMMA InitInv == ASSUME Init PROVE RaceInv
<1>1. g \in RFGs /\ todo \subseteq RFGs
  BY RunsAssumption DEF Init
<1>2. RaceTypeOK
  BY <1>1 DEF Init, RaceTypeOK, InEntry, Comparing, Empty
<1> QED  BY <1>2 DEF RaceInv, Init, EdgesInv, SearchInv, CacheExact, OnlyRaces, PairsInv,
                     InEntry, Comparing

(* detectEntry: the search for edges starts at the main goroutine.         *)
LEMMA DetectEntryInv ==
  ASSUME RaceInv, NEW r \in todo, DetectEntry(r)
  PROVE  RaceInv'
<1>1. g' = r /\ r \in RFGs /\ todo' = todo \ {r} /\ pc' = "edges" /\ todo \subseteq RFGs
  BY DEF DetectEntry, RaceInv, RaceTypeOK
<1>2. /\ queue' = IF Plus THEN {r.roots[0]} ELSE {}
      /\ seen' = queue'
      /\ sync' = [n \in DOMAIN r.id2node |-> {}]
      /\ cache' = Empty /\ races' = Empty
  BY DEF DetectEntry
<1>3. r.roots[0] \in DOMAIN r.id2node /\ r.roots[0] \in Started[r]
  <2>1. r.roots[0] \in DOMAIN r.id2node
    BY <1>1, GraphFacts
  <2>2. DOMAIN Kids(r) = DOMAIN r.id2node
    BY DEF Kids
  <2>3. Reach(Kids(r), r.roots[0], r.roots[0])
    BY <2>1, <2>2, ReachRefl
  <2> QED  BY <1>1, <2>1, <2>3, RelationFacts
<1>4. RaceTypeOK'
  BY <1>1, <1>2, <1>3 DEF RaceTypeOK, InEntry, Comparing, Node, Empty
<1>5. EdgesInv'
  BY <1>1, <1>2, <1>3 DEF EdgesInv, InEntry, Node
<1> QED  BY <1>1, <1>2, <1>4, <1>5
     DEF RaceInv, SearchInv, CacheExact, OnlyRaces, PairsInv, Comparing, Empty

(* Outside of an entry nothing but the types is asked for.                 *)
LEMMA BetweenEntries ==
  ASSUME RaceTypeOK, g' = g, todo' \subseteq todo, cache' = cache, pc' \in {"entry", "done"}
  PROVE  RaceInv'
  BY DEF RaceInv, RaceTypeOK, EdgesInv, SearchInv, CacheExact, OnlyRaces, PairsInv,
         InEntry, Comparing

(* AddHappenBeforeEdges, one turn.                                         *)
LEMMA AddHappenBeforeEdgesInv ==
  ASSUME RaceInv, NEW n \in queue, AddHappenBeforeEdges(n)
  PROVE  RaceInv'
<1> DEFINE K == ElementsOf(kids(n))
<1>1. /\ g \in RFGs /\ g' = g /\ pc = "edges" /\ pc' = "edges" /\ todo' = todo
      /\ n \in seen /\ seen \subseteq Node /\ queue \subseteq seen
      /\ sync \in [Node -> SUBSET Node] /\ InEntry /\ InEntry'
      /\ cache' = cache /\ races' = races
  BY DEF AddHappenBeforeEdges, RaceInv, RaceTypeOK, InEntry
<1>2. /\ queue' = (queue \ {n}) \cup (K \ seen) /\ seen' = seen \cup K
      /\ sync' = IF Signals(g.id2node[n])
                 THEN [sync EXCEPT ![n] = @ \cup SyncConsumers(g, n)] ELSE sync
  BY DEF AddHappenBeforeEdges
<1>3. K \subseteq Node /\ SyncConsumers(g, n) \subseteq Node /\ Kids(g)[n] = K
  BY <1>1, GraphFacts, RelationFacts DEF Node, kids
<1> HIDE DEF K
<1>4. seen' \ queue' = (seen \ queue) \cup {n}
  BY <1>1, <1>2
<1>5. \A x \in Node : sync[x] = IF x \in seen \ queue /\ Signals(g.id2node[x])
                               THEN SyncConsumers(g, x) ELSE {}
  BY <1>1 DEF RaceInv, EdgesInv
<1>6. \A x \in Node : sync'[x] = IF x \in seen' \ queue' /\ Signals(g.id2node[x])
                                THEN SyncConsumers(g, x) ELSE {}
  BY <1>1, <1>2, <1>4, <1>5
<1>7. sync' \in [Node -> SUBSET Node]
  BY <1>1, <1>2, <1>3
<1>8. K \subseteq Started[g]
  <2> SUFFICES ASSUME NEW k \in K PROVE k \in Started[g]
    OBVIOUS
  <2>1. n \in Started[g]
    BY <1>1 DEF RaceInv, EdgesInv
  <2>2. DOMAIN Kids(g) = Node /\ Reach(Kids(g), g.roots[0], n)
    BY <1>1, <2>1, RelationFacts DEF Node
  <2>3. Reach(Kids(g), g.roots[0], k)
    BY <1>1, <1>3, <2>2, ReachStep
  <2> QED  BY <1>1, <1>3, <2>3, RelationFacts DEF Node
<1>9. RaceTypeOK'
  BY <1>1, <1>2, <1>3, <1>7 DEF RaceInv, RaceTypeOK, Comparing, Node
<1>10. EdgesInv'
  BY <1>1, <1>2, <1>3, <1>4, <1>6, <1>8 DEF RaceInv, EdgesInv, Node
<1> QED  BY <1>1, <1>9, <1>10, CacheFrame, RacesFrame
     DEF RaceInv, SearchInv, PairsInv, Comparing

(* What the loops of DetectRace leave alone.                               *)
LEMMA LoopFrame ==
  ASSUME RaceInv, Comparing, Comparing', pc' # "search", pc' # "add",
         UNCHANGED <<g, todo, bfsVars, cache, races>>, LoopType', PairsInv'
  PROVE  RaceInv'
<1>1. InEntry /\ InEntry' /\ pc # "edges" /\ pc' # "edges"
  BY DEF Comparing, InEntry
<1>2. queue = {}
  BY <1>1 DEF RaceInv, EdgesInv
<1>3. RaceTypeOK'
  BY <1>1 DEF RaceInv, RaceTypeOK, Comparing, bfsVars, Node
<1>4. EdgesInv'
  BY <1>1, <1>2, EdgesFrame DEF RaceInv
<1> QED  BY <1>1, <1>3, <1>4, CacheFrame, RacesFrame DEF RaceInv, SearchInv

(* DetectRace starts with all objects that are written.                    *)
LEMMA StartRacesInv == ASSUME RaceInv, StartRaces PROVE RaceInv'
<1>1. /\ pc = "edges" /\ queue = {} /\ pc' = "compare" /\ cache = Empty /\ races = Empty
      /\ UNCHANGED <<g, todo, bfsVars, cache, races>> /\ InEntry /\ InEntry'
      /\ objs' = {o \in Obj : obj2WriteNode(o) # {}}
      /\ wnodes' = {} /\ reads' = {} /\ later' = {}
  BY DEF StartRaces, RaceInv, InEntry
<1>2. LoopType'
  BY <1>1 DEF LoopType, Busy
<1>3. RaceTypeOK'
  BY <1>1, <1>2 DEF RaceInv, RaceTypeOK, bfsVars, Node
<1>4. EdgesInv'
  BY <1>1, EdgesFrame DEF RaceInv
<1>5. PairsInv'
  BY <1>1 DEF PairsInv, Ahead, obj2WriteNode, RW
<1> QED  BY <1>1, <1>3, <1>4, <1>5, CacheFrame, RacesFrame DEF RaceInv, SearchInv

(* The next object: the pairs of the last one are behind.                  *)
LEMMA NextObjInv == ASSUME RaceInv, NEW o \in objs, NextObj(o) PROVE RaceInv'
<1>1. /\ pc = "compare" /\ pc' = "compare" /\ wnodes = {} /\ reads = {} /\ later = {}
      /\ objs' = objs \ {o} /\ obj' = o /\ wnodes' = obj2WriteNode(o)
      /\ UNCHANGED <<g, todo, bfsVars, write, reads, later, other, cache, races>>
      /\ Comparing /\ Comparing' /\ ~Busy /\ ~Busy'
  BY DEF NextObj, Compared, Comparing, Busy
<1>2. LoopType'
  BY <1>1 DEF RaceInv, RaceTypeOK, LoopType, obj2WriteNode, obj2ReadNode, RW
<1>3. PairsInv'
  <2> SUFFICES ASSUME NEW p \in Obj, NEW w \in obj2WriteNode(p),
                      NEW x \in obj2ReadNode(p) \cup (obj2WriteNode(p) \ {w})
               PROVE  Ahead(p, w, x)' \/ Behind(w, x)'
    BY <1>1 DEF PairsInv, obj2WriteNode, obj2ReadNode, RW
  <2>1. Ahead(p, w, x) \/ Behind(w, x)
    BY <1>1 DEF RaceInv, PairsInv
  <2>2. CASE p = o
    BY <1>1, <2>2 DEF Ahead, obj2ReadNode
  <2>3. CASE p # o
    BY <1>1, <2>1, <2>3 DEF Ahead, Behind
  <2> QED  BY <2>2, <2>3
<1> QED  BY <1>1, <1>2, <1>3, LoopFrame

(* The next write: its pairs are in reads and later, the ones with earlier *)
(* writes behind.                                                          *)
LEMMA NextWriteInv == ASSUME RaceInv, NEW v \in wnodes, NextWrite(v) PROVE RaceInv'
<1>1. /\ pc = "compare" /\ pc' = "compare" /\ reads = {} /\ later = {}
      /\ write' = v /\ wnodes' = wnodes \ {v} /\ reads' = obj2ReadNode(obj)
      /\ later' = wnodes \ {v}
      /\ UNCHANGED <<g, todo, bfsVars, objs, obj, other, cache, races>>
      /\ Comparing /\ Comparing' /\ ~Busy /\ ~Busy'
  BY DEF NextWrite, Compared, Comparing, Busy
<1>2. wnodes \subseteq obj2WriteNode(obj) /\ objs \subseteq Obj
  BY <1>1 DEF RaceInv, RaceTypeOK, LoopType
<1>3. LoopType'
  BY <1>1, <1>2 DEF LoopType, obj2WriteNode, obj2ReadNode, RW
<1>4. PairsInv'
  <2> SUFFICES ASSUME NEW p \in Obj, NEW w \in obj2WriteNode(p),
                      NEW x \in obj2ReadNode(p) \cup (obj2WriteNode(p) \ {w})
               PROVE  Ahead(p, w, x)' \/ Behind(w, x)'
    BY <1>1 DEF PairsInv, obj2WriteNode, obj2ReadNode, RW
  <2>1. Ahead(p, w, x) \/ Behind(w, x)
    BY <1>1 DEF RaceInv, PairsInv
  <2>2. Behind(w, x) => Behind(w, x)'
    BY <1>1 DEF Behind
  <2>3. ASSUME p = obj, w \in wnodes, x \in wnodes \/ g.rws[x].typID = "NRead"
        PROVE  Ahead(p, w, x)'
    <3>1. x # w
      BY DEF obj2WriteNode, obj2ReadNode
    <3>2. g.rws[x].typID = "NRead" => x \in obj2ReadNode(obj)
      BY <2>3 DEF obj2WriteNode, obj2ReadNode
    <3> QED  BY <1>1, <2>3, <3>1, <3>2 DEF Ahead
  <2>4. p \in objs => Ahead(p, w, x)'
    BY <1>1 DEF Ahead
  <2> QED  BY <1>1, <2>1, <2>2, <2>3, <2>4 DEF Ahead
<1> QED  BY <1>1, <1>3, <1>4, LoopFrame

(* A pair that is taken off the loops is the only one that is.             *)
LEMMA TakePair ==
  ASSUME RaceInv, NEW y, Take(y), UNCHANGED <<g, objs, obj, wnodes, write, races>>
  PROVE  /\ pc = "compare" /\ Comparing /\ ~Busy
         /\ write \in obj2WriteNode(obj) \ wnodes
         /\ y \in (obj2ReadNode(obj) \cup obj2WriteNode(obj)) \ {write}
         /\ LoopType /\ reads' \subseteq reads /\ later' \subseteq later
         /\ \A o \in Obj : \A w \in obj2WriteNode(o) :
              \A x \in obj2ReadNode(o) \cup (obj2WriteNode(o) \ {w}) :
                \/ Ahead(o, w, x)' \/ Behind(w, x)'
                \/ {w, x} = {write, y} /\ o = obj
<1>1. /\ pc = "compare" /\ Comparing /\ ~Busy
      /\ y \in (IF reads # {} THEN reads ELSE later)
      /\ reads' = reads \ {y}
      /\ later' = IF reads # {} THEN later ELSE later \ {y}
  BY DEF Take, Comparing, Busy
<1>2. LoopType
  BY <1>1 DEF RaceInv, RaceTypeOK
<1>3. write \in obj2WriteNode(obj) \ wnodes
  BY <1>1, <1>2 DEF LoopType
<1>4. y \in (obj2ReadNode(obj) \cup obj2WriteNode(obj)) \ {write}
  BY <1>1, <1>2, <1>3 DEF LoopType, obj2ReadNode, obj2WriteNode
<1>5. ASSUME NEW o \in Obj, NEW w \in obj2WriteNode(o),
             NEW x \in obj2ReadNode(o) \cup (obj2WriteNode(o) \ {w})
      PROVE  \/ Ahead(o, w, x)' \/ Behind(w, x)'
             \/ {w, x} = {write, y} /\ o = obj
  <2>1. Ahead(o, w, x) \/ Behind(w, x)
    BY <1>1 DEF RaceInv, PairsInv
  <2>2. Behind(w, x) => Behind(w, x)'
    BY DEF Behind
  <2>3. ASSUME Ahead(o, w, x) PROVE Ahead(o, w, x)' \/ ({w, x} = {write, y} /\ o = obj)
    BY <1>1, <2>3 DEF Ahead
  <2> QED  BY <2>1, <2>2, <2>3
<1> QED  BY <1>1, <1>2, <1>3, <1>4, <1>5

(* A pair of one goroutine, or with a common lock, is not a race.          *)
LEMMA SkipPairInv == ASSUME RaceInv, NEW y, SkipPair(y) PROVE RaceInv'
<1>1. /\ Take(y) /\ Exempt(write, y)
      /\ UNCHANGED <<g, pc, todo, bfsVars, objs, obj, wnodes, write, other, cache, races>>
  BY DEF SkipPair
<1>2. /\ pc = "compare" /\ pc' = "compare" /\ Comparing /\ Comparing' /\ ~Busy /\ ~Busy'
      /\ LoopType /\ reads' \subseteq reads /\ later' \subseteq later
      /\ write \in obj2WriteNode(obj) \ wnodes
  BY <1>1, TakePair DEF Comparing, Busy
<1>3. LoopType'
  BY <1>1, <1>2 DEF LoopType, obj2WriteNode, obj2ReadNode, RW
<1>4. ~Racy(g, write, y) /\ ~Racy(g, y, write)
  BY <1>1 DEF Exempt, Racy
<1>5. PairsInv'
  <2> SUFFICES ASSUME NEW o \in Obj, NEW w \in obj2WriteNode(o),
                      NEW x \in obj2ReadNode(o) \cup (obj2WriteNode(o) \ {w})
               PROVE  Ahead(o, w, x)' \/ Behind(w, x)'
    BY <1>1 DEF PairsInv, obj2WriteNode, obj2ReadNode, RW
  <2>1. Ahead(o, w, x)' \/ Behind(w, x)' \/ {w, x} = {write, y}
    BY <1>1, TakePair
  <2>2. ASSUME {w, x} = {write, y} PROVE Behind(w, x)'
    <3>1. (w = write /\ x = y) \/ (w = y /\ x = write)
      BY <2>2
    <3> QED  BY <1>1, <1>4, <3>1 DEF Behind
  <2> QED  BY <2>1, <2>2
<1> QED  BY <1>1, <1>2, <1>3, <1>5, LoopFrame

(* A pair that is compared stays ahead until it is answered.               *)
LEMMA ComparePairInv == ASSUME RaceInv, NEW y, ComparePair(y) PROVE RaceInv'
<1>1. /\ Take(y) /\ ~Exempt(write, y) /\ other' = y /\ pc' = "order"
      /\ UNCHANGED <<g, todo, bfsVars, objs, obj, wnodes, write, cache, races>>
  BY DEF ComparePair
<1>2. /\ pc = "compare" /\ Comparing /\ Comparing' /\ ~Busy /\ Busy'
      /\ LoopType /\ reads' \subseteq reads /\ later' \subseteq later
      /\ write \in obj2WriteNode(obj) \ wnodes
      /\ y \in (obj2ReadNode(obj) \cup obj2WriteNode(obj)) \ {write}
  BY <1>1, TakePair DEF Comparing, Busy
<1>3. LoopType'
  BY <1>1, <1>2 DEF LoopType, obj2WriteNode, obj2ReadNode, RW, Exempt
<1>4. PairsInv'
  <2> SUFFICES ASSUME NEW o \in Obj, NEW w \in obj2WriteNode(o),
                      NEW x \in obj2ReadNode(o) \cup (obj2WriteNode(o) \ {w})
               PROVE  Ahead(o, w, x)' \/ Behind(w, x)'
    BY <1>1 DEF PairsInv, obj2WriteNode, obj2ReadNode, RW
  <2>1. Ahead(o, w, x)' \/ Behind(w, x)' \/ ({w, x} = {write, y} /\ o = obj)
    BY <1>1, TakePair
  <2> QED  BY <1>1, <1>2, <2>1 DEF Ahead
<1> QED  BY <1>1, <1>2, <1>3, <1>4, LoopFrame

-----------------------------------------------------------------------------
(* DFSCanReach and DFSVisit.                                               *)

(* What is known while two accesses are compared.                          *)
LEMMA BusyFacts ==
  ASSUME RaceInv, Busy
  PROVE  /\ Comparing /\ InEntry /\ LoopType /\ g \in RFGs /\ queue = {}
         /\ write \in RW /\ other \in RW /\ write # other
         /\ a_n \in Node /\ b_n \in Node /\ a_n # b_n
         /\ Conflict(g, write, other) /\ ~Exempt(write, other)
<1>1. Comparing /\ InEntry /\ pc # "edges"
  BY DEF Busy, Comparing, InEntry
<1>2. LoopType /\ g \in RFGs /\ queue = {}
  BY <1>1 DEF RaceInv, RaceTypeOK, EdgesInv
<1>3. /\ write \in obj2WriteNode(obj)
      /\ other \in (obj2ReadNode(obj) \cup obj2WriteNode(obj)) \ {write}
      /\ ~Exempt(write, other)
  BY <1>2 DEF LoopType
<1>4. write \in RW /\ other \in RW /\ write # other /\ Conflict(g, write, other)
  BY <1>3 DEF obj2WriteNode, obj2ReadNode, RW, Conflict
<1>5. a_n \in Node /\ b_n \in Node
  BY <1>2, <1>4, GraphFacts DEF RW, Node, a_n, b_n
<1>6. a_n # b_n
  BY <1>3 DEF Exempt, GidOf, a_n, b_n
<1> QED  BY <1>1, <1>2, <1>3, <1>4, <1>5, <1>6

(* The loops do not move while a pair is compared.                         *)
LEMMA BusyFrame ==
  ASSUME RaceInv, Busy, Busy', UNCHANGED <<g, todo, bfsVars, loopVars, other, races>>,
         CacheExact', \A k \in DOMAIN cache' : cache'[k] \in BOOLEAN,
         SearchInv',
         pc' = "search" => /\ path' \in Seq(Node) /\ path' # <<>>
                           /\ visited' \subseteq Node /\ forward' \in BOOLEAN,
         pc' = "add" => ~Ordered(g, a_n, b_n)
  PROVE  RaceInv'
<1>1. /\ Comparing /\ Comparing' /\ InEntry /\ InEntry' /\ pc # "edges" /\ pc' # "edges"
      /\ LoopType /\ queue = {}
  BY BusyFacts DEF Busy, Comparing, InEntry
<1>2. LoopType'
  BY <1>1 DEF LoopType, loopVars, obj2WriteNode, obj2ReadNode, RW, Exempt
<1>3. RaceTypeOK'
  BY <1>1, <1>2 DEF RaceInv, RaceTypeOK, Busy, bfsVars, Node
<1>4. EdgesInv'
  BY <1>1, EdgesFrame DEF RaceInv
<1>5. PairsInv'
  <2> SUFFICES ASSUME NEW o \in Obj, NEW w \in obj2WriteNode(o),
                      NEW x \in obj2ReadNode(o) \cup (obj2WriteNode(o) \ {w})
               PROVE  Ahead(o, w, x)' \/ Behind(w, x)'
    BY DEF PairsInv, obj2WriteNode, obj2ReadNode, RW
  <2>1. Ahead(o, w, x) \/ Behind(w, x)
    BY <1>1 DEF RaceInv, PairsInv
  <2> QED  BY <2>1 DEF Ahead, Behind, loopVars
<1>6. pc' = "add" => ~Ordered(g', a_n', b_n')
  BY DEF a_n, b_n, loopVars
<1> QED  BY <1>1, <1>3, <1>4, <1>5, <1>6, RacesFrame DEF RaceInv

(* A pair that is ordered is not a race: the loops go on.                  *)
LEMMA OrderedPair ==
  ASSUME RaceInv, Busy, pc' = "compare", Ordered(g, a_n, b_n),
         UNCHANGED <<g, todo, bfsVars, loopVars, other, races>>,
         CacheExact', \A k \in DOMAIN cache' : cache'[k] \in BOOLEAN
  PROVE  RaceInv'
<1>1. /\ Comparing /\ Comparing' /\ InEntry /\ InEntry' /\ pc # "edges" /\ ~Busy'
      /\ LoopType /\ queue = {}
  BY BusyFacts DEF Busy, Comparing, InEntry
<1>2. LoopType'
  BY <1>1 DEF LoopType, loopVars, obj2WriteNode, obj2ReadNode, RW
<1>3. RaceTypeOK'
  BY <1>1, <1>2 DEF RaceInv, RaceTypeOK, bfsVars, Node
<1>4. EdgesInv'
  BY <1>1, EdgesFrame DEF RaceInv
<1>5. ~Racy(g, write, other) /\ ~Racy(g, other, write)
  BY OrderedSym DEF Racy, a_n, b_n
<1>6. PairsInv'
  <2> SUFFICES ASSUME NEW o \in Obj, NEW w \in obj2WriteNode(o),
                      NEW x \in obj2ReadNode(o) \cup (obj2WriteNode(o) \ {w})
               PROVE  Ahead(o, w, x)' \/ Behind(w, x)'
    BY DEF PairsInv, obj2WriteNode, obj2ReadNode, RW
  <2>1. Ahead(o, w, x) \/ Behind(w, x)
    BY <1>1 DEF RaceInv, PairsInv
  <2>2. ASSUME {w, x} = {write, other} PROVE Behind(w, x)'
    <3>1. (w = write /\ x = other) \/ (w = other /\ x = write)
      BY <2>2
    <3> QED  BY <1>5, <3>1 DEF Behind
  <2> QED  BY <2>1, <2>2 DEF Ahead, Behind, loopVars
<1> QED  BY <1>1, <1>3, <1>4, <1>6, RacesFrame DEF RaceInv, SearchInv

(* An answer from the cache.                                               *)
LEMMA CacheHitInv == ASSUME RaceInv, CacheHit PROVE RaceInv'
<1>1. /\ pc = "order" /\ nodeKey \in DOMAIN cache /\ Answer(cache[nodeKey])
      /\ UNCHANGED <<g, todo, summary, bfsVars, loopVars, other, cache, dfsVars, races>>
      /\ Busy
  BY DEF CacheHit, Busy
<1>2. InEntry /\ a_n \in Node /\ b_n \in Node
  BY <1>1, BusyFacts
<1>3. cache[nodeKey] <=> Ordered(g, a_n, b_n)
  BY <1>1, <1>2 DEF RaceInv, CacheExact, nodeKey
<1>4. CacheExact' /\ \A k \in DOMAIN cache' : cache'[k] \in BOOLEAN
  BY <1>1, <1>2, CacheFrame DEF RaceInv, RaceTypeOK
<1>5. CASE Ordered(g, a_n, b_n)
  BY <1>1, <1>3, <1>4, <1>5, OrderedPair DEF Answer
<1>6. CASE ~Ordered(g, a_n, b_n)
  <2>1. pc' = "add" /\ Busy'
    BY <1>1, <1>3, <1>6 DEF Answer, Busy
  <2> QED  BY <1>1, <1>4, <1>6, <2>1, BusyFrame DEF SearchInv
<1> QED  BY <1>5, <1>6

(* A pair in a loop that spawns one of the goroutines has no order.        *)
LEMMA GoInLoopInv == ASSUME RaceInv, GoInLoop PROVE RaceInv'
<1>1. /\ pc = "order" /\ CheckGoInLoops(g, a_n, b_n) /\ cache' = Put(cache, nodeKey, FALSE)
      /\ pc' = "add" /\ Busy /\ Busy'
      /\ UNCHANGED <<g, todo, summary, bfsVars, loopVars, other, dfsVars, races>>
  BY DEF GoInLoop, Busy, Answer
<1>2. ~Ordered(g, a_n, b_n)
  BY <1>1 DEF Ordered
<1>3. CacheExact' /\ \A k \in DOMAIN cache' : cache'[k] \in BOOLEAN
  BY <1>1, <1>2, BusyFacts, CachePut DEF RaceInv
<1> QED  BY <1>1, <1>2, <1>3, BusyFrame DEF SearchInv

(* A search begins with its source only.                                   *)
LEMMA SearchStart ==
  ASSUME RaceInv, Busy, NEW fwd \in BOOLEAN,
         Search(IF fwd THEN a_n ELSE b_n, fwd),
         UNCHANGED <<g, todo, summary, bfsVars, loopVars, other, cache, races>>,
         ~CheckGoInLoops(g, a_n, b_n), ~fwd => ~Before[g][a_n][b_n]
  PROVE  RaceInv'
<1> DEFINE from == IF fwd THEN a_n ELSE b_n
<1>1. /\ g \in RFGs /\ InEntry /\ a_n \in Node /\ b_n \in Node /\ a_n # b_n
  BY BusyFacts
<1>2. pc' = "search" /\ forward' = fwd /\ path' = <<from>> /\ visited' = {from} /\ Busy'
  BY DEF Search, Busy
<1>3. /\ from \in Node /\ a_n' = a_n /\ b_n' = b_n /\ src' = from
      /\ dest' = (IF fwd THEN b_n ELSE a_n) /\ dest' # from
  BY <1>1, <1>2 DEF src, dest, a_n, b_n, loopVars
<1> HIDE DEF from
<1>4. path' \in Seq(Node) /\ path' # <<>> /\ ElementsOf(path') = {from}
  BY <1>2, <1>3, SingletonElements
<1>5. Before[g][from][from]
  <2>1. DOMAIN HB[g] = Node /\ Before[g][from][from] = Reach(HB[g], from, from)
    BY <1>1, <1>3, BeforeReach
  <2> QED  BY <1>3, <2>1, ReachRefl
<1>6. SearchInv'
  BY <1>2, <1>3, <1>4, <1>5 DEF SearchInv
<1>7. CacheExact' /\ \A k \in DOMAIN cache' : cache'[k] \in BOOLEAN
  BY <1>1, CacheFrame DEF RaceInv, RaceTypeOK
<1> QED  BY <1>2, <1>3, <1>4, <1>6, <1>7, BusyFrame

(* The search forward begins.                                              *)
LEMMA StartSearchInv == ASSUME RaceInv, StartSearch PROVE RaceInv'
<1>1. /\ Busy /\ Search(IF TRUE THEN a_n ELSE b_n, TRUE)
      /\ ~CheckGoInLoops(g, a_n, b_n)
      /\ UNCHANGED <<g, todo, summary, bfsVars, loopVars, other, cache, races>>
  BY DEF StartSearch, Busy
<1> QED  BY <1>1, SearchStart

(* What is known while a search is under way.                              *)
LEMMA SearchFacts ==
  ASSUME RaceInv, pc = "search"
  PROVE  /\ Busy /\ SearchInv /\ g \in RFGs
         /\ path \in Seq(Node) /\ visited \subseteq Node /\ forward \in BOOLEAN
         /\ Head(path) \in ElementsOf(path) /\ Head(path) \in visited
         /\ src \in Node /\ dest \in Node
         /\ \A n \in Node : neighbors(n) = HB[g][n] /\ HB[g][n] \subseteq Node
<1>1. Busy /\ SearchInv /\ RaceTypeOK /\ EdgesInv
  BY DEF Busy, RaceInv
<1>2. /\ g \in RFGs /\ InEntry /\ queue = {} /\ a_n \in Node /\ b_n \in Node
  BY <1>1, BusyFacts
<1>3. /\ path \in Seq(Node) /\ path # <<>> /\ visited \subseteq Node /\ forward \in BOOLEAN
  BY <1>1 DEF RaceTypeOK
<1>4. Head(path) \in ElementsOf(path)
  BY <1>3, HeadElement
<1>5. Head(path) \in visited
  BY <1>1, <1>4 DEF SearchInv
<1>6. src \in Node /\ dest \in Node
  BY <1>2 DEF src, dest
<1>7. \A n \in Node : neighbors(n) = HB[g][n]
  BY <1>1, <1>2, EdgesExact
<1>8. \A n \in Node : HB[g][n] \subseteq Node
  BY <1>2, RelationFacts DEF Node
<1> QED  BY <1>1, <1>2, <1>3, <1>4, <1>5, <1>6, <1>7, <1>8

(* A neighbour of the innermost call is reachable.                         *)
LEMMA NeighbourReached ==
  ASSUME RaceInv, pc = "search", NEW k \in fresh(Head(path))
  PROVE  k \in Node /\ k \notin visited /\ Before[g][src][k]
<1> DEFINE h == Head(path)
<1>1. /\ g \in RFGs /\ h \in visited /\ h \in Node /\ src \in Node
      /\ HB[g][h] \subseteq Node /\ neighbors(h) = HB[g][h]
  BY SearchFacts
<1>2. k \in HB[g][h] /\ k \notin visited
  BY <1>1 DEF fresh
<1>3. Before[g][src][h]
  BY <1>1 DEF RaceInv, SearchInv
<1> HIDE DEF h
<1>4. /\ DOMAIN HB[g] = Node
      /\ Before[g][src][h] = Reach(HB[g], src, h)
      /\ Before[g][src][k] = Reach(HB[g], src, k)
  BY <1>1, <1>2, BeforeReach
<1> QED  BY <1>1, <1>2, <1>3, <1>4, ReachStep

(* The search has met the other access.                                    *)
LEMMA FoundInv == ASSUME RaceInv, NEW k, Found(k) PROVE RaceInv'
<1>1. /\ pc = "search" /\ k \in fresh(Head(path)) /\ k = dest
      /\ cache' = Put(cache, nodeKey, TRUE) /\ pc' = "compare"
      /\ UNCHANGED <<g, todo, summary, bfsVars, loopVars, other, dfsVars, races>>
  BY DEF Found, Answer
<1>2. Busy /\ InEntry /\ RaceTypeOK /\ CacheExact
  BY <1>1, SearchFacts, BusyFacts DEF RaceInv
<1>3. Before[g][src][dest]
  BY <1>1, NeighbourReached
<1>4. ~CheckGoInLoops(g, a_n, b_n)
  BY <1>1 DEF RaceInv, SearchInv
<1>5. Ordered(g, a_n, b_n)
  BY <1>3, <1>4 DEF Ordered, src, dest
<1>6. CacheExact' /\ \A x \in DOMAIN cache' : cache'[x] \in BOOLEAN
  BY <1>1, <1>2, <1>5, CachePut
<1> QED  BY <1>1, <1>2, <1>5, <1>6, OrderedPair

(* A call of DFSVisit.                                                     *)
LEMMA DescendInv == ASSUME RaceInv, NEW k, Descend(k) PROVE RaceInv'
<1>1. /\ pc = "search" /\ pc' = "search" /\ k \in fresh(Head(path)) /\ k # dest
      /\ path' = <<k>> \o path /\ visited' = visited \cup {k} /\ forward' = forward
      /\ UNCHANGED <<g, todo, summary, bfsVars, loopVars, other, cache, races>>
  BY DEF Descend
<1>2. /\ Busy /\ Busy' /\ SearchInv /\ path \in Seq(Node) /\ visited \subseteq Node
      /\ forward \in BOOLEAN /\ InEntry
  BY <1>1, SearchFacts, BusyFacts DEF Busy
<1>3. k \in Node /\ Before[g][src][k]
  BY <1>1, NeighbourReached
<1>4. /\ path' \in Seq(Node) /\ path' # <<>> /\ ElementsOf(path') = {k} \cup ElementsOf(path)
  BY <1>1, <1>2, <1>3, PushElements
<1>5. src' = src /\ dest' = dest /\ a_n' = a_n /\ b_n' = b_n
  BY <1>1 DEF src, dest, a_n, b_n, loopVars
<1>6. SearchInv'
  <2>1. \A n \in visited' \ ElementsOf(path') : HB[g][n] \subseteq visited'
    BY <1>1, <1>2, <1>4 DEF SearchInv
  <2>2. \A n \in visited' : Before[g][src][n]
    BY <1>1, <1>2, <1>3 DEF SearchInv
  <2>3. ElementsOf(path') \subseteq visited' /\ src \in visited' /\ dest \notin visited'
    BY <1>1, <1>2, <1>4 DEF SearchInv
  <2> QED  BY <1>1, <1>2, <1>5, <2>1, <2>2, <2>3 DEF SearchInv
<1>7. CacheExact' /\ \A x \in DOMAIN cache' : cache'[x] \in BOOLEAN
  BY <1>1, <1>2, CacheFrame DEF RaceInv, RaceTypeOK
<1> QED  BY <1>1, <1>2, <1>3, <1>4, <1>6, <1>7, BusyFrame

(* A call of DFSVisit returns: it has left no neighbour out.               *)
LEMMA ReturnInv == ASSUME RaceInv, Return PROVE RaceInv'
<1>1. /\ pc = "search" /\ pc' = "search" /\ fresh(Head(path)) = {} /\ Len(path) > 1
      /\ path' = Tail(path) /\ visited' = visited /\ forward' = forward
      /\ UNCHANGED <<g, todo, summary, bfsVars, loopVars, other, cache, races>>
  BY DEF Return
<1>2. /\ Busy /\ Busy' /\ SearchInv /\ path \in Seq(Node) /\ visited \subseteq Node
      /\ forward \in BOOLEAN /\ InEntry /\ Head(path) \in Node
      /\ neighbors(Head(path)) = HB[g][Head(path)]
  BY <1>1, SearchFacts, BusyFacts DEF Busy
<1>3. HB[g][Head(path)] \subseteq visited
  BY <1>1, <1>2 DEF fresh
<1>4. /\ path' \in Seq(Node) /\ path' # <<>> /\ ElementsOf(path') \subseteq ElementsOf(path)
      /\ ElementsOf(path) \subseteq {Head(path)} \cup ElementsOf(path')
  BY <1>1, <1>2, PopElements
<1>5. src' = src /\ dest' = dest /\ a_n' = a_n /\ b_n' = b_n
  BY <1>1 DEF src, dest, a_n, b_n, loopVars
<1>6. SearchInv'
  <2>1. \A n \in visited \ ElementsOf(path') : HB[g][n] \subseteq visited
    BY <1>1, <1>2, <1>3, <1>4 DEF SearchInv
  <2> QED  BY <1>1, <1>2, <1>4, <1>5, <2>1 DEF SearchInv
<1>7. CacheExact' /\ \A x \in DOMAIN cache' : cache'[x] \in BOOLEAN
  BY <1>1, <1>2, CacheFrame DEF RaceInv, RaceTypeOK
<1> QED  BY <1>1, <1>2, <1>4, <1>6, <1>7, BusyFrame

(* The outermost call has nothing left: there is no way.                   *)
LEMMA SearchFails ==
  ASSUME RaceInv, pc = "search", fresh(Head(path)) = {}, Len(path) = 1
  PROVE  ~Before[g][src][dest]
<1>1. /\ SearchInv /\ path \in Seq(Node) /\ visited \subseteq Node /\ g \in RFGs
      /\ src \in Node /\ dest \in Node /\ Head(path) \in Node
      /\ neighbors(Head(path)) = HB[g][Head(path)]
  BY SearchFacts
<1>2. ElementsOf(path) = {Head(path)} /\ HB[g][Head(path)] \subseteq visited
  BY <1>1, OneElement DEF fresh
<1>3. Closed(HB[g], visited)
  BY <1>1, <1>2 DEF SearchInv, Closed
<1>4. src \in visited /\ dest \notin visited
  BY <1>1 DEF SearchInv
<1>5. DOMAIN HB[g] = Node /\ Before[g][src][dest] = Reach(HB[g], src, dest)
  BY <1>1, BeforeReach
<1> QED  BY <1>1, <1>3, <1>4, <1>5, ReachClosed

(* No way forward: the search back begins.                                 *)
LEMMA SearchBackInv == ASSUME RaceInv, SearchBack PROVE RaceInv'
<1>1. /\ pc = "search" /\ fresh(Head(path)) = {} /\ Len(path) = 1 /\ forward
      /\ Search(IF FALSE THEN a_n ELSE b_n, FALSE)
      /\ UNCHANGED <<g, todo, summary, bfsVars, loopVars, other, cache, races>>
  BY DEF SearchBack
<1>2. ~Before[g][a_n][b_n]
  BY <1>1, SearchFails DEF src, dest
<1>3. Busy /\ ~CheckGoInLoops(g, a_n, b_n)
  BY <1>1 DEF RaceInv, SearchInv, Busy
<1> QED  BY <1>1, <1>2, <1>3, SearchStart

(* No way back either.                                                     *)
LEMMA NotFoundInv == ASSUME RaceInv, NotFound PROVE RaceInv'
<1>1. /\ pc = "search" /\ fresh(Head(path)) = {} /\ Len(path) = 1 /\ ~forward
      /\ cache' = Put(cache, nodeKey, FALSE) /\ pc' = "add" /\ Busy /\ Busy'
      /\ UNCHANGED <<g, todo, summary, bfsVars, loopVars, other, dfsVars, races>>
  BY DEF NotFound, Answer, Busy
<1>2. ~Before[g][b_n][a_n]
  BY <1>1, SearchFails DEF src, dest
<1>3. ~Before[g][a_n][b_n]
  BY <1>1 DEF RaceInv, SearchInv
<1>4. ~Ordered(g, a_n, b_n)
  BY <1>2, <1>3 DEF Ordered
<1>5. CacheExact' /\ \A x \in DOMAIN cache' : cache'[x] \in BOOLEAN
  BY <1>1, <1>4, BusyFacts, CachePut DEF RaceInv
<1> QED  BY <1>1, <1>4, <1>5, BusyFrame DEF SearchInv

-----------------------------------------------------------------------------
(* The report.                                                             *)

(* AddRace: the pair is a race, and is known from now on.                  *)
LEMMA AddRaceInv == ASSUME RaceInv, AddRace PROVE RaceInv'
<1> DEFINE key == PosKey(g, write, other)
<1>1. /\ pc = "add" /\ pc' = "compare" /\ Busy /\ ~Busy'
      /\ races' = IF Dropped(key) \/ key \in DOMAIN races THEN races
                  ELSE Put(races, key, <<write, other>>)
      /\ UNCHANGED <<g, todo, summary, bfsVars, loopVars, other, cache, dfsVars>>
  BY DEF AddRace, Busy
<1>2. /\ Comparing /\ Comparing' /\ InEntry /\ InEntry' /\ LoopType /\ queue = {}
      /\ write \in RW /\ other \in RW
      /\ Conflict(g, write, other) /\ ~Exempt(write, other)
  BY <1>1, BusyFacts DEF Comparing, InEntry
<1>3. Racy(g, write, other)
  <2>1. ~Ordered(g, NodeOf(g, write), NodeOf(g, other))
    BY <1>1 DEF RaceInv, a_n, b_n
  <2> QED  BY <1>2, <2>1 DEF Racy, Exempt
<1>4. /\ DOMAIN races \subseteq DOMAIN races'
      /\ Dropped(key) \/ key \in DOMAIN races'
      /\ \A k \in DOMAIN races' :
           \/ k \in DOMAIN races /\ races'[k] = races[k]
           \/ k = key /\ ~Dropped(key) /\ races'[k] = <<write, other>>
  BY <1>1 DEF Put
<1> HIDE DEF key
<1>5. LoopType'
  BY <1>1, <1>2 DEF LoopType, loopVars, obj2WriteNode, obj2ReadNode, RW
<1>6. RaceTypeOK'
  BY <1>1, <1>2, <1>5 DEF RaceInv, RaceTypeOK, bfsVars, Node
<1>7. EdgesInv'
  BY <1>1, <1>2, EdgesFrame DEF RaceInv
<1>8. OnlyRaces'
  <2> SUFFICES ASSUME NEW k \in DOMAIN races'
               PROVE  /\ ~Dropped(k)
                      /\ \E w, x \in RW : /\ races'[k] = <<w, x>> /\ PosKey(g, w, x) = k
                                          /\ Racy(g, w, x)
    BY <1>1 DEF OnlyRaces, RW
  <2>1. CASE k \in DOMAIN races /\ races'[k] = races[k]
    BY <1>2, <2>1 DEF RaceInv, OnlyRaces
  <2>2. CASE k = key /\ ~Dropped(key) /\ races'[k] = <<write, other>>
    BY <1>2, <1>3, <2>2 DEF key
  <2> QED  BY <1>4, <2>1, <2>2
<1>9. PairsInv'
  <2> SUFFICES ASSUME NEW o \in Obj, NEW w \in obj2WriteNode(o),
                      NEW x \in obj2ReadNode(o) \cup (obj2WriteNode(o) \ {w})
               PROVE  Ahead(o, w, x)' \/ Behind(w, x)'
    BY <1>1 DEF PairsInv, obj2WriteNode, obj2ReadNode, RW
  <2>1. Ahead(o, w, x) \/ Behind(w, x)
    BY <1>2 DEF RaceInv, PairsInv
  <2>2. Behind(w, x) => Behind(w, x)'
    BY <1>1, <1>4 DEF Behind
  <2>3. ASSUME {w, x} = {write, other} PROVE Behind(w, x)'
    <3>1. PosKey(g, w, x) = key
      BY <2>3, KeySym DEF key
    <3> QED  BY <1>1, <1>4, <3>1 DEF Behind
  <2> QED  BY <1>1, <2>1, <2>2, <2>3 DEF Ahead, loopVars
<1> QED  BY <1>1, <1>2, <1>6, <1>7, <1>8, <1>9, CacheFrame DEF RaceInv, SearchInv

(* When the loops are through, the races of the graph are known.           *)
LEMMA AllRaces ==
  ASSUME RaceInv, Compared, wnodes = {}, objs = {}
  PROVE  DOMAIN races = RaceKeys[g]
<1>1. pc = "compare" /\ reads = {} /\ later = {} /\ Comparing /\ InEntry /\ ~Busy /\ g \in RFGs
  BY DEF Compared, Comparing, InEntry, Busy, RaceInv, RaceTypeOK
<1>2. RaceKeys[g] = {k \in {PosKey(g, w, x) : w, x \in RW} :
        ~Dropped(k) /\ \E w, x \in RW : Racy(g, w, x) /\ PosKey(g, w, x) = k}
  BY <1>1 DEF RaceKeys, RW
<1>3. DOMAIN races \subseteq RaceKeys[g]
  BY <1>1, <1>2 DEF RaceInv, OnlyRaces
<1>4. ASSUME NEW w \in RW, NEW x \in RW, Racy(g, w, x), ~Dropped(PosKey(g, w, x))
      PROVE  PosKey(g, w, x) \in DOMAIN races
  <2>1. w # x /\ g.rws[w].typID = "NWrite" /\ g.rws[w].pts \cap g.rws[x].pts # {}
    BY <1>4 DEF Racy, Conflict
  <2>2. g.rws[w].pts \subseteq Obj /\ g.rws[x].typID \in {"NRead", "NWrite"}
    BY <1>1, RFGPlusAssumption DEF IsRFGPlus, RWRec, RW
  <2>3. PICK o \in Obj : o \in g.rws[w].pts /\ o \in g.rws[x].pts
    BY <2>1, <2>2
  <2>4. w \in obj2WriteNode(o) /\ x \in obj2ReadNode(o) \cup (obj2WriteNode(o) \ {w})
    BY <2>1, <2>2, <2>3 DEF obj2WriteNode, obj2ReadNode
  <2>5. ~Ahead(o, w, x)
    BY <1>1 DEF Ahead
  <2> QED  BY <1>1, <1>4, <2>4, <2>5 DEF RaceInv, PairsInv, Behind
<1>5. RaceKeys[g] \subseteq DOMAIN races
  BY <1>2, <1>4
<1> QED  BY <1>3, <1>5

-----------------------------------------------------------------------------
(* The theorems.                                                           *)

(* Every step of the detector preserves the invariant.                     *)
LEMMA NextInv == ASSUME RaceInv, [Next]_vars PROVE RaceInv'
<1>1. ASSUME NEW r \in todo, DetectEntry(r) PROVE RaceInv'
  BY <1>1, DetectEntryInv
<1>2. ASSUME NEW r \in todo, SkipEntry(r) PROVE RaceInv'
  BY <1>2, BetweenEntries DEF SkipEntry, RaceInv
<1>3. CASE AllDone
  BY <1>3, BetweenEntries DEF AllDone, RaceInv
<1>4. CASE Edges
  BY <1>4, AddHappenBeforeEdgesInv, StartRacesInv DEF Edges
<1>5. CASE Pairs
  BY <1>5, NextObjInv, NextWriteInv, SkipPairInv, ComparePairInv DEF Pairs
<1>6. CASE Order
  BY <1>6, CacheHitInv, GoInLoopInv, StartSearchInv, FoundInv, DescendInv, ReturnInv,
     SearchBackInv, NotFoundInv DEF Order
<1>7. CASE AddRace
  BY <1>7, AddRaceInv
<1>8. CASE SummarizeRaces
  BY <1>8, BetweenEntries DEF SummarizeRaces, RaceInv
<1>9. CASE UNCHANGED vars
  <2> USE <1>9 DEF vars, InEntry, Comparing, Busy, RW, Node
  <2>1. LoopType' = LoopType
    BY DEF LoopType, obj2WriteNode, obj2ReadNode, Exempt
  <2>2. RaceTypeOK'
    BY <2>1 DEF RaceInv, RaceTypeOK
  <2>3. EdgesInv' /\ CacheExact' /\ OnlyRaces'
    BY DEF RaceInv, EdgesInv, CacheExact, OnlyRaces
  <2>4. SearchInv'
    BY DEF RaceInv, SearchInv, src, dest, a_n, b_n
  <2>5. PairsInv'
    BY DEF RaceInv, PairsInv, Ahead, Behind, obj2WriteNode, obj2ReadNode
  <2> QED  BY <2>2, <2>3, <2>4, <2>5 DEF RaceInv, a_n, b_n
<1> QED  BY <1>1, <1>2, <1>3, <1>4, <1>5, <1>6, <1>7, <1>8, <1>9
     DEF Next, Entries, Report, Terminated

(* The inductive invariant of the race detector holds: its edges, searches *)
(* and loops are where they should be.                                     *)
THEOREM RaceInductive == Spec => []RaceInv
<1>1. Init => RaceInv
  BY InitInv
<1>2. RaceInv /\ [Next]_vars => RaceInv'
  BY NextInv
<1> QED  BY <1>1, <1>2, PTL DEF Spec

(* AddHappenBeforeEdges finds exactly the edges of RFG+.                   *)
THEOREM EdgesCorrect == Spec => []SyncExact
<1>1. RaceInv => SyncExact
  <2> SUFFICES ASSUME RaceInv, Comparing PROVE sync = SyncKids[g]
    BY DEF SyncExact
  <2>1. InEntry /\ pc # "edges"
    BY DEF Comparing, InEntry
  <2>2. RaceTypeOK /\ EdgesInv /\ queue = {}
    BY <2>1 DEF RaceInv, EdgesInv
  <2> QED  BY <2>1, <2>2, EdgesExact
<1> QED  BY <1>1, RaceInductive, PTL

(* DFSCanReach: what the cache answers is the happens-before relation.     *)
THEOREM CacheCorrect == Spec => []CacheExact
<1>1. RaceInv => CacheExact
  BY DEF RaceInv
<1> QED  BY <1>1, RaceInductive, PTL

(* AddRace only records races.                                             *)
THEOREM RacesSound == Spec => []OnlyRaces
<1>1. RaceInv => OnlyRaces
  BY DEF RaceInv
<1> QED  BY <1>1, RaceInductive, PTL

(* A program of one goroutine has no race: skipping it loses nothing.      *)
LEMMA NoRaceAlone ==
  ASSUME NEW r \in RFGs, DOMAIN r.roots = {0}
  PROVE  RaceKeys[r] = {}
<1>1. ASSUME NEW w \in DOMAIN r.rws, NEW x \in DOMAIN r.rws PROVE ~Racy(r, w, x)
  <2>1. r.id2node[NodeOf(r, w)].gid = 0 /\ r.id2node[NodeOf(r, x)].gid = 0
    BY GraphFacts
  <2> QED  BY <2>1 DEF Racy, GidOf
<1> QED  BY <1>1 DEF RaceKeys

(* The detector starts as RaceReport does.                                 *)
LEMMA PromiseInit == ASSUME Init PROVE Promise!Init
<1>1. pending = {}
  BY DEF Init, pending, InEntry
<1>2. todo \in Runs /\ DOMAIN summary = {}
  BY DEF Init, Empty
<1> QED  BY <1>1, <1>2 DEF Promise!Init

(* The summary of RaceReport.                                              *)
LEMMA SummaryStep ==
  ASSUME RaceInv, SummarizeRaces
  PROVE  [k \in DOMAIN summary' |-> summary'[k].entries]
           = Promise!Merged([k \in DOMAIN summary |-> summary[k].entries], RaceKeys[g], g.entry)
<1>1. DOMAIN races = RaceKeys[g]
  BY AllRaces DEF SummarizeRaces
<1>2. summary' = [k \in DOMAIN summary \cup DOMAIN races |->
                    IF k \in DOMAIN races THEN Summarized(k) ELSE summary[k]]
  BY DEF SummarizeRaces
<1>3. ASSUME NEW k \in DOMAIN summary \cup DOMAIN races
      PROVE  summary'[k].entries =
               (IF k \in DOMAIN summary THEN summary[k].entries ELSE {})
               \cup (IF k \in DOMAIN races THEN {g.entry} ELSE {})
  BY <1>2 DEF Summarized
<1> QED  BY <1>1, <1>2, <1>3 DEF Promise!Merged

(* Every step of the detector is a step of RaceReport or none.             *)
LEMMA PromiseStep ==
  ASSUME RaceInv, [Next]_vars
  PROVE  [Promise!Next]_<<todo \cup pending, [k \in DOMAIN summary |-> summary[k].entries]>>
<1> DEFINE T == todo \cup pending
           S == [k \in DOMAIN summary |-> summary[k].entries]
<1>1. ASSUME UNCHANGED <<g, todo, summary>>, InEntry <=> InEntry'
      PROVE  UNCHANGED <<T, S>>
  BY <1>1 DEF pending
<1>2. ASSUME NEW r \in todo, DetectEntry(r) PROVE UNCHANGED <<T, S>>
  <2>1. /\ pending = {} /\ pending' = {r} /\ todo' = todo \ {r} /\ summary' = summary
    BY <1>2 DEF DetectEntry, pending, InEntry
  <2> QED  BY <2>1
<1>3. ASSUME NEW r \in todo, SkipEntry(r) PROVE Promise!Next
  <2>1. /\ pending = {} /\ pending' = {} /\ todo' = todo \ {r} /\ summary' = summary
        /\ DOMAIN r.roots = {0}
    BY <1>3 DEF SkipEntry, pending, InEntry
  <2>2. RaceKeys[r] = {}
    BY <2>1, NoRaceAlone DEF RaceInv, RaceTypeOK
  <2>3. Promise!Merged(S, RaceKeys[r], r.entry) = S
    BY <2>2 DEF Promise!Merged
  <2> QED  BY <2>1, <2>3 DEF Promise!Next, Promise!Analyse
<1>4. CASE SummarizeRaces
  <2>1. /\ pending = {g} /\ pending' = {} /\ todo' = todo
    BY <1>4 DEF SummarizeRaces, Compared, pending, InEntry
  <2>2. g \notin todo
    BY <1>4 DEF SummarizeRaces, Compared, InEntry, RaceInv, RaceTypeOK
  <2>3. S' = Promise!Merged(S, RaceKeys[g], g.entry)
    BY <1>4, SummaryStep
  <2> QED  BY <2>1, <2>2, <2>3 DEF Promise!Next, Promise!Analyse
<1>5. CASE AllDone
  BY <1>1, <1>5 DEF AllDone, InEntry
<1>6. CASE Edges
  BY <1>1, <1>6 DEF Edges, AddHappenBeforeEdges, StartRaces, InEntry
<1>7. CASE Pairs
  BY <1>1, <1>7 DEF Pairs, NextObj, NextWrite, SkipPair, ComparePair, Take, Compared, InEntry
<1>8. CASE Order
  BY <1>1, <1>8 DEF Order, CacheHit, GoInLoop, StartSearch, Found, Descend, Return, SearchBack,
     NotFound, Search, Answer, InEntry
<1>9. CASE AddRace
  BY <1>1, <1>9 DEF AddRace, InEntry
<1>10. CASE UNCHANGED vars
  BY <1>1, <1>10 DEF vars, InEntry
<1> QED  BY <1>2, <1>3, <1>4, <1>5, <1>6, <1>7, <1>8, <1>9, <1>10
     DEF Next, Entries, Report, Terminated

(* The race detector implements RaceReport: whatever the order of entries, *)
(* objects, accesses and edges, the summary names the races of every       *)
(* analysed entry and no others.                                           *)
THEOREM ReportCorrect == Spec => ReportsRaces
<1>1. Init => Promise!Init
  BY PromiseInit
<1>2. RaceInv /\ [Next]_vars
        => [Promise!Next]_<<todo \cup pending, [k \in DOMAIN summary |-> summary[k].entries]>>
  BY PromiseStep
<1> QED  BY <1>1, <1>2, RaceInductive, PTL DEF Spec, ReportsRaces, Promise!Spec

=============================================================================

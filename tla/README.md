# GoGuard: a TLA+ verification project

GoGuard (this repository) finds concurrency bugs in Go programs by static
analysis. It is a fork of `golang/tools`; its own logic is in `concurrency/`,
`go/pointer/`, `go/myutil/` and `main/`. These modules model that logic from
end to end: the front end that runs the pointer analysis, its solver, the
construction of the resource flow graph, the search for blocking bugs, the
search for data races and the complete-flow checker. Each part is model-checked
on small inputs, and for each of them structural invariants or full correctness
are proved for every input.

## Inventory

| Component | Source | State | Operations | Properties that make it right |
|---|---|---|---|---|
| Front end, command line | `go/myutil/myutil.go`, `go/pointer/analysis.go` 540-718, `main/main.go` | flags, results of each main, running analyses | `doSeq`, `AnalyzeMultiMains`, `DoSameRoot`, `DoEach`, `DoParallel` | each main analysed once, under its flags, answers and skipped nodes not mixed; the program gets through |
| Origin-sensitive pointer analysis | `go/pointer` | constraint graph, worklist, points-to sets | constraint generation, `solve` | the result is the least solution; no panic; it ends |
| Resource flow graph (RFG) construction | `concurrency/rfg.go` 501-2219, 4240-4470 | `RFGraph`, visit counts, locks held | `CreateGraph`, `DFS`, `DFSBB`, `UpdateResources`, `UpdateLockset` | a goroutine meets its operations in Go's order, with the locks it holds; each object lists its users |
| Blocking-bug detector | `rfg.go` 2529-4034, `util.go` | work list of `detectionState`s; per state the paused nodes, pairs, locks, visit marks, running goroutines | `DFSDetectBlockingBugs`, `exploreRandomState`, `visit`, `visitNode` and the matchers | verdict agrees with Go; pairing; mutual exclusion; goroutines neither lost nor revived; no panic; the search ends |
| Happens-before edges, reachability | `rfg.go` 4512-4710 | `syncAdjList`, `cache`, visited marks | `AddHappenBeforeEdges`, `DFSCanReach`, `CheckGoInLoops`, `DFSVisit` | the edges are complete; a cached answer is reachability |
| Data race detector | `rfgplus.go` | accesses per object, reported races, global summary | `DetectRace`, `AddRace`, `SummarizeRaces` | the pairs reported are those without an order or a common lock, whatever the iteration order |
| Complete-flow checker | `cfchecker.go` | checkpoints, index of locks, search | `CheckCompleteFlow`, `canReachFromAllPaths` | every call is searched from; reported exactly if a path leaves it unfinished |
| Driver | `detect.go` | lists of results | `DetectBugs`, `filterStates`, `filterCFErrs` | filters drop only duplicates |
| golang/tools | everything else | - | - | third party |

The components run one after the other: `main` reads the flags, `myutil` loads
the packages and runs the pointer analysis for every main package, and
`concurrency.DetectBugs` then builds the RFG of each entry point, calls
`DFSDetectBlockingBugs` on it and, if asked, the race detector. The
complete-flow checker reads SSA functions only. The graph is written while it is
built and only read afterwards; the pointer analysis is a library to it
(`getPTS`).

What is hard:

- The front end starts goroutines: `DoParallel`, and one per analysis under a
  time limit. An analysis whose time is out is not stopped. It goes on with
  variables of its caller (`result`, `rErr`) and of its package (`skipIDs`).
- The solver propagates differences. A label that an edge has not seen and
  never will is a wrong points-to set, and edges and constraints appear while
  other nodes are half-way.
- The builder threads "the last node" and the locks held through a recursion of
  functions, blocks, cases, deferred calls and goroutines.
- The blocking-bug detector interleaves walks of goroutines in an order drawn by
  `rand.Intn`, and copies its own state whenever a match or a lock could go
  another way. A `detectionState` is written by steps of several simulated
  goroutines, by matches made long before the node is reached, and by copies
  that carry marks of a branch not taken.
- The race detector's answer goes through a breadth-first search, a recursive
  search in both directions over a cyclic graph, a cache that all pairs share,
  loops over Go maps and a summary shared by all entries.
- The complete-flow checker keeps positions in a slice from which it deletes, and
  does not correct them.

`PROJECT.json` lists the hazards at their lines.

## Modules

| Module | Models |
|---|---|
| `FrontEnd` | the drivers of the pointer analysis, the goroutines they start and the flags they share |
| `FrontProperties`, `FrontProofs`, `MCFrontEnd` | properties and inductive invariant; TLAPS theorems; settings |
| `Constraints` | the constraints of `constraint.go`: when one applies to a label, what it adds, what it means for one to hold |
| `Andersen` | abstract specification of the solver |
| `PointerSolver` | the worklist algorithm of `solve.go` |
| `SolverProperties`, `SolverProofs`, `MCSolver` | properties, refinement mapping and inductive invariant; theorems; constraint systems |
| `SSA` | programs as the builder reads them; the blocks of cases and loops (`getCaseBBs`, `getLoopBBs`) |
| `Build` | `CreateGraph`, `DFS`, `DFSBB`, as a stack machine |
| `BuildProperties`, `BuildProofs`, `MCBuild` | properties against the execution order of Go, inductive invariant; theorems; programs |
| `RFG` | the graph: `Node`, `RFGraph`, `ProducerConsumer`. Written by `Build`; a constant of the detectors, constrained by `IsRFG` |
| `DetectionState` | `detectionState`, its queries and updates, as operators |
| `Detection` | the state machine: work list, random scheduler, walk, `visitNode`, matchers, report |
| `DetectionProperties` | properties and the three inductive invariants, each a part of the next |
| `DetectionProofs`, `PairProofs`, `HipProofs` | theorems: types and pauses; pairs of producers and consumers; running goroutines |
| `GoSemantics`, `Verdict` | reference: what the Go program of a graph can do; the report against it |
| `GoPrograms`, `MCDetection` | Go programs as graphs, shared by the two detectors; programs and fairness of the blocking-bug detector |
| `Races` | the accesses recorded in a graph, the happens-before relation of RFG+ and the races to report, from the graph alone |
| `RaceReport` | abstract specification: the summary names each race of each analysed entry |
| `RaceDetection` | the state machine: entries, edges, loops, searches, cache, summary |
| `RaceProperties`, `RaceProofs`, `MCRace` | properties, refinement mapping and inductive invariant; theorems; programs |
| `CompleteFlow` | `CheckCompleteFlow`, from its marks to its verdicts |
| `FlowProperties`, `FlowProofs`, `MCFlow` | properties over paths, inductive invariant; theorems; control-flow graphs |

`RFG` <- `DetectionState` <- `Detection` <- `DetectionProperties` <-
`DetectionProofs` <- `PairProofs` <- `HipProofs`; `Verdict` composes `Detection` with `GoSemantics`.
`RFG` <- `Races` <- `RaceDetection` <- `RaceProperties` <- `RaceProofs`;
`RaceProperties` instantiates `RaceReport`. `RFG`, `SSA` <- `Build` <-
`BuildProperties` <- `BuildProofs`. `Constraints` <- `PointerSolver` <- `SolverProperties` <-
`SolverProofs`; `SolverProperties` instantiates `Andersen`. The builder and the
detectors meet at `IsRFG`: `WellBuilt` says that the builder establishes what
the detectors' theorems assume, and is itself a theorem.

Names that end in `_something` right before a definition (`Released_kept`) are
variants with a plausible bug; each property is shown to fail on one.

### State and actions of `FrontEnd`

| Variable | Code |
|---|---|
| `flags` | the flags, and which of the entry points is called; `PTSLimit` is the global that `AnalyzeMultiMains` turns off and on |
| `pc`, `i` | which of the drivers runs, and its loop index |
| `call`, `value` | per analysis: where its caller is (in the call, in the `select`, returned) and what the call returned |
| `run`, `outcome`, `c` | per analysis: its phase, the captured `result` and `rErr`, the messages in its channel of capacity 1 |
| `skipIDs`, `gaveUp`, `skipped`, `limited` | the package variable of `solve.go`, and what each analysis did with it |
| `results`, `compared`, `parallel`, `detected` | `main2Result`, comparisons made, the goroutines of `DoParallel`, the call of `DetectBugs` |

An analysis goes through `Start`, `Solve`, `GiveUp`, `Skip`, `Finish`, `Send`;
its caller leaves by `Receive` or `Timeout`, then `Answered` and `Return`.
`Seq...`, `SameRoot`, `Each...` and `Spawn`, `WorkerCall`, `WorkerStore`,
`WorkerDone`, `Wait` are the loops of the four drivers; `Fatal` and the nil
results of `DoParallel` lead to `pc = "crash"`. What an analysis computes is
not part of this module: it ends well, with an error, or not at all.

### State and actions of `PointerSolver`

`pts`, `prevPTS`, `copyTo` and `complex` are `solverState`; `work`,
`constraints` and `skipIDs` are the fields and variable of that name; `batch`,
`stale`, `cur`, `delta`, `ix`, `rest` and `copies` are locals of
`processNewConstraints`, `solveConstraints` and the `solve` methods. The three
loops of `processNewConstraints` are `TakeConstraints`, `Attach` and
`ApplyStale`. `Pass`, `GiveUp` and `Propagate` are what `solveLimit` and
`solveDefault` do with a node from the worklist; `Apply` hands one label to one
constraint, and `OnlineCopy`, `NextConstraint`, `CopyOut` are the rest of
`solveConstraints`. `TakeMin` takes the smallest node, as in the code; `Andersen`
leaves every order open. A function met for the first time
(`genMissingFn`) issues the constraints of the constant `Body`.

### State and actions of `Build`

`calls` is the Go stack: an activation of `DFS` with its `creatorHelper`
and the blocks it is in (a block of the function, or bodies of cases, one inside
the other). `g` is the graph, `visited` the count per signature, `contexts`,
`wg_pts` and `held` the maps of that purpose. An action is an instruction
(`Sync`, `WithCancel`, `CtxDone`, `Access`, `Return`, `Defer`, `RunDefers`,
`Select`), a turn of the loop over callees (`SkipCallee`, `Cancel`, `Follow`,
`EndCall`), or a turn of the loops over blocks (`NextBlock`, `LoopEnter`,
`LoopExit`, `BlockEnd`, `SelectCase`, `SelectEnd`, `Leave`). `StartCall`
resolves the callees of any kind of call: plain, `go`, deferred, `Once.Do`,
`Map.Range`, `AfterFunc`. Nodes that one instruction makes are stored at once
(`Store`, `AddNodes`), and their resources updated in the order of their ids
(`UpdateResources`, `Ascending`), as the code does one node at a time. The two
searches of blocks (`getCaseBBs`, `getLoopBBs`) repeat a step on a queue
(`Repeat`); the step does nothing once the queue is empty, and the number of
repetitions bounds the queue: two entries for each block at most.

### State and actions of `CompleteFlow`

`checkpoints`, `pts2lock`, `outs` are those of `CheckCompleteFlow`; `at` is the
instruction it looks at; `k`, `queue`, `visited`, `reached` and `unlocks` belong
to `canReachFromAllPaths`; `ret` is the list of errors. `Mark` and `MarkOut` are
the marking loop, `Take` starts a search, `VisitLast` and `Visit` are turns of
it, `Conclude` the comparison with the outs after it.

### State and actions of `Detection`

| Variable | Code |
|---|---|
| `g` | the `RFGraph` under analysis, chosen in `Init` from the constant `RFGs` |
| `states` | `rfg.states`, the work list |
| `results` | outcomes of explored states, that the filter loop still has to read |
| `berrs` | the reported sets of nodes (`berrs` is a set, as `filterStates` makes it) |
| `ds` | the `detectionState` being explored |
| `pc`, `cur`, `stack` | where the code is: the current node and the Go call stack of `visit` (loops over kids, and over cases of a select) |
| `m` | locals of the matcher: producer, remaining objects, candidate consumers, `found_consumer`, `need_new_state`, `ds_consumer` |
| `tid` | the goroutine drawn last |

One turn of `exploreRandomState` is `Turn(t)`, or `QuietTurn(t)` when nothing
can progress and delayed nodes are handed back (`prepareLastVisit`). A walk
then follows `visit`: `KidVisit`, `KidGoroutine`, `KidVisited`, `KidsDone`. Each
case of the `switch` of `visitNode` is an action `Visit...`; a producer goes on
to the matcher, one step per candidate (`MatchObject`, `MatchListed`,
`MatchSmallest`, `MatchPass`) and an `End...` action for what the case does
afterwards. A select iterates its cases by `CasePass`, `CaseSplit`,
`CaseDefault`, `CaseReceive`, `CaseSend`, `CasesDone`. `PopState`,
`EndExplore`, `StartFilter`, `FilterResult` and `Finish` are the body of
`DFSDetectBlockingBugs`. The two explicit and the one implicit panic of the code (the foreign node
in `exploreRandomState`, `panic("X")`, the nil consumer of `matchChannel`) lead
to `pc = "crashed"`.

The nondeterminism of the model is that of the code: the drawn goroutine, and
the order of Go's map iterations (`MatchSmallest` over `tid2consumer`,
`LastVisits`).

### State and actions of `RaceDetection`

| Variable | Code |
|---|---|
| `todo`, `summary` | `DetectBugs`: entries to come; the global `summary` of `rfgplus.go` |
| `queue`, `seen`, `sync` | `AddHappenBeforeEdges`: queue, `visited`, `g.syncAdjList` |
| `objs`, `obj`, `wnodes`, `write`, `reads`, `later`, `other` | the loops of `DetectRace`: objects, writes of the object, accesses still to compare with `write` |
| `cache` | `g.cache`; the key, the smaller id and the larger one, is the set of the two |
| `forward`, `path`, `visited` | `DFSCanReach`: direction; the call stack and marks of `DFSVisit` |
| `races` | `g.races`, from the set of two positions to the first pair met |

`DetectEntry` and `SkipEntry` are `detectEntry`; `AddHappenBeforeEdges(n)` is a
turn of its loop. `StartRaces`, `NextObj`, `NextWrite`, `SkipPair` and
`ComparePair` are the loops of `DetectRace` (reads first, then the writes after
the current one). `CacheHit`, `GoInLoop`, `StartSearch`, `SearchBack` and
`NotFound` are `DFSCanReach`; `Descend`, `Return` and `Found` are a call, a
return and the success of `DFSVisit`. `AddRace` and `SummarizeRaces` have the
names of their functions.

Any map order is possible. Adjacency lists are sets: the model searches in
every order of neighbours, which contains the order of the code (sync edges,
cases, `adjList`). A node, not an access, is what is ordered, as in the code.

`RaceReport` has two variables, the entries to come and the summary, and one
action, `Analyse`. The mapping `Promise` counts the entry being analysed as
still to come, and forgets the representative of each race.

### Modelling assumptions

- `RANDOM_STATE`, `EXPLORE_ALL_STATES` and `DEBUG` have the value they have in the
  source, which no flag changes: true, true and false. `exploreOrderState` is dead
  code, and so is the early return of `matchWGDone` (3114-3117).
- Channels are unbuffered, as the detector takes them.
- The context passed to `getPTS` is fixed with the graph: `pts(n)` is the
  sequence of objects of node `n`.
- Object ids and tids are different numbers, so `delete(lockset, held_tid)` in
  `createNewLockState` deletes nothing.
- A timer channel has no recorded producer.
- Race detection: `Checked` always answers no, since nothing is ever put into
  `checked`. `USE_PTS_COMBINE` and `MORE_WRITE` are false and `UNIQUE_RACE_LOC`
  is true, as in the source. The records of `UpdateRecords` are written while
  the graph is built and are constants of it. Whether a statement is about
  errors or logging, and its text up to case, are functions of its position.
  The two nodes that `DFSCanReach` gets are of two goroutines, so its first
  call never finds its destination at once.
- The text of reports and logging are left out (the printed attribute of the
  second access is that of the first one, `rfgplus.go` 56 and 466: text only).
- Front end: `flags.DoSeq` is true and no flag clears it, so the program itself only
  runs `doSeq`. `DoSameRoot`, `DoEach` and `DoParallel` are exported functions (the last
  deprecated and without a caller), modelled as such; `DoDiff` is a variable that
  no flag sets. An analysis is its phases and its outcome; that it ends well, fails
  or (under a time limit) hangs is a free choice, and so is which nodes reach
  the limit. `Fatal` allows, but does not force, the runtime to notice two
  goroutines in one map.
- Solver: node ids, tags and types are given as constants (`Points` says what a
  well-typed node may point to). `Reflection` is false in every configuration
  of `myutil`, so the constraints of `reflect.go` never arise; neither does
  hash-value numbering change the constraints' meaning.
- Builder: the objects of an instruction are what `getPTS` gives after
  `g.alias`; a program comes in SSA form with its call graph (`IsProgram`: blocks
  lead to blocks of their function, the head of a range loop has two successors).
  `getSig` is the context, the call's text and the callee (`visited` counts per signature).
- Complete-flow checker: the control-flow graph is any graph SSA form allows; an
  implicit return has no position (line 0).

## Checks

| Run | cfg | Inputs | Checks |
|---|---|---|---|
| `all_shapes` | `MCDetection` | all shapes, also those the detector reports wrongly or never ends on | `TypeOK`, `OwnPause`, `PairsAgree`, `PairsOnceEach`, `ConsumeAfterProduce`, `UnlockReleases`, `HipSound`, `NoneLostElse`, `SendWaitsElse`, `Exclusion`, `OnlyNilPanics`, `PairsStable`, `SearchEnds` |
| `endless_wait` | `MCDetectionEndless` | a `wg.Wait` whose `Done` is missing or not reached | `Termination` fails |
| `first_done` | `MCDetectionFirstDone` | a `wg.Wait` for two goroutines | `WaitForAll` fails |
| `verdicts` | `MCDetectionVerdict` | shapes with the right verdict; the mutex, channel and mixed families | `NoFalseVerdict`, `NoMiss` |
| `nil_consumer` | `MCDetectionNilConsumer` | a select with two send cases | `NoCrash` fails |
| `races` | `MCRace` | ten shapes, 169 small programs, runs with two and three entries | `SyncExact`, `CacheExact`, `OnlyRaces`, `ReportsRaces` |
| `solver` | `MCSolver` | all systems of three constraints, the whole pool in 42 orders, with and without a limit | `Solved`, `NoPanic`, `Implements`, `Terminates` |
| `front_end` | `MCFrontEnd` | the four drivers over two mains, with their flags | `OwnAnswer`, `ComparedInTime`, `AllOrNothing`, `ParallelComplete`, `SkipsOwnInTime`, `DriverEnds`, `LateEnds` |
| `complete_flow` | `MCFlow` | nine graphs with calls in every place | `IndexSafe`, `DeferExact`, `DoneReported`, `LockReported`, `LockReleased`, `FlowEnds` |
| `lost_checkpoint` | `MCFlowLost` | locks and deferred unlocks of two mutexes, in any order | `EveryCallChecked` fails |
| `build` | `MCBuild` | straight programs, calls, contexts, selects, loops | `WellBuilt`, `PathExact`, `LocksetExact`, `BuildEnds` |
| `lost_blocks` | `MCBuildCases` | a select case with a branch | `CaseBodiesFilled` fails |

**Detector runs.** The small programs of `MCDetection` are graphs in the node
order in which `DFS` creates them: named shapes (hand-off, ping-pong, lock
inversion, nested selects, deferred unlocks, cancellation loops, waitgroups,
conditions), each with a comment that shows the Go program; and families of
*all* programs of a goroutine and main: 441 over two channels, 961 over a
channel and a mutex (at most two statements each), 36 over two mutexes (at most
one, possibly nested, section each). Whatever is drawn, a goroutine is only
resumed at its own nodes; a consumer is paired with one producer of another
goroutine on a common object, for good; a producer other than close, broadcast
and cancel serves one consumer (a `Done` or an exit, if its waitgroup is known);
no receive or wait is passed before its producer was reached; an unlock gives the
lock back; `hip`, the list of running goroutines, holds none twice and none that
has ended; critical sections exclude each other (`Exclusion`); and only the nil consumer
panics. Between turns every goroutine that was started and has not ended is in
`hip` and paused somewhere (`NoneLost`), and a send waits for its receiver
(`SendWaits`), but on the shapes that `NoneLostElse` and `SendWaitsElse` name
(below). Under fair draws the search ends, unless from some time on a `wg.Wait`
was reached and has no `Done` (`SearchEnds`): that is the one thing that keeps it
from ending, as `endless_wait` shows. `Exclusion` and `NoneLost` are statements
about the shapes, not about the families: they fail on some programs of the mixed
family, `NoneLost` on some of the two-mutex family, too.

On the judged shapes and the mutex family the report is right
for *every* sequence of draws, and in the two larger families no blocking
program is missed.

Bounds: at most four goroutines (`MaxTid = 3`), 11 nodes, four objects. Every
decision of the detector looks at two goroutines and one object, except the
choice among several consumers, for which there are shapes with two and three
receivers. The model has no counters: the work list is bounded by the duplicate
test and visited marks, and TLC explores every program completely. `MaxSteps`
in `GoSemantics` is not a restriction: each node runs once, and each `Lock`
waits once.

**Race run.** Shapes for locks, sends, waitgroups, selects, a cycle of sync
edges, goroutines started in a loop, and two goroutines of one function (several
accesses with the same positions, texts that are dropped), and all programs of a
goroutine and main with at most two of a write, a send and a receive. Entries
with common positions are run together, in both orders. Edges, cached answers
and recorded races are those of `Races` in every state, and the summary is that
of `RaceReport`.

**Solver run.** The pool has 21 constraints over 27 nodes: addresses, copies,
loads and stores, field offsets, a type filter, two type assertions, and
interface calls of a method with a shared and an on-line instance and of one out
of scope. Every three of them are solved in two orders, and all of them together
in rotations of both directions, without a limit and with a limit of two
labels. That is enough for constraints that reach a node after its labels have
been propagated (the third loop of `processNewConstraints`), for functions
generated in the middle of solving, and for nodes given up while others depend
on them; TLC reaches the actions of all three. The result is the least
solution: `Solved` says that it is one, `Implements` that nothing else is in it.

**Front-end run.** Two mains and two workers (`Par` is three in the code: the
workers do not look at each other), every combination of flags that selects
another path of `doSeq`, `DoSameRoot`, `DoEach` or `DoParallel`. A result returned is
the finished one of its own analysis; two analyses are compared only if both came back in time; the detectors get all
mains of the range, each solved under the limit asked for, or are not run; an
analysis skips only nodes that reached the limit in itself, if no analysis before
it is late (`SkipsOwnInTime`); the program gets through whatever a timed-out
analysis does, and a late goroutine ends once its analysis has.

**Complete-flow run.** Two calls out of seven in any blocks of nine graphs
(straight, if, early return and panic, loops with and without exit, a diamond,
a loop with a return and a panic, an exit that comes late), triples of lock and unlock, and four nested
calls for the index kept per lock. The properties speak of the calls in the
function (`Sites`), not of the entries of `checkpoints`, so that a call whose entry
has been deleted counts as not reported. Entries do get lost: `markUnlock` deletes
by an index that it does not correct, and `lost_checkpoint` shows it. `Orderly` says
of a function, from its calls alone, that no deferred unlock meets such a stale
index; in these functions the verdicts are as follows.

- A deferred call is reported exactly if a panic can be reached from its block,
  unless that block unlocks the same objects itself (`DeferExact`).
- A `Done` or `Broadcast` is reported exactly if some exit is a panic, a recover
  block or out of its reach (`DoneReported`). What is reported because of an exit out
  of its reach can indeed be left without the call; the converse is not what the code
  does (below).
- A lock that no deferred unlock stands for and nothing in its reach unlocks is
  reported if the function can end or come back to it (`LockReported`); a lock that
  every exit in its reach unlocks is not (`LockReleased`). Between the two the code
  compares the numbers of unlocks and outs.

**Builder run.** All programs of `main` with two instructions (three of those
that nest), calling one of six functions; recursion in and across goroutines;
several callees; contexts; selects with two cases, nested and empty ones; loops
of each kind. The counter `limit` is 3, as in the code, so that recursion does
reach it. `PathExact` and `LocksetExact` compare with the order in which Go
executes a function without branches. `Ordinary` names what is left out of this
comparison, because the code does differ there (below). `BuildEnds` holds for all
programs, and `WellBuilt` for those that `OwnNodes` allows: no `go cancel()`, and no
`Once.Do` after a `time.AfterFunc` in the same block. In these two the builder
itself puts nodes of one goroutine below another (below).

**Fairness.** The blocking-bug detector is one sequential loop, so
`WF_vars(Next)`; the goroutine is drawn by `rand.Intn` from those that
`getRandomTID` lists, so a goroutine that can be drawn again and again is drawn
in the end: `SF_vars(Turn(t))`, `SF_vars(QuietTurn(t))`. The solver, the builder
and the complete-flow checker are plain loops: `WF_vars(Next)`. In the front end
the scheduler serves the driver and each waiting caller, and timers fire. An
analysis is only assumed to end where there is no time limit; where there is
one, it may hang for ever, but a goroutine that is about to send goes on.
`SearchEnds`, `Termination`, `DriverEnds` and `LateEnds` accept a panic as an end.

The specifications of the detectors stutter at their end in `Terminated`, and
deadlock is checked there; the other programs do stop, and their cfgs say so.

### What does not hold

The five failing runs and one more finding quote the code's comments in
`PROJECT.json`:

- `nil_consumer`: a nil consumer for the second send case of a select.
- `endless_wait`: `noPausedWaits` hands an unpaired `wg.Wait` back in every turn
  without progress (3768). It is visited again and pauses again, and the loop goes
  on for ever, be the `Done` missing (`NobodyDone`) or behind an operation that
  blocks (`DoneBlocked`). The comment of `noPausedIsWalkable` says "quit".
- `first_done`: `matchWGDone` tests that every producer is complete, but returns only
  under `DEBUG` (3114), so the wait is paired after the first `Done`.
- `lost_checkpoint`: after `Lock a; Lock b; defer a.Unlock(); defer b.Unlock()` the
  checkpoint of `defer a.Unlock()` is gone, after `Lock a; Lock b; defer a.Unlock();
  defer a.Unlock()` that of `Lock b` (`pts2lock` is stale, `cfchecker.go` 86-88):
  what they leave unfinished is not reported.
- `lost_blocks`: the lost blocks of a select case.
- The finding of `complete_flow`: a `Done` in a branch that comes together again
  with the way around it (`if c { wg.Done() }; return`) is not reported, since every
  exit can be reached from it. The comment (46-51) has the checker verify that every
  control flow executes it. `DoneReported` states what the code does.

Programs left out of a passing run are left out because the property fails on
them, found with TLC and understood in the source:

- *Sends overtaken* (`TwoReceivers`, `ThreeReceivers`, left out by `SendWaitsElse`):
  the state made by `createNewState` (2915) starts at the producer, which is
  walked past at once; the sender goes on before its receiver arrives.
- *Lost goroutines* (`ABBA`, `SendInLock`, `CaseBody`, `AfterDone`, left out by
  `NoneLostElse`): a lock that is taken back leaves its holder without a way on
  (2924-2945); a case body that pauses makes `visit` return false (3242) and
  the select is walked past; after a `ctx.Done` leaf the sibling is not walked
  again. The goroutine stays in `hip` with `pause_ats` -1.
- *Read locks*. `NRUnlock` deletes from `lockset` only (3504-3505), `rlockset` has one
  holder per object (3467), and the writer's new state keeps the reader's entry
  (2932): `Readers`, `ReadWrite` and `WriterReader` are reported wrongly.
- *Later receives*. `select_node_id` is 0 for all nodes outside selects, so
  `pickConsumers` lists every later receive of a goroutine (2843): `TwoInARow` is
  reported although it cannot block.
- *Polluted default*. The copy for `default` is taken after the send case was
  matched (3194): a leaked receiver of `SendOrDefault` is missed.
- *Selects reached early* (`SelectFirst`) are reported: the goroutine is paused at
  the select, whose id is smaller than those of its cases, and
  `markConsumerAfterMatching` (2956) returns without resuming it.
- *Three contenders* of one lock (`MutexThree`): the verdict depends on the draws;
  everything else the detector runs check holds. Two sections per goroutine over
  two mutexes, and the mixed family: the state that rewinds the holder (2924-2945)
  also revives one that has ended; `NoneLost` fails in both families, `Exclusion` and
  `ConsumeAfterProduce` in rewound states of the mixed one.
- *Waitgroups*: `WaitTwo`, `NobodyDone` and `DoneBlocked` are left out of the
  verdicts, for the reasons of `first_done` and `endless_wait`.
- *A Done of two waitgroups*: `matchWGDone` picks and marks a consumer for each
  object of `wg_pts` (3105), so a `Done` that may be on either of two is the producer
  of two waits, against the comment on `pairs` (2539). `PairsOnceEach` leaves it out.
- *A late analysis* of `DoEach`: it is not stopped at the timeout (`myutil.go`
  452-454), goes on to fill `skipIDs` (`solve.go` 26, 143), and the analysis of the next
  main skips nodes that have not reached its limit. `SkipsOwnInTime` excludes it.
- *The duplicate test*: `IntMapContains` (`util.go` 86-93) takes two maps
  without a common key to contain each other. The model has it as it is.
- *Sends in select cases*: the breadth-first search of `AddHappenBeforeEdges`
  follows `adjList` only, and cases are not in it (`updateNodes` with
  `skip_append`); `DFSVisit` does enter cases. A send, close or `Done` in a case
  body gets no edge, and accesses it orders are reported as races.
  `Races!SyncKids` has the edges the code finds, so that the other properties
  speak of the code as it is.
- *Conditions*: signals are delayed until somebody waits, so lost wake-ups are
  out of the detector's scope; the reference leaves `sync.Cond` out and the
  verdict runs leave out `CondBroadcast` and `CondSignal`.
- *The builder's order* (left out by `Ordinary`): deferred calls run by kind
  (unlocks, closes, calls), not in one last-in first-out order; a second deferred
  `Done` replaces the first, and one of a function that is not the goroutine's own
  is taken for the goroutine's (1128); the call in `Once.Do` after a lock is put in
  place of the lock's node, because `cur_node` lags behind `prev_node` there.
- *The builder's contexts and callbacks*: `go cancel()` makes a node with the
  spawner's goroutine (1040), `defer cancel()` none; `AfterFunc` leaves `cur_node` in
  the goroutine it starts (1328), from where a later `Once.Do` goes on (1311), so
  that the rest of the function is built into that goroutine (`OwnNodes` leaves out
  both). That goroutine gets no exit. `Range` and the read of a returned value leave
  nodes without a way on (1341, 1371); a returned receive is dropped (1460).
- *The builder's blocks*: `onlyDeferReturn` skips a block of `rundefers; return`
  with the deferred unlocks it runs (2109); a select behind a non-blocking one
  shifts the bodies of its cases (4325); `getLoopBBs` takes `Succs[0]` of a block
  that may have none (4426); two call sites with one text and context share a
  signature, and so the limit (2130).
- *Complete flow*: a function with a deferred call has a recover block, whose
  return counts as an out that no search follows, so a plain `Done` in it is always
  reported. A lock may be reported for an exit it cannot reach, even one that
  unlocks the same objects, if that exit comes later by block and by line. A lock
  unlocked on one way only may go unreported: in `Lock; if c { Unlock }; return`
  there are as many unlocks as outs. `DoneReported`, `LockReleased` and `LockReported`
  say so.

## Proofs

The detector's three proof modules hold for every set of graphs that satisfy
`IsRFG` (`ASSUME RFGAssumption` of `RFG`), and every number of goroutines, nodes and
objects. Each has its inductive invariant, which
contains the one before: `IInv`, `OnceInv`, `HipInv`.

`DetectionProofs`:

- `Inductive`: `Spec => []IInv`;
- `TypeCorrect`: `Spec => []TypeOK`;
- `PausedAtOwnNode`: `Spec => []OwnPause`;
- `PairsAreReal`: `Spec => []PairsAgree`;
- `TurnsNeverPanic`: `Spec => NoTurnPanics`, an action property: the panic of
  `exploreRandomState` is unreachable.

`OwnPause` and `PairsAgree` are not inductive. The node at which a match pauses
or wakes a goroutine, and the pair it records, were chosen several steps
before, by the loop over objects and consumers. `IInv` adds what is true of
those locals (`MatchInv`): the producer belongs to the goroutine being walked,
the remaining objects are objects of the producer, every candidate is a
consumer of one of its objects, a chosen `ds_consumer` matches the producer,
and a send or signal that has found a consumer has chosen one. (The casesend
mode is exempt from the last part, and `nil_consumer` shows why.) `StackInv`
says that a loop over kids or cases has its frame, without which a return would
have nowhere to go.

The argument goes in three layers. Lemmas `...Good` show that each operator of
`DetectionState` maps a good state to a good state. A lemma `...Inv` per action
shows `Preserved`, `IInv` of the next state with `g` unchanged. `NextInv` puts
them together, by cases on `Next`. The graph's shape enters only through
`GraphFacts` (and `GraphRoles`, `GraphGoroutines` below), the parts of `IsRFG`
the proofs use.

`PairProofs`:

- `OnceInductive`: `Spec => []OnceInv`;
- `PairedOnce`: `Spec => []PairsOnceEach`;
- `PairsAreStable`: `Spec => PairsStable`, an action property.

A second consumer for a producer could come from a second match of the same
node: because the walk comes back to it (paused unlocks, delayed signals and
selects are handled again), because a split state is replayed, or because the
loop in hand goes on after its match. The invariant excludes each. A used
producer is `Spent`: it was visited (a case, as part of its select), and is
`Idle`, neither a delayed signal of its goroutine nor the unlock at which the
goroutine is paused, which are the only visited nodes that become producers
again (`VisitOnce`). While a producer is matched it is unused and its chosen
consumer unpaired (`MatchOnce`). A select in hand is in hand once and its sends
from the current case on are unused (`FrameOnce`), which is what lets
`CaseSend` start a match at a node that is not visited itself. Pairs are
written only by `markConsumerAfterMatching` and `createNewState`; every other
update is a `Keeps` step, and the `Keeps...` lemmas dispose of it. Stability
needs the same invariant: a consumer is only given a producer while it is
unpaired, and no step erases a pair.

`HipProofs`:

- `HipInductive`: `Spec => []HipInv`;
- `HipIsSound`: `Spec => []HipSound`;
- `PanicsOnlyForNil`: `Spec => OnlyNilPanics`, an action property: `panic("X")`
  of an exit is unreachable, too, so the nil consumer that `nil_consumer` shows is
  the detector's only panic.

`hip` is written where main starts, where a go node is walked (by `KidGoroutine`
and by the dead case of `visitNode`) and at an exit; all other steps are
`KeepsHip`. A goroutine is appended once because its go node is marked visited
with it, and `IsRFG` gives a goroutine one go node. The exit removes one entry
and panics if there is none. So the proof has to know, when an exit is
reached, that its goroutine is still in `hip`, many steps after the walk began:
`MayEnd` says of the goroutine being walked, and of the start of every
state in the work list, that it is in `hip` or has visited its exit, of which
`IsRFG` allows one; `WalkHip` says that `visit()` stays in the goroutine it was
called for, the frames of its stack included.

What `IsRFG` says of go nodes and exits was added for this proof; that the builder
establishes it is `BuildsRFG`, below.

`RaceProofs`, for every set of graphs that also satisfy `IsRFGPlus`
(`RFGPlusAssumption`), every non-empty set of entries (`RunsAssumption`) and
both values of the flags:

- `RaceInductive`: `Spec => []RaceInv`;
- `EdgesCorrect`: `Spec => []SyncExact`;
- `CacheCorrect`: `Spec => []CacheExact`;
- `RacesSound`: `Spec => []OnlyRaces`;
- `ReportCorrect`: `Spec => ReportsRaces`, the refinement of `RaceReport`.

`b` is reachable from `a` if every set of nodes that holds `a` and is closed
under the edges holds `b`. With this definition neither search needs an
induction. What a search has visited is reachable, one `ReachStep` at a time;
and when it ends without an answer, what it has visited is a closed set without
the destination (`ReachClosed`). `EdgesInv` says so of the breadth-first search
(nodes that have left the queue have passed it on), `SearchInv` of the
depth-first one (calls that have returned have left no neighbour out).
`CacheExact` then follows for both directions, because `Ordered` is symmetric.
`PairsInv` says that every pair of conflicting accesses is still ahead of the
loops, or is not a race, or is recorded. It makes the recorded races complete
when the loops end, which the refinement needs in `SummarizeRaces`; in
`SkipEntry` it needs that one goroutine cannot race with itself.

`SolverProofs`, for every set of nodes, constraints, tags, methods and function
bodies that are well typed (the assumptions of `Constraints` and `InputsAssumption`), and
every limit:

- `SolverInductive`: `Spec => []SolverInv`;
- `SolverSolved`: `Spec => []Solved`;
- `SolverNoPanic`: `Spec => []NoPanic`;
- `SolverImplements`: `Spec => Implements`, the refinement of `Andersen`.

`Solved` speaks of the end only. `SolverInv` says what is owed before: each edge
and each constraint of a node has seen all of `prevPTS` except `Owed` (everything
while the node is stale, `delta` while it is being solved) or, for the constraint
in hand, the labels in `rest` (`EdgesSeen`, `ConstraintsSeen`); a node off the
worklist owes nothing (`EdgesQuiet`, `ConstraintsQuiet`); a constraint issued is in
one of the lists or attached (`AllRecorded`); and when a stale node issues new
ones, the main loop goes round again (`NoneForgotten`). The same invariant gives
the refinement: an edge or constraint is attached only if it was asked for
(`EdgesAsked`, `ConstraintsIssued`), so a step adds only labels of `Asked`.

`FrontProofs`, for every number of mains and workers and every set of settings of
the flags:

- `FrontInductive`: `Spec => []FrontInv`;
- `FrontOwnAnswer`, `FrontComparedInTime`, `FrontAllOrNothing`,
  `FrontParallelComplete`: `Spec => []` the property of that name.

`JobInv` ties the phase of an analysis to that of its caller: the channel is
empty until the analysis has ended, a value delivered was received after it.
`SeqInv` says that the mains before `i` are done and that `PTSLimit` differs from
the flag only between GoGuard's two analyses of main `i`. `ValueInv` says that
comparisons and workers use values that were returned.

`FlowProofs`, for every function `IsFunction` allows:

- `FlowInductive`: `Spec => []FlowInv`;
- `FlowMarkInductive`: `Spec => []MarkInv`;
- `FlowIndexSafe`, `FlowDeferExact`, `FlowDoneReported`: `Spec => []` the property of
  that name;
- `FlowLockInductive`: `Spec => []LockInv`;
- `FlowLockReported`, `FlowLockReleased`: `Spec => []` the property of that name.

That every index is within `checkpoints` (`InRange`) is inductive because `markUnlock`
appends before it deletes: the slice is never shorter than the largest index kept.
That it is the right one, and that no entry of a call is lost, needs `MarkInv`: the
indices follow the order of the locks, and what a deletion shifts are the entries
behind the lock taken out. Only a later lock among these has an index that is now too
large, so a function in which no deferred unlock comes upon one of them (`Orderly`)
keeps the entry of every call (`Kept`). With the verdicts on the entries
(`DeferVerdict`, `DoneVerdict`, `LockFound`) and an invariant that at the end all of
them have been searched, each call has its verdict. For the search, as in `RaceProofs`,
everything visited is reachable, and when the queue is empty the visited blocks
are closed (`SearchInv`); reachability is again membership in every closed set.
The two bounds for locks also need to know what the search has collected:
`LockSearch` says that the unlocks found are those of visited blocks, all of those
that have left the queue included, and that no block that has left it returns with
nothing unlocked so far or leads back to the lock. If no reachable block unlocks,
the first exit or way back has therefore stopped the search with an error
(`LockFound`, and with `Kept` `LockReported`). If every exit within reach unlocks in its own block, the search
stops at none, and every out that the comparison afterwards does not excuse has
its unlock among those found (`LockReleased`).

`BuildProofs`, for every set of programs that satisfy `IsProgram`, every limit and
both values of `DoRace`:

- `BuildInductive`: `Spec => []BuildInv`;
- `BuildsRFG`: `Spec => []WellBuilt`.

`WellBuilt` speaks of the finished graph, but a graph is only well built at the end
if it was after every step, and a step keeps it only if the node it goes on from
belongs to the goroutine that is being built. So `BuildInv` says, besides
`GraphInv`, which nodes the locals of the recursion hold: the last node of every
activation and of every block in hand is of its goroutine (`CallInv`, `BlockInv`),
deferred unlocks and closes are such nodes of their kind, a select in hand is a
select, and the callee returns to the goroutine of the instruction that called it
(`CalledFrom`). `cur_node` is the exception: behind an `AfterFunc` it is in
another goroutine, which is harmless unless a `Do` follows. The induction fails
there and for `go cancel()`, and TLC shows both programs; hence `OwnNodes`.
That a goroutine gets one exit needs the stack: `Exiting` are the
activations that will make one, no two are of one goroutine, and none of their
goroutines has an exit yet. `CaseInv` says that the context of a case in hand is one
of those the case waits for.

`Parts` states `GraphInv` node by node, with ids as a prefix of the naturals. Each
operation on the graph has a lemma (`StoreInv`, `LinkInv`, `ResourcesInv`,
`SpawnInv`, `SetCaseInv`, `CancelInv`, ...) that it keeps `Parts` and that the graph
`Grows`: nodes keep their goroutine and their kind, and activations that were
valid stay so (`CallKept`). Then there is one lemma for each action, and
`BuildStep` puts them together.

Two facts about the operators are inductive: repeating a search step stays in a
set that the step does not leave (`ChainExists`, `ChainStays`), so the blocks found
are blocks of the function; and a finite set of numbers has an increasing
enumeration (`RisingExists`), so `Ascending` has a value. The library's induction
theorems take a predicate as a parameter, which the provers cannot instantiate.
`NatInd` replaces them: a set of naturals that holds 0 and is closed under
successors is `Nat`, because the strict subset order on the subsets of an interval is
well-founded (`WFMin`); the predicate is the set.

With `BuildsRFG`, `RFGAssumption` is discharged for graphs that come out of the builder:
what `DetectionProofs`, `PairProofs`, `HipProofs` and `RaceProofs` (up to
`IsRFGPlus`) show holds for the graph of every program within `OwnNodes`.

Only model-checked:

- Liveness (`SearchEnds`, `Terminates`, `DriverEnds`, `LateEnds`, `FlowEnds`,
  `BuildEnds`): out of the prover's reach.
- `ConsumeAfterProduce`, `UnlockReleases`, `NoneLostElse`, `SendWaitsElse`,
  `Exclusion`: these are not true of every graph that satisfies `IsRFG`, nor of
  every program. The reasons are those of the section above: a state that rewinds
  the holder of a lock revives goroutines that have ended, walks past a producer,
  or lets the holder retake another of several objects. They are properties of
  the shapes the run names, and no invariant separates these from the others.
- `SkipsOwnInTime`: it depends on the order in which calls without a time limit
  follow each other; not attempted.
- `NoFalseVerdict`, `NoMiss`: the same, and the reference is a recursive function.
- `PathExact`, `LocksetExact`: their reference executes Go by recursion over
  functions, to be compared at every step with the stack of the builder and a path
  through a graph that is still growing; not attempted.

Not proved and not checked: that RFG+ orders what Go orders: `Races` takes the
edges of the code as given.

## Not modelled

- Constraint generation (`gen.go`, but for `genMissingFn`, `taggedValue` and the
  instances of a call), origins and contexts, reflection, hash-value numbering:
  driven by Go's type system, a translation rather than a protocol.
- In the builder: `g.alias` and `updateChannelPTS`, `RLocker`,
  `recursiveFindFieldAddr`, the search for the receiver of a call through struct
  fields. The objects of an instruction are inputs of the model.
- `filterStates`, `filterCFErrs`, statistics, the text of reports and the search
  for their source lines.
- Sparse integer sets, the unmodified pointer analysis, package loading and the
  rest of `golang/tools`: third-party code with upstream tests, by far the largest
  part of the repository's lines.

## Plan

1. `Detection`, `Races`, `RaceDetection` and their proofs (done).
2. `PointerSolver`, `FrontEnd`, `CompleteFlow` and their proofs; `Build` (done).
3. Theorems: `PairsStable` and pairing once, `hip` without duplicates, `panic("X")`
   unreachable, the two bounds for locks of the complete-flow checker, and that the
   builder's graph is one the detectors can rely on (done). Left: `LocksetExact`, by
   the induction of `NatInd` over the depth of calls.
4. Composition of `Build` with `Detection` over `MCBuild`'s programs, so that
   verdicts are judged on Go programs rather than on graphs.
5. Filters of the blocking results (`detect.go`); aliases of channels in the
   builder.

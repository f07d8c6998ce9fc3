------------------------------- MODULE MCRace -------------------------------
(***************************************************************************)
(* Instances of the race detector for TLC.                                 *)
(***************************************************************************)
EXTENDS GoPrograms, RaceProperties, TLC

(* Accesses to the variable x or y at node n, under locks L.               *)
Writes(n, v, L, p) == [n |-> n, typID |-> "NWrite", pts |-> {v}, lockset |-> L, pos |-> p]
Reads(n, v, L, p) == [Writes(n, v, L, p) EXCEPT !.typID = "NRead"]

NoLoops(r) == [t \in DOMAIN r.roots |-> {}]
Plain(p, accesses, e) ==
  LET r == MakeRFG(p)
  IN  r @@ [rws |-> accesses, gid2nloop |-> NoLoops(r), entry |-> e]
InLoop(q, t, l, r) == [q EXCEPT !.gid2nloop[t] = {<<l, r>>}]

(* Positions: 1..5 are ordinary statements, 6 calls a logger, 7 and 8 hold *)
(* the same definition, 9 and 10 are ordinary again.                       *)
Positions == 1..10
Texts == [p \in Positions |-> IF p \in {7, 8} THEN "msg := f()" ELSE "stmt"]

-----------------------------------------------------------------------------
(* go func() { x = 1 }(); x = 2; read x *)
Unordered(e) ==
  Plain(<<Go(0, -1), Go(1, 0), RWs(1, 1), Exit(1, 2), RWs(0, 0), Exit(0, 4)>>,
        <<Writes(2, "x", {}, 1), Writes(4, "x", {}, 2), Reads(4, "x", {}, 3)>>, e)

(* the same under a mutex, the read outside of it *)
Locked(e) ==
  Plain(<<Go(0, -1), Go(1, 0), Lock(1, 1, "m"), RWs(1, 2), Unlock(1, 3, "m"), Exit(1, 4),
          Lock(0, 0, "m"), RWs(0, 6), Unlock(0, 7, "m"), RWs(0, 8), Exit(0, 9)>>,
        <<Writes(3, "x", {"m"}, 1), Writes(7, "x", {"m"}, 2), Reads(9, "x", {}, 3)>>, e)

(* go func() { x = 1; a <- 1; y = 1 }(); y = 2; <-a; x = 2; y = 3 *)
Sent(e) ==
  Plain(<<Go(0, -1), Go(1, 0), RWs(1, 1), Send(1, 2, "a"), RWs(1, 3), Exit(1, 4),
          RWs(0, 0), Recv(0, 6, "a"), RWs(0, 7), Exit(0, 8)>>,
        <<Writes(2, "x", {}, 1), Writes(4, "y", {}, 2), Writes(6, "y", {}, 3),
          Writes(8, "x", {}, 4), Writes(8, "y", {}, 5)>>, e)

(* go func() { <-b; x = 1; a <- 1 }(); <-a; x = 2; b <- 1 : the sync edges *)
(* make a cycle *)
Crossed(e) ==
  Plain(<<Go(0, -1), Go(1, 0), Recv(1, 1, "b"), RWs(1, 2), Send(1, 3, "a"), Exit(1, 4),
          Recv(0, 0, "a"), RWs(0, 6), Send(0, 7, "b"), Exit(0, 8)>>,
        <<Writes(3, "x", {}, 1), Writes(7, "x", {}, 2)>>, e)

(* two goroutines, x = 1; w.Done() and defer w.Done(); w.Wait(); x = 2 *)
Waited(e) ==
  Plain(<<Go(0, -1), Go(1, 0), RWs(1, 1), On("NWGDone", 1, 2, "w"), Exit(1, 3),
          Go(2, 0), RWs(2, 5), ExitWG(2, 6, "w"),
          On("NWGWait", 0, 0, "w"), RWs(0, 8), Exit(0, 9)>>,
        <<Writes(2, "x", {}, 1), Writes(6, "x", {}, 2), Writes(9, "x", {}, 3)>>, e)

(* x = 0; for { go func() { x = 1 }(); x = 2 } *)
Looped(e) ==
  InLoop(Plain(<<Go(0, -1), RWs(0, 0), Loop("NLoop", 0, 1, "loop", TRUE), RWs(0, 2),
                 Go(1, 3), RWs(1, 4), Exit(1, 5), Loop("NLoop", 0, 3, "loop", FALSE), Exit(0, 7)>>,
               <<Writes(1, "x", {}, 1), Writes(3, "x", {}, 2), Writes(5, "x", {}, 3)>>, e),
         1, 2, 3)

(* two goroutines run one function: two nodes and two accesses per node    *)
(* with the same positions; logging; a definition twice; no position       *)
Copies(e) ==
  Plain(<<Go(0, -1), Go(1, 0), RWs(1, 1), Exit(1, 2), Go(2, 0), RWs(2, 4), Exit(2, 5),
          RWs(0, 0), Exit(0, 7)>>,
        <<Writes(2, "x", {}, 9), Reads(2, "x", {}, 10), Writes(5, "x", {}, 9), Reads(5, "x", {}, 10),
          Writes(2, "y", {}, 7), Writes(5, "y", {}, 8), Reads(7, "y", {}, 6), Reads(7, "x", {}, 0)>>, e)

(* go func() { x = 1; select { case <-b: a <- 1 } }(); <-a; x = 2 *)
SendInCase(e) ==
  Plain(<<Go(0, -1), Go(1, 0), RWs(1, 1), Select(1, 2, <<4, NoNode>>), Case(1, 3, "b"),
          InSel(3, Send(1, 4, "a")), Exit(1, 3), Recv(0, 0, "a"), RWs(0, 7), Exit(0, 8)>>,
        <<Writes(2, "x", {}, 1), Writes(8, "x", {}, 2)>>, e)

(* go func() { select { case <-a: x = 1 } }(); x = 2; a <- 1 *)
ReceiveInCase(e) ==
  Plain(<<Go(0, -1), Go(1, 0), Select(1, 1, <<3>>), Case(1, 2, "a"), InSel(2, RWs(1, 3)),
          Exit(1, 2), RWs(0, 0), Send(0, 6, "a"), Exit(0, 7)>>,
        <<Writes(4, "x", {}, 1), Writes(6, "x", {}, 2)>>, e)

(* x = 1 *)
Alone(e) == Plain(<<Go(0, -1), RWs(0, 0), Exit(0, 1)>>, <<Writes(1, "x", {}, 1)>>, e)

-----------------------------------------------------------------------------
(* All programs of a goroutine and main with at most two of: a write to x, *)
(* a send and a receive, on one channel; each write has its own position.  *)
SmallBodies == UNION {[1..n -> {<<"NRW", "x">>, <<"send", "a">>, <<"recv", "a">>}] : n \in 0..2}
WritesOf(b, first, pos) ==
  LET at == SelectSeq([i \in 1..Len(b) |-> i], LAMBDA i : b[i][1] = "NRW")
  IN  [i \in 1..Len(at) |-> Writes(first + at[i] - 1, "x", {}, pos + at[i])]
Small(b1, b0) ==
  LET r == GoAndMain(b1, b0)
  IN  r @@ [rws |-> WritesOf(b1, 2, 0) \o WritesOf(b0, Len(b1) + 3, 2),
            gid2nloop |-> NoLoops(r), entry |-> "main"]

Shapes(e) == {Unordered(e), Locked(e), Sent(e), Crossed(e), Waited(e), Looped(e), Copies(e),
              SendInCase(e), ReceiveInCase(e), Alone(e)}
SmallGraphs == {Small(b1, b0) : b1, b0 \in SmallBodies}

RaceRFGs == Shapes("main") \cup SmallGraphs \cup {Unordered("test"), Copies("test")}
RaceRuns == {{r} : r \in Shapes("main") \cup SmallGraphs}
            \cup {{Unordered("main"), Unordered("test"), Alone("main")},
                  {Sent("main"), Unordered("test")}}

=============================================================================

---------------------------- MODULE GoSemantics ----------------------------
(***************************************************************************)
(* The reference for the detector's verdict: whether Go can leave a        *)
(* goroutine of the program of graph r blocked for ever.  Channels are     *)
(* unbuffered, as the detector takes them; a writer that waits for a lock  *)
(* keeps new readers out, as sync.RWMutex does; a waitgroup counts the     *)
(* calls of Done the graph records.  Programs have no loop to repeat: a    *)
(* loop node is passed once.  sync.Cond is left out.                       *)
(*                                                                         *)
(* A configuration gives each goroutine the nodes it has still to run, and *)
(* the state of the objects.                                               *)
(***************************************************************************)
EXTENDS RFG, FiniteSets

NoTid == -1

FirstConf(r) ==
  [todo |-> [t \in DOMAIN r.roots |-> IF t = 0 THEN <<r.roots[0]>> ELSE <<>>],
   closed |-> {},                        \* closed channels, cancelled contexts
   writer |-> [o \in Obj |-> NoTid],
   readers |-> [o \in Obj |-> 0],
   waiting |-> [o \in Obj |-> {}],       \* goroutines announced in Lock()
   done |-> {}]                          \* calls of Done that returned

objOf(r, n) == r.id2node[n].pts[1]
head(c, t) == Head(c.todo[t])
busy(c, t) == c.todo[t] # <<>>

(* What goroutine t may do next: its node, or a case of its select.        *)
Ops(r, c, t) ==
  IF r.id2node[head(c, t)].typId = "NSelect"
  THEN {r.id2node[head(c, t)].cases[i] :
          i \in DOMAIN r.id2node[head(c, t)].cases} \ {NoNode}
  ELSE {head(c, t)}

(* t has run op.  A go node of another goroutine starts it.                *)
After(r, c, t, op) ==
  LET rest == Tail(c.todo[t])
      h == head(c, t)
      own(n) == r.id2node[n].kids
  IN  IF r.id2node[op].gid # t
      THEN [c EXCEPT !.todo[t] = rest, !.todo[r.id2node[op].gid] = <<op>>]
      ELSE [c EXCEPT !.todo[t] = IF op = h THEN own(h) \o rest ELSE own(op) \o own(h) \o rest]

Sends(r, op) == r.id2node[op].isSender
Receives(r, op) ==
  /\ r.id2node[op].typId \in {"NChannel", "NCase", "NCaseDone", "NCtxDone"}
  /\ r.id2node[op].case_kind = "chan" /\ ~Sends(r, op)

Partners(r, c, t, op) ==
  {p \in UNION {{u} \X Ops(r, c, u) : u \in {v \in DOMAIN r.roots \ {t} : busy(c, v)}} :
     /\ \/ Sends(r, op) /\ Receives(r, p[2])
        \/ Receives(r, op) /\ Sends(r, p[2])
     /\ objOf(r, op) = objOf(r, p[2])}

(* op needs no other goroutine at the same time.                           *)
Alone(r, c, t, op) ==
  LET nd == r.id2node[op]
      o == objOf(r, op)
      producersOf == r.resources[o].producers
  IN  CASE nd.case_kind = "timer" -> TRUE
        [] nd.case_kind = "default" -> FALSE
        [] Sends(r, op) -> FALSE
        [] Receives(r, op) -> o \in c.closed
        [] nd.typId = "NLock" -> c.writer[o] = NoTid /\ c.readers[o] = 0
        [] nd.typId = "NRLock" -> c.writer[o] = NoTid /\ c.waiting[o] = {}
        [] nd.typId = "NWGWait" -> \A i \in DOMAIN producersOf : producersOf[i] \in c.done
        [] OTHER -> TRUE

Ready(r, c, t, op) == Alone(r, c, t, op) \/ Partners(r, c, t, op) # {}
DefaultReady(r, c, t, op) ==
  /\ r.id2node[op].case_kind = "default"
  /\ \A k \in Ops(r, c, t) : ~Ready(r, c, t, k)

Effect(r, c, t, op) ==
  LET nd == r.id2node[op]
      o == objOf(r, op)
  IN  CASE nd.typId \in {"NClose", "NCancel"} -> [c EXCEPT !.closed = @ \cup {o}]
        [] nd.typId = "NLock" -> [c EXCEPT !.writer[o] = t, !.waiting[o] = @ \ {t}]
        [] nd.typId = "NUnlock" -> [c EXCEPT !.writer[o] = NoTid]
        [] nd.typId = "NRLock" -> [c EXCEPT !.readers[o] = @ + 1]
        [] nd.typId = "NRUnlock" -> [c EXCEPT !.readers[o] = @ - 1]
        [] nd.typId \in {"NWGDone", "NExit"} -> [c EXCEPT !.done = @ \cup {op}]
        [] OTHER -> c

Succ(r, c) ==
  LET T == {t \in DOMAIN r.roots : busy(c, t)}
      turns == UNION {{t} \X Ops(r, c, t) : t \in T}
      alone == {a \in turns : Alone(r, c, a[1], a[2]) \/ DefaultReady(r, c, a[1], a[2])}
      meet == UNION {{a} \X Partners(r, c, a[1], a[2]) : a \in {b \in turns : Sends(r, b[2])}}
      late == {t \in T : /\ r.id2node[head(c, t)].typId = "NLock"
                         /\ t \notin c.waiting[objOf(r, head(c, t))]
                         /\ ~Alone(r, c, t, head(c, t))}
  IN  {After(r, Effect(r, c, a[1], a[2]), a[1], a[2]) : a \in alone}
      \cup {After(r, After(r, c, p[1][1], p[1][2]), p[2][1], p[2][2]) : p \in meet}
      \cup {[c EXCEPT !.waiting[objOf(r, head(c, t))] = @ \cup {t}] : t \in late}

(* Every node runs at most once and every Lock() announces at most once.   *)
MaxSteps(r) == 2 * Cardinality(DOMAIN r.id2node)

(* Some interleaving stops with a goroutine that has not ended.            *)
CanBlock(r) ==
  LET conf[k \in 0..MaxSteps(r)] ==
        IF k = 0 THEN {FirstConf(r)}
        ELSE UNION {Succ(r, c) : c \in conf[k - 1]}
  IN  \E k \in 0..MaxSteps(r) : \E c \in conf[k] :
        Succ(r, c) = {} /\ \E t \in DOMAIN r.roots : busy(c, t)

=============================================================================

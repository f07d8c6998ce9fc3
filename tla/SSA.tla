--------------------------------- MODULE SSA ---------------------------------
(***************************************************************************)
(* The program CreateGraph reads (go/ssa) and how rfg.go finds the blocks  *)
(* of a select case or a loop in it.                                       *)
(*                                                                         *)
(* A program maps call-graph nodes, functions in a context, to             *)
(* [fn, kind, blocks]: the function, whether it is application code ("app"), *)
(* out of scope ("lib") or the cancel function of a context, and its basic *)
(* blocks.  A block is [comment, instrs, term, two, succs]: term is its    *)
(* last instruction, two says that it has two instructions only, instrs    *)
(* are the ones that matter.  An instruction is                            *)
(* [op, on, callees, text, states, blocking]: the objects it works on, the *)
(* call-graph nodes it may call, what the call reads as, and the cases of  *)
(* a select.  A lock called through an interface is a read lock for the    *)
(* builder (createLockNode), so its op is one.                             *)
(***************************************************************************)
EXTENDS Naturals, Sequences, SequencesExt

SelectNext(blk) == blk.comment \in {"select.next", "select.done"}

\* A block of "rundefers; return".
onlyDeferReturn(blk) ==
  blk.two /\ Len(blk.instrs) = 2 /\ blk.instrs[1].op = "rundefers" /\ blk.instrs[2].op = "return"

\* Step repeated n times.  The bound x lets TLC evaluate every step once.
Repeat(Step(_), st, n) ==
  LET R[m \in 0 .. n] == IF m = 0 THEN st ELSE CHOOSE y \in {Step(x) : x \in {R[m - 1]}} : TRUE
  IN  R[n]

\* Breadth-first search of bs from the queue, through the blocks that may be
\* visited; the ones that end the search are not followed.
Search(bs, queue, visits, ends) ==
  LET Step(st) ==
        LET b == Head(st.queue)
        IN  CASE st.queue = <<>> -> st
              [] b \in visits /\ b \notin ToSet(st.found) ->
                   [queue |-> Tail(st.queue) \o (IF b \in ends THEN <<>> ELSE bs[b].succs),
                    found |-> Append(st.found, b)]
              [] OTHER -> [st EXCEPT !.queue = Tail(@)]
  IN  Repeat(Step, [queue |-> queue, found |-> <<>>], 2 * Len(bs) + 2).found

\* getCaseBBs, first part: the if-else chain after a select.  A body of 0 is
\* an empty one.
CaseChain(bs, sel, blocking) ==
  LET Step(st) ==
        LET s == st.at
            short == bs[s].two
            default == /\ SelectNext(bs[s]) /\ ~blocking
                       /\ ~(short /\ bs[s].term \in {"panic", "if"})
            bodies == IF default THEN Append(st.bodies, s) ELSE st.bodies
            stop == [at |-> 0, bodies |-> bodies, chain |-> st.chain \cup {s}]
        IN  CASE s = 0 -> st
              [] SelectNext(bs[s]) /\ short /\ bs[s].term = "panic" -> stop
              [] default /\ s # sel -> stop
              [] bs[s].succs = <<>> -> stop
              [] OTHER ->
                   LET body == bs[s].succs[1]
                       onward == Len(bs[s].succs) > 1 /\ SelectNext(bs[bs[s].succs[2]])
                   IN  [at |-> IF onward THEN bs[s].succs[2] ELSE 0,
                        bodies |-> Append(bodies, IF bs[body].comment = "select.body" THEN body ELSE 0),
                        chain |-> st.chain \cup {s}]
  IN  Repeat(Step, [at |-> sel, bodies |-> <<>>, chain |-> {}], Len(bs))

\* getCaseBBs: for each case the block it starts with, 0 for an empty body,
\* and all its blocks.  A block that an earlier case has reached belongs to
\* that case, and so does all that can be reached through it.
NoBody == [start |-> 0, all |-> {}]
getCaseBBs(bs, sel, skips, blocking) ==
  LET cc == CaseChain(bs, sel, blocking)
      body == cc.bodies
      visits == {b \in DOMAIN bs : b > sel} \ (skips \cup cc.chain)
      dones == {b \in DOMAIN bs : bs[b].comment = "select.done"}
      Found(k) == IF body[k] = 0 \/ bs[body[k]].comment = "select.next" THEN {}
                  ELSE ToSet(Search(bs, bs[body[k]].succs, visits, dones))
      found == [k \in DOMAIN body |-> Found(k)]
      Earlier(k) == UNION {found[j] : j \in 1 .. k - 1}
  IN  [k \in DOMAIN body |-> IF body[k] = 0 THEN NoBody
         ELSE [start |-> body[k], all |-> {body[k]} \cup (found[k] \ Earlier(k))]]

RangeBodies == {"rangechan.body", "rangeindex.body", "rangeiter.body"}

\* getLoopBBs: the blocks of a loop.  start must have a successor.
getLoopBBs(bs, start, skips) ==
  LET isFor == bs[start].comment = "for.body"
      first == bs[start].succs[1]
      body == IF isFor \/ bs[first].comment \in RangeBodies THEN first ELSE bs[start].succs[2]
      visits == {b \in DOMAIN bs : b > start /\ bs[b].comment \notin {"recover", "for.done"}}
                  \ (skips \cup {body})
  IN  (IF isFor THEN <<start>> ELSE <<>>) \o <<body>> \o Search(bs, bs[body].succs, visits, {})

==============================================================================

----------------------------- MODULE RaceReport -----------------------------
(***************************************************************************)
(* What the race detector promises: the summary names each race of each    *)
(* entry once, with exactly the entries that have it, in whatever order    *)
(* the entries are analysed and their maps iterated.  What a race of a     *)
(* graph is, is defined by RaceKeys of Races.                              *)
(***************************************************************************)
CONSTANTS
  Runs,      \* the sets of graphs that one run of DetectBugs goes through
  RaceKeys   \* graph -> its races

VARIABLES
  todo,      \* graphs of the entries that are not summarised yet
  summary    \* race -> the entries it was detected from

Init ==
  /\ todo \in Runs
  /\ summary = [k \in {} |-> {}]

Merged(s, K, e) ==
  [k \in DOMAIN s \cup K |->
     (IF k \in DOMAIN s THEN s[k] ELSE {}) \cup (IF k \in K THEN {e} ELSE {})]

Analyse(r) ==
  /\ r \in todo
  /\ todo' = todo \ {r}
  /\ summary' = Merged(summary, RaceKeys[r], r.entry)

Next == \E r \in todo : Analyse(r)

Spec == Init /\ [][Next]_<<todo, summary>>

=============================================================================

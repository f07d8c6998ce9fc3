------------------------------ MODULE MCFrontEnd ------------------------------
(***************************************************************************)
(* Settings for TLC: the command lines of the program, all of them         *)
(* sequential, and calls of the other exported functions.                  *)
(***************************************************************************)
EXTENDS FrontProperties

Plain == [mode |-> "seq", timeLimit |-> FALSE, compare |-> FALSE, default |-> FALSE,
          only |-> 0, left |-> 1, right |-> N, limit |-> FALSE, diff |-> FALSE,
          detect |-> TRUE]

\* Every range of packages, with and without PTSLimit and DoDiff.
Sequential ==
  {[Plain EXCEPT !.left = l, !.right = r, !.limit = p, !.diff = d, !.detect = b] :
     l \in Mains, r \in Mains, p \in BOOLEAN, d \in BOOLEAN, b \in BOOLEAN}

Together ==
  {[Plain EXCEPT !.mode = "sameRoot", !.timeLimit = t, !.compare = k, !.default = d] :
     t \in BOOLEAN, k \in BOOLEAN, d \in BOOLEAN}

\* Main by main: the flags of a comparison, one main picked or none.
OneByOne ==
  {[Plain EXCEPT !.mode = "each", !.timeLimit = t, !.compare = k, !.default = d, !.only = o,
                 !.limit = p] :
     t \in BOOLEAN, k \in BOOLEAN, d \in BOOLEAN, o \in 0 .. N, p \in BOOLEAN}

InParallel ==
  {[Plain EXCEPT !.mode = "parallel", !.timeLimit = t, !.compare = k] :
     t \in BOOLEAN, k \in BOOLEAN}

Commands == Sequential \cup Together \cup {s \in OneByOne : s.limit => ~s.compare} \cup InParallel

==============================================================================

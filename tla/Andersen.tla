------------------------------- MODULE Andersen -------------------------------
(***************************************************************************)
(* What the solver of the pointer analysis promises, whatever the order it *)
(* works in: a points-to set grows only by labels some constraint asks     *)
(* for, a function is added only when an invoke can reach it, and the      *)
(* solver stops only when every constraint is satisfied, except at the     *)
(* nodes it gave up because they had reached the size limit of the user.   *)
(***************************************************************************)
EXTENDS Constraints

CONSTANTS Inputs,  \* sequences of constraints handed to the solver
          Limits   \* values of flags.PTSLimit, 0 for none

VARIABLES
  cons,     \* the constraints of the functions analysed so far
  limit,    \* flags.PTSLimit
  pts,      \* points-to sets
  gaveUp,   \* nodes whose constraints are no longer applied
  over      \* the solver has stopped

avars == <<cons, limit, pts, gaveUp, over>>

AInit ==
  /\ \E s \in Inputs : cons = Elems(s)
  /\ limit \in Limits
  /\ pts = [n \in Node |-> {}]
  /\ gaveUp = {}
  /\ over = FALSE

Grow ==
  /\ ~over
  /\ pts' \in [Node -> SUBSET Node]
  /\ \A n \in Node :
       /\ pts[n] \subseteq pts'[n]
       /\ \A l \in pts'[n] \ pts[n] : Asked(cons, pts, n, l)
  /\ \E F \in SUBSET DOMAIN Body :
       /\ \A f \in F : Called(cons, pts, f)
       /\ cons' = cons \cup UNION {Elems(Body[f]) : f \in F}
  /\ UNCHANGED <<limit, gaveUp, over>>

GiveUp ==
  /\ ~over
  /\ \E n \in Node :
       /\ limit > 0
       /\ Cardinality(pts[n]) >= limit
       /\ gaveUp' = gaveUp \cup {n}
  /\ UNCHANGED <<cons, limit, pts, over>>

Stop ==
  /\ ~over
  /\ \A c \in cons : Holds(pts, gaveUp, c)
  /\ over' = TRUE
  /\ UNCHANGED <<cons, limit, pts, gaveUp>>

ANext == Grow \/ GiveUp \/ Stop

ASpec == AInit /\ [][ANext]_avars

==============================================================================

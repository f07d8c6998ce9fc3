------------------------------ MODULE Verdict ------------------------------
(***************************************************************************)
(* The verdict of the detector against what Go can do.                     *)
(***************************************************************************)
EXTENDS Detection, GoSemantics

(* Which of the graphs can block: a constant, evaluated once.              *)
Blocks == [r \in RFGs |-> CanBlock(r)]

(* DFSDetectBlockingBugs: what is reported as blocking can block in Go,    *)
(* for every sequence of random draws.                                     *)
NoFalseAlarm == berrs # {} => Blocks[g]

(* DFSDetectBlockingBugs: a program that can block is reported, for every  *)
(* sequence of random draws: the states split off at matches, selects and  *)
(* locks are enough, and the duplicate test drops none that is needed.     *)
NoMiss == pc = "done" /\ Blocks[g] => berrs # {}

=============================================================================

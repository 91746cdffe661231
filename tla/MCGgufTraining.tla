---- MODULE MCGgufTraining ----
(* Two osAi processes on one session, and the trainings they may be asked for. *)
EXTENDS GgufTraining, TLC

RunSymmetry == Permutations(Run) \cup Permutations(Input)
====

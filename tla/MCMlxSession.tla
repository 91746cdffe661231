---- MODULE MCMlxSession ----
(* Two osAi processes that are given one session folder: both train on the *)
(* same text for a merged MLX model, or on the same media for a merged GGUF*)
(* one, or either on one of them for a GGUF adapter.                       *)
EXTENDS MlxSession, TLC

Text(target, merge) == [target |-> target, media |-> FALSE, merge |-> merge]
Media(merge) == [target |-> "gguf", media |-> TRUE, merge |-> merge]
MCJobs == [Run -> {Text("mlx", TRUE)}] \cup [Run -> {Media(TRUE)}]
              \cup [Run -> {Text("gguf", FALSE), Media(FALSE)}]

RunSymmetry == Permutations(Run)
====

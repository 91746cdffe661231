---- MODULE MCModelDownload ----
(* A model with two files, of which the second publication drops one and   *)
(* the third has both again.                                               *)
EXTENDS ModelDownload

CONSTANTS f1, f2

Files == {f1, f2}
MCFilesOf == [v \in Version |-> IF v = 2 THEN {f1} ELSE Files]
====

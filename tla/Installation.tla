---- MODULE Installation ----
(***************************************************************************)
(* What the download of an official model promises: there is no model      *)
(* until, in one step, there is a whole one as it was published, which     *)
(* then stays.                                                             *)
(***************************************************************************)
CONSTANTS Version,      \* what has ever been published under a model's name
          None

VARIABLE model

Init == model = None

Install == /\ model = None
           /\ model' \in Version

Spec == Init /\ [][Install]_model
====

---- MODULE MergedModel ----
(***************************************************************************)
(* The standalone model of a session: outputs/<kind>, a copy of the base   *)
(* with the adapter embedded in it and the weights fused with that adapter *)
(* (merge.py, merged_export.py, fusion.py).  The checkpoint publisher may  *)
(* have put one there while the trainer ran: then it is updated in place,  *)
(* otherwise it is built aside and appears with one rename.                *)
(*                                                                         *)
(* Only the run that owns the output lock merges, so the folders under     *)
(* construction are one variable each.  The base is copied unchanged and   *)
(* is not part of a model's value.                                         *)
(***************************************************************************)
EXTENDS RunLogged

CONSTANTS NoAdapter,    \* no adapter, or no weights
          Torn          \* an adapter file that is half copied

VARIABLES
    model,      \* outputs/mlx and outputs/gguf
    stage,      \* the bundle under construction in .internal
    previous,   \* the fused MLX weights moved aside
    checked     \* of each kind: the adapter whose model passed its last test

merging == <<model, stage, previous, checked>>

Kinds == {"mlx", "gguf"}
NoModel == [adapter |-> NoAdapter, weights |-> NoAdapter]

NoMerge == /\ model = [k \in Kinds |-> NoModel]
           /\ stage = NoModel /\ previous = NoAdapter
           /\ checked = [k \in Kinds |-> NoAdapter]

InPlace == stage = NoModel
Under(k) == IF InPlace THEN model[k] ELSE stage

(* The weights or the embedded adapter of the bundle are replaced.         *)
SetBundle(k, bundle) ==
    IF InPlace THEN model' = [model EXCEPT ![k] = bundle] /\ UNCHANGED stage
    ELSE stage' = bundle /\ UNCHANGED model

WithAdapter(k, adapter) == SetBundle(k, [Under(k) EXCEPT !.adapter = adapter])
WithWeights(k, adapter) == SetBundle(k, [Under(k) EXCEPT !.weights = adapter])

(* A new bundle is a copy of the base with the adapter embedded.  The      *)
(* adapter of an existing MLX model is overwritten where it is, that of a  *)
(* GGUF one is left for later.                                             *)
Embed(k, adapter) ==
    /\ CASE model[k] = NoModel ->
              stage' = [NoModel EXCEPT !.adapter = adapter] /\ UNCHANGED model
         [] model[k] # NoModel /\ k = "mlx" ->
              model' = [model EXCEPT ![k] = [@ EXCEPT !.adapter = Torn]] /\ UNCHANGED stage
         [] OTHER -> UNCHANGED <<model, stage>>
    /\ UNCHANGED <<previous, checked>>

FinishEmbed(adapter) ==
    /\ model.mlx.adapter = Torn /\ InPlace
    /\ WithAdapter("mlx", adapter)
    /\ UNCHANGED <<previous, checked>>

(* The embedded residual gives the logits of base plus adapter.            *)
VerifyMlx(adapter) == /\ checked' = [checked EXCEPT !.mlx = adapter]
                      /\ UNCHANGED <<model, stage, previous>>

(* Mutant: the older fused weights are removed, not moved aside.           *)
MoveAsideRemoves == /\ WithWeights("mlx", NoAdapter)
                    /\ UNCHANGED <<previous, checked>>

(* export_mlx_weights: the older directory moves aside, the new one takes  *)
(* its name, and only then the older one goes.                             *)
MoveAside == /\ previous' = Under("mlx").weights
             /\ WithWeights("mlx", NoAdapter)
             /\ UNCHANGED checked

Install(adapter) == /\ WithWeights("mlx", adapter)
                    /\ UNCHANGED <<previous, checked>>

InstallFails == /\ \/ WithWeights("mlx", previous) /\ previous' = NoAdapter
                   \/ UNCHANGED <<model, stage, previous>>
                /\ UNCHANGED checked

DropPrevious == /\ previous' = NoAdapter
                /\ UNCHANGED <<model, stage, checked>>

(* export_gguf_weights: written aside, compared with the base, replaced.   *)
ReplaceGguf(adapter) == /\ WithWeights("gguf", adapter)
                        /\ UNCHANGED <<previous, checked>>

(* Mutant: an existing bundle keeps the adapter embedded in it.            *)
ReembedNew(adapter) == /\ IF InPlace THEN UNCHANGED <<model, stage>>
                          ELSE WithAdapter("gguf", adapter)
                       /\ UNCHANGED <<previous, checked>>

Reembed(adapter) == /\ IF InPlace THEN WithAdapter("gguf", adapter)
                       ELSE UNCHANGED <<model, stage>>
                    /\ UNCHANGED <<previous, checked>>

LoadGguf == /\ checked' = [checked EXCEPT !.gguf = Under("gguf").weights]
            /\ UNCHANGED <<model, stage, previous>>

Appear(k) == /\ model' = IF InPlace THEN model ELSE [model EXCEPT ![k] = stage]
             /\ stage' = NoModel
             /\ UNCHANGED <<previous, checked>>

(* Whatever fails, the bundle under construction is removed.               *)
Discard == /\ stage' = NoModel
           /\ UNCHANGED <<model, previous, checked>>

ModelsOK(adapters) ==
    LET bundles == [adapter : adapters \cup {NoAdapter, Torn}, weights : adapters \cup {NoAdapter}]
    IN  /\ model \in [Kinds -> bundles] /\ stage \in bundles
        /\ previous \in adapters \cup {NoAdapter}
        /\ checked \in [Kinds -> adapters \cup {NoAdapter}]
====

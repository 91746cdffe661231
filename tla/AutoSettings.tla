---- MODULE AutoSettings ----
(***************************************************************************)
(* How automatic settings are sized (auto_settings.py, and the arithmetic  *)
(* of auto_benchmark.py, calibration.py and of cli.py's fitting).          *)
(*                                                                         *)
(* A model is [size, limit, blocks, hybrid]: MiB, context length and block *)
(* count of its metadata, 0 for unknown.  Settings are a record of their   *)
(* profile and counts; of the LoRA targets only whether they are several.  *)
(***************************************************************************)
EXTENDS Devices

Models == [size : Nat, limit : Nat, blocks : Nat, hybrid : BOOLEAN]

Order == <<"compact", "balanced", "performance", "maximum">>
Rank(profile) == CHOOSE i \in DOMAIN Order : Order[i] = profile

CeilDiv(n, d) == (n + d - 1) \div d
PadTo(n, batch) == CeilDiv(n, batch) * batch
Known(limit, n) == IF limit = 0 THEN n ELSE Least(n, limit)

(* The largest number whose square is at most n.                           *)
Root(n) == CHOOSE r \in 0..n : r * r <= n /\ n < (r + 1) * (r + 1)

(* A power of two has no odd divisor but one.                              *)
PowerOfTwo(p) == \A d \in 2..p : p % d = 0 => d % 2 = 0

(* The largest batch up to a preferred one that divides the context.       *)
DividingBatch(context, preferred) ==
    CHOOSE b \in 1..preferred : context % b = 0 /\ \A c \in (b + 1)..preferred : context % c # 0

Preset(profile, batch, context, layers, rank, gguf, threads, several) ==
    [profile |-> profile, batch |-> batch, context |-> context, layers |-> layers,
     rank |-> rank, gguf |-> gguf, threads |-> threads, several |-> several]

MlxPresets == <<Preset("compact", 1, 64, 1, 2, 8, 2, FALSE),
                Preset("balanced", 1, 128, 2, 4, 8, 4, TRUE),
                Preset("performance", 2, 256, 4, 8, 16, 8, TRUE),
                Preset("maximum", 4, 1024, 8, 16, 32, 16, TRUE)>>
LlamaPresets == <<Preset("compact", 1, 256, 1, 1, 8, 2, FALSE),
                  Preset("balanced", 1, 512, 1, 2, 4, 4, FALSE),
                  Preset("performance", 2, 1024, 2, 4, 2, 8, TRUE),
                  Preset("maximum", 4, 2048, 4, 8, 1, 16, TRUE)>>

Budget(ram) == (3 * ram) \div 4
TooLarge(model, ram) == 100 * model.size > 55 * ram

Profile(model, ram) ==
    LET headroom == Budget(ram) - model.size
        Up(n) == ram <= n * 1024
        Tight(n) == headroom < n * 1024
    IN  IF Up(10) \/ Tight(4) THEN 1
        ELSE IF Up(20) \/ Tight(8) THEN 2
        ELSE IF Up(40) \/ Tight(16) THEN 3 ELSE 4

(* The largest preset up to a limit that host and model leave room for.    *)
select_auto_settings(model, engine, ram, cpus, limit) ==
    LET place == Least(Profile(model, ram), limit)
        preset == IF engine = "mlx" THEN MlxPresets[place] ELSE LlamaPresets[place]
        hybrid == engine = "llama.cpp" /\ model.hybrid
        context == Most(32, Known(model.limit, preset.context))
        layers == IF hybrid THEN 1 ELSE preset.layers
    IN  [preset EXCEPT !.context = context,
                       !.layers = Most(1, Known(model.blocks, layers)),
                       !.several = @ /\ ~hybrid,
                       !.threads = Least(@, cpus),
                       !.gguf = DividingBatch(context, @)]

(* Mutant: the batch of a long context is divided to nothing.              *)
FitRequiredContextAtAnyPrice(s, required) ==
    [s EXCEPT !.context = required, !.batch = @ \div Most(1, CeilDiv(required, s.context))]

(* A context that is required is paid for with batch and adapter size.     *)
FitRequiredContext(s, required) ==
    LET Within(r, n) == r * r * required <= n * n * s.context
        Shrunk(n) == IF required <= s.context THEN n
                     ELSE CHOOSE r \in 0..n : Within(r, n) /\ \A q \in (r + 1)..n : ~Within(q, n)
    IN  [s EXCEPT !.context = required,
                  !.batch = Most(1, @ \div Most(1, CeilDiv(required, s.context))),
                  !.rank = Most(2, Shrunk(@)),
                  !.layers = Most(1, Shrunk(@)),
                  !.gguf = Most(1, Shrunk(@))]

Sum(weights) ==
    LET upto[i \in 0..Len(weights)] == IF i = 0 THEN 0 ELSE upto[i - 1] + weights[i]
    IN  upto[Len(weights)]
EvenWeights(gpus) == [i \in DOMAIN gpus |-> 1]
WeightsFor(gpus, split) == IF Len(split) = Len(gpus) THEN split ELSE EvenWeights(gpus)

TrainingReserve(profile) == 1024 * <<2, 3, 6, 10>>[Rank(profile)]

(* Every GPU has room for its shard of model and reserve.  The memory is   *)
(* known of all of them or of none.                                        *)
GpuProfileFits(profile, model, gpus, split) ==
    LET weights == WeightsFor(gpus, split)
    IN  (\A i \in DOMAIN gpus : gpus[i].free > 0) =>
            \A i \in DOMAIN gpus :
                (model.size + TrainingReserve(profile)) * weights[i]
                    <= Sum(weights) * (gpus[i].free - Most(256, gpus[i].free \div 10))

(* The microbatch that a pilot starts with: the root of the context, times *)
(* the share of the model that fits once more into what is left, rounded   *)
(* down to a power of two that the context limit has room for.             *)
Headroom(model, budget, gpus, split) ==
    LET weights == WeightsFor(gpus, split)
    IN  IF gpus = <<>> THEN Most(0, budget - model.size)
        ELSE Min({Most(0, gpus[i].free * Sum(weights) - model.size * weights[i])
                    : i \in DOMAIN gpus}) \div Sum(weights)

PilotMicrobatch(s, model, budget, accelerator, gpus, split) ==
    LET left == Least(Headroom(model, budget, gpus, split), model.size)
        Holds(p) == model.limit = 0 \/ PadTo(s.context, p) <= model.limit
        share == Root(s.context) * left
        within == {p \in 1..Root(s.context) : PowerOfTwo(p) /\ p * model.size <= share /\ Holds(p)}
        candidate == Most(s.gguf, Max({1} \cup within))
    IN  IF \E i \in DOMAIN gpus : gpus[i].free = 0 THEN s.gguf
        ELSE IF accelerator = "metal" THEN Least(candidate, Most(s.gguf, 64)) ELSE candidate

(* Mutant: the context of the score is not padded for the microbatch.      *)
EvaluationContextUnpadded(largest, context, batch) ==
    Least(context, Most(Least(context, Most(256, batch)), largest + 512))

(* The sample is scored at a context sized for its records, not the run's. *)
EvaluationContext(largest, context, batch) ==
    LET required == Most(Least(context, Most(256, batch)), largest + 512)
    IN  Least(context, PadTo(Least(context, required), batch))

(* Context and microbatch of a native run agree: the context is padded, or *)
(* the batch lowered where the model's limit is in the way.                *)
FitGgufContext(context, batch, limit) ==
    IF context < 32 \/ batch < 1 \/ context % batch = 0 THEN <<context, batch>>
    ELSE IF limit = 0 \/ PadTo(context, batch) <= limit THEN <<PadTo(context, batch), batch>>
    ELSE <<context, DividingBatch(context, batch)>>
====

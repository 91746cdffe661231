---- MODULE Preparation ----
(***************************************************************************)
(* From a training command to the trainer (cli.py _fine_tune): the model   *)
(* and engine, the context that the longest record needs, the automatic    *)
(* settings (auto_benchmark.py), the data, the calibration by short pilots *)
(* (calibration.py), and what the trainer is then given.                   *)
(*                                                                         *)
(* The models run by the benchmark and the pilots succeed or fail as they  *)
(* like; how much GPU memory is free changes behind the command's back.    *)
(***************************************************************************)
EXTENDS AutoSettings

CONSTANTS Requests,     \* the commands: records, see RequestsAssumption
          MaxMoves,     \* bound: changes of free GPU memory
          MaxExpiries   \* bound: benchmark entries that get too old

NoModel == [size |-> 0, limit |-> 0, blocks |-> 0, hybrid |-> FALSE]

ASSUME RequestsAssumption ==
    \A r \in Requests :
        /\ r.engine \in {"auto", "mlx", "llama.cpp"} /\ r.multi \in {"auto", "on", "off"}
        /\ r.accelerator \in Accelerators \cup {"auto", "mps"}
        /\ {r.auto, r.full, r.resume, r.file, r.media, r.raw} \subseteq BOOLEAN
        /\ {r.context, r.gguf, r.verified, r.rows} \subseteq Nat /\ r.epochs \in Nat \ {0}
        /\ r.longest \in [{"mlx", "llama.cpp"} -> Nat] /\ r.rate \in BOOLEAN
        /\ r.mlx # NoModel \/ r.gguf_model # NoModel
        /\ {r.mlx, r.gguf_model} \subseteq Models /\ r.host \in Hosts
        /\ \A i \in DOMAIN r.host.gpus :
              {r.host.gpus[i].free} \cup r.host.gpus[i].levels \subseteq 0..r.host.gpus[i].total
ASSUME BoundsAssumption == {MaxMoves, MaxExpiries} \subseteq Nat

VARIABLES
    request,    \* the command: arguments, host, models, data
    free,       \* free MiB of each GPU of the host
    cache,      \* the benchmark results on disk
    step,       \* where the command is
    engine,     \* what trains
    required,   \* context of the longest record, 0 with windows
    bench,      \* the benchmark under way or the last one
    config,     \* the training configuration
    trial,      \* the calibration under way
    moves, expiries

environment == <<free, moves, expiries>>
command == <<request, cache, step, engine, required, bench, config, trial>>
prepvars == <<command, environment>>

Automatic == request.auto
Model == IF engine = "mlx" THEN request.mlx ELSE request.gguf_model

NoBench == [for |-> "none", accelerator |-> "cpu", seen |-> <<>>, plan |-> Plan(<<>>, 1),
            place |-> 0, settings |-> LlamaPresets[1], cached |-> FALSE]
NoTrial == [place |-> 0, asked |-> LlamaPresets[1], settings |-> LlamaPresets[1],
            higher |-> FALSE, rate |-> 0, largest |-> 0]

(* A rate is the one that was measured, 0 if none was, times the root of   *)
(* the examples that the pilot saw over those that the run will see.       *)
Unscaled(rate) == [measured |-> rate, piloted |-> 1, planned |-> 1]

(* The defaults, and what the command line says instead.                   *)
Override(s) == [s EXCEPT !.context = IF request.context = 0 THEN @ ELSE request.context,
                         !.gguf = IF request.gguf = 0 THEN @ ELSE request.gguf]
Configured(s, split, devices, rate) ==
    [profile |-> s.profile, batch |-> s.batch, context |-> s.context, layers |-> s.layers,
     rank |-> s.rank, gguf |-> s.gguf, threads |-> s.threads, several |-> s.several,
     split |-> split, devices |-> devices, rate |-> rate]
Defaults == Configured(Override(Preset("none", 1, 64, 1, 2, 8, 2, FALSE)), <<>>, 0, Unscaled(0))

PrepInit(first) ==
    /\ request \in Requests
    /\ free = [i \in DOMAIN request.host.gpus |-> request.host.gpus[i].free]
    /\ cache = {} /\ step = first /\ engine = "none" /\ required = 0
    /\ bench = NoBench /\ config = Defaults /\ trial = NoTrial
    /\ moves = 0 /\ expiries = 0

Goto(next) == step' = next
Refuse == Goto("refused")
Fitted == IF Automatic THEN "settings" ELSE "override"

-----------------------------------------------------------------------------
(* The engine of a configuration file follows its model; that of a catalog *)
(* model is chosen before the model is looked for.                         *)
ChosenEngine ==
    IF request.file /\ request.engine = "auto" /\ request.gguf_model = NoModel THEN "mlx"
    ELSE IF request.file /\ request.engine = "auto" /\ request.mlx = NoModel THEN "llama.cpp"
    ELSE select_engine(request.engine, request.host)

VerifiedRefused == /\ request.verified # 0
                   /\ \/ ~request.full \/ request.verified < 32
                      \/ request.context # 0 /\ request.context < request.verified

_resolve_cli_model ==
    /\ step = "model"
    /\ engine' = ChosenEngine
    /\ IF \/ (IF ChosenEngine = "mlx" THEN request.mlx ELSE request.gguf_model) = NoModel
          \/ VerifiedRefused
       THEN Refuse ELSE Goto(IF request.full THEN "scan" ELSE Fitted)
    /\ UNCHANGED <<request, cache, required, bench, config, trial, environment>>

(* Every record is counted, or a count made earlier is taken.              *)
largest_training_context ==
    /\ step \in {"scan", "rescan"}
    /\ \E context \in {IF request.verified # 0 /\ step = "scan" THEN request.verified
                       ELSE Most(32, request.longest[engine] + 64)} :
          /\ required' = context
          /\ IF Model.limit # 0 /\ context > Model.limit THEN Refuse
             ELSE Goto(IF step = "scan" THEN Fitted
                       ELSE IF Automatic THEN "again" ELSE "train")
          /\ config' = IF step = "rescan" THEN [config EXCEPT !.context = context] ELSE config
    /\ UNCHANGED <<request, cache, engine, bench, trial, environment>>

CountFails == /\ step \in {"scan", "rescan"} /\ (request.verified = 0 \/ step = "rescan")
              /\ Refuse
              /\ UNCHANGED <<request, cache, engine, required, bench, config, trial, environment>>

-----------------------------------------------------------------------------
(* The benchmark.  Its key holds the free memory in whole GiB.             *)
Accelerator == IF engine = "llama.cpp" THEN select_llama_accelerator(request.accelerator, request.host)
               ELSE IF request.accelerator = "cpu" THEN "cpu" ELSE "auto"
Found == IF engine = "mlx" \/ Accelerator = Refused THEN <<>>
         ELSE llama_devices(request.accelerator, Accelerator, request.host.gpus)
Places == ChosenDevices(Accelerator, request.multi, Found)
Chosen == [k \in DOMAIN Places |-> [request.host.gpus[Places[k]] EXCEPT !.free = free[Places[k]]]]

Key(seen) == [engine |-> engine, accelerator |-> Accelerator, required |-> required,
              names |-> [i \in DOMAIN seen |-> seen[i].name],
              free |-> [i \in DOMAIN seen |-> seen[i].free \div 1024]]

AutoFor(place) ==
    LET s == select_auto_settings(Model, engine, request.host.ram, request.host.cpus, place)
    IN  IF required = 0 THEN s ELSE FitRequiredContext(s, required)

Fits(place, seen, split) == GpuProfileFits(AutoFor(place).profile, Model, seen, split)

(* Nothing can be divided among GPUs of which none has a weight.           *)
NoWeights(plan) == plan.split # <<>> /\ Sum(plan.split) = 0

Entry(seen, place) == [key |-> Key(seen), place |-> place]

(* The entries of this host, model and context that still fit.             *)
_read_cache(seen, split) == {e \in cache : e.key = Key(seen) /\ Fits(e.place, seen, split)}

BenchmarkFor == CASE step = "settings"    -> "settings"
                  [] step = "again"       -> "fallback"
                  [] step = "second"      -> "pilot"
                  [] step = "align settings" -> "alignment"

benchmark_auto_settings ==
    /\ step \in {"settings", "again", "second", "align settings"}
    /\ \E seen \in {Chosen} : \E plan \in {automatic_llama_device_plan(seen)} :
       IF \/ Accelerator = Refused \/ TooLarge(Model, request.host.ram)
          \/ engine = "llama.cpp" /\ NotEnoughDevices(Accelerator, request.multi, seen)
          \/ NoWeights(plan)
       THEN Refuse /\ UNCHANGED bench
       ELSE \E known \in {_read_cache(seen, plan.split)} :
            \E place \in IF known = {} THEN {Profile(Model, request.host.ram)}
                         ELSE {e.place : e \in known} :
               /\ bench' = [for |-> BenchmarkFor, accelerator |-> Accelerator, seen |-> seen,
                            plan |-> plan, place |-> place, settings |-> AutoFor(place),
                            cached |-> known # {}]
               /\ Goto(IF known = {} THEN "probe" ELSE "measured")
    /\ UNCHANGED <<request, cache, engine, required, config, trial, environment>>

Smaller == /\ IF bench.place = 1 THEN Refuse ELSE Goto("probe")
           /\ bench' = [bench EXCEPT !.place = @ - 1]
           /\ UNCHANGED <<request, cache, engine, required, config, trial, environment>>

(* Profiles are tried from the host's own downwards; the first that loads  *)
(* is kept.                                                                *)
SkipProfile == step = "probe" /\ ~Fits(bench.place, bench.seen, bench.plan.split) /\ Smaller

ProbeFails == step = "probe" /\ Fits(bench.place, bench.seen, bench.plan.split) /\ Smaller

ProbeSucceeds ==
    /\ step = "probe" /\ Fits(bench.place, bench.seen, bench.plan.split)
    /\ bench' = [bench EXCEPT !.settings = AutoFor(bench.place)]
    /\ cache' = cache \cup {Entry(bench.seen, bench.place)}
    /\ Goto("measured")
    /\ UNCHANGED <<request, engine, required, config, trial, environment>>

-----------------------------------------------------------------------------
(* Settings and overrides: what the command line names wins.               *)

(* Mutant: what is asked for wins over the longest record.                 *)
CoveredAsAsked(purpose, context) == context

(* The context covers the longest record whatever was asked for.           *)
Covered(purpose, context) ==
    IF required = 0 THEN context
    ELSE IF purpose = "fallback" THEN required ELSE Most(context, required)

Applied(purpose, s) == [Override(s) EXCEPT !.context = Covered(purpose, @)]

_resolve_training_settings ==
    /\ step = "measured" /\ bench.for # "pilot"
    /\ IF \E i \in DOMAIN bench.plan.split : bench.plan.split[i] <= 0
       THEN Refuse /\ UNCHANGED config
       ELSE /\ config' = Configured(Applied(bench.for, bench.settings), bench.plan.split,
                                    Len(bench.seen), config.rate)
            /\ Goto(CASE bench.for = "settings"  -> "data"
                      [] bench.for = "fallback"  -> "train"
                      [] bench.for = "alignment" -> "align")
    /\ UNCHANGED <<request, cache, engine, required, bench, trial, environment>>

KeepSettings ==
    /\ step = "override"
    /\ config' = [config EXCEPT !.context = Covered("settings", @)]
    /\ Goto("data")
    /\ UNCHANGED <<request, cache, engine, required, bench, trial, environment>>

(* Rows are converted into a folder of the session that must be new; a     *)
(* session that is resumed has it already.                                 *)
prepare_dataset_source ==
    /\ step = "data"
    /\ \/ Goto("checks") /\ (request.raw => ~request.resume)
       \/ Refuse /\ request.raw
    /\ UNCHANGED <<request, cache, engine, required, bench, config, trial, environment>>

NeedsMlx == request.media /\ engine = "llama.cpp" /\ request.mlx = NoModel
WrongBackend == ~request.media /\ engine = "mlx" /\ request.accelerator \in {"mps", "vulkan"}
Calibrated == ~request.media /\ Automatic /\ ~request.rate /\ ~request.file

(* Media get room for what their processors emit.                          *)
CheckData ==
    /\ step = "checks"
    /\ IF NeedsMlx \/ WrongBackend THEN Refuse ELSE Goto(IF Calibrated THEN "second" ELSE "train")
    /\ config' = IF request.media /\ ~request.file /\ request.context = 0
                 THEN [config EXCEPT !.context = Most(2048, @)] ELSE config
    /\ UNCHANGED <<request, cache, engine, required, bench, trial, environment>>

-----------------------------------------------------------------------------
(* What the native trainer accepts (llama_gradient.py).                    *)
LowMemory == request.host.ram <= 10 * 1024

_validate_memory_budget(s) == LowMemory => ~s.several /\ s.layers = 1 /\ s.context <= 256
                                                     /\ s.gguf <= 8
_validate_hybrid_training_path(s) == request.gguf_model.hybrid => s.layers = 1 /\ ~s.several

validate(s, scored, gpus, split) ==
    /\ s.context >= 32 /\ s.context % s.gguf = 0
    /\ scored \in 32..s.context /\ scored % s.gguf = 0
    /\ llama_device_arguments(request.multi, gpus, split)

Accepts(s, scored, gpus, split) == /\ validate(s, scored, gpus, split)
                                   /\ _validate_memory_budget(s)
                                   /\ _validate_hybrid_training_path(s)

-----------------------------------------------------------------------------
(* Calibration.  The rates are a middle one, a lower and a higher.         *)
Rates == <<2, 1, 3>>
Largest == {70, 4096}   \* bytes of the largest record of the sample, made of few characters

(* A pilot is given the backend's name in place of what was asked for, and *)
(* knows the GPUs that this name finds.                                    *)
PilotPlaces == llama_devices(bench.accelerator, bench.accelerator, request.host.gpus)
Recognised(seen) ==
    bench.accelerator # "cpu" =>
        \A k \in DOMAIN seen : \E j \in DOMAIN PilotPlaces :
            seen[k].name = request.host.gpus[PilotPlaces[j]].name

FirstMicrobatch(s, seen) ==
    IF engine = "mlx" \/ ~Recognised(seen) THEN s.gguf
    ELSE PilotMicrobatch(s, Model, Budget(request.host.ram), bench.accelerator, seen,
                         bench.plan.split)

sample_training_data ==
    /\ step = "measured" /\ bench.for = "pilot"
    /\ \E s \in {[bench.settings EXCEPT !.context = config.context]}, seen \in {Chosen} :
          IF request.rows < 4 THEN Refuse /\ UNCHANGED trial
          ELSE \E largest \in Largest, batch \in {FirstMicrobatch(s, seen)} :
               /\ trial' = [place |-> 1, asked |-> [s EXCEPT !.gguf = batch],
                            settings |-> [s EXCEPT !.gguf = batch], higher |-> TRUE, rate |-> 0,
                            largest |-> largest]
               /\ Goto("trial")
    /\ UNCHANGED <<request, cache, engine, required, bench, config, environment>>

Rate == Rates[trial.place]
NoMoreRates == trial.place \notin {p \in DOMAIN Rates : Rates[p] > Rates[1] => trial.higher}

(* The context that is required stays, padded for the microbatch.          *)
Pilot == IF engine = "mlx" THEN trial.settings
         ELSE [trial.settings EXCEPT !.context = PadTo(trial.asked.context, trial.settings.gguf)]

PilotSplit == IF config.split # <<>> THEN config.split ELSE bench.plan.split
AcceptsPilot ==
    /\ Recognised(bench.seen)
    /\ Accepts(Pilot, EvaluationContext(trial.largest, Pilot.context, Pilot.gguf), bench.seen,
               PilotSplit)

(* With windows the MLX trainer lowers its settings where memory ends.     *)
Lowered(s) == IF s.context > 64 THEN [s EXCEPT !.context = Most(64, @ \div 2)]
              ELSE [s EXCEPT !.batch = Most(1, @ \div 2)]
Used == IF engine = "mlx" /\ ~request.full THEN {Pilot, Lowered(Pilot)} ELSE {Pilot}

Trying == step = "trial" /\ ~NoMoreRates
TrialOnly == UNCHANGED <<request, cache, engine, required, bench, config, environment>>

PilotRefused == /\ Trying /\ engine = "llama.cpp" /\ ~AcceptsPilot
                /\ Refuse
                /\ UNCHANGED trial /\ TrialOnly

Runs == Trying /\ (engine = "llama.cpp" => AcceptsPilot)

Onward == [trial EXCEPT !.place = @ + 1]


(* Memory, or on Metal a loss that is not finite, halves the microbatch.   *)
PilotRunsOut == /\ Runs /\ engine = "llama.cpp" /\ trial.settings.gguf > 1
                /\ trial' = [trial EXCEPT !.settings.gguf = Most(1, @ \div 2)]
                /\ UNCHANGED step /\ TrialOnly

PilotFails == /\ Runs
              /\ trial' = [Onward EXCEPT !.higher = FALSE]
              /\ UNCHANGED step /\ TrialOnly

FallsBackToCpu == /\ Runs /\ engine = "llama.cpp" /\ bench.accelerator # "cpu"
                  /\ Refuse
                  /\ UNCHANGED trial /\ TrialOnly

(* The first rate at which the loss falls is taken; one at which training  *)
(* or held-out loss gets worse rules out a higher rate.                    *)
PilotEnds ==
    /\ Runs
    /\ \E used \in Used, verdict \in {"better", "flat", "worse"} :
          IF verdict = "better"
          THEN trial' = [trial EXCEPT !.settings = used, !.rate = Rate] /\ Goto("scale")
          ELSE /\ trial' = [Onward EXCEPT !.settings = used, !.higher = @ /\ verdict = "flat"]
               /\ UNCHANGED step
    /\ TrialOnly

NoRate == /\ step = "trial" /\ NoMoreRates
          /\ Refuse
          /\ UNCHANGED trial /\ TrialOnly

_calibrated_gguf_batch_size(current, measured) ==
    IF request.gguf # 0 THEN Least(current, measured) ELSE measured

(* The records of a pilot, the examples its three epochs show and those of *)
(* the run.                                                                *)
Sampled == Least(request.rows, Most(4, Least(8, 2 * Len(bench.seen))))
_PILOT_EPOCHS == 3
Piloted == Sampled * _PILOT_EPOCHS
Planned == request.rows * request.epochs

(* Mutant: what is measured in a short pilot is taken for a long run.      *)
rate_factor_Unscaled(rate) == Unscaled(rate)

(* A longer native run gets a lower rate.                                  *)
rate_factor(rate) == IF engine = "llama.cpp" /\ Piloted < Planned
                     THEN [measured |-> rate, piloted |-> Piloted, planned |-> Planned]
                     ELSE Unscaled(rate)

(* What was measured bounds the run; rank and layers stay the settings'.   *)
ApplyCalibration ==
    /\ step = "scale"
    /\ IF engine = "llama.cpp" /\ (request.rows < Sampled \/ request.epochs < 1)
       THEN Refuse /\ UNCHANGED config
       ELSE /\ config' = [config EXCEPT !.rate = rate_factor(trial.rate),
                                        !.context = Least(@, trial.settings.context),
                                        !.batch = Least(@, trial.settings.batch),
                                        !.gguf = _calibrated_gguf_batch_size(@, trial.settings.gguf)]
            /\ Goto("train")
    /\ UNCHANGED <<request, cache, engine, required, bench, trial, environment>>

-----------------------------------------------------------------------------
(* Training.  A failed MLX run whose engine was chosen automatically goes  *)
(* on with the GGUF model, fitted anew.                                    *)
OnMlx == engine = "mlx" \/ request.media

TrainMlx == /\ step = "train" /\ OnMlx
            /\ Goto("done") \/ Goto("failed")
            /\ UNCHANGED <<request, cache, engine, required, bench, config, trial, environment>>

FallBack == /\ step = "train" /\ engine = "mlx" /\ ~request.media
            /\ request.engine = "auto" /\ request.gguf_model # NoModel
            /\ engine' = "llama.cpp"
            /\ Goto(IF request.full THEN "rescan" ELSE IF Automatic THEN "again" ELSE "train")
            /\ UNCHANGED <<request, cache, required, bench, config, trial, environment>>

_fit_gguf_context ==
    /\ step = "train" /\ ~OnMlx
    /\ LET fitted == FitGgufContext(config.context, config.gguf, Model.limit)
           context == Most(32, fitted[1])
       IN  /\ config' = [config EXCEPT !.context = context, !.gguf = fitted[2]]
           /\ IF Model.limit # 0 /\ context > Model.limit THEN Refuse ELSE Goto("native")
    /\ UNCHANGED <<request, cache, engine, required, bench, trial, environment>>

NativeDevices == IF config.devices = Len(Chosen) THEN Chosen ELSE <<>>

train_gradient_gguf ==
    /\ step = "native"
    /\ \/ /\ ~Accepts(config, config.context, NativeDevices, config.split)
             \/ NotEnoughDevices(select_llama_accelerator(request.accelerator, request.host),
                                 request.multi, Chosen)
          /\ Refuse
       \/ /\ Accepts(config, config.context, NativeDevices, config.split)
          /\ Goto("done") \/ Goto("failed")
    /\ UNCHANGED <<request, cache, engine, required, bench, config, trial, environment>>

-----------------------------------------------------------------------------
(* Behind the command's back, right before it looks.                       *)
Looking == step \in {"settings", "again", "second", "align settings", "measured", "native", "align"}

MemoryMoves == /\ moves < MaxMoves /\ Looking
               /\ \E i \in DOMAIN free : \E n \in request.host.gpus[i].levels :
                     n # free[i] /\ free' = [free EXCEPT ![i] = n]
               /\ moves' = moves + 1
               /\ UNCHANGED <<command, expiries>>

(* An entry gets too old, or could not be written.                         *)
EntryExpires == /\ expiries < MaxExpiries /\ Looking
                /\ \E e \in cache : cache' = cache \ {e}
                /\ expiries' = expiries + 1
                /\ UNCHANGED <<request, step, engine, required, bench, config, trial, free, moves>>

Benchmarking == benchmark_auto_settings \/ SkipProfile \/ ProbeFails \/ ProbeSucceeds
Calibrating == \/ sample_training_data \/ PilotRefused \/ PilotRunsOut \/ PilotFails
               \/ FallsBackToCpu \/ PilotEnds \/ NoRate \/ ApplyCalibration
_fine_tune == \/ _resolve_cli_model \/ largest_training_context \/ CountFails
              \/ Benchmarking \/ _resolve_training_settings \/ KeepSettings
              \/ prepare_dataset_source \/ CheckData \/ Calibrating
              \/ TrainMlx \/ FallBack \/ _fit_gguf_context \/ train_gradient_gguf

Settled == step \in {"done", "refused", "failed"}
Elsewhere == MemoryMoves \/ EntryExpires

-----------------------------------------------------------------------------
Profiles == {"none", "compact", "balanced", "performance", "maximum"}
Settings == [profile : Profiles, batch : Nat \ {0}, context : Nat \ {0}, layers : Nat \ {0},
             rank : Nat \ {0}, gguf : Nat \ {0}, threads : Nat \ {0}, several : BOOLEAN]
Plans == [split : Seq(Nat), main : Nat]
Rated == [measured : 0..3, piloted : Nat \ {0}, planned : Nat \ {0}]
Configurations == [profile : Profiles, batch : Nat \ {0}, context : Nat \ {0},
                   layers : Nat \ {0}, rank : Nat \ {0}, gguf : Nat \ {0},
                   threads : Nat \ {0}, several : BOOLEAN, split : Seq(Nat), devices : Nat,
                   rate : Rated]
Benchmarks == [for : {"none", "settings", "fallback", "pilot", "alignment"},
               accelerator : Accelerators \cup {"auto"},
               seen : Seq(Gpus), plan : Plans, place : 0..4, settings : Settings,
               cached : BOOLEAN]
Trials == [place : 0..4, asked : Settings, settings : Settings, higher : BOOLEAN, rate : 0..3,
           largest : Nat]

PrepTypeOK ==
    /\ request \in Requests
    /\ free \in [DOMAIN request.host.gpus -> Nat]
    /\ \A e \in cache : e.place \in 1..4
    /\ engine \in {"none", "mlx", "llama.cpp"} /\ required \in Nat
    /\ bench \in Benchmarks /\ config \in Configurations /\ trial \in Trials

AutomaticOnly == Automatic /\ request.context = 0 /\ request.gguf = 0

PilotAccepted == Trying /\ engine = "llama.cpp" => AcceptsPilot
RunAccepted == step = "native" => Accepts(config, config.context, NativeDevices, config.split)

(* Automatic settings are never refused by the trainer's own checks, in a  *)
(* pilot or in the run itself.                                             *)
AutoAccepted == AutomaticOnly => PilotAccepted /\ RunAccepted

(* An AMD card beside CUDA is taken along by "auto" alone, not by a pilot. *)
AmdAlong == /\ request.accelerator = "auto" /\ bench.accelerator = "cuda"
            /\ \E i \in DOMAIN request.host.gpus :
                  /\ request.host.gpus[i].amd /\ ~request.host.gpus[i].integrated
                  /\ request.host.gpus[i].backend = "vulkan"

(* The same on hosts whose memory the trainer does not guard, but for a    *)
(* pilot on a host with such a card.                                       *)
LargeHostAccepted == AutomaticOnly /\ ~LowMemory => (~AmdAlong => PilotAccepted) /\ RunAccepted

(* With Full context the trainer, the one of the fallback included, gets   *)
(* room for the longest record in its own model's tokens.                  *)
Starting == step = "native" \/ (step = "train" /\ OnMlx)
FullContextKept ==
    request.full /\ Starting => /\ config.context >= required
                                /\ request.verified = 0 => config.context > request.longest[engine]

(* A calibrated run trains at the rate that was measured, a native one     *)
(* lowered by as much at least as it shows more examples than its pilot,   *)
(* and with no larger batch, microbatch and context, but for its padding,  *)
(* than the successful pilot had.                                          *)
MeasuredShape ==
    Starting /\ Calibrated /\ bench.for = "pilot" =>
        /\ trial.rate # 0 /\ config.rate.measured = trial.rate
        /\ config.rate.piloted <= config.rate.planned
        /\ engine = "llama.cpp" => /\ config.rate.piloted * Planned <= config.rate.planned * Piloted
                                   /\ config.gguf <= trial.settings.gguf
        /\ config.batch <= trial.settings.batch
        /\ config.context < trial.settings.context + config.gguf
====

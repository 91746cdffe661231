---- MODULE Alignment_proofs ----
(***************************************************************************)
(* Proofs about Alignment, and through it about the whole train command:   *)
(* what is true of any requests, hosts and models, with any number of      *)
(* records, samples and iterations.                                        *)
(***************************************************************************)
EXTENDS Alignment, Preparation_proofs, FiniteSetTheorems

-----------------------------------------------------------------------------
(* The inductive invariant of the stages after the fine-tuning.            *)

(* The steps after the records have been loaded, after the manifest has    *)
(* been written, and after the command.                                    *)
Loaded == step \in {"align settings", "align", "rollout", "rolling"} \/ Benching({"alignment"})
Training == {"fingerprint", "train mlx", "advantages", "references", "steps", "stepping", "mlx aligning",
             "finish", "publish", "aligned"}
Ended == {"failed", "refused"}
Accepted == NeedsAdvantages => reward_advantages(method, rows) # <<>>

(* A second stage has the engine of the first; MLX takes its own way.      *)
Route == /\ step = "align data" /\ Combined => engine \in {"mlx", "llama.cpp"}
         /\ step = "train mlx" => engine = "mlx"

(* The records are the request's until rollouts take their place; a method *)
(* that was selected can learn from them, at the latest from the rollouts. *)
Learns == /\ step \notin Training \cup {"manifest"} \cup Ended => rows = request.records
          /\ Loaded => /\ method \in Methods /\ rows # <<>>
                       /\ ~request.live => Accepted
          /\ step \in {"rollout", "rolling", "manifest"} \cup Training =>
                request.samples >= 1 /\ request.iterations >= 1
          /\ step \in {"manifest"} \cup Training =>
                /\ rows # <<>>
                /\ request.live => Len(rows) = Len(request.records) * request.samples
          /\ step \in {"manifest", "fingerprint", "advantages"} => Accepted

(* The adapter has gone through the beginning of the chain.                *)
Begun(a) == /\ Len(a) <= Len(Chain)
            /\ \A k \in 1..Len(a) : a[k] = Chain[k]
Follows == /\ report # "none" => step \in Training \cup {"failed"}
           /\ step \notin Training \cup Ended => adapter = <<>>
           /\ step \in Training => Begun(adapter)
           /\ step = "stepping" => Len(adapter) < Turns
           /\ step = "finish" => adapter = Chain

(* What is reported has been delivered.                                    *)
Delivers == report = "completed" =>
                /\ final = Chain /\ rows # <<>> /\ request.iterations >= 1 /\ ~touched
                /\ request.live => Len(rows) = Len(request.records) * request.samples

AlignInv == Route /\ Learns /\ Follows /\ Delivers

(* The invariant of the whole command.                                     *)
Safe == TypeOK /\ PrepSafe /\ AlignInv

-----------------------------------------------------------------------------
(* The data.                                                               *)

(* What a command asks of its alignment.                                   *)
LEMMA AlignmentAsked ==
    ASSUME NEW r \in Requests
    PROVE  /\ r.type \in Methods \cup {"auto", "none"} /\ r.live \in BOOLEAN
           /\ r.samples \in Nat /\ r.iterations \in Nat /\ r.records \in Seq(Records)
BY StagesAssumption

(* A record is a preference, a reward or no example at all.                *)
LEMMA Parsing == ASSUME NEW item PROVE _parse_example(item) \in {"preference", "reward", Invalid}
BY DEF _parse_example

(* Where every record has its value, the advantages of some are not none.  *)
LEMMA Valued ==
    ASSUME NEW data \in Seq(Records), data # <<>>
    PROVE  reward_advantages("reinforce", data) # <<>>
<1> DEFINE values == [i \in DOMAIN data |-> _feedback_reward(data[i])]
<1>1. reward_advantages("reinforce", data) = values
  BY DEF reward_advantages, _REWARD_METHODS, Grouped
<1>2. 1 \in DOMAIN data
  BY DEF Records
<1>3. DOMAIN values = DOMAIN data /\ DOMAIN <<>> = {}
  OBVIOUS
<1> QED
  BY <1>1, <1>2, <1>3

(* A method that is selected is the one asked for, if one was, and learns  *)
(* from records that are not to be generated first.                        *)
LEMMA Loading ==
    ASSUME NEW data \in Seq(Records), NEW live \in BOOLEAN,
           NEW requested \in Methods \cup {"auto", Invalid},
           NEW m, m = load_alignment_dataset(data, requested, live)
    PROVE  /\ m \in Methods \cup {Invalid}
           /\ m # Invalid => /\ m \in Methods /\ data # <<>> /\ (requested # "auto" => m = requested)
                             /\ ~live /\ m \in Grouped \cup {"reinforce"} =>
                                   reward_advantages(m, data) # <<>>
<1> DEFINE schema == CHOOSE s \in Schemas(data) : TRUE
           chosen == Selected(requested, schema)
<1>1. m = Invalid \/ /\ m = chosen /\ data # <<>> /\ schema # Invalid
                     /\ Suits(chosen, schema, data, live)
  BY Zenon DEF load_alignment_dataset
<1>2. chosen \in Methods \cup {Invalid} /\ (requested # "auto" => chosen = requested)
  BY DEF Selected, Methods, Pairwise, _REWARD_METHODS
<1>3. ASSUME m # Invalid
      PROVE  /\ m \in Methods /\ data # <<>> /\ (requested # "auto" => m = requested)
             /\ ~live /\ m \in Grouped \cup {"reinforce"} => reward_advantages(m, data) # <<>>
  <2>1. /\ m = chosen /\ data # <<>> /\ schema # Invalid /\ Suits(chosen, schema, data, live)
        /\ m \in Methods
    BY <1>1, <1>2, <1>3
  <2>2. schema \in {"preference", "reward"}
    <3>1. 1 \in DOMAIN data
      BY <2>1
    <3>2. Schemas(data) # {}
      BY <3>1 DEF Schemas
    <3>3. schema \in Schemas(data)
      BY <3>2
    <3>4. PICK i \in DOMAIN data : schema = _parse_example(data[i])
      BY <3>3 DEF Schemas
    <3>5. schema \in {"preference", "reward", Invalid}
      BY <3>4, Parsing
    <3> QED
      BY <2>1, <3>5
  <2> HIDE DEF schema, chosen
  <2>3. ASSUME ~live, m \in Grouped \cup {"reinforce"} PROVE reward_advantages(m, data) # <<>>
    <3>1. schema = "reward"
      BY <2>1, <2>2, <2>3 DEF Suits
    <3>2. CASE m \in Grouped
      BY <2>1, <2>3, <3>1, <3>2 DEF Suits
    <3>3. CASE m = "reinforce"
      BY <2>1, <3>3, Valued
    <3> QED
      BY <2>3, <3>2, <3>3
  <2> QED
    BY <1>2, <2>1, <2>3
<1> QED
  BY <1>1, <1>2, <1>3

(* A generated row is a record.                                            *)
LEMMA RowTyped ==
    ASSUME NEW m, NEW item \in Records, NEW likeness \in Likeness
    PROVE  _rollout_row(m, item, likeness) \in Records
<1>1. item.prompt \in Nat /\ item.reward \in Int
  BY DEF Records
<1>2. _local_reward(item, likeness) \in Int
  BY <1>1 DEF _local_reward, _feedback_reward, Likeness
<1> DEFINE reward == IF m = "kto" /\ _local_reward(item, likeness) = 0 THEN -1
                     ELSE _local_reward(item, likeness)
           row(has, n) == [has |-> has, prompt |-> item.prompt, reward |-> n]
<1>3. reward \in Int
  BY <1>2
<1>4. \A has \in SUBSET Fields, n \in Int : row(has, n) \in Records
  BY <1>1 DEF Records
<1>5. \/ _rollout_row(m, item, likeness) = row({"prompt", "chosen", "rejected"}, 0)
      \/ _rollout_row(m, item, likeness) = row({"prompt", "response", "reward"}, reward)
  BY DEF _rollout_row
<1>6. /\ {"prompt", "chosen", "rejected"} \in SUBSET Fields
      /\ {"prompt", "response", "reward"} \in SUBSET Fields
  BY DEF Fields
<1> HIDE DEF reward, row
<1> QED
  BY <1>3, <1>4, <1>5, <1>6

(* Every answer belongs to a record.                                       *)
LEMMA RowOfAnswer ==
    ASSUME NEW n \in Nat, NEW samples \in Nat \ {0}, NEW k \in 1..(n * samples)
    PROVE  ((k - 1) \div samples) + 1 \in 1..n
<1>1. k - 1 \in Nat /\ k - 1 < n * samples
  OBVIOUS
<1> DEFINE q == (k - 1) \div samples
<1>2. q \in Nat /\ q * samples <= k - 1
  BY <1>1
<1>3. q * samples < n * samples
  BY <1>1, <1>2
<1> HIDE DEF q
<1>4. q < n
  BY <1>2, <1>3
<1> QED
  BY <1>2, <1>4 DEF q

-----------------------------------------------------------------------------
(* The steps.                                                              *)

(* The stages after the fine-tuning, and what surrounds them.              *)
Collecting == \/ TooFewSamples \/ generate_gguf_answers \/ generate_mlx_answers \/ MlxAnswers
              \/ collect_live_rollouts
Finishing == \/ WriteManifest \/ Fingerprint \/ SetupFails \/ Advantages \/ References \/ BeginStep
             \/ _native_alignment_step \/ AllStepped \/ _verify_common \/ PublishAligned
             \/ Fails({"references", "steps"})
Calling == CallStep \/ Clock \/ Prints(Cmd) \/ ChildEnds \/ Interrupted(Cmd)

(* There is one command.                                                   *)
LEMMA OneRun == Cmd \in Run
BY OneCommand DEF Cmd

(* A step is one of the preparation, of a stage or of a child.             *)
LEMMA NextCases ==
    ASSUME [Next]_vars
    PROVE  \/ (_fine_tune \/ Elsewhere) /\ UNCHANGED <<aligning, children>>
           \/ _train \/ AlignNext \/ _alignment_stage \/ StartAlignment
           \/ Collecting \/ Finishing
           \/ Calling /\ Still
           \/ UNCHANGED vars
           \/ BaseChanges
BY Zenon DEF Next, Command, Aligning, Collecting, Finishing, Calling

(* What a call for a rollout or a training does to the processes.          *)
LEMMA LaunchTyped ==
    ASSUME CallsOK({"rollout", "align"}), NEW what \in {"rollout", "align"}, Launch(Cmd, what)
    PROVE  CallsOK({"rollout", "align"})'
BY ZenonT(60) DEF CallsOK, Launch

(* The types of the processes, kept by every step.                         *)
LEMMA CallsTyped ==
    ASSUME CallsOK({"rollout", "align"}), [Next]_vars
    PROVE  CallsOK({"rollout", "align"})'
<1> USE DEF CallsOK
<1>1. ASSUME UNCHANGED children PROVE CallsOK({"rollout", "align"})'
  BY <1>1 DEF children
<1>2. ASSUME Returned(Cmd) PROVE CallsOK({"rollout", "align"})'
  BY <1>2, OneRun DEF Returned
<1>3. CASE _train \/ AlignNext \/ _alignment_stage \/ StartAlignment \/ UNCHANGED vars \/ BaseChanges
  BY <1>1, <1>3 DEF _train, AlignNext, _alignment_stage, StartAlignment, vars, BaseChanges
<1>4. CASE Collecting
  <2>1. UNCHANGED children \/ Launch(Cmd, "rollout") \/ Returned(Cmd)
    BY <1>4 DEF Collecting, TooFewSamples, generate_gguf_answers, generate_mlx_answers,
                MlxAnswers, collect_live_rollouts, Returns
  <2> QED
    BY <1>1, <1>2, <2>1, LaunchTyped
<1>5. CASE Finishing
  <2>1. UNCHANGED children \/ Launch(Cmd, "align") \/ Returned(Cmd)
    BY <1>5 DEF Finishing, WriteManifest, Fingerprint, SetupFails, Advantages, References, BeginStep, Fails,
                _native_alignment_step, AllStepped, _verify_common, PublishAligned, Returns
  <2> QED
    BY <1>1, <1>2, <2>1, LaunchTyped
<1>6. CASE Calling
  <2>1. CASE ReadLine(Cmd)
    BY <2>1, OneRun DEF ReadLine
  <2>2. CASE EndOfOutput(Cmd)
    BY <2>2, OneRun DEF EndOfOutput, Over
  <2>3. CASE TimesOut(Cmd)
    BY <2>3, OneRun DEF TimesOut, Terminate, Over
  <2>4. CASE LogFails(Cmd)
    BY <2>4, OneRun DEF LogFails, Over
  <2>5. CASE Clock
    BY <2>5, OneRun DEF Clock, TimePasses
  <2>6. CASE Prints(Cmd)
    BY <2>6, OneRun DEF Prints
  <2>7. CASE ChildEnds
    <3>1. PICK status \in {"zero", "nonzero"} : Exits(Cmd, status)
      BY <2>7 DEF ChildEnds
    <3> QED
      BY <3>1, OneRun DEF Exits
  <2>8. CASE Interrupted(Cmd)
    BY <2>8, OneRun DEF Interrupted, Terminate, Over
  <2> QED
    BY <1>6, <2>1, <2>2, <2>3, <2>4, <2>5, <2>6, <2>7, <2>8 DEF Calling, CallStep, Reads
<1>7. UNCHANGED <<aligning, children>> => UNCHANGED children
  OBVIOUS
<1> QED
  BY <1>1, <1>3, <1>4, <1>5, <1>6, <1>7, NextCases

-----------------------------------------------------------------------------
(* The steps of the stages keep the invariant of the preparation.          *)

(* The steps before and after the preparation of a training.               *)
Aside == {"start", "model", "done", "align data", "align settings", "align", "rollout", "rolling",
          "manifest"} \cup Training \cup Ended

(* There the command may start from other settings.                        *)
LEMMA PrepAside ==
    ASSUME PrepSafe, UNCHANGED <<request, cache, environment>>, step' \in Aside,
           engine' \in {"none", "mlx", "llama.cpp"},
           step' \notin {"start", "model", "align data", "refused"} =>
              engine' \in {"mlx", "llama.cpp"},
           required' \in {0, required}, bench' \in Benchmarks, config' \in Configurations,
           trial' \in Trials
    PROVE  PrepSafe'
<1> USE DEF Aside, Training, Ended
<1>1. PrepTypeOK /\ FreeBelow /\ (required = 0 \/ required >= 32)
  BY DEF PrepSafe, PrepInv, Needs
<1>2. UNCHANGED <<request, cache, free>>
  BY DEF environment
<1>3. PrepTypeOK' /\ FreeBelow'
  <2>1. required' \in Nat
    <3>1. required \in Nat
      BY <1>1, Zenon DEF PrepTypeOK
    <3>2. required' = 0 \/ required' = required
      BY Zenon
    <3>3. 0 \in Nat
      OBVIOUS
    <3> QED
      BY <3>1, <3>2, <3>3, Zenon
  <2>2. PrepTypeOK'
    BY <1>1, <1>2, <2>1, Zenon DEF PrepTypeOK
  <2>3. FreeBelow'
    BY <1>1, <1>2 DEF FreeBelow
  <2> QED
    BY <2>2, <2>3
<1>4. Course'
  BY DEF Course
<1>5. Needs' /\ Covers' /\ Tries' /\ Measures'
  BY <1>1 DEF Needs, Needing, Benching, Covers, Configuring, Tries, Trialling, Measures
<1>6. MeasuredShape'
  BY DEF MeasuredShape, Starting
<1>7. Suitable'
  BY DEF Suitable, Benched, Sized, Tried, Padded, Sighted, Configuring, Benching, Trialling
<1> QED
  BY <1>3, <1>4, <1>5, <1>6, <1>7 DEF PrepSafe, PrepInv

(* Rollouts and the alignment itself leave what was prepared.              *)
LEMMA StageSteps ==
    ASSUME Collecting \/ Finishing
    PROVE  /\ UNCHANGED <<request, cache, engine, required, bench, config, trial, environment>>
           /\ step \in {"rollout", "rolling", "manifest"} \cup Training
           /\ step' \in {"rollout", "rolling", "manifest"} \cup Training \cup Ended
<1> USE DEF Training, Ended, Step, Prepared, Goto, Refuse
<1>1. CASE TooFewSamples \/ collect_live_rollouts
  BY <1>1 DEF TooFewSamples, collect_live_rollouts
<1>2. CASE generate_gguf_answers \/ generate_mlx_answers
  BY <1>2 DEF generate_gguf_answers, generate_mlx_answers, Rolling
<1>3. CASE MlxAnswers
  BY <1>3 DEF MlxAnswers, Returns
<1>4. CASE WriteManifest \/ Fingerprint \/ SetupFails \/ Advantages \/ References \/ AllStepped
  BY <1>4 DEF WriteManifest, Fingerprint, SetupFails, Advantages, References, AllStepped
<1>5. CASE BeginStep \/ Fails({"references", "steps"})
  BY <1>5 DEF BeginStep, Fails
<1>6. CASE _native_alignment_step
  BY <1>6 DEF _native_alignment_step, Returns
<1>7. CASE _verify_common \/ PublishAligned
  BY <1>7 DEF _verify_common, PublishAligned
<1> QED
  BY <1>1, <1>2, <1>3, <1>4, <1>5, <1>6, <1>7 DEF Collecting, Finishing

(* The stage begins with the engine of the training or one chosen now.     *)
LEMMA EngineChosen ==
    ASSUME PrepSafe, Route, _alignment_stage
    PROVE  engine' \in {"mlx", "llama.cpp"}
<1>1. ChosenEngine \in {"mlx", "llama.cpp"}
  BY EngineTyped DEF PrepSafe, PrepTypeOK
<1>2. step = "align data" /\ engine' = IF Combined THEN engine ELSE ChosenEngine
  BY DEF _alignment_stage
<1> QED
  BY <1>1, <1>2 DEF Route

(* Where an alignment starts, and on what.                                 *)
LEMMA AlignmentStarts ==
    ASSUME PrepSafe, StartAlignment
    PROVE  /\ config' \in Configurations /\ engine \in {"mlx", "llama.cpp"}
           /\ on' \in Accelerators \cup {"mlx", Refused}
           /\ step = "align" /\ step' \in {"refused", "rollout", "manifest"}
           /\ step' # "refused" => request.samples >= 1 /\ request.iterations >= 1
<1>1. PrepTypeOK /\ step = "align" /\ engine \in {"mlx", "llama.cpp"}
  BY DEF PrepSafe, PrepInv, Course, StartAlignment
<1> DEFINE context == Most(32, config.context)
           batch == IF engine = "mlx" THEN config.gguf ELSE DividingBatch(context, config.gguf)
<1>2. context \in Nat \ {0} /\ batch \in Nat \ {0}
  <2>1. config.context \in Nat \ {0} /\ config.gguf \in Nat \ {0}
    BY <1>1, PartsTyped
  <2>2. context \in Nat \ {0}
    BY <2>1 DEF Most
  <2> HIDE DEF context
  <2>3. DividingBatch(context, config.gguf) \in 1..config.gguf
    BY <2>1, <2>2, Dividing
  <2> QED
    BY <2>1, <2>2, <2>3
<1>3. config' = [config EXCEPT !.context = context, !.gguf = batch] /\ config \in Configurations
  <2>1. config \in Configurations
    BY <1>1 DEF PrepTypeOK
  <2> QED
    BY <2>1 DEF StartAlignment, Configurations
<1> HIDE DEF context, batch
<1>4. config' \in Configurations
  BY <1>2, <1>3, Refitted
<1>5. on' \in Accelerators \cup {"mlx", Refused}
  <2>1. request.accelerator \in Accelerators \cup {"auto", "mps"} /\ request.host \in Hosts
    BY <1>1, Asked, HostAsked DEF PrepTypeOK
  <2>2. select_llama_accelerator(request.accelerator, request.host) \in Accelerators \cup {Refused}
    BY <2>1, AcceleratorTyped
  <2>3. engine = "llama.cpp" => Accelerator \in Accelerators \cup {Refused}
    BY <2>2 DEF Accelerator
  <2>4. on' = IF engine = "mlx" THEN "mlx" ELSE Accelerator
    BY DEF StartAlignment
  <2> QED
    BY <1>1, <2>3, <2>4
<1>6. step' \in {"refused", "rollout", "manifest"}
  BY DEF StartAlignment, Goto, Refuse
<1>7. step' # "refused" => request.samples >= 1 /\ request.iterations >= 1
  <2>1. request.samples \in Nat /\ request.iterations \in Nat
    BY <1>1, AlignmentAsked DEF PrepTypeOK
  <2>2. step' # "refused" => ~(request.samples < 1 \/ request.iterations < 1)
    BY Zenon DEF StartAlignment, Goto, Refuse
  <2> QED
    BY <2>1, <2>2
<1> QED
  BY <1>1, <1>4, <1>5, <1>6, <1>7

(* Every step of the command keeps what the preparation keeps.             *)
LEMMA PrepSafeKept == ASSUME PrepSafe, Route, [Next]_vars PROVE PrepSafe'
<1>1. /\ PrepTypeOK /\ Course /\ bench \in Benchmarks /\ config \in Configurations
      /\ trial \in Trials /\ engine \in {"none", "mlx", "llama.cpp"} /\ request \in Requests
  BY Zenon DEF PrepSafe, PrepInv, PrepTypeOK
<1>2. CASE _fine_tune \/ Elsewhere
  BY <1>2, PrepKept
<1>3. CASE _train
  <2>1. step' \in {"refused", "model", "align data"}
    BY <1>3 DEF _train, _choose_combined_alignment, Goto, Refuse
  <2>2. UNCHANGED <<request, cache, engine, required, bench, config, trial, environment>>
    BY <1>3 DEF _train, Prepared
  <2> QED
    BY <1>1, <2>1, <2>2, PrepAside DEF Aside, Ended
<1>4. CASE AlignNext
  <2>1. /\ step' = "align data" /\ required' = 0 /\ config' = Defaults /\ bench' = NoBench
        /\ trial' = NoTrial /\ UNCHANGED <<request, cache, engine, environment>>
    BY <1>4 DEF AlignNext, Goto
  <2>2. Defaults \in Configurations
    BY <1>1, DefaultsTyped
  <2> QED
    BY <1>1, <2>1, <2>2, NoneTyped, PrepAside DEF Aside
<1>5. CASE _alignment_stage
  <2>1. step' \in {"refused", "align settings", "align"}
    BY <1>5 DEF _alignment_stage, Goto, Refuse
  <2>2. UNCHANGED <<request, cache, required, bench, config, trial, environment>>
    BY <1>5 DEF _alignment_stage
  <2> QED
    BY <1>1, <1>5, <2>1, <2>2, EngineChosen, PrepAside DEF Aside, Ended
<1>6. CASE StartAlignment
  <2>1. UNCHANGED <<request, cache, engine, required, bench, trial, environment>>
    BY <1>6 DEF StartAlignment, Prepared
  <2> QED
    BY <1>1, <1>6, <2>1, AlignmentStarts, PrepAside DEF Aside, Ended
<1>7. CASE Collecting \/ Finishing
  <2>1. /\ UNCHANGED <<request, cache, engine, required, bench, config, trial, environment>>
        /\ step \in {"rollout", "rolling", "manifest"} \cup Training
        /\ step' \in {"rollout", "rolling", "manifest"} \cup Training \cup Ended
    BY <1>7, StageSteps
  <2>2. engine \in {"mlx", "llama.cpp"}
    BY <1>1, <2>1 DEF Course, Training
  <2> QED
    BY <1>1, <2>1, <2>2, PrepAside DEF Aside
<1>8. CASE (Calling /\ Still) \/ UNCHANGED vars \/ BaseChanges
  <2>1. UNCHANGED prepvars
    BY <1>8 DEF Still, vars, BaseChanges, prepvars
  <2> QED
    BY <2>1, PrepStays
<1> QED
  BY <1>2, <1>3, <1>4, <1>5, <1>6, <1>7, <1>8, NextCases

(* The preparation begins where an alignment does not, and leads to one    *)
(* only from its settings.                                                 *)
LEMMA Preparing ==
    ASSUME PrepSafe, _fine_tune
    PROVE  /\ step \notin {"align data", "align", "rollout", "rolling", "manifest"} \cup Training
                          \cup Ended
           /\ step' \notin {"align data", "rollout", "rolling", "manifest"} \cup Training
           /\ Loaded' => Loaded
           /\ step' \in Steps
<1> USE DEF Training, Ended, Steps, Goto, Refuse
<1>1. PrepTypeOK /\ Course /\ Needs /\ FreeBelow
  BY DEF PrepSafe, PrepInv
<1>2. CASE Calibrating
  <2>1. /\ step \in {"measured", "trial", "scale"}
        /\ step' \in {"refused", "trial", "scale", "train"}
    BY <1>1, <1>2, CalibrationSteps
  <2> QED
    BY <2>1 DEF Loaded, Benching
<1>3. CASE Benchmarking
  <2>1. /\ step' \in {"probe", "measured", "refused"}
        /\ step = "probe" => bench'.for = bench.for
        /\ step' # "refused" /\ step # "probe" =>
              \/ step = "settings" /\ bench'.for = "settings"
              \/ step = "again" /\ bench'.for = "fallback"
              \/ step = "second" /\ bench'.for = "pilot"
              \/ step = "align settings" /\ bench'.for = "alignment"
    BY <1>1, <1>3, BenchmarkSteps
  <2>2. step \in {"settings", "again", "second", "align settings", "probe"}
    BY <1>3, Zenon DEF Benchmarking, benchmark_auto_settings, SkipProfile, ProbeFails,
                       ProbeSucceeds
  <2> QED
    BY <2>1, <2>2 DEF Loaded, Benching
<1>4. CASE _resolve_training_settings
  <2>1. /\ step = "measured"
        /\ \/ step' = "refused"
           \/ bench.for = "settings" /\ step' = "data"
           \/ bench.for = "fallback" /\ step' = "train"
           \/ bench.for = "alignment" /\ step' = "align"
    BY <1>1, <1>4, ResolvingSteps
  <2> QED
    BY <2>1 DEF Loaded, Benching
<1>5. CASE _resolve_cli_model \/ largest_training_context \/ CountFails \/ KeepSettings
  <2>1. /\ step \in {"model", "scan", "rescan", "override"}
        /\ step' \in {"refused", "scan", "settings", "override", "again", "train", "data"}
    BY <1>5 DEF _resolve_cli_model, largest_training_context, CountFails, KeepSettings, Fitted
  <2> QED
    BY <2>1 DEF Loaded, Benching
<1>6. CASE prepare_dataset_source \/ CheckData \/ TrainMlx \/ FallBack \/ train_gradient_gguf
  <2>1. /\ step \in {"data", "checks", "train", "native"}
        /\ step' \in {"refused", "checks", "second", "train", "done", "failed", "rescan", "again"}
    BY <1>6 DEF prepare_dataset_source, CheckData, TrainMlx, FallBack, train_gradient_gguf
  <2> QED
    BY <2>1 DEF Loaded, Benching
<1>7. CASE _fit_gguf_context
  <2>1. step = "train" /\ step' \in {"refused", "native"}
    BY <1>7 DEF _fit_gguf_context
  <2> QED
    BY <2>1 DEF Loaded, Benching
<1> QED
  BY <1>2, <1>3, <1>4, <1>5, <1>6, <1>7 DEF _fine_tune

(* What an alignment has to do with: types of the stages' own state.       *)
StageTypes ==
    /\ step \in Steps /\ method \in Methods \cup {"auto", "none", Invalid}
    /\ rows \in Seq(Records) /\ answers \in Seq(Records)
    /\ on \in Accelerators \cup {"mlx", Refused}
    /\ adapter \in Seq(SUBSET Nat) /\ final \in Seq(SUBSET Nat)
    /\ report \in {"none", "aligning", "completed", "failed"} /\ touched \in BOOLEAN

(* They and the others are the types of the whole.                         *)
LEMMA Types == TypeOK <=> PrepTypeOK /\ StageTypes /\ CallsOK({"rollout", "align"})
<1>1. {rows, answers} \subseteq Seq(Records) <=> rows \in Seq(Records) /\ answers \in Seq(Records)
  BY Zenon
<1>2. {adapter, final} \subseteq Seq(SUBSET Nat)
         <=> adapter \in Seq(SUBSET Nat) /\ final \in Seq(SUBSET Nat)
  BY Zenon
<1> QED
  BY <1>1, <1>2, Zenon DEF TypeOK, StageTypes

(* The record an answer is for, and so the row it becomes.                 *)
LEMMA Answering ==
    ASSUME PrepTypeOK, StageTypes, request.samples >= 1,
           NEW k \in 1..Wanted, NEW likeness \in Likeness
    PROVE  _rollout_row(method, SourceRow(k), likeness) \in Records
<1>1. request.samples \in Nat \ {0} /\ rows \in Seq(Records)
  BY AlignmentAsked DEF PrepTypeOK, StageTypes
<1> DEFINE n == Len(rows)
           s == request.samples
           i == ((k - 1) \div s) + 1
<1>2. n \in Nat /\ s \in Nat \ {0} /\ k \in 1..(n * s)
  BY <1>1 DEF Wanted
<1>3. i \in 1..n
  <2> HIDE DEF n, s
  <2> QED
    BY <1>2, RowOfAnswer
<1>4. SourceRow(k) = rows[i]
  BY DEF SourceRow
<1> HIDE DEF i
<1>5. rows[i] \in Records
  BY <1>1, <1>3
<1> QED
  BY <1>4, <1>5, RowTyped

(* The number of answers that are wanted.                                  *)
LEMMA WantedTyped == ASSUME PrepTypeOK, StageTypes PROVE Wanted \in Nat
<1>1. Len(rows) \in Nat /\ request.samples \in Nat
  BY AlignmentAsked DEF PrepTypeOK, StageTypes
<1> DEFINE n == Len(rows)
           s == request.samples
<1> HIDE DEF n, s
<1>2. n \in Nat /\ s \in Nat
  BY <1>1 DEF n, s
<1>3. n * s \in Nat
  BY <1>2
<1> QED
  BY <1>3 DEF Wanted, n, s

(* Rollouts are records.                                                   *)
LEMMA CollectingTyped ==
    ASSUME PrepTypeOK, StageTypes, Learns, Collecting
    PROVE  StageTypes'
<1> USE DEF Step, Goto, Refuse, Calm
<1>1. /\ rows \in Seq(Records) /\ answers \in Seq(Records)
      /\ on \in Accelerators \cup {"mlx", Refused}
  BY DEF StageTypes
<1>2. ASSUME UNCHANGED <<method, adapter, final, report, touched>>, step' \in Steps,
             rows' \in Seq(Records), answers' \in Seq(Records),
             on' \in Accelerators \cup {"mlx", Refused}
      PROVE  StageTypes'
  BY <1>2 DEF StageTypes
<1>3. step' \in Steps
  BY StageSteps DEF Training, Ended, Steps
<1>4. CASE TooFewSamples \/ generate_mlx_answers
  BY <1>1, <1>2, <1>3, <1>4 DEF TooFewSamples, generate_mlx_answers, aligning
<1>5. CASE generate_gguf_answers
  <2>1. /\ UNCHANGED <<method, rows, adapter, final, report, touched>>
        /\ Len(answers) < Wanted /\ request.samples >= 1
    BY <1>5 DEF generate_gguf_answers, Rolling, validate_rollouts
  <2>2. \/ \E likeness \in Likeness, place \in {on, "cpu"} :
              /\ answers' = Append(answers, _rollout_row(method, SourceRow(Len(answers) + 1),
                                                         likeness))
              /\ on' = place
        \/ UNCHANGED <<answers, on>>
    BY <1>5 DEF generate_gguf_answers
  <2>3. ASSUME NEW likeness \in Likeness
        PROVE  Append(answers, _rollout_row(method, SourceRow(Len(answers) + 1), likeness))
                  \in Seq(Records)
    <3>1. Len(answers) \in Nat /\ Wanted \in Nat
      BY <1>1, WantedTyped
    <3>2. Len(answers) + 1 \in 1..Wanted
      BY <2>1, <3>1
    <3>3. _rollout_row(method, SourceRow(Len(answers) + 1), likeness) \in Records
      BY <2>1, <3>2, Answering
    <3> QED
      BY <1>1, <3>3, AppendProperties
  <2>4. "cpu" \in Accelerators
    BY DEF Accelerators
  <2>5. answers' \in Seq(Records) /\ on' \in Accelerators \cup {"mlx", Refused}
    BY <1>1, <2>2, <2>3, <2>4
  <2> QED
    BY <1>1, <1>2, <1>3, <2>1, <2>5
<1>6. CASE MlxAnswers
  <2>1. /\ UNCHANGED <<method, rows, adapter, final, report, touched, on>>
        /\ request.samples >= 1
    BY <1>6 DEF MlxAnswers, Returns, Learns
  <2>2. \/ UNCHANGED answers
        \/ \E likeness \in [1..Wanted -> Likeness] :
              answers' = [k \in 1..Wanted |-> _rollout_row(method, SourceRow(k), likeness[k])]
    BY <1>6, Zenon DEF MlxAnswers
  <2>3. ASSUME NEW likeness \in [1..Wanted -> Likeness]
        PROVE  [k \in 1..Wanted |-> _rollout_row(method, SourceRow(k), likeness[k])]
                  \in Seq(Records)
    <3>1. \A k \in 1..Wanted : _rollout_row(method, SourceRow(k), likeness[k]) \in Records
      BY <2>1, Answering
    <3>2. Wanted \in Nat
      BY WantedTyped
    <3> DEFINE given == [k \in 1..Wanted |-> _rollout_row(method, SourceRow(k), likeness[k])]
    <3>3. given \in [1..Wanted -> Records]
      BY <3>1
    <3> HIDE DEF given
    <3>4. given \in Seq(Records)
      BY <3>2, <3>3, ASequence
    <3> QED
      BY <3>4 DEF given
  <2>4. answers' \in Seq(Records)
    BY <1>1, <2>2, <2>3, Zenon
  <2> QED
    BY <1>1, <1>2, <1>3, <2>1, <2>4
<1>7. CASE collect_live_rollouts
  BY <1>1, <1>2, <1>3, <1>7 DEF collect_live_rollouts
<1> QED
  BY <1>4, <1>5, <1>6, <1>7 DEF Collecting

-----------------------------------------------------------------------------
(* The chain of optimizer steps.                                           *)

(* Every record belongs to a unit, and units are sets of records.          *)
LEMMA UnitsTyped ==
    ASSUME StageTypes, rows # <<>>
    PROVE  /\ Units \in Seq(SUBSET Nat) /\ Len(Units) \in Nat \ {0}
           /\ engine # "mlx" => Len(Units) = Len(rows) /\ \A i \in DOMAIN rows : Units[i] = {i}
           /\ \A i \in DOMAIN rows : \E u \in 1..Len(Units) : i \in Units[u]
<1> DEFINE n == Len(rows)
           W == {i \in DOMAIN rows : \A j \in Same(rows, rows[i].prompt) : i <= j}
           groups == [k \in DOMAIN Firsts |-> Same(rows, rows[Firsts[k]].prompt)]
           singles == [i \in DOMAIN rows |-> {i}]
<1>1. n \in Nat \ {0} /\ DOMAIN rows = 1..n
  <2>1. rows \in Seq(Records)
    BY DEF StageTypes
  <2> QED
    BY <2>1
<1>2. W \subseteq 1..n /\ Firsts = InOrder(W, n)
  BY <1>1 DEF Firsts
<1> HIDE DEF n, W
<1>3. Firsts \in Seq(1..n)
  BY <1>1, <1>2, Listing
<1>4. ASSUME NEW i \in 1..n PROVE \E k \in DOMAIN Firsts : i \in groups[k]
  <2> DEFINE S == Same(rows, rows[i].prompt)
  <2>1. i \in S /\ S \subseteq 1..n
    BY <1>1 DEF Same
  <2>2. PICK h \in S : \A j \in S : h <= j
    <3>1. S \subseteq Nat /\ S # {}
      BY <2>1
    <3> HIDE DEF S
    <3> QED
      BY <3>1, LeastNumber
  <2>3. h \in 1..n /\ Same(rows, rows[h].prompt) = S
    BY <1>1, <2>2 DEF Same
  <2> HIDE DEF S
  <2>4. h \in W
    BY <1>1, <2>2, <2>3 DEF W
  <2>5. W \subseteq Nat /\ n \in Nat
    BY <1>1, <1>2
  <2>6. PICK k \in DOMAIN InOrder(W, n) : InOrder(W, n)[k] = h
    BY <2>3, <2>4, <2>5, InOrderLists
  <2> QED
    BY <1>2, <2>1, <2>3, <2>6
<1>5. /\ groups \in Seq(SUBSET Nat) /\ Len(groups) \in Nat \ {0}
      /\ \A i \in 1..n : \E u \in 1..Len(groups) : i \in groups[u]
  <2> DEFINE m == Len(Firsts)
  <2>1. m \in Nat /\ DOMAIN Firsts = 1..m
    BY <1>3
  <2>2. \A k \in DOMAIN Firsts : Same(rows, rows[Firsts[k]].prompt) \in SUBSET Nat
    BY <1>1 DEF Same
  <2> HIDE DEF m
  <2>3. groups \in [1..m -> SUBSET Nat]
    BY <2>1, <2>2
  <2> HIDE DEF groups
  <2>4. groups \in Seq(SUBSET Nat) /\ Len(groups) = m
    BY <2>1, <2>3, ASequence
  <2>5. \A i \in 1..n : \E u \in 1..m : i \in groups[u]
    BY <1>4, <2>1
  <2>6. 1 \in 1..n
    BY <1>1
  <2>7. m # 0
    BY <2>1, <2>5, <2>6
  <2> QED
    BY <2>1, <2>4, <2>5, <2>7
<1>6. /\ singles \in Seq(SUBSET Nat) /\ Len(singles) = n
      /\ \A i \in 1..n : singles[i] = {i}
  <2>1. singles \in [1..n -> SUBSET Nat]
    BY <1>1
  <2>2. \A i \in 1..n : singles[i] = {i}
    BY <1>1
  <2> HIDE DEF singles
  <2> QED
    BY <1>1, <2>1, <2>2, ASequence
<1>7. Units = groups \/ Units = singles
  BY Zenon DEF Units
<1>8. engine # "mlx" => Units = singles
  BY DEF Units
<1> HIDE DEF groups, singles
<1>9. CASE Units = singles
  <2>1. \A i \in 1..n : i \in singles[i]
    BY <1>6
  <2> QED
    BY <1>1, <1>6, <1>9, <2>1 DEF n
<1>10. CASE Units = groups /\ Units # singles
  BY <1>1, <1>5, <1>8, <1>10
<1> QED
  BY <1>7, <1>9, <1>10

(* A step takes a unit at least.                                           *)
LEMMA ShareTyped == ASSUME PrepTypeOK PROVE Share \in Nat \ {0}
<1>1. config.batch \in Nat \ {0}
  BY PartsTyped
<1> DEFINE G == request.host.gpus
           N == Cardinality(CudaDevices)
<1>2. Len(G) \in Nat /\ DOMAIN G = 1..Len(G)
  BY Asked DEF PrepTypeOK
<1>3. CudaDevices \subseteq 1..Len(G)
  BY <1>2 DEF CudaDevices
<1>4. N \in Nat
  <2>1. IsFiniteSet(1..Len(G))
    BY <1>2, FS_Interval
  <2>2. IsFiniteSet(CudaDevices)
    BY <1>3, <2>1, FS_Subset
  <2> QED
    BY <2>2, FS_CardinalityType
<1> HIDE DEF N
<1>5. Most(1, N) \in Nat \ {0}
  BY <1>4 DEF Most
<1>6. DividingBatch(config.batch, Most(1, N)) \in 1..Most(1, N)
  BY <1>1, <1>5, Dividing
<1>7. DividingBatch(config.batch, Most(1, N)) \in Nat \ {0}
  BY <1>5, <1>6
<1>8. _resolve_distributed_workers \in Nat \ {0}
  BY <1>7 DEF _resolve_distributed_workers, N
<1> QED
  BY <1>1, <1>8 DEF Share

(* A chain has as many steps as there are turns, each a set of records.    *)
LEMMA ChainTyped ==
    ASSUME PrepTypeOK, StageTypes, rows # <<>>
    PROVE  /\ Chain \in Seq(SUBSET Nat) /\ Len(Chain) = Turns
           /\ Turns \in Nat /\ DOMAIN Chain = 1..Turns
           /\ \A t \in 1..Turns : Chain[t] \in SUBSET Nat
<1> DEFINE n == Len(Units)
           s == Share
           unit(t, k) == Units[(((t - 1) * s + k) % n) + 1]
<1>1. n \in Nat \ {0} /\ Units \in Seq(SUBSET Nat) /\ s \in Nat \ {0}
  BY UnitsTyped, ShareTyped
<1>2. Turns \in Nat
  <2>1. Len(rows) \in Nat /\ request.iterations \in Nat
    BY AlignmentAsked DEF StageTypes, PrepTypeOK
  <2> DEFINE each == IF engine = "mlx" THEN 1 ELSE Len(rows)
             all == request.iterations
  <2>2. each \in Nat /\ all \in Nat
    BY <2>1
  <2> HIDE DEF each, all
  <2>3. all * each \in Nat
    BY <2>2
  <2> QED
    BY <2>3 DEF Turns, each, all
<1> DEFINE m == Turns
<1> HIDE DEF n, s, m
<1>3. ASSUME NEW t \in 1..m, NEW k \in 0..(s - 1) PROVE unit(t, k) \in SUBSET Nat
  <2> DEFINE x == (t - 1) * s + k
  <2>1. x \in Nat
    <3>1. t - 1 \in Nat /\ s \in Nat /\ k \in Nat
      BY <1>1, <1>2 DEF m
    <3>2. (t - 1) * s \in Nat
      BY <3>1
    <3> QED
      BY <3>1, <3>2
  <2> HIDE DEF x
  <2>2. (x % n) + 1 \in 1..n
    BY <1>1, <2>1
  <2>3. Units[(x % n) + 1] \in SUBSET Nat
    BY <1>1, <2>2 DEF n
  <2> QED
    BY <2>3 DEF x
<1>4. Chain = [t \in 1..m |-> UNION {unit(t, k) : k \in 0..(s - 1)}]
  BY DEF Chain, m, s, n
<1> HIDE DEF unit
<1>5. \A t \in 1..m : UNION {unit(t, k) : k \in 0..(s - 1)} \in SUBSET Nat
  BY <1>3
<1> DEFINE c == Chain
<1>6. c \in [1..m -> SUBSET Nat]
  BY <1>4, <1>5
<1>7. m \in Nat
  BY <1>2 DEF m
<1> HIDE DEF c
<1>8. c \in Seq(SUBSET Nat) /\ Len(c) = m
  BY <1>6, <1>7, ASequence
<1>9. DOMAIN c = 1..m /\ \A t \in 1..m : c[t] \in SUBSET Nat
  BY <1>6
<1> QED
  BY <1>7, <1>8, <1>9 DEF c, m

(* What the chain is made of, beside the adapter.                          *)
LEMMA ChainHere ==
    ASSUME PrepTypeOK, StageTypes, rows # <<>>
    PROVE  /\ adapter \in Seq(SUBSET Nat) /\ Len(adapter) \in Nat
           /\ Chain \in Seq(SUBSET Nat) /\ Len(Chain) \in Nat /\ Len(Chain) = Turns
<1>1. adapter \in Seq(SUBSET Nat)
  BY DEF StageTypes
<1> QED
  BY <1>1, ChainTyped, LenProperties

(* A step of the alignment leads to an adapter that has gone through more. *)
LEMMA StepTyped ==
    ASSUME PrepTypeOK, StageTypes, Learns, Follows, _native_alignment_step
    PROVE  adapter' \in Seq(SUBSET Nat)
<1>1. adapter \in Seq(SUBSET Nat)
  BY DEF StageTypes
<1>2. /\ Chain \in Seq(SUBSET Nat) /\ Turns \in Nat
      /\ \A t \in 1..Turns : Chain[t] \in SUBSET Nat
  <2>1. rows # <<>>
    BY DEF _native_alignment_step, Returns, Learns, Training
  <2> QED
    BY <2>1, ChainTyped
<1>3. step = "stepping" => Stepped("stepping") \in Seq(SUBSET Nat)
  <2>1. SUFFICES ASSUME step = "stepping" PROVE Append(adapter, Following) \in Seq(SUBSET Nat)
    BY DEF Stepped
  <2>2. Len(adapter) < Turns
    BY <2>1, Zenon DEF Follows
  <2>3. Len(adapter) + 1 \in 1..Turns
    <3>1. Len(adapter) \in Nat
      BY <1>1, LenProperties, Zenon
    <3> DEFINE n == Len(adapter)
               m == Turns
    <3> HIDE DEF n, m
    <3>2. n \in Nat /\ m \in Nat /\ n < m
      BY <1>2, <2>2, <3>1, Zenon DEF n, m
    <3>3. n + 1 \in 1..m
      BY <3>2
    <3> QED
      BY <3>3 DEF n, m
  <2>4. Following \in SUBSET Nat
    BY <1>2, <2>3 DEF Following
  <2> QED
    BY <1>1, <2>4, AppendProperties
<1>4. Stepped("mlx aligning") \in Seq(SUBSET Nat)
  BY <1>2 DEF Stepped
<1>5. PICK done \in {"stepping", "mlx aligning"} :
        /\ step = done
        /\ adapter' = Stepped(done) \/ UNCHANGED adapter
  BY DEF _native_alignment_step, Returns
<1> QED
  BY <1>1, <1>3, <1>4, <1>5

(* The steps after the manifest keep the types.                            *)
LEMMA FinishingTyped ==
    ASSUME PrepTypeOK, StageTypes, Learns, Follows, Finishing
    PROVE  StageTypes'
<1> USE DEF Step, Goto
<1>1. /\ adapter \in Seq(SUBSET Nat) /\ final \in Seq(SUBSET Nat) /\ touched \in BOOLEAN
      /\ report \in {"none", "aligning", "completed", "failed"}
  BY DEF StageTypes
<1>2. step' \in Steps
  BY StageSteps DEF Training, Ended, Steps
<1>3. ASSUME UNCHANGED <<method, rows, answers, on>>,
             adapter' \in Seq(SUBSET Nat), final' \in Seq(SUBSET Nat), touched' \in BOOLEAN,
             report' \in {"none", "aligning", "completed", "failed"}
      PROVE  StageTypes'
  BY <1>2, <1>3, Zenon DEF StageTypes
<1>4. CASE SetupFails \/ Advantages \/ References \/ BeginStep \/ AllStepped \/ PublishAligned
  <2>1. UNCHANGED aligning
    BY <1>4 DEF SetupFails, Advantages, References, BeginStep, AllStepped, PublishAligned
  <2> QED
    BY <1>1, <1>3, <2>1, Zenon DEF aligning
<1>5. CASE WriteManifest \/ Fingerprint \/ Fails({"references", "steps"})
  <2>1. /\ UNCHANGED <<method, rows, answers, on, adapter, final>>
        /\ UNCHANGED touched \/ touched' = FALSE
        /\ UNCHANGED report \/ report' \in {"aligning", "failed"}
    BY <1>1, <1>5, Zenon DEF WriteManifest, Fingerprint, Fails
  <2> QED
    BY <1>1, <1>3, <2>1
<1>6. CASE _native_alignment_step
  <2>1. /\ UNCHANGED <<method, rows, answers, on, final, touched>>
        /\ UNCHANGED report \/ report' = "failed"
    BY <1>6, Zenon DEF _native_alignment_step
  <2> QED
    BY <1>1, <1>3, <1>6, <2>1, StepTyped
<1>7. CASE _verify_common
  <2>1. /\ UNCHANGED <<method, rows, answers, on, adapter, touched>> /\ final' = adapter
        /\ report' \in {"completed", "failed"}
    BY <1>7, Zenon DEF _verify_common
  <2> QED
    BY <1>1, <1>3, <2>1
<1> QED
  BY <1>4, <1>5, <1>6, <1>7 DEF Finishing

(* A stage is aligned with a method that its records select.               *)
LEMMA StageSelects ==
    ASSUME PrepTypeOK, StageTypes, Learns, _alignment_stage
    PROVE  /\ method' \in Methods \cup {Invalid}
           /\ step' # "refused" => /\ method' \in Methods /\ rows # <<>>
                                   /\ ~request.live => Accepted'
<1>1. rows \in Seq(Records) /\ request.live \in BOOLEAN
  BY AlignmentAsked DEF PrepTypeOK, StageTypes
<1> DEFINE requested == IF method = "none" THEN "auto" ELSE method
           selected == load_alignment_dataset(rows, requested, request.live)
<1>2. requested \in Methods \cup {"auto", Invalid}
  BY DEF StageTypes
<1>3. /\ method' = selected /\ rows' = rows
      /\ step' # "refused" => selected # Invalid
  BY Zenon DEF _alignment_stage, Goto, Refuse
<1> HIDE DEF requested
<1>4. /\ selected \in Methods \cup {Invalid}
      /\ selected # Invalid => /\ selected \in Methods /\ rows # <<>>
                               /\ ~request.live /\ selected \in Grouped \cup {"reinforce"} =>
                                     reward_advantages(selected, rows) # <<>>
  BY <1>1, <1>2, Loading
<1> HIDE DEF selected
<1>5. (~request.live /\ selected # Invalid) => Accepted'
  BY <1>3, <1>4 DEF Accepted, NeedsAdvantages
<1> QED
  BY <1>3, <1>4, <1>5

(* Every step keeps the types of the stages.                               *)
LEMMA StageTypesKept ==
    ASSUME PrepSafe, StageTypes, AlignInv, [Next]_vars
    PROVE  StageTypes'
<1>1. PrepTypeOK /\ Learns /\ Follows /\ request.type \in Methods \cup {"auto", "none"}
  BY AlignmentAsked DEF PrepSafe, PrepTypeOK, AlignInv
<1>2. ASSUME step' \in Steps, method' \in Methods \cup {"auto", "none", Invalid},
             on' \in Accelerators \cup {"mlx", Refused}, touched' \in BOOLEAN,
             UNCHANGED <<rows, answers, adapter, final, report>>
      PROVE  StageTypes'
  BY <1>2, Zenon DEF StageTypes
<1>3. /\ step \in Steps /\ method \in Methods \cup {"auto", "none", Invalid}
      /\ on \in Accelerators \cup {"mlx", Refused} /\ touched \in BOOLEAN
  BY Zenon DEF StageTypes
<1>4. CASE (_fine_tune \/ Elsewhere) /\ UNCHANGED aligning
  <2>1. CASE _fine_tune
    BY <1>2, <1>3, <1>4, <2>1, Preparing DEF aligning
  <2>2. CASE Elsewhere
    <3>1. UNCHANGED step
      BY <2>2 DEF Elsewhere, MemoryMoves, EntryExpires, command
    <3> QED
      BY <1>2, <1>3, <1>4, <3>1 DEF aligning
  <2> QED
    BY <1>4, <2>1, <2>2
<1>5. CASE _train
  <2>1. step' \in {"refused", "model", "align data"}
    BY <1>5 DEF _train, _choose_combined_alignment, Goto, Refuse
  <2>2. UNCHANGED method \/ method' \in {"dpo", "orpo", "auto"}
    BY <1>5 DEF _train, _choose_combined_alignment
  <2>3. {"dpo", "orpo"} \subseteq Methods
    BY DEF Methods, Pairwise
  <2>4. UNCHANGED <<rows, answers, on, adapter, final, report, touched>>
    BY <1>5 DEF _train
  <2> QED
    BY <1>2, <1>3, <2>1, <2>2, <2>3, <2>4 DEF Steps
<1>6. CASE AlignNext
  <2>1. step' = "align data" /\ UNCHANGED aligning
    BY <1>6 DEF AlignNext, Goto
  <2> QED
    BY <1>2, <1>3, <2>1, Zenon DEF Steps, aligning
<1>7. CASE _alignment_stage
  <2>1. step' \in {"refused", "align settings", "align"}
    BY <1>7 DEF _alignment_stage, Goto, Refuse
  <2>2. UNCHANGED <<rows, answers, on, adapter, final, report, touched>>
    BY <1>7 DEF _alignment_stage
  <2> QED
    BY <1>1, <1>2, <1>3, <1>7, <2>1, <2>2, StageSelects DEF Steps
<1>8. CASE StartAlignment
  <2>1. UNCHANGED <<method, rows, answers, adapter, final, report, touched>>
    BY <1>8 DEF StartAlignment
  <2> QED
    BY <1>2, <1>3, <1>8, <2>1, AlignmentStarts DEF Steps
<1>9. CASE Collecting \/ Finishing
  BY <1>1, <1>9, CollectingTyped, FinishingTyped
<1>10. CASE (Calling /\ Still) \/ UNCHANGED vars
  <2>1. UNCHANGED <<step, aligning>>
    BY <1>10 DEF Still, vars, command
  <2> QED
    BY <1>2, <1>3, <2>1 DEF aligning
<1>11. CASE BaseChanges
  <2>1. /\ UNCHANGED <<step, method, rows, answers, on, adapter, final, report>>
        /\ touched' = TRUE
    BY <1>11 DEF BaseChanges, command
  <2> QED
    BY <1>2, <1>3, <2>1
<1> QED
  BY <1>4, <1>5, <1>6, <1>7, <1>8, <1>9, <1>10, <1>11, NextCases

(* An alignment knows what it computes with.                               *)
LEMMA RouteKept == ASSUME PrepSafe, Route, [Next]_vars PROVE Route'
<1> USE DEF Goto, Refuse
<1>1. Course
  BY DEF PrepSafe, PrepInv
<1>2. CASE _fine_tune
  BY <1>2, Preparing DEF Route, Training
<1>3. CASE Elsewhere \/ (Calling /\ Still) \/ UNCHANGED vars \/ BaseChanges
  <2>1. UNCHANGED <<step, engine, request>>
    BY <1>3 DEF Elsewhere, MemoryMoves, EntryExpires, Still, vars, BaseChanges, command
  <2> QED
    BY <2>1 DEF Route, Combined
<1>4. CASE _train
  <2>1. /\ step' \in {"refused", "model", "align data"} /\ UNCHANGED request
        /\ step' = "align data" => request.stage = "alignment"
    BY <1>4 DEF _train, _choose_combined_alignment, Prepared
  <2> QED
    BY <2>1 DEF Route, Combined
<1>5. CASE AlignNext
  <2>1. step = "done" /\ step' = "align data" /\ UNCHANGED engine
    BY <1>5 DEF AlignNext
  <2> QED
    BY <1>1, <2>1 DEF Route, Course
<1>6. CASE _alignment_stage
  <2>1. step' \in {"refused", "align settings", "align"}
    BY <1>6 DEF _alignment_stage
  <2> QED
    BY <2>1 DEF Route
<1>7. CASE StartAlignment
  BY <1>7, AlignmentStarts DEF Route
<1>8. CASE Collecting
  <2>1. step' \in {"rollout", "rolling", "manifest", "refused", "failed"}
    BY <1>8 DEF Collecting, TooFewSamples, generate_gguf_answers, generate_mlx_answers,
                MlxAnswers, collect_live_rollouts, Step
  <2> QED
    BY <2>1 DEF Route
<1>9. CASE Finishing
  <2>1. CASE Fingerprint
    <3>1. /\ step' = IF engine = "mlx" THEN "train mlx" ELSE "advantages"
          /\ UNCHANGED engine
      BY <2>1 DEF Fingerprint, Step, Prepared
    <3> QED
      BY <3>1 DEF Route
  <2>2. CASE ~Fingerprint
    <3>1. step' \notin {"train mlx", "align data"}
      BY <1>9, <2>2 DEF Finishing, WriteManifest, SetupFails, Advantages, References, BeginStep, Fails,
                        _native_alignment_step, AllStepped, _verify_common, PublishAligned, Step
    <3> QED
      BY <3>1 DEF Route
  <2> QED
    BY <2>1, <2>2
<1> QED
  BY <1>2, <1>3, <1>4, <1>5, <1>6, <1>7, <1>8, <1>9, NextCases

(* The command stays what was asked for.                                   *)
LEMMA SameRequest == ASSUME [Next]_vars PROVE UNCHANGED request
<1> USE DEF Prepared, Step
<1>1. CASE _fine_tune
  <2>1. CASE Benchmarking
    BY <2>1, Zenon DEF Benchmarking, benchmark_auto_settings, SkipProfile, ProbeFails,
                       ProbeSucceeds, Smaller
  <2>2. CASE Calibrating
    BY <2>2, Zenon DEF Calibrating, sample_training_data, PilotRefused, PilotRunsOut, PilotFails,
                       FallsBackToCpu, PilotEnds, NoRate, ApplyCalibration, TrialOnly
  <2>3. CASE ~Benchmarking /\ ~Calibrating
    BY <1>1, <2>3, Zenon DEF _fine_tune, _resolve_cli_model, largest_training_context, CountFails,
                             _resolve_training_settings, KeepSettings, prepare_dataset_source,
                             CheckData, TrainMlx, FallBack, _fit_gguf_context, train_gradient_gguf
  <2> QED
    BY <2>1, <2>2, <2>3
<1>2. CASE Elsewhere \/ (Calling /\ Still) \/ UNCHANGED vars \/ BaseChanges
  BY <1>2 DEF Elsewhere, MemoryMoves, EntryExpires, Still, vars, BaseChanges, command
<1>3. CASE _train \/ AlignNext \/ _alignment_stage \/ StartAlignment
  BY <1>3, Zenon DEF _train, AlignNext, _alignment_stage, StartAlignment
<1>4. CASE Collecting \/ Finishing
  BY <1>4, StageSteps
<1> QED
  BY <1>1, <1>2, <1>3, <1>4, NextCases

(* What surrounds the command leaves its place and its records.            *)
LEMMA Surroundings ==
    ASSUME (Elsewhere /\ UNCHANGED aligning) \/ (Calling /\ Still) \/ UNCHANGED vars \/ BaseChanges
    PROVE  UNCHANGED <<step, engine, bench, config, request, method, rows, answers, on, adapter,
                       final, report>>
<1>1. CASE Elsewhere /\ UNCHANGED aligning
  BY <1>1 DEF Elsewhere, MemoryMoves, EntryExpires, command, aligning
<1>2. CASE Calling /\ Still
  BY <1>2 DEF Still, command, aligning
<1>3. CASE UNCHANGED vars
  BY <1>3 DEF vars, command, aligning
<1>4. CASE BaseChanges
  BY <1>4 DEF BaseChanges, command
<1> QED
  BY <1>1, <1>2, <1>3, <1>4

(* The rollouts that are kept can be learned from.                         *)
LEMMA RolloutsLearned ==
    ASSUME PrepTypeOK, StageTypes, Learns, collect_live_rollouts, step' = "manifest"
    PROVE  /\ method \in Methods /\ rows' # <<>> /\ Accepted'
           /\ Len(rows') = Len(request.records) * request.samples
<1>1. /\ step = "rollout" /\ rows' = answers /\ UNCHANGED method /\ Len(answers) = Wanted
      /\ load_alignment_dataset(answers, method, FALSE) # Invalid
  BY Zenon DEF collect_live_rollouts, Step, Goto
<1>2. method \in Methods /\ rows = request.records
  BY <1>1, Zenon DEF Learns, Loaded, Training, Ended
<1>3. answers \in Seq(Records) /\ Wanted = Len(request.records) * request.samples
  BY <1>2 DEF StageTypes, Wanted
<1> DEFINE generated == FALSE
           selected == load_alignment_dataset(answers, method, generated)
<1>4. /\ selected # Invalid
      /\ answers # <<>> /\ (method # "auto" => selected = method)
      /\ selected \in Grouped \cup {"reinforce"} => reward_advantages(selected, answers) # <<>>
  <2>1. selected # Invalid /\ generated \in BOOLEAN /\ ~generated
    BY <1>1
  <2>2. method \in Methods \cup {"auto", Invalid}
    BY <1>2
  <2> HIDE DEF generated
  <2> QED
    BY <1>3, <2>1, <2>2, Loading
<1> HIDE DEF selected
<1>5. method # "auto"
  BY <1>2 DEF Methods, Pairwise, _REWARD_METHODS, Grouped
<1>6. Accepted'
  BY <1>1, <1>4, <1>5 DEF Accepted, NeedsAdvantages
<1> QED
  BY <1>1, <1>2, <1>3, <1>4, <1>6

(* What is known of the records, the method and the iterations stays true. *)
LEMMA LearnsKept ==
    ASSUME PrepSafe, StageTypes, AlignInv, [Next]_vars
    PROVE  Learns'
<1> USE DEF Goto, Refuse
<1>1. PrepTypeOK /\ Learns /\ UNCHANGED request
  BY SameRequest DEF PrepSafe, AlignInv
<1>2. CASE _fine_tune /\ UNCHANGED aligning
  <2>1. /\ step \notin {"manifest"} \cup Training \cup Ended
        /\ step' \notin {"rollout", "rolling", "manifest"} \cup Training
        /\ Loaded' => Loaded
    BY <1>2, Preparing
  <2>2. UNCHANGED <<method, rows>>
    BY <1>2 DEF aligning
  <2>3. "advantages" \in Training /\ "fingerprint" \in Training
    BY DEF Training
  <2> QED
    BY <1>1, <2>1, <2>2, <2>3 DEF Learns, Accepted, NeedsAdvantages
<1>3. CASE (Elsewhere /\ UNCHANGED aligning) \/ (Calling /\ Still) \/ UNCHANGED vars \/ BaseChanges
  <2>1. UNCHANGED <<step, bench, method, rows>>
    BY <1>3, Surroundings
  <2> QED
    BY <1>1, <2>1 DEF Learns, Accepted, NeedsAdvantages, Loaded, Benching, Training, Ended
<1>4. ASSUME step \notin {"manifest"} \cup Training \cup Ended,
             step' \in {"refused", "model", "align data"}, UNCHANGED rows
      PROVE  Learns'
  BY <1>1, <1>4 DEF Learns, Loaded, Benching, Training, Ended
<1>5. CASE _train
  <2>1. /\ step = "start" /\ step' \in {"refused", "model", "align data"}
        /\ UNCHANGED rows
    BY <1>5 DEF _train, _choose_combined_alignment
  <2> QED
    BY <1>4, <2>1 DEF Training, Ended
<1>6. CASE AlignNext
  <2>1. step = "done" /\ step' = "align data" /\ UNCHANGED rows
    BY <1>6 DEF AlignNext, aligning
  <2> QED
    BY <1>4, <2>1 DEF Training, Ended
<1>7. CASE _alignment_stage
  <2>1. /\ step = "align data" /\ step' \in {"refused", "align settings", "align"}
        /\ UNCHANGED rows
    BY <1>7 DEF _alignment_stage
  <2>2. step' # "refused" => /\ method' \in Methods /\ rows # <<>>
                             /\ ~request.live => Accepted'
    BY <1>1, <1>7, StageSelects
  <2> QED
    BY <1>1, <2>1, <2>2 DEF Learns, Loaded, Benching, Training, Ended
<1>8. CASE StartAlignment
  <2>1. /\ step = "align" /\ step' \in {"refused", "rollout", "manifest"}
        /\ step' # "refused" => request.samples >= 1 /\ request.iterations >= 1
    BY <1>8, AlignmentStarts
  <2>2. /\ UNCHANGED <<method, rows>>
        /\ step' = "manifest" => ~request.live
        /\ step' = "rollout" => request.live
    BY <1>8 DEF StartAlignment
  <2>3. /\ method \in Methods /\ rows # <<>> /\ rows = request.records
        /\ ~request.live => Accepted
    BY <1>1, <2>1 DEF Learns, Loaded, Training, Ended
  <2> QED
    BY <1>1, <2>1, <2>2, <2>3
       DEF Learns, Loaded, Benching, Training, Ended, Accepted, NeedsAdvantages
<1>9. CASE Collecting
  <2>1. CASE collect_live_rollouts
    <3>1. /\ step = "rollout" /\ step' \in {"refused", "failed", "manifest"} /\ UNCHANGED method
      BY <2>1 DEF collect_live_rollouts, Step
    <3>2. step' = "manifest" => /\ method \in Methods /\ rows' # <<>> /\ Accepted'
                                /\ Len(rows') = Len(request.records) * request.samples
      BY <1>1, <2>1, RolloutsLearned
    <3> QED
      BY <1>1, <3>1, <3>2 DEF Learns, Loaded, Benching, Training, Ended
  <2>2. CASE ~collect_live_rollouts
    <3>1. /\ step \in {"rollout", "rolling"} /\ step' \in {"refused", "rollout", "rolling", "failed"}
          /\ UNCHANGED <<method, rows>>
      BY <1>9, <2>2 DEF Collecting, TooFewSamples, generate_gguf_answers, generate_mlx_answers,
                        MlxAnswers, Step, Calm, Rolling, Returns, aligning
    <3> QED
      BY <1>1, <3>1 DEF Learns, Loaded, Benching, Training, Ended, Accepted, NeedsAdvantages
  <2> QED
    BY <2>1, <2>2
<1>10. CASE Finishing
  <2>1. /\ UNCHANGED <<method, rows>> /\ step \in {"manifest"} \cup Training
        /\ step' \in Training \cup {"failed"} /\ (step' \in {"fingerprint", "advantages"} =>
                                              step \in {"manifest", "fingerprint"})
    <3>1. CASE WriteManifest \/ Fingerprint \/ SetupFails \/ Advantages \/ References \/ BeginStep
      BY <3>1 DEF WriteManifest, Fingerprint, SetupFails, Advantages, References, BeginStep, Step, aligning,
                  Training
    <3>2. CASE _native_alignment_step
      BY <3>2 DEF _native_alignment_step, Returns, Step, Training
    <3>3. CASE AllStepped \/ _verify_common \/ PublishAligned \/ Fails({"references", "steps"})
      BY <3>3 DEF AllStepped, _verify_common, PublishAligned, Fails, Step, aligning, Training
    <3> QED
      BY <1>10, <3>1, <3>2, <3>3 DEF Finishing
  <2> QED
    BY <1>1, <2>1 DEF Learns, Loaded, Benching, Training, Ended, Accepted, NeedsAdvantages
<1> QED
  BY <1>2, <1>3, <1>5, <1>6, <1>7, <1>8, <1>9, <1>10, NextCases

-----------------------------------------------------------------------------
(* The adapter goes through the chain.                                     *)

(* One optimizer step more is one more of the chain.                       *)
LEMMA Longer ==
    ASSUME PrepTypeOK, StageTypes, rows # <<>>, Begun(adapter), Len(adapter) < Turns
    PROVE  Begun(Append(adapter, Following))
<1> DEFINE a == adapter
           c == Chain
           b == Append(a, c[Len(a) + 1])
<1>1. /\ a \in Seq(SUBSET Nat) /\ c \in Seq(SUBSET Nat) /\ Len(a) < Len(c)
      /\ \A k \in 1..Len(a) : a[k] = c[k]
  BY ChainHere DEF Begun
<1> HIDE DEF a, c
<1>2. Len(a) \in Nat /\ Len(c) \in Nat
  BY <1>1
<1>3. Len(b) = Len(a) + 1 /\ \A k \in 1..Len(b) : b[k] = c[k]
  <2>1. c[Len(a) + 1] \in SUBSET Nat
    BY <1>1, <1>2
  <2>2. /\ Len(b) = Len(a) + 1 /\ b[Len(a) + 1] = c[Len(a) + 1]
        /\ \A k \in 1..Len(a) : b[k] = a[k]
    BY <1>1, <2>1, AppendProperties
  <2>3. \A k \in 1..(Len(a) + 1) : k = Len(a) + 1 \/ k \in 1..Len(a)
    BY <1>2
  <2> QED
    BY <1>1, <2>2, <2>3, Zenon
<1>4. Len(b) <= Len(c)
  BY <1>1, <1>2, <1>3
<1> HIDE DEF b
<1>5. Len(b) <= Len(Chain) /\ \A k \in 1..Len(b) : b[k] = Chain[k]
  BY <1>3, <1>4 DEF c
<1>6. b = Append(adapter, Following)
  BY DEF a, b, c, Following
<1> QED
  BY <1>5, <1>6 DEF Begun

(* An adapter that has gone as far as the chain has gone through it.       *)
LEMMA Through ==
    ASSUME PrepTypeOK, StageTypes, rows # <<>>, Begun(adapter), Len(adapter) >= Turns
    PROVE  adapter = Chain
<1> DEFINE a == adapter
           c == Chain
<1>1. /\ a \in Seq(SUBSET Nat) /\ c \in Seq(SUBSET Nat) /\ Len(a) >= Len(c) /\ Len(a) <= Len(c)
      /\ \A k \in 1..Len(a) : a[k] = c[k]
  BY ChainHere DEF Begun
<1> HIDE DEF a, c
<1>2. Len(a) \in Nat /\ Len(c) \in Nat /\ Len(a) = Len(c)
  BY <1>1
<1>3. a = c
  BY <1>1, <1>2, SeqEqual
<1> QED
  BY <1>3 DEF a, c

(* A step leads on in the chain, or to an error that is reported.          *)
LEMMA NativeStep ==
    ASSUME PrepTypeOK, StageTypes, Learns, Follows, _native_alignment_step
    PROVE  /\ step \in {"stepping", "mlx aligning"} /\ UNCHANGED rows
           /\ \/ step' = "steps" /\ Begun(adapter')
              \/ step' = "finish" /\ adapter' = Chain
              \/ step' = "failed"
<1>1. PICK done \in {"stepping", "mlx aligning"} :
         /\ step = done /\ UNCHANGED rows
         /\ \/ /\ adapter' = Stepped(done)
               /\ step' = IF done = "stepping" THEN "steps" ELSE "finish"
            \/ step' = "failed"
  BY Zenon DEF _native_alignment_step, Returns, Step, Goto
<1>2. step = "stepping" => Begun(Append(adapter, Following))
  BY Longer DEF Follows, Learns, Training
<1>3. Stepped("stepping") = Append(adapter, Following) /\ Stepped("mlx aligning") = Chain
  BY Zenon DEF Stepped
<1>4. CASE done = "stepping"
  BY <1>1, <1>2, <1>3, <1>4, Zenon
<1>5. CASE done = "mlx aligning"
  BY <1>1, <1>3, <1>5, Zenon
<1> QED
  BY <1>1, <1>4, <1>5, Zenon

(* The chain is that of the records.                                       *)
LEMMA SameChain ==
    ASSUME [Next]_vars, UNCHANGED <<rows, method, engine, config>>
    PROVE  Chain' = Chain /\ Turns' = Turns
<1>1. UNCHANGED request
  BY SameRequest
<1>2. Firsts' = Firsts /\ CudaDevices' = CudaDevices
  BY <1>1 DEF Firsts, CudaDevices
<1>3. Units' = Units /\ _resolve_distributed_workers' = _resolve_distributed_workers
  BY <1>1, <1>2 DEF Units, _resolve_distributed_workers
<1>4. Share' = Share /\ Turns' = Turns
  BY <1>1, <1>3 DEF Share, Turns
<1> QED
  BY <1>3, <1>4 DEF Chain

(* Every step of the training keeps the adapter on the chain.              *)
LEMMA FollowsFinishing ==
    ASSUME PrepSafe, StageTypes, AlignInv, [Next]_vars, Finishing
    PROVE  Follows'
<1> USE DEF Training, Ended, Step, Goto
<1>1. PrepTypeOK /\ Follows /\ Route /\ Learns
  BY DEF PrepSafe, AlignInv
<1>2. /\ step \in {"manifest"} \cup Training /\ step' \in Training \cup {"failed"}
      /\ UNCHANGED <<rows, method>>
  <2>1. CASE WriteManifest \/ Fingerprint \/ SetupFails \/ Advantages \/ References \/ BeginStep
    BY <2>1 DEF WriteManifest, Fingerprint, SetupFails, Advantages, References, BeginStep, aligning
  <2>2. CASE _native_alignment_step
    BY <1>1, <2>2, NativeStep DEF _native_alignment_step
  <2>3. CASE AllStepped \/ _verify_common \/ PublishAligned \/ Fails({"references", "steps"})
    BY <2>3 DEF AllStepped, _verify_common, PublishAligned, Fails, aligning
  <2> QED
    BY <2>1, <2>2, <2>3 DEF Finishing
<1>3. Chain' = Chain /\ Turns' = Turns /\ rows # <<>>
  <2>1. UNCHANGED <<engine, config>>
    BY StageSteps
  <2>2. rows # <<>>
    BY <1>1, <1>2 DEF Learns
  <2> QED
    BY <1>2, <2>1, <2>2, SameChain
<1>4. ASSUME step' \in Training => Begun(adapter'),
             step' = "stepping" => Len(adapter') < Turns,
             step' = "finish" => adapter' = Chain
      PROVE  Follows'
  BY <1>2, <1>3, <1>4 DEF Follows, Begun
<1>5. CASE WriteManifest
  <2>1. adapter' = <<>> /\ step' = "fingerprint"
    BY <1>1, <1>5 DEF WriteManifest, Follows
  <2>2. Begun(<<>>)
    BY <1>1, <1>3, ChainHere DEF Begun
  <2> QED
    BY <1>4, <2>1, <2>2
<1>6. CASE \/ Fingerprint \/ SetupFails \/ Advantages \/ References \/ PublishAligned
           \/ Fails({"references", "steps"})
  <2>1. /\ UNCHANGED adapter /\ step \in Training
        /\ step' \in {"failed", "train mlx", "advantages", "references", "steps", "aligned"}
    BY <1>6 DEF Fingerprint, SetupFails, Advantages, References, PublishAligned, Fails, aligning
  <2>2. Begun(adapter)
    BY <1>1, <2>1 DEF Follows
  <2> QED
    BY <1>4, <2>1, <2>2
<1>7. CASE BeginStep
  <2>1. UNCHANGED adapter /\ step' = IF engine = "mlx" THEN "mlx aligning" ELSE "stepping"
    BY <1>7, Zenon DEF BeginStep, Prepared, aligning
  <2>2. \/ step = "steps" /\ Len(adapter) < Turns
        \/ step = "train mlx" /\ engine = "mlx"
    BY <1>1, <1>7, Zenon DEF BeginStep, Route
  <2>3. Begun(adapter)
    BY <1>1, <2>2, Zenon DEF Follows
  <2>4. step' # "finish"
    BY <2>1
  <2>5. step' = "stepping" => Len(adapter) < Turns
    BY <2>1, <2>2, Zenon
  <2> QED
    BY <1>4, <2>1, <2>3, <2>4, <2>5, Zenon
<1>8. CASE _native_alignment_step
  <2>1. \/ step' = "steps" /\ Begun(adapter')
        \/ step' = "finish" /\ adapter' = Chain
        \/ step' = "failed"
    BY <1>1, <1>8, NativeStep
  <2>2. Begun(Chain)
    BY <1>1, <1>3, ChainHere DEF Begun
  <2> QED
    BY <1>4, <2>1, <2>2
<1>9. CASE AllStepped
  <2>1. UNCHANGED adapter /\ step = "steps" /\ step' = "finish" /\ Len(adapter) >= Turns
    BY <1>9 DEF AllStepped, aligning
  <2>2. Begun(adapter)
    BY <1>1, <2>1 DEF Follows
  <2>3. adapter = Chain
    BY <1>1, <1>3, <2>1, <2>2, Through
  <2> QED
    BY <1>4, <2>1, <2>2, <2>3
<1>10. CASE _verify_common
  <2>1. UNCHANGED adapter /\ step = "finish" /\ step' \in {"publish", "failed"}
    BY <1>10 DEF _verify_common
  <2>2. Begun(adapter)
    BY <1>1, <2>1 DEF Follows
  <2> QED
    BY <1>4, <2>1, <2>2
<1> QED
  BY <1>5, <1>6, <1>7, <1>8, <1>9, <1>10 DEF Finishing

(* Every step keeps the adapter on the chain.                              *)
LEMMA FollowsKept ==
    ASSUME PrepSafe, StageTypes, AlignInv, [Next]_vars
    PROVE  Follows'
<1> USE DEF Goto, Refuse
<1>1. Follows
  BY DEF AlignInv
<1>2. ASSUME step \notin Training \cup Ended, step' \notin Training, UNCHANGED <<adapter, report>>
      PROVE  Follows'
  BY <1>1, <1>2 DEF Follows, Training, Ended
<1>3. CASE _fine_tune /\ UNCHANGED aligning
  <2>1. step \notin Training \cup Ended /\ step' \notin Training
    BY <1>3, Preparing
  <2> QED
    BY <1>2, <1>3, <2>1 DEF aligning
<1>4. CASE (Elsewhere /\ UNCHANGED aligning) \/ (Calling /\ Still) \/ UNCHANGED vars \/ BaseChanges
  <2>1. UNCHANGED <<step, rows, method, engine, config, adapter, report>>
    BY <1>4, Surroundings
  <2>2. Chain' = Chain /\ Turns' = Turns
    BY <2>1, SameChain
  <2> QED
    BY <1>1, <2>1, <2>2 DEF Follows, Begun
<1>5. CASE _train
  BY <1>2, <1>5 DEF _train, _choose_combined_alignment, Training, Ended
<1>6. CASE AlignNext \/ _alignment_stage
  BY <1>2, <1>6 DEF AlignNext, _alignment_stage, aligning, Training, Ended
<1>7. CASE StartAlignment
  BY <1>2, <1>7 DEF StartAlignment, Training, Ended
<1>8. CASE Collecting
  <2>1. /\ step \in {"rollout", "rolling"} /\ UNCHANGED <<adapter, report>>
        /\ step' \in {"rollout", "rolling", "manifest", "refused", "failed"}
    BY <1>8 DEF Collecting, TooFewSamples, generate_gguf_answers, generate_mlx_answers,
                MlxAnswers, collect_live_rollouts, Step, Calm, Rolling, Returns, aligning
  <2> QED
    BY <1>2, <2>1 DEF Training, Ended
<1>9. CASE Finishing
  BY <1>9, FollowsFinishing
<1> QED
  BY <1>3, <1>4, <1>5, <1>6, <1>7, <1>8, <1>9, NextCases

(* What is reported as completed stays delivered.                          *)
LEMMA DeliversKept ==
    ASSUME PrepSafe, StageTypes, AlignInv, [Next]_vars
    PROVE  Delivers'
<1>1. Learns /\ Follows /\ Delivers /\ UNCHANGED request
  BY SameRequest DEF AlignInv
<1>2. CASE _verify_common
  <2>1. /\ step = "finish" /\ final' = adapter /\ UNCHANGED <<rows, method, touched>>
        /\ report' = "completed" => ~touched
    BY <1>2, Zenon DEF _verify_common
  <2>2. Chain' = Chain
    <3>1. UNCHANGED <<engine, config>>
      BY <1>2, StageSteps DEF Finishing
    <3> QED
      BY <2>1, <3>1, SameChain
  <2>3. /\ adapter = Chain /\ rows # <<>> /\ request.iterations >= 1
        /\ request.live => Len(rows) = Len(request.records) * request.samples
    BY <1>1, <2>1 DEF Follows, Learns, Training
  <2> QED
    BY <1>1, <2>1, <2>2, <2>3 DEF Delivers
<1>3. ASSUME report' # "completed" PROVE Delivers'
  BY <1>3 DEF Delivers
<1>4. CASE report = "completed" /\ step \notin Training \cup {"failed"}
  BY <1>1, <1>4 DEF Follows
<1>5. ASSUME report = "completed", UNCHANGED <<final, rows, method, engine, config>>,
             touched' => touched
      PROVE  Delivers'
  <2>1. Chain' = Chain
    BY <1>5, SameChain
  <2> QED
    BY <1>1, <1>5, <2>1 DEF Delivers
<1>6. CASE step \notin Training \cup {"failed"} /\ UNCHANGED report
  BY <1>3, <1>4, <1>6
<1>7. CASE _fine_tune /\ UNCHANGED <<aligning, children>>
  <2>1. step \notin Training \cup {"failed"}
    BY <1>7, Preparing DEF Ended
  <2> QED
    BY <1>6, <1>7, <2>1 DEF aligning
<1>8. CASE _train \/ AlignNext \/ _alignment_stage \/ StartAlignment
  <2>1. step \in {"start", "done", "align data", "align"} /\ UNCHANGED report
    BY <1>8 DEF _train, AlignNext, _alignment_stage, StartAlignment, aligning
  <2> QED
    BY <1>6, <2>1 DEF Training
<1>9. CASE Collecting
  <2>1. step \in {"rollout", "rolling"} /\ UNCHANGED report
    BY <1>9 DEF Collecting, TooFewSamples, generate_gguf_answers, generate_mlx_answers,
                MlxAnswers, collect_live_rollouts, Calm, Rolling, Returns, aligning
  <2> QED
    BY <1>6, <2>1 DEF Training
<1>10. CASE Finishing /\ ~_verify_common
  <2>1. UNCHANGED <<engine, config>>
    BY <1>10, StageSteps
  <2>2. CASE WriteManifest \/ Fails({"references", "steps"})
    BY <1>3, <2>2 DEF WriteManifest, Fails
  <2>3. CASE Fingerprint
    BY <1>3, <1>5, <2>1, <2>3 DEF Fingerprint
  <2>4. CASE SetupFails \/ Advantages \/ References \/ BeginStep \/ AllStepped \/ PublishAligned
    <3>1. UNCHANGED aligning
      BY <2>4 DEF SetupFails, Advantages, References, BeginStep, AllStepped, PublishAligned
    <3> QED
      BY <1>3, <1>5, <2>1, <3>1 DEF aligning
  <2>5. CASE _native_alignment_step
    <3>1. UNCHANGED <<method, rows, final, touched>> /\ (UNCHANGED report \/ report' = "failed")
      BY <2>5, Zenon DEF _native_alignment_step
    <3> QED
      BY <1>3, <1>5, <2>1, <3>1
  <2> QED
    BY <1>10, <2>2, <2>3, <2>4, <2>5 DEF Finishing
<1>11. CASE (Elsewhere /\ UNCHANGED aligning) \/ (Calling /\ Still) \/ UNCHANGED vars
  <2>1. UNCHANGED touched
    BY <1>11 DEF Still, vars, aligning
  <2>2. UNCHANGED <<final, rows, method, engine, config, report>>
    BY <1>11, Surroundings
  <2> QED
    BY <1>3, <1>5, <2>1, <2>2
<1>12. CASE BaseChanges
  BY <1>3, <1>12 DEF BaseChanges
<1> QED
  BY <1>2, <1>7, <1>8, <1>9, <1>10, <1>11, <1>12, NextCases

-----------------------------------------------------------------------------
(* The invariant.                                                          *)

(* A command starts in it.                                                 *)
LEMMA Begins == Init => Safe
<1> SUFFICES ASSUME Init PROVE Safe
  OBVIOUS
<1>1. /\ request \in Requests /\ step = "start" /\ PrepSafe /\ PrepTypeOK
      /\ method = request.type /\ rows = request.records /\ answers = <<>> /\ on = "cpu"
      /\ adapter = <<>> /\ final = <<>> /\ report = "none" /\ touched = FALSE /\ NoCalls
  <2>1. PrepInit("start")
    BY Zenon DEF Init
  <2>2. request \in Requests /\ step = "start"
    BY <2>1, Zenon DEF PrepInit
  <2>3. PrepSafe
    BY <2>1, PrepStarts
  <2> QED
    BY <2>2, <2>3, Zenon DEF Init, PrepSafe
<1>2. StageTypes
  <2>1. step \in Steps /\ on \in Accelerators \cup {"mlx", Refused}
    BY <1>1 DEF Steps, Accelerators
  <2>2. method \in Methods \cup {"auto", "none", Invalid} /\ rows \in Seq(Records)
    BY <1>1, AlignmentAsked
  <2>3. answers \in Seq(Records) /\ adapter \in Seq(SUBSET Nat) /\ final \in Seq(SUBSET Nat)
    BY <1>1, EmptySeq
  <2> QED
    BY <1>1, <2>1, <2>2, <2>3 DEF StageTypes
<1>3. CallsOK({"rollout", "align"})
  BY <1>1 DEF NoCalls, CallsOK
<1>4. Route /\ Learns
  BY <1>1 DEF Route, Learns, Loaded, Benching, Training, Ended
<1>5. Follows /\ Delivers
  BY <1>1 DEF Follows, Delivers, Training, Ended
<1> QED
  BY <1>1, <1>2, <1>3, <1>4, <1>5, Types DEF Safe, AlignInv

(* Every step keeps it.                                                    *)
LEMMA StaysSafe == Safe /\ [Next]_vars => Safe'
<1> SUFFICES ASSUME Safe, [Next]_vars PROVE Safe'
  OBVIOUS
<1>1. PrepSafe /\ StageTypes /\ AlignInv /\ CallsOK({"rollout", "align"}) /\ Route
  BY Types DEF Safe, AlignInv
<1>2. PrepSafe' /\ StageTypes'
  BY <1>1, PrepSafeKept, StageTypesKept
<1>3. CallsOK({"rollout", "align"})'
  BY <1>1, CallsTyped
<1>4. AlignInv'
  BY <1>1, RouteKept, LearnsKept, FollowsKept, DeliversKept DEF AlignInv
<1>5. TypeOK'
  <2>1. PrepTypeOK'
    BY <1>2 DEF PrepSafe
  <2>2. {rows', answers'} \subseteq Seq(Records) /\ {adapter', final'} \subseteq Seq(SUBSET Nat)
    BY <1>2, Zenon DEF StageTypes
  <2> QED
    BY <1>2, <1>3, <2>1, <2>2, Zenon DEF TypeOK, StageTypes
<1> QED
  BY <1>2, <1>4, <1>5 DEF Safe

(* It holds in every state of every command.                               *)
THEOREM Safety == Spec => []Safe
<1>1. Init => Safe
  BY Begins
<1>2. Safe /\ [Next]_vars => Safe'
  BY StaysSafe
<1> QED
  BY <1>1, <1>2, PTL DEF Spec

-----------------------------------------------------------------------------
(* A quotient and a remainder are unique.                                  *)
LEMMA Division ==
    ASSUME NEW n \in Nat \ {0}, NEW q \in Nat, NEW r \in 0..(n - 1)
    PROVE  (q * n + r) % n = r /\ (q * n + r) \div n = q
<1> DEFINE x == q * n + r
           p == x \div n
           o == x % n
<1>1. x \in Nat
  <2>1. q * n \in Nat
    OBVIOUS
  <2> QED
    BY <2>1
<1>2. p \in Nat /\ o \in 0..(n - 1) /\ x = p * n + o
  <2> HIDE DEF x
  <2> QED
    BY <1>1
<1> HIDE DEF p, o
<1>3. ASSUME NEW a \in Nat, NEW b \in Nat, a < b PROVE a * n + n <= b * n
  <2>1. a + 1 <= b
    BY <1>3
  <2>2. (a + 1) * n <= b * n
    BY <2>1
  <2> QED
    BY <2>2
<1>4. q * n + r = p * n + o
  BY <1>2 DEF x
<1>5. ~(p < q)
  <2>1. p < q => p * n + n <= q * n
    BY <1>2, <1>3
  <2> DEFINE s == p * n
             t == q * n
  <2>2. s \in Nat /\ t \in Nat
    BY <1>2
  <2> HIDE DEF s, t
  <2>3. p < q => s + n <= t
    BY <2>1 DEF s, t
  <2>4. t + r = s + o
    BY <1>4 DEF s, t
  <2> QED
    BY <1>2, <2>2, <2>3, <2>4
<1>6. ~(q < p)
  <2>1. q < p => q * n + n <= p * n
    BY <1>2, <1>3
  <2> DEFINE s == p * n
             t == q * n
  <2>2. s \in Nat /\ t \in Nat
    BY <1>2
  <2> HIDE DEF s, t
  <2>3. q < p => t + n <= s
    BY <2>1 DEF s, t
  <2>4. t + r = s + o
    BY <1>4 DEF s, t
  <2> QED
    BY <1>2, <2>2, <2>3, <2>4
<1>7. p = q
  BY <1>2, <1>5, <1>6
<1>8. o = r
  <2> DEFINE t == q * n
  <2>1. t \in Nat /\ t + r = t + o
    BY <1>4, <1>7
  <2> HIDE DEF t
  <2> QED
    BY <1>2, <2>1
<1> QED
  BY <1>7, <1>8 DEF p, o, x

(* Every iteration of a native alignment goes through the records.         *)
LEMMA EveryIteration ==
    ASSUME PrepTypeOK, StageTypes, rows # <<>>, engine # "mlx",
           NEW n \in 1..request.iterations, NEW i \in DOMAIN rows
    PROVE  Chain[(n - 1) * Len(rows) + i] = {i}
<1> DEFINE L == Len(rows)
           t == (n - 1) * L + i
           m == request.iterations
<1>1. L \in Nat \ {0} /\ DOMAIN rows = 1..L /\ m \in Nat
  <2>1. rows \in Seq(Records)
    BY DEF StageTypes
  <2> QED
    BY <2>1, AlignmentAsked DEF PrepTypeOK
<1>2. /\ Len(Units) = L /\ \A k \in DOMAIN rows : Units[k] = {k}
      /\ Share = 1 /\ Turns = m * L
  BY UnitsTyped DEF Share, Turns
<1>3. n - 1 \in Nat /\ i - 1 \in 0..(L - 1) /\ n \in 1..m /\ i \in 1..L
  BY <1>1
<1> HIDE DEF L, m
<1>4. t \in 1..(m * L) /\ t - 1 = (n - 1) * L + (i - 1)
  <2> DEFINE a == (n - 1) * L
             b == m * L
  <2>1. a \in Nat /\ b \in Nat
    BY <1>1, <1>3
  <2>2. a + L <= b
    <3>1. n * L <= m * L
      BY <1>1, <1>3
    <3>2. n * L = (n - 1) * L + L
      BY <1>1, <1>3
    <3> QED
      BY <3>1, <3>2
  <2>3. t = a + i
    OBVIOUS
  <2> HIDE DEF a, b, t
  <2>4. t \in 1..b /\ t - 1 = a + (i - 1)
    BY <1>1, <1>3, <2>1, <2>2, <2>3
  <2> QED
    BY <2>4, Zenon DEF a, b
<1>5. (t - 1) % L = i - 1
  BY <1>1, <1>3, <1>4, Division
<1> HIDE DEF t
<1>6. Chain[t] = UNION {Units[(((t - 1) * 1 + k) % L) + 1] : k \in 0..0}
  BY <1>2, <1>4 DEF Chain
<1>7. \A k \in 0..0 : Units[(((t - 1) * 1 + k) % L) + 1] = {i}
  <2>1. t - 1 \in Int
    BY <1>4, <1>1, <1>3
  <2>2. \A k \in 0..0 : (t - 1) * 1 + k = t - 1
    BY <2>1
  <2>3. (i - 1) + 1 = i /\ Units[i] = {i}
    BY <1>1, <1>2, <1>3
  <2> QED
    BY <1>5, <2>2, <2>3
<1>8. 0 \in 0..0
  OBVIOUS
<1>9. Chain[t] = {i}
  BY <1>6, <1>7, <1>8
<1> QED
  BY <1>9 DEF t, L

(* Steps that reach around the units reach every record.                   *)
LEMMA EveryRecord ==
    ASSUME PrepTypeOK, StageTypes, rows # <<>>, Len(Units) <= Turns * Share,
           NEW i \in DOMAIN rows
    PROVE  \E t \in DOMAIN Chain : i \in Chain[t]
<1> DEFINE n == Len(Units)
           s == Share
           m == Turns
<1>1. n \in Nat \ {0} /\ s \in Nat \ {0} /\ m \in Nat /\ DOMAIN Chain = 1..m
  BY UnitsTyped, ShareTyped, ChainTyped
<1>2. n <= m * s
  OBVIOUS
<1>3. PICK u \in 1..n : i \in Units[u]
  BY UnitsTyped
<1> HIDE DEF n, s, m
<1> DEFINE q == (u - 1) \div s
           k == (u - 1) % s
           t == q + 1
<1>4. q \in Nat /\ k \in 0..(s - 1) /\ u - 1 = q * s + k /\ u - 1 \in 0..(n - 1)
  BY <1>1
<1>5. t \in 1..m
  <2> HIDE DEF q, k
  <2>1. ~(m <= q)
    <3>1. m <= q => m * s <= q * s
      BY <1>1, <1>4
    <3> DEFINE a == m * s
               b == q * s
    <3>2. a \in Nat /\ b \in Nat
      BY <1>1, <1>4
    <3> HIDE DEF a, b
    <3>3. (m <= q => a <= b) /\ n <= a /\ u - 1 = b + k
      BY <1>2, <1>4, <3>1 DEF a, b
    <3> QED
      BY <1>1, <1>4, <3>2, <3>3
  <2> QED
    BY <1>1, <1>4, <2>1
<1>6. (((t - 1) * s + k) % n) + 1 = u
  <2>1. t - 1 = q
    BY <1>4
  <2>2. (t - 1) * s + k = u - 1
    BY <1>4, <2>1
  <2>3. (u - 1) % n = u - 1
    <3>1. \A x \in 0..(n - 1) : x % n = x
      BY <1>1
    <3> QED
      BY <1>4, <3>1
  <2> QED
    BY <2>2, <2>3
<1> HIDE DEF t, k
<1>7. Chain[t] = UNION {Units[(((t - 1) * s + j) % n) + 1] : j \in 0..(s - 1)}
  BY <1>5 DEF Chain, m, s, n
<1>8. Units[u] \subseteq Chain[t]
  BY <1>4, <1>6, <1>7
<1> QED
  BY <1>1, <1>3, <1>5, <1>8

(* What a completed alignment has published.                               *)
LEMMA Delivered == ASSUME Safe PROVE AlignedDelivers
<1>1. PrepTypeOK /\ StageTypes /\ Delivers
  BY Types DEF Safe, AlignInv
<1>2. SUFFICES ASSUME report = "completed" PROVE AlignedDelivers
  BY DEF AlignedDelivers
<1>3. /\ final = Chain /\ rows # <<>> /\ request.iterations >= 1 /\ ~touched
      /\ request.live => Len(rows) = Len(request.records) * request.samples
  BY <1>1, <1>2 DEF Delivers
<1>4. Len(Chain) = Turns /\ DOMAIN Chain = 1..Turns /\ Turns \in Nat \ {0}
  <2>1. Len(Chain) = Turns /\ DOMAIN Chain = 1..Turns /\ Turns \in Nat
    BY <1>1, <1>3, ChainTyped
  <2>2. Len(rows) \in Nat \ {0} /\ request.iterations \in Nat \ {0}
    BY <1>1, <1>3, AlignmentAsked DEF PrepTypeOK, StageTypes
  <2> DEFINE each == IF engine = "mlx" THEN 1 ELSE Len(rows)
             all == request.iterations
  <2>3. each \in Nat \ {0} /\ all \in Nat \ {0}
    BY <2>2
  <2>4. Turns = all * each
    BY DEF Turns
  <2> HIDE DEF each, all
  <2>5. all * each # 0
    BY <2>3
  <2> QED
    BY <2>1, <2>4, <2>5
<1>5. Chain # <<>>
  <2>1. Len(<<>>) = 0
    OBVIOUS
  <2> QED
    BY <1>4, <2>1
<1>6. engine # "mlx" => \A n \in 1..request.iterations, i \in DOMAIN rows :
                           final[(n - 1) * Len(rows) + i] = {i}
  BY <1>1, <1>3, EveryIteration
<1>7. Len(Units) <= Turns * Share => \A i \in DOMAIN rows : \E t \in DOMAIN final : i \in final[t]
  BY <1>1, <1>3, <1>4, EveryRecord
<1> QED
  BY <1>3, <1>5, <1>6, <1>7, Zenon DEF AlignedDelivers

(* The types of the whole command: its settings are positive numbers, its  *)
(* rollouts are records (rollouts.py) and its adapters go through sets of  *)
(* the data, whatever models, hosts and records there are.                 *)
THEOREM TypeCorrect == Spec => []TypeOK
<1>1. Safe => TypeOK
  BY DEF Safe
<1> QED
  BY <1>1, Safety, PTL

(* Full context (cli.py): the trainer gets room for the longest record in  *)
(* the tokens of the model it trains, after a fallback to GGUF too.        *)
THEOREM FullContextAlwaysKept == Spec => []FullContextKept
<1>1. Safe => FullContextKept
  BY RoomForRecords DEF Safe
<1> QED
  BY <1>1, Safety, PTL

(* A calibrated run (calibration.py) has the rate that was measured, which *)
(* a native run lowers by as much at least as it shows more examples than  *)
(* the pilot did, and no more than the batches and, but for padding, the   *)
(* context of the pilot that succeeded.                                    *)
THEOREM AlwaysMeasuredShape == Spec => []MeasuredShape
<1>1. Safe => MeasuredShape
  BY DEF Safe, PrepSafe
<1> QED
  BY <1>1, Safety, PTL

(* With more than 10 GiB of memory nothing chosen automatically is refused *)
(* by the checks of the native trainer (llama_gradient.py), but for pilots *)
(* on a CUDA host where automatic devices include an AMD card by Vulkan.   *)
THEOREM LargeHostAlwaysAccepted == Spec => []LargeHostAccepted
<1>1. Safe => LargeHostAccepted
  BY LargeHosts DEF Safe
<1> QED
  BY <1>1, Safety, PTL

(* An alignment that is reported as completed (backends/alignment.py) has  *)
(* published the adapter that went through all optimizer steps in order,   *)
(* on the base that was fingerprinted: with llama.cpp every record once in *)
(* each iteration, with MLX every record if the iterations reach around    *)
(* the data; from live rollouts, every sample of every record.             *)
THEOREM AlwaysAlignedDelivers == Spec => []AlignedDelivers
<1>1. Safe => AlignedDelivers
  BY Delivered
<1> QED
  BY <1>1, Safety, PTL

(* Records that were accepted, as they were or from rollouts, always have  *)
(* advantages when the training asks for them (alignment.py).              *)
THEOREM AdvantagesAlwaysAccepted == Spec => []AdvantagesAccepted
<1>1. Safe => AdvantagesAccepted
  BY DEF Safe, AlignInv, Learns, Accepted, AdvantagesAccepted
<1> QED
  BY <1>1, Safety, PTL
====

---- MODULE Alignment ----
(***************************************************************************)
(* The train command with its stages (cli.py _train, _alignment_stage,     *)
(* backends/alignment.py, backends/rollout.py): fine-tuning, alignment of  *)
(* an adapter, or both, one after the other.  The command is Preparation's *)
(* up to the end of the training; its children are RunLogged's.            *)
(*                                                                         *)
(* An adapter is the sequence of the optimizer steps applied to the source *)
(* adapter, each the places of the records it learns from.                 *)
(***************************************************************************)
EXTENDS Preparation, AlignmentData, RunLogged

ASSUME OneCommand == \E r \in Run : Run = {r}
ASSUME StagesAssumption ==
    \A r \in Requests :
        /\ r.stage \in {"fine-tuning", "alignment", "fine-tune-align"}
        /\ r.type \in Methods \cup {"auto", "none"} /\ r.live \in BOOLEAN
        /\ {r.samples, r.iterations} \subseteq Nat
        /\ r.records \in Seq(Records) /\ r.raw_records \in BOOLEAN

VARIABLES
    method,     \* the method asked for, then the one selected
    rows,       \* the records to align with
    answers,    \* those generated so far
    on,         \* where the rollouts, and then the alignment, compute
    adapter,    \* the adapter that the next step starts from
    final,      \* adapters/gguf or adapters/mlx of the session, <<>> if none
    report,     \* run.json: "none", "aligning", "completed" or "failed"
    touched     \* whether the base has changed since it was fingerprinted

aligning == <<method, rows, answers, on, adapter, final, report, touched>>
children == <<call, task, child, line, expired, outcome>>
vars == <<command, environment, aligning, children>>

Cmd == CHOOSE r \in Run : TRUE
Prepared == UNCHANGED <<request, cache, engine, required, bench, trial, environment>>

Init == /\ PrepInit("start") /\ NoCalls
        /\ method = request.type /\ rows = request.records /\ answers = <<>> /\ on = "cpu"
        /\ adapter = <<>> /\ final = <<>> /\ report = "none" /\ touched = FALSE

Combined == request.stage = "fine-tune-align"

(* The objective of a combined run is settled before the fine-tuning, from *)
(* the records as they are; a preference may be asked for.                 *)
_choose_combined_alignment ==
    LET chosen == load_alignment_dataset(rows, "auto", FALSE)
    IN  IF request.type # "none" THEN Goto("model") /\ UNCHANGED method
        ELSE IF request.raw_records \/ chosen = Invalid THEN Refuse /\ UNCHANGED method
        ELSE /\ method' \in IF _parse_example(rows[1]) = "preference" THEN {"dpo", "orpo"}
                            ELSE {"auto"}
             /\ Goto("model")

_train ==
    /\ step = "start"
    /\ IF request.resume /\ request.stage # "fine-tuning" THEN Refuse /\ UNCHANGED method
       ELSE IF Combined THEN _choose_combined_alignment
       ELSE /\ Goto(IF request.stage = "alignment" THEN "align data" ELSE "model")
            /\ UNCHANGED method
    /\ UNCHANGED <<config, children, rows, answers, on, adapter, final, report, touched>>
    /\ Prepared

(* The second stage starts from its own configuration.                     *)
AlignNext == /\ step = "done" /\ Combined
             /\ Goto("align data")
             /\ required' = 0 /\ config' = Defaults /\ bench' = NoBench /\ trial' = NoTrial
             /\ UNCHANGED <<request, cache, engine, environment, children, aligning>>

(* The records are converted and loaded, and the model is looked for.      *)
_alignment_stage ==
    LET requested == IF method = "none" THEN "auto" ELSE method
        selected == load_alignment_dataset(rows, requested, request.live)
        chosen == IF Combined THEN engine ELSE ChosenEngine
    IN  /\ step = "align data"
        /\ engine' = chosen
        /\ method' = selected
        /\ IF \/ selected = Invalid
              \/ (IF chosen = "mlx" THEN request.mlx ELSE request.gguf_model) = NoModel
           THEN Refuse
           ELSE \/ Goto(IF Automatic THEN "align settings" ELSE "align")
                \/ request.raw_records /\ Refuse
        /\ UNCHANGED <<request, cache, required, bench, config, trial, environment, children,
                       rows, answers, on, adapter, final, report, touched>>

(* Context and batch of the alignment, and the devices it runs on.         *)
StartAlignment ==
    LET context == Most(32, config.context)
        place == Accelerator
    IN  /\ step = "align"
        /\ config' = [config EXCEPT !.context = context,
                                    !.gguf = IF engine = "mlx" THEN @
                                             ELSE DividingBatch(context, @)]
        /\ on' = IF engine = "mlx" THEN "mlx" ELSE place
        /\ IF \/ request.samples < 1 \/ request.iterations < 1
              \/ engine = "mlx" /\ request.accelerator \in {"mps", "vulkan"}
              \/ engine # "mlx" /\ NotEnoughDevices(place, request.multi, Found) /\ place # "cpu"
           THEN Refuse
           ELSE Goto(IF request.live THEN "rollout" ELSE "manifest")
        /\ Prepared
        /\ UNCHANGED <<children, method, rows, answers, adapter, final, report, touched>>

-----------------------------------------------------------------------------
(* Live rollouts: the answers of the policy, every prompt several times.   *)
Wanted == Len(rows) * request.samples
SourceRow(k) == rows[((k - 1) \div request.samples) + 1]
Likeness == -1..1

Step(next) == /\ Goto(next)
              /\ Prepared /\ UNCHANGED config
Calm == UNCHANGED <<method, rows, adapter, final, report, touched>>

TooFewSamples == /\ step = "rollout" /\ ~validate_rollouts(method, request.samples)
                 /\ Refuse
                 /\ Prepared /\ UNCHANGED <<config, children, aligning>>

Rolling == step = "rollout" /\ validate_rollouts(method, request.samples)

(* llama.cpp answers one prompt at a time; a GPU that fails is left for    *)
(* the CPU, for that prompt and the rest.                                  *)
generate_gguf_answers ==
    /\ Rolling /\ engine = "llama.cpp"
    /\ Len(answers) < Wanted
    /\ \/ \E likeness \in Likeness, place \in {on, "cpu"} :
            /\ answers' = Append(answers, _rollout_row(method, SourceRow(Len(answers) + 1), likeness))
            /\ on' = place /\ Step("rollout")
       \/ Step("failed") /\ UNCHANGED <<answers, on>>
    /\ Calm /\ UNCHANGED children

(* MLX answers all of them in one process, within a time limit.            *)
generate_mlx_answers ==
    /\ Rolling /\ engine = "mlx" /\ answers = <<>>
    /\ Launch(Cmd, "rollout")
    /\ Step("rolling")
    /\ Calm /\ UNCHANGED <<answers, on>>

Returns(what) == step = what /\ Returned(Cmd)

MlxAnswers ==
    /\ Returns("rolling")
    /\ \/ /\ outcome[Cmd] = "ok"
          /\ \E likeness \in [1..Wanted -> Likeness] :
                answers' = [k \in 1..Wanted |-> _rollout_row(method, SourceRow(k), likeness[k])]
          /\ Step("rollout")
       \/ Step("failed") /\ UNCHANGED answers
    /\ Calm /\ UNCHANGED on

(* An empty answer is an error; the rows are saved and loaded again, with  *)
(* everything that is asked of records that were not generated.            *)
collect_live_rollouts ==
    /\ step = "rollout" /\ Len(answers) = Wanted
    /\ rows' = answers
    /\ IF load_alignment_dataset(answers, method, FALSE) = Invalid THEN Step("refused")
       ELSE Step("manifest") \/ Step("failed")
    /\ UNCHANGED <<children, method, answers, on, adapter, final, report, touched>>

-----------------------------------------------------------------------------
(* The manifest says "aligning" before the base is fingerprinted, and an   *)
(* error from there to the first reference leaves it saying so.            *)
WriteManifest == /\ step = "manifest"
                 /\ report' = "aligning"
                 /\ Step("fingerprint")
                 /\ UNCHANGED <<children, method, rows, answers, on, adapter, final, touched>>

Fingerprint == /\ step = "fingerprint"
               /\ touched' = FALSE
               /\ Step(IF engine = "mlx" THEN "train mlx" ELSE "advantages")
               /\ UNCHANGED <<children, method, rows, answers, on, adapter, final, report>>

SetupFails == /\ step \in {"fingerprint", "train mlx", "advantages"}
              /\ Step("failed")
              /\ UNCHANGED <<children, aligning>>

NeedsAdvantages == method \in Grouped \cup {"reinforce"}

Advantages == /\ step = "advantages"
              /\ Step(IF NeedsAdvantages /\ reward_advantages(method, rows) = <<>>
                      THEN "failed" ELSE "references")
              /\ UNCHANGED <<children, aligning>>

(* Inside the block that writes "failed".                                  *)
Fails(from) == /\ step \in from
               /\ report' = "failed" /\ Step("failed")
               /\ UNCHANGED <<children, method, rows, answers, on, adapter, final, touched>>

References == /\ step = "references"
              /\ Step("steps")
              /\ UNCHANGED <<children, aligning>>

(* What an optimizer step is made of: a record, or for rloo and grpo with  *)
(* MLX the records of a prompt, in the order of their first ones.          *)
Firsts == InOrder({i \in DOMAIN rows : \A j \in Same(rows, rows[i].prompt) : i <= j}, Len(rows))
Units == IF engine = "mlx" /\ method \in Grouped
         THEN [k \in DOMAIN Firsts |-> Same(rows, rows[Firsts[k]].prompt)]
         ELSE [i \in DOMAIN rows |-> {i}]

(* MLX starts a worker for each CUDA device that shares the batch evenly.  *)
CudaDevices == IF request.accelerator = "cpu" THEN {}
               ELSE {i \in DOMAIN request.host.gpus : request.host.gpus[i].backend = "cuda"}
_resolve_distributed_workers ==
    IF request.multi = "off" THEN 1 ELSE DividingBatch(config.batch, Most(1, Cardinality(CudaDevices)))

(* An MLX step takes a batch over all workers, or a group for each, and    *)
(* there are as many as iterations; a native one takes a record, and every *)
(* iteration goes through all.                                             *)
Share == IF engine # "mlx" THEN 1
         ELSE IF method \in Grouped THEN _resolve_distributed_workers ELSE config.batch
Turns == request.iterations * (IF engine = "mlx" THEN 1 ELSE Len(rows))
Chain == [t \in 1..Turns |->
            UNION {Units[(((t - 1) * Share + k) % Len(Units)) + 1] : k \in 0..(Share - 1)}]
Following == Chain[Len(adapter) + 1]

BeginStep == /\ \/ step = "steps" /\ Len(adapter) < Turns
                \/ /\ step = "train mlx"
                   /\ request.multi = "on" => _resolve_distributed_workers > 1
             /\ Launch(Cmd, "align")
             /\ Step(IF engine = "mlx" THEN "mlx aligning" ELSE "stepping")
             /\ UNCHANGED aligning

(* Mutant: every step starts from the adapter that was given.              *)
SteppedFromSource(done) == <<Following>>

(* The adapter of a step is the next one's start; MLX takes all of them.   *)
Stepped(done) == IF done = "mlx aligning" THEN Chain ELSE Append(adapter, Following)

_native_alignment_step ==
    \E done \in {"stepping", "mlx aligning"} :
        /\ Returns(done)
        /\ \/ /\ outcome[Cmd] = "ok"
              /\ adapter' = Stepped(done)
              /\ Step(IF done = "stepping" THEN "steps" ELSE "finish")
              /\ UNCHANGED report
           \/ report' = "failed" /\ Step("failed") /\ UNCHANGED adapter
        /\ UNCHANGED <<method, rows, answers, on, final, touched>>

AllStepped == /\ step = "steps" /\ Len(adapter) >= Turns
              /\ Step("finish")
              /\ UNCHANGED <<children, aligning>>

(* The last adapter takes its place before it is compared with the source, *)
(* and the base with its fingerprints.                                     *)
_verify_common ==
    /\ step = "finish"
    /\ final' = adapter
    /\ \/ ~touched /\ report' = "completed" /\ Step("publish")
       \/ report' = "failed" /\ Step("failed")
    /\ UNCHANGED <<children, method, rows, answers, on, adapter, touched>>

(* Bundle and merged model; an error here leaves the manifest "completed". *)
PublishAligned == /\ step = "publish"
                  /\ Step("aligned") \/ Step("failed")
                  /\ UNCHANGED <<children, aligning>>

-----------------------------------------------------------------------------
BaseChanges == /\ ~touched /\ report = "aligning"
               /\ touched' = TRUE
               /\ UNCHANGED <<command, environment, children, method, rows, answers, on, adapter,
                              final, report>>

Aligning == \/ _train \/ AlignNext \/ _alignment_stage \/ StartAlignment
            \/ TooFewSamples \/ generate_gguf_answers \/ generate_mlx_answers \/ MlxAnswers
            \/ collect_live_rollouts \/ WriteManifest \/ Fingerprint \/ SetupFails
            \/ Advantages \/ References \/ BeginStep \/ _native_alignment_step \/ AllStepped
            \/ _verify_common \/ PublishAligned \/ Fails({"references", "steps"})

CallStep == Reads(Cmd) \/ TimesOut(Cmd) \/ LogFails(Cmd)

(* Only rollouts have a time limit.                                        *)
Clock == task[Cmd] = "rollout" /\ TimePasses(Cmd)
ChildEnds == (\E status \in {"zero", "nonzero"} : Exits(Cmd, status))

Still == UNCHANGED <<command, environment, aligning>>
Command == \/ _fine_tune /\ UNCHANGED <<aligning, children>>
           \/ Aligning
           \/ CallStep /\ Still
Next == \/ Command
        \/ Elsewhere /\ UNCHANGED <<aligning, children>>
        \/ (Clock \/ Prints(Cmd) \/ ChildEnds \/ Interrupted(Cmd)) /\ Still
        \/ BaseChanges

(* Steps in which other programs work for the command as long as they like. *)
Working == step \in {"scan", "rescan", "trial", "train", "native", "references", "publish"}

(* Time passes, and the command goes on unless another program works.      *)
Fairness == WF_vars(Command /\ ~Working) /\ WF_vars(Clock /\ Still)

Spec == Init /\ [][Next]_vars /\ Fairness

-----------------------------------------------------------------------------
Steps == {"start", "model", "scan", "rescan", "settings", "override", "again", "second",
          "align settings", "probe", "measured", "data", "checks", "trial", "scale", "train",
          "native", "done", "refused", "failed", "align data", "align", "rollout", "rolling",
          "manifest", "fingerprint", "train mlx", "advantages", "references", "steps", "stepping",
          "mlx aligning", "finish", "publish", "aligned"}

TypeOK ==
    /\ PrepTypeOK /\ step \in Steps
    /\ method \in Methods \cup {"auto", "none", Invalid}
    /\ {rows, answers} \subseteq Seq(Records)
    /\ on \in Accelerators \cup {"mlx", Refused}
    /\ {adapter, final} \subseteq Seq(SUBSET Nat)
    /\ report \in {"none", "aligning", "completed", "failed"} /\ touched \in BOOLEAN
    /\ CallsOK({"rollout", "align"})

(* A completed alignment has published the adapter that went through all   *)
(* optimizer steps in order, beginning with the source adapter, on a base  *)
(* that is still the fingerprinted one, with every sample of live records. *)
(* A native one learnt from each record once in every iteration, in order; *)
(* an MLX one from each record if its iterations reach around the data.    *)
AlignedDelivers ==
    report = "completed" =>
        /\ final = Chain /\ Chain # <<>> /\ ~touched
        /\ request.live => Len(rows) = Len(request.records) * request.samples
        /\ engine # "mlx" => \A n \in 1..request.iterations, i \in DOMAIN rows :
                                final[(n - 1) * Len(rows) + i] = {i}
        /\ Len(Units) <= Turns * Share =>
              \A i \in DOMAIN rows : \E t \in DOMAIN final : i \in final[t]

(* Records that were loaded, from the source or from rollouts, are never   *)
(* refused once the manifest says "aligning".                              *)
AdvantagesAccepted ==
    step = "advantages" /\ NeedsAdvantages => reward_advantages(method, rows) # <<>>

(* A command takes finitely many steps, however its pilots, rollouts and   *)
(* retries go, and stops only at its end or where it waits for a child     *)
(* that never ends; a rollout is waited for in vain only if it is silent.  *)
Ends == step \in {"refused", "failed", "aligned"} \/ (step = "done" /\ ~Combined)
Waits == \/ Working
         \/ /\ call[Cmd] = "read" /\ child[Cmd] = "running"
            /\ task[Cmd] = "rollout" => ~line[Cmd]
====

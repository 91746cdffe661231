---- MODULE MlxSession ----
(***************************************************************************)
(* An MLX fine-tuning session: osAi processes that train into one session  *)
(* folder (cli.py _fine_tune, trainer.py train, backends/mlx.py and        *)
(* mlx_vlm.py), each under the output lock, with the processes they start  *)
(* (RunLogged) and the standalone model they publish (MergedModel).  A     *)
(* failed MLX run whose engine was chosen automatically goes on with       *)
(* llama.cpp in the same folder; that training is GgufTraining's subject,  *)
(* and one step here.                                                      *)
(*                                                                         *)
(* Each run has a job of its own, on the same base model: runs on text and *)
(* runs on media keep their data apart in the folder and share the rest.   *)
(*                                                                         *)
(* An adapter is the run, the settings and the base it was trained with;   *)
(* of a checkpoint, and of a native adapter, only the run is told.         *)
(***************************************************************************)
EXTENDS MergedModel, Integers

CONSTANTS NoRun,
          Context,      \* max_seq_length of the run
          Batch,        \* its batch_size
          MultiGpu,     \* multi_gpu: "auto", "on" or "off"
          Requested,    \* distributed_workers, 0 for as many as there are
          Gpus,         \* CUDA devices in the probe's report, 0 on another accelerator
          Jobs,         \* what the runs of the folder may be asked for
          MaxMishaps    \* bound: failures, kills and changes of the base together

ASSUME RunAssumption == NoRun \notin Run /\ NoAdapter # Torn
ASSUME SettingsAssumption == /\ MultiGpu \in {"auto", "on", "off"}
                             /\ {Context, Batch} \subseteq Nat \ {0} /\ {Requested, Gpus} \subseteq Nat
ASSUME JobsAssumption == Jobs \subseteq [Run -> [target : Kinds, media : BOOLEAN, merge : BOOLEAN]]
ASSUME BoundsAssumption == MaxMishaps \in Nat

VARIABLES
    job,        \* what each run is asked for: target, media, merge
    rpc,        \* the step of each run
    mode,       \* "mlx", or "native" after the fallback
    error,      \* the kind of the exception under way
    settings,   \* context and batch of the attempt
    seen,       \* the base fingerprinted before the training
    lock,       \* the owner of .osai.lock
    manifest,   \* run.json: its status, the run it describes, and, when that has
                \* completed, its last settings and the base it found
    data,       \* .internal/mlx-dataset and mlx-vlm-dataset: those that exist
    reserved,   \* whether a run on media has made the folder adapters/mlx
    oomAt,      \* the last attempt in train.log that ran out of memory
    attempts,   \* the adapters in the attempt folders
    adapter,    \* adapters/mlx
    converted,  \* adapters/gguf/adapter.gguf
    deployed,   \* deployment.json: the adapter it describes
    base,       \* a version of the base model's files
    mishaps

runner == <<rpc, mode, error, settings, seen>>
folder == <<data, reserved, oomAt, attempts, adapter, converted, deployed>>
session == <<runner, lock, manifest, folder, base>>
vars == <<process, merging, job, session, mishaps>>

(* Workers share the batch evenly, or there are fewer of them, but never   *)
(* fewer than two if several are insisted on.                              *)
Divisor(w) == Batch % w = 0
Workers == LET most == IF Requested = 0 \/ Requested > Gpus THEN Gpus ELSE Requested
               even == {w \in 1..most : Divisor(w)}
           IN  IF MultiGpu = "off" \/ even = {} THEN 1
               ELSE CHOOSE w \in even : \A v \in even : v <= w
WorkersRefused == MultiGpu = "on" /\ Workers < 2

NoSettings == [context |-> 0, batch |-> 0]
First == [context |-> Context, batch |-> Batch]
AtLeast(low, n) == IF n < low THEN low ELSE n

(* Mutant: the batch is halved without regard to the workers.              *)
LowerHalf(s) ==
    IF s.context > 64 THEN [s EXCEPT !.context = AtLeast(64, @ \div 2)]
    ELSE IF s.batch > Workers THEN [s EXCEPT !.batch = AtLeast(Workers, @ \div 2)]
    ELSE NoSettings

(* _lower_mlx_memory_settings: the context first, then the batch.          *)
Lower(s) ==
    IF s.context > 64 THEN [s EXCEPT !.context = AtLeast(64, @ \div 2)]
    ELSE IF s.batch > Workers
    THEN [s EXCEPT !.batch = AtLeast(Workers, (@ \div (2 * Workers)) * Workers)]
    ELSE NoSettings

Settings == [context : Nat, batch : Nat]
Versions == 0..1
Adapters == [run : Run, part : {"adapter", "checkpoint", "native"}, of : Settings, on : Versions]
ASSUME AdapterAssumption == NoAdapter \notin Adapters /\ Torn \notin Adapters
Trained(r) == [run |-> r, part |-> "adapter", of |-> settings[r], on |-> base]
Part(r, part) == [run |-> r, part |-> part, of |-> NoSettings, on |-> 0]
Checkpoint(r) == Part(r, "checkpoint")

Kind(r) == IF mode[r] = "native" THEN "gguf" ELSE job[r].target
DataKind(r) == IF job[r].media THEN "media" ELSE "text"
Source(r) == IF Kind(r) = "mlx" THEN adapter ELSE converted

Init == /\ NoCalls /\ NoMerge
        /\ job \in Jobs
        /\ rpc = [r \in Run |-> "idle"] /\ mode = [r \in Run |-> "mlx"]
        /\ error = [r \in Run |-> "none"]
        /\ settings = [r \in Run |-> First] /\ seen = [r \in Run |-> 0]
        /\ lock = NoRun
        /\ manifest = [by |-> NoRun, status |-> "none", of |-> NoSettings, on |-> 0]
        /\ data = {} /\ reserved = FALSE /\ oomAt = NoSettings /\ attempts = {}
        /\ adapter = NoAdapter /\ converted = NoAdapter /\ deployed = NoAdapter
        /\ base = 0 /\ mishaps = 0

-----------------------------------------------------------------------------
At(r, pc) == rpc[r] = pc
Goto(r, pc) == rpc' = [rpc EXCEPT ![r] = pc]
Describe(r, status, of, on) == manifest' = [by |-> r, status |-> status, of |-> of, on |-> on]
Mark(r, status) == Describe(r, status, NoSettings, 0)
Mishap == mishaps < MaxMishaps /\ mishaps' = mishaps + 1

(* Steps that touch only the runs, and those that call nobody.             *)
Stays == UNCHANGED <<settings, seen>>
Alone == UNCHANGED <<process, merging, job, base>>
SameFolder == UNCHANGED folder

(* An exception under the lock: "failed" is written, the lock given back,  *)
(* and a run that may fall back does so for want of a dependency or for a  *)
(* failed training, not for any other error.                               *)
Raise(r, kind) == /\ error' = [error EXCEPT ![r] = kind]
                  /\ Goto(r, "fail")

Leave(r, kind) ==
    /\ settings' = [settings EXCEPT ![r] = First] /\ seen' = [seen EXCEPT ![r] = 0]
    /\ \/ /\ Goto(r, "ended")
          /\ UNCHANGED mode
       \/ /\ mode[r] = "mlx" /\ kind \in {"dependency", "training"}
          /\ mode' = [mode EXCEPT ![r] = "native"]
          /\ Goto(r, "preflight")

Start(r) == /\ At(r, "idle")
            /\ Goto(r, "preflight")
            /\ Alone /\ SameFolder /\ Stays
            /\ UNCHANGED <<mode, error, lock, manifest, mishaps>>

(* The manifest is written before the lock is asked for.                   *)
Preflight(r) == /\ At(r, "preflight")
                /\ Mark(r, "preflight")
                /\ Goto(r, "lock")
                /\ Alone /\ SameFolder /\ Stays
                /\ UNCHANGED <<mode, error, lock, mishaps>>

Acquire(r) == /\ rpc[r] \in {"lock", "publish lock"} /\ lock = NoRun
              /\ lock' = r
              /\ Goto(r, IF At(r, "publish lock") THEN "publish"
                         ELSE IF mode[r] = "mlx" THEN "inspect" ELSE "native")
              /\ Alone /\ SameFolder /\ Stays
              /\ UNCHANGED <<mode, error, manifest, mishaps>>

(* A held lock is a TrainingError, outside the block that writes "failed". *)
Refuse(r) == /\ rpc[r] \in {"lock", "publish lock"} /\ lock # NoRun
             /\ Leave(r, "training")
             /\ Alone /\ SameFolder
             /\ UNCHANGED <<error, lock, manifest, mishaps>>

Inspect(r) == /\ At(r, "inspect")
              /\ seen' = [seen EXCEPT ![r] = base]
              /\ Mark(r, "training")
              /\ Goto(r, "probe")
              /\ Alone /\ SameFolder
              /\ UNCHANGED <<mode, error, settings, lock, mishaps>>

InspectFails(r) == /\ At(r, "inspect") /\ Mishap
                   /\ Raise(r, "configuration")
                   /\ Alone /\ SameFolder /\ Stays
                   /\ UNCHANGED <<mode, lock, manifest>>

Probe(r) == /\ At(r, "probe")
            /\ Goto(r, "data")
            /\ Alone /\ SameFolder /\ Stays
            /\ UNCHANGED <<mode, error, lock, manifest, mishaps>>

ProbeFails(r) == /\ At(r, "probe") /\ Mishap
                 /\ Raise(r, "dependency")
                 /\ Alone /\ SameFolder /\ Stays
                 /\ UNCHANGED <<mode, lock, manifest>>

(* Mutant: a prepared data set that is there is taken for this run's.      *)
PrepareAgain(r) == /\ At(r, "data")
                   /\ data' = data \cup {DataKind(r)}
                   /\ reserved' = (reserved \/ job[r].media)
                   /\ oomAt' = NoSettings
                   /\ settings' = [settings EXCEPT ![r] = First]
                   /\ Goto(r, "attempt")
                   /\ Alone
                   /\ UNCHANGED <<mode, error, seen, lock, manifest, mishaps, attempts,
                                  adapter, converted, deployed>>

(* Data of the same kind that an earlier run has prepared are an error, so *)
(* that a folder is trained in once for each kind.  A run on media makes   *)
(* the adapter's folder, or takes the one that is there.  The old log goes,*)
(* but for a run on media after the workers are settled.                   *)
PrepareData(r) ==
    /\ At(r, "data")
    /\ IF DataKind(r) \in data
       THEN Raise(r, "configuration") /\ UNCHANGED <<data, reserved, oomAt, settings>>
       ELSE /\ data' = data \cup {DataKind(r)}
            /\ reserved' = (reserved \/ job[r].media)
            /\ oomAt' = IF WorkersRefused /\ job[r].media THEN oomAt ELSE NoSettings
            /\ settings' = [settings EXCEPT ![r] = First]
            /\ IF WorkersRefused THEN Raise(r, "configuration")
               ELSE Goto(r, "attempt") /\ UNCHANGED error
    /\ Alone
    /\ UNCHANGED <<mode, seen, lock, manifest, mishaps, attempts, adapter, converted, deployed>>

(* The records are invalid, before the folder is made, or cannot be        *)
(* written: what is left of it then blocks the next run too.               *)
PrepareDataFails(r) == /\ At(r, "data") /\ Mishap
                       /\ data' \in {data, data \cup {DataKind(r)}}
                       /\ Raise(r, "configuration")
                       /\ Alone /\ Stays
                       /\ UNCHANGED <<mode, lock, manifest, reserved, oomAt, attempts, adapter,
                                      converted, deployed>>

-----------------------------------------------------------------------------
(* A step of run_logged and nothing else.                                  *)
CallOnly == UNCHANGED <<merging, job, session, mishaps>>

Call(r, from, what) == /\ At(r, from)
                       /\ Launch(r, what)
                       /\ Goto(r, what)
                       /\ SameFolder /\ Stays
                       /\ UNCHANGED <<merging, job, mode, error, lock, manifest, base, mishaps>>

CallFails(r, from, what) == /\ At(r, from) /\ Mishap
                            /\ LaunchFails(r, what)
                            /\ Goto(r, what)
                            /\ SameFolder /\ Stays
                            /\ UNCHANGED <<merging, job, mode, error, lock, manifest, base>>

(* The call is over: the caller goes on, or its exception travels on.      *)
CallReturns(r, what) == /\ At(r, what)
                        /\ Returned(r)
                        /\ UNCHANGED <<job, mode, seen, lock, manifest, base, mishaps>>
CallEnds(r, what) == CallReturns(r, what) /\ SameFolder

(* A trainer saves as it goes: a text model into the folder of its attempt,*)
(* a multimodal one where the finished adapter belongs.  Nobody stops the  *)
(* trainer of an osAi that was killed.                                     *)
TrainerSaves(r) ==
    /\ child[r] = "running" /\ task[r] = "train"
    /\ IF job[r].media
       THEN adapter' = Trained(r) /\ UNCHANGED attempts
       ELSE /\ attempts' = {a \in attempts : a.of # settings[r]} \cup {Trained(r)}
            /\ UNCHANGED adapter
    /\ Alone
    /\ UNCHANGED <<runner, lock, manifest, data, reserved, oomAt, converted, deployed, mishaps>>

(* The message is in the log only if osAi reads it.                        *)
RunsOutOfMemory(r) == /\ task[r] = "train" /\ call[r] = "read"
                      /\ Exits(r, "memory")
                      /\ oomAt' = settings[r]
                      /\ UNCHANGED <<merging, job, runner, lock, manifest, data, reserved, attempts,
                                     adapter, converted, deployed, base, mishaps>>

(* The publisher thread of a running training turns a checkpoint into a    *)
(* model; how, is the subject of Checkpoints.                              *)
PublishCheckpoint(r) ==
    /\ At(r, "train")
    /\ model' = [model EXCEPT !.mlx = [adapter |-> Checkpoint(r), weights |-> Checkpoint(r)]]
    /\ UNCHANGED <<process, stage, previous, checked, job, session, mishaps>>

(* Mutant: any out-of-memory message in the log is this attempt's.         *)
MemoryFailureEver(r) == oomAt # NoSettings

(* Only the output of this attempt is searched for the message.            *)
MemoryFailure(r) == oomAt = settings[r]

(* Automatic settings try a text model again with less, in a new folder;   *)
(* what this attempt has left in its own is not looked at again.           *)
TrainAgain(r) == /\ CallReturns(r, "train") /\ outcome[r] = "training" /\ ~job[r].media
                 /\ MemoryFailure(r) /\ Lower(settings[r]) # NoSettings
                 /\ settings' = [settings EXCEPT ![r] = Lower(settings[r])]
                 /\ attempts' = {a \in attempts : a.of # settings[r]}
                 /\ Goto(r, "attempt")
                 /\ UNCHANGED <<merging, error, data, reserved, oomAt, adapter, converted,
                                deployed>>

TrainingFails(r) == /\ CallEnds(r, "train") /\ outcome[r] # "ok"
                    /\ Raise(r, outcome[r])
                    /\ UNCHANGED <<merging, settings>>

TrainingEnds(r) == /\ CallEnds(r, "train") /\ outcome[r] = "ok"
                   /\ Goto(r, "take")
                   /\ UNCHANGED <<merging, settings, error>>

(* The adapter of the last attempt becomes the adapter of the session, if  *)
(* its folder is not there yet.                                            *)
TakeAdapter(r) ==
    LET mine == {a \in attempts : a.of = settings[r]}
        refused == IF job[r].media THEN adapter = NoAdapter
                   ELSE mine = {} \/ reserved \/ adapter # NoAdapter
    IN  /\ At(r, "take")
        /\ IF refused THEN Raise(r, "training") /\ UNCHANGED <<attempts, adapter>>
           ELSE /\ IF job[r].media THEN UNCHANGED <<attempts, adapter>>
                   ELSE adapter' \in mine /\ attempts' = attempts \ mine
                /\ Goto(r, "losses") /\ UNCHANGED error
        /\ Alone /\ Stays
        /\ UNCHANGED <<mode, lock, manifest, data, reserved, oomAt, converted, deployed, mishaps>>

(* No loss was reported, or one that is not finite.                        *)
NoLoss(r) == /\ At(r, "losses") /\ Mishap
             /\ Raise(r, "training")
             /\ Alone /\ SameFolder /\ Stays
             /\ UNCHANGED <<mode, lock, manifest>>

(* A text model with a test split is evaluated.                            *)
Evaluate(r) == ~job[r].media /\ Call(r, "losses", "evaluate")

SkipEvaluation(r) == /\ At(r, "losses")
                     /\ Goto(r, "convert")
                     /\ Alone /\ SameFolder /\ Stays
                     /\ UNCHANGED <<mode, error, lock, manifest, mishaps>>

Evaluated(r) == /\ CallEnds(r, "evaluate")
                /\ IF outcome[r] = "ok" THEN Goto(r, "convert") /\ UNCHANGED error
                   ELSE Raise(r, outcome[r])
                /\ UNCHANGED <<merging, settings>>

(* A GGUF target gets the adapter in its own format.                       *)
Convert(r) == /\ At(r, "convert")
              /\ converted' = IF job[r].target = "gguf" THEN adapter ELSE converted
              /\ Goto(r, "recheck")
              /\ Alone /\ Stays
              /\ UNCHANGED <<mode, error, lock, manifest, data, reserved, oomAt, attempts, adapter,
                             deployed, mishaps>>

ConvertFails(r) == /\ At(r, "convert") /\ job[r].target = "gguf" /\ Mishap
                   /\ Raise(r, "verification")
                   /\ Alone /\ SameFolder /\ Stays
                   /\ UNCHANGED <<mode, lock, manifest>>

(* The base is fingerprinted again, and must be what it was.               *)
Recheck(r) == /\ At(r, "recheck")
              /\ IF base = seen[r] THEN Goto(r, "publish") /\ UNCHANGED error
                 ELSE Raise(r, "verification")
              /\ Alone /\ SameFolder /\ Stays
              /\ UNCHANGED <<mode, lock, manifest, mishaps>>

-----------------------------------------------------------------------------
(* Publication, the same for MLX runs and, under a lock taken again, for   *)
(* native ones.                                                            *)
MarkPublishing(r) == /\ At(r, "publish")
                     /\ Mark(r, "publishing")
                     /\ Goto(r, "deploy")
                     /\ Alone /\ SameFolder /\ Stays
                     /\ UNCHANGED <<mode, error, lock, mishaps>>

Deploy(r) == /\ At(r, "deploy")
             /\ deployed' = Source(r)
             /\ Goto(r, IF job[r].merge THEN "embed" ELSE "complete")
             /\ Alone /\ Stays
             /\ UNCHANGED <<mode, error, lock, manifest, data, reserved, oomAt, attempts, adapter,
                            converted, mishaps>>

DeployFails(r) == /\ At(r, "deploy") /\ Mishap
                  /\ Raise(r, "verification")
                  /\ Alone /\ SameFolder /\ Stays
                  /\ UNCHANGED <<mode, lock, manifest>>

(* A step of the merge that calls no process.                              *)
MergeStep(r, from, to) == /\ At(r, from)
                          /\ Goto(r, to)
                          /\ SameFolder /\ Stays
                          /\ UNCHANGED <<process, job, mode, error, lock, manifest, base,
                                         mishaps>>

BeginEmbed(r) ==
    /\ MergeStep(r, "embed", IF Kind(r) = "gguf" THEN "to export"
                             ELSE IF model.mlx = NoModel THEN "to verify" ELSE "embedding")
    /\ Embed(Kind(r), Source(r))

EndEmbed(r) == MergeStep(r, "embedding", "to verify") /\ FinishEmbed(Source(r))

(* The backend is not usable any more, or a copy fails.                    *)
MergeFails(r) == /\ rpc[r] \in {"embed", "embedding", "replace", "reembed", "aside", "appear"}
                 /\ Mishap
                 /\ \E kind \in {"dependency", "verification"} : Raise(r, kind)
                 /\ Discard
                 /\ SameFolder /\ Stays
                 /\ UNCHANGED <<process, job, mode, lock, manifest, base>>

(* A TrainingError of the merge becomes a VerificationError.               *)
MergeError(r) == IF outcome[r] = "training" THEN "verification" ELSE outcome[r]

MergeCallFails(r, what) == /\ CallEnds(r, what) /\ outcome[r] # "ok"
                           /\ Raise(r, MergeError(r))
                           /\ Discard
                           /\ UNCHANGED settings

Verified(r) == /\ CallEnds(r, "verify") /\ outcome[r] = "ok"
               /\ Goto(r, "to export")
               /\ VerifyMlx(Source(r))
               /\ UNCHANGED <<settings, error>>

Exported(r) == /\ CallEnds(r, "export") /\ outcome[r] = "ok"
               /\ Goto(r, IF Kind(r) = "gguf" THEN "replace"
                          ELSE IF Under("mlx").weights = NoAdapter THEN "install" ELSE "aside")
               /\ UNCHANGED <<merging, settings, error>>

SetAside(r) == MergeStep(r, "aside", "install") /\ MoveAside

InstallWeights(r) == MergeStep(r, "install", "drop") /\ Install(Source(r))

InstallRaises(r) == /\ At(r, "install") /\ Mishap
                    /\ IF InPlace THEN InstallFails ELSE Discard
                    /\ Raise(r, "verification")
                    /\ SameFolder /\ Stays
                    /\ UNCHANGED <<process, job, mode, lock, manifest, base>>

DropOld(r) == MergeStep(r, "drop", "appear") /\ DropPrevious

ReplaceWeights(r) == MergeStep(r, "replace", "reembed") /\ ReplaceGguf(Source(r))

ReembedAdapter(r) == MergeStep(r, "reembed", "to load") /\ Reembed(Source(r))

Loaded(r) == /\ rpc[r] \in {"load", "load on cpu"} /\ CallEnds(r, rpc[r]) /\ outcome[r] = "ok"
             /\ Goto(r, "appear")
             /\ LoadGguf
             /\ UNCHANGED <<settings, error>>

(* A load that failed on an accelerator is tried once more on the CPU.     *)
LoadAgain(r) == /\ CallEnds(r, "load") /\ outcome[r] = "training"
                /\ Goto(r, "to cpu")
                /\ UNCHANGED <<merging, settings, error>>

Publish(r) == MergeStep(r, "appear", "complete") /\ Appear(Kind(r))

Complete(r) == /\ At(r, "complete")
               /\ Describe(r, "completed", settings[r], seen[r])
               /\ error' = [error EXCEPT ![r] = "none"]
               /\ Goto(r, "release")
               /\ Alone /\ SameFolder /\ Stays
               /\ UNCHANGED <<mode, lock, mishaps>>

(* Mutant: the kind of the error is written for the status.                *)
FailAsKind(r) == /\ At(r, "fail")
                 /\ Mark(r, error[r])
                 /\ Goto(r, "release")
                 /\ Alone /\ SameFolder /\ Stays
                 /\ UNCHANGED <<mode, error, lock, mishaps>>

Fail(r) == /\ At(r, "fail")
           /\ Mark(r, "failed")
           /\ Goto(r, "release")
           /\ Alone /\ SameFolder /\ Stays
           /\ UNCHANGED <<mode, error, lock, mishaps>>

Release(r) == /\ rpc[r] \in {"release", "hand over"}
              /\ lock' = NoRun
              /\ IF At(r, "release") THEN Leave(r, error[r])
                 ELSE Goto(r, "publish lock") /\ UNCHANGED mode /\ Stays
              /\ error' = [error EXCEPT ![r] = "none"]
              /\ Alone /\ SameFolder
              /\ UNCHANGED <<manifest, mishaps>>

(* The native training of the fallback, with its own checkpoints.          *)
NativeTrains(r) ==
    /\ At(r, "native")
    /\ Mark(r, "training")
    /\ converted' = Part(r, "native")
    /\ model' \in {model, [model EXCEPT !.gguf = [adapter |-> Checkpoint(r),
                                                  weights |-> Checkpoint(r)]]}
    /\ Goto(r, "hand over")
    /\ Stays
    /\ UNCHANGED <<process, stage, previous, checked, job, mode, error, lock, data, reserved, oomAt,
                   attempts, adapter, deployed, base, mishaps>>

NativeFails(r) == /\ At(r, "native") /\ Mishap
                  /\ Raise(r, "training")
                  /\ Alone /\ SameFolder /\ Stays
                  /\ UNCHANGED <<mode, lock, manifest>>

-----------------------------------------------------------------------------
Training(r) == \/ Call(r, "attempt", "train")
               \/ TrainAgain(r) \/ TrainingFails(r) \/ TrainingEnds(r)
               \/ TakeAdapter(r) \/ Evaluate(r) \/ SkipEvaluation(r) \/ Evaluated(r)
               \/ Convert(r) \/ Recheck(r)

Merging(r) == \/ BeginEmbed(r) \/ EndEmbed(r) \/ SetAside(r) \/ InstallWeights(r) \/ DropOld(r)
              \/ ReplaceWeights(r) \/ ReembedAdapter(r) \/ Publish(r)
              \/ Call(r, "to verify", "verify") \/ Verified(r)
              \/ Call(r, "to export", "export") \/ Exported(r)
              \/ Call(r, "to load", "load") \/ Call(r, "to cpu", "load on cpu")
              \/ Loaded(r) \/ LoadAgain(r)
              \/ \E what \in {"verify", "export", "load", "load on cpu"} : MergeCallFails(r, what)

Runner(r) == \/ Preflight(r) \/ Acquire(r) \/ Refuse(r) \/ Inspect(r) \/ Probe(r)
             \/ PrepareData(r) \/ Training(r) \/ MarkPublishing(r) \/ Deploy(r) \/ Merging(r)
             \/ Complete(r) \/ Fail(r) \/ Release(r) \/ NativeTrains(r)
             \/ (Reads(r) /\ CallOnly)

Fails(r) == \/ InspectFails(r) \/ ProbeFails(r) \/ PrepareDataFails(r) \/ NoLoss(r)
            \/ ConvertFails(r) \/ DeployFails(r) \/ MergeFails(r) \/ InstallRaises(r)
            \/ NativeFails(r)
            \/ CallFails(r, "attempt", "train")
            \/ (LogFails(r) \/ Interrupted(r)) /\ CallOnly

(* The last thing a trainer does before a good end is to save.             *)
Saved(r) == IF job[r].media THEN adapter # NoAdapter /\ adapter.run = r
            ELSE \E a \in attempts : a.run = r /\ a.of = settings[r]

ChildEnds(r) == /\ \/ Exits(r, "nonzero")
                   \/ Exits(r, "zero") /\ (task[r] = "train" => Saved(r))
                /\ CallOnly

(* Of the other children only the exit matters to osAi, not their lines.   *)
ChildSteps(r) == \/ TrainerSaves(r) \/ RunsOutOfMemory(r)
                 \/ task[r] = "train" /\ Prints(r) /\ CallOnly

(* osAi is killed; its lock is stale from then on (OutputLock), and what   *)
(* it had under construction lies in a folder nobody else looks into.      *)
Kill(r) == /\ rpc[r] \notin {"idle", "ended", "dead"} /\ Mishap
           /\ Killed(r)
           /\ Goto(r, "dead")
           /\ lock' = IF lock = r THEN NoRun ELSE lock
           /\ IF lock = r THEN Discard ELSE UNCHANGED merging
           /\ SameFolder /\ Stays
           /\ UNCHANGED <<job, mode, error, manifest, base>>

BaseChanges == /\ base = 0 /\ Mishap
               /\ base' = 1
               /\ UNCHANGED <<process, merging, job, runner, lock, manifest, folder>>

Next == \/ \E r \in Run : \/ Start(r) \/ Runner(r) \/ Fails(r) \/ ChildEnds(r) \/ ChildSteps(r) \/ Kill(r)
        \/ \E r \in Run : PublishCheckpoint(r)
        \/ BaseChanges

Spec == Init /\ [][Next]_vars

-----------------------------------------------------------------------------
Calls == {"train", "evaluate", "verify", "export", "load", "load on cpu"}
Holding == {"inspect", "probe", "data", "attempt", "take", "losses", "convert", "recheck",
            "publish", "deploy", "embed", "embedding", "to verify", "to export", "replace",
            "reembed", "to load", "to cpu", "aside", "install", "drop", "appear", "complete",
            "fail", "release", "native", "hand over"} \cup Calls
Steps == {"idle", "preflight", "lock", "publish lock", "ended", "dead"} \cup Holding
Errors == {"none", "configuration", "dependency", "training", "verification", "interrupt",
           "error"}

RunsOK == /\ job \in Jobs
          /\ rpc \in [Run -> Steps] /\ mode \in [Run -> {"mlx", "native"}]
          /\ error \in [Run -> Errors]
          /\ settings \in [Run -> Settings] /\ seen \in [Run -> Versions]
          /\ lock \in Run \cup {NoRun}
          /\ manifest \in [by : Run \cup {NoRun},
                           status : {"none", "preflight", "training", "publishing", "completed",
                                     "failed"},
                           of : Settings, on : Versions]

FolderOK == /\ data \subseteq {"text", "media"} /\ reserved \in BOOLEAN
            /\ oomAt \in Settings /\ attempts \subseteq Adapters
            /\ {adapter, converted, deployed} \subseteq Adapters \cup {NoAdapter}
            /\ base \in Versions /\ mishaps \in 0..MaxMishaps

TypeOK == CallsOK(Calls) /\ ModelsOK(Adapters) /\ RunsOK /\ FolderOK

(* At most one MLX trainer of each kind works for a session, the orphaned  *)
(* trainers of killed runs and of failed ones included, and none when one  *)
(* is started.  A trainer on text and one on media may work side by side.  *)
Trains(r) == child[r] = "running" /\ task[r] = "train"
OneTrainer == \A r, s \in Run :
    Trains(r) /\ DataKind(r) = DataKind(s) => ~At(s, "attempt") /\ (Trains(s) => r = s)

(* The adapter of a session is never replaced by that of another run, but  *)
(* for one trained on text, which a run on media replaces.                 *)
AdapterKept ==
    [][adapter # NoAdapter =>
          /\ adapter' # NoAdapter
          /\ \/ adapter'.run = adapter.run
             \/ DataKind(adapter.run) = "text" /\ DataKind(adapter'.run) = "media"]_vars

(* What the manifest calls completed is there: the adapter of that run's   *)
(* last attempt, trained on the base that was fingerprinted, and, if a     *)
(* merged model was asked for, that adapter in it beside weights fused     *)
(* with it, which have passed the test of their format.                    *)
CompletedDelivers ==
    LET r == manifest.by
        product == IF job[r].target = "mlx" THEN adapter ELSE converted
    IN  manifest.status = "completed" /\ mode[r] = "mlx" =>
            /\ adapter # NoAdapter /\ adapter.run = r
            /\ adapter.of = manifest.of /\ adapter.on = manifest.on
            /\ product = adapter /\ deployed = product
            /\ job[r].merge =>
                  /\ model[job[r].target] = [adapter |-> product, weights |-> product]
                  /\ checked[job[r].target] = product

(* Fused MLX weights that exist stay reachable, at their name or moved     *)
(* aside, through every failure and kill of the swap.                      *)
WeightsKept == [][{model.mlx.weights, previous} # {NoAdapter}
                      => {model'.mlx.weights, previous'} # {NoAdapter}]_vars

(* Every attempt gives each of the workers the same share of the batch.    *)
EvenShares == \A r \in Run : settings[r].batch % Workers = 0 /\ settings[r].batch >= Workers

(* Settings are lowered only for an attempt that has itself run out of     *)
(* memory.                                                                 *)
RetryOnlyOnMemory ==
    [][\A r \in Run : At(r, "train") /\ rpc'[r] = "attempt" => child[r] = "memory"]_vars
====

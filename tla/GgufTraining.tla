---- MODULE GgufTraining ----
(***************************************************************************)
(* A GGUF fine-tuning session: the osAi processes that run it, one after   *)
(* the other or at the same time (train_gradient_gguf, then                *)
(* _publish_native_session), and the native trainer each of them starts    *)
(* under the output lock (finetune.cpp), stopped, killed and resumed.      *)
(* How the lock works is OutputLock's subject and how a checkpoint is      *)
(* published that of Checkpoints: here a lock has an owner, and a save is  *)
(* the replacement of the resume snapshot.                                 *)
(*                                                                         *)
(* An input stands for the model, the data and the settings of a run; two  *)
(* inputs give corpora of the same number of records, which is all the     *)
(* native resume state says of its data.  The weights are the number of    *)
(* records they have been trained on.                                      *)
(***************************************************************************)
EXTENDS Integers

CONSTANTS Run,          \* osAi processes
          NoRun,
          Input,        \* model, data and settings
          NoInput,
          Epochs,
          Records,      \* of a corpus, all of them for training (-val-split 0)
          MaxStarts,    \* bound: runs started
          MaxFailures   \* bound: failed saves, failed trainers, failed checks, kills

ASSUME RunAssumption == NoRun \notin Run
ASSUME InputAssumption == NoInput \notin Input
ASSUME SizeAssumption == Epochs \in Nat \ {0} /\ Records \in Nat \ {0}
ASSUME BoundsAssumption == MaxStarts \in Nat /\ MaxFailures \in Nat

VARIABLES
    (* the osAi processes *)
    rpc,        \* the step of each run
    resumes,    \* whether it was started with --resume-session
    input,      \* what it was asked to train
    known,      \* previous_resume: resume-input.json as it was before the lock
    draft,      \* whose manifest it holds in memory while it publishes
    lock,       \* the owner of .osai.lock
    (* the files of the session *)
    manifest,   \* run.json: its status, and the run its contents describe
    settings,   \* resume-input.json
    corpus,     \* train.txt
    snapshot,   \* last.gguf.resume: a position, its weights, and whose they are
    trained,    \* adapter-trained.gguf: the best epoch's weights
    final,      \* adapters/gguf/adapter.gguf
    logged,     \* the epochs reported in train.log
    stopFile,   \* stop.request
    (* the native trainer *)
    tpc,        \* "off", its step, or its exit
    epoch, record, weights,
    lineage,    \* the input that its weights and optimizer state come from
    best,       \* saved_best_adapter
    offset,     \* attempt_offset: epochs reported before this trainer
    (* bounds and history *)
    starts, failures,
    unsaved,    \* whether a save has failed since the trainer's last good one
    late        \* whether this trainer has trained a record after a stop request

runners == <<rpc, resumes, input, known, draft>>
files   == <<settings, corpus, snapshot, trained, final, logged>>
trainer == <<tpc, epoch, record, weights, lineage, best, offset, unsaved, late>>
bounds  == <<starts, failures>>
vars == <<runners, lock, manifest, files, stopFile, trainer, bounds>>

NoSnapshot == [input |-> NoInput, epoch |-> 0, record |-> 0, weights |-> 0]
None == 0                           \* no adapter file: no weights are untrained

Init == /\ rpc = [r \in Run |-> "idle"] /\ resumes = [r \in Run |-> FALSE]
        /\ input = [r \in Run |-> NoInput] /\ known = [r \in Run |-> NoInput]
        /\ draft = [r \in Run |-> NoRun]
        /\ lock = NoRun /\ manifest = [by |-> NoRun, status |-> "none"]
        /\ settings = NoInput /\ corpus = NoInput /\ snapshot = NoSnapshot
        /\ trained = None /\ final = None /\ logged = 0 /\ stopFile = FALSE
        /\ tpc = "off" /\ epoch = 0 /\ record = 0 /\ weights = 0 /\ lineage = NoInput
        /\ best = FALSE /\ offset = 0 /\ unsaved = FALSE /\ late = FALSE
        /\ starts = 0 /\ failures = 0

-----------------------------------------------------------------------------
At(r, pc) == rpc[r] = pc
Goto(r, pc) == rpc' = [rpc EXCEPT ![r] = pc]
Mark(r, status) == manifest' = [by |-> r, status |-> status]
Mishap == failures < MaxFailures /\ failures' = failures + 1

(* Before the lock: what a resume needs is looked for and read, then the   *)
(* manifest is written.                                                    *)
Start(r, i, resume) ==
    /\ At(r, "idle") /\ starts < MaxStarts
    /\ starts' = starts + 1
    /\ resume => snapshot # NoSnapshot /\ settings # NoInput
    /\ resumes' = [resumes EXCEPT ![r] = resume]
    /\ input' = [input EXCEPT ![r] = i]
    /\ known' = [known EXCEPT ![r] = IF resume THEN settings ELSE NoInput]
    /\ Goto(r, "preflight")
    /\ UNCHANGED <<draft, lock, manifest, files, stopFile, trainer, failures>>

(* Other settings than those of the stopped session are refused at once;   *)
(* another model or other data only under the lock.                        *)
Reject(r) == /\ At(r, "preflight") /\ resumes[r] /\ known[r] # input[r]
             /\ Goto(r, "idle")
             /\ UNCHANGED <<resumes, input, known, draft, lock, manifest, files, stopFile, trainer,
                            bounds>>

Preflight(r) == /\ At(r, "preflight")
                /\ Mark(r, "preflight")
                /\ Goto(r, "lock")
                /\ UNCHANGED <<resumes, input, known, draft, lock, files, stopFile, trainer,
                               bounds>>

Acquire(r, from, to) == /\ At(r, from) /\ lock = NoRun
                        /\ lock' = r
                        /\ Goto(r, to)
                        /\ UNCHANGED <<resumes, input, known, draft, manifest, files, stopFile,
                                       trainer, bounds>>

(* A held lock is an error at once, and the refused run ends.              *)
Refuse(r, from) == /\ At(r, from) /\ lock \notin {NoRun, r}
                   /\ Goto(r, "idle")
                   /\ UNCHANGED <<resumes, input, known, draft, lock, manifest, files, stopFile,
                                  trainer, bounds>>

(* Under the lock: every error writes "failed" and gives the lock back.    *)
Fail(r) == /\ Mark(r, "failed")
           /\ Goto(r, "release")

PrepareFails(r) == /\ rpc[r] \in {"mark", "prepare", "record", "launch"} /\ Mishap
                   /\ Fail(r)
                   /\ UNCHANGED <<resumes, input, known, draft, lock, files, stopFile, trainer,
                                  starts>>

MarkTraining(r) == /\ At(r, "mark")
                   /\ Mark(r, "training")
                   /\ Goto(r, "prepare")
                   /\ UNCHANGED <<resumes, input, known, draft, lock, files, stopFile, trainer,
                                  bounds>>

PrepareFresh(r) == /\ At(r, "prepare") /\ ~resumes[r]
                   /\ trained' = None
                   /\ corpus' = input[r]
                   /\ Goto(r, "record")
                   /\ UNCHANGED <<resumes, input, known, draft, lock, manifest, settings,
                                  snapshot, final, logged, stopFile, trainer, bounds>>

RecordSettings(r) == /\ At(r, "record")
                     /\ settings' = input[r]
                     /\ logged' = 0
                     /\ Goto(r, "launch")
                     /\ UNCHANGED <<resumes, input, known, draft, lock, manifest, corpus,
                                    snapshot, trained, final, stopFile, trainer, bounds>>

(* The corpus must be there and have the recorded hash, and the settings   *)
(* must be those read before the lock.                                     *)
PrepareResume(r) ==
    /\ At(r, "prepare") /\ resumes[r]
    /\ trained' = None
    /\ IF corpus = input[r] /\ known[r] = input[r]
       THEN /\ stopFile' = FALSE
            /\ Goto(r, "launch")
            /\ UNCHANGED manifest
       ELSE Fail(r) /\ UNCHANGED stopFile
    /\ UNCHANGED <<resumes, input, known, draft, lock, settings, corpus, snapshot, final,
                   logged, trainer, bounds>>

(* Mutant: the epochs an earlier attempt has reported are counted again.   *)
LaunchWithoutOffset(r) == /\ At(r, "launch")
                          /\ offset' = 0
                          /\ tpc' = "load"
                          /\ Goto(r, "training")
                          /\ UNCHANGED <<resumes, input, known, draft, lock, manifest, files,
                                         stopFile, epoch, record, weights, lineage, best,
                                         unsaved, late, bounds>>

Launch(r) == /\ At(r, "launch")
             /\ offset' = logged
             /\ tpc' = "load"
             /\ Goto(r, "training")
             /\ UNCHANGED <<resumes, input, known, draft, lock, manifest, files, stopFile,
                            epoch, record, weights, lineage, best, unsaved, late, bounds>>

-----------------------------------------------------------------------------
(* The native trainer of the lock's owner.                                 *)

LoadFresh == /\ tpc = "load" /\ ~resumes[lock]
             /\ epoch' = 0 /\ record' = 0 /\ weights' = 0
             /\ lineage' = input[lock]
             /\ best' = FALSE /\ unsaved' = FALSE /\ late' = FALSE
             /\ tpc' = "train"
             /\ UNCHANGED <<runners, lock, manifest, files, stopFile, offset, bounds>>

(* Mutant: a snapshot taken at the end of an epoch repeats that epoch.     *)
LoadSnapshotRepeats ==
    /\ tpc = "load" /\ resumes[lock]
    /\ epoch' = snapshot.epoch /\ record' = snapshot.record % Records
    /\ weights' = snapshot.weights /\ lineage' = snapshot.input
    /\ best' = FALSE /\ unsaved' = FALSE /\ late' = FALSE
    /\ tpc' = "train"
    /\ UNCHANGED <<runners, lock, manifest, files, stopFile, offset, bounds>>

(* A snapshot taken after the last record of an epoch resumes at the next. *)
LoadSnapshot ==
    /\ tpc = "load" /\ resumes[lock]
    /\ LET over == snapshot.record = Records
       IN  /\ epoch' = IF over THEN snapshot.epoch + 1 ELSE snapshot.epoch
           /\ record' = IF over THEN 0 ELSE snapshot.record
    /\ weights' = snapshot.weights
    /\ lineage' = snapshot.input
    /\ best' = FALSE /\ unsaved' = FALSE /\ late' = FALSE
    /\ tpc' = IF snapshot.epoch >= Epochs THEN "failed" ELSE "train"
    /\ UNCHANGED <<runners, lock, manifest, files, stopFile, offset, bounds>>

(* Mutant: one record too many.                                            *)
TrainRecordBeyond == /\ tpc = "train" /\ epoch < Epochs /\ record <= Records
                     /\ record' = record + 1
                     /\ weights' = weights + 1
                     /\ late' = (late \/ stopFile)
                     /\ tpc' = "callback"
                     /\ UNCHANGED <<runners, lock, manifest, files, stopFile, epoch, lineage,
                                    best, offset, unsaved, bounds>>

TrainRecord == /\ tpc = "train" /\ epoch < Epochs /\ record < Records
               /\ record' = record + 1
               /\ weights' = weights + 1
               /\ late' = (late \/ stopFile)
               /\ tpc' = "callback"
               /\ UNCHANGED <<runners, lock, manifest, files, stopFile, epoch, lineage, best,
                              offset, unsaved, bounds>>

(* Mutant: the end of an epoch is no occasion to save.                     *)
MustSaveStopping == stopFile

(* Mutant: a stop request is no occasion to save.                          *)
MustSaveEnding == record = Records

(* osai_record_callback: a save is due for a stop, at the end of an epoch, *)
(* on request, or every five minutes; the last two may come at any record. *)
MustSave == stopFile \/ record = Records

Taken == [input |-> lineage, epoch |-> epoch, record |-> record, weights |-> weights]

SaveRecord == /\ tpc = "callback"
              /\ snapshot' = Taken
              /\ unsaved' = FALSE
              /\ tpc' = IF stopFile THEN "stopped" ELSE "train"
              /\ UNCHANGED <<runners, lock, manifest, settings, corpus, trained, final, logged,
                             stopFile, epoch, record, weights, lineage, best, offset, late,
                             bounds>>

PassRecord == /\ tpc = "callback" /\ ~MustSave
              /\ tpc' = "train"
              /\ UNCHANGED <<runners, lock, manifest, files, stopFile, epoch, record, weights,
                             lineage, best, offset, unsaved, late, bounds>>

(* Mutant: a stop is carried out although its save has failed.             *)
SaveFailsAndStops == /\ tpc = "callback" /\ Mishap
                     /\ snapshot' \in {snapshot, Taken}
                     /\ unsaved' = TRUE
                     /\ tpc' = IF stopFile THEN "stopped" ELSE "train"
                     /\ UNCHANGED <<runners, lock, manifest, settings, corpus, trained, final,
                                    logged, stopFile, epoch, record, weights, lineage, best,
                                    offset, late, starts>>

(* A failed save is reported and the training goes on, a stop included;    *)
(* what fails may be the adapter or the acknowledgment, after the snapshot.*)
SaveFails == /\ tpc = "callback" /\ Mishap
             /\ snapshot' \in {snapshot, Taken}
             /\ unsaved' = TRUE
             /\ tpc' = "train"
             /\ UNCHANGED <<runners, lock, manifest, settings, corpus, trained, final, logged,
                            stopFile, epoch, record, weights, lineage, best, offset, late, starts>>

(* The loss of the epoch is reported, and its adapter kept when that loss  *)
(* is the least this trainer has seen: of its first epoch it always is.    *)
EndEpoch == /\ tpc = "train" /\ epoch < Epochs /\ record = Records
            /\ logged' = logged + 1
            /\ \/ trained' = weights /\ best' = TRUE
               \/ best /\ UNCHANGED <<trained, best>>
            /\ epoch' = epoch + 1
            /\ record' = 0
            /\ UNCHANGED <<runners, lock, manifest, settings, corpus, snapshot, final, stopFile,
                           tpc, weights, lineage, offset, unsaved, late, bounds>>

EndTraining == /\ tpc = "train" /\ epoch = Epochs
               /\ trained' = IF best THEN trained ELSE weights
               /\ tpc' = "ok"
               /\ UNCHANGED <<runners, lock, manifest, settings, corpus, snapshot, final, logged,
                              stopFile, epoch, record, weights, lineage, best, offset, unsaved,
                              late, bounds>>

(* Mutant: the exit status of the trainer is not looked at.                *)
TrainerFailsUnnoticed == /\ tpc \in {"load", "train", "callback"} /\ Mishap
                         /\ tpc' = "ok"
                         /\ UNCHANGED <<runners, lock, manifest, files, stopFile, epoch, record,
                                        weights, lineage, best, offset, unsaved, late, starts>>

TrainerFails == /\ tpc \in {"load", "train", "callback"} /\ Mishap
                /\ tpc' = "failed"
                /\ UNCHANGED <<runners, lock, manifest, files, stopFile, epoch, record, weights,
                               lineage, best, offset, unsaved, late, starts>>

Trainer == \/ LoadFresh \/ LoadSnapshot \/ TrainRecord \/ SaveRecord \/ PassRecord
           \/ EndEpoch \/ EndTraining

-----------------------------------------------------------------------------
(* What the run makes of the trainer's exit.                               *)

Reap(r) == At(r, "training") /\ tpc' = "off"

TrainingStopped(r) ==
    /\ tpc = "stopped" /\ Reap(r)
    /\ Mark(r, IF stopFile /\ snapshot # NoSnapshot THEN "stopped" ELSE "failed")
    /\ Goto(r, "release")
    /\ UNCHANGED <<resumes, input, known, draft, lock, files, stopFile, epoch, record, weights,
                   lineage, best, offset, unsaved, late, bounds>>

(* Out of memory in a fresh run: again from the start, in a smaller        *)
(* context, with the resume settings lowered likewise.                     *)
RetryLowerContext(r) ==
    /\ tpc = "failed" /\ ~resumes[r] /\ Reap(r)
    /\ settings' = input[r]
    /\ trained' = None
    /\ Goto(r, "launch")
    /\ UNCHANGED <<resumes, input, known, draft, lock, manifest, corpus, snapshot, final, logged,
                   stopFile, epoch, record, weights, lineage, best, offset, unsaved, late, bounds>>

TrainingFailed(r) ==
    /\ tpc = "failed" /\ Reap(r)
    /\ Fail(r)
    /\ UNCHANGED <<resumes, input, known, draft, lock, files, stopFile, epoch, record, weights,
                   lineage, best, offset, unsaved, late, bounds>>

(* The trainer must have reported the loss of every epoch.                 *)
Reported == logged - offset

Collect(r) ==
    /\ tpc = "ok" /\ Reap(r)
    /\ IF Reported = Epochs
       THEN /\ final' = trained /\ trained' = None
            /\ Goto(r, "verify")
            /\ UNCHANGED manifest
       ELSE Fail(r) /\ UNCHANGED <<final, trained>>
    /\ UNCHANGED <<resumes, input, known, draft, lock, settings, corpus, snapshot, logged,
                   stopFile, epoch, record, weights, lineage, best, offset, unsaved, late, bounds>>

VerifyFails(r) == /\ At(r, "verify") /\ Mishap
                  /\ Fail(r)
                  /\ UNCHANGED <<resumes, input, known, draft, lock, files, stopFile, trainer,
                                 starts>>

Complete(r) == /\ At(r, "verify")
               /\ Mark(r, "completed")
               /\ Goto(r, "clean")
               /\ UNCHANGED <<resumes, input, known, draft, lock, files, stopFile, trainer,
                              bounds>>

RemoveCorpus(r) == /\ At(r, "clean")
                   /\ corpus' = NoInput
                   /\ Goto(r, "unlock")
                   /\ UNCHANGED <<resumes, input, known, draft, lock, manifest, settings,
                                  snapshot, trained, final, logged, stopFile, trainer, bounds>>

Release(r) == /\ \/ At(r, "release") /\ Goto(r, "idle")
                 \/ At(r, "unlock") /\ Goto(r, "read")
              /\ lock' = NoRun
              /\ UNCHANGED <<resumes, input, known, draft, manifest, files, stopFile, trainer,
                             bounds>>

(* Publication: the manifest is read back, the lock taken anew, and what   *)
(* was read is written with the status of the publication.                 *)
ReadManifest(r) == /\ At(r, "read")
                   /\ draft' = [draft EXCEPT ![r] = manifest.by]
                   /\ Goto(r, "relock")
                   /\ UNCHANGED <<resumes, input, known, lock, manifest, files, stopFile,
                                  trainer, bounds>>

MarkPublishing(r) == /\ At(r, "publish")
                     /\ Mark(draft[r], "publishing")
                     /\ Goto(r, "merge")
                     /\ UNCHANGED <<resumes, input, known, draft, lock, files, stopFile,
                                    trainer, bounds>>

EndPublication(r) == /\ At(r, "merge")
                     /\ \/ Mark(draft[r], "completed") /\ UNCHANGED failures
                        \/ Mark(draft[r], "failed") /\ Mishap
                     /\ Goto(r, "release")
                     /\ UNCHANGED <<resumes, input, known, draft, lock, files, stopFile,
                                    trainer, starts>>

-----------------------------------------------------------------------------
AskStop == /\ ~stopFile
           /\ stopFile' = TRUE
           /\ UNCHANGED <<runners, lock, manifest, files, trainer, bounds>>

(* The process is killed; its trainer dies at its next line of output, and *)
(* its lock can be taken over.                                             *)
Kill(r) == /\ ~At(r, "idle") /\ Mishap
           /\ Goto(r, "idle")
           /\ lock' = IF lock = r THEN NoRun ELSE lock
           /\ tpc' = IF lock = r THEN "off" ELSE tpc
           /\ UNCHANGED <<resumes, input, known, draft, manifest, files, stopFile, epoch, record,
                          weights, lineage, best, offset, unsaved, late, starts>>

Prepare(r) == Reject(r) \/ Preflight(r) \/ PrepareFails(r) \/ MarkTraining(r) \/ PrepareFresh(r)
                \/ RecordSettings(r) \/ PrepareResume(r) \/ Launch(r)
Conclude(r) == TrainingStopped(r) \/ TrainingFailed(r) \/ Collect(r) \/ Complete(r)
                 \/ RemoveCorpus(r) \/ Release(r)
Publish(r) == ReadManifest(r) \/ MarkPublishing(r) \/ EndPublication(r)
Lock(r) == \/ Acquire(r, "lock", "mark") \/ Refuse(r, "lock")
           \/ Acquire(r, "relock", "publish") \/ Refuse(r, "relock")

Runner(r) == Prepare(r) \/ Conclude(r) \/ Publish(r) \/ Lock(r)

Next == \/ \E r \in Run :
              \/ \E i \in Input, resume \in BOOLEAN : Start(r, i, resume)
              \/ Runner(r) \/ RetryLowerContext(r) \/ VerifyFails(r) \/ Kill(r)
        \/ Trainer \/ SaveFails \/ TrainerFails
        \/ AskStop

Spec == Init /\ [][Next]_vars

-----------------------------------------------------------------------------
Weights == 0..(Epochs * Records)
Steps == {"idle", "preflight", "lock", "mark", "prepare", "record", "launch", "training",
          "verify", "clean", "unlock", "release", "read", "relock", "publish", "merge"}

RunsOK ==
    /\ rpc \in [Run -> Steps] /\ resumes \in [Run -> BOOLEAN]
    /\ input \in [Run -> Input \cup {NoInput}] /\ known \in [Run -> Input \cup {NoInput}]
    /\ draft \in [Run -> Run \cup {NoRun}] /\ lock \in Run \cup {NoRun}
    /\ starts \in 0..MaxStarts /\ failures \in 0..MaxFailures

FilesOK ==
    /\ manifest \in [by : Run \cup {NoRun},
                     status : {"none", "preflight", "training", "stopped", "failed",
                               "completed", "publishing"}]
    /\ settings \in Input \cup {NoInput} /\ corpus \in Input \cup {NoInput}
    /\ snapshot \in [input : Input \cup {NoInput}, epoch : 0..Epochs - 1, record : 0..Records,
                     weights : Weights]
    /\ trained \in Weights /\ final \in Weights /\ logged \in Nat

TrainerOK ==
    /\ tpc \in {"off", "load", "train", "callback", "stopped", "failed", "ok"}
    /\ epoch \in 0..Epochs /\ record \in 0..Records /\ weights \in Weights
    /\ lineage \in Input \cup {NoInput} /\ offset \in Nat

TypeOK == RunsOK /\ FilesOK /\ TrainerOK /\ {stopFile, best, unsaved, late} \subseteq BOOLEAN

Trains == tpc \in {"train", "callback", "stopped", "ok"}
Position(e, n) == e * Records + n

(* README.md:440 "saves optimizer state and dataset position [...] for     *)
(* exact resume": however often a training is stopped, killed, retried and *)
(* resumed, its weights have seen each record of each epoch up to its      *)
(* position exactly once, in the trainer and in the snapshot.              *)
ExactPosition == /\ Trains => weights = Position(epoch, record)
                 /\ snapshot.weights = Position(snapshot.epoch, snapshot.record)

(* A trainer that stops on request has saved all it has trained, and       *)
(* leaves the corpus and the settings it was asked for, unless it was      *)
(* resumed: then the settings are those it read before it had the lock,    *)
(* and may have been replaced since.  The manifest says "stopped" only     *)
(* when a resume finds its three files.                                    *)
StoppedIsResumable ==
    /\ tpc = "stopped" => /\ snapshot.weights = weights
                          /\ corpus = input[lock]
                          /\ settings = input[lock] \/ resumes[lock]
    /\ manifest.status = "stopped" => /\ snapshot # NoSnapshot
                                      /\ corpus # NoInput /\ settings # NoInput

(* A kill or a failure costs the work of one epoch at most, unless a save  *)
(* has failed.                                                             *)
LossBounded == Trains /\ ~unsaved => weights <= snapshot.weights + Records

(* What is collected from a trainer that has ended well was trained to the *)
(* last record, and the adapter delivered is one of a whole epoch.         *)
WholeEpochs == {n * Records : n \in 1..Epochs}

DeliversWhole == /\ tpc = "ok" => weights = Epochs * Records
                 /\ \A r \in Run : rpc[r] \in {"verify", "clean", "unlock"}
                                       => final \in WholeEpochs

(* A training that was never resumed is not turned down for the number of  *)
(* epochs its log reports, however often it was retried.                   *)
FreshRunCounts == tpc = "ok" /\ ~resumes[lock] => Reported = Epochs

(* cli.py:176 "continue a stopped GGUF fine-tuning session from its exact  *)
(* native checkpoint": nor is one that was resumed and has trained the     *)
(* rest of its records.                                                    *)
ResumeCounts == tpc = "ok" => Reported = Epochs

(* llama_gradient.py:406 "model, data, or training settings differ from    *)
(* the exact resume checkpoint": the checkpoint that training goes on from *)
(* was made with the input of this run.                                    *)
ResumesOwnCheckpoint == Trains => lineage = input[lock]

(* A stop request costs one more record at most, unless the save fails:    *)
(* then the trainer goes on, and tries again at the next record.           *)
StopsPromptly == [][TrainRecord /\ late => unsaved]_vars

-----------------------------------------------------------------------------
(* What makes the invariants inductive.  LockOwner: a run between two      *)
(* steps of a session holds the lock, and a trainer runs only for it.      *)
(* Epoch: where in an epoch each step of the trainer can be.  Own: the     *)
(* files are those of the run that holds the lock.                         *)
Holding == {"mark", "prepare", "record", "launch", "training", "verify", "clean", "unlock",
            "release", "publish", "merge"}

LockOwner == /\ \A r \in Run : rpc[r] \in Holding <=> lock = r
             /\ \A r \in Run : rpc[r] = "training" => tpc # "off"
             /\ tpc # "off" => lock \in Run /\ rpc[lock] = "training"

Epoch == /\ tpc \in {"callback", "stopped"} => epoch < Epochs /\ record > 0
         /\ Trains /\ epoch = Epochs => record = 0
         /\ tpc = "ok" => epoch = Epochs

Own == /\ \A r \in Run : rpc[r] # "idle" =>
              /\ input[r] \in Input
              /\ resumes[r] => settings # NoInput /\ snapshot # NoSnapshot
       /\ \A r \in Run : rpc[r] \in {"record", "launch", "training"} => corpus = input[r]
       /\ \A r \in Run : rpc[r] \in {"launch", "training"} =>
              settings = input[r] \/ resumes[r]
       /\ \A r \in Run :
              rpc[r] \in {"prepare", "record", "launch", "training", "verify", "clean", "unlock"}
                  => manifest.status # "stopped"

(* What a trainer has not saved is within the epoch it is in.              *)
LossWithin ==
    Trains /\ ~unsaved =>
        /\ weights <= snapshot.weights + record
        /\ tpc = "train" /\ record = Records => weights <= snapshot.weights

BestIsWhole == /\ Trains /\ best => trained \in WholeEpochs
               /\ tpc = "ok" => trained \in WholeEpochs

(* A fresh trainer has reported the epochs it has ended.                   *)
LogCounts == /\ tpc = "load" => logged = offset
             /\ Trains => \/ logged - offset = epoch
                          \/ resumes[lock]

LateUnsaved == /\ Trains /\ late => stopFile
               /\ tpc = "train" /\ late => unsaved

PositionInv == TypeOK /\ LockOwner /\ Epoch /\ ExactPosition
SessionInv == PositionInv /\ Own /\ StoppedIsResumable
TrainerInv == PositionInv /\ LossWithin /\ BestIsWhole /\ DeliversWhole /\ LogCounts /\ LateUnsaved
====

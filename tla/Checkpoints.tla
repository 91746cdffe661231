---- MODULE Checkpoints ----
(***************************************************************************)
(* Checkpoints of a running fine-tuning: the trainer process that saves    *)
(* the adapter and acknowledges save requests (finetune.cpp for GGUF,      *)
(* checkpoints.py LatestCheckpoint for MLX), and the publisher thread of   *)
(* the osAi process that turns each saved adapter into a fused model and   *)
(* serves a manual export (checkpoints.py, CheckpointPublisher).  The two  *)
(* share only files, and each replace, stat or read of one is a step.      *)
(*                                                                         *)
(* Saves are numbered: a number stands for the adapter of that save, and   *)
(* for the (size, mtime) signature the publisher compares.                 *)
(***************************************************************************)
EXTENDS Naturals

CONSTANTS Kind,         \* "gguf" or "mlx"
          Stop,         \* the generation "stop" the native trainer writes
          MaxRequests,  \* bound: save requests, each with a new generation
          MaxSaves,     \* bound: saves of all runs together
          MaxRuns,      \* bound: how often training is started or resumed
          MaxFailures   \* bound: failed saves and failed publications

ASSUME KindAssumption == Kind \in {"gguf", "mlx"}
ASSUME StopAssumption == Stop \notin Nat
ASSUME BoundsAssumption == {MaxRequests, MaxSaves, MaxRuns, MaxFailures} \subseteq Nat

VARIABLES
    (* the trainer process *)
    tpc,        \* "train", the step of a save, or how the process ended
    saving,     \* the save under way: its generation and what follows it
    served,     \* osai_checkpoint.generation / LatestCheckpoint.generation
    poll,       \* native: "due" once next_poll has passed; each record arms it anew
    (* the files of a checkpoint; 0 is a missing one *)
    own,        \* the trainer's own copy: last.gguf.resume / adapters.safetensors
    latest,     \* the adapter the publisher watches
    config,     \* MLX: whether adapter_config.json is beside it
    ack,        \* last.ack, with the save that wrote it
    (* the files of the desktop application *)
    request,    \* checkpoint.request
    stopFile,   \* stop.request
    exportReq,  \* checkpoint-export.json: the generation to export
    (* the published folders *)
    bundle,     \* outputs/<kind>: the embedded adapter and the merged weights
    target,     \* the exported folder
    previous,   \* MLX: the merged weights that were moved aside last
    backup,     \* the exported folder that was moved aside last
    (* the publisher thread *)
    ppc,        \* the step of _publish_if_new, or "wait", "done", "dead"
    stopEvent,  \* set by __exit__, once run_logged is over
    last,       \* whether this is the pass after stop_event
    cur,        \* the signature found at the start of the pass
    snap,       \* the adapter copied for this pass
    gen,        \* what _generation has read of last.ack
    moved,      \* whether this swap has moved something aside, to come back if it fails
    sig,        \* self.signature
    failed,     \* self.failed_signature
    recent,     \* whether that failure is less than thirty seconds old
    (* bounds and history *)
    saves, runs, failures,
    overclaimed,\* whether a "checkpoint model ready" line named a save the model lacks
    dropped     \* whether a failed swap has also failed to roll back

trainer   == <<tpc, saving, served, poll>>
saved     == <<own, latest, config, ack>>
asked     == <<request, stopFile, exportReq>>
published == <<bundle, target, previous, backup>>
publisher == <<ppc, stopEvent, last, cur, snap, gen, moved, sig, failed, recent>>
history   == <<saves, runs, failures, overclaimed, dropped>>
vars == <<trainer, saved, asked, published, publisher, history>>

None == 0                                   \* no generation: an automatic save
Generation == 0..MaxRequests \cup {Stop}
Acknowledgment == [gen : Generation, save : 0..MaxSaves]
Model == [adapter : 0..MaxSaves, merged : 0..MaxSaves]
Missing == [adapter |-> 0, merged |-> 0]    \* a folder that does not exist
Ended == {"ended", "stopped", "starved", "crashed"}

Init == /\ tpc = "train" /\ saving = [gen |-> None, then |-> "train"] /\ served = None
        /\ poll = "due"
        /\ own = 0 /\ latest = 0 /\ config = FALSE /\ ack = [gen |-> None, save |-> 0]
        /\ request = None /\ stopFile = FALSE /\ exportReq = None
        /\ bundle = Missing /\ target = Missing
        /\ previous = 0 /\ backup = Missing /\ moved = FALSE
        /\ ppc = "look" /\ stopEvent = FALSE /\ last = FALSE /\ cur = 0 /\ snap = 0
        /\ gen = [gen |-> None, save |-> 0] /\ sig = 0 /\ failed = 0 /\ recent = FALSE
        /\ saves = 0 /\ runs = 1 /\ failures = 0
        /\ overclaimed = FALSE /\ dropped = FALSE

-----------------------------------------------------------------------------
(* The trainer.  A request is pending until it has been served.  The MLX   *)
(* trainer looks for one at every update.  The native one does so at a     *)
(* record that comes a second or more after the one before: each record    *)
(* puts the next look off by a second, whether or not it has looked.       *)

Pending == {request} \ {None, served}
Seen == IF poll = "due" THEN Pending ELSE {}
Stopping == Kind = "gguf" /\ stopFile

Begin(g, then) == /\ tpc = "train" /\ saves < MaxSaves
                  /\ tpc' = "own"
                  /\ saving' = [gen |-> g, then |-> then]
                  /\ poll' = IF Kind = "gguf" THEN "armed" ELSE poll
                  /\ saves' = saves + 1
                  /\ UNCHANGED <<served, saved, asked, published, publisher,
                                 runs, failures, overclaimed, dropped>>

(* Mutant: a request is looked for only beside an earlier checkpoint.      *)
SaveRequestedLater == /\ own # 0 /\ ~Stopping
                      /\ \E g \in Seen, then \in {"train", "ended"} : Begin(g, then)

(* A requested save, or one that is due: every five minutes, at the end of *)
(* an epoch, every --save-every updates, at the end of the training.       *)
SaveRequested == /\ ~Stopping
                 /\ \E g \in Seen, then \in {"train", "ended"} : Begin(g, then)

SaveDue == /\ ~Stopping /\ Seen = {}
           /\ \E then \in {"train", "ended"} : Begin(None, then)

SaveStopping == /\ Stopping
                /\ \E g \in IF Seen = {} THEN {Stop} ELSE Seen : Begin(g, "stopped")

(* A record of the native training after which nothing is saved.           *)
PassRecord == /\ Kind = "gguf" /\ tpc = "train" /\ ~Stopping /\ Seen = {}
              /\ poll' = "armed"
              /\ UNCHANGED <<tpc, saving, served, saved, asked, published, publisher, history>>

(* A second without a record, which during a save makes no difference yet. *)
SecondPasses == /\ poll # "due" /\ tpc = "train"
                /\ poll' = "due"
                /\ UNCHANGED <<tpc, saving, served, saved, asked, published, publisher,
                               history>>

(* Mutant: the copy is numbered one save ahead.                            *)
SaveOwnAhead == /\ tpc = "own"
                /\ own' = saves + 1
                /\ tpc' = "output"
                /\ UNCHANGED <<saving, served, poll, latest, config, ack, asked, published,
                               publisher, history>>

(* Mutant: a failed replacement of the resume copy goes unnoticed.         *)
SaveOwnUnchecked == /\ tpc = "own"
                    /\ own' \in {own, saves}
                    /\ tpc' = "output"
                    /\ UNCHANGED <<saving, served, poll, latest, config, ack, asked, published,
                                   publisher, history>>

SaveOwn == /\ tpc = "own"
           /\ own' = saves
           /\ tpc' = "output"
           /\ UNCHANGED <<saving, served, poll, latest, config, ack, asked, published, publisher,
                          history>>

SaveOutput == /\ tpc = "output"
              /\ latest' = saves
              /\ tpc' = IF Kind = "mlx" THEN "config" ELSE "ack"
              /\ UNCHANGED <<saving, served, poll, own, config, ack, asked, published, publisher,
                             history>>

SaveConfig == /\ tpc = "config"
              /\ config' = TRUE
              /\ tpc' = "ack"
              /\ UNCHANGED <<saving, served, poll, own, latest, ack, asked, published, publisher,
                             history>>

(* Mutant: the trainer does not remember which request it has served.      *)
SaveAckForgets == /\ tpc = "ack"
                  /\ ack' = IF saving.gen = None THEN ack
                            ELSE [gen |-> saving.gen, save |-> saves]
                  /\ tpc' = saving.then
                  /\ UNCHANGED <<saving, served, poll, own, latest, config, asked, published,
                                 publisher, history>>

SaveAck == /\ tpc = "ack"
           /\ ack' = IF saving.gen = None THEN ack ELSE [gen |-> saving.gen, save |-> saves]
           /\ served' = IF saving.gen # None /\ saving.gen # Stop THEN saving.gen ELSE served
           /\ tpc' = saving.then
           /\ UNCHANGED <<saving, poll, own, latest, config, asked, published, publisher, history>>

(* The native trainer goes on after a failed save; the MLX one dies of it. *)
SaveFails == /\ tpc \in {"own", "output", "config", "ack"} /\ failures < MaxFailures
             /\ failures' = failures + 1
             /\ tpc' = CASE Kind = "mlx"            -> "crashed"
                         [] saving.then = "ended"   -> "ended"
                         [] OTHER                   -> "train"
             /\ UNCHANGED <<saving, served, poll, saved, asked, published, publisher,
                            saves, runs, overclaimed, dropped>>

(* Out of memory, in a step of the training or at the start of a save.     *)
TrainerStarves == /\ tpc \in {"train", "own"}
                  /\ tpc' = "starved"
                  /\ UNCHANGED <<saving, served, poll, saved, asked, published, publisher,
                                 history>>

(* A loss that is not finite, a kill.                                      *)
TrainerDies == /\ tpc \notin Ended
               /\ tpc' = "crashed"
               /\ UNCHANGED <<saving, served, poll, saved, asked, published, publisher, history>>

FinishSave == SaveOwn \/ SaveOutput \/ SaveConfig \/ SaveAck
Trainer == SaveRequested \/ SaveDue \/ SaveStopping \/ PassRecord \/ SecondPasses \/ FinishSave

-----------------------------------------------------------------------------
(* The publisher thread runs _publish_if_new again and again, and once     *)
(* more after the trainer has ended; a pass that is over waits a second.   *)

PassOver == IF last THEN "done" ELSE "wait"

(* Mutant: an adapter whose publication failed is never tried again.       *)
SkipFailed == latest \in {0, sig, failed} \/ (Kind = "mlx" /\ ~config)

Skip == latest \in {0, sig} \/ (latest = failed /\ recent) \/ (Kind = "mlx" /\ ~config)

Look == /\ ppc = "look"
        /\ ppc' = IF Skip THEN PassOver ELSE "copy"
        /\ cur' = IF Skip THEN cur ELSE latest
        /\ UNCHANGED <<trainer, saved, asked, published, stopEvent, last, snap, gen, moved, sig,
                       failed, recent, history>>

Copy == /\ ppc = "copy"
        /\ snap' = latest
        /\ ppc' = IF bundle = Missing THEN "create" ELSE "merge"
        /\ UNCHANGED <<trainer, saved, asked, published, stopEvent, last, cur, gen, moved, sig,
                       failed, recent, history>>

(* A new bundle is built aside and appears with one rename.                *)
CreateBundle == /\ ppc = "create"
                /\ bundle' = [adapter |-> snap, merged |-> snap]
                /\ ppc' = "restat"
                /\ UNCHANGED <<trainer, saved, asked, target, previous, backup, stopEvent, last,
                               cur, snap, gen, moved, sig, failed, recent, history>>

(* Mutant: the embedded adapter of an existing bundle is left as it was.   *)
UpdateMergedOnly == /\ ppc = "merge" /\ Kind = "gguf"
                    /\ bundle' = [bundle EXCEPT !.merged = snap]
                    /\ ppc' = "restat"
                    /\ UNCHANGED <<trainer, saved, asked, target, previous, backup, stopEvent,
                                   last, cur, snap, gen, moved, sig, failed, recent, history>>

(* An existing one gets new merged weights, then the embedded adapter.     *)
(* GGUF weights are one file, which is replaced; MLX weights are a folder, *)
(* which moves aside, to a name of its own, for the new one.               *)
UpdateMerged == /\ ppc = "merge" /\ Kind = "gguf"
                /\ bundle' = [bundle EXCEPT !.merged = snap]
                /\ ppc' = "adapter"
                /\ UNCHANGED <<trainer, saved, asked, target, previous, backup, stopEvent, last,
                               cur, snap, gen, moved, sig, failed, recent, history>>

MoveWeightsAside == /\ ppc = "merge" /\ Kind = "mlx"
                    /\ moved' = (bundle.merged # 0)
                    /\ previous' = IF bundle.merged = 0 THEN previous ELSE bundle.merged
                    /\ bundle' = [bundle EXCEPT !.merged = 0]
                    /\ ppc' = "weights"
                    /\ UNCHANGED <<trainer, saved, asked, target, backup, stopEvent, last, cur,
                                   snap, gen, sig, failed, recent, history>>

InstallWeights == /\ ppc = "weights"
                  /\ bundle' = [bundle EXCEPT !.merged = snap]
                  /\ previous' = IF moved THEN 0 ELSE previous
                  /\ ppc' = "adapter"
                  /\ UNCHANGED <<trainer, saved, asked, target, backup, stopEvent, last, cur,
                                 snap, gen, moved, sig, failed, recent, history>>

UpdateAdapter == /\ ppc = "adapter"
                 /\ bundle' = [bundle EXCEPT !.adapter = snap]
                 /\ ppc' = "restat"
                 /\ UNCHANGED <<trainer, saved, asked, target, previous, backup, stopEvent, last,
                                cur, snap, gen, moved, sig, failed, recent, history>>

(* A newer adapter may have been written: the next pass publishes that one.*)
Restat == /\ ppc = "restat"
          /\ ppc' = IF latest = cur THEN "generation" ELSE PassOver
          /\ UNCHANGED <<trainer, saved, asked, published, stopEvent, last, cur, snap, gen, moved,
                         sig, failed, recent, history>>

ReadGeneration == /\ ppc = "generation"
                  /\ gen' = ack
                  /\ ppc' = "request"
                  /\ UNCHANGED <<trainer, saved, asked, published, stopEvent, last, cur, snap,
                                 moved, sig, failed, recent, history>>

ReadExportRequest ==
    /\ ppc = "request"
    /\ ppc' = IF gen.gen # None /\ exportReq = gen.gen THEN "aside" ELSE "ready"
    /\ UNCHANGED <<trainer, saved, asked, published, stopEvent, last, cur, snap, gen, moved, sig,
                   failed, recent, history>>

(* Mutant: the previous export is deleted instead of moved aside.          *)
MoveAsideDeletes == /\ ppc = "aside"
                    /\ target' = Missing /\ moved' = FALSE
                    /\ ppc' = "install"
                    /\ UNCHANGED <<trainer, saved, asked, bundle, previous, backup, stopEvent,
                                   last, cur, snap, gen, sig, failed, recent, history>>

(* The bundle has been copied next to the target, which nobody else writes *)
(* to: the previous export moves aside, to a name of its own, and the copy *)
(* takes the target's.  What a killed run has left aside stays there.      *)
MoveAside == /\ ppc = "aside"
             /\ moved' = (target # Missing)
             /\ backup' = IF target = Missing THEN backup ELSE target
             /\ target' = Missing
             /\ ppc' = "install"
             /\ UNCHANGED <<trainer, saved, asked, bundle, previous, stopEvent, last, cur, snap,
                            gen, sig, failed, recent, history>>

Install == /\ ppc = "install"
           /\ target' = bundle
           /\ ppc' = "unlink"
           /\ UNCHANGED <<trainer, saved, asked, bundle, previous, backup, stopEvent, last, cur,
                          snap, gen, moved, sig, failed, recent, history>>

(* The finally clause of _manual_export.                                   *)
DeleteBackup == backup' = IF moved THEN Missing ELSE backup

UnlinkRequest == /\ ppc = "unlink"
                 /\ exportReq' = None
                 /\ DeleteBackup
                 /\ ppc' = "ready"
                 /\ UNCHANGED <<trainer, saved, request, stopFile, bundle, target, previous,
                                stopEvent, last, cur, snap, gen, moved, sig, failed, recent,
                                history>>

Ready == /\ ppc = "ready"
         /\ overclaimed' = (overclaimed \/ gen.save > bundle.adapter)
         /\ sig' = cur
         /\ failed' = 0
         /\ ppc' = PassOver
         /\ UNCHANGED <<trainer, saved, asked, published, stopEvent, last, cur, snap, gen, moved,
                        recent, saves, runs, failures, dropped>>

(* Mutant: the clean-up after an error removes the existing bundle too.    *)
PublishFailsAndCleans ==
    /\ ppc \in {"copy", "create", "merge", "adapter"} /\ failures < MaxFailures
    /\ failures' = failures + 1
    /\ failed' = cur /\ recent' = TRUE
    /\ ppc' = PassOver
    /\ bundle' = Missing
    /\ UNCHANGED <<trainer, saved, asked, target, previous, backup, stopEvent, last, cur, snap,
                   gen, moved, sig, saves, runs, overclaimed, dropped>>

(* The swap of the weights is rolled back; when that fails too, they stay  *)
(* where they are, aside.                                                  *)
SwapWeightsBack == /\ ppc = "weights" /\ moved
                   /\ bundle' = [bundle EXCEPT !.merged = previous]
                   /\ previous' = 0
                   /\ UNCHANGED <<target, backup, dropped>>

(* So is that of an export, but when that fails too, the copy that was     *)
(* moved aside is deleted as well.                                         *)
SwapBack == /\ ppc = "install"
            /\ target' = IF moved THEN backup ELSE Missing
            /\ DeleteBackup
            /\ UNCHANGED <<bundle, previous, dropped>>

SwapLost == /\ ppc = "install" /\ moved
            /\ DeleteBackup
            /\ dropped' = TRUE
            /\ UNCHANGED <<bundle, previous, target>>

KeepExport == /\ ppc = "unlink"
              /\ DeleteBackup
              /\ UNCHANGED <<bundle, previous, target, dropped>>

(* Any step of a publication may raise.                                    *)
PublishFails ==
    /\ ppc \in {"copy", "create", "merge", "weights", "adapter", "request", "aside", "install",
                "unlink"}
    /\ failures < MaxFailures
    /\ failures' = failures + 1
    /\ failed' = cur /\ recent' = TRUE
    /\ ppc' = PassOver
    /\ \/ SwapWeightsBack \/ SwapBack \/ SwapLost \/ KeepExport
       \/ ppc \notin {"install", "unlink"} /\ UNCHANGED <<published, dropped>>
    /\ UNCHANGED <<trainer, saved, asked, stopEvent, last, cur, snap, gen, moved, sig, saves, runs,
                   overclaimed>>

(* Mutant: the thread ends at the stop event, without a last pass.         *)
WakeToEnd == /\ ppc = "wait"
             /\ ppc' = IF stopEvent THEN "done" ELSE "look"
             /\ UNCHANGED <<trainer, saved, asked, published, stopEvent, last, cur, snap, gen,
                            moved, sig, failed, recent, history>>

(* Mutant: the thread does not notice the stop event.                      *)
WakeForEver == /\ ppc = "wait"
               /\ ppc' = "look"
               /\ UNCHANGED <<trainer, saved, asked, published, stopEvent, last, cur, snap, gen,
                              moved, sig, failed, recent, history>>

(* The wait of one second ends, at once when stop_event is set.            *)
Wake == /\ ppc = "wait"
        /\ ppc' = "look"
        /\ last' = stopEvent
        /\ UNCHANGED <<trainer, saved, asked, published, stopEvent, cur, snap, gen, moved, sig,
                       failed, recent, history>>

(* __exit__, when run_logged has returned or raised.                       *)
SetStopEvent == /\ tpc \in Ended /\ ppc # "dead" /\ ~stopEvent
                /\ stopEvent' = TRUE
                /\ UNCHANGED <<trainer, saved, asked, published, ppc, last, cur, snap, gen, moved,
                               sig, failed, recent, history>>

CoolDown == /\ recent
            /\ recent' = FALSE
            /\ UNCHANGED <<trainer, saved, asked, published, ppc, stopEvent, last, cur, snap,
                           gen, moved, sig, failed, history>>

UpdateBundle == UpdateMerged \/ MoveWeightsAside \/ InstallWeights \/ UpdateAdapter

Publisher == \/ Look \/ Copy \/ CreateBundle \/ UpdateBundle \/ Restat \/ ReadGeneration
             \/ ReadExportRequest \/ MoveAside \/ Install \/ UnlinkRequest \/ Ready \/ Wake

-----------------------------------------------------------------------------
(* The desktop application: it asks for a save with a value it has not     *)
(* used before, for the export of that save, or for a stop.                *)
AskSave == /\ request < MaxRequests
           /\ request' = request + 1
           /\ UNCHANGED <<trainer, saved, stopFile, exportReq, published, publisher, history>>

AskExport == /\ request # None /\ exportReq # request
             /\ exportReq' = request
             /\ UNCHANGED <<trainer, saved, request, stopFile, published, publisher, history>>

AskStop == /\ Kind = "gguf" /\ ~stopFile
           /\ stopFile' = TRUE
           /\ UNCHANGED <<trainer, saved, request, exportReq, published, publisher, history>>

(* The machine goes down, or both processes are killed.                    *)
Crash == /\ ppc \notin {"done", "dead"}
         /\ ppc' = "dead"
         /\ tpc' = IF tpc \in Ended THEN tpc ELSE "crashed"
         /\ UNCHANGED <<saving, served, poll, saved, asked, published, stopEvent, last, cur, snap,
                        gen, moved, sig, failed, recent, history>>

(* A new trainer that reads last.ack, and a publisher that remembers       *)
(* nothing: a GGUF session is resumed, which removes a stop request, or    *)
(* the same run tries again with less memory, for MLX in a new folder.     *)
Restart == /\ runs < MaxRuns
           /\ runs' = runs + 1
           /\ tpc' = "train" /\ served' = ack.gen /\ poll' = "due"
           /\ own' = IF Kind = "mlx" THEN 0 ELSE own
           /\ ppc' = "look" /\ stopEvent' = FALSE /\ last' = FALSE /\ cur' = 0
           /\ sig' = 0 /\ failed' = 0 /\ recent' = FALSE
           /\ UNCHANGED <<saving, latest, config, ack, request, exportReq, published, snap, gen,
                          moved, saves, failures, overclaimed, dropped>>

Resume == /\ tpc \in {"stopped", "starved", "crashed"} /\ ppc \in {"done", "dead"}
          /\ Kind = "gguf" /\ own # 0
          /\ stopFile' = FALSE
          /\ Restart

Retry == /\ tpc = "starved" /\ ppc = "done"
         /\ Restart
         /\ UNCHANGED stopFile

Next == \/ Trainer \/ SaveFails \/ TrainerStarves \/ TrainerDies
        \/ Publisher \/ PublishFails \/ CoolDown \/ SetStopEvent
        \/ AskSave \/ AskExport \/ AskStop
        \/ Crash \/ Resume \/ Retry

(* The statements of a save follow one another, the trainer saves for a    *)
(* request it has seen and for a stop, the publisher is a running thread,  *)
(* thirty seconds pass, and run_logged returns once its child has ended.   *)
(* That a native record ever takes a second is not promised, nor is any    *)
(* automatic save.                                                         *)
Fairness == /\ WF_vars(FinishSave)
            /\ WF_vars(SaveRequested \/ SaveStopping)
            /\ WF_vars(Publisher)
            /\ WF_vars(CoolDown)
            /\ WF_vars(SetStopEvent)

Spec == Init /\ [][Next]_vars /\ Fairness

-----------------------------------------------------------------------------
FilesOK == /\ own \in 0..MaxSaves /\ latest \in 0..MaxSaves /\ ack \in Acknowledgment
           /\ request \in 0..MaxRequests /\ exportReq \in 0..MaxRequests
           /\ bundle \in Model /\ target \in Model /\ backup \in Model
           /\ previous \in 0..MaxSaves

ProcessesOK ==
    /\ tpc \in {"train", "own", "output", "config", "ack"} \cup Ended
    /\ saving \in [gen : Generation, then : {"train", "stopped", "ended"}]
    /\ served \in Generation /\ poll \in {"due", "armed"}
    /\ ppc \in {"look", "copy", "create", "merge", "weights", "adapter", "restat", "generation",
                "request", "aside", "install", "unlink", "ready", "wait", "done", "dead"}
    /\ cur \in 0..MaxSaves /\ snap \in 0..MaxSaves /\ gen \in Acknowledgment
    /\ sig \in 0..MaxSaves /\ failed \in 0..MaxSaves
    /\ saves \in 0..MaxSaves /\ runs \in 0..MaxRuns \cup {1} /\ failures \in 0..MaxFailures

FlagsOK == {config, stopFile, stopEvent, last, moved, recent, overclaimed, dropped}
               \subseteq BOOLEAN

TypeOK == FilesOK /\ ProcessesOK /\ FlagsOK

(* An acknowledged save is on disk, in the copy a resume starts from and   *)
(* in the adapter others read, whatever crash or failed save follows; and  *)
(* the native resume state is never older than the adapter that is         *)
(* published.                                                              *)
SavedBeforeAcked == ack.save <= latest /\ (Kind = "gguf" => latest <= own)

(* A request is answered by one save: its generation is never acknowledged *)
(* again for a later one, by the same trainer or by the next, except       *)
(* across the "stop" that has overwritten the acknowledgment.              *)
ServedOnce == [][ack' # ack => ack'.gen # ack.gen \/ ack'.gen = Stop]_vars

(* Between two passes, the weights of the fused model are those of the     *)
(* adapter embedded beside them, unless the pass failed or was killed; an  *)
(* exported folder is never taken from a half-updated model.               *)
PublishedInStep ==
    /\ ppc \in {"wait", "done"} /\ failed = 0 => bundle.adapter = bundle.merged
    /\ target.adapter = target.merged

(* When the publisher is through, the model holds the last adapter the     *)
(* trainer saved, unless its publication has failed.                       *)
InStep == bundle = [adapter |-> latest, merged |-> latest]

FinalModelInStep ==
    ppc = "done" /\ latest \notin {0, failed} /\ (Kind = "mlx" => config) => InStep

(* checkpoints.py:123 "A newer adapter may have been written while fusion  *)
(* was running.  Publish that one before acknowledging a checkpoint        *)
(* request": the model announced for a generation holds its save.          *)
ReadyHoldsSave == ~overclaimed

(* What takes the name of the embedded adapter, of the fused weights or of *)
(* an export is never of an older save than what had that name before,     *)
(* also when that had been moved aside for it, by this run or by one that  *)
(* was killed then, and also when a swap is rolled back.                   *)
NeverBack == [][/\ bundle'.adapter >= bundle.adapter
                /\ bundle'.merged # 0 =>
                       bundle'.merged >= bundle.merged /\ bundle'.merged >= previous
                /\ target' # Missing =>
                       target'.merged >= target.merged /\ target'.merged >= backup.merged]_vars

(* A previous export survives the swap with its successor, at its name or  *)
(* moved aside, whatever fails or crashes, unless the rollback fails too.  *)
ExportKept == [][{target, backup} # {Missing} /\ ~dropped' => {target', backup'} # {Missing}]_vars

(* A saved adapter is published, also after an earlier failure, unless a   *)
(* newer one takes its place, both processes are killed, or the thread has *)
(* ended with the publication of this very adapter failed.                 *)
CatchesUp ==
    \A v \in 1..MaxSaves :
        latest = v ~> \/ InStep \/ latest # v \/ ppc = "dead"
                      \/ ppc = "done" /\ (failed = v \/ (Kind = "mlx" /\ ~config))

(* The osAi process is never held up by its publisher: once the trainer    *)
(* is gone, the thread makes its last pass and ends.                       *)
PublisherEnds == tpc \in Ended ~> ppc \in {"done", "dead"}

(* README.md:434 "A request written to checkpoint.request in the session   *)
(* folder also saves at the next optimizer step": a request is served as   *)
(* long as the trainer runs, after a failed save too.  The native trainer  *)
(* may leave one only if it never comes to look again, since records that  *)
(* follow each other in less than a second put its look off.               *)
RequestServed ==
    \A g \in 1..MaxRequests :
        (request = g /\ served # g)
            ~> \/ served = g \/ request # g \/ tpc \in Ended \/ saves = MaxSaves
               \/ [](poll # "due")

-----------------------------------------------------------------------------
(* What makes the two invariants inductive.  SaveOrder: how far the save   *)
(* under way has come.  PassOrder: what each step of a pass may rely on; a *)
(* model left half-updated by a crash is found by a publisher that has     *)
(* published nothing yet, so that it cannot skip it.                       *)
SaveOrder == /\ own <= saves /\ latest <= saves
             /\ tpc = "output" => own = saves
             /\ tpc \in {"config", "ack"} => latest = saves

Updating == {"create", "merge", "weights", "adapter"}
Updated == {"restat", "generation", "request", "aside", "install", "unlink", "ready"}
Passing == {"copy"} \cup Updating \cup Updated
Even(folder) == folder.adapter = folder.merged

PassOrder == /\ ppc \in Updated => Even(bundle)
             /\ ppc = "adapter" => bundle.merged = snap
             /\ ppc = "look" /\ failed = 0 /\ sig # 0 => Even(bundle)
             /\ latest = 0 => bundle = Missing
             /\ Kind = "mlx" /\ ~config => bundle = Missing
             /\ ppc \in Passing => latest # 0 /\ cur # 0 /\ (Kind = "mlx" => config)
             /\ Even(backup)

CheckpointInv == TypeOK /\ SavedBeforeAcked /\ SaveOrder /\ PublishedInStep /\ PassOrder

(* What the other theorems rest on.  StopOrder: the last pass follows the  *)
(* end of the trainer, after which no adapter comes.  SnapOrder: how the   *)
(* adapter a pass has seen, copied and published relate to the latest one, *)
(* and that the one remembered as published is.  AsideOrder: what has been *)
(* moved aside is no newer than what took its place.  SwapOrder: which     *)
(* folders exist during the swap of an export.  ServeOrder: which          *)
(* generations the trainer has served.                                     *)
StopOrder == /\ stopEvent => tpc \in Ended
             /\ last => stopEvent
             /\ ppc = "done" => last

SnapOrder == /\ sig <= latest /\ bundle.adapter <= latest /\ bundle.merged <= latest
             /\ latest = sig /\ sig # 0 => InStep
             /\ ppc \in Passing => sig < cur /\ cur <= latest /\ (last => cur = latest)
             /\ ppc \in Updating =>
                    /\ bundle.adapter <= snap /\ bundle.merged <= snap
             /\ ppc \in Updating \cup {"restat"} => cur <= snap /\ snap <= latest
             /\ ppc \in Updated => bundle = [adapter |-> snap, merged |-> snap]
             /\ ppc \in Updated \ {"restat"} => snap = cur

AsideOrder == /\ previous <= latest
              /\ bundle.merged # 0 => previous <= bundle.merged
              /\ ppc \in Updating => previous <= snap
              /\ ppc = "weights" => bundle.merged = 0
              /\ target.merged <= bundle.adapter /\ backup.merged <= bundle.adapter
              /\ target # Missing => backup.merged <= target.merged

SwapOrder == /\ ppc = "install" => target = Missing
             /\ ppc = "unlink" => target # Missing

ServeOrder == /\ ack.gen \in {served, Stop}
              /\ tpc \in {"own", "output", "config", "ack"} =>
                     saving.gen \in {None, Stop} \/ saving.gen # served

OrderInv == /\ StopOrder /\ SnapOrder /\ FinalModelInStep /\ AsideOrder /\ SwapOrder
            /\ ServeOrder
====

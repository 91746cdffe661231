---- MODULE Checkpoints_proofs ----
(***************************************************************************)
(* Proofs about Checkpoints for both model kinds and any bounds: an        *)
(* acknowledged save is durable, the fused model and its embedded adapter  *)
(* agree between the passes of the publisher and at its end hold the last  *)
(* one saved, and neither a model nor an export goes back or gets lost.    *)
(***************************************************************************)
EXTENDS Checkpoints, TLAPS

(* The steps of the trainer and of the application.                        *)
Others == Trainer \/ SaveFails \/ TrainerStarves \/ TrainerDies \/ AskSave \/ AskExport \/ AskStop

(* The bounds, one by one. *)
LEMMA Bounds == /\ MaxRequests \in Nat /\ MaxSaves \in Nat
                /\ MaxRuns \in Nat /\ MaxFailures \in Nat
BY BoundsAssumption

(* A new session has no file and has made no save.                         *)
LEMMA InitCheckpointInv == Init => CheckpointInv
<1> SUFFICES ASSUME Init PROVE CheckpointInv
  OBVIOUS
<1> USE Bounds, KindAssumption, StopAssumption DEF Init, None, Missing
<1>1. ack \in Acknowledgment /\ gen \in Acknowledgment
  BY DEF Acknowledgment, Generation
<1>2. bundle \in Model /\ target \in Model /\ backup \in Model
  BY DEF Model
<1>3. saving \in [gen : Generation, then : {"train", "stopped", "ended"}]
  BY DEF Generation
<1>4. FilesOK /\ ProcessesOK
  BY <1>1, <1>2, <1>3 DEF FilesOK, ProcessesOK, Ended, Generation
<1>5. FlagsOK
  BY DEF FlagsOK
<1>6. SavedBeforeAcked /\ SaveOrder /\ PublishedInStep /\ PassOrder
  BY DEF SavedBeforeAcked, SaveOrder, PublishedInStep, PassOrder, Even, Updated, Updating,
         Passing
<1>7. QED
  BY <1>4, <1>5, <1>6 DEF CheckpointInv, TypeOK

-----------------------------------------------------------------------------
(* The flags of both sides are set and cleared, and never anything else.   *)
LEMMA StepFlags == ASSUME FlagsOK, [Next]_vars PROVE FlagsOK'
<1> USE DEF FlagsOK
<1>1. ASSUME Trainer \/ SaveFails \/ TrainerStarves \/ TrainerDies PROVE FlagsOK'
  BY <1>1
  DEF Trainer, FinishSave, SaveRequested, SaveDue, SaveStopping, PassRecord,
      SecondPasses, Begin, SaveOwn, SaveOutput, SaveConfig, SaveAck, SaveFails,
      TrainerStarves, TrainerDies, saved, asked, published, publisher, history
<1>2. ASSUME AskSave \/ AskExport \/ AskStop \/ Crash \/ Resume \/ Retry PROVE FlagsOK'
  BY <1>2
  DEF AskSave, AskExport, AskStop, Crash, Resume, Retry, Restart, saved, asked, publisher, history
<1>3. ASSUME Ready PROVE FlagsOK'
  <2>1. overclaimed' \in BOOLEAN
    BY <1>3 DEF Ready
  <2>2. QED
    BY <1>3, <2>1 DEF Ready, saved, asked
<1>4. ASSUME Wake \/ SetStopEvent \/ CoolDown \/ PublishFails PROVE FlagsOK'
  BY <1>4 DEF Wake, SetStopEvent, CoolDown, PublishFails, SwapWeightsBack, SwapBack, SwapLost,
              KeepExport, saved, asked, history
<1>5. ASSUME Publisher, ~Ready, ~Wake PROVE FlagsOK'
  BY <1>5
  DEF Publisher, Look, Copy, CreateBundle, UpdateBundle, UpdateMerged, MoveWeightsAside,
    InstallWeights, UpdateAdapter, Restat, ReadGeneration,
      ReadExportRequest, MoveAside, Install, UnlinkRequest, saved, asked, history
<1>6. CASE UNCHANGED vars
  BY <1>6 DEF vars, saved, asked, publisher, history
<1>7. QED
  BY <1>1, <1>2, <1>3, <1>4, <1>5, <1>6 DEF Next

(* Every step of the trainer keeps the types of the files and processes.   *)
LEMMA TrainerTypes ==
    ASSUME FilesOK, ProcessesOK, Trainer \/ SaveFails \/ TrainerStarves \/ TrainerDies
    PROVE  FilesOK' /\ ProcessesOK'
<1> USE Bounds, KindAssumption, StopAssumption DEF FilesOK, ProcessesOK, Ended, None
<1>1. ASSUME NEW g \in Generation, NEW then \in {"train", "stopped", "ended"}, Begin(g, then)
      PROVE  FilesOK' /\ ProcessesOK'
  <2>1. saves + 1 \in 0..MaxSaves
    BY <1>1 DEF Begin
  <2>2. saving' \in [gen : Generation, then : {"train", "stopped", "ended"}]
    BY <1>1 DEF Begin
  <2>3. QED
    BY <1>1, <2>1, <2>2 DEF Begin, saved, asked, published, publisher
<1>2. Pending \cup {None, Stop} \subseteq Generation
  BY DEF Pending, Generation
<1>3. ASSUME SaveOwn PROVE FilesOK' /\ ProcessesOK'
  BY <1>3 DEF SaveOwn, asked, published, publisher, history
<1>4. ASSUME SaveOutput PROVE FilesOK' /\ ProcessesOK'
  BY <1>4 DEF SaveOutput, asked, published, publisher, history
<1>5. ASSUME SaveConfig PROVE FilesOK' /\ ProcessesOK'
  BY <1>5 DEF SaveConfig, asked, published, publisher, history
<1>6. ASSUME SaveAck PROVE FilesOK' /\ ProcessesOK'
  <2>1. ack' \in Acknowledgment /\ served' \in Generation
    BY <1>6 DEF SaveAck, Acknowledgment
  <2>2. tpc' \in {"train", "stopped", "ended"}
    BY <1>6 DEF SaveAck
  <2>3. QED
    BY <1>6, <2>1, <2>2 DEF SaveAck, asked, published, publisher, history
<1>7. ASSUME SaveFails PROVE FilesOK' /\ ProcessesOK'
  BY <1>7 DEF SaveFails, saved, asked, published, publisher
<1>8. ASSUME TrainerStarves \/ TrainerDies PROVE FilesOK' /\ ProcessesOK'
  BY <1>8 DEF TrainerStarves, TrainerDies, saved, asked, published, publisher, history
<1>9. ASSUME PassRecord \/ SecondPasses PROVE FilesOK' /\ ProcessesOK'
  BY <1>9 DEF PassRecord, SecondPasses, saved, asked, published, publisher, history
<1>10. Seen \subseteq Pending
  BY DEF Seen
<1>11. ASSUME SaveRequested \/ SaveDue \/ SaveStopping PROVE FilesOK' /\ ProcessesOK'
  BY <1>1, <1>2, <1>10, <1>11 DEF SaveRequested, SaveDue, SaveStopping
<1>12. QED
  BY <1>3, <1>4, <1>5, <1>6, <1>7, <1>8, <1>9, <1>11
  DEF Trainer, FinishSave

(* So does every step of the publisher.                                    *)
LEMMA PublisherTypes ==
    ASSUME FilesOK, ProcessesOK, Publisher \/ PublishFails \/ CoolDown \/ SetStopEvent
    PROVE  FilesOK' /\ ProcessesOK'
<1> USE Bounds DEF FilesOK, ProcessesOK, PassOver, trainer, saved, asked, published, history
<1>1. ASSUME Look \/ Copy \/ Restat \/ ReadGeneration \/ ReadExportRequest \/ Wake
      PROVE  FilesOK' /\ ProcessesOK'
  BY <1>1 DEF Look, Copy, Restat, ReadGeneration, ReadExportRequest, Wake
<1>2. ASSUME CreateBundle PROVE FilesOK' /\ ProcessesOK'
  <2>1. bundle' \in Model
    BY <1>2 DEF CreateBundle, Model
  <2>2. QED
    BY <1>2, <2>1 DEF CreateBundle
<1>3. ASSUME UpdateMerged PROVE FilesOK' /\ ProcessesOK'
  <2>1. bundle' \in Model
    BY <1>3 DEF UpdateMerged, Model
  <2>2. QED
    BY <1>3, <2>1 DEF UpdateMerged
<1>4. ASSUME UpdateAdapter PROVE FilesOK' /\ ProcessesOK'
  <2>1. bundle' \in Model
    BY <1>4 DEF UpdateAdapter, Model
  <2>2. QED
    BY <1>4, <2>1 DEF UpdateAdapter
<1>m. ASSUME MoveWeightsAside \/ InstallWeights PROVE FilesOK' /\ ProcessesOK'
  <2>1. bundle' \in Model /\ previous' \in 0..MaxSaves
    BY <1>m DEF MoveWeightsAside, InstallWeights, Model
  <2>2. QED
    BY <1>m, <2>1 DEF MoveWeightsAside, InstallWeights
<1>5. Missing \in Model
  BY DEF Missing, Model
<1>6. ASSUME MoveAside \/ Install PROVE FilesOK' /\ ProcessesOK'
  BY <1>5, <1>6 DEF MoveAside, Install
<1>7. ASSUME UnlinkRequest PROVE FilesOK' /\ ProcessesOK'
  BY <1>5, <1>7 DEF UnlinkRequest, DeleteBackup, None
<1>8. ASSUME Ready PROVE FilesOK' /\ ProcessesOK'
  BY <1>8 DEF Ready
<1>9. ASSUME PublishFails PROVE FilesOK' /\ ProcessesOK'
  <2>0. ASSUME SwapWeightsBack PROVE bundle' \in Model /\ previous' \in 0..MaxSaves
    BY <2>0 DEF SwapWeightsBack, Model
  <2>1. /\ bundle' \in Model /\ target' \in Model /\ backup' \in Model
        /\ previous' \in 0..MaxSaves
    BY <1>5, <1>9, <2>0
    DEF PublishFails, SwapWeightsBack, SwapBack, SwapLost, KeepExport, DeleteBackup
  <2>2. failed' \in 0..MaxSaves /\ failures' \in 0..MaxFailures /\ ppc' \in {"done", "wait"}
    BY <1>9 DEF PublishFails
  <2>3. QED
    BY <1>9, <2>1, <2>2 DEF PublishFails
<1>10. ASSUME CoolDown PROVE FilesOK' /\ ProcessesOK'
  BY <1>10 DEF CoolDown
<1>11. ASSUME SetStopEvent PROVE FilesOK' /\ ProcessesOK'
  BY <1>11 DEF SetStopEvent
<1>12. QED
  BY <1>1, <1>2, <1>3, <1>4, <1>m, <1>6, <1>7, <1>8, <1>9, <1>10, <1>11
  DEF Publisher, UpdateBundle

(* And every step from outside: a request, a crash, a new run.             *)
LEMMA OutsideTypes ==
    ASSUME FilesOK, ProcessesOK, AskSave \/ AskExport \/ AskStop \/ Crash \/ Resume \/ Retry
    PROVE  FilesOK' /\ ProcessesOK'
<1> USE Bounds DEF FilesOK, ProcessesOK, saved, published, publisher, history, None
<1>1. ASSUME AskSave PROVE FilesOK' /\ ProcessesOK'
  BY <1>1 DEF AskSave, trainer
<1>2. ASSUME AskExport \/ AskStop PROVE FilesOK' /\ ProcessesOK'
  BY <1>2 DEF AskExport, AskStop, trainer
<1>3. ASSUME Crash PROVE FilesOK' /\ ProcessesOK'
  BY <1>3 DEF Crash, asked, Ended
<1>4. ASSUME Restart PROVE FilesOK' /\ ProcessesOK'
  BY <1>4 DEF Restart, Acknowledgment
<1>5. QED
  BY <1>1, <1>2, <1>3, <1>4 DEF Resume, Retry

(* The types hold in every step of the system.                             *)
LEMMA StepTypes == ASSUME TypeOK, [Next]_vars PROVE TypeOK'
<1>1. FlagsOK'
  BY StepFlags DEF TypeOK
<1>2. CASE UNCHANGED vars
  BY <1>2
  DEF vars, trainer, saved, asked, published, publisher, history, TypeOK, FilesOK, ProcessesOK,
      FlagsOK
<1>3. CASE Next
  BY <1>1, <1>3, TrainerTypes, PublisherTypes, OutsideTypes DEF Next, TypeOK
<1>4. QED
  BY <1>2, <1>3

-----------------------------------------------------------------------------
(* No step, of whichever side, acknowledges a save that is not on disk or  *)
(* takes an acknowledged one away.                                         *)
LEMMA StepSaved ==
    ASSUME TypeOK, SavedBeforeAcked, SaveOrder, [Next]_vars
    PROVE  SavedBeforeAcked' /\ SaveOrder'
<1> USE DEF TypeOK, FilesOK, ProcessesOK
<1> DEFINE Kept == UNCHANGED <<own, latest, ack, saves>>
<1> USE DEF SavedBeforeAcked, SaveOrder, saved, history
<1>1. CASE Kept /\ tpc' \notin {"output", "config", "ack"}
  BY <1>1
<1>2. CASE Kept /\ UNCHANGED tpc
  BY <1>2
<1>3. ASSUME NEW g, NEW then, Begin(g, then) PROVE SavedBeforeAcked' /\ SaveOrder'
  BY <1>3 DEF Begin
<1>4. ASSUME SaveOwn PROVE SavedBeforeAcked' /\ SaveOrder'
  BY <1>4 DEF SaveOwn
<1>5. ASSUME SaveOutput PROVE SavedBeforeAcked' /\ SaveOrder'
  BY <1>5 DEF SaveOutput, Acknowledgment
<1>6. ASSUME SaveConfig PROVE SavedBeforeAcked' /\ SaveOrder'
  BY <1>6 DEF SaveConfig
<1>7. ASSUME SaveAck PROVE SavedBeforeAcked' /\ SaveOrder'
  BY <1>7 DEF SaveAck
<1>8. ASSUME SaveFails \/ TrainerStarves \/ TrainerDies \/ Crash
      PROVE  Kept /\ (UNCHANGED tpc \/ tpc' \notin {"output", "config", "ack"})
  BY <1>8 DEF SaveFails, TrainerStarves, TrainerDies, Crash
<1>r. ASSUME Restart PROVE SavedBeforeAcked' /\ SaveOrder'
  BY <1>r, Bounds, KindAssumption DEF Restart
<1>9. ASSUME Publisher \/ PublishFails \/ CoolDown \/ SetStopEvent PROVE Kept /\ UNCHANGED tpc
  BY <1>9
  DEF Publisher, Look, Copy, CreateBundle, UpdateBundle, UpdateMerged, MoveWeightsAside,
    InstallWeights, UpdateAdapter, Restat, ReadGeneration,
      ReadExportRequest, MoveAside, Install, UnlinkRequest, Ready, Wake, PublishFails, CoolDown,
      SetStopEvent, trainer
<1>10. ASSUME AskSave \/ AskExport \/ AskStop PROVE Kept /\ UNCHANGED tpc
  BY <1>10 DEF AskSave, AskExport, AskStop, trainer
<1>11. ASSUME UNCHANGED vars PROVE Kept /\ UNCHANGED tpc
  BY <1>11 DEF vars, trainer
<1>12. ASSUME PassRecord \/ SecondPasses PROVE Kept /\ UNCHANGED tpc
  BY <1>12 DEF PassRecord, SecondPasses
<1>13. ASSUME SaveRequested \/ SaveDue \/ SaveStopping PROVE SavedBeforeAcked' /\ SaveOrder'
  BY <1>3, <1>13 DEF SaveRequested, SaveDue, SaveStopping
<1>14. QED
  BY <1>1, <1>2, <1>4, <1>5, <1>6, <1>7, <1>8, <1>r, <1>9, <1>10, <1>11, <1>12, <1>13
  DEF Next, Trainer, FinishSave, Resume, Retry

-----------------------------------------------------------------------------
(* The steps of the trainer and of the application leave the publisher     *)
(* and its folders alone, and no file they write goes away.                *)
LEMMA AsideSteps ==
    ASSUME TypeOK, SavedBeforeAcked, SaveOrder,
           Others
    PROVE  /\ UNCHANGED <<bundle, target, backup, ppc, cur, snap, sig, failed, moved>>
           /\ latest # 0 => latest' # 0
           /\ config => config'
<1> USE DEF TypeOK, FilesOK, ProcessesOK, SavedBeforeAcked, SaveOrder
<1>1. CASE SaveOutput
  BY <1>1 DEF SaveOutput, published, publisher
<1>2. CASE ~SaveOutput
  BY <1>2
  DEF Others, Trainer, FinishSave, SaveRequested, SaveDue, SaveStopping, PassRecord,
      SecondPasses, Begin, SaveOwn, SaveConfig, SaveAck, SaveFails, TrainerStarves, TrainerDies,
      AskSave, AskExport, AskStop, published, publisher, saved
<1>3. QED
  BY <1>1, <1>2

(* The publisher finds the folder it updates even, makes it even, and a    *)
(* crash or a new run sends it back to the start of a pass.                *)
LEMMA StepInStep ==
    ASSUME CheckpointInv, [Next]_vars
    PROVE  PublishedInStep' /\ PassOrder'
<1> DEFINE Goal == PublishedInStep' /\ PassOrder'
<1>0. TypeOK /\ SavedBeforeAcked /\ SaveOrder /\ PublishedInStep /\ PassOrder
  BY DEF CheckpointInv
<1> USE DEF PublishedInStep, PassOrder, Even, Updated, Updating, Passing, PassOver
<1>1. CASE Others
  BY <1>0, <1>1, AsideSteps
<1>2. ASSUME Look PROVE Goal
  <2>1. CASE Skip
    <3>1. failed = 0 => latest = 0 \/ sig # 0 \/ (Kind = "mlx" /\ ~config)
      BY <1>0, <2>1 DEF Skip
    <3>2. failed = 0 => Even(bundle)
      BY <1>0, <1>2, <3>1 DEF Look, Missing
    <3>3. QED
      BY <1>0, <1>2, <2>1, <3>2 DEF Look, published, saved
  <2>2. CASE ~Skip
    BY <1>0, <1>2, <2>2 DEF Look, Skip, published, saved
  <2>3. QED
    BY <2>1, <2>2
<1>3. ASSUME Copy PROVE Goal
  BY <1>0, <1>3 DEF Copy, published, saved
<1>4. ASSUME CreateBundle PROVE Goal
  BY <1>0, <1>4 DEF CreateBundle, saved
<1>5. ASSUME UpdateMerged PROVE Goal
  <2>1. bundle'.merged = snap
    BY <1>0, <1>5 DEF UpdateMerged, TypeOK, FilesOK, Model
  <2>2. QED
    BY <1>0, <1>5, <2>1 DEF UpdateMerged, saved
<1>6. ASSUME UpdateAdapter PROVE Goal
  <2>1. bundle'.adapter = snap /\ bundle'.merged = snap
    BY <1>0, <1>6 DEF UpdateAdapter, TypeOK, FilesOK, Model
  <2>2. QED
    BY <1>0, <1>6, <2>1 DEF UpdateAdapter, saved
<1>m. ASSUME MoveWeightsAside PROVE Goal
  BY <1>0, <1>m DEF MoveWeightsAside, saved, Missing
<1>i. ASSUME InstallWeights PROVE Goal
  <2>1. bundle'.merged = snap
    BY <1>0, <1>i DEF InstallWeights, TypeOK, FilesOK, Model
  <2>2. QED
    BY <1>0, <1>i, <2>1 DEF InstallWeights, saved
<1>7. ASSUME Restat \/ ReadGeneration \/ ReadExportRequest PROVE Goal
  BY <1>0, <1>7 DEF Restat, ReadGeneration, ReadExportRequest, published, saved
<1>8. ASSUME MoveAside PROVE Goal
  BY <1>0, <1>8 DEF MoveAside, saved, Missing
<1>9. ASSUME Install \/ UnlinkRequest PROVE Goal
  BY <1>0, <1>9 DEF Install, UnlinkRequest, DeleteBackup, saved, Missing
<1>10. ASSUME Ready PROVE Goal
  BY <1>0, <1>10 DEF Ready, published, saved
<1>11. ASSUME PublishFails PROVE Goal
  <2>1. /\ ppc \in Passing \ {"restat", "generation", "ready"}
        /\ ppc' \in {"done", "wait"} /\ failed' = cur
        /\ UNCHANGED <<latest, config>>
        /\ Even(target) => Even(target')
        /\ Even(backup) => Even(backup')
    BY <1>0, <1>11
    DEF PublishFails, SwapWeightsBack, SwapBack, SwapLost, KeepExport, DeleteBackup, published,
        saved, Missing
  <2>2. QED
    BY <1>0, <2>1
<1>12. ASSUME Wake PROVE Goal
  BY <1>0, <1>12 DEF Wake, published, saved
<1>13. ASSUME CoolDown \/ SetStopEvent PROVE Goal
  BY <1>0, <1>13 DEF CoolDown, SetStopEvent, published, saved
<1>14. ASSUME Crash PROVE Goal
  BY <1>0, <1>14 DEF Crash, published, saved
<1>15. ASSUME Restart PROVE Goal
  BY <1>0, <1>15 DEF Restart, published, saved
<1>16. CASE UNCHANGED vars
  BY <1>0, <1>16 DEF vars, published, publisher, saved
<1>17. QED
  BY <1>1, <1>2, <1>3, <1>4, <1>5, <1>6, <1>m, <1>i, <1>7, <1>8, <1>9, <1>10, <1>11, <1>12,
     <1>13, <1>14, <1>15, <1>16
  DEF Next, Others, Publisher, UpdateBundle, Resume, Retry

(* Every run satisfies the inductive invariant.                            *)
LEMMA CheckpointInvariant == Spec => []CheckpointInv
<1>1. CheckpointInv /\ [Next]_vars => CheckpointInv'
  BY StepTypes, StepSaved, StepInStep DEF CheckpointInv
<1>2. QED
  BY <1>1, InitCheckpointInv, PTL DEF Spec

(* The trainer, the publisher and the files they share keep their types.   *)
THEOREM CheckpointTypes == Spec => []TypeOK
<1>1. CheckpointInv => TypeOK
  BY DEF CheckpointInv
<1>2. QED
  BY <1>1, CheckpointInvariant, PTL

(* A save the application has seen acknowledged is in the published        *)
(* adapter and in the resume state, after any crash and any failed save.   *)
THEOREM CheckpointDurability == Spec => []SavedBeforeAcked
<1>1. CheckpointInv => SavedBeforeAcked
  BY DEF CheckpointInv
<1>2. QED
  BY <1>1, CheckpointInvariant, PTL

(* The fused model's weights and its embedded adapter are of one save      *)
(* between two passes that did not fail, and in every exported folder.     *)
THEOREM CheckpointConsistency == Spec => []PublishedInStep
<1>1. CheckpointInv => PublishedInStep
  BY DEF CheckpointInv
<1>2. QED
  BY <1>1, CheckpointInvariant, PTL

-----------------------------------------------------------------------------
(* The trainer only ever replaces the adapter by a newer one, and after it *)
(* has ended, not at all.                                                  *)
LEMMA TrainerNewer ==
    ASSUME TypeOK, SavedBeforeAcked, SaveOrder,
           Others
    PROVE  /\ UNCHANGED <<published, ppc, stopEvent, last, cur, snap, sig, failed, moved>>
           /\ latest <= latest' /\ latest' \in 0..MaxSaves
           /\ latest = latest' \/ tpc \notin Ended
           /\ config = config' \/ tpc \notin Ended
           /\ tpc \in Ended => tpc' = tpc
<1> USE Bounds DEF TypeOK, FilesOK, ProcessesOK, SavedBeforeAcked, SaveOrder, Ended
<1>1. CASE SaveOutput
  BY <1>1 DEF SaveOutput, published, publisher
<1>2. CASE SaveRequested \/ SaveDue \/ SaveStopping
  <2>1. tpc = "train" /\ UNCHANGED <<saved, published, publisher>>
    BY <1>2 DEF SaveRequested, SaveDue, SaveStopping, Begin
  <2>2. QED
    BY <2>1 DEF published, publisher, saved
<1>3. CASE SaveOwn \/ SaveConfig \/ SaveAck
  BY <1>3 DEF SaveOwn, SaveConfig, SaveAck, published, publisher
<1>4. CASE SaveFails \/ TrainerStarves \/ TrainerDies \/ PassRecord \/ SecondPasses
  BY <1>4 DEF SaveFails, TrainerStarves, TrainerDies, PassRecord, SecondPasses, published,
              publisher, saved
<1>5. CASE AskSave \/ AskExport \/ AskStop
  BY <1>5 DEF AskSave, AskExport, AskStop, trainer, published, publisher, saved
<1>6. QED
  BY <1>1, <1>2, <1>3, <1>4, <1>5 DEF Others, Trainer, FinishSave

(* What the publisher leaves alone, in all its steps.                      *)
LEMMA PublisherAlone ==
    ASSUME Publisher \/ PublishFails \/ CoolDown \/ SetStopEvent
    PROVE  UNCHANGED <<trainer, saved>>
BY DEF Publisher, Look, Copy, CreateBundle, UpdateBundle, UpdateMerged, MoveWeightsAside,
    InstallWeights, UpdateAdapter, Restat, ReadGeneration,
       ReadExportRequest, MoveAside, Install, UnlinkRequest, Ready, Wake, PublishFails, CoolDown,
       SetStopEvent

(* The last pass of the publisher comes after the end of the trainer.      *)
LEMMA StepStop == ASSUME CheckpointInv, StopOrder, [Next]_vars PROVE StopOrder'
<1> USE DEF StopOrder, PassOver
<1>1. CASE Others
  BY <1>1, TrainerNewer DEF CheckpointInv
<1>2. CASE Look \/ Copy \/ CreateBundle \/ UpdateBundle \/ Restat
  BY <1>2 DEF Look, Copy, CreateBundle, UpdateBundle, UpdateMerged, MoveWeightsAside,
    InstallWeights, UpdateAdapter, Restat, trainer
<1>3. CASE ReadGeneration \/ ReadExportRequest \/ MoveAside \/ Install \/ UnlinkRequest \/ Ready
  BY <1>3 DEF ReadGeneration, ReadExportRequest, MoveAside, Install, UnlinkRequest, Ready, trainer
<1>4. CASE Wake \/ PublishFails \/ CoolDown \/ SetStopEvent
  BY <1>4 DEF Wake, PublishFails, CoolDown, SetStopEvent, trainer
<1>5. CASE Crash \/ Restart
  BY <1>5 DEF Crash, Restart, Ended
<1>6. CASE UNCHANGED vars
  BY <1>6 DEF vars, trainer, publisher
<1>7. QED
  BY <1>1, <1>2, <1>3, <1>4, <1>5, <1>6 DEF Next, Others, Publisher, Resume, Retry

(* A pass copies the adapter it has seen or a newer one, and acknowledges  *)
(* it only if it still is the latest.                                      *)
LEMMA StepSnap ==
    ASSUME CheckpointInv, StopOrder, SnapOrder, AsideOrder, [Next]_vars
    PROVE  SnapOrder'
<1>0. TypeOK /\ SavedBeforeAcked /\ SaveOrder /\ PassOrder /\ AsideOrder
  BY DEF CheckpointInv
<1>a. /\ latest \in Nat /\ cur \in Nat /\ snap \in Nat /\ sig \in Nat
      /\ bundle \in [adapter : 0..MaxSaves, merged : 0..MaxSaves]
      /\ bundle.adapter \in Nat /\ bundle.merged \in Nat
  BY <1>0, Bounds DEF TypeOK, FilesOK, ProcessesOK, Model
<1> USE DEF SnapOrder, InStep, Passing, Updating, Updated, PassOver
<1>1. CASE Others
  <2>1. /\ UNCHANGED <<bundle, ppc, last, cur, snap, sig>>
        /\ latest <= latest' /\ latest' \in 0..MaxSaves
        /\ last => latest' = latest
    BY <1>0, <1>1, TrainerNewer DEF StopOrder, published
  <2>2. latest' = sig => latest = sig
    BY <1>a, <2>1, Bounds
  <2>3. QED
    BY <1>a, <2>1, <2>2, Bounds
<1>2. ASSUME Look PROVE SnapOrder'
  <2>1. CASE Skip
    BY <1>2, <2>1 DEF Look, published, saved
  <2>2. CASE ~Skip
    BY <1>a, <1>2, <2>2 DEF Look, Skip, published, saved
  <2>3. QED
    BY <2>1, <2>2
<1>3. ASSUME Copy PROVE SnapOrder'
  BY <1>a, <1>3 DEF Copy, published, saved
<1>4. ASSUME CreateBundle PROVE SnapOrder'
  BY <1>a, <1>4 DEF CreateBundle, saved
<1>5. ASSUME UpdateMerged PROVE SnapOrder'
  <2>1. bundle'.merged = snap /\ bundle'.adapter = bundle.adapter
    BY <1>a, <1>5 DEF UpdateMerged
  <2>2. QED
    BY <1>a, <1>5, <2>1 DEF UpdateMerged, saved
<1>6. ASSUME UpdateAdapter PROVE SnapOrder'
  <2>1. bundle' = [adapter |-> snap, merged |-> snap]
    BY <1>0, <1>a, <1>6 DEF UpdateAdapter, PassOrder
  <2>2. QED
    BY <1>a, <1>6, <2>1 DEF UpdateAdapter, saved
<1>m. ASSUME MoveWeightsAside PROVE SnapOrder'
  <2>1. bundle'.merged = 0 /\ bundle'.adapter = bundle.adapter
    BY <1>a, <1>m DEF MoveWeightsAside
  <2>2. QED
    BY <1>a, <1>m, <2>1 DEF MoveWeightsAside, saved
<1>i. ASSUME InstallWeights PROVE SnapOrder'
  <2>1. bundle'.merged = snap /\ bundle'.adapter = bundle.adapter
    BY <1>a, <1>i DEF InstallWeights
  <2>2. QED
    BY <1>a, <1>i, <2>1 DEF InstallWeights, saved
<1>7. ASSUME Restat \/ ReadGeneration \/ ReadExportRequest PROVE SnapOrder'
  BY <1>a, <1>7 DEF Restat, ReadGeneration, ReadExportRequest, published, saved
<1>8. ASSUME MoveAside \/ Install \/ UnlinkRequest PROVE SnapOrder'
  BY <1>a, <1>8 DEF MoveAside, Install, UnlinkRequest, saved
<1>9. ASSUME Ready PROVE SnapOrder'
  BY <1>a, <1>9 DEF Ready, published, saved
<1>10. ASSUME PublishFails PROVE SnapOrder'
  <2>1. CASE UNCHANGED bundle
    BY <1>a, <1>10, <2>1 DEF PublishFails, saved
  <2>2. CASE SwapWeightsBack
    <3>1. bundle'.merged = previous /\ bundle'.adapter = bundle.adapter
      BY <1>a, <2>2 DEF SwapWeightsBack
    <3>2. previous \in Nat /\ previous <= latest
      BY <1>0, Bounds DEF TypeOK, FilesOK, AsideOrder
    <3>3. latest # sig
      BY <1>a, <2>2 DEF SwapWeightsBack
    <3>4. QED
      BY <1>a, <1>10, <3>1, <3>2, <3>3 DEF PublishFails, saved
  <2>3. QED
    BY <1>10, <2>1, <2>2 DEF PublishFails, SwapBack, SwapLost, KeepExport, published
<1>11. ASSUME Wake \/ CoolDown \/ SetStopEvent PROVE SnapOrder'
  BY <1>a, <1>11 DEF Wake, CoolDown, SetStopEvent, published, saved
<1>12. ASSUME Crash \/ Restart PROVE SnapOrder'
  BY <1>a, <1>12 DEF Crash, Restart, published, saved
<1>13. CASE UNCHANGED vars
  BY <1>a, <1>13 DEF vars, published, publisher, saved
<1>14. QED
  BY <1>1, <1>2, <1>3, <1>4, <1>5, <1>6, <1>m, <1>i, <1>7, <1>8, <1>9, <1>10, <1>11, <1>12, <1>13
  DEF Next, Others, Publisher, UpdateBundle, Resume, Retry

(* What has been moved aside for a newer one stays older than it.          *)
LEMMA StepAside ==
    ASSUME CheckpointInv, SnapOrder, AsideOrder, [Next]_vars
    PROVE  AsideOrder'
<1>0. TypeOK /\ SavedBeforeAcked /\ SaveOrder /\ PassOrder
  BY DEF CheckpointInv
<1>a. /\ latest \in Nat /\ cur \in Nat /\ snap \in Nat /\ previous \in Nat
      /\ bundle \in [adapter : 0..MaxSaves, merged : 0..MaxSaves]
      /\ bundle.adapter \in Nat /\ bundle.merged \in Nat
      /\ target.merged \in Nat /\ backup.merged \in Nat
  BY <1>0, Bounds DEF TypeOK, FilesOK, ProcessesOK, Model
<1>b. Missing.merged = 0 /\ Missing.adapter = 0
  BY DEF Missing
<1> USE DEF AsideOrder, Updating, PassOver
<1>1. CASE Others
  <2>1. UNCHANGED <<bundle, target, previous, backup, ppc, snap>> /\ latest <= latest'
        /\ latest' \in Nat
    BY <1>0, <1>1, TrainerNewer, Bounds DEF published
  <2>2. QED
    BY <1>a, <2>1
<1>2. CASE Look \/ Copy \/ Restat \/ ReadGeneration \/ ReadExportRequest \/ Ready \/ Wake
  BY <1>a, <1>2
  DEF Look, Copy, Restat, ReadGeneration, ReadExportRequest, Ready, Wake, published, saved
<1>3. CASE CreateBundle
  BY <1>a, <1>b, <1>3 DEF CreateBundle, SnapOrder, saved
<1>4. CASE UpdateMerged
  <2>1. bundle'.merged = snap /\ bundle'.adapter = bundle.adapter
    BY <1>a, <1>4 DEF UpdateMerged
  <2>2. QED
    BY <1>a, <1>4, <2>1 DEF UpdateMerged, saved
<1>5. CASE MoveWeightsAside
  <2>1. bundle'.merged = 0 /\ bundle'.adapter = bundle.adapter
    BY <1>a, <1>5 DEF MoveWeightsAside
  <2>2. QED
    BY <1>a, <1>5, <2>1 DEF MoveWeightsAside, SnapOrder, saved
<1>6. CASE InstallWeights
  <2>1. bundle'.merged = snap /\ bundle'.adapter = bundle.adapter
    BY <1>a, <1>6 DEF InstallWeights
  <2>2. QED
    BY <1>a, <1>6, <2>1 DEF InstallWeights, saved
<1>7. CASE UpdateAdapter
  <2>1. bundle'.adapter = snap /\ bundle'.merged = bundle.merged
    BY <1>a, <1>7 DEF UpdateAdapter
  <2>2. bundle.adapter <= snap
    BY <1>7 DEF UpdateAdapter, SnapOrder
  <2>3. QED
    BY <1>a, <1>7, <2>1, <2>2 DEF UpdateAdapter, saved
<1>8. CASE MoveAside
  BY <1>a, <1>b, <1>8 DEF MoveAside, saved
<1>9. CASE Install
  <2>1. bundle.adapter = bundle.merged
    BY <1>0, <1>9 DEF Install, PassOrder, Updated, Even
  <2>2. QED
    BY <1>a, <1>9, <2>1 DEF Install, saved
<1>10. CASE UnlinkRequest
  BY <1>a, <1>b, <1>10 DEF UnlinkRequest, DeleteBackup, saved
<1>11. CASE PublishFails
  <2>1. CASE SwapWeightsBack
    <3>1. bundle'.merged = previous /\ bundle'.adapter = bundle.adapter
      BY <1>a, <2>1 DEF SwapWeightsBack
    <3>2. QED
      BY <1>a, <1>11, <2>1, <3>1 DEF PublishFails, SwapWeightsBack, saved
  <2>2. CASE SwapBack \/ SwapLost \/ KeepExport
    BY <1>a, <1>b, <1>11, <2>2
    DEF PublishFails, SwapBack, SwapLost, KeepExport, DeleteBackup, saved
  <2>3. CASE UNCHANGED published
    BY <1>a, <1>11, <2>3 DEF PublishFails, published, saved
  <2>4. QED
    BY <1>11, <2>1, <2>2, <2>3 DEF PublishFails
<1>12. CASE CoolDown \/ SetStopEvent \/ Crash \/ Restart
  BY <1>a, <1>12 DEF CoolDown, SetStopEvent, Crash, Restart, published, saved
<1>13. CASE UNCHANGED vars
  BY <1>a, <1>13 DEF vars, published, publisher, saved
<1>14. QED
  BY <1>1, <1>2, <1>3, <1>4, <1>5, <1>6, <1>7, <1>8, <1>9, <1>10, <1>11, <1>12, <1>13
  DEF Next, Others, Publisher, UpdateBundle, Resume, Retry

(* When the thread ends, the adapter it has last seen is published, unless *)
(* the pass was over before, and no other comes after the last pass.       *)
LEMMA StepFinal ==
    ASSUME CheckpointInv, StopOrder, SnapOrder, FinalModelInStep, [Next]_vars
    PROVE  FinalModelInStep'
<1>0. TypeOK /\ SavedBeforeAcked /\ SaveOrder /\ PassOrder
  BY DEF CheckpointInv
<1> USE DEF FinalModelInStep, InStep, StopOrder
<1>1. CASE Others
  BY <1>0, <1>1, TrainerNewer DEF published
<1>2. ASSUME Look PROVE FinalModelInStep'
  BY <1>2 DEF Look, Skip, PassOver, SnapOrder, published, saved
<1>3. ASSUME Restat PROVE FinalModelInStep'
  BY <1>3 DEF Restat, SnapOrder, Passing, Updated, PassOver
<1>4. ASSUME Ready PROVE FinalModelInStep'
  BY <1>4 DEF Ready, SnapOrder, Passing, Updated, PassOver, published, saved
<1>5. ASSUME PublishFails PROVE FinalModelInStep'
  BY <1>5 DEF PublishFails, SnapOrder, Passing, Updating, Updated, PassOver, saved
<1>6. ASSUME Copy \/ CreateBundle \/ UpdateBundle \/ ReadGeneration
                  \/ ReadExportRequest \/ MoveAside \/ Install \/ UnlinkRequest \/ Wake
                  \/ Crash \/ Restart
      PROVE  ppc' # "done"
  BY <1>6 DEF Copy, CreateBundle, UpdateBundle, UpdateMerged, MoveWeightsAside,
      InstallWeights, UpdateAdapter, ReadGeneration,
              ReadExportRequest, MoveAside, Install, UnlinkRequest, Wake, Crash, Restart
<1>7. CASE CoolDown \/ SetStopEvent
  BY <1>7 DEF CoolDown, SetStopEvent, published, saved
<1>8. CASE UNCHANGED vars
  BY <1>8 DEF vars, published, publisher, saved
<1>9. QED
  BY <1>1, <1>2, <1>3, <1>4, <1>5, <1>6, <1>7, <1>8 DEF Next, Others, Publisher, Resume, Retry

(* The swap of an export installs a model that exists.                     *)
LEMMA StepSwap ==
    ASSUME CheckpointInv, SnapOrder, SwapOrder, [Next]_vars
    PROVE  SwapOrder'
<1>0. TypeOK /\ SavedBeforeAcked /\ SaveOrder
  BY DEF CheckpointInv
<1> USE DEF SwapOrder, PassOver
<1>1. CASE Others
  BY <1>0, <1>1, TrainerNewer DEF published
<1>2. ASSUME Install PROVE SwapOrder'
  <2>1. bundle # Missing
    <3>1. bundle = [adapter |-> snap, merged |-> snap] /\ snap = cur /\ sig < cur
      BY <1>2 DEF Install, SnapOrder, Passing, Updated
    <3>2. snap # 0
      BY <1>0, <3>1, Bounds DEF TypeOK, ProcessesOK
    <3>3. QED
      BY <3>1, <3>2 DEF Missing
  <2>2. QED
    BY <1>2, <2>1 DEF Install
<1>3. ASSUME Look \/ Copy \/ CreateBundle \/ UpdateBundle \/ Restat
                  \/ ReadGeneration \/ ReadExportRequest \/ UnlinkRequest \/ Ready \/ Wake
                  \/ PublishFails \/ Crash \/ Restart
      PROVE  ppc' \notin {"install", "unlink"}
  BY <1>3 DEF Look, Copy, CreateBundle, UpdateBundle, UpdateMerged, MoveWeightsAside,
    InstallWeights, UpdateAdapter, Restat, ReadGeneration,
              ReadExportRequest, UnlinkRequest, Ready, Wake, PublishFails, Crash, Restart
<1>4. CASE MoveAside
  BY <1>4 DEF MoveAside
<1>5. CASE CoolDown \/ SetStopEvent
  BY <1>5 DEF CoolDown, SetStopEvent, published
<1>6. CASE UNCHANGED vars
  BY <1>6 DEF vars, published, publisher
<1>7. QED
  BY <1>1, <1>2, <1>3, <1>4, <1>5, <1>6 DEF Next, Others, Publisher, Resume, Retry

(* A trainer remembers what it has served, and the next one reads it back. *)
LEMMA StepServe == ASSUME TypeOK, ServeOrder, [Next]_vars PROVE ServeOrder'
<1> USE DEF ServeOrder
<1>1. ASSUME NEW g, NEW then, g \in {None, Stop} \/ g # served, Begin(g, then) PROVE ServeOrder'
  BY <1>1 DEF Begin, saved
<1>2. CASE SaveRequested \/ SaveDue \/ SaveStopping
  BY <1>1, <1>2 DEF SaveRequested, SaveDue, SaveStopping, Seen, Pending
<1>3. CASE SaveAck
  <2>1. tpc' \in {"train", "stopped", "ended"}
    BY <1>3 DEF SaveAck, TypeOK, ProcessesOK
  <2>2. ack'.gen \in {served', Stop}
    BY <1>3 DEF SaveAck
  <2>3. QED
    BY <1>3, <2>1, <2>2 DEF SaveAck
<1>4. CASE \/ SaveOwn \/ SaveOutput \/ SaveConfig \/ SaveFails \/ TrainerStarves
           \/ TrainerDies \/ PassRecord \/ SecondPasses
  BY <1>4 DEF SaveOwn, SaveOutput, SaveConfig, SaveFails, TrainerStarves, TrainerDies, PassRecord,
              SecondPasses, Ended, saved
<1>5. CASE Publisher \/ PublishFails \/ CoolDown \/ SetStopEvent
  BY <1>5, PublisherAlone DEF trainer, saved
<1>6. CASE AskSave \/ AskExport \/ AskStop
  BY <1>6 DEF AskSave, AskExport, AskStop, trainer, saved
<1>7. CASE Crash \/ Restart
  BY <1>7 DEF Crash, Restart, saved
<1>8. CASE UNCHANGED vars
  BY <1>8 DEF vars, trainer, saved
<1>9. QED
  BY <1>2, <1>3, <1>4, <1>5, <1>6, <1>7, <1>8 DEF Next, Trainer, FinishSave, Resume, Retry

-----------------------------------------------------------------------------
(* A new session has neither published nor served anything.                *)
LEMMA InitOrderInv == Init => OrderInv
<1> SUFFICES ASSUME Init PROVE OrderInv
  OBVIOUS
<1> USE DEF Init, None, Missing
<1>1. StopOrder /\ SwapOrder /\ FinalModelInStep
  BY DEF StopOrder, SwapOrder, FinalModelInStep
<1>2. SnapOrder /\ AsideOrder
  BY DEF SnapOrder, AsideOrder, Passing, Updating, Updated
<1>3. ServeOrder
  BY DEF ServeOrder
<1>4. QED
  BY <1>1, <1>2, <1>3 DEF OrderInv

(* Every run satisfies both inductive invariants.                          *)
LEMMA OrderInvariant == Spec => [](CheckpointInv /\ OrderInv)
<1>1. CheckpointInv /\ OrderInv /\ [Next]_vars => OrderInv'
  BY StepStop, StepSnap, StepAside, StepFinal, StepSwap, StepServe DEF OrderInv, CheckpointInv
<1>2. QED
  BY <1>1, InitOrderInv, CheckpointInvariant, PTL DEF Spec

(* When the publisher thread is through, the model it leaves holds the     *)
(* last adapter the trainer has saved, or its publication has failed.      *)
THEOREM CheckpointFinalModel == Spec => []FinalModelInStep
<1>1. OrderInv => FinalModelInStep
  BY DEF OrderInv
<1>2. QED
  BY <1>1, OrderInvariant, PTL

(* What takes the name of the embedded adapter, of the fused weights or of *)
(* an export is at least as new as what had that name before, also when    *)
(* that had been moved aside first, and also when a swap is rolled back.   *)
THEOREM CheckpointNeverBack == Spec => NeverBack
<1> DEFINE Newer == /\ bundle'.adapter >= bundle.adapter
                    /\ bundle'.merged # 0 =>
                           bundle'.merged >= bundle.merged /\ bundle'.merged >= previous
                    /\ target' # Missing =>
                           target'.merged >= target.merged /\ target'.merged >= backup.merged
<1>1. ASSUME CheckpointInv, OrderInv, [Next]_vars PROVE [Newer]_vars
  <2>0. /\ TypeOK /\ SavedBeforeAcked /\ SaveOrder /\ PassOrder
        /\ SnapOrder /\ AsideOrder /\ SwapOrder
    BY <1>1 DEF CheckpointInv, OrderInv
  <2>1. /\ bundle \in [adapter : 0..MaxSaves, merged : 0..MaxSaves]
        /\ snap \in Nat /\ bundle.adapter \in Nat /\ bundle.merged \in Nat
        /\ target.merged \in Nat /\ backup.merged \in Nat /\ previous \in Nat
    BY <2>0, Bounds DEF TypeOK, FilesOK, ProcessesOK, Model
  <2>2. ASSUME UNCHANGED <<bundle, target>> PROVE Newer
    BY <2>0, <2>1, <2>2 DEF AsideOrder
  <2>3. CASE Others
    BY <2>0, <2>2, <2>3, TrainerNewer DEF published
  <2>4. CASE Look \/ Copy \/ Restat \/ ReadGeneration \/ ReadExportRequest \/ UnlinkRequest
    BY <2>2, <2>4
    DEF Look, Copy, Restat, ReadGeneration, ReadExportRequest, UnlinkRequest, published
  <2>5. CASE Ready \/ Wake \/ CoolDown \/ SetStopEvent \/ Crash \/ Restart
    BY <2>2, <2>5 DEF Ready, Wake, CoolDown, SetStopEvent, Crash, Restart, published
  <2>6. CASE CreateBundle \/ UpdateBundle
    <3>0. UNCHANGED target
      BY <2>6 DEF CreateBundle, UpdateBundle, UpdateMerged, MoveWeightsAside, InstallWeights,
                  UpdateAdapter
    <3>1. bundle.adapter <= snap /\ bundle.merged <= snap /\ previous <= snap
      BY <2>0, <2>6
      DEF CreateBundle, UpdateBundle, UpdateMerged, MoveWeightsAside, InstallWeights,
          UpdateAdapter, SnapOrder, AsideOrder, Updating
    <3>2. /\ bundle'.adapter \in {snap, bundle.adapter}
          /\ bundle'.merged \in {0, snap, bundle.merged}
      BY <2>1, <2>6
      DEF CreateBundle, UpdateBundle, UpdateMerged, MoveWeightsAside, InstallWeights, UpdateAdapter
    <3>3. bundle.merged # 0 => previous <= bundle.merged
      BY <2>0 DEF AsideOrder
    <3>4. target # Missing => backup.merged <= target.merged
      BY <2>0 DEF AsideOrder
    <3>5. QED
      BY <2>1, <3>0, <3>1, <3>2, <3>3, <3>4
  <2>7. CASE MoveAside
    BY <2>0, <2>1, <2>7 DEF MoveAside, AsideOrder
  <2>8. CASE Install
    <3>1. target'.merged = bundle.adapter
      BY <2>0, <2>8 DEF Install, PassOrder, Updated, Even
    <3>2. QED
      BY <2>0, <2>1, <2>8, <3>1 DEF Install, AsideOrder
  <2>9. CASE PublishFails
    <3>1. CASE SwapWeightsBack
      <4>1. bundle'.adapter = bundle.adapter /\ bundle'.merged = previous /\ bundle.merged = 0
        BY <2>0, <2>1, <3>1 DEF SwapWeightsBack, AsideOrder
      <4>2. QED
        BY <2>0, <2>1, <3>1, <4>1 DEF SwapWeightsBack, AsideOrder
    <3>2. CASE SwapBack
      <4>1. target = Missing /\ UNCHANGED bundle /\ target' \in {backup, Missing}
        BY <2>0, <3>2 DEF SwapBack, SwapOrder
      <4>2. target.merged = 0
        BY <4>1 DEF Missing
      <4>3. QED
        BY <2>0, <2>1, <4>1, <4>2 DEF AsideOrder
    <3>3. CASE UNCHANGED <<bundle, target>>
      BY <2>2, <3>3
    <3>4. QED
      BY <2>9, <3>1, <3>2, <3>3 DEF PublishFails, SwapLost, KeepExport, published
  <2>11. CASE UNCHANGED vars
    BY <2>11
  <2> QED
    BY <1>1, <2>3, <2>4, <2>5, <2>6, <2>7, <2>8, <2>9, <2>11
    DEF Next, Others, Publisher, Resume, Retry
<1>2. QED
  BY <1>1, OrderInvariant, PTL DEF Spec, NeverBack

(* Through the swap of an export, at its name or aside, one export is      *)
(* always there, whatever step fails and wherever a crash falls.           *)
THEOREM CheckpointExportKept == Spec => ExportKept
<1> DEFINE Kept == {target, backup} # {Missing} /\ ~dropped'
                       => {target', backup'} # {Missing}
<1>1. ASSUME CheckpointInv, OrderInv, [Next]_vars PROVE [Kept]_vars
  <2>0. TypeOK /\ SavedBeforeAcked /\ SaveOrder /\ SwapOrder
    BY <1>1 DEF CheckpointInv, OrderInv
  <2>1. CASE Others
    BY <2>0, <2>1, TrainerNewer DEF published
  <2>2. CASE Look \/ Copy \/ CreateBundle \/ UpdateBundle \/ Restat
    BY <2>2 DEF Look, Copy, CreateBundle, UpdateBundle, UpdateMerged, MoveWeightsAside,
    InstallWeights, UpdateAdapter, Restat, published
  <2>3. CASE ReadGeneration \/ ReadExportRequest \/ Ready \/ Wake \/ CoolDown \/ SetStopEvent
             \/ Crash \/ Restart
    BY <2>3 DEF ReadGeneration, ReadExportRequest, Ready, Wake, CoolDown, SetStopEvent, Crash,
                Restart, published
  <2>4. CASE MoveAside
    BY <2>4 DEF MoveAside
  <2>5. CASE Install
    <3>1. target' # Missing
      BY <1>1, <2>5, StepSwap DEF OrderInv, SwapOrder, Install
    <3> QED
      BY <3>1
  <2>6. CASE UnlinkRequest
    BY <2>0, <2>6 DEF UnlinkRequest, SwapOrder
  <2>7. CASE PublishFails
    <3>1. CASE SwapBack
      BY <2>0, <3>1 DEF SwapBack, DeleteBackup, SwapOrder
    <3>2. CASE KeepExport
      BY <2>0, <3>2 DEF KeepExport, SwapOrder
    <3>3. QED
      BY <2>7, <3>1, <3>2 DEF PublishFails, SwapWeightsBack, SwapLost, published
  <2>8. CASE UNCHANGED vars
    BY <2>8
  <2> QED
    BY <1>1, <2>1, <2>2, <2>3, <2>4, <2>5, <2>6, <2>7, <2>8
    DEF Next, Others, Publisher, Resume, Retry
<1>2. QED
  BY <1>1, OrderInvariant, PTL DEF Spec, ExportKept

(* A generation that has been acknowledged is not acknowledged again for a *)
(* later save, neither by the same trainer nor by a resumed one, unless    *)
(* the stop that ended the first has taken its place in the acknowledgment.*)
THEOREM CheckpointServedOnce == Spec => ServedOnce
<1> DEFINE Once == ack' # ack => ack'.gen # ack.gen \/ ack'.gen = Stop
<1>1. ASSUME CheckpointInv, OrderInv, [Next]_vars PROVE [Once]_vars
  <2>1. CASE SaveAck
    BY <1>1, <2>1 DEF SaveAck, OrderInv, ServeOrder
  <2>2. CASE SaveRequested \/ SaveDue \/ SaveStopping
    BY <2>2 DEF SaveRequested, SaveDue, SaveStopping, Begin, saved
  <2>3. CASE \/ SaveOwn \/ SaveOutput \/ SaveConfig \/ SaveFails \/ TrainerStarves
             \/ TrainerDies \/ PassRecord \/ SecondPasses
    BY <2>3 DEF SaveOwn, SaveOutput, SaveConfig, SaveFails, TrainerStarves, TrainerDies,
                PassRecord, SecondPasses, saved
  <2>4. CASE Publisher \/ PublishFails \/ CoolDown \/ SetStopEvent
    BY <2>4, PublisherAlone DEF saved
  <2>5. CASE AskSave \/ AskExport \/ AskStop \/ Crash \/ Restart
    BY <2>5 DEF AskSave, AskExport, AskStop, Crash, Restart, saved
  <2>6. CASE UNCHANGED vars
    BY <2>6
  <2> QED
    BY <1>1, <2>1, <2>2, <2>3, <2>4, <2>5, <2>6 DEF Next, Trainer, FinishSave, Resume, Retry
<1>2. QED
  BY <1>1, OrderInvariant, PTL DEF Spec, ServedOnce
====

---- MODULE GgufTraining_proofs ----
(***************************************************************************)
(* Proofs about GgufTraining for any number of runs, inputs, epochs,       *)
(* records, starts and failures: a training that is stopped, killed,       *)
(* retried and resumed sees each record of each epoch once, loses at most  *)
(* an epoch, and delivers whole epochs.                                    *)
(***************************************************************************)
EXTENDS GgufTraining, TLAPS

-----------------------------------------------------------------------------
(* Positions: the end of an epoch is the start of the next, and no         *)
(* position is beyond the end of the last epoch.                           *)
LEMMA NextEpoch == \A e \in Nat : /\ Position(e, Records) = Position(e + 1, 0)
                                  /\ Position(e + 1, 0) = (e + 1) * Records
<1> TAKE e \in Nat
<1>1. (e + 1) * Records = e * Records + Records
  BY SizeAssumption
<1>2. e * Records \in Nat
  BY SizeAssumption
<1> QED
  BY <1>1, <1>2, SizeAssumption DEF Position

(* A position of the training is a possible weight, and one record moves  *)
(* it by one.                                                              *)
LEMMA WithinTraining ==
    ASSUME NEW e \in 0..Epochs, NEW n \in 0..Records, e = Epochs => n = 0
    PROVE  /\ Position(e, n) \in Weights
           /\ n < Records /\ e < Epochs => Position(e, n + 1) = Position(e, n) + 1
<1>1. e * Records \in Nat /\ Epochs * Records \in Nat
  BY SizeAssumption
<1>2. e < Epochs => e * Records + Records <= Epochs * Records
  <2> SUFFICES ASSUME e < Epochs PROVE e * Records + Records <= Epochs * Records
    OBVIOUS
  <2>1. PICK d \in Nat : Epochs = e + 1 + d
    <3>1. Epochs - e - 1 \in Nat /\ Epochs = e + 1 + (Epochs - e - 1)
      BY SizeAssumption
    <3> QED
      BY <3>1
  <2>2. Epochs * Records = e * Records + Records + d * Records
    BY <2>1, SizeAssumption
  <2>3. d * Records \in Nat
    BY SizeAssumption
  <2> QED
    BY <1>1, <2>2, <2>3, SizeAssumption
<1> QED
  BY <1>1, <1>2, SizeAssumption DEF Position, Weights

-----------------------------------------------------------------------------
(* Untrained weights are weights.                                          *)
LEMMA ZeroWeights == 0 \in Weights
<1>1. Epochs * Records \in Nat
  BY SizeAssumption
<1> QED
  BY <1>1 DEF Weights

(* No run holds the lock at first, and nothing has been trained.           *)
LEMMA InitPosition == Init => PositionInv
<1> SUFFICES ASSUME Init PROVE PositionInv
  OBVIOUS
<1> USE RunAssumption, InputAssumption, SizeAssumption, BoundsAssumption, ZeroWeights
    DEF Init, NoSnapshot, None
<1>1. RunsOK
  BY DEF RunsOK, Steps
<1>2. FilesOK
  BY DEF FilesOK
<1>3. TrainerOK
  BY DEF TrainerOK
<1>4. {stopFile, best, unsaved, late} \subseteq BOOLEAN
  OBVIOUS
<1>5. LockOwner
  BY DEF LockOwner, Holding
<1>6. Position(0, 0) = 0
  BY DEF Position
<1>7. Epoch /\ ExactPosition
  BY <1>6 DEF Epoch, ExactPosition, Trains
<1> QED
  BY <1>1, <1>2, <1>3, <1>4, <1>5, <1>7 DEF PositionInv, TypeOK

(* The four flags are set and cleared, and never anything else.            *)
FlagsOK == {stopFile, best, unsaved, late} \subseteq BOOLEAN

(* They are only ever assigned truth values.                               *)
LEMMA StepFlags == ASSUME FlagsOK, [Next]_vars PROVE FlagsOK'
<1> USE DEF FlagsOK, runners, files, trainer, bounds
<1>1. CASE AskStop \/ UNCHANGED vars
  BY <1>1 DEF AskStop, vars
<1>2. CASE Trainer \/ SaveFails \/ TrainerFails
  BY <1>2
  DEF Trainer, SaveFails, TrainerFails, LoadFresh, LoadSnapshot, TrainRecord, SaveRecord,
      PassRecord, EndEpoch, EndTraining
<1>3. ASSUME NEW r \in Run, \/ \E i \in Input, b \in BOOLEAN : Start(r, i, b)
                            \/ Runner(r) \/ RetryLowerContext(r) \/ VerifyFails(r) \/ Kill(r)
      PROVE FlagsOK'
  BY <1>3
  DEF Start, Runner, Prepare, Conclude, Publish, Lock, RetryLowerContext, VerifyFails, Kill,
      Reject, PrepareFails, Preflight, MarkTraining, PrepareFresh, RecordSettings, PrepareResume,
      Launch,
      TrainingStopped, TrainingFailed, Collect, Complete, RemoveCorpus, Release, ReadManifest,
      MarkPublishing, EndPublication, Acquire, Refuse
<1> QED
  BY <1>1, <1>2, <1>3 DEF Next
(* The rest of PositionInv.                                                *)
Core == RunsOK /\ FilesOK /\ TrainerOK /\ LockOwner /\ Epoch /\ ExactPosition

(* What the osAi processes do before a trainer runs.                       *)
LEMMA PrepareKeeps ==
    ASSUME Core, NEW r \in Run,
           Prepare(r) \/ \E i \in Input, b \in BOOLEAN : Start(r, i, b)
    PROVE  Core'
<1> USE RunAssumption, ZeroWeights
    DEF Core, RunsOK, FilesOK, TrainerOK, LockOwner, Epoch, ExactPosition, Trains,
        At, Goto, Mark, Fail, Steps,
        Holding, None, trainer, files, bounds
<1>0. CASE Reject(r) \/ PrepareFails(r)
  BY <1>0, BoundsAssumption DEF Reject, PrepareFails, Mishap
<1>1. CASE Preflight(r)
  BY <1>1 DEF Preflight
<1>2. CASE MarkTraining(r)
  BY <1>2 DEF MarkTraining
<1>3. CASE PrepareFresh(r)
  BY <1>3 DEF PrepareFresh
<1>4. CASE RecordSettings(r)
  BY <1>4 DEF RecordSettings
<1>5. CASE PrepareResume(r)
  <2>1. CASE corpus = input[r] /\ known[r] = input[r]
    BY <1>5, <2>1 DEF PrepareResume
  <2>2. CASE ~(corpus = input[r] /\ known[r] = input[r])
    BY <1>5, <2>2 DEF PrepareResume
  <2> QED
    BY <2>1, <2>2
<1>6. CASE Launch(r)
  BY <1>6 DEF Launch
<1>7. ASSUME NEW i \in Input, NEW b \in BOOLEAN, Start(r, i, b) PROVE Core'
  <2>1. resumes' \in [Run -> BOOLEAN] /\ input' \in [Run -> Input \cup {NoInput}]
    BY <1>7 DEF Start
  <2>2. known' \in [Run -> Input \cup {NoInput}]
    BY <1>7 DEF Start
  <2>3. starts' \in 0..MaxStarts
    BY <1>7, BoundsAssumption DEF Start
  <2> QED
    BY <1>7, <2>1, <2>2, <2>3 DEF Start
<1> HIDE DEF Core
<1> QED
  BY <1>0, <1>1, <1>2, <1>3, <1>4, <1>5, <1>6, <1>7 DEF Prepare

(* What they do after it.                                                  *)
LEMMA ConcludeKeeps ==
    ASSUME Core, NEW r \in Run,
           Conclude(r) \/ RetryLowerContext(r) \/ VerifyFails(r)
    PROVE  Core'
<1> USE RunAssumption, BoundsAssumption, ZeroWeights
    DEF Core, RunsOK, FilesOK, TrainerOK, LockOwner, Epoch, ExactPosition, Trains,
        At, Goto, Mark, Fail, Reap,
        Mishap, Steps, Holding, None, trainer, files, bounds
<1>1. CASE TrainingStopped(r)
  BY <1>1 DEF TrainingStopped
<1>2. CASE TrainingFailed(r)
  BY <1>2 DEF TrainingFailed
<1>3. CASE RetryLowerContext(r)
  BY <1>3 DEF RetryLowerContext
<1>4. CASE Collect(r)
  BY <1>4 DEF Collect
<1>5. CASE VerifyFails(r)
  BY <1>5 DEF VerifyFails
<1>6. CASE Complete(r)
  BY <1>6 DEF Complete
<1>7. CASE RemoveCorpus(r)
  BY <1>7 DEF RemoveCorpus
<1>8. CASE Release(r)
  BY <1>8 DEF Release
<1> HIDE DEF Core
<1> QED
  BY <1>1, <1>2, <1>3, <1>4, <1>5, <1>6, <1>7, <1>8 DEF Conclude

(* Publication, the lock, and a kill.                                      *)
LEMMA PublishKeeps ==
    ASSUME Core, NEW r \in Run, Publish(r) \/ Lock(r) \/ Kill(r)
    PROVE  Core'
<1> USE RunAssumption, BoundsAssumption
    DEF Core, RunsOK, FilesOK, TrainerOK, LockOwner, Epoch, ExactPosition, Trains,
        At, Goto, Mark, Mishap,
        Steps, Holding, trainer, files, bounds
<1>1. CASE ReadManifest(r)
  BY <1>1 DEF ReadManifest
<1>2. CASE MarkPublishing(r)
  BY <1>2 DEF MarkPublishing
<1>3. CASE EndPublication(r)
  BY <1>3 DEF EndPublication
<1>4. CASE Acquire(r, "lock", "mark")
  BY <1>4 DEF Acquire
<1>5. CASE Acquire(r, "relock", "publish")
  BY <1>5 DEF Acquire
<1>6. CASE Refuse(r, "lock") \/ Refuse(r, "relock")
  BY <1>6 DEF Refuse
<1>7. CASE Kill(r)
  BY <1>7 DEF Kill
<1> HIDE DEF Core
<1> QED
  BY <1>1, <1>2, <1>3, <1>4, <1>5, <1>6, <1>7 DEF Publish, Lock

(* The trainer.                                                            *)
LEMMA TrainerKeeps ==
    ASSUME Core, Trainer \/ SaveFails \/ TrainerFails
    PROVE  Core'
<1> USE RunAssumption, BoundsAssumption, SizeAssumption
    DEF Core, RunsOK, FilesOK, TrainerOK, LockOwner, Epoch, ExactPosition, Trains,
        Mishap, runners, trainer,
        files, bounds
<1>0. tpc = "callback" => /\ Taken \in [input : Input \cup {NoInput}, epoch : 0..Epochs - 1,
                                        record : 0..Records, weights : Weights]
                          /\ Taken.weights = Position(Taken.epoch, Taken.record)
  BY DEF Taken
<1>1. CASE LoadFresh
  <2>1. Position(0, 0) = 0
    BY DEF Position
  <2> QED
    BY <1>1, <2>1, ZeroWeights DEF LoadFresh
<1>2. CASE LoadSnapshot
  <2>1. weights' = Position(epoch', record')
    BY <1>2, NextEpoch DEF LoadSnapshot
  <2>2. /\ epoch' \in 0..Epochs /\ record' \in 0..Records /\ weights' \in Weights
        /\ lineage' \in Input \cup {NoInput}
        /\ epoch' = Epochs => record' = 0
    BY <1>2 DEF LoadSnapshot
  <2>3. (RunsOK /\ FilesOK /\ TrainerOK)'
    BY <1>2, <2>2 DEF LoadSnapshot
  <2>4. LockOwner' /\ Epoch' /\ ExactPosition'
    BY <1>2, <2>1, <2>2 DEF LoadSnapshot
  <2> QED
    BY <2>3, <2>4
<1>3. CASE TrainRecord
  <2>1. weights + 1 = Position(epoch, record + 1) /\ weights + 1 \in Weights
    BY <1>3, WithinTraining DEF TrainRecord
  <2> QED
    BY <1>3, <2>1 DEF TrainRecord
<1>4. CASE SaveRecord
  <2>1. FilesOK' /\ ExactPosition'
    BY <1>0, <1>4 DEF SaveRecord
  <2> QED
    BY <1>4, <2>1 DEF SaveRecord
<1>5. CASE PassRecord
  BY <1>5 DEF PassRecord
<1>6. CASE EndEpoch
  <2>1. weights' = Position(epoch', record')
    BY <1>6, NextEpoch DEF EndEpoch
  <2>2. trained' \in Weights /\ epoch' \in 0..Epochs /\ logged' \in Nat
    BY <1>6 DEF EndEpoch
  <2> QED
    BY <1>6, <2>1, <2>2 DEF EndEpoch
<1>7. CASE EndTraining
  BY <1>7 DEF EndTraining
<1>8. CASE SaveFails
  <2>1. FilesOK' /\ ExactPosition'
    BY <1>0, <1>8 DEF SaveFails
  <2> QED
    BY <1>8, <2>1 DEF SaveFails
<1>9. CASE TrainerFails
  BY <1>9 DEF TrainerFails
<1> HIDE DEF Core
<1> QED
  BY <1>1, <1>2, <1>3, <1>4, <1>5, <1>6, <1>7, <1>8, <1>9 DEF Trainer

(* Every step keeps the types, the lock's owner and the positions.         *)
LEMMA PositionStep == PositionInv /\ [Next]_vars => PositionInv'
<1> SUFFICES ASSUME PositionInv, [Next]_vars PROVE PositionInv'
  OBVIOUS
<1>1. FlagsOK'
  BY StepFlags DEF PositionInv, TypeOK, FlagsOK
<1>2. ASSUME AskStop \/ UNCHANGED vars PROVE Core'
  BY <1>2
  DEF PositionInv, TypeOK, Core, RunsOK, FilesOK, TrainerOK, LockOwner, Epoch, ExactPosition,
      Trains, AskStop, vars, runners, trainer, files, bounds
<1>3. Core
  BY DEF PositionInv, TypeOK, Core
<1>4. Core'
  BY <1>2, <1>3, PrepareKeeps, ConcludeKeeps, PublishKeeps, TrainerKeeps DEF Next, Runner
<1> QED
  BY <1>1, <1>4 DEF PositionInv, TypeOK, FlagsOK, Core

(* The state of a session and its trainer stay within their types, for any *)
(* number of runs, records and epochs: no record beyond the last one of an *)
(* epoch, no epoch beyond the last, and no adapter trained for longer.     *)
THEOREM SessionTypes == Spec => []TypeOK
<1>1. PositionInv => TypeOK
  BY DEF PositionInv
<1> QED
  BY <1>1, InitPosition, PositionStep, PTL DEF Spec

(* However often a training is stopped, killed, retried and resumed, the   *)
(* trainer and the snapshot have seen each record of each epoch up to      *)
(* their position exactly once.                                            *)
THEOREM SessionPosition == Spec => []ExactPosition
<1>1. PositionInv => ExactPosition
  BY DEF PositionInv
<1> QED
  BY <1>1, InitPosition, PositionStep, PTL DEF Spec

-----------------------------------------------------------------------------
(* TrainerInv without the types and the position.                          *)
TrainerFacts == LossWithin /\ BestIsWhole /\ DeliversWhole /\ LogCounts /\ LateUnsaved

(* A run changes what the trainer relies on only while no trainer runs.    *)
LEMMA RunsKeepFacts ==
    ASSUME PositionInv, TrainerFacts, NEW r \in Run,
           \/ Runner(r) \/ RetryLowerContext(r) \/ VerifyFails(r) \/ Kill(r)
           \/ \E i \in Input, b \in BOOLEAN : Start(r, i, b)
    PROVE  TrainerFacts'
<1> USE RunAssumption
    DEF PositionInv, TypeOK, RunsOK, FilesOK, TrainerOK, LockOwner, Trains, TrainerFacts,
        LossWithin, BestIsWhole, DeliversWhole, LogCounts, LateUnsaved, At, Goto, Mark, Fail, Reap,
        Reported, Holding, None, files, trainer, bounds
<1>0. CASE Reject(r) \/ PrepareFails(r)
  BY <1>0, BoundsAssumption DEF Reject, PrepareFails, Mishap
<1>1. CASE Preflight(r)
  BY <1>1 DEF Preflight
<1>2. CASE MarkTraining(r)
  BY <1>2 DEF MarkTraining
<1>3. CASE PrepareFresh(r)
  BY <1>3 DEF PrepareFresh
<1>4. CASE RecordSettings(r)
  BY <1>4 DEF RecordSettings
<1>5. CASE PrepareResume(r)
  BY <1>5 DEF PrepareResume
<1>6. CASE Launch(r)
  BY <1>6 DEF Launch
<1>7. ASSUME NEW i \in Input, NEW b \in BOOLEAN, Start(r, i, b) PROVE TrainerFacts'
  BY <1>7 DEF Start
<1>8. CASE TrainingStopped(r) \/ TrainingFailed(r) \/ RetryLowerContext(r)
  BY <1>8 DEF TrainingStopped, TrainingFailed, RetryLowerContext
<1>9. CASE Collect(r)
  BY <1>9 DEF Collect
<1>10. CASE VerifyFails(r) \/ Complete(r)
  BY <1>10 DEF VerifyFails, Complete
<1>11. CASE RemoveCorpus(r)
  BY <1>11 DEF RemoveCorpus
<1>12. CASE Release(r)
  BY <1>12 DEF Release
<1>13. CASE Publish(r)
  BY <1>13 DEF Publish, ReadManifest, MarkPublishing, EndPublication
<1>14. CASE Lock(r)
  BY <1>14 DEF Lock, Acquire, Refuse
<1>15. CASE Kill(r)
  BY <1>15 DEF Kill
<1> HIDE DEF TrainerFacts
<1> QED
  BY <1>0, <1>1, <1>2, <1>3, <1>4, <1>5, <1>6, <1>7, <1>8, <1>9, <1>10, <1>11, <1>12, <1>13,
     <1>14, <1>15
  DEF Runner, Prepare, Conclude

(* What the trainer itself does to each of them.                           *)
LEMMA WeightsAreNumbers == Weights \subseteq Nat
BY DEF Weights

(* The work since the last good save is within the epoch: the end of an    *)
(* epoch is passed only with a save, or with one that has failed.          *)
LEMMA TrainerKeepsLoss ==
    ASSUME PositionInv, LossWithin, Trainer \/ SaveFails \/ TrainerFails
    PROVE  LossWithin'
<1>0. /\ weights \in Nat /\ record \in 0..Records
      /\ snapshot.weights \in Nat /\ Records \in Nat \ {0}
  BY SizeAssumption, WeightsAreNumbers DEF PositionInv, TypeOK, FilesOK, TrainerOK
<1> USE <1>0 DEF Trains, LossWithin, files
<1>1. CASE LoadFresh \/ LoadSnapshot
  <2>1. snapshot' = snapshot /\ weights' \in {0, snapshot.weights} /\ record' \in 0..Records
    BY <1>1 DEF LoadFresh, LoadSnapshot, PositionInv, TypeOK, FilesOK
  <2>2. record' = Records => weights' = snapshot.weights \/ weights' = 0
    BY <2>1
  <2> QED
    BY <2>1, <2>2
<1>2. CASE TrainRecord
  BY <1>2 DEF TrainRecord
<1>3. CASE SaveRecord
  <2>1. snapshot'.weights = weights /\ weights' = weights /\ record' = record
    BY <1>3 DEF SaveRecord, Taken
  <2> QED
    BY <2>1
<1>4. CASE PassRecord
  BY <1>4 DEF PassRecord, MustSave
<1>5. CASE EndEpoch
  <2>1. /\ tpc = "train" /\ record = Records /\ record' = 0
        /\ UNCHANGED <<tpc, unsaved, weights, snapshot>>
    BY <1>5 DEF EndEpoch
  <2> QED
    BY <2>1
<1>6. CASE EndTraining
  BY <1>6 DEF EndTraining
<1>7. CASE SaveFails \/ TrainerFails
  BY <1>7 DEF SaveFails, TrainerFails
<1> HIDE DEF LossWithin
<1> QED
  BY <1>1, <1>2, <1>3, <1>4, <1>5, <1>6, <1>7 DEF Trainer

(* The best adapter is written at the end of an epoch only.                *)
LEMMA TrainerKeepsWhole ==
    ASSUME PositionInv, BestIsWhole, DeliversWhole, Trainer \/ SaveFails \/ TrainerFails
    PROVE  BestIsWhole' /\ DeliversWhole'
<1> USE DEF PositionInv, TypeOK, FilesOK, TrainerOK, Trains, BestIsWhole, DeliversWhole, runners,
            files
<1>1. CASE LoadFresh \/ LoadSnapshot
  BY <1>1 DEF LoadFresh, LoadSnapshot
<1>2. CASE TrainRecord \/ SaveRecord \/ PassRecord
  BY <1>2 DEF TrainRecord, SaveRecord, PassRecord
<1>3. CASE EndEpoch
  <2>1. weights = (epoch + 1) * Records
    BY <1>3, NextEpoch DEF EndEpoch, ExactPosition
  <2>2. weights \in WholeEpochs
    BY <1>3, <2>1, SizeAssumption DEF EndEpoch, WholeEpochs
  <2> QED
    BY <1>3, <2>2 DEF EndEpoch
<1>4. CASE EndTraining
  <2>1. weights = Position(Epochs, 0)
    BY <1>4 DEF EndTraining, ExactPosition, Epoch
  <2>2. Epochs * Records \in Nat
    BY SizeAssumption
  <2>3. weights = Epochs * Records
    BY <2>1, <2>2 DEF Position
  <2>4. weights \in WholeEpochs
    BY <2>3, SizeAssumption DEF WholeEpochs
  <2> QED
    BY <1>4, <2>3, <2>4 DEF EndTraining
<1>5. CASE SaveFails \/ TrainerFails
  BY <1>5 DEF SaveFails, TrainerFails
<1> QED
  BY <1>1, <1>2, <1>3, <1>4, <1>5 DEF Trainer

(* One report an epoch; and no trainer passes a stop request by unless its *)
(* save has failed.                                                        *)
LEMMA TrainerKeepsLog ==
    ASSUME PositionInv, LogCounts, LateUnsaved, Trainer \/ SaveFails \/ TrainerFails
    PROVE  LogCounts' /\ LateUnsaved'
<1> USE DEF PositionInv, TypeOK, FilesOK, TrainerOK, Trains, LogCounts, LateUnsaved, runners,
            files
<1>1. CASE LoadFresh
  BY <1>1 DEF LoadFresh
<1>2. CASE LoadSnapshot
  BY <1>2 DEF LoadSnapshot
<1>3. CASE TrainRecord
  BY <1>3 DEF TrainRecord
<1>4. CASE SaveRecord
  BY <1>4 DEF SaveRecord
<1>5. CASE PassRecord
  BY <1>5 DEF PassRecord, MustSave
<1>6. CASE EndEpoch
  BY <1>6 DEF EndEpoch
<1>7. CASE EndTraining
  BY <1>7 DEF EndTraining
<1>8. CASE SaveFails \/ TrainerFails
  BY <1>8 DEF SaveFails, TrainerFails
<1> HIDE DEF LogCounts, LateUnsaved
<1> QED
  BY <1>1, <1>2, <1>3, <1>4, <1>5, <1>6, <1>7, <1>8 DEF Trainer

(* Every step keeps the trainer's invariant.                               *)
LEMMA TrainerStep == TrainerInv /\ [Next]_vars => TrainerInv'
<1> SUFFICES ASSUME TrainerInv, [Next]_vars PROVE TrainerInv'
  OBVIOUS
<1>1. PositionInv /\ TrainerFacts /\ PositionInv'
  BY PositionStep DEF TrainerInv, TrainerFacts
<1>2. ASSUME Trainer \/ SaveFails \/ TrainerFails PROVE TrainerFacts'
  BY <1>1, <1>2, TrainerKeepsLoss, TrainerKeepsWhole, TrainerKeepsLog DEF TrainerFacts
<1>3. ASSUME AskStop \/ UNCHANGED vars PROVE TrainerFacts'
  BY <1>1, <1>3
  DEF TrainerFacts, LossWithin, BestIsWhole, DeliversWhole, LogCounts, LateUnsaved, Trains,
      AskStop, vars, runners, files, trainer, bounds
<1>4. TrainerFacts'
  BY <1>1, <1>2, <1>3, RunsKeepFacts DEF Next
<1> QED
  BY <1>1, <1>4 DEF TrainerInv, TrainerFacts

(* No trainer runs at first.                                               *)
LEMMA InitTrainer == Init => TrainerInv
BY InitPosition
DEF Init, TrainerInv, LossWithin, BestIsWhole, DeliversWhole, LogCounts, LateUnsaved, Trains

(* A kill or a failure costs the work of one epoch at most, unless a save  *)
(* has failed.                                                             *)
THEOREM SessionLoss == Spec => []LossBounded
<1>1. TrainerInv => LossBounded
  <2> SUFFICES ASSUME TrainerInv, Trains, ~unsaved
               PROVE  weights <= snapshot.weights + Records
    BY DEF LossBounded
  <2>1. weights \in Nat /\ record \in 0..Records /\ snapshot.weights \in Nat
    BY WeightsAreNumbers DEF TrainerInv, PositionInv, TypeOK, FilesOK, TrainerOK
  <2> QED
    BY <2>1, SizeAssumption DEF TrainerInv, LossWithin
<1> QED
  BY <1>1, InitTrainer, TrainerStep, PTL DEF Spec

(* A trainer that has ended well was trained to the last record, and what  *)
(* its run delivers is the adapter of a whole epoch.                       *)
THEOREM SessionDelivery == Spec => []DeliversWhole
<1>1. TrainerInv => DeliversWhole
  BY DEF TrainerInv
<1> QED
  BY <1>1, InitTrainer, TrainerStep, PTL DEF Spec

(* A training that was never resumed is not turned down for its log.       *)
THEOREM SessionFreshCounts == Spec => []FreshRunCounts
<1>1. TrainerInv => FreshRunCounts
  BY DEF TrainerInv, PositionInv, LogCounts, FreshRunCounts, Trains, Epoch, Reported
<1> QED
  BY <1>1, InitTrainer, TrainerStep, PTL DEF Spec

(* A stop request costs one more record at most, unless the save fails.    *)
THEOREM SessionStopsPromptly == Spec => StopsPromptly
<1>1. TrainerInv /\ [Next]_vars => [TrainRecord /\ late => unsaved]_vars
  BY DEF TrainerInv, LateUnsaved, TrainRecord
<1> QED
  BY <1>1, InitTrainer, TrainerStep, PTL DEF Spec, StopsPromptly

-----------------------------------------------------------------------------
(* The files a resume needs.                                               *)
LEMMA RunsKeepOwn ==
    ASSUME PositionInv, Own, StoppedIsResumable, NEW r \in Run,
           \/ Runner(r) \/ RetryLowerContext(r) \/ VerifyFails(r) \/ Kill(r)
           \/ \E i \in Input, b \in BOOLEAN : Start(r, i, b)
    PROVE  Own' /\ StoppedIsResumable'
<1> USE RunAssumption, InputAssumption
    DEF PositionInv, TypeOK, RunsOK, FilesOK, TrainerOK, LockOwner, Own, StoppedIsResumable, At,
        Goto, Mark, Fail, Reap, Holding, files, trainer
<1>0. CASE Reject(r) \/ PrepareFails(r)
  BY <1>0, BoundsAssumption DEF Reject, PrepareFails, Mishap
<1>1. CASE Preflight(r)
  BY <1>1 DEF Preflight
<1>2. CASE MarkTraining(r)
  BY <1>2 DEF MarkTraining
<1>3. CASE PrepareFresh(r)
  BY <1>3 DEF PrepareFresh
<1>4. CASE RecordSettings(r)
  BY <1>4 DEF RecordSettings
<1>5. CASE PrepareResume(r)
  BY <1>5 DEF PrepareResume
<1>6. CASE Launch(r)
  BY <1>6 DEF Launch
<1>7. ASSUME NEW i \in Input, NEW b \in BOOLEAN, Start(r, i, b)
      PROVE  Own' /\ StoppedIsResumable'
  BY <1>7 DEF Start
<1>8. CASE TrainingStopped(r)
  BY <1>8 DEF TrainingStopped
<1>9. CASE TrainingFailed(r) \/ RetryLowerContext(r)
  BY <1>9 DEF TrainingFailed, RetryLowerContext
<1>10. CASE Collect(r)
  BY <1>10 DEF Collect
<1>11. CASE VerifyFails(r) \/ Complete(r)
  BY <1>11 DEF VerifyFails, Complete
<1>12. CASE RemoveCorpus(r)
  BY <1>12 DEF RemoveCorpus
<1>13. CASE Release(r)
  BY <1>13 DEF Release
<1>14. CASE Publish(r)
  BY <1>14 DEF Publish, ReadManifest, MarkPublishing, EndPublication
<1>15. CASE Lock(r)
  BY <1>15 DEF Lock, Acquire, Refuse
<1>16. CASE Kill(r)
  BY <1>16 DEF Kill
<1> HIDE DEF Own, StoppedIsResumable
<1> QED
  BY <1>0, <1>1, <1>2, <1>3, <1>4, <1>5, <1>6, <1>7, <1>8, <1>9, <1>10, <1>11, <1>12, <1>13,
     <1>14, <1>15, <1>16
  DEF Runner, Prepare, Conclude

(* The trainer writes none of them but the snapshot.                       *)
LEMMA TrainerKeepsOwn ==
    ASSUME PositionInv, Own, StoppedIsResumable, Trainer \/ SaveFails \/ TrainerFails
    PROVE  Own' /\ StoppedIsResumable'
<1> USE RunAssumption
    DEF PositionInv, TypeOK, FilesOK, TrainerOK, LockOwner, Own, StoppedIsResumable, runners,
        files
<1>1. CASE SaveRecord
  <2>1. snapshot' # NoSnapshot /\ snapshot'.weights = weights'
    BY <1>1 DEF SaveRecord, Taken, NoSnapshot, Epoch
  <2>2. Own'
    BY <1>1, <2>1 DEF SaveRecord
  <2> QED
    BY <1>1, <2>1, <2>2 DEF SaveRecord
<1>2. CASE LoadFresh \/ LoadSnapshot \/ TrainRecord \/ PassRecord
  BY <1>2 DEF LoadFresh, LoadSnapshot, TrainRecord, PassRecord
<1>3. CASE EndEpoch \/ EndTraining
  BY <1>3 DEF EndEpoch, EndTraining
<1>4. CASE SaveFails \/ TrainerFails
  BY <1>4 DEF SaveFails, TrainerFails, Taken, NoSnapshot, Epoch
<1> HIDE DEF Own, StoppedIsResumable
<1> QED
  BY <1>1, <1>2, <1>3, <1>4 DEF Trainer

(* Every step keeps the session's files together.                          *)
LEMMA SessionStep == SessionInv /\ [Next]_vars => SessionInv'
<1> SUFFICES ASSUME SessionInv, [Next]_vars PROVE SessionInv'
  OBVIOUS
<1>1. PositionInv /\ Own /\ StoppedIsResumable /\ PositionInv'
  BY PositionStep DEF SessionInv
<1>2. ASSUME AskStop \/ UNCHANGED vars PROVE Own' /\ StoppedIsResumable'
  BY <1>1, <1>2
  DEF Own, StoppedIsResumable, AskStop, vars, runners, files, trainer
<1>3. Own' /\ StoppedIsResumable'
  BY <1>1, <1>2, RunsKeepOwn, TrainerKeepsOwn DEF Next
<1> QED
  BY <1>1, <1>3 DEF SessionInv

(* A session that does not exist yet is not stopped.                       *)
LEMMA InitSession == Init => SessionInv
BY InitPosition DEF Init, SessionInv, Own, StoppedIsResumable

(* A trainer stops on request with all it has trained saved, and a session *)
(* is called stopped only when a resume finds what it needs.               *)
THEOREM SessionResumable == Spec => []StoppedIsResumable
<1>1. SessionInv => StoppedIsResumable
  BY DEF SessionInv
<1> QED
  BY <1>1, InitSession, SessionStep, PTL DEF Spec
====

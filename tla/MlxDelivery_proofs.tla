---- MODULE MlxDelivery_proofs ----
(***************************************************************************)
(* Proofs about MlxSession, for any number of osAi processes and failures: *)
(* what a manifest calls completed is there, and fused weights that exist  *)
(* stay reachable.                                                         *)
(***************************************************************************)
EXTENDS MlxSession_proofs

-----------------------------------------------------------------------------
(* What a run has made at each of its steps.                               *)
Deployed == MergeSteps \cup {"complete"}
Rechecked == Deployed \cup {"publish", "deploy"}
Converted == Rechecked \cup {"recheck"}
Taken == Converted \cup {"losses", "evaluate", "convert"}

(* The base only gets newer.                                               *)
Since(r, a) == seen[r] <= a.on /\ a.on <= base

(* The trainer of a run on media saves the adapter itself, and has done so *)
(* when it ends well.                                                      *)
HasOwn(r) == adapter # NoAdapter /\ adapter.run = r
Trying(r) == IF job[r].media
             THEN HasOwn(r) => Since(r, adapter) /\ adapter.of = settings[r]
             ELSE \A a \in attempts : Since(r, a)
Ended(r) == /\ job[r].media
            /\ rpc[r] = "take" \/ (rpc[r] = "train" /\ child[r] = "zero")
Having(r) == /\ HasOwn(r) /\ adapter.of = settings[r] /\ Since(r, adapter)
             /\ ~job[r].media => ~reserved
Making(r) ==
    /\ rpc[r] \in Attempting => Trying(r)
    /\ Ended(r) => HasOwn(r)
    /\ rpc[r] \in Taken => Having(r)
    /\ rpc[r] \in Converted /\ job[r].target = "gguf" => converted = adapter
    /\ rpc[r] \in Rechecked => adapter.on = seen[r]
    /\ rpc[r] \in Deployed => deployed = adapter
MakeOrder == \A r \in Run : /\ seen[r] <= base
                            /\ mode[r] = "mlx" => Making(r)

(* A native run, and each kind of merge, has steps of its own.             *)
OnlyNative == {"native", "hand over", "publish lock"}
OnlyMlx == {"embedding", "to verify", "verify", "aside", "install", "drop"}
OnlyGguf == {"replace", "reembed", "to load", "load", "to cpu", "load on cpu"}
PathOrder == \A r \in Run : /\ rpc[r] \in OnlyNative => mode[r] = "native"
                            /\ rpc[r] \in OnlyMlx => Kind(r) = "mlx"
                            /\ rpc[r] \in OnlyGguf => Kind(r) = "gguf"

(* The bundle under construction is that of the merge under way.           *)
StageOrder == stage # NoModel => \E r \in Run : rpc[r] \in MergeSteps \ {"embed"}

(* What the merge has done to the bundle at each of its steps.             *)
Bundle(adapted, weighted) == [adapter |-> adapted, weights |-> weighted]
MergedWell(r) == job[r].merge => /\ model[job[r].target] = Bundle(adapter, adapter)
                           /\ checked[job[r].target] = adapter

MergingGguf(r) ==
    /\ rpc[r] \in {"to export", "export", "replace"} /\ stage # NoModel => stage.adapter = adapter
    /\ At(r, "reembed") => /\ Under("gguf").weights = adapter
                           /\ stage # NoModel => stage.adapter = adapter
    /\ rpc[r] \in {"to load", "load", "to cpu", "load on cpu", "appear"} =>
          Under("gguf") = Bundle(adapter, adapter)
    /\ At(r, "appear") => checked.gguf = adapter

(* New weights take their place when the old ones have left it, and a new  *)
(* bundle has none before.                                                 *)
MergingMlx(r) ==
    /\ rpc[r] \in {"to verify", "verify", "to export", "export", "aside", "install", "drop",
                   "appear"} => Under("mlx").adapter = adapter
    /\ rpc[r] \in {"to export", "export", "aside", "install", "drop", "appear"} =>
          checked.mlx = adapter
    /\ rpc[r] \in {"drop", "appear"} => Under("mlx").weights = adapter
    /\ At(r, "embedding") => stage = NoModel
    /\ At(r, "aside") => Under("mlx").weights # NoAdapter
    /\ At(r, "install") => Under("mlx").weights = NoAdapter
    /\ rpc[r] \in MergeSteps /\ stage # NoModel => model.mlx = NoModel
    /\ rpc[r] \in {"to verify", "verify", "to export", "export", "aside"} /\ stage # NoModel =>
          stage.weights = NoAdapter

MergeOrder == /\ \A r \in Run : mode[r] = "mlx" =>
                    /\ job[r].target = "gguf" => MergingGguf(r)
                    /\ job[r].target = "mlx" => MergingMlx(r)
                    /\ At(r, "complete") => MergedWell(r)
              /\ previous # NoAdapter => model.mlx # NoModel

(* Nobody who owns the lock and has begun to work leaves a manifest that   *)
(* says "completed"; who reads it so finds no trainer of that run.         *)
Begun == Holding \ {"inspect", "native", "publish", "fail", "release"}
CompletedOrder ==
    /\ \A r \in Run : rpc[r] \in Begun => manifest.status # "completed"
    /\ manifest.status = "completed" =>
          /\ manifest.by \in Run /\ ~Trains(manifest.by)
          /\ mode[manifest.by] = "mlx" /\ ~job[manifest.by].media => ~reserved

DeliveryInv == /\ WorkInv /\ MakeOrder /\ PathOrder /\ StageOrder /\ MergeOrder
               /\ CompletedOrder /\ CompletedDelivers

-----------------------------------------------------------------------------
(* A step of one run leaves the others where they are.                     *)
StepOf(s) == \/ Entering(s) \/ Working(s) \/ Calling(s) \/ Returning(s) \/ Bundling(s)
             \/ Listening(s) \/ Others(s)
Untouched(q) == /\ rpc'[q] = rpc[q] /\ mode'[q] = mode[q]
                /\ settings'[q] = settings[q] /\ seen'[q] = seen[q]

(* A step of one run leaves the step, the mode and the settings of the     *)
(* others.                                                                 *)
LEMMA Untouching ==
    ASSUME TypeOK, NEW s \in Run, StepOf(s), NEW q \in Run, q # s
    PROVE  Untouched(q) /\ UNCHANGED <<job, base>> /\ child'[q] = child[q]
<1>0. child'[q] = child[q]
  <2>1. UNCHANGED process => child'[q] = child[q]
    BY DEF process
  <2>2. child \in [Run -> {"none", "running", "zero", "nonzero", "memory"}]
    BY DEF TypeOK, CallsOK
  <2>3. CASE Calling(s)
    <3>1. \E what \in Calls : Launch(s, what) \/ LaunchFails(s, what)
      BY <2>3, CallingLaunches
    <3> QED
      BY <2>2, <3>1 DEF Launch, LaunchFails
  <2>4. CASE Returning(s)
    BY <2>2, <2>4, ReturningInside DEF Returned
  <2>5. CASE Listening(s)
    BY <2>2, <2>5 DEF Listening, ReadLine, EndOfOutput, LogFails, Interrupted, Terminate, Prints, Exits
  <2>6. CASE RunsOutOfMemory(s) \/ Kill(s)
    BY <2>2, <2>6 DEF RunsOutOfMemory, Exits, Kill, Killed
  <2>7. CASE Entering(s) \/ Working(s) \/ Bundling(s) \/ TrainerSaves(s) \/ PublishCheckpoint(s)
             \/ NativeTrains(s)
    BY <2>1, <2>7, EnteringAlone, WorkingInside, BundlingInside
       DEF Alone, TrainerSaves, PublishCheckpoint, NativeTrains
  <2> QED
    BY <2>3, <2>4, <2>5, <2>6, <2>7 DEF StepOf, Others
<1> SUFFICES Untouched(q) /\ UNCHANGED <<job, base>>
  BY <1>0
<1>1. /\ rpc \in [Run -> Steps] /\ mode \in [Run -> {"mlx", "native"}]
      /\ settings \in [Run -> Settings] /\ seen \in [Run -> Versions]
  BY DEF TypeOK, RunsOK
<1>2. CASE Entering(s)
  <2>1. UNCHANGED <<job, base>>
    BY <1>2, EnteringAlone DEF Alone
  <2>2. ASSUME NEW kind, Leave(s, kind) PROVE Untouched(q)
    BY <1>1, <2>2 DEF Leave, Goto, Untouched
  <2>3. CASE Start(s) \/ Preflight(s) \/ Acquire(s)
    BY <2>1, <1>1, <2>3 DEF Start, Preflight, Acquire, Goto, Stays, Untouched
  <2>4. CASE Refuse(s)
    BY <2>1, <2>2, <2>4 DEF Refuse
  <2>5. CASE Release(s)
    BY <2>1, <1>1, <2>2, <2>5 DEF Release, Goto, Stays, Untouched
  <2> QED
    BY <1>2, <2>1, <2>3, <2>4, <2>5 DEF Entering
<1>3. CASE Working(s)
  <2>1. rpc'[q] = rpc[q] /\ UNCHANGED <<job, base>>
    BY <1>1, <1>3, WorkingInside DEF Inside, Goto, Alone
  <2> USE <1>3 DEF Working, Inspect, InspectFails, Probe, ProbeFails, PrepareData, PrepareDataFails,
                   TakeAdapter, NoLoss, SkipEvaluation, Convert, ConvertFails, Recheck,
                   MarkPublishing, Deploy, DeployFails, Complete, Fail, NativeFails, Stays
  <2>2. UNCHANGED mode
    OBVIOUS
  <2>3. UNCHANGED seen \/ seen' = [seen EXCEPT ![s] = base]
    OBVIOUS
  <2>4. UNCHANGED settings \/ settings' = [settings EXCEPT ![s] = First]
    OBVIOUS
  <2> QED
    BY <1>1, <2>1, <2>2, <2>3, <2>4 DEF Untouched
<1>4. CASE Calling(s)
  BY <1>1, <1>4 DEF Calling, Evaluate, Call, CallFails, Goto, Stays, Untouched
<1>5. CASE Returning(s)
  <2>1. rpc'[q] = rpc[q] /\ UNCHANGED <<job, base, mode, seen>>
    BY <1>1, <1>5, ReturningInside DEF Inside, Goto
  <2>2. UNCHANGED settings \/ settings' = [settings EXCEPT ![s] = Lower(settings[s])]
    BY <1>5 DEF Returning, TrainAgain, TrainingFails, TrainingEnds, Evaluated, Verified, Exported,
                Loaded, LoadAgain, MergeCallFails
  <2> QED
    BY <1>1, <2>1, <2>2 DEF Untouched
<1>6. CASE Bundling(s)
  BY <1>1, <1>6, BundlingInside DEF Inside, Goto, Stays, Untouched
<1>7. CASE Listening(s) \/ TrainerSaves(s) \/ RunsOutOfMemory(s) \/ PublishCheckpoint(s)
  BY <1>7 DEF Listening, CallOnly, session, runner, TrainerSaves, RunsOutOfMemory, PublishCheckpoint,
              Alone, Untouched
<1>8. CASE NativeTrains(s) \/ Kill(s)
  BY <1>1, <1>8 DEF NativeTrains, Kill, Goto, Stays, Untouched
<1> QED
  BY <1>2, <1>3, <1>4, <1>5, <1>6, <1>7, <1>8 DEF StepOf, Others

(* A run that works sees the others come and go, their orphans, and its own*)
(* child end.                                                              *)
Guest(q) == /\ Untouched(q) /\ UNCHANGED job
            /\ base' = base \/ (base = 0 /\ base' = 1)
            /\ Ended(q)' => Ended(q) \/ (HasOwn(q) /\ UNCHANGED adapter)
            /\ rpc[q] \in Holding =>
                  /\ UNCHANGED <<model, stage, previous, checked, converted, deployed, reserved>>
                  /\ UNCHANGED attempts \/ \E s \in Run \ {q} : Trains(s) /\ ~job[s].media
                  /\ UNCHANGED adapter \/ \E s \in Run \ {q} : Trains(s) /\ job[s].media
Own(q) == \/ Entering(q) \/ Working(q) \/ Calling(q) \/ Returning(q) \/ Bundling(q)
          \/ TrainerSaves(q) \/ PublishCheckpoint(q) \/ NativeTrains(q) \/ Kill(q)

(* To a run, every step is its own or that of others, who leave what it    *)
(* works on.                                                               *)
LEMMA GuestOrOwn ==
    ASSUME WorkInv, [Next]_vars, NEW q \in Run
    PROVE  Guest(q) \/ Own(q)
<1>1. TypeOK /\ LockOwner
  BY DEF WorkInv
<1>2. UNCHANGED vars \/ BaseChanges => Guest(q)
  BY DEF vars, session, BaseChanges, merging, runner, folder, process, Guest, Untouched, Ended
<1>3. Listening(q) \/ RunsOutOfMemory(q) => Guest(q)
  <2> SUFFICES ASSUME Listening(q) \/ RunsOutOfMemory(q) PROVE Guest(q)
    OBVIOUS
  <2>1. /\ Untouched(q) /\ UNCHANGED <<job, base>>
        /\ UNCHANGED <<model, stage, previous, checked, converted, deployed, reserved, attempts, adapter>>
    BY DEF Listening, CallOnly, session, RunsOutOfMemory, merging, runner, folder, Untouched
  <2>2. /\ child \in [Run -> {"none", "running", "zero", "nonzero", "memory"}]
        /\ rpc[q] = "train" => task[q] = "train"
    BY <1>1 DEF TypeOK, CallsOK, WorkInv, CallOrder, Waits, Calls
  <2>3. rpc[q] = "train" /\ job[q].media /\ child'[q] = "zero" => child[q] = "zero" \/ HasOwn(q)
    <3>1. CASE ReadLine(q) \/ EndOfOutput(q) \/ LogFails(q) \/ Interrupted(q) \/ Prints(q)
      BY <2>2, <3>1 DEF ReadLine, EndOfOutput, LogFails, Interrupted, Terminate, Prints
    <3>2. CASE Exits(q, "nonzero") \/ Exits(q, "memory")
      BY <2>2, <3>2 DEF Exits
    <3>3. CASE Exits(q, "zero") /\ (task[q] = "train" => Saved(q))
      BY <2>2, <3>3 DEF Saved, HasOwn
    <3> QED
      BY <3>1, <3>2, <3>3 DEF Listening, RunsOutOfMemory
  <2> QED
    BY <2>1, <2>3 DEF Guest, Untouched, Ended
<1>4. ASSUME NEW s \in Run \ {q}, StepOf(s) PROVE Guest(q)
  <2>1. Untouched(q) /\ UNCHANGED <<job, base>> /\ (Ended(q)' => Ended(q))
    BY <1>1, <1>4, Untouching DEF Untouched, Ended
  <2>2. rpc[s] \in Holding => rpc[q] \notin Holding
    BY <1>1 DEF LockOwner
  <2>3. CASE Entering(s) \/ Listening(s) \/ RunsOutOfMemory(s)
    <3>1. UNCHANGED merging /\ UNCHANGED <<converted, deployed, adapter, attempts, reserved>>
      BY <2>3, EnteringAlone DEF Alone, SameFolder, Listening, CallOnly, session, folder,
                                 RunsOutOfMemory
    <3> QED
      BY <2>1, <3>1 DEF Guest, merging
  <2>4. CASE Working(s) \/ Calling(s) \/ Returning(s) \/ Bundling(s)
    BY <2>1, <2>2, <2>4, WorkingInside, CallingInside, ReturningInside, BundlingInside
       DEF Inside, Guest
  <2>5. CASE PublishCheckpoint(s) \/ NativeTrains(s)
    BY <2>1, <2>2, <2>5 DEF PublishCheckpoint, NativeTrains, At, Holding, Calls, Guest
  <2>6. CASE TrainerSaves(s)
    BY <2>1, <2>6 DEF TrainerSaves, Trains, Alone, merging, Guest
  <2>7. CASE Kill(s)
    <3>1. rpc[q] \in Holding => UNCHANGED merging
      BY <1>1, <1>4, <2>7 DEF Kill, LockOwner
    <3>2. UNCHANGED <<converted, deployed, adapter, attempts, reserved>>
      BY <2>7 DEF Kill, SameFolder, folder
    <3> QED
      BY <2>1, <3>1, <3>2 DEF Guest, merging
  <2> QED
    BY <1>4, <2>3, <2>4, <2>5, <2>6, <2>7 DEF StepOf, Others
<1> QED
  BY <1>2, <1>3, <1>4, NextCases DEF StepOf, Others, Own

-----------------------------------------------------------------------------
(* Each kind of merge goes its own way.                                    *)
LEMMA PathStep == ASSUME WorkInv, PathOrder, [Next]_vars PROVE PathOrder'
<1> DEFINE Path(q) == /\ rpc[q] \in OnlyNative => mode[q] = "native"
                      /\ rpc[q] \in OnlyMlx => Kind(q) = "mlx"
                      /\ rpc[q] \in OnlyGguf => Kind(q) = "gguf"
           Ways == OnlyNative \cup OnlyMlx \cup OnlyGguf
<1> SUFFICES ASSUME NEW q \in Run PROVE Path(q)'
  BY DEF PathOrder
<1>1. /\ rpc \in [Run -> Steps] /\ mode \in [Run -> {"mlx", "native"}]
      /\ job[q].target \in {"mlx", "gguf"} /\ Path(q)
  BY JobsAssumption DEF WorkInv, TypeOK, RunsOK, PathOrder, Kinds
<1>2. ASSUME NEW pc \in Steps \ Ways, Goto(q, pc) PROVE Path(q)'
  BY <1>1, <1>2 DEF Goto
<1>3. ASSUME rpc'[q] = rpc[q], mode'[q] = mode[q], UNCHANGED job PROVE Path(q)'
  BY <1>1, <1>3 DEF Kind
<1>4. ASSUME NEW from \in Steps, NEW pc \in Steps, At(q, from), Goto(q, pc), mode' = mode, job' = job,
             from \in OnlyNative \/ pc \notin OnlyNative,
             from \in OnlyMlx \/ pc \notin OnlyMlx \/ Kind(q) = "mlx",
             from \in OnlyGguf \/ pc \notin OnlyGguf \/ Kind(q) = "gguf"
      PROVE  Path(q)'
  BY <1>1, <1>4 DEF At, Goto, Kind
<1>5. CASE Guest(q)
  BY <1>3, <1>5 DEF Guest, Untouched
<1>6. CASE Entering(q)
  <2> USE DEF Steps, Holding, OnlyNative, OnlyMlx, OnlyGguf
  <2>1. ASSUME NEW kind, Leave(q, kind) PROVE Path(q)'
    <3>1. \E pc \in {"ended", "preflight"} : Goto(q, pc)
      BY <2>1, Zenon DEF Leave
    <3> QED
      BY <1>2, <3>1
  <2>2. CASE Start(q) \/ Preflight(q)
    BY <1>2, <2>2 DEF Start, Preflight
  <2>3. CASE Acquire(q)
    <3>1. \/ \E pc \in {"publish", "inspect"} : Goto(q, pc)
          \/ Goto(q, "native") /\ mode[q] # "mlx" /\ UNCHANGED mode
      BY <2>3 DEF Acquire
    <3> QED
      BY <1>1, <1>2, <3>1 DEF Goto
  <2>4. CASE Refuse(q)
    BY <2>1, <2>4 DEF Refuse
  <2>5. CASE Release(q)
    <3>1. CASE At(q, "hand over")
      <4>1. Goto(q, "publish lock") /\ UNCHANGED mode
        BY <2>5, <3>1 DEF Release, At
      <4> QED
        BY <1>1, <3>1, <4>1 DEF At, Goto
    <3> QED
      BY <2>1, <2>5, <3>1 DEF Release, At
  <2> QED
    BY <1>6, <2>2, <2>3, <2>4, <2>5 DEF Entering
<1>7. CASE Working(q)
  <2>1. \E pc \in Steps \ Ways : Goto(q, pc)
    BY <1>7 DEF Working, Inspect, InspectFails, Probe, ProbeFails, PrepareData, PrepareDataFails,
                TakeAdapter, NoLoss, SkipEvaluation, Convert, ConvertFails, Recheck, MarkPublishing,
                Deploy, DeployFails, Complete, Fail, NativeFails, Raise, Steps, Holding, OnlyNative,
                OnlyMlx, OnlyGguf
  <2> QED
    BY <1>2, <2>1
<1>8. CASE Calling(q)
  BY <1>4, <1>8 DEF Calling, Evaluate, Call, CallFails, Steps, Holding, Calls, OnlyNative, OnlyMlx,
                    OnlyGguf
<1>9. CASE Returning(q)
  <2> USE DEF Steps, Holding, Calls, OnlyNative, OnlyMlx, OnlyGguf
  <2>1. UNCHANGED <<job, mode>>
    BY <1>9, ReturningInside
  <2>2. CASE Exported(q)
    <3>1. \/ Goto(q, "replace") /\ Kind(q) = "gguf"
          \/ \E pc \in {"install", "aside"} : Goto(q, pc) /\ Kind(q) # "gguf"
      BY <2>2, Zenon DEF Exported
    <3>2. Kind(q) \in {"mlx", "gguf"} /\ At(q, "export")
      BY <1>1, <2>2 DEF Kind, Exported, CallEnds, CallReturns
    <3> QED
      BY <1>4, <2>1, <3>1, <3>2
  <2>3. CASE Verified(q) \/ Loaded(q)
    BY <1>2, <2>3 DEF Verified, Loaded
  <2>4. CASE LoadAgain(q)
    BY <1>4, <2>1, <2>4 DEF LoadAgain, CallEnds, CallReturns
  <2>5. CASE TrainAgain(q) \/ TrainingFails(q) \/ TrainingEnds(q) \/ Evaluated(q)
    BY <1>2, <2>5 DEF TrainAgain, TrainingFails, TrainingEnds, Evaluated, Raise
  <2>6. ASSUME NEW what, MergeCallFails(q, what) PROVE Path(q)'
    BY <1>2, <2>6 DEF MergeCallFails, Raise
  <2> QED
    BY <1>9, <2>2, <2>3, <2>4, <2>5, <2>6 DEF Returning
<1>10. CASE Bundling(q)
  <2> USE DEF Steps, Holding, Calls, OnlyNative, OnlyMlx, OnlyGguf
  <2>1. UNCHANGED <<job, mode>>
    BY <1>10, BundlingInside
  <2>2. CASE BeginEmbed(q)
    <3>1. At(q, "embed")
          /\ \/ Goto(q, "to export")
             \/ \E pc \in {"to verify", "embedding"} : Goto(q, pc) /\ Kind(q) # "gguf"
      BY <2>2, Zenon DEF BeginEmbed, MergeStep
    <3>2. Kind(q) \in {"mlx", "gguf"}
      BY <1>1 DEF Kind
    <3> QED
      BY <1>2, <1>4, <2>1, <3>1, <3>2
  <2>3. CASE EndEmbed(q) \/ SetAside(q) \/ InstallWeights(q) \/ ReplaceWeights(q) \/ ReembedAdapter(q)
    BY <1>4, <2>1, <2>3 DEF EndEmbed, SetAside, InstallWeights, ReplaceWeights, ReembedAdapter, MergeStep
  <2>4. CASE DropOld(q) \/ Publish(q) \/ MergeFails(q) \/ InstallRaises(q)
    BY <1>2, <2>4 DEF DropOld, Publish, MergeFails, InstallRaises, MergeStep, Raise
  <2> QED
    BY <1>10, <2>2, <2>3, <2>4 DEF Bundling
<1>11. CASE TrainerSaves(q) \/ PublishCheckpoint(q)
  BY <1>3, <1>11 DEF TrainerSaves, PublishCheckpoint, Alone, session, runner
<1>12. CASE NativeTrains(q)
  BY <1>1, <1>4, <1>12 DEF NativeTrains, Steps, Holding, OnlyNative, OnlyMlx, OnlyGguf
<1>13. CASE Kill(q)
  BY <1>2, <1>13 DEF Kill, Steps, OnlyNative, OnlyMlx, OnlyGguf
<1> QED
  BY <1>5, <1>6, <1>7, <1>8, <1>9, <1>10, <1>11, <1>12, <1>13, GuestOrOwn DEF Own

(* A bundle is under construction from the embedding on, and until it      *)
(* appears or is removed.                                                  *)
LEMMA StageBegins ==
    ASSUME [Next]_vars, stage = NoModel, stage' # NoModel
    PROVE  \E r \in Run : BeginEmbed(r)
<1>1. UNCHANGED vars \/ BaseChanges => UNCHANGED stage
  BY DEF vars, merging, BaseChanges
<1>2. ASSUME NEW r \in Run, Entering(r) \/ Working(r) \/ Calling(r) PROVE UNCHANGED stage
  BY <1>2, EnteringAlone, WorkingInside, CallingInside DEF Alone, merging
<1>3. ASSUME NEW r \in Run, Returning(r) PROVE stage' = stage \/ stage' = NoModel
  BY <1>3 DEF Returning, TrainAgain, TrainingFails, TrainingEnds, Evaluated, Verified, VerifyMlx,
              Exported, Loaded, LoadGguf, LoadAgain, MergeCallFails, Discard, merging
<1>4. ASSUME NEW r \in Run, Bundling(r), ~BeginEmbed(r) PROVE stage' = stage \/ stage' = NoModel
  <2>1. ASSUME NEW k, NEW bundle, SetBundle(k, bundle) PROVE UNCHANGED stage
    BY <2>1 DEF SetBundle, InPlace
  <2> QED
    BY <1>4, <2>1
       DEF Bundling, EndEmbed, FinishEmbed, SetAside, MoveAside, InstallWeights, Install, DropOld,
           DropPrevious, ReplaceWeights, ReplaceGguf, ReembedAdapter, Reembed, Publish, Appear,
           MergeFails, Discard, InstallRaises, InstallFails, WithAdapter, WithWeights
<1>5. ASSUME NEW r \in Run, Listening(r) \/ Others(r) PROVE stage' = stage \/ stage' = NoModel
  BY <1>5 DEF Listening, CallOnly, Others, TrainerSaves, RunsOutOfMemory, PublishCheckpoint,
              NativeTrains, Kill, Discard, Alone, merging
<1> QED
  BY <1>1, <1>2, <1>3, <1>4, <1>5, NextCases

(* A bundle is under construction only while somebody merges.              *)
LEMMA StageStep == ASSUME WorkInv, StageOrder, [Next]_vars PROVE StageOrder'
<1> SUFFICES ASSUME stage' # NoModel PROVE \E r \in Run : rpc'[r] \in MergeSteps \ {"embed"}
  BY DEF StageOrder, NoModel
<1>1. rpc \in [Run -> Steps] /\ LockOwner
  BY DEF WorkInv, TypeOK, RunsOK
<1>2. CASE stage = NoModel
  <2>1. PICK r \in Run : BeginEmbed(r)
    BY <1>2, StageBegins
  <2>2. \E pc \in {"to export", "to verify", "embedding"} : Goto(r, pc)
    BY <2>1, Zenon DEF BeginEmbed, MergeStep
  <2> QED
    BY <1>1, <2>2 DEF Goto, MergeSteps
<1>3. CASE stage # NoModel
  <2>1. PICK r \in Run : rpc[r] \in MergeSteps \ {"embed"}
    BY <1>3 DEF StageOrder
  <2>2. rpc[r] \in Holding /\ lock = r
    BY <1>1, <2>1 DEF LockOwner, MergeSteps, Holding, Calls
  <2>3. ASSUME NEW pc \in MergeSteps \ {"embed"}, Goto(r, pc) PROVE rpc'[r] \in MergeSteps \ {"embed"}
    BY <1>1, <2>3 DEF Goto
  <2>4. CASE Guest(r)
    BY <2>1, <2>4 DEF Guest, Untouched
  <2>5. ~Entering(r) /\ ~Working(r) /\ ~NativeTrains(r) /\ ~PublishCheckpoint(r)
    BY <2>1 DEF Entering, Start, Preflight, Acquire, Refuse, Release, Working, Inspect, InspectFails, Probe,
                ProbeFails, PrepareData, PrepareDataFails, TakeAdapter, NoLoss, SkipEvaluation, Convert,
                ConvertFails, Recheck, MarkPublishing, Deploy, DeployFails, Complete, Fail, NativeFails,
                NativeTrains, PublishCheckpoint, At, MergeSteps
  <2>6. CASE TrainerSaves(r)
    BY <2>1, <2>6 DEF TrainerSaves, runner
  <2>7. ~Kill(r)
    BY <2>2 DEF Kill, Discard
  <2>8. CASE Calling(r)
    BY <2>1, <2>3, <2>8 DEF Calling, Evaluate, Call, CallFails, At, MergeSteps
  <2>9. CASE Returning(r)
    <3>1. ~\E what \in {"verify", "export", "load", "load on cpu"} : MergeCallFails(r, what)
      BY DEF MergeCallFails, Discard
    <3>2. ~TrainAgain(r) /\ ~TrainingFails(r) /\ ~TrainingEnds(r) /\ ~Evaluated(r)
      BY <2>1 DEF TrainAgain, TrainingFails, TrainingEnds, Evaluated, CallEnds, CallReturns, At, MergeSteps
    <3>3. CASE Exported(r)
      <4>1. \E pc \in {"replace", "install", "aside"} : Goto(r, pc)
        BY <3>3, Zenon DEF Exported
      <4> QED
        BY <2>3, <4>1 DEF MergeSteps
    <3>4. CASE Verified(r) \/ Loaded(r) \/ LoadAgain(r)
      BY <2>3, <3>4 DEF Verified, Loaded, LoadAgain, MergeSteps
    <3> QED
      BY <2>9, <3>1, <3>2, <3>3, <3>4 DEF Returning
  <2>10. CASE Bundling(r)
    <3>1. ~BeginEmbed(r)
      BY <2>1 DEF BeginEmbed, MergeStep, At
    <3>2. ~Publish(r) /\ ~MergeFails(r) /\ ~InstallRaises(r)
      BY <1>3 DEF Publish, Appear, MergeFails, InstallRaises, InPlace, Discard
    <3> QED
      BY <2>3, <2>10, <3>1, <3>2
         DEF Bundling, EndEmbed, SetAside, InstallWeights, DropOld, ReplaceWeights, ReembedAdapter,
             MergeStep, MergeSteps
  <2> QED
    BY <2>4, <2>5, <2>6, <2>7, <2>8, <2>9, <2>10, GuestOrOwn DEF Own
<1> QED
  BY <1>2, <1>3

-----------------------------------------------------------------------------
(* What a run has made stays what it was, and describes this run.          *)
Made(q) == seen[q] <= base /\ (mode[q] = "mlx" => Making(q))

(* No step towards the end of a run is left out.                           *)
Behind(from, to) == /\ to \in Attempting => from \in Attempting
                    /\ to \in Taken => from \in Taken
                    /\ to \in Converted => from \in Converted
                    /\ to \in Rechecked => from \in Rechecked
                    /\ to \in Deployed => from \in Deployed
SameMade(q) == /\ mode'[q] = mode[q] /\ settings'[q] = settings[q] /\ seen'[q] = seen[q]
               /\ UNCHANGED <<job, base, attempts, adapter, converted, deployed, reserved>>
               /\ Ended(q)' => Ended(q)

(* What a run has made remains, if nothing it was made from changes.       *)
LEMMA MadeStays ==
    ASSUME NEW q \in Run, Made(q), SameMade(q), Behind(rpc[q], rpc'[q])
    PROVE  Made(q)'
<1>1. \A a : Since(q, a)' = Since(q, a)
  BY DEF SameMade, Since
<1>2. Trying(q)' = Trying(q) /\ Having(q)' = Having(q)
  BY <1>1 DEF SameMade, Trying, Having, HasOwn
<1> QED
  BY <1>2 DEF Made, Making, Behind, SameMade, HasOwn

(* A run that has not begun to train has made nothing.                     *)
LEMMA MadeNothing ==
    ASSUME NEW q \in Run, seen'[q] <= base', rpc'[q] \notin Attempting \cup Taken PROVE Made(q)'
BY DEF Made, Making, Ended, Attempting, Taken, Converted, Rechecked

(* Others work with data of another kind.                                  *)
LEMMA GuestKeeps ==
    ASSUME WorkInv, NEW q \in Run, Making(q), Guest(q), rpc[q] \in Attempting \cup Taken
    PROVE  /\ UNCHANGED <<converted, deployed, reserved>>
           /\ ~job[q].media => UNCHANGED attempts
           /\ job[q].media \/ rpc[q] \in Taken => UNCHANGED adapter
<1>1. rpc[q] \in Holding
  BY DEF Attempting, Taken, Converted, Rechecked, Deployed, MergeSteps, Holding, Calls
<1>2. Works(q) /\ (rpc[q] \in Taken /\ ~job[q].media => ~reserved)
  BY DEF Making, Having, HasOwn, Works, Attempting
<1>3. ASSUME NEW s \in Run \ {q}, Trains(s)
      PROVE  /\ DataKind(s) # DataKind(q)
             /\ job[s].media => reserved
  BY <1>2, <1>3 DEF WorkInv, OneWorker, Works, DataKind
<1>4. \A s \in Run \ {q} : Trains(s) /\ ~job[s].media => job[q].media
  BY <1>3 DEF DataKind
<1>5. \A s \in Run \ {q} : Trains(s) /\ job[s].media => ~job[q].media /\ reserved
  BY <1>3 DEF DataKind
<1> QED
  BY <1>1, <1>2, <1>4, <1>5 DEF Guest

(* Others do not change what a run has made.                               *)
LEMMA GuestMade ==
    ASSUME WorkInv, NEW q \in Run, Made(q), Guest(q) PROVE Made(q)'
<1>1. /\ seen[q] \in 0..1 /\ base \in 0..1 /\ attempts \subseteq Adapters
      /\ adapter \in Adapters \cup {NoAdapter}
  BY DEF WorkInv, TypeOK, RunsOK, FolderOK, Versions
<1>2. base <= base' /\ seen'[q] = seen[q] /\ base' \in 0..1
  BY <1>1 DEF Guest, Untouched
<1>3. CASE rpc[q] \notin Attempting \cup Taken
  BY <1>1, <1>2, <1>3, MadeNothing DEF Guest, Untouched, Made
<1>4. CASE mode[q] # "mlx"
  BY <1>1, <1>2, <1>4 DEF Guest, Untouched, Made
<1>5. CASE rpc[q] \in Attempting \cup Taken /\ mode[q] = "mlx"
  <2>1. Making(q)
    BY <1>5 DEF Made
  <2>2. /\ UNCHANGED <<converted, deployed, reserved, job>>
        /\ ~job[q].media => UNCHANGED attempts
        /\ job[q].media \/ rpc[q] \in Taken => UNCHANGED adapter
    BY <1>5, <2>1, GuestKeeps DEF Guest
  <2>3. \A a \in Adapters : Since(q, a) => Since(q, a)'
    BY <1>1, <1>2 DEF Since, Adapters, Versions
  <2>4. Trying(q) => Trying(q)'
    BY <1>1, <2>2, <2>3 DEF Trying, HasOwn, Guest, Untouched
  <2>5. rpc[q] \in Taken /\ Having(q) => Having(q)'
    BY <1>1, <2>2, <2>3 DEF Having, HasOwn, Guest, Untouched
  <2>6. Ended(q)' => HasOwn(q)'
    BY <2>1, <2>2 DEF Making, Guest, Ended, HasOwn
  <2>7. \A pc : pc \in Converted \/ pc \in Rechecked \/ pc \in Deployed => pc \in Taken
    BY DEF Taken, Converted, Rechecked
  <2>8. rpc'[q] = rpc[q] /\ seen'[q] = seen[q] /\ seen[q] <= base /\ seen'[q] <= base'
    BY <1>1, <1>2 DEF Made, Guest, Untouched
  <2>9. Making(q)'
    BY <2>1, <2>2, <2>4, <2>5, <2>6, <2>7, <2>8, Zenon DEF Making
  <2> QED
    BY <2>8, <2>9 DEF Made
<1> QED
  BY <1>3, <1>4, <1>5

(* A run between two calls makes what its next step needs.                 *)
LEMMA WorkingMade ==
    ASSUME WorkInv, NEW q \in Run, Made(q), Working(q) PROVE Made(q)'
<1>1. /\ rpc \in [Run -> Steps] /\ seen \in [Run -> Versions] /\ base \in Versions
      /\ settings \in [Run -> Settings] /\ attempts \subseteq Adapters
      /\ adapter \in Adapters \cup {NoAdapter} /\ job[q].target \in {"mlx", "gguf"}
  BY JobsAssumption DEF WorkInv, TypeOK, RunsOK, FolderOK, Kinds
<1>2. UNCHANGED <<job, base>>
  BY WorkingInside DEF Alone
<1>3. ASSUME Goto(q, "fail"), UNCHANGED seen PROVE Made(q)'
  BY <1>1, <1>2, <1>3, MadeNothing
     DEF Made, Goto, Attempting, Taken, Converted, Rechecked, Deployed, MergeSteps
<1> DEFINE Going(from, pc) == /\ At(q, from) /\ Goto(q, pc) /\ pc \notin {"train", "take"}
                              /\ UNCHANGED <<mode, settings, seen, attempts, adapter, reserved>>
<1>4. ASSUME NEW from \in Steps, NEW pc \in Steps, Going(from, pc), UNCHANGED <<converted, deployed>>,
             Behind(from, pc)
      PROVE  Made(q)'
  BY <1>1, <1>2, <1>4, MadeStays DEF SameMade, At, Goto, Ended
<1>5. CASE Inspect(q)
  <2>1. rpc'[q] = "probe" /\ seen'[q] = base /\ base' = base
    BY <1>1, <1>2, <1>5 DEF Inspect, Goto
  <2>2. seen'[q] <= base'
    BY <1>1, <2>1 DEF Versions
  <2>3. rpc'[q] \notin Attempting \cup Taken
    BY <2>1 DEF Attempting, Taken, Converted, Rechecked, Deployed, MergeSteps
  <2> QED
    BY <2>2, <2>3, MadeNothing
<1>6. CASE InspectFails(q) \/ ProbeFails(q) \/ PrepareDataFails(q) \/ NoLoss(q) \/ ConvertFails(q)
           \/ DeployFails(q) \/ NativeFails(q)
  BY <1>3, <1>6 DEF InspectFails, ProbeFails, PrepareDataFails, NoLoss, ConvertFails, DeployFails,
                    NativeFails, Raise, Stays
<1>7. CASE Probe(q) \/ SkipEvaluation(q) \/ Complete(q) \/ Fail(q) \/ MarkPublishing(q)
  <2> USE DEF Behind, Attempting, Taken, Converted, Rechecked, Deployed, MergeSteps, Steps, Holding,
              Stays, SameFolder, folder
  <2>1. CASE Probe(q)
    BY <1>4, <2>1 DEF Probe
  <2>2. CASE SkipEvaluation(q)
    BY <1>4, <2>2 DEF SkipEvaluation
  <2>3. CASE Complete(q)
    BY <1>4, <2>3 DEF Complete
  <2>4. CASE Fail(q)
    BY <1>4, <2>4 DEF Fail
  <2>5. CASE MarkPublishing(q)
    BY <1>4, <2>5 DEF MarkPublishing
  <2> QED
    BY <1>7, <2>1, <2>2, <2>3, <2>4, <2>5
<1>8. CASE PrepareData(q)
  <2>1. CASE Goto(q, "fail")
    BY <1>3, <1>8, <2>1 DEF PrepareData
  <2>2. CASE ~Goto(q, "fail")
    <3>1. /\ DataKind(q) \notin data /\ Goto(q, "attempt") /\ UNCHANGED <<attempts, adapter, seen>>
      BY <1>8, <2>2 DEF PrepareData, Raise
    <3>2. \A s \in Run : DataKind(s) = DataKind(q) => ~Works(s)
      BY <3>1 DEF WorkInv, OneWorker
    <3>3. ~HasOwn(q)
      BY <3>2 DEF Works, HasOwn
    <3>4. ~job[q].media => attempts = {}
      BY <1>1, <3>2 DEF Works, Adapters, WorkInv, TextAttempts, DataKind
    <3>5. rpc'[q] = "attempt"
      BY <1>1, <3>1 DEF Goto
    <3>6. Trying(q)'
      BY <1>2, <3>1, <3>3, <3>4 DEF Trying, HasOwn
    <3> QED
      BY <1>2, <3>1, <3>5, <3>6
         DEF Made, Making, Ended, Taken, Converted, Rechecked, Deployed, MergeSteps
  <2> QED
    BY <2>1, <2>2
<1>9. CASE TakeAdapter(q)
  <2>1. CASE Goto(q, "fail")
    BY <1>3, <1>9, <2>1 DEF TakeAdapter, Stays
  <2>2. CASE ~Goto(q, "fail")
    <3>1. /\ At(q, "take") /\ Goto(q, "losses") /\ UNCHANGED <<mode, settings, seen, reserved>>
          /\ \/ job[q].media /\ UNCHANGED adapter
             \/ /\ ~job[q].media /\ ~reserved
                /\ adapter' \in {a \in attempts : a.of = settings[q]}
      BY <1>9, <2>2 DEF TakeAdapter, Raise, Stays
    <3>2. Works(q) /\ rpc[q] \in Attempting
      BY <3>1 DEF Works, At, Attempting
    <3>3. rpc'[q] = "losses"
      BY <1>1, <3>1 DEF Goto
    <3>4. mode[q] = "mlx" => Having(q)'
      <4> SUFFICES ASSUME mode[q] = "mlx" PROVE Having(q)'
        OBVIOUS
      <4>1. Trying(q) /\ (Ended(q) => HasOwn(q))
        BY <3>2 DEF Made, Making
      <4>2. CASE job[q].media
        <5>1. HasOwn(q) /\ UNCHANGED adapter
          BY <3>1, <4>1, <4>2 DEF Ended, At
        <5> QED
          BY <1>2, <3>1, <4>1, <4>2, <5>1 DEF Having, HasOwn, Trying, Since
      <4>3. CASE ~job[q].media
        <5>1. adapter' \in attempts /\ adapter'.of = settings[q] /\ ~reserved
          BY <3>1, <4>3
        <5>2. adapter'.run = q
          <6>1. adapter' \in Adapters /\ DataKind(adapter'.run) = "text" /\ DataKind(q) = "text"
            BY <1>1, <4>3, <5>1 DEF WorkInv, TextAttempts, DataKind
          <6>2. adapter'.run \in Run /\ Works(adapter'.run)
            BY <5>1, <6>1 DEF Adapters, Works
          <6> QED
            BY <3>2, <6>1, <6>2 DEF WorkInv, OneWorker
        <5>3. adapter' # NoAdapter
          BY <1>1, <5>1, AdapterAssumption
        <5> QED
          BY <1>2, <3>1, <4>1, <4>3, <5>1, <5>2, <5>3 DEF Having, HasOwn, Trying, Since
      <4> QED
        BY <4>2, <4>3
    <3> QED
      BY <1>2, <3>1, <3>3, <3>4
         DEF Made, Making, Ended, Attempting, Converted, Rechecked, Deployed, MergeSteps
  <2> QED
    BY <2>1, <2>2
<1>10. CASE Convert(q)
  <2>1. /\ At(q, "convert") /\ rpc'[q] = "recheck"
        /\ converted' = IF job[q].target = "gguf" THEN adapter ELSE converted
        /\ UNCHANGED <<mode, settings, seen, adapter, reserved>>
    BY <1>1, <1>10 DEF Convert, Goto, Stays
  <2>2. mode[q] = "mlx" => Having(q)
    BY <2>1 DEF Made, Making, At, Taken
  <2>3. mode[q] = "mlx" => Having(q)'
    BY <1>2, <2>1, <2>2 DEF Having, HasOwn, Since
  <2> QED
    BY <1>2, <2>1, <2>3 DEF Made, Making, Ended, Attempting, Converted, Rechecked, Deployed, MergeSteps
<1>11. CASE Recheck(q)
  <2>1. CASE base = seen[q]
    <3>1. /\ At(q, "recheck") /\ rpc'[q] = "publish"
          /\ UNCHANGED <<mode, settings, seen, adapter, converted, reserved>>
      BY <1>1, <1>11, <2>1 DEF Recheck, Goto, Stays, SameFolder, folder
    <3>2. mode[q] = "mlx" => Having(q) /\ (job[q].target = "gguf" => converted = adapter)
      BY <3>1 DEF Made, Making, At, Taken, Converted
    <3>3. mode[q] = "mlx" => adapter.on = seen[q]
      BY <1>1, <2>1, <3>2 DEF Having, HasOwn, Since, Adapters, Versions
    <3>4. mode[q] = "mlx" => Having(q)'
      BY <1>2, <3>1, <3>2 DEF Having, HasOwn, Since
    <3> QED
      BY <1>2, <3>1, <3>2, <3>3, <3>4 DEF Made, Making, Ended, Attempting, Deployed, MergeSteps
  <2>2. CASE base # seen[q]
    BY <1>3, <1>11, <2>2 DEF Recheck, Raise, Stays
  <2> QED
    BY <2>1, <2>2
<1>12. CASE Deploy(q)
  <2>1. /\ At(q, "deploy") /\ rpc'[q] \in {"embed", "complete"} /\ deployed' = Source(q)
        /\ UNCHANGED <<mode, settings, seen, adapter, converted, reserved>>
    BY <1>1, <1>12 DEF Deploy, Goto, Stays
  <2>2. mode[q] = "mlx" => /\ Having(q) /\ adapter.on = seen[q]
                           /\ job[q].target = "gguf" => converted = adapter
    BY <2>1 DEF Made, Making, At, Taken, Converted, Rechecked
  <2>3. mode[q] = "mlx" => Having(q)'
    BY <1>2, <2>1, <2>2 DEF Having, HasOwn, Since
  <2>4. mode[q] = "mlx" => deployed' = adapter
    BY <1>1, <2>1, <2>2 DEF Source, Kind
  <2> QED
    BY <1>2, <2>1, <2>2, <2>3, <2>4 DEF Made, Making, Ended, Attempting
<1> QED
  BY <1>5, <1>6, <1>7, <1>8, <1>9, <1>10, <1>11, <1>12 DEF Working

(* No other step of a run takes away what it has made.                     *)
LEMMA OwnMade ==
    ASSUME WorkInv, PathOrder, NEW q \in Run, Made(q), Own(q), ~Working(q) PROVE Made(q)'
<1>1. /\ rpc \in [Run -> Steps] /\ seen \in [Run -> Versions] /\ base \in Versions
      /\ mode \in [Run -> {"mlx", "native"}] /\ settings \in [Run -> Settings]
  BY DEF WorkInv, TypeOK, RunsOK, FolderOK
<1> DEFINE Nowhere == Steps \ (Attempting \cup Taken)
<1>2. ASSUME NEW pc \in Nowhere, Goto(q, pc), UNCHANGED base, seen'[q] = seen[q] \/ seen'[q] = 0
      PROVE  Made(q)'
  BY <1>1, <1>2, MadeNothing DEF Made, Goto, Versions
<1>3. ASSUME NEW from \in Steps, NEW pc \in Steps, At(q, from), Goto(q, pc),
             UNCHANGED <<job, base, mode, settings, seen, attempts, adapter, converted, deployed,
                         reserved>>,
             Behind(from, pc), Ended(q)' => Ended(q)
      PROVE  Made(q)'
  BY <1>1, <1>3, MadeStays DEF SameMade, At, Goto
<1>4. CASE Entering(q)
  <2> USE DEF Steps, Holding, Attempting, Taken, Converted, Rechecked, Deployed, MergeSteps
  <2>1. UNCHANGED base
    BY <1>4, EnteringAlone DEF Alone
  <2>2. ASSUME NEW kind, Leave(q, kind) PROVE Made(q)'
    <3>1. \E pc \in {"ended", "preflight"} : Goto(q, pc)
      BY <2>2, Zenon DEF Leave
    <3>2. seen'[q] = 0
      BY <1>1, <2>2 DEF Leave
    <3> QED
      BY <1>2, <2>1, <3>1, <3>2
  <2>3. CASE Start(q) \/ Preflight(q)
    BY <1>2, <2>1, <2>3 DEF Start, Preflight, Stays
  <2>4. CASE Acquire(q)
    <3>1. CASE At(q, "publish lock")
      <4>1. mode'[q] # "mlx" /\ UNCHANGED seen
        BY <2>4, <3>1 DEF Acquire, PathOrder, OnlyNative, At, Stays
      <4> QED
        BY <2>1, <4>1 DEF Made
    <3>2. CASE ~At(q, "publish lock")
      <4>1. \E pc \in {"inspect", "native"} : Goto(q, pc)
        BY <2>4, <3>2 DEF Acquire
      <4> QED
        BY <1>2, <2>1, <2>4, <4>1 DEF Acquire, Stays
    <3> QED
      BY <3>1, <3>2
  <2>5. CASE Refuse(q)
    BY <2>2, <2>5 DEF Refuse
  <2>6. CASE Release(q)
    BY <1>2, <2>1, <2>2, <2>6 DEF Release, Stays
  <2> QED
    BY <1>4, <2>3, <2>4, <2>5, <2>6 DEF Entering
<1>5. CASE Calling(q)
  <2>1. ~Ended(q)'
    <3>1. rpc[q] = "attempt" => child[q] = "none"
      BY DEF WorkInv, CallOrder, Waits, Calls
    <3>2. CASE Call(q, "attempt", "train") \/ CallFails(q, "attempt", "train")
      <4>1. child'[q] \in {"none", "running"}
        BY <3>1, <3>2 DEF Call, CallFails, Launch, LaunchFails, At, WorkInv, TypeOK, CallsOK
      <4>2. rpc'[q] = "train"
        BY <1>1, <3>2 DEF Call, CallFails, Goto
      <4> QED
        BY <4>1, <4>2 DEF Ended
    <3>3. CASE ~Call(q, "attempt", "train") /\ ~CallFails(q, "attempt", "train")
      <4>1. rpc'[q] \in Calls \ {"train"}
        BY <1>1, <1>5, <3>3 DEF Calling, Evaluate, Call, Goto, Calls
      <4> QED
        BY <4>1 DEF Ended, Calls
    <3> QED
      BY <3>2, <3>3
  <2> QED
    BY <1>3, <1>5, <2>1
       DEF Calling, Evaluate, Call, CallFails, SameFolder, folder, Stays, Behind, Steps, Holding, Calls,
           Attempting, Taken, Converted, Rechecked, Deployed, MergeSteps
<1>6. CASE Returning(q)
  <2> USE DEF Steps, Holding, Calls, Attempting, Taken, Converted, Rechecked, Deployed, MergeSteps
  <2>1. UNCHANGED <<job, base, mode, seen>>
    BY <1>6, ReturningInside
  <2>2. CASE TrainAgain(q)
    <3>1. /\ At(q, "train") /\ rpc'[q] = "attempt" /\ ~job[q].media
          /\ attempts' \subseteq attempts /\ UNCHANGED adapter
      BY <1>1, <2>2 DEF TrainAgain, CallReturns, Goto
    <3>2. mode[q] = "mlx" => Trying(q)
      BY <3>1 DEF Made, Making, At
    <3>3. mode[q] = "mlx" => Trying(q)'
      BY <2>1, <3>1, <3>2 DEF Trying, Since
    <3> QED
      BY <2>1, <3>1, <3>3 DEF Made, Making, Ended
  <2>3. ASSUME NEW pc \in {"fail"}, Goto(q, pc) PROVE Made(q)'
    BY <1>2, <2>1, <2>3
  <2>4. CASE TrainingFails(q)
    BY <2>3, <2>4 DEF TrainingFails, Raise
  <2>5. ASSUME NEW what, MergeCallFails(q, what) PROVE Made(q)'
    BY <2>3, <2>5 DEF MergeCallFails, Raise
  <2>6. ASSUME NEW from \in Steps, NEW pc \in Steps, CallEnds(q, from), Goto(q, pc), UNCHANGED settings,
               Behind(from, pc), Ended(q)' => Ended(q)
        PROVE  Made(q)'
    BY <1>3, <2>1, <2>6 DEF CallEnds, CallReturns, SameFolder, folder
  <2>13. ASSUME NEW pc \in Steps \ {"train", "take"}, Goto(q, pc) PROVE Ended(q)' => Ended(q)
    BY <1>1, <2>13 DEF Goto, Ended
  <2>7. CASE TrainingEnds(q)
    <3>1. /\ CallEnds(q, "train") /\ outcome[q] = "ok" /\ rpc'[q] = "take" /\ Goto(q, "take")
          /\ UNCHANGED settings
      BY <1>1, <2>7 DEF TrainingEnds, Goto
    <3>2. rpc[q] = "train" /\ child[q] = "zero"
      BY <3>1 DEF WorkInv, CallOrder, Waits, CallEnds, CallReturns, Returned, At
    <3>3. Ended(q)' => Ended(q)
      BY <2>1, <3>2 DEF Ended
    <3> QED
      BY <2>6, <3>1, <3>3 DEF Behind
  <2>8. CASE Evaluated(q)
    BY <2>3, <2>6, <2>13, <2>8 DEF Evaluated, Raise, Behind
  <2>9. CASE Exported(q)
    <3>1. \E pc \in {"replace", "install", "aside"} : Goto(q, pc)
      BY <2>9, Zenon DEF Exported
    <3>2. CallEnds(q, "export") /\ UNCHANGED settings
      BY <2>9 DEF Exported
    <3> QED
      BY <2>6, <2>13, <3>1, <3>2 DEF Behind
  <2>10. CASE Verified(q)
    BY <2>6, <2>13, <2>10 DEF Verified, Behind
  <2>11. CASE Loaded(q)
    BY <2>6, <2>13, <2>11 DEF Loaded, Behind
  <2>12. CASE LoadAgain(q)
    BY <2>6, <2>13, <2>12 DEF LoadAgain, Behind
  <2> QED
    BY <1>6, <2>2, <2>4, <2>5, <2>7, <2>8, <2>9, <2>10, <2>11, <2>12 DEF Returning
<1>7. CASE Bundling(q)
  <2> USE DEF Steps, Holding, Calls, Attempting, Taken, Converted, Rechecked, Deployed, MergeSteps
  <2>1. UNCHANGED <<job, base, mode, settings, seen, attempts, adapter, converted, deployed, reserved>>
    BY <1>7, BundlingInside DEF SameFolder, folder, Stays
  <2>2. rpc[q] \in MergeSteps
    BY <1>7, BundlingQuiet
  <2>3. \E pc \in MergeSteps \cup {"complete", "fail"} : Goto(q, pc)
    <3>1. CASE BeginEmbed(q)
      <4>1. \E pc \in {"to export", "to verify", "embedding"} : Goto(q, pc)
        BY <3>1, Zenon DEF BeginEmbed, MergeStep
      <4> QED
        BY <4>1
    <3> QED
      BY <1>7, <3>1 DEF Bundling, EndEmbed, SetAside, InstallWeights, DropOld, ReplaceWeights,
                        ReembedAdapter, Publish, MergeFails, InstallRaises, MergeStep, Raise
  <2>4. Behind(rpc[q], rpc'[q])
    BY <1>1, <2>2, <2>3 DEF Goto, Behind
  <2>5. ~Ended(q)'
    BY <1>1, <2>3 DEF Goto, Ended
  <2> QED
    BY <2>1, <2>4, <2>5, MadeStays DEF SameMade
<1>8. CASE TrainerSaves(q)
  <2>1. /\ UNCHANGED <<rpc, mode, settings, seen, job, base, converted, deployed>>
        /\ \/ job[q].media /\ adapter' = Trained(q) /\ UNCHANGED attempts
           \/ ~job[q].media /\ attempts' \subseteq attempts \cup {Trained(q)} /\ UNCHANGED adapter
    BY <1>8 DEF TrainerSaves, runner, Alone
  <2>2. rpc[q] \notin Taken
    <3>1. Trains(q)
      BY <1>8 DEF TrainerSaves, Trains
    <3> QED
      BY <3>1 DEF WorkInv, CallOrder, Waits, Trains, Taken, Converted, Rechecked, Deployed, MergeSteps,
                  Calls
  <2>3. Since(q, Trained(q)) /\ Trained(q).of = settings[q] /\ ~Ended(q)'
    <3>1. child'[q] = "running" /\ rpc'[q] = rpc[q] /\ Trains(q)
      BY <1>8 DEF TrainerSaves, runner, Alone, process, Trains
    <3>2. rpc[q] # "take"
      BY <3>1 DEF WorkInv, CallOrder, Waits, Trains, Calls
    <3>3. ~Ended(q)'
      BY <3>1, <3>2 DEF Ended
    <3> QED
      BY <1>1, <3>3 DEF Made, Since, Trained, Versions
  <2>4. Trying(q) => Trying(q)'
    BY <2>1, <2>3 DEF Trying, Since
  <2> QED
    BY <2>1, <2>2, <2>3, <2>4 DEF Made, Making, Taken, Converted, Rechecked
<1>9. CASE PublishCheckpoint(q)
  BY <1>9, MadeStays DEF PublishCheckpoint, session, runner, folder, process, SameMade, Behind, Ended
<1>10. CASE NativeTrains(q) \/ Kill(q)
  <2>1. UNCHANGED <<base, seen>> /\ \E pc \in {"hand over", "dead"} : Goto(q, pc)
    BY <1>10 DEF NativeTrains, Kill, Stays
  <2> QED
    BY <1>2, <2>1 DEF Steps, Holding, Attempting, Taken, Converted, Rechecked, Deployed, MergeSteps
<1> QED
  BY <1>4, <1>5, <1>6, <1>7, <1>8, <1>9, <1>10 DEF Own

(* Every step keeps what each run has made.                                *)
LEMMA MakeStep == ASSUME WorkInv, PathOrder, MakeOrder, [Next]_vars PROVE MakeOrder'
BY GuestOrOwn, GuestMade, WorkingMade, OwnMade DEF MakeOrder, Made

-----------------------------------------------------------------------------
(* A bundle is changed where it is: at its name, or under construction.    *)
LEMMA BundleSet ==
    ASSUME model \in [Kinds -> Bundles], stage \in Bundles, NEW k \in Kinds, NEW bundle \in Bundles,
           bundle # NoModel \/ InPlace, SetBundle(k, bundle)
    PROVE  /\ Under(k)' = bundle
           /\ InPlace => UNCHANGED stage /\ model' = [model EXCEPT ![k] = bundle]
           /\ ~InPlace => UNCHANGED model /\ stage' = bundle /\ stage' # NoModel
BY DEF SetBundle, InPlace, Under, NoModel

(* A bundle is its adapter and its weights.                                *)
LEMMA BundleParts ==
    ASSUME NEW a, NEW w PROVE Bundle(a, w).adapter = a /\ Bundle(a, w).weights = w
BY DEF Bundle

(* A bundle is nothing more than its two parts.                            *)
LEMMA BundleWhole == ASSUME NEW b \in Bundles PROVE b = Bundle(b.adapter, b.weights)
BY DEF Bundle, Bundles

(* Who merges has an adapter, which the bundle is made from, and begins    *)
(* with none under construction.                                           *)
LEMMA MergesOwn ==
    ASSUME WorkInv, MakeOrder, StageOrder, NEW q \in Run, mode[q] = "mlx",
           rpc[q] \in MergeSteps \cup {"deploy", "complete"}
    PROVE  /\ adapter \in Adapters /\ adapter.run = q /\ adapter # NoAdapter /\ adapter # Torn
           /\ rpc[q] \in MergeSteps \cup {"complete"} => Source(q) = adapter
           /\ Kind(q) = job[q].target /\ job[q].target \in Kinds
           /\ rpc[q] \in {"deploy", "embed", "complete"} => stage = NoModel
           /\ model \in [Kinds -> Bundles] /\ stage \in Bundles
           /\ previous \in Products /\ checked \in [Kinds -> Products]
           /\ rpc \in [Run -> Steps]
<1>1. Having(q) /\ (job[q].target = "gguf" => converted = adapter)
  BY DEF MakeOrder, Making, Taken, Converted, Rechecked, Deployed
<1>2. adapter \in Adapters /\ adapter.run = q
  BY <1>1 DEF Having, HasOwn, WorkInv, TypeOK, FolderOK
<1>3. job[q].target \in Kinds /\ Kind(q) = job[q].target
  BY JobsAssumption DEF WorkInv, TypeOK, RunsOK, Kind
<1>4. Source(q) = adapter
  BY <1>1, <1>3 DEF Source, Kinds
<1>5. rpc[q] \in {"deploy", "embed", "complete"} => stage = NoModel
  <2> SUFFICES ASSUME rpc[q] \in {"deploy", "embed", "complete"}, stage # NoModel PROVE FALSE
    OBVIOUS
  <2>1. PICK r \in Run : rpc[r] \in MergeSteps \ {"embed"}
    BY DEF StageOrder
  <2>2. lock = r /\ lock = q
    BY <2>1 DEF WorkInv, LockOwner, Holding, Calls, MergeSteps
  <2> QED
    BY <2>1, <2>2 DEF MergeSteps
<1>6. model \in [Kinds -> Bundles] /\ stage \in Bundles
      /\ previous \in Products /\ checked \in [Kinds -> Products]
  BY DEF WorkInv, TypeOK, ModelsOK, Bundles, Products
<1> QED
  BY <1>2, <1>3, <1>4, <1>5, <1>6, AdapterAssumption DEF WorkInv, TypeOK, RunsOK

(* The merge of a GGUF model, step by step.                                *)
LEMMA GgufMerged ==
    ASSUME WorkInv, MakeOrder, StageOrder, PathOrder, NEW q \in Run, mode[q] = "mlx",
           job[q].target = "gguf", MergingGguf(q), Bundling(q) \/ Returning(q),
           rpc[q] \in MergeSteps, ~Goto(q, "fail")
    PROVE  MergingGguf(q)' /\ (At(q, "complete") => MergedWell(q))'
<1>1. /\ adapter \in Adapters /\ adapter # NoAdapter /\ adapter # Torn /\ Source(q) = adapter
      /\ Kind(q) = "gguf" /\ "gguf" \in Kinds
      /\ rpc[q] = "embed" => stage = NoModel
      /\ model \in [Kinds -> Bundles] /\ stage \in Bundles
      /\ checked \in [Kinds -> Products] /\ rpc \in [Run -> Steps]
  BY MergesOwn
<1>2. UNCHANGED <<adapter, job>>
  <2>1. CASE Bundling(q)
    BY <2>1, BundlingInside DEF SameFolder, folder
  <2>2. CASE Returning(q)
    BY <2>2, AdapterSteps DEF Returning, TrainAgain, TrainingFails, TrainingEnds, Evaluated, Verified,
              Exported, Loaded, LoadAgain, MergeCallFails, CallEnds, CallReturns, SameFolder, folder
  <2> QED
    BY <2>1, <2>2
<1>3. rpc[q] \notin OnlyMlx
  BY <1>1 DEF PathOrder
<1>4. Under("gguf") \in Bundles
  BY <1>1 DEF Under
<1> USE DEF MergingGguf, At
<1>5. CASE BeginEmbed(q)
  <2>1. Embed("gguf", adapter) /\ rpc'[q] = "to export" /\ stage = NoModel
    BY <1>1, <1>5 DEF BeginEmbed, MergeStep, At, Goto
  <2>2. stage' # NoModel => stage'.adapter = adapter
    BY <1>1, <2>1 DEF Embed, NoModel
  <2> QED
    BY <1>2, <2>1, <2>2
<1>6. CASE ReplaceWeights(q)
  <2> DEFINE bundle == [Under("gguf") EXCEPT !.weights = adapter]
  <2>1. rpc[q] = "replace" /\ rpc'[q] = "reembed" /\ SetBundle("gguf", bundle)
    BY <1>1, <1>6 DEF ReplaceWeights, MergeStep, ReplaceGguf, WithWeights, Goto
  <2>2. bundle \in Bundles /\ bundle.weights = adapter /\ bundle.adapter = Under("gguf").adapter
        /\ bundle # NoModel
    BY <1>1, <1>4 DEF Bundles, Products, NoModel
  <2> HIDE DEF bundle
  <2>3. Under("gguf")'.weights = adapter /\ (stage' # NoModel => ~InPlace /\ stage' = bundle)
    BY <1>1, <2>1, <2>2, BundleSet DEF InPlace
  <2>4. ~InPlace => bundle.adapter = adapter
    BY <2>1, <2>2 DEF InPlace, Under
  <2> QED
    BY <1>2, <2>1, <2>3, <2>4
<1>7. CASE ReembedAdapter(q)
  <2>1. rpc[q] = "reembed" /\ rpc'[q] = "to load" /\ Reembed(adapter)
    BY <1>1, <1>7 DEF ReembedAdapter, MergeStep, Goto
  <2>2. Under("gguf").weights = adapter
    BY <2>1
  <2>3. Under("gguf")' = Bundle(adapter, adapter)
    <3>1. CASE InPlace
      <4> DEFINE bundle == [Under("gguf") EXCEPT !.adapter = adapter]
      <4>1. SetBundle("gguf", bundle)
        BY <2>1, <3>1 DEF Reembed, WithAdapter
      <4>2. bundle \in Bundles
        BY <1>1, <1>4 DEF Bundles, Products
      <4>3. bundle.adapter = adapter /\ bundle.weights = adapter
        BY <1>4, <2>2 DEF Bundles
      <4>4. bundle = Bundle(adapter, adapter)
        BY <4>2, <4>3, BundleWhole
      <4> HIDE DEF bundle
      <4> QED
        BY <1>1, <3>1, <4>1, <4>2, <4>4, BundleSet
    <3>2. CASE ~InPlace
      <4>1. UNCHANGED <<model, stage>>
        BY <2>1, <3>2 DEF Reembed
      <4>2. stage.adapter = adapter /\ Under("gguf") = stage
        BY <2>1, <3>2 DEF InPlace, Under
      <4>3. stage = Bundle(adapter, adapter)
        BY <1>1, <2>2, <4>2, BundleWhole
      <4> QED
        BY <3>2, <4>1, <4>3 DEF InPlace, Under
    <3> QED
      BY <3>1, <3>2
  <2> QED
    BY <1>2, <2>1, <2>3
<1>8. CASE Publish(q)
  <2>1. rpc[q] = "appear" /\ rpc'[q] = "complete" /\ Appear("gguf")
    BY <1>1, <1>8 DEF Publish, MergeStep, Goto
  <2>2. Under("gguf") = Bundle(adapter, adapter) /\ checked.gguf = adapter
    BY <2>1
  <2>3. model'["gguf"] = Under("gguf") /\ UNCHANGED checked
    BY <1>1, <2>1 DEF Appear, Under
  <2> QED
    BY <1>2, <2>1, <2>2, <2>3 DEF MergedWell
<1>9. ~EndEmbed(q) /\ ~SetAside(q) /\ ~InstallWeights(q) /\ ~DropOld(q) /\ ~InstallRaises(q)
      /\ ~Verified(q)
  BY <1>3 DEF OnlyMlx, EndEmbed, SetAside, InstallWeights, DropOld, InstallRaises, MergeStep, Verified,
              CallEnds, CallReturns
<1>10. ~MergeFails(q) /\ ~TrainingFails(q)
       /\ ~\E what \in {"verify", "export", "load", "load on cpu"} : MergeCallFails(q, what)
  BY DEF MergeFails, TrainingFails, MergeCallFails, Raise
<1>11. ~TrainAgain(q) /\ ~TrainingEnds(q) /\ ~Evaluated(q)
  BY DEF TrainAgain, TrainingEnds, Evaluated, CallEnds, CallReturns, MergeSteps
<1>12. CASE Exported(q)
  <2>1. rpc[q] = "export" /\ rpc'[q] = "replace" /\ UNCHANGED merging
    BY <1>1, <1>12 DEF Exported, CallEnds, CallReturns, Goto
  <2> QED
    BY <1>2, <2>1 DEF merging
<1>13. CASE Loaded(q)
  <2>1. rpc[q] \in {"load", "load on cpu"} /\ rpc'[q] = "appear" /\ LoadGguf
    BY <1>1, <1>13 DEF Loaded, Goto
  <2>2. Under("gguf") = Bundle(adapter, adapter)
    BY <2>1
  <2>3. Under("gguf")' = Under("gguf")
    BY <2>1 DEF LoadGguf, Under, InPlace
  <2>4. Under("gguf").weights = adapter
    <3>1. Bundle(adapter, adapter).weights = adapter
      BY BundleParts
    <3>2. \A b : b = Bundle(adapter, adapter) => b.weights = adapter
      BY <3>1
    <3> QED
      BY <2>2, <3>2
  <2>5. checked'["gguf"] = adapter
    BY <1>1, <2>1, <2>4 DEF LoadGguf
  <2> QED
    BY <1>2, <2>1, <2>2, <2>3, <2>5
<1>14. CASE LoadAgain(q)
  <2>1. rpc[q] = "load" /\ rpc'[q] = "to cpu" /\ UNCHANGED merging
    BY <1>1, <1>14 DEF LoadAgain, CallEnds, CallReturns, Goto
  <2>2. Under("gguf")' = Under("gguf")
    BY <2>1 DEF merging, Under, InPlace
  <2> QED
    BY <1>2, <2>1, <2>2
<1> QED
  BY <1>5, <1>6, <1>7, <1>8, <1>9, <1>10, <1>11, <1>12, <1>13, <1>14 DEF Bundling, Returning

(* The merge of an MLX model, step by step; fused weights that exist stay  *)
(* at their name or aside.                                                 *)
AsideOfModel == previous # NoAdapter => model["mlx"] # NoModel
Fused == model["mlx"].weights # NoAdapter \/ previous # NoAdapter

(* Each step of an MLX merge does its part, and no older weights are lost. *)
LEMMA MlxMerged ==
    ASSUME WorkInv, MakeOrder, StageOrder, PathOrder, NEW q \in Run, mode[q] = "mlx",
           job[q].target = "mlx", MergingMlx(q), AsideOfModel, Bundling(q) \/ Returning(q),
           rpc[q] \in MergeSteps, ~Goto(q, "fail")
    PROVE  /\ MergingMlx(q)' /\ (At(q, "complete") => MergedWell(q))'
           /\ AsideOfModel' /\ (Fused => Fused')
<1>1. /\ adapter \in Adapters /\ adapter # NoAdapter /\ adapter # Torn /\ Source(q) = adapter
      /\ Kind(q) = "mlx" /\ "mlx" \in Kinds
      /\ rpc[q] = "embed" => stage = NoModel
      /\ model \in [Kinds -> Bundles] /\ stage \in Bundles
      /\ previous \in Products /\ checked \in [Kinds -> Products] /\ rpc \in [Run -> Steps]
  BY MergesOwn
<1>2. UNCHANGED <<adapter, job>>
  <2>1. CASE Bundling(q)
    BY <2>1, BundlingInside DEF SameFolder, folder
  <2>2. CASE Returning(q)
    BY <2>2 DEF Returning, TrainAgain, TrainingFails, TrainingEnds, Evaluated, Verified,
              Exported, Loaded, LoadAgain, MergeCallFails, CallEnds, CallReturns, SameFolder, folder
  <2> QED
    BY <2>1, <2>2
<1>3. rpc[q] \notin OnlyGguf
  BY <1>1 DEF PathOrder
<1>4. Under("mlx") \in Bundles /\ model["mlx"] \in Bundles
  BY <1>1 DEF Under
<1>5. /\ rpc[q] \in {"to verify", "verify", "to export", "export", "aside", "install", "drop",
                     "appear"} => Under("mlx").adapter = adapter
      /\ rpc[q] \in {"to export", "export", "aside", "install", "drop", "appear"} =>
            checked["mlx"] = adapter
      /\ rpc[q] \in {"drop", "appear"} => Under("mlx").weights = adapter
      /\ rpc[q] = "embedding" => stage = NoModel
      /\ rpc[q] = "aside" => Under("mlx").weights # NoAdapter
      /\ rpc[q] = "install" => Under("mlx").weights = NoAdapter
      /\ stage # NoModel => model["mlx"] = NoModel
      /\ rpc[q] \in {"to verify", "verify", "to export", "export", "aside"} /\ stage # NoModel =>
            stage.weights = NoAdapter
  BY DEF MergingMlx, At
<1>6. stage # NoModel => previous = NoAdapter
  BY <1>5 DEF AsideOfModel
<1>7. NoModel.adapter = NoAdapter /\ NoModel.weights = NoAdapter
  BY DEF NoModel
<1> DEFINE Goal == /\ MergingMlx(q)' /\ (At(q, "complete") => MergedWell(q))'
                   /\ AsideOfModel' /\ (Fused => Fused')
<1>8. Torn # NoAdapter
  BY RunAssumption
<1>9. CASE BeginEmbed(q)
  <2>1. /\ Embed("mlx", adapter) /\ stage = NoModel
        /\ rpc'[q] = IF model["mlx"] = NoModel THEN "to verify" ELSE "embedding"
    BY <1>1, <1>9 DEF BeginEmbed, MergeStep, At, Goto
  <2>2. CASE model["mlx"] = NoModel
    <3>1. stage' = [NoModel EXCEPT !.adapter = adapter] /\ UNCHANGED <<model, previous>>
      BY <2>1, <2>2 DEF Embed
    <3>2. stage'.adapter = adapter /\ stage'.weights = NoAdapter /\ stage' # NoModel
      BY <1>1, <3>1 DEF NoModel
    <3>3. Under("mlx")' = stage'
      BY <3>2 DEF Under, InPlace, NoModel
    <3> QED
      BY <1>2, <2>1, <2>2, <3>1, <3>2, <3>3 DEF MergingMlx, At, AsideOfModel, Fused, NoModel
  <2>3. CASE model["mlx"] # NoModel
    <3>1. /\ model' = [model EXCEPT !["mlx"] = [model["mlx"] EXCEPT !.adapter = Torn]]
          /\ UNCHANGED <<stage, previous>>
      BY <2>1, <2>3 DEF Embed
    <3>2. /\ model'["mlx"] = [model["mlx"] EXCEPT !.adapter = Torn]
      BY <1>1, <3>1
    <3>3. model'["mlx"].adapter = Torn /\ model'["mlx"].weights = model["mlx"].weights
      BY <1>4, <3>2 DEF Bundles
    <3>4. model'["mlx"] # NoModel
      BY <1>7, <1>8, <3>3
    <3> QED
      BY <1>2, <2>1, <2>3, <3>1, <3>3, <3>4 DEF MergingMlx, At, AsideOfModel, Fused, NoModel
  <2> QED
    BY <2>2, <2>3
<1>10. CASE EndEmbed(q)
  <2> DEFINE bundle == [Under("mlx") EXCEPT !.adapter = adapter]
  <2>1. rpc'[q] = "to verify" /\ InPlace /\ SetBundle("mlx", bundle) /\ UNCHANGED previous
    BY <1>1, <1>10 DEF EndEmbed, MergeStep, FinishEmbed, WithAdapter, Goto
  <2>2. bundle \in Bundles /\ bundle.adapter = adapter /\ bundle.weights = Under("mlx").weights
    BY <1>1, <1>4 DEF Bundles, Products
  <2> HIDE DEF bundle
  <2>3. Under("mlx")' = bundle /\ UNCHANGED stage /\ model' = [model EXCEPT !["mlx"] = bundle]
    BY <1>1, <2>1, <2>2, BundleSet
  <2>4. model'["mlx"] = bundle /\ Under("mlx") = model["mlx"]
    BY <1>1, <2>1, <2>3 DEF Under
  <2>5. model'["mlx"] # NoModel /\ stage = NoModel
    BY <1>1, <1>7, <2>1, <2>2, <2>4 DEF InPlace
  <2> QED
    BY <1>2, <2>1, <2>2, <2>3, <2>4, <2>5 DEF MergingMlx, At, AsideOfModel, Fused, NoModel
<1>11. CASE Verified(q)
  <2>1. rpc[q] = "verify" /\ rpc'[q] = "to export" /\ VerifyMlx(adapter)
    BY <1>1, <1>11 DEF Verified, CallEnds, CallReturns, At, Goto
  <2>2. UNCHANGED <<model, stage, previous>> /\ checked'["mlx"] = adapter
    BY <1>1, <2>1 DEF VerifyMlx
  <2>3. Under("mlx")' = Under("mlx")
    BY <2>2 DEF Under, InPlace, NoModel
  <2> QED
    BY <1>2, <1>5, <2>1, <2>2, <2>3 DEF MergingMlx, At, AsideOfModel, Fused, NoModel
<1>12. CASE Exported(q)
  <2>1. /\ rpc[q] = "export" /\ UNCHANGED merging
        /\ rpc'[q] = IF Under("mlx").weights = NoAdapter THEN "install" ELSE "aside"
    BY <1>1, <1>12 DEF Exported, CallEnds, CallReturns, At, Goto
  <2>2. UNCHANGED <<model, stage, previous, checked>>
    BY <2>1 DEF merging
  <2>3. Under("mlx")' = Under("mlx")
    BY <2>2 DEF Under, InPlace, NoModel
  <2> QED
    BY <1>2, <1>5, <2>1, <2>2, <2>3 DEF MergingMlx, At, AsideOfModel, Fused, NoModel
<1>13. CASE SetAside(q)
  <2> DEFINE bundle == [Under("mlx") EXCEPT !.weights = NoAdapter]
  <2>1. rpc[q] = "aside" /\ rpc'[q] = "install" /\ MoveAside
    BY <1>1, <1>13 DEF SetAside, MergeStep, At, Goto
  <2>2. stage = NoModel /\ Under("mlx").weights # NoAdapter
    BY <1>5, <2>1 DEF Under, InPlace
  <2>3. InPlace /\ SetBundle("mlx", bundle) /\ previous' = Under("mlx").weights /\ UNCHANGED checked
    BY <2>1, <2>2 DEF MoveAside, WithWeights, InPlace
  <2>4. bundle \in Bundles /\ bundle.adapter = adapter /\ bundle.weights = NoAdapter
    BY <1>4, <1>5, <2>1 DEF Bundles, Products
  <2> HIDE DEF bundle
  <2>5. Under("mlx")' = bundle /\ UNCHANGED stage /\ model' = [model EXCEPT !["mlx"] = bundle]
    BY <1>1, <2>3, <2>4, BundleSet
  <2>6. model'["mlx"] = bundle /\ bundle # NoModel
    BY <1>1, <1>7, <2>4, <2>5
  <2> QED
    BY <1>2, <1>5, <2>1, <2>2, <2>3, <2>4, <2>5, <2>6
       DEF MergingMlx, At, AsideOfModel, Fused, NoModel
<1>14. CASE InstallWeights(q)
  <2> DEFINE bundle == [Under("mlx") EXCEPT !.weights = adapter]
  <2>1. /\ rpc[q] = "install" /\ rpc'[q] = "drop" /\ SetBundle("mlx", bundle)
        /\ UNCHANGED <<previous, checked>>
    BY <1>1, <1>14 DEF InstallWeights, MergeStep, Install, WithWeights, At, Goto
  <2>2. bundle \in Bundles /\ bundle.adapter = adapter /\ bundle.weights = adapter
    BY <1>1, <1>4, <1>5, <2>1 DEF Bundles, Products
  <2> HIDE DEF bundle
  <2>3. bundle # NoModel
    BY <1>1, <1>7, <2>2
  <2>4. Under("mlx")' = bundle
    BY <1>1, <2>1, <2>2, <2>3, BundleSet
  <2>5. CASE InPlace
    <3>1. UNCHANGED stage /\ model'["mlx"] = bundle /\ stage = NoModel
      BY <1>1, <2>1, <2>2, <2>3, <2>5, BundleSet DEF InPlace
    <3> QED
      BY <1>1, <1>2, <1>5, <2>1, <2>2, <2>3, <2>4, <3>1
         DEF MergingMlx, At, AsideOfModel, Fused, NoModel
  <2>6. CASE ~InPlace
    <3>1. UNCHANGED model /\ stage # NoModel
      BY <1>1, <2>1, <2>2, <2>3, <2>6, BundleSet DEF InPlace
    <3> QED
      BY <1>1, <1>2, <1>5, <2>1, <2>2, <2>4, <3>1
         DEF MergingMlx, At, AsideOfModel, Fused, NoModel
  <2> QED
    BY <2>5, <2>6
<1>15. CASE DropOld(q)
  <2>1. /\ rpc[q] = "drop" /\ rpc'[q] = "appear" /\ previous' = NoAdapter
        /\ UNCHANGED <<model, stage, checked>>
    BY <1>1, <1>15 DEF DropOld, MergeStep, DropPrevious, At, Goto
  <2>2. Under("mlx")' = Under("mlx")
    BY <2>1 DEF Under, InPlace, NoModel
  <2>3. Fused => model["mlx"].weights # NoAdapter
    BY <1>1, <1>5, <1>6, <2>1 DEF Under, InPlace, Fused
  <2> QED
    BY <1>2, <1>5, <2>1, <2>2, <2>3 DEF MergingMlx, At, AsideOfModel, Fused, NoModel
<1>16. CASE Publish(q)
  <2>1. rpc[q] = "appear" /\ rpc'[q] = "complete" /\ Appear("mlx")
    BY <1>1, <1>16 DEF Publish, MergeStep, At, Goto
  <2>2. Under("mlx") = Bundle(adapter, adapter) /\ checked["mlx"] = adapter
    BY <1>4, <1>5, <2>1, BundleWhole
  <2>3. model'["mlx"] = Under("mlx") /\ stage' = NoModel /\ UNCHANGED <<previous, checked>>
    BY <1>1, <2>1 DEF Appear, Under
  <2>4. model'["mlx"].weights = adapter
    BY <1>5, <2>1, <2>3
  <2>5. model'["mlx"] # NoModel
    BY <1>1, <1>7, <2>4
  <2>6. MergedWell(q)'
    BY <1>2, <2>2, <2>3 DEF MergedWell, Bundle
  <2>7. MergingMlx(q)'
    BY <2>1, <2>3 DEF MergingMlx, At, NoModel
  <2> QED
    BY <1>1, <2>4, <2>5, <2>6, <2>7 DEF AsideOfModel, Fused, NoModel
<1>17. ~ReplaceWeights(q) /\ ~ReembedAdapter(q) /\ ~Loaded(q) /\ ~LoadAgain(q)
  BY <1>3 DEF OnlyGguf, ReplaceWeights, ReembedAdapter, Loaded, LoadAgain, MergeStep, CallEnds,
              CallReturns, At
<1>18. ~MergeFails(q) /\ ~InstallRaises(q) /\ ~TrainingFails(q)
       /\ ~\E what \in {"verify", "export", "load", "load on cpu"} : MergeCallFails(q, what)
  BY DEF MergeFails, InstallRaises, TrainingFails, MergeCallFails, Raise
<1>19. ~TrainAgain(q) /\ ~TrainingEnds(q) /\ ~Evaluated(q)
  BY DEF TrainAgain, TrainingEnds, Evaluated, CallEnds, CallReturns, At, MergeSteps
<1> QED
  BY <1>9, <1>10, <1>11, <1>12, <1>13, <1>14, <1>15, <1>16, <1>17, <1>18, <1>19
     DEF Bundling, Returning

-----------------------------------------------------------------------------
(* Whatever a run does, its merge is as far as its step says.              *)
Merged(q) == mode[q] = "mlx" => /\ job[q].target = "gguf" => MergingGguf(q)
                                /\ job[q].target = "mlx" => MergingMlx(q)
                                /\ At(q, "complete") => MergedWell(q)

(* A run that does not merge has nothing to show.                          *)
LEMMA MergedNothing ==
    ASSUME NEW q \in Run, rpc'[q] \notin MergeSteps \cup {"complete"} PROVE Merged(q)'
BY DEF Merged, MergingGguf, MergingMlx, MergeSteps, At

(* Others do not touch the merge of a run.                                 *)
LEMMA GuestMerged ==
    ASSUME WorkInv, MakeOrder, NEW q \in Run, Merged(q), Guest(q) PROVE Merged(q)'
<1>1. rpc'[q] = rpc[q] /\ mode'[q] = mode[q] /\ UNCHANGED job
  BY DEF Guest, Untouched
<1>2. CASE rpc[q] \notin MergeSteps \cup {"complete"} \/ mode[q] # "mlx"
  BY <1>1, <1>2, MergedNothing DEF Merged
<1>3. CASE rpc[q] \in MergeSteps \cup {"complete"} /\ mode[q] = "mlx"
  <2>1. Making(q) /\ rpc[q] \in Taken
    BY <1>3 DEF MakeOrder, Taken, Converted, Rechecked, Deployed
  <2>2. UNCHANGED adapter
    BY <2>1, GuestKeeps
  <2>3. rpc[q] \in Holding
    BY <1>3 DEF MergeSteps, Holding, Calls
  <2>4. UNCHANGED <<adapter, model, stage, previous, checked>>
    BY <2>2, <2>3 DEF Guest
  <2>5. \A k : Under(k)' = Under(k)
    BY <2>4 DEF Under, InPlace, NoModel
  <2>6. MergingGguf(q)' = MergingGguf(q)
    BY <1>1, <2>4, <2>5 DEF MergingGguf, At, Bundle, NoModel
  <2>7. MergingMlx(q)' = MergingMlx(q)
    BY <1>1, <2>4, <2>5 DEF MergingMlx, At, NoModel
  <2>8. MergedWell(q)' = MergedWell(q)
    BY <1>1, <2>4 DEF MergedWell, Bundle
  <2> QED
    BY <1>1, <2>6, <2>7, <2>8 DEF Merged, At
<1> QED
  BY <1>2, <1>3

(* Starting a process changes no bundle.                                   *)
LEMMA CallingMerged ==
    ASSUME WorkInv, NEW q \in Run, Merged(q), Calling(q) PROVE Merged(q)'
<1>1. rpc \in [Run -> Steps]
  BY DEF WorkInv, TypeOK, RunsOK
<1>2. UNCHANGED <<adapter, model, stage, previous, checked>>
  BY CallingInside DEF SameFolder, folder, merging
<1>3. \A k : Under(k)' = Under(k)
  BY <1>2 DEF Under, InPlace, NoModel
<1>4. UNCHANGED <<mode, job>>
  BY DEF Calling, Evaluate, Call, CallFails
<1>5. CASE Call(q, "attempt", "train") \/ CallFails(q, "attempt", "train") \/ Evaluate(q)
  <2>1. rpc'[q] \in {"train", "evaluate"}
    BY <1>1, <1>5 DEF Evaluate, Call, CallFails, Goto
  <2> QED
    BY <2>1, MergedNothing DEF MergeSteps
<1>6. CASE \/ Call(q, "to verify", "verify") \/ Call(q, "to export", "export")
           \/ Call(q, "to load", "load") \/ Call(q, "to cpu", "load on cpu")
  <2>1. \/ rpc[q] = "to verify" /\ rpc'[q] = "verify"
        \/ rpc[q] = "to export" /\ rpc'[q] = "export"
        \/ rpc[q] = "to load" /\ rpc'[q] = "load"
        \/ rpc[q] = "to cpu" /\ rpc'[q] = "load on cpu"
    BY <1>1, <1>6 DEF Call, At, Goto
  <2>2. MergingGguf(q) => MergingGguf(q)'
    BY <1>2, <1>3, <2>1 DEF MergingGguf, At, Bundle, NoModel
  <2>3. MergingMlx(q) => MergingMlx(q)'
    BY <1>2, <1>3, <2>1 DEF MergingMlx, At, NoModel, MergeSteps
  <2> QED
    BY <1>4, <2>1, <2>2, <2>3 DEF Merged, At
<1> QED
  BY <1>5, <1>6 DEF Calling

(* Every step of a run leaves its merge as far as its next step expects.   *)
LEMMA OwnMerged ==
    ASSUME WorkInv, MakeOrder, StageOrder, PathOrder, NEW q \in Run, Merged(q), AsideOfModel, Own(q)
    PROVE  Merged(q)'
<1>1. rpc \in [Run -> Steps] /\ mode \in [Run -> {"mlx", "native"}] /\ job[q].target \in {"mlx", "gguf"}
  BY JobsAssumption DEF WorkInv, TypeOK, RunsOK, Kinds
<1> DEFINE Out == Steps \ (MergeSteps \cup {"complete"})
<1>2. ASSUME NEW pc \in Out, Goto(q, pc) PROVE Merged(q)'
  BY <1>1, <1>2, MergedNothing DEF Goto
<1>3. CASE Entering(q)
  <2> USE DEF Steps, Holding, MergeSteps
  <2>1. ASSUME NEW kind, Leave(q, kind) PROVE Merged(q)'
    <3>1. \E pc \in {"ended", "preflight"} : Goto(q, pc)
      BY <2>1, Zenon DEF Leave
    <3> QED
      BY <1>2, <3>1
  <2>2. CASE Start(q) \/ Preflight(q) \/ Acquire(q)
    BY <1>2, <2>2 DEF Start, Preflight, Acquire
  <2>3. CASE Refuse(q) \/ Release(q)
    BY <1>2, <2>1, <2>3 DEF Refuse, Release
  <2> QED
    BY <1>3, <2>2, <2>3 DEF Entering
<1>4. CASE Working(q) /\ ~Deploy(q)
  <2>1. \E pc \in Out : Goto(q, pc)
    BY <1>4 DEF Working, Inspect, InspectFails, Probe, ProbeFails, PrepareData, PrepareDataFails,
                TakeAdapter, NoLoss, SkipEvaluation, Convert, ConvertFails, Recheck, MarkPublishing,
                DeployFails, Complete, Fail, NativeFails, Raise, Steps, Holding, MergeSteps
  <2> QED
    BY <1>2, <2>1
<1>5. CASE Deploy(q)
  <2>1. /\ rpc[q] = "deploy" /\ UNCHANGED <<mode, job, model, stage>>
        /\ rpc'[q] = IF job[q].merge THEN "embed" ELSE "complete"
    BY <1>1, <1>5 DEF Deploy, At, Goto, Alone, merging
  <2>2. mode[q] = "mlx" => stage = NoModel
    BY <2>1, MergesOwn
  <2> QED
    BY <2>1, <2>2 DEF Merged, MergingGguf, MergingMlx, MergedWell, At, NoModel
<1>6. CASE Bundling(q) \/ (Returning(q) /\ rpc[q] \in MergeSteps)
  <2>1. rpc[q] \in MergeSteps
    BY <1>6, BundlingQuiet
  <2>2. CASE Goto(q, "fail")
    BY <1>2, <2>2 DEF Steps, Holding, MergeSteps
  <2>3. CASE ~Goto(q, "fail")
    <3>1. UNCHANGED <<mode, job>>
      BY <1>6, BundlingInside, ReturningInside
    <3>2. mode[q] = "mlx" /\ job[q].target = "gguf" => MergingGguf(q)' /\ (At(q, "complete") => MergedWell(q))'
      BY <1>6, <2>1, <2>3, GgufMerged DEF Merged
    <3>3. mode[q] = "mlx" /\ job[q].target = "mlx" => MergingMlx(q)' /\ (At(q, "complete") => MergedWell(q))'
      BY <1>6, <2>1, <2>3, MlxMerged DEF Merged
    <3> QED
      BY <1>1, <3>1, <3>2, <3>3 DEF Merged
  <2> QED
    BY <2>2, <2>3
<1>7. CASE Returning(q) /\ rpc[q] \notin MergeSteps
  <2>1. ~Verified(q) /\ ~Exported(q) /\ ~Loaded(q) /\ ~LoadAgain(q)
        /\ ~\E what \in {"verify", "export", "load", "load on cpu"} : MergeCallFails(q, what)
    BY <1>7 DEF Verified, Exported, Loaded, LoadAgain, MergeCallFails, CallEnds, CallReturns, At,
                MergeSteps
  <2>2. \E pc \in Out : Goto(q, pc)
    BY <1>7, <2>1 DEF Returning, TrainAgain, TrainingFails, TrainingEnds, Evaluated, Raise, Steps,
                      Holding, MergeSteps
  <2> QED
    BY <1>2, <2>2
<1>8. CASE TrainerSaves(q) \/ PublishCheckpoint(q)
  <2>1. UNCHANGED rpc
    BY <1>8 DEF TrainerSaves, PublishCheckpoint, session, runner
  <2>2. PublishCheckpoint(q) => rpc[q] = "train"
    BY DEF PublishCheckpoint, At
  <2>3. TrainerSaves(q) => Trains(q)
    BY DEF TrainerSaves, Trains
  <2>4. rpc[q] \notin MergeSteps \cup {"complete"}
    BY <1>8, <2>2, <2>3 DEF WorkInv, CallOrder, Waits, Trains, MergeSteps, Calls
  <2> QED
    BY <2>1, <2>4, MergedNothing
<1>9. CASE NativeTrains(q) \/ Kill(q)
  BY <1>2, <1>9 DEF NativeTrains, Kill, Steps, Holding, MergeSteps
<1> QED
  BY <1>3, <1>4, <1>5, <1>6, <1>7, <1>8, <1>9, CallingMerged DEF Own, Working

-----------------------------------------------------------------------------
(* The merge of a GGUF model leaves the MLX one alone.                     *)
LEMMA GgufApart ==
    ASSUME WorkInv, PathOrder, NEW q \in Run, Bundling(q), Kind(q) = "gguf"
    PROVE  model'["mlx"] = model["mlx"] /\ UNCHANGED previous
<1>1. model \in [Kinds -> Bundles] /\ "mlx" # "gguf" /\ "mlx" \in Kinds
  BY DEF WorkInv, TypeOK, ModelsOK, Bundles, Products, Kinds
<1>2. ASSUME NEW bundle, SetBundle("gguf", bundle) PROVE model'["mlx"] = model["mlx"]
  BY <1>1, <1>2 DEF SetBundle
<1>3. CASE BeginEmbed(q)
  <2>1. Embed("gguf", Source(q))
    BY <1>3 DEF BeginEmbed
  <2>2. UNCHANGED <<model, previous>>
    BY <2>1 DEF Embed
  <2> QED
    BY <2>2
<1>4. CASE ReplaceWeights(q) \/ ReembedAdapter(q)
  BY <1>2, <1>4 DEF ReplaceWeights, ReembedAdapter, ReplaceGguf, Reembed, WithWeights, WithAdapter
<1>5. CASE Publish(q)
  BY <1>1, <1>5 DEF Publish, Appear
<1>6. CASE MergeFails(q)
  BY <1>6 DEF MergeFails, Discard
<1>7. rpc[q] \notin OnlyMlx
  BY <1>1 DEF PathOrder
<1>8. ~EndEmbed(q) /\ ~SetAside(q) /\ ~InstallWeights(q) /\ ~DropOld(q) /\ ~InstallRaises(q)
  BY <1>7 DEF OnlyMlx, EndEmbed, SetAside, InstallWeights, DropOld, InstallRaises, MergeStep, At
<1> QED
  BY <1>3, <1>4, <1>5, <1>6, <1>8 DEF Bundling

(* An MLX merge that fails has the older weights at their name or aside.   *)
LEMMA MlxFails ==
    ASSUME WorkInv, MakeOrder, StageOrder, PathOrder, NEW q \in Run, mode[q] = "mlx",
           job[q].target = "mlx", Merged(q), AsideOfModel, MergeFails(q) \/ InstallRaises(q)
    PROVE  AsideOfModel' /\ (Fused => Fused')
<1>1. ASSUME UNCHANGED <<model, previous>> PROVE AsideOfModel' /\ (Fused => Fused')
  BY <1>1 DEF AsideOfModel, Fused, NoModel
<1>2. CASE MergeFails(q)
  BY <1>1, <1>2 DEF MergeFails, Discard
<1>3. CASE InstallRaises(q) /\ ~InPlace
  BY <1>1, <1>3 DEF InstallRaises, Discard
<1>4. CASE InstallRaises(q) /\ InPlace
  <2>1. rpc[q] = "install" /\ InstallFails
    BY <1>4 DEF InstallRaises, At
  <2>2. /\ adapter # NoAdapter /\ "mlx" \in Kinds /\ model \in [Kinds -> Bundles]
    BY <2>1, MergesOwn DEF MergeSteps
  <2>3. model["mlx"].adapter = adapter /\ model["mlx"].weights = NoAdapter
    BY <1>4, <2>1 DEF Merged, MergingMlx, At, Under
  <2>4. CASE WithWeights("mlx", previous) /\ previous' = NoAdapter
    <3>1. model' = [model EXCEPT !["mlx"] = [model["mlx"] EXCEPT !.weights = previous]]
      BY <1>4, <2>4 DEF WithWeights, SetBundle, Under
    <3>2. model'["mlx"].weights = previous
      BY <2>2, <3>1 DEF Bundles
    <3> QED
      BY <2>3, <2>4, <3>2 DEF AsideOfModel, Fused
  <2> QED
    BY <1>1, <2>1, <2>4 DEF InstallFails
<1> QED
  BY <1>2, <1>3, <1>4

(* No step loses the fused weights, and what is aside belongs to a model.  *)
LEMMA FusedStep ==
    ASSUME WorkInv, MakeOrder, StageOrder, PathOrder, \A q \in Run : Merged(q), AsideOfModel,
           [Next]_vars
    PROVE  AsideOfModel' /\ (Fused => Fused')
<1>1. ASSUME model'["mlx"] = model["mlx"], UNCHANGED previous PROVE AsideOfModel' /\ (Fused => Fused')
  BY <1>1 DEF AsideOfModel, Fused, NoModel
<1>2. UNCHANGED vars \/ BaseChanges => UNCHANGED <<model, previous>>
  BY DEF vars, merging, BaseChanges
<1>3. ASSUME NEW s \in Run, StepOf(s) PROVE AsideOfModel' /\ (Fused => Fused')
  <2>1. CASE Entering(s) \/ Working(s) \/ Calling(s) \/ Listening(s) \/ TrainerSaves(s) \/ RunsOutOfMemory(s)
    <3>1. UNCHANGED merging
      BY <2>1, EnteringAlone, WorkingInside, CallingInside
         DEF Alone, Listening, CallOnly, TrainerSaves, RunsOutOfMemory
    <3> QED
      BY <1>1, <3>1 DEF merging
  <2>2. CASE Returning(s)
    <3>1. UNCHANGED <<model, previous>>
      BY <2>2 DEF Returning, TrainAgain, TrainingFails, TrainingEnds, Evaluated, Verified, Exported,
                  Loaded, LoadAgain, MergeCallFails, merging, VerifyMlx, LoadGguf, Discard
    <3> QED
      BY <1>1, <3>1
  <2>3. CASE Bundling(s)
    <3>1. /\ Kind(s) \in {"mlx", "gguf"} /\ rpc[s] \in MergeSteps
          /\ Kind(s) = "mlx" => mode[s] = "mlx" /\ job[s].target = "mlx"
      BY <2>3, BundlingQuiet, JobsAssumption DEF WorkInv, TypeOK, RunsOK, Kind, Kinds
    <3>2. CASE Kind(s) = "gguf"
      BY <1>1, <2>3, <3>2, GgufApart
    <3>3. CASE Kind(s) = "mlx" /\ (MergeFails(s) \/ InstallRaises(s))
      BY <3>1, <3>3, MlxFails
    <3>4. CASE Kind(s) = "mlx" /\ ~MergeFails(s) /\ ~InstallRaises(s)
      <4>1. MergingMlx(s)
        BY <3>1, <3>4 DEF Merged
      <4>2. ~Goto(s, "fail")
        <5>1. CASE BeginEmbed(s)
          <6>1. \E pc \in {"to export", "to verify", "embedding"} : Goto(s, pc)
            BY <5>1, Zenon DEF BeginEmbed, MergeStep
          <6> QED
            BY <6>1 DEF Goto, WorkInv, TypeOK, RunsOK
        <5> QED
          BY <2>3, <3>4, <5>1 DEF Bundling, EndEmbed, SetAside, InstallWeights, DropOld,
             ReplaceWeights, ReembedAdapter, Publish, MergeStep, Goto, WorkInv, TypeOK, RunsOK
      <4> QED
        BY <2>3, <3>1, <3>4, <4>1, <4>2, MlxMerged
    <3> QED
      BY <3>1, <3>2, <3>3, <3>4
  <2>4. CASE PublishCheckpoint(s)
    <3>1. model'["mlx"].weights # NoAdapter /\ model'["mlx"] # NoModel
      <4>1. Checkpoint(s) # NoAdapter
        BY AdaptersTyped, AdapterAssumption DEF WorkInv, TypeOK, RunsOK, RunsTyped
      <4>2. model'["mlx"] = [adapter |-> Checkpoint(s), weights |-> Checkpoint(s)]
        BY <2>4 DEF PublishCheckpoint, WorkInv, TypeOK, ModelsOK, Kinds
      <4> QED
        BY <4>1, <4>2 DEF NoModel
    <3> QED
      BY <3>1 DEF AsideOfModel, Fused
  <2>5. CASE NativeTrains(s)
    BY <1>1, <2>5 DEF NativeTrains, WorkInv, TypeOK, ModelsOK, Kinds
  <2>6. CASE Kill(s)
    BY <1>1, <2>6 DEF Kill, Discard, merging
  <2> QED
    BY <1>3, <2>1, <2>2, <2>3, <2>4, <2>5, <2>6 DEF StepOf, Others
<1> QED
  BY <1>1, <1>2, <1>3, NextCases DEF StepOf, Others

(* Every step keeps what is known of the merges.                           *)
LEMMA MergedStep ==
    ASSUME WorkInv, MakeOrder, StageOrder, PathOrder, MergeOrder, [Next]_vars PROVE MergeOrder'
<1>1. (\A q \in Run : Merged(q)) /\ AsideOfModel
  BY DEF MergeOrder, Merged, AsideOfModel
<1>2. (\A q \in Run : Merged(q)') /\ AsideOfModel'
  BY <1>1, GuestOrOwn, GuestMerged, OwnMerged, FusedStep
<1> QED
  BY <1>2 DEF MergeOrder, Merged, AsideOfModel

-----------------------------------------------------------------------------
(* A run that leaves "completed" in the manifest is not at work, and       *)
(* does not begin.                                                         *)
LEMMA Resting ==
    ASSUME WorkInv, CompletedOrder, NEW s \in Run, StepOf(s), ~Complete(s),
           manifest'.status = "completed"
    PROVE  /\ UNCHANGED <<manifest, job, model, checked, converted, deployed, reserved>>
           /\ UNCHANGED adapter \/ (TrainerSaves(s) /\ job[s].media)
           /\ rpc'[s] \notin Begun
           /\ \A q \in Run : Trains(q)' => Trains(q)
<1>1. /\ rpc \in [Run -> Steps] /\ mode \in [Run -> {"mlx", "native"}]
      /\ manifest.status = "completed" => rpc[s] \notin Begun
      /\ child \in [Run -> {"none", "running", "zero", "nonzero", "memory"}]
  BY DEF WorkInv, TypeOK, CallsOK, RunsOK, CompletedOrder
<1> DEFINE Goal == /\ UNCHANGED <<manifest, job, model, checked, converted, deployed, reserved>>
                   /\ UNCHANGED adapter \/ (TrainerSaves(s) /\ job[s].media)
                   /\ rpc'[s] \notin Begun
                   /\ \A q \in Run : Trains(q)' => Trains(q)
<1>0. ASSUME NEW r, NEW status, Mark(r, status), status # "completed" PROVE FALSE
  BY <1>0 DEF Mark, Describe
<1> USE DEF Begun, Holding, Calls
<1>2. ASSUME NEW pc \in Steps \ Begun, Goto(s, pc) PROVE rpc'[s] \notin Begun
  BY <1>1, <1>2 DEF Goto
<1>3. ASSUME UNCHANGED process PROVE \A q \in Run : Trains(q)' => Trains(q)
  BY <1>3 DEF process, Trains
<1>4. CASE Entering(s)
  <2>1. UNCHANGED <<job, model, checked, adapter, converted, deployed, reserved, process>>
    BY <1>4, EnteringAlone DEF Alone, SameFolder, folder, merging
  <2>2. \E pc \in Steps \ Begun : Goto(s, pc)
    <3>1. ASSUME NEW kind, Leave(s, kind) PROVE \E pc \in {"ended", "preflight"} : Goto(s, pc)
      BY <3>1, Zenon DEF Leave
    <3>2. CASE Refuse(s)
      BY <3>1, <3>2 DEF Refuse, Steps
    <3>3. CASE Release(s)
      BY <3>1, <3>3 DEF Release, Steps
    <3>4. CASE Start(s) \/ Preflight(s) \/ Acquire(s)
      BY <3>4 DEF Start, Preflight, Acquire, Steps
    <3> QED
      BY <1>4, <3>2, <3>3, <3>4 DEF Entering
  <2>3. UNCHANGED manifest
    BY <1>0, <1>4 DEF Entering, Start, Preflight, Acquire, Refuse, Release
  <2> QED
    BY <1>2, <1>3, <2>1, <2>2, <2>3
<1>5. CASE Working(s)
  <2>1. InspectFails(s) \/ NativeFails(s)
    <3>1. manifest' = manifest => rpc[s] \notin Begun
      BY <1>1
    <3> QED
      BY <1>0, <1>5, <3>1 DEF Working, Inspect, Probe, ProbeFails, PrepareData, PrepareDataFails, TakeAdapter,
             NoLoss, SkipEvaluation, Convert, ConvertFails, Recheck, MarkPublishing, Deploy, DeployFails,
             Fail, At
  <2>2. /\ UNCHANGED <<manifest, job, model, checked, adapter, converted, deployed, reserved, process>>
        /\ Goto(s, "fail")
    BY <2>1 DEF InspectFails, NativeFails, Alone, SameFolder, folder, merging, Raise
  <2> QED
    BY <1>2, <1>3, <2>2 DEF Steps
<1>6. CASE Calling(s) \/ Returning(s) \/ Bundling(s) \/ PublishCheckpoint(s)
  <2>1. rpc[s] \in Begun
    BY <1>6, BundlingQuiet DEF Calling, Evaluate, Call, CallFails, Returning, TrainAgain, TrainingFails,
       TrainingEnds, Evaluated, Verified, Exported, Loaded, LoadAgain, MergeCallFails, CallEnds,
       CallReturns, PublishCheckpoint, At, MergeSteps
  <2>2. UNCHANGED manifest
    BY <1>6, BundlingInside DEF Calling, Evaluate, Call, CallFails, Returning, TrainAgain, TrainingFails,
       TrainingEnds, Evaluated, Verified, Exported, Loaded, LoadAgain, MergeCallFails, CallEnds,
       CallReturns, PublishCheckpoint, session
  <2> QED
    BY <1>1, <2>1, <2>2
<1>7. CASE Listening(s) \/ RunsOutOfMemory(s)
  <2>1. UNCHANGED <<manifest, job, model, checked, adapter, converted, deployed, reserved, rpc, task>>
    BY <1>7 DEF Listening, CallOnly, session, runner, folder, merging, RunsOutOfMemory, ReadLine,
                EndOfOutput, LogFails, Interrupted, Prints, Exits
  <2>2. \A q \in Run : child'[q] = "running" => child[q] = "running"
    BY <1>1, <1>7 DEF Listening, RunsOutOfMemory, ReadLine, EndOfOutput, LogFails, Interrupted,
                      Terminate, Prints, Exits
  <2> QED
    BY <1>1, <2>1, <2>2 DEF Trains
<1>8. CASE TrainerSaves(s)
  <2>1. /\ UNCHANGED <<manifest, job, model, checked, converted, deployed, reserved, rpc, process>>
        /\ ~job[s].media => UNCHANGED adapter
    BY <1>8 DEF TrainerSaves, Alone, merging, runner
  <2> QED
    BY <1>1, <1>3, <1>8, <2>1
<1>9. ~NativeTrains(s)
  BY <1>0 DEF NativeTrains
<1>10. CASE Kill(s)
  <2>1. /\ UNCHANGED <<manifest, job, model, checked, adapter, converted, deployed, reserved, task, child>>
        /\ Goto(s, "dead")
    BY <1>10 DEF Kill, Killed, Discard, SameFolder, folder, merging
  <2> QED
    BY <1>2, <2>1 DEF Steps, Trains
<1> QED
  BY <1>4, <1>5, <1>6, <1>7, <1>8, <1>9, <1>10 DEF StepOf, Others

(* A run that has fallen back does not return to MLX.                      *)
LEMMA ModeSteps ==
    ASSUME TypeOK, [Next]_vars, NEW q \in Run, mode'[q] = "mlx" PROVE mode[q] = "mlx"
<1>1. mode \in [Run -> {"mlx", "native"}]
  BY DEF TypeOK, RunsOK
<1>2. ASSUME UNCHANGED mode PROVE mode[q] = "mlx"
  BY <1>2
<1>3. ASSUME NEW s \in Run, NEW kind, Leave(s, kind) PROVE mode[q] = "mlx"
  BY <1>1, <1>3 DEF Leave
<1>4. UNCHANGED vars \/ BaseChanges => UNCHANGED mode
  BY DEF vars, session, runner, BaseChanges
<1>5. ASSUME NEW s \in Run, Entering(s) PROVE mode[q] = "mlx"
  <2>1. CASE Refuse(s)
    BY <1>3, <2>1 DEF Refuse
  <2>2. CASE Release(s)
    BY <1>2, <1>3, <2>2 DEF Release
  <2> QED
    BY <1>2, <1>5, <2>1, <2>2 DEF Entering, Start, Preflight, Acquire
<1>6. ASSUME NEW s \in Run, Calling(s) \/ Returning(s) \/ Bundling(s) \/ Listening(s) \/ Others(s)
      PROVE  UNCHANGED mode
  BY <1>6, BundlingInside, ReturningInside
     DEF Calling, Evaluate, Call, CallFails, Listening, CallOnly, session, runner, Others, TrainerSaves,
         RunsOutOfMemory, PublishCheckpoint, NativeTrains, Kill
<1>7. ASSUME NEW s \in Run, Working(s) PROVE UNCHANGED mode
  BY <1>7 DEF Working, Inspect, InspectFails, Probe, ProbeFails, PrepareData, PrepareDataFails,
              TakeAdapter, NoLoss, SkipEvaluation, Convert, ConvertFails, Recheck, MarkPublishing,
              Deploy, DeployFails, Complete, Fail, NativeFails
<1> QED
  BY <1>2, <1>4, <1>5, <1>6, <1>7, NextCases

(* Who completes finds what it has made as it has made it.                 *)
LEMMA CompletesWell ==
    ASSUME WorkInv, MakeOrder, NEW s \in Run, Merged(s), Complete(s)
    PROVE  CompletedOrder' /\ CompletedDelivers'
<1>1. /\ rpc[s] = "complete" /\ Goto(s, "release")
      /\ manifest' = [by |-> s, status |-> "completed", of |-> settings[s], on |-> seen[s]]
      /\ UNCHANGED <<job, mode, model, checked, adapter, converted, deployed, reserved, process>>
  BY DEF Complete, Describe, At, Alone, SameFolder, folder, merging
<1>2. manifest'.by = s /\ manifest'.of = settings[s] /\ manifest'.on = seen[s]
  BY <1>1
<1>3. \A q \in Run : rpc'[q] \notin Begun
  BY <1>1 DEF WorkInv, TypeOK, RunsOK, LockOwner, Goto, Begun, Holding, Calls
<1>4. ~Trains(s)'
  BY <1>1 DEF WorkInv, CallOrder, Waits, Trains, process, Calls
<1>5. CASE mode[s] # "mlx"
  BY <1>1, <1>2, <1>3, <1>4, <1>5 DEF CompletedOrder, CompletedDelivers
<1>6. CASE mode[s] = "mlx"
  <2>1. /\ Having(s) /\ adapter.on = seen[s] /\ deployed = adapter
        /\ job[s].target = "gguf" => converted = adapter
        /\ MergedWell(s)
    BY <1>1, <1>6 DEF MakeOrder, Making, Merged, At, Taken, Converted, Rechecked, Deployed
  <2>2. job[s].target \in {"mlx", "gguf"}
    BY JobsAssumption DEF WorkInv, TypeOK, RunsOK, Kinds
  <2>3. CompletedDelivers'
    BY <1>1, <1>2, <2>1, <2>2 DEF CompletedDelivers, Having, HasOwn, MergedWell, Bundle
  <2> QED
    BY <1>1, <1>2, <1>3, <1>4, <2>1, <2>3 DEF CompletedOrder, Having
<1> QED
  BY <1>5, <1>6

(* What a completed manifest describes is left as it is.                   *)
LEMMA CompletedStep ==
    ASSUME WorkInv, MakeOrder, CompletedOrder, CompletedDelivers, \A q \in Run : Merged(q), [Next]_vars
    PROVE  CompletedOrder' /\ CompletedDelivers'
<1>1. ASSUME NEW s \in Run, Complete(s) PROVE CompletedOrder' /\ CompletedDelivers'
  BY <1>1, CompletesWell
<1>2. CASE manifest'.status # "completed"
  BY <1>2 DEF CompletedOrder, CompletedDelivers
<1>3. ASSUME manifest'.status = "completed",
             UNCHANGED <<manifest, job, model, checked, converted, deployed, reserved, adapter>>,
             \A q \in Run : rpc'[q] \notin Begun, \A q \in Run : Trains(q)' => Trains(q)
      PROVE  CompletedOrder' /\ CompletedDelivers'
  <2>1. manifest.by \in Run /\ ~Trains(manifest.by)
    BY <1>3 DEF CompletedOrder
  <2>2. mode'[manifest.by] = "mlx" => mode[manifest.by] = "mlx"
    BY <2>1, ModeSteps DEF WorkInv
  <2>3. CompletedOrder'
    BY <1>3, <2>1, <2>2 DEF CompletedOrder
  <2>4. CompletedDelivers'
    BY <1>3, <2>2 DEF CompletedDelivers
  <2> QED
    BY <2>3, <2>4
<1>4. CASE manifest'.status = "completed" /\ (UNCHANGED vars \/ BaseChanges)
  <2>1. UNCHANGED <<manifest, job, model, checked, converted, deployed, reserved, adapter, rpc, task, child>>
    BY <1>4 DEF vars, session, runner, folder, merging, process, BaseChanges
  <2>2. \A q \in Run : rpc'[q] \notin Begun
    BY <1>4, <2>1 DEF CompletedOrder
  <2> QED
    BY <1>3, <1>4, <2>1, <2>2 DEF Trains
<1>5. ASSUME NEW s \in Run, StepOf(s), ~Complete(s), manifest'.status = "completed"
      PROVE  CompletedOrder' /\ CompletedDelivers'
  <2>1. /\ UNCHANGED <<manifest, job, model, checked, converted, deployed, reserved>>
        /\ UNCHANGED adapter \/ (TrainerSaves(s) /\ job[s].media)
        /\ rpc'[s] \notin Begun
        /\ \A q \in Run : Trains(q)' => Trains(q)
    BY <1>5, Resting
  <2>2. \A q \in Run : rpc'[q] \notin Begun
    BY <1>5, <2>1, Untouching DEF WorkInv, Untouched, CompletedOrder
  <2>3. CASE UNCHANGED adapter
    BY <1>3, <1>5, <2>1, <2>2, <2>3
  <2>4. CASE TrainerSaves(s) /\ job[s].media
    <3>1. manifest.status = "completed" /\ manifest.by \in Run /\ ~Trains(manifest.by) /\ Trains(s)
      BY <1>5, <2>1, <2>4 DEF CompletedOrder, TrainerSaves, Trains
    <3>2. s # manifest.by
      BY <3>1
    <3>3. mode'[manifest.by] # "mlx"
      <4> SUFFICES ASSUME mode'[manifest.by] = "mlx" PROVE FALSE
        OBVIOUS
      <4>1. mode[manifest.by] = "mlx"
        BY <3>1, ModeSteps DEF WorkInv
      <4>2. adapter # NoAdapter /\ adapter.run = manifest.by
        BY <3>1, <4>1 DEF CompletedDelivers
      <4>3. Works(manifest.by) /\ Works(s)
        BY <3>1, <4>2 DEF Works
      <4>4. reserved /\ (DataKind(manifest.by) = DataKind(s) => manifest.by = s)
        BY <2>4, <3>1, <4>3 DEF WorkInv, OneWorker, DataKind
      <4> QED
        BY <1>5, <2>4, <3>1, <3>2, <4>1, <4>4 DEF CompletedOrder, DataKind
    <3>4. CompletedDelivers'
      BY <2>1, <3>3 DEF CompletedDelivers
    <3>5. CompletedOrder'
      BY <2>1, <2>2, <3>1, <3>3 DEF CompletedOrder
    <3> QED
      BY <3>4, <3>5
  <2> QED
    BY <2>1, <2>3, <2>4
<1> QED
  BY <1>1, <1>2, <1>4, <1>5, NextCases DEF StepOf, Others

-----------------------------------------------------------------------------
(* Nothing is made, merged or completed at first.                          *)
LEMMA InitDelivery == Init => DeliveryInv
<1> SUFFICES ASSUME Init PROVE DeliveryInv
  OBVIOUS
<1>1. WorkInv
  BY InitWork
<1>2. \A r \in Run : rpc[r] = "idle" /\ mode[r] = "mlx" /\ seen[r] = 0 /\ base = 0
  BY DEF Init
<1>3. ASSUME NEW r \in Run PROVE seen[r] <= base /\ Making(r)
  <2>1. seen[r] <= base
    BY <1>2
  <2>2. Making(r)
    BY <1>2 DEF Making, Ended, Attempting, Taken, Converted, Rechecked, Deployed, MergeSteps
  <2> QED
    BY <2>1, <2>2
<1>4. PathOrder
  BY <1>2 DEF PathOrder, OnlyNative, OnlyMlx, OnlyGguf
<1>5. StageOrder
  BY DEF Init, NoMerge, StageOrder
<1>6. MergeOrder
  BY <1>2 DEF MergeOrder, MergingGguf, MergingMlx, MergeSteps, At, Init, NoMerge
<1>7. CompletedOrder /\ CompletedDelivers
  BY DEF Init, CompletedOrder, CompletedDelivers
<1> QED
  BY <1>1, <1>3, <1>4, <1>5, <1>6, <1>7 DEF DeliveryInv, MakeOrder

(* The invariant about what runs have made is inductive.                   *)
LEMMA NextDelivery == ASSUME DeliveryInv, [Next]_vars PROVE DeliveryInv'
<1>1. (\A q \in Run : Merged(q)) /\ WorkInv /\ MakeOrder /\ CompletedOrder /\ CompletedDelivers
  BY DEF DeliveryInv, MergeOrder, Merged
<1>2. CompletedOrder' /\ CompletedDelivers'
  BY <1>1, CompletedStep
<1> QED
  BY <1>2, NextWork, MakeStep, PathStep, StageStep, MergedStep DEF DeliveryInv

(* Whatever is run, killed or fails in a session folder, and however the   *)
(* base changes: an MLX run whose manifest says "completed" has left the   *)
(* adapter of its last attempt, trained on the base it fingerprinted, and, *)
(* where one was asked for, the merged model with that adapter, tested.    *)
THEOREM MlxCompletedDelivers == Spec => []CompletedDelivers
<1>1. Init => DeliveryInv
  BY InitDelivery
<1>2. DeliveryInv /\ [Next]_vars => DeliveryInv'
  BY NextDelivery
<1>3. DeliveryInv => CompletedDelivers
  BY DEF DeliveryInv
<1> QED
  BY <1>1, <1>2, <1>3, PTL DEF Spec

(* A merge that fails or is killed at any of its steps, in any session,    *)
(* leaves older fused MLX weights at their name or moved aside.            *)
THEOREM MlxWeightsKept == Spec => WeightsKept
<1>1. Init => DeliveryInv
  BY InitDelivery
<1>2. DeliveryInv /\ [Next]_vars => DeliveryInv'
  BY NextDelivery
<1>3. DeliveryInv /\ [Next]_vars =>
          [{model.mlx.weights, previous} # {NoAdapter}
              => {model'.mlx.weights, previous'} # {NoAdapter}]_vars
  <2> SUFFICES ASSUME DeliveryInv, [Next]_vars,
                      {model.mlx.weights, previous} # {NoAdapter}
               PROVE  {model'.mlx.weights, previous'} # {NoAdapter}
    OBVIOUS
  <2>1. (\A q \in Run : Merged(q)) /\ AsideOfModel
    BY DEF DeliveryInv, MergeOrder, Merged, AsideOfModel
  <2>2. Fused => Fused'
    BY <2>1, FusedStep DEF DeliveryInv
  <2> QED
    BY <2>2 DEF Fused
<1> QED
  BY <1>1, <1>2, <1>3, PTL DEF Spec, WeightsKept
====

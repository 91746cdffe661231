---- MODULE MlxSession_proofs ----
(***************************************************************************)
(* Proofs about MlxSession for any number of osAi processes, settings,     *)
(* workers and failures: one trainer of each kind at a time works in a     *)
(* session folder, its adapter stays that of the run that trained it or    *)
(* gives way to one trained on media, and settings are lowered for want of *)
(* memory only, to even shares of the batch.                               *)
(***************************************************************************)
EXTENDS MlxSession, WellFoundedInduction, TLAPS

-----------------------------------------------------------------------------
(* Who works in the folder.                                                *)

(* A run is past the acquisition of the lock exactly if it owns it.        *)
LockOwner == \A r \in Run : rpc[r] \in Holding <=> lock = r

(* A run in a call waits for what it has started.  A child that outlives   *)
(* its call, as its output could not be logged, brings its run to an end.  *)
Waits(r) ==
    /\ rpc[r] \in Calls => task[r] = rpc[r]
    /\ call[r] = "over" /\ child[r] = "running" => outcome[r] = "error"
    /\ call[r] \in {"read", "over"} => rpc[r] \in Calls
    /\ call[r] = "over" /\ outcome[r] = "ok" => child[r] = "zero"
    /\ child[r] # "none" => rpc[r] \in Calls \cup {"fail", "release", "ended", "dead"}
    /\ child[r] # "none" /\ rpc[r] \in {"fail", "release"} => error[r] = "error"
CallOrder == \A r \in Run : Waits(r)

(* A run works in the folder while it trains, or something it has trained  *)
(* is there.  Only one of each kind ever does, as it has prepared the data.*)
(* A run on media has also made the folder of the adapter.                 *)
Works(r) == \/ Trains(r)
            \/ rpc[r] \in {"attempt", "train", "take"}
            \/ \E a \in attempts : a.run = r
            \/ adapter # NoAdapter /\ adapter.run = r
OneWorker == \A r \in Run : Works(r) =>
    /\ DataKind(r) \in data
    /\ DataKind(r) = "media" => reserved
    /\ \A s \in Run : Works(s) /\ DataKind(r) = DataKind(s) => r = s
TextAttempts == \A a \in attempts : DataKind(a.run) = "text"

WorkInv == TypeOK /\ LockOwner /\ CallOrder /\ OneWorker /\ TextAttempts

(* The settings that last ran out of memory are this attempt's only if it  *)
(* has run out of memory itself.                                           *)
MemoryOrder == \A r \in Run :
    /\ At(r, "attempt") => oomAt # settings[r]
    /\ At(r, "train") /\ oomAt = settings[r] => child[r] = "memory"

MergeSteps == {"embed", "embedding", "to verify", "verify", "to export", "export", "replace",
               "reembed", "to load", "load", "to cpu", "load on cpu", "aside", "install", "drop",
               "appear"}
Attempting == {"attempt", "train", "take"}

-----------------------------------------------------------------------------
(* A set of numbers up to n has a largest one.                             *)
LEMMA Largest ==
    ASSUME NEW n \in Nat, NEW S \in SUBSET (1..n), S # {}
    PROVE  \E w \in S : \A v \in S : v <= w
<1> DEFINE T == {m \in 0..n : n - m \in S}
<1>1. T \subseteq Nat
  OBVIOUS
<1>2. T # {}
  <2>1. PICK w \in S : TRUE
    OBVIOUS
  <2>2. w \in 1..n /\ n - w \in 0..n /\ n - (n - w) = w
    OBVIOUS
  <2>3. n - w \in T
    BY <2>2
  <2> QED
    BY <2>3
<1> HIDE DEF T
<1>3. PICK x \in T : \A y \in T : ~(<<y, x>> \in OpToRel(<, Nat))
  BY <1>1, <1>2, NatLessThanWellFounded, WFMin
<1>4. \A y \in T : ~(y < x)
  BY <1>1, <1>3 DEF OpToRel
<1>5. n - x \in S /\ x \in Nat
  BY <1>1 DEF T
<1>6. ASSUME NEW v \in S PROVE v <= n - x
  <2>1. v \in 1..n /\ n - v \in 0..n /\ n - (n - v) = v
    OBVIOUS
  <2>2. n - v \in T
    BY <2>1 DEF T
  <2>3. ~(n - v < x)
    BY <1>4, <2>2
  <2> QED
    BY <1>5, <2>1, <2>3
<1> QED
  BY <1>5, <1>6

(* A multiple of a number is divided by it evenly.                         *)
LEMMA Multiple == ASSUME NEW q \in Nat, NEW w \in Nat \ {0} PROVE (q * w) % w = 0
<1> DEFINE d == (q * w) \div w
           m == (q * w) % w
<1>1. q * w \in Nat
  OBVIOUS
<1>2. d \in Int /\ m \in 0..(w - 1) /\ q * w = w * d + m
  BY <1>1
<1> HIDE DEF d, m
<1>3. m = w * (q - d)
  BY <1>2
<1>4. q - d = 0 \/ q - d >= 1 \/ q - d <= -1
  BY <1>2
<1>5. q - d >= 1 => w * (q - d) >= w
  BY <1>2
<1>6. q - d <= -1 => w * (q - d) <= -w
  BY <1>2
<1>7. q - d = 0
  BY <1>2, <1>3, <1>4, <1>5, <1>6
<1>8. m = 0
  BY <1>3, <1>7, <1>2
<1> QED
  BY <1>8 DEF m

(* There is at least one worker, and the workers share the batch evenly.   *)
LEMMA WorkersShare == Workers \in Nat \ {0} /\ Batch % Workers = 0 /\ Workers <= Batch
<1> DEFINE most == IF Requested = 0 \/ Requested > Gpus THEN Gpus ELSE Requested
           even == {w \in 1..most : Divisor(w)}
<1>1. most \in Nat /\ even \in SUBSET (1..most)
  BY SettingsAssumption
<1>2. Workers = IF MultiGpu = "off" \/ even = {} THEN 1
                ELSE CHOOSE w \in even : \A v \in even : v <= w
  BY DEF Workers
<1> HIDE DEF most
<1>3. CASE MultiGpu = "off" \/ even = {}
  <2>1. Workers = 1 /\ Batch % 1 = 0 /\ Batch >= 1
    BY <1>2, <1>3, SettingsAssumption
  <2> QED
    BY <2>1
<1>4. CASE ~(MultiGpu = "off" \/ even = {})
  <2>1. \E w \in even : \A v \in even : v <= w
    BY <1>1, <1>4, Largest
  <2>2. Workers \in even
    BY <1>2, <1>4, <2>1
  <2>3. Workers \in 1..most /\ Batch % Workers = 0
    BY <2>2 DEF Divisor
  <2>4. Workers > Batch => Batch % Workers = Batch
    BY <2>3, <1>1, SettingsAssumption
  <2> QED
    BY <2>3, <2>4, <1>1, SettingsAssumption
<1> QED
  BY <1>3, <1>4

(* Lowered settings are less, and shared as evenly.                        *)
LEMMA LowerShares ==
    ASSUME NEW s \in Settings, Lower(s) # NoSettings
    PROVE  /\ Lower(s) \in Settings /\ Lower(s) # s
           /\ s.batch % Workers = 0 /\ s.batch >= Workers =>
                 Lower(s).batch % Workers = 0 /\ Lower(s).batch >= Workers
<1>1. Workers \in Nat \ {0}
  BY WorkersShare
<1>2. CASE s.context > 64
  <2>1. Lower(s) = [s EXCEPT !.context = AtLeast(64, s.context \div 2)]
    BY <1>2 DEF Lower
  <2>2. AtLeast(64, s.context \div 2) \in Nat /\ AtLeast(64, s.context \div 2) < s.context
    BY <1>2 DEF AtLeast, Settings
  <2> QED
    BY <2>1, <2>2 DEF Settings
<1>3. CASE ~(s.context > 64)
  <2> DEFINE q == s.batch \div (2 * Workers)
             fewer == AtLeast(Workers, q * Workers)
  <2>1. s.batch > Workers /\ Lower(s) = [s EXCEPT !.batch = fewer]
    BY <1>3 DEF Lower
  <2>2. s.batch \in Nat
    BY DEF Settings
  <2>3. q \in Nat /\ (2 * Workers) * q <= s.batch
    BY <1>1, <2>2
  <2> HIDE DEF q
  <2>4. q * Workers \in Nat /\ q * Workers + q * Workers <= s.batch
    BY <1>1, <2>3
  <2>5. fewer \in Nat /\ fewer >= Workers /\ fewer < s.batch
    BY <1>1, <2>1, <2>2, <2>4 DEF AtLeast
  <2>6. (q * Workers) % Workers = 0 /\ Workers % Workers = 0
    BY <1>1, <2>3, Multiple
  <2>7. fewer % Workers = 0
    BY <2>6 DEF AtLeast
  <2> HIDE DEF fewer
  <2> QED
    BY <2>1, <2>5, <2>7 DEF Settings
<1> QED
  BY <1>2, <1>3

-----------------------------------------------------------------------------
(* The steps of a run, by what they touch: runs that come and go, steps    *)
(* that call nobody, calls and their returns, and steps on a bundle.       *)
Entering(r) == Start(r) \/ Preflight(r) \/ Acquire(r) \/ Refuse(r) \/ Release(r)
Working(r) ==
    \/ Inspect(r) \/ InspectFails(r) \/ Probe(r) \/ ProbeFails(r)
    \/ PrepareData(r) \/ PrepareDataFails(r) \/ TakeAdapter(r) \/ NoLoss(r)
    \/ SkipEvaluation(r) \/ Convert(r) \/ ConvertFails(r) \/ Recheck(r)
    \/ MarkPublishing(r) \/ Deploy(r) \/ DeployFails(r)
    \/ Complete(r) \/ Fail(r) \/ NativeFails(r)
Calling(r) ==
    \/ Call(r, "attempt", "train") \/ CallFails(r, "attempt", "train") \/ Evaluate(r)
    \/ Call(r, "to verify", "verify") \/ Call(r, "to export", "export")
    \/ Call(r, "to load", "load") \/ Call(r, "to cpu", "load on cpu")
Returning(r) ==
    \/ TrainAgain(r) \/ TrainingFails(r) \/ TrainingEnds(r) \/ Evaluated(r)
    \/ Verified(r) \/ Exported(r) \/ Loaded(r) \/ LoadAgain(r)
    \/ \E what \in {"verify", "export", "load", "load on cpu"} : MergeCallFails(r, what)
Bundling(r) ==
    \/ BeginEmbed(r) \/ EndEmbed(r) \/ SetAside(r) \/ InstallWeights(r) \/ DropOld(r)
    \/ ReplaceWeights(r) \/ ReembedAdapter(r) \/ Publish(r)
    \/ MergeFails(r) \/ InstallRaises(r)
Listening(r) ==
    /\ \/ ReadLine(r) \/ EndOfOutput(r) \/ LogFails(r) \/ Interrupted(r) \/ Prints(r)
       \/ Exits(r, "nonzero")
       \/ Exits(r, "zero") /\ (task[r] = "train" => Saved(r))
    /\ CallOnly
Others(r) == TrainerSaves(r) \/ RunsOutOfMemory(r) \/ PublishCheckpoint(r) \/ NativeTrains(r) \/ Kill(r)

(* Every step is one of these.                                             *)
LEMMA NextCases ==
    ASSUME Next
    PROVE  \/ BaseChanges
           \/ \E r \in Run : \/ Entering(r) \/ Working(r) \/ Calling(r) \/ Returning(r)
                            \/ Bundling(r) \/ Listening(r) \/ Others(r)
<1>1. ASSUME NEW r \in Run, Runner(r)
      PROVE  Entering(r) \/ Working(r) \/ Calling(r) \/ Returning(r) \/ Bundling(r)
             \/ Listening(r) \/ Others(r)
  BY <1>1 DEF Runner, Training, Merging, Reads, Entering, Working, Calling, Returning, Bundling,
              Listening, Others
<1>2. ASSUME NEW r \in Run, Fails(r)
      PROVE  Working(r) \/ Calling(r) \/ Bundling(r) \/ Listening(r)
  BY <1>2 DEF Fails, Working, Calling, Bundling, Listening
<1>3. ASSUME NEW r \in Run, ChildEnds(r) \/ ChildSteps(r)
      PROVE  Listening(r) \/ Others(r)
  BY <1>3 DEF ChildEnds, ChildSteps, Listening, Others
<1> QED
  BY <1>1, <1>2, <1>3 DEF Next, Entering, Others

(* Most steps are taken by a run that has the lock and keeps it.           *)
Inside(r, steps) == /\ rpc[r] \in Holding /\ UNCHANGED lock
                    /\ \E pc \in steps : Goto(r, pc)

(* A step of a run between two calls keeps the lock, and the models stay.  *)
LEMMA WorkingInside == ASSUME NEW r \in Run, Working(r) PROVE Inside(r, Holding \ Calls) /\ Alone
<1> USE DEF Inside, Holding, Calls, At, Raise, Goto
<1>1. CASE Inspect(r)
  BY <1>1 DEF Inspect
<1>2. CASE InspectFails(r)
  BY <1>2 DEF InspectFails
<1>3. CASE Probe(r)
  BY <1>3 DEF Probe
<1>4. CASE ProbeFails(r)
  BY <1>4 DEF ProbeFails
<1>5. CASE PrepareData(r)
  BY <1>5 DEF PrepareData
<1>6. CASE PrepareDataFails(r)
  BY <1>6 DEF PrepareDataFails
<1>7. CASE TakeAdapter(r)
  BY <1>7 DEF TakeAdapter
<1>8. CASE NoLoss(r)
  BY <1>8 DEF NoLoss
<1>9. CASE SkipEvaluation(r)
  BY <1>9 DEF SkipEvaluation
<1>10. CASE Convert(r)
  BY <1>10 DEF Convert
<1>11. CASE ConvertFails(r)
  BY <1>11 DEF ConvertFails
<1>12. CASE Recheck(r)
  BY <1>12 DEF Recheck
<1>13. CASE MarkPublishing(r)
  BY <1>13 DEF MarkPublishing
<1>14. CASE Deploy(r)
  BY <1>14 DEF Deploy
<1>15. CASE DeployFails(r)
  BY <1>15 DEF DeployFails
<1>16. CASE Complete(r)
  BY <1>16 DEF Complete
<1>17. CASE Fail(r)
  BY <1>17 DEF Fail
<1>18. CASE NativeFails(r)
  BY <1>18 DEF NativeFails
<1> QED
  BY <1>1, <1>2, <1>3, <1>4, <1>5, <1>6, <1>7, <1>8, <1>9, <1>10, <1>11, <1>12, <1>13, <1>14,
     <1>15, <1>16, <1>17, <1>18 DEF Working

(* A run that calls keeps the lock, and the folder stays.                  *)
LEMMA CallingInside ==
    ASSUME NEW r \in Run, Calling(r) PROVE Inside(r, Calls) /\ SameFolder /\ UNCHANGED <<merging, base>>
<1> USE DEF Inside, Holding, Calls, At, Goto
<1>1. ASSUME NEW from \in Holding, NEW what \in Calls, Call(r, from, what)
      PROVE  Inside(r, Calls) /\ SameFolder /\ UNCHANGED <<merging, base>>
  BY <1>1 DEF Call
<1>2. ASSUME NEW from \in Holding, NEW what \in Calls, CallFails(r, from, what)
      PROVE  Inside(r, Calls) /\ SameFolder /\ UNCHANGED <<merging, base>>
  BY <1>2 DEF CallFails
<1> HIDE DEF Inside
<1> QED
  BY <1>1, <1>2 DEF Calling, Evaluate

(* A run whose call returns keeps the lock.                                *)
LEMMA ReturningInside ==
    ASSUME NEW r \in Run, Returning(r)
    PROVE  /\ Inside(r, Holding \ Calls) /\ Returned(r) /\ rpc[r] \in Calls
           /\ UNCHANGED <<job, mode, seen, manifest, base, mishaps>>
<1> USE DEF Inside, Holding, Calls, At, Goto, Raise, CallReturns, CallEnds
<1>1. CASE TrainAgain(r)
  BY <1>1 DEF TrainAgain
<1>2. CASE TrainingFails(r)
  BY <1>2 DEF TrainingFails
<1>3. CASE TrainingEnds(r)
  BY <1>3 DEF TrainingEnds
<1>4. CASE Evaluated(r)
  BY <1>4 DEF Evaluated
<1>5. CASE Verified(r)
  BY <1>5 DEF Verified
<1>6. CASE Exported(r)
  <2>1. CallReturns(r, "export") /\ \E pc \in {"replace", "install", "aside"} : Goto(r, pc)
    BY <1>6, Zenon DEF Exported
  <2> QED
    BY <2>1
<1>7. CASE Loaded(r)
  BY <1>7 DEF Loaded
<1>8. CASE LoadAgain(r)
  BY <1>8 DEF LoadAgain
<1>9. ASSUME NEW what \in {"verify", "export", "load", "load on cpu"}, MergeCallFails(r, what)
      PROVE  /\ Inside(r, Holding \ Calls) /\ Returned(r) /\ rpc[r] \in Calls
             /\ UNCHANGED <<job, mode, seen, manifest, base, mishaps>>
  BY <1>9 DEF MergeCallFails
<1> QED
  BY <1>1, <1>2, <1>3, <1>4, <1>5, <1>6, <1>7, <1>8, <1>9 DEF Returning

(* A step of a merge between two calls keeps the lock, and what was trained*)
(* stays.                                                                  *)
LEMMA BundlingInside ==
    ASSUME NEW r \in Run, Bundling(r)
    PROVE  /\ Inside(r, Holding \ Calls) /\ SameFolder /\ Stays
           /\ UNCHANGED <<process, job, mode, manifest, base>>
<1> USE DEF Inside, Holding, Calls, At, Goto, Raise, MergeStep
<1>1. CASE BeginEmbed(r)
  BY <1>1 DEF BeginEmbed
<1>2. CASE EndEmbed(r)
  BY <1>2 DEF EndEmbed
<1>3. CASE SetAside(r)
  BY <1>3 DEF SetAside
<1>4. CASE InstallWeights(r)
  BY <1>4 DEF InstallWeights
<1>5. CASE DropOld(r)
  BY <1>5 DEF DropOld
<1>6. CASE ReplaceWeights(r)
  BY <1>6 DEF ReplaceWeights
<1>7. CASE ReembedAdapter(r)
  BY <1>7 DEF ReembedAdapter
<1>8. CASE Publish(r)
  BY <1>8 DEF Publish
<1>9. CASE MergeFails(r)
  BY <1>9 DEF MergeFails
<1>10. CASE InstallRaises(r)
  BY <1>10 DEF InstallRaises
<1> QED
  BY <1>1, <1>2, <1>3, <1>4, <1>5, <1>6, <1>7, <1>8, <1>9, <1>10 DEF Bundling

(* The steps of no process of osAi, or that leave it where it is.          *)
Passing(r) == Listening(r) \/ TrainerSaves(r) \/ RunsOutOfMemory(r) \/ PublishCheckpoint(r)

(* Whoever has acquired the lock owns it until he gives it back or dies.   *)
LEMMA LockOwnerStep ==
    ASSUME rpc \in [Run -> Steps], lock \in Run \cup {NoRun}, LockOwner, [Next]_vars
    PROVE  rpc' \in [Run -> Steps] /\ lock' \in Run \cup {NoRun} /\ LockOwner'
<1> USE DEF LockOwner, Steps
<1>1. CASE UNCHANGED vars \/ BaseChanges
  BY <1>1 DEF vars, session, runner, BaseChanges
<1>2. ASSUME NEW r \in Run, Inside(r, Holding)
      PROVE  rpc' \in [Run -> Steps] /\ lock' \in Run \cup {NoRun} /\ LockOwner'
  BY <1>2 DEF Inside, Goto
<1>3. ASSUME NEW r \in Run, Working(r) \/ Calling(r) \/ Returning(r) \/ Bundling(r) \/ NativeTrains(r)
      PROVE  rpc' \in [Run -> Steps] /\ lock' \in Run \cup {NoRun} /\ LockOwner'
  <2>1. CASE NativeTrains(r)
    BY <1>2, <2>1 DEF NativeTrains, Inside, Holding, Goto, At
  <2> QED
    BY <1>2, <1>3, <2>1, WorkingInside, CallingInside, ReturningInside, BundlingInside
       DEF Inside, Holding
<1>4. ASSUME NEW r \in Run, Passing(r)
      PROVE  rpc' \in [Run -> Steps] /\ lock' \in Run \cup {NoRun} /\ LockOwner'
  BY <1>4 DEF Passing, Listening, CallOnly, session, runner, TrainerSaves, RunsOutOfMemory, PublishCheckpoint
<1>5. ASSUME NEW r \in Run, Entering(r)
      PROVE  rpc' \in [Run -> Steps] /\ lock' \in Run \cup {NoRun} /\ LockOwner'
  <2> USE DEF At, Goto, Holding, Calls
  <2>1. CASE Start(r)
    BY <2>1 DEF Start
  <2>2. CASE Preflight(r)
    BY <2>2 DEF Preflight
  <2>3. CASE Acquire(r)
    BY <2>3, RunAssumption DEF Acquire
  <2>4. CASE Refuse(r)
    <3>1. rpc[r] \in {"lock", "publish lock"} /\ UNCHANGED lock
          /\ \E pc \in {"ended", "preflight"} : Goto(r, pc)
      BY <2>4, Zenon DEF Refuse, Leave
    <3> QED
      BY <3>1, ZenonT(60)
  <2>5. CASE Release(r)
    <3>1. rpc[r] \in {"release", "hand over"} /\ lock' = NoRun
          /\ \E pc \in {"ended", "preflight", "publish lock"} : Goto(r, pc)
      BY <2>5, Zenon DEF Release, Leave
    <3>2. PICK pc \in {"ended", "preflight", "publish lock"} : Goto(r, pc)
      BY <3>1
    <3>3. lock = r /\ pc \notin Holding /\ pc \in Steps /\ NoRun \notin Run
      BY <3>1, RunAssumption
    <3> QED
      BY <3>1, <3>2, <3>3
  <2> QED
    BY <1>5, <2>1, <2>2, <2>3, <2>4, <2>5 DEF Entering
<1>6. ASSUME NEW r \in Run, Kill(r)
      PROVE  rpc' \in [Run -> Steps] /\ lock' \in Run \cup {NoRun} /\ LockOwner'
  BY <1>6, RunAssumption DEF Kill, Goto, Holding, Calls
<1> QED
  BY <1>1, <1>3, <1>4, <1>5, <1>6, NextCases DEF Others, Passing

(* Runs that come and go start and end no process, and leave the folder.   *)
LEMMA EnteringAlone ==
    ASSUME NEW r \in Run, Entering(r) PROVE Alone /\ SameFolder /\ UNCHANGED mishaps
BY DEF Entering, Start, Preflight, Acquire, Refuse, Release

(* A call starts one process, for its purpose, or none.                    *)
LEMMA CallingLaunches ==
    ASSUME NEW r \in Run, Calling(r)
    PROVE  \E what \in Calls : /\ Goto(r, what) /\ UNCHANGED error
                               /\ Launch(r, what) \/ LaunchFails(r, what)
                               /\ rpc[r] \notin Calls \cup {"fail", "release", "ended", "dead"}
<1> USE DEF Calls, At
<1> DEFINE calling == {"attempt", "losses", "to verify", "to export", "to load", "to cpu"}
<1>1. ASSUME NEW from \in calling, NEW what \in Calls, Call(r, from, what)
      PROVE  /\ Goto(r, what) /\ UNCHANGED error /\ Launch(r, what)
             /\ rpc[r] \notin Calls \cup {"fail", "release", "ended", "dead"}
  BY <1>1 DEF Call
<1>2. ASSUME NEW from \in calling, NEW what \in Calls, CallFails(r, from, what)
      PROVE  /\ Goto(r, what) /\ UNCHANGED error /\ LaunchFails(r, what)
             /\ rpc[r] \notin Calls \cup {"fail", "release", "ended", "dead"}
  BY <1>2 DEF CallFails
<1> QED
  BY <1>1, <1>2 DEF Calling, Evaluate

(* The types of the processes, kept by every step.                         *)
LEMMA CallsTyped == ASSUME CallsOK(Calls), [Next]_vars PROVE CallsOK(Calls)'
<1> USE DEF CallsOK, process
<1>1. CASE UNCHANGED process
  BY <1>1
<1>2. ASSUME NEW r \in Run, Calling(r) PROVE CallsOK(Calls)'
  <2>1. PICK what \in Calls : Launch(r, what) \/ LaunchFails(r, what)
    BY <1>2, CallingLaunches
  <2> QED
    BY <2>1, ZenonT(60) DEF Launch, LaunchFails
<1>3. ASSUME NEW r \in Run, Returning(r) PROVE CallsOK(Calls)'
  <2>1. Returned(r)
    BY <1>3, ReturningInside
  <2> QED
    BY <2>1 DEF Returned
<1>4. ASSUME NEW r \in Run, Listening(r) \/ RunsOutOfMemory(r) PROVE CallsOK(Calls)'
  <2>1. CASE ReadLine(r)
    BY <2>1 DEF ReadLine
  <2>2. CASE EndOfOutput(r)
    BY <2>2 DEF EndOfOutput, Over
  <2>3. CASE LogFails(r)
    BY <2>3 DEF LogFails, Over
  <2>4. CASE Interrupted(r)
    BY <2>4 DEF Interrupted, Terminate, Over
  <2>5. CASE Prints(r)
    BY <2>5 DEF Prints
  <2>6. ASSUME NEW status \in {"zero", "nonzero", "memory"}, Exits(r, status)
        PROVE  CallsOK(Calls)'
    BY <2>6 DEF Exits
  <2> QED
    BY <1>4, <2>1, <2>2, <2>3, <2>4, <2>5, <2>6 DEF Listening, RunsOutOfMemory
<1>5. ASSUME NEW r \in Run, Kill(r) PROVE CallsOK(Calls)'
  BY <1>5 DEF Kill, Killed
<1>6. ASSUME NEW r \in Run, Entering(r) \/ Working(r) \/ Bundling(r) \/ TrainerSaves(r)
                            \/ PublishCheckpoint(r) \/ NativeTrains(r)
      PROVE  UNCHANGED process
  BY <1>6, EnteringAlone, WorkingInside, BundlingInside
     DEF Alone, TrainerSaves, PublishCheckpoint, NativeTrains
<1>7. UNCHANGED vars \/ BaseChanges => UNCHANGED process
  BY DEF vars, BaseChanges
<1> QED
  BY <1>1, <1>2, <1>3, <1>4, <1>5, <1>6, <1>7, NextCases DEF Others

(* The other types of the runs and of the folder.                          *)
RunsTyped == /\ job \in Jobs /\ mode \in [Run -> {"mlx", "native"}]
             /\ error \in [Run -> Errors]
             /\ settings \in [Run -> Settings] /\ seen \in [Run -> Versions]
             /\ manifest \in [by : Run \cup {NoRun},
                              status : {"none", "preflight", "training", "publishing",
                                        "completed", "failed"},
                              of : Settings, on : Versions]

(* The first settings of a run, and none, are settings.                    *)
LEMMA SettingsTyped == First \in Settings /\ NoSettings \in Settings /\ First # NoSettings
BY SettingsAssumption DEF First, NoSettings, Settings

(* What is deployed and merged is an adapter of the session.               *)
LEMMA SourceIsAdapter == ASSUME NEW r \in Run PROVE Source(r) \in {adapter, converted}
BY DEF Source

(* The types after a step of a run between two calls.                      *)
LEMMA WorkingTyped ==
    ASSUME RunsTyped, FolderOK, NEW r \in Run, Working(r) PROVE RunsTyped' /\ FolderOK'
<1> USE BoundsAssumption, SettingsTyped DEF RunsTyped, FolderOK, Mishap, Raise, Mark, Describe, Alone, SameFolder,
           folder, Stays, Versions, Errors
<1>1. CASE Inspect(r)
  BY <1>1 DEF Inspect
<1>2. CASE InspectFails(r)
  BY <1>2 DEF InspectFails
<1>3. CASE Probe(r)
  BY <1>3 DEF Probe
<1>4. CASE ProbeFails(r)
  BY <1>4 DEF ProbeFails
<1>5. CASE PrepareData(r)
  <2>1. DataKind(r) \in {"text", "media"} /\ (reserved \/ job[r].media) \in BOOLEAN
    BY DEF DataKind
  <2>2. data' \subseteq {"text", "media"} /\ reserved' \in BOOLEAN
    BY <1>5, <2>1 DEF PrepareData
  <2>3. oomAt' \in Settings /\ settings' \in [Run -> Settings]
    BY <1>5 DEF PrepareData
  <2>4. error' \in [Run -> Errors]
    BY <1>5 DEF PrepareData
  <2>5. UNCHANGED <<job, base, mode, seen, manifest, mishaps, attempts, adapter, converted, deployed>>
    BY <1>5 DEF PrepareData
  <2> QED
    BY <2>2, <2>3, <2>4, <2>5
<1>6. CASE PrepareDataFails(r)
  <2>1. DataKind(r) \in {"text", "media"}
    BY DEF DataKind
  <2> QED
    BY <1>6, <2>1 DEF PrepareDataFails
<1>7. CASE TakeAdapter(r)
  BY <1>7 DEF TakeAdapter
<1>8. CASE NoLoss(r)
  BY <1>8 DEF NoLoss
<1>9. CASE SkipEvaluation(r)
  BY <1>9 DEF SkipEvaluation
<1>10. CASE Convert(r)
  BY <1>10 DEF Convert
<1>11. CASE ConvertFails(r)
  BY <1>11 DEF ConvertFails
<1>12. CASE Recheck(r)
  BY <1>12 DEF Recheck
<1>13. CASE MarkPublishing(r)
  BY <1>13 DEF MarkPublishing
<1>14. CASE Deploy(r)
  BY <1>14, SourceIsAdapter DEF Deploy
<1>15. CASE DeployFails(r)
  BY <1>15 DEF DeployFails
<1>16. CASE Complete(r)
  BY <1>16 DEF Complete
<1>17. CASE Fail(r)
  BY <1>17 DEF Fail
<1>18. CASE NativeFails(r)
  BY <1>18 DEF NativeFails
<1> QED
  BY <1>1, <1>2, <1>3, <1>4, <1>5, <1>6, <1>7, <1>8, <1>9, <1>10, <1>11, <1>12, <1>13, <1>14,
     <1>15, <1>16, <1>17, <1>18 DEF Working

(* The types after the return of a call.                                   *)
LEMMA ReturningTyped ==
    ASSUME RunsTyped, FolderOK, CallsOK(Calls), NEW r \in Run, Returning(r)
    PROVE  RunsTyped' /\ FolderOK'
<1> USE DEF RunsTyped, FolderOK, CallsOK, folder, SameFolder, Versions, Errors, Raise, CallEnds
<1>1. CASE TrainAgain(r)
  <2>1. Lower(settings[r]) \in Settings
    BY <1>1, LowerShares DEF TrainAgain
  <2> QED
    BY <1>1, <2>1 DEF TrainAgain, CallReturns
<1>2. ASSUME NEW what, CallReturns(r, what), SameFolder, UNCHANGED settings,
             UNCHANGED error \/ \E kind \in Errors : error' = [error EXCEPT ![r] = kind]
      PROVE  RunsTyped' /\ FolderOK'
  BY <1>2 DEF CallReturns
<1>3. CASE TrainingFails(r)
  BY <1>2, <1>3 DEF TrainingFails
<1>4. CASE TrainingEnds(r)
  BY <1>2, <1>4 DEF TrainingEnds
<1>5. CASE Evaluated(r)
  BY <1>2, <1>5 DEF Evaluated
<1>6. CASE Verified(r)
  BY <1>2, <1>6 DEF Verified
<1>7. CASE Exported(r)
  BY <1>2, <1>7 DEF Exported
<1>8. CASE Loaded(r)
  BY <1>2, <1>8 DEF Loaded
<1>9. CASE LoadAgain(r)
  BY <1>2, <1>9 DEF LoadAgain
<1>10. ASSUME NEW what, MergeCallFails(r, what) PROVE RunsTyped' /\ FolderOK'
  BY <1>2, <1>10 DEF MergeCallFails, MergeError
<1> QED
  BY <1>1, <1>3, <1>4, <1>5, <1>6, <1>7, <1>8, <1>9, <1>10 DEF Returning

(* What a trainer or a native training leaves is an adapter.               *)
LEMMA AdaptersTyped ==
    ASSUME RunsTyped, FolderOK, NEW r \in Run
    PROVE  Trained(r) \in Adapters /\ Checkpoint(r) \in Adapters /\ Part(r, "native") \in Adapters
<1>1. settings[r] \in Settings /\ base \in Versions /\ NoSettings \in Settings /\ 0 \in Versions
  BY SettingsTyped DEF RunsTyped, FolderOK, Versions
<1> QED
  BY <1>1 DEF Trained, Checkpoint, Part, Adapters

(* The types after every other step.                                       *)
LEMMA OtherTyped ==
    ASSUME RunsTyped, FolderOK, [Next]_vars,
           \A r \in Run : ~Working(r) /\ ~Returning(r)
    PROVE  RunsTyped' /\ FolderOK'
<1> USE BoundsAssumption, SettingsTyped
    DEF RunsTyped, FolderOK, Mishap, Mark, Describe, Alone, SameFolder, folder, Stays, Versions, Errors
<1>1. CASE UNCHANGED vars
  BY <1>1 DEF vars, session, runner
<1>2. CASE BaseChanges
  BY <1>2 DEF BaseChanges, runner
<1>3. ASSUME NEW r \in Run, Entering(r) PROVE RunsTyped' /\ FolderOK'
  <2>1. CASE Start(r)
    BY <2>1 DEF Start
  <2>2. CASE Preflight(r)
    BY <2>2 DEF Preflight
  <2>3. CASE Acquire(r)
    BY <2>3 DEF Acquire
  <2>4. ASSUME NEW kind, Leave(r, kind)
        PROVE  /\ settings' \in [Run -> Settings] /\ seen' \in [Run -> Versions]
               /\ mode' \in [Run -> {"mlx", "native"}]
    BY <2>4 DEF Leave
  <2>5. CASE Refuse(r)
    BY <2>4, <2>5 DEF Refuse
  <2>6. CASE Release(r)
    BY <2>4, <2>6 DEF Release
  <2> QED
    BY <1>3, <2>1, <2>2, <2>3, <2>5, <2>6 DEF Entering
<1>4. ASSUME NEW r \in Run, Calling(r) PROVE RunsTyped' /\ FolderOK'
  <2>1. ASSUME NEW from, NEW what, Call(r, from, what) PROVE RunsTyped' /\ FolderOK'
    BY <2>1 DEF Call
  <2>2. ASSUME NEW from, NEW what, CallFails(r, from, what) PROVE RunsTyped' /\ FolderOK'
    BY <2>2 DEF CallFails
  <2> QED
    BY <1>4, <2>1, <2>2 DEF Calling, Evaluate
<1>5. ASSUME NEW r \in Run, Bundling(r) PROVE RunsTyped' /\ FolderOK'
  <2>1. UNCHANGED <<job, mode, manifest, base>> /\ SameFolder /\ Stays
    BY <1>5, BundlingInside
  <2>2. mishaps' \in 0..MaxMishaps
    <3>1. UNCHANGED mishaps \/ Mishap
      BY <1>5, Zenon DEF Bundling, BeginEmbed, EndEmbed, SetAside, InstallWeights, DropOld,
             ReplaceWeights, ReembedAdapter, Publish, MergeFails, InstallRaises, MergeStep
    <3> QED
      BY <3>1
  <2>3. error' \in [Run -> Errors]
    BY <1>5 DEF Bundling, BeginEmbed, EndEmbed, SetAside, InstallWeights, DropOld, ReplaceWeights,
                ReembedAdapter, Publish, MergeFails, InstallRaises, MergeStep, Raise
  <2> QED
    BY <2>1, <2>2, <2>3
<1>6. ASSUME NEW r \in Run, Passing(r) PROVE RunsTyped' /\ FolderOK'
  <2>1. CASE TrainerSaves(r)
    BY <2>1, AdaptersTyped DEF TrainerSaves, runner
  <2>2. CASE RunsOutOfMemory(r)
    BY <2>2 DEF RunsOutOfMemory, runner
  <2>3. CASE Listening(r) \/ PublishCheckpoint(r)
    BY <2>3 DEF Listening, CallOnly, PublishCheckpoint, session, runner
  <2> QED
    BY <1>6, <2>1, <2>2, <2>3 DEF Passing
<1>7. ASSUME NEW r \in Run, NativeTrains(r) PROVE RunsTyped' /\ FolderOK'
  <2>1. /\ Mark(r, "training") /\ converted' = Part(r, "native") /\ Stays
        /\ UNCHANGED <<job, mode, error, data, reserved, oomAt, attempts, adapter, deployed, base,
                       mishaps>>
    BY <1>7 DEF NativeTrains
  <2> QED
    BY <2>1, AdaptersTyped
<1>8. ASSUME NEW r \in Run, Kill(r) PROVE RunsTyped' /\ FolderOK'
  BY <1>8 DEF Kill
<1> QED
  BY <1>1, <1>2, <1>3, <1>4, <1>5, <1>6, <1>7, <1>8, NextCases DEF Others, Passing

-----------------------------------------------------------------------------
(* A bundle that is given another adapter or other weights is a bundle.    *)
Products == Adapters \cup {NoAdapter}
Bundles == [adapter : Products \cup {Torn}, weights : Products]

(* A bundle is one again when a part of it has been replaced.              *)
LEMMA BundleTyped ==
    ASSUME ModelsOK(Adapters), NEW k \in Kinds, NEW a \in Products
    PROVE  /\ Under(k) \in Bundles
           /\ WithAdapter(k, a) \/ WithWeights(k, a) => model' \in [Kinds -> Bundles] /\ stage' \in Bundles
<1>1. Under(k) \in Bundles
  BY DEF ModelsOK, Under, Bundles, Products, Kinds
<1>2. [Under(k) EXCEPT !.adapter = a] \in Bundles /\ [Under(k) EXCEPT !.weights = a] \in Bundles
  BY <1>1 DEF Bundles
<1>3. ASSUME NEW bundle \in Bundles, SetBundle(k, bundle)
      PROVE  model' \in [Kinds -> Bundles] /\ stage' \in Bundles
  BY <1>3 DEF SetBundle, ModelsOK, Bundles, Products
<1> QED
  BY <1>1, <1>2, <1>3 DEF WithAdapter, WithWeights

(* The merge handles bundles and their adapters only.                      *)
LEMMA BundlingTyped ==
    ASSUME ModelsOK(Adapters), FolderOK, NEW r \in Run, Bundling(r)
    PROVE  ModelsOK(Adapters)'
<1>1. Source(r) \in Products
  BY SourceIsAdapter DEF FolderOK, Products
<1>2. /\ model \in [Kinds -> Bundles] /\ stage \in Bundles
      /\ previous \in Products /\ checked \in [Kinds -> Products]
      /\ Kind(r) \in Kinds => model[Kind(r)] \in Bundles
  BY DEF ModelsOK, Bundles, Products
<1>3. ASSUME model' \in [Kinds -> Bundles], stage' \in Bundles,
             previous' \in Products, checked' \in [Kinds -> Products]
      PROVE  ModelsOK(Adapters)'
  BY <1>3 DEF ModelsOK, Bundles, Products
<1>4. NoAdapter \in Products /\ NoModel \in Bundles
  BY DEF Products, Bundles, NoModel
<1>5. {"mlx", "gguf"} \subseteq Kinds
  BY DEF Kinds
<1> USE DEF MergeStep
<1>6. CASE BeginEmbed(r)
  <2>1. Embed(Kind(r), Source(r))
    BY <1>6 DEF BeginEmbed
  <2>2. [NoModel EXCEPT !.adapter = Source(r)] \in Bundles
    BY <1>1, <1>4 DEF Bundles
  <2>3. \A k \in Kinds : [model[k] EXCEPT !.adapter = Torn] \in Bundles
    BY <1>2 DEF Bundles
  <2>4. model' \in [Kinds -> Bundles] /\ stage' \in Bundles
    BY <1>2, <2>1, <2>2, <2>3 DEF Embed
  <2>5. UNCHANGED <<previous, checked>>
    BY <2>1 DEF Embed
  <2> QED
    BY <1>2, <1>3, <2>4, <2>5
<1>7. CASE EndEmbed(r)
  BY <1>1, <1>2, <1>3, <1>5, <1>7, BundleTyped DEF EndEmbed, FinishEmbed
<1>8. CASE SetAside(r)
  BY <1>1, <1>2, <1>3, <1>4, <1>5, <1>8, BundleTyped DEF SetAside, MoveAside, Bundles
<1>9. CASE InstallWeights(r)
  BY <1>1, <1>2, <1>3, <1>5, <1>9, BundleTyped DEF InstallWeights, Install
<1>10. CASE DropOld(r)
  BY <1>2, <1>3, <1>4, <1>10 DEF DropOld, DropPrevious
<1>11. CASE ReplaceWeights(r)
  BY <1>1, <1>2, <1>3, <1>5, <1>11, BundleTyped DEF ReplaceWeights, ReplaceGguf
<1>12. CASE ReembedAdapter(r)
  BY <1>1, <1>2, <1>3, <1>5, <1>12, BundleTyped DEF ReembedAdapter, Reembed
<1>13. CASE Publish(r)
  BY <1>2, <1>3, <1>4, <1>13 DEF Publish, Appear
<1>14. Discard => ModelsOK(Adapters)'
  BY <1>2, <1>3, <1>4 DEF Discard
<1>15. CASE MergeFails(r)
  BY <1>14, <1>15 DEF MergeFails
<1>16. CASE InstallRaises(r)
  BY <1>2, <1>3, <1>4, <1>5, <1>14, <1>16, BundleTyped DEF InstallRaises, InstallFails
<1> QED
  BY <1>6, <1>7, <1>8, <1>9, <1>10, <1>11, <1>12, <1>13, <1>15, <1>16 DEF Bundling

(* The types of the models, kept by every step.                            *)
LEMMA ModelsTyped ==
    ASSUME ModelsOK(Adapters), RunsTyped, FolderOK, [Next]_vars
    PROVE  ModelsOK(Adapters)'
<1>1. ASSUME UNCHANGED merging PROVE ModelsOK(Adapters)'
  BY <1>1 DEF ModelsOK, merging
<1>2. CASE UNCHANGED vars \/ BaseChanges
  BY <1>1, <1>2 DEF vars, BaseChanges
<1>3. ASSUME NEW r \in Run, Entering(r) \/ Working(r) \/ Calling(r) \/ Listening(r)
                            \/ TrainerSaves(r) \/ RunsOutOfMemory(r)
      PROVE  ModelsOK(Adapters)'
  BY <1>1, <1>3, EnteringAlone, WorkingInside, CallingInside
     DEF Alone, Listening, CallOnly, TrainerSaves, RunsOutOfMemory
<1>4. ASSUME NEW r \in Run, Discard PROVE ModelsOK(Adapters)'
  BY <1>4 DEF Discard, ModelsOK, NoModel
<1>5. ASSUME NEW r \in Run, Returning(r) PROVE ModelsOK(Adapters)'
  <2>1. CASE Verified(r)
    BY <2>1, SourceIsAdapter DEF Verified, VerifyMlx, ModelsOK, FolderOK
  <2>2. CASE Loaded(r)
    <3>1. Under("gguf") \in Bundles
      BY BundleTyped DEF Kinds, Products
    <3>2. Under("gguf").weights \in Adapters \cup {NoAdapter}
      BY <3>1 DEF Bundles, Products
    <3> QED
      BY <2>2, <3>2 DEF Loaded, LoadGguf, ModelsOK
  <2>3. CASE \E what \in {"verify", "export", "load", "load on cpu"} : MergeCallFails(r, what)
    BY <1>4, <2>3 DEF MergeCallFails
  <2> QED
    BY <1>1, <1>5, <2>1, <2>2, <2>3
       DEF Returning, TrainAgain, TrainingFails, TrainingEnds, Evaluated, Exported, LoadAgain
<1>6. ASSUME NEW r \in Run, PublishCheckpoint(r) \/ NativeTrains(r) PROVE ModelsOK(Adapters)'
  <2>1. Checkpoint(r) \in Adapters
    BY AdaptersTyped
  <2>2. UNCHANGED <<stage, previous, checked>>
    BY <1>6 DEF PublishCheckpoint, NativeTrains
  <2>3. \/ UNCHANGED model
        \/ \E k \in Kinds : model' = [model EXCEPT ![k] = [adapter |-> Checkpoint(r),
                                                           weights |-> Checkpoint(r)]]
    BY <1>6 DEF PublishCheckpoint, NativeTrains, Kinds
  <2> QED
    BY <2>1, <2>2, <2>3 DEF ModelsOK
<1>7. ASSUME NEW r \in Run, Kill(r) PROVE ModelsOK(Adapters)'
  BY <1>1, <1>4, <1>7 DEF Kill
<1> QED
  BY <1>2, <1>3, <1>5, <1>6, <1>7, BundlingTyped, NextCases DEF Others

(* The state has its types at first.                                       *)
LEMMA InitTyped == Init => TypeOK
<1> SUFFICES ASSUME Init PROVE TypeOK
  OBVIOUS
<1> USE DEF Init
<1>1. CallsOK(Calls)
  BY DEF NoCalls, CallsOK
<1>2. ModelsOK(Adapters)
  BY DEF NoMerge, ModelsOK, NoModel
<1>3. RunsOK
  <2>1. NoSettings \in Settings /\ First \in Settings
    BY SettingsTyped
  <2>2. manifest \in [by : Run \cup {NoRun}, status : {"none"}, of : Settings, on : Versions]
    BY <2>1 DEF Versions
  <2> QED
    BY <2>1, <2>2 DEF RunsOK, Steps, Errors, Versions
<1>4. FolderOK
  <2>1. oomAt \in Settings /\ attempts = {} /\ base \in Versions /\ mishaps \in 0..MaxMishaps
    BY SettingsTyped, BoundsAssumption DEF Versions
  <2>2. adapter = NoAdapter /\ converted = NoAdapter /\ deployed = NoAdapter
        /\ data \subseteq {"text", "media"} /\ reserved \in BOOLEAN
    OBVIOUS
  <2> HIDE DEF Init
  <2> QED
    BY <2>1, <2>2 DEF FolderOK
<1> QED
  BY <1>1, <1>2, <1>3, <1>4 DEF TypeOK

(* Every step keeps the types and the ownership of the lock.               *)
LEMMA NextTyped == ASSUME TypeOK, LockOwner, [Next]_vars PROVE TypeOK' /\ LockOwner'
<1>1. CallsOK(Calls) /\ ModelsOK(Adapters) /\ RunsTyped /\ FolderOK
  BY DEF TypeOK, RunsOK, RunsTyped
<1>2. rpc \in [Run -> Steps] /\ lock \in Run \cup {NoRun}
  BY DEF TypeOK, RunsOK
<1>3. rpc' \in [Run -> Steps] /\ lock' \in Run \cup {NoRun} /\ LockOwner'
  BY <1>2, LockOwnerStep
<1>4. CallsOK(Calls)' /\ ModelsOK(Adapters)'
  BY <1>1, CallsTyped, ModelsTyped
<1>5. RunsTyped' /\ FolderOK'
  BY <1>1, WorkingTyped, ReturningTyped, OtherTyped
<1> QED
  BY <1>3, <1>4, <1>5 DEF TypeOK, RunsOK, RunsTyped

(* At first nobody owns the lock.                                          *)
LEMMA InitOwner == Init => LockOwner
<1> SUFFICES ASSUME Init, NEW r \in Run PROVE rpc[r] \notin Holding /\ lock # r
  BY DEF LockOwner
<1> QED
  BY RunAssumption DEF Init, Holding, Calls

(* The state has its types, whatever the runs of a session folder do, for  *)
(* any number of them, any settings, workers and failures.                 *)
THEOREM MlxTypes == Spec => []TypeOK
<1>1. Init => TypeOK /\ LockOwner
  BY InitTyped, InitOwner
<1>2. TypeOK /\ LockOwner /\ [Next]_vars => (TypeOK /\ LockOwner)'
  BY NextTyped
<1> QED
  BY <1>1, <1>2, PTL DEF Spec

-----------------------------------------------------------------------------
(* A child outlives its call only if that has ended in an error.           *)
LEMMA WorkingQuiet ==
    ASSUME NEW r \in Run, Working(r)
    PROVE  /\ rpc[r] \notin Calls \cup {"release", "ended", "dead"}
           /\ rpc[r] = "fail" => Goto(r, "release") /\ UNCHANGED error
           /\ \E kind : error' = error \/ error' = [error EXCEPT ![r] = kind]
<1> USE DEF Calls, At, Raise
<1>1. rpc[r] \notin Calls \cup {"release", "ended", "dead"}
  BY DEF Working, Inspect, InspectFails, Probe, ProbeFails, PrepareData, PrepareDataFails, TakeAdapter,
         NoLoss, SkipEvaluation, Convert, ConvertFails, Recheck, MarkPublishing, Deploy, DeployFails,
         Complete, Fail, NativeFails
<1>2. rpc[r] = "fail" => Fail(r)
  BY DEF Working, Inspect, InspectFails, Probe, ProbeFails, PrepareData, PrepareDataFails, TakeAdapter,
         NoLoss, SkipEvaluation, Convert, ConvertFails, Recheck, MarkPublishing, Deploy, DeployFails,
         Complete, NativeFails
<1>3. \E kind : error' = error \/ error' = [error EXCEPT ![r] = kind]
  BY DEF Working, Inspect, InspectFails, Probe, ProbeFails, PrepareData, PrepareDataFails, TakeAdapter,
         NoLoss, SkipEvaluation, Convert, ConvertFails, Recheck, MarkPublishing, Deploy, DeployFails,
         Complete, Fail, NativeFails
<1> QED
  BY <1>1, <1>2, <1>3 DEF Fail

(* A step of a merge between two calls is one of its steps, and tells at   *)
(* most one run an error.                                                  *)
LEMMA BundlingQuiet ==
    ASSUME NEW r \in Run, Bundling(r)
    PROVE  /\ rpc[r] \in MergeSteps \ Calls
           /\ \E kind : error' = error \/ error' = [error EXCEPT ![r] = kind]
BY DEF Bundling, BeginEmbed, EndEmbed, SetAside, InstallWeights, DropOld, ReplaceWeights, ReembedAdapter,
       Publish, MergeFails, InstallRaises, MergeStep, At, MergeSteps, Calls, Raise

(* A call that ended in an error passes it on.                             *)
LEMMA ReturningQuiet ==
    ASSUME NEW r \in Run, Returning(r)
    PROVE  /\ outcome[r] = "error" => Raise(r, "error")
           /\ \E kind : error' = error \/ error' = [error EXCEPT ![r] = kind]
BY DEF Returning, TrainAgain, TrainingFails, TrainingEnds, Evaluated, Verified, Exported, Loaded,
       LoadAgain, MergeCallFails, MergeError, Raise

(* Every step keeps what is known of calls and children.                   *)
LEMMA CallOrderStep == ASSUME TypeOK, CallOrder, [Next]_vars PROVE CallOrder'
<1> DEFINE Same(s) == /\ rpc'[s] = rpc[s] /\ error'[s] = error[s] /\ call'[s] = call[s]
                      /\ task'[s] = task[s] /\ child'[s] = child[s] /\ outcome'[s] = outcome[s]
           Only(r) == \A s \in Run : Same(s) \/ s = r
<1>1. /\ rpc \in [Run -> Steps] /\ error \in [Run -> Errors]
      /\ call \in [Run -> {"none", "read", "over", "gone"}]
      /\ task \in [Run -> Calls \cup {"none"}]
      /\ child \in [Run -> {"none", "running", "zero", "nonzero", "memory"}]
      /\ outcome \in [Run -> {"none", "ok", "training", "interrupt", "error"}]
  BY DEF TypeOK, RunsOK, CallsOK
<1>2. \A s \in Run : Waits(s)
  BY DEF CallOrder
<1>3. ASSUME NEW r \in Run, Only(r), Waits(r)' PROVE CallOrder'
  BY <1>2, <1>3 DEF CallOrder, Waits
<1>4. CASE UNCHANGED vars \/ BaseChanges
  BY <1>2, <1>4 DEF vars, BaseChanges, process, session, runner, CallOrder, Waits
<1>5. ASSUME NEW r \in Run, Entering(r) PROVE CallOrder'
  <2> USE DEF At, Goto, Calls
  <2>1. UNCHANGED process
    BY <1>5, EnteringAlone DEF Alone
  <2>2. CASE Start(r) \/ Preflight(r) \/ Acquire(r)
    <3>1. rpc[r] \notin Calls \cup {"fail", "release", "ended", "dead"} /\ UNCHANGED error
      BY <2>2 DEF Start, Preflight, Acquire
    <3>2. \E pc \in Steps \ Calls : Goto(r, pc)
      BY <2>2 DEF Start, Preflight, Acquire, Steps, Holding
    <3>3. PICK pc \in Steps \ Calls : Goto(r, pc)
      BY <3>2
    <3>4. Only(r)
      BY <1>1, <2>1, <3>1, <3>3 DEF process
    <3>5. Waits(r)'
      BY <1>1, <1>2, <2>1, <3>1, <3>3 DEF process, Waits
    <3> QED
      BY <1>3, <3>4, <3>5
  <2>3. CASE Refuse(r)
    <3>1. \E pc \in {"ended", "preflight"} : Goto(r, pc)
      BY <2>3, Zenon DEF Refuse, Leave
    <3>2. rpc[r] \in {"lock", "publish lock"} /\ UNCHANGED error
      BY <2>3 DEF Refuse
    <3> QED
      BY <1>1, <1>2, <1>3, <2>1, <3>1, <3>2, ZenonT(60) DEF process, Waits
  <2>4. CASE Release(r)
    <3>1. /\ error' = [error EXCEPT ![r] = "none"]
          /\ \/ At(r, "release") /\ Leave(r, error[r])
             \/ At(r, "hand over") /\ Goto(r, "publish lock")
      BY <2>4 DEF Release
    <3>2. \/ At(r, "release") /\ Goto(r, "ended")
          \/ At(r, "release") /\ error[r] # "error" /\ Goto(r, "preflight")
          \/ At(r, "hand over") /\ Goto(r, "publish lock")
      BY <3>1 DEF Leave
    <3>3. PICK pc \in Steps \ Calls : Goto(r, pc)
      BY <3>2 DEF Steps
    <3>4. Only(r)
      BY <1>1, <2>1, <3>1, <3>3 DEF process
    <3>5. Waits(r)'
      BY <1>1, <1>2, <2>1, <3>2, ZenonT(60) DEF process, Waits
    <3> QED
      BY <1>3, <3>4, <3>5
  <2> QED
    BY <1>5, <2>2, <2>3, <2>4 DEF Entering
<1>6. ASSUME NEW r \in Run, Working(r) PROVE CallOrder'
  <2>1. UNCHANGED process
    BY <1>6, WorkingInside DEF Alone
  <2>2. PICK pc \in Holding \ Calls : Goto(r, pc)
    BY <1>6, WorkingInside DEF Inside
  <2>3. Only(r)
    BY <1>1, <1>6, <2>1, <2>2, WorkingQuiet DEF process, Goto
  <2>4. Waits(r)'
    BY <1>1, <1>2, <1>6, <2>1, <2>2, WorkingQuiet DEF process, Waits, Goto
  <2> QED
    BY <1>3, <2>3, <2>4
<1>7. ASSUME NEW r \in Run, Bundling(r) PROVE CallOrder'
  <2>1. UNCHANGED process
    BY <1>7, BundlingInside DEF Alone
  <2>2. PICK pc \in Holding \ Calls : Goto(r, pc)
    BY <1>7, BundlingInside DEF Inside
  <2>3. Only(r)
    BY <1>1, <1>7, <2>1, <2>2, BundlingQuiet DEF process, Goto
  <2>4. Waits(r)'
    BY <1>1, <1>2, <1>7, <2>1, <2>2, BundlingQuiet DEF process, Waits, Goto, MergeSteps
  <2> QED
    BY <1>3, <2>3, <2>4
<1>8. ASSUME NEW r \in Run, Calling(r) PROVE CallOrder'
  <2>1. PICK what \in Calls : /\ Goto(r, what) /\ UNCHANGED error
                              /\ Launch(r, what) \/ LaunchFails(r, what)
                              /\ rpc[r] \notin Calls \cup {"fail", "release", "ended", "dead"}
    BY <1>8, CallingLaunches
  <2>2. Only(r)
    BY <1>1, <2>1 DEF Launch, LaunchFails, Goto
  <2>3. CASE Launch(r, what)
    BY <1>1, <1>3, <2>1, <2>2, <2>3, ZenonT(60) DEF Launch, Waits, Goto, Calls
  <2>4. CASE LaunchFails(r, what)
    BY <1>1, <1>2, <1>3, <2>1, <2>2, <2>4, ZenonT(60) DEF LaunchFails, Waits, Goto, Calls
  <2> QED
    BY <2>1, <2>3, <2>4
<1>9. ASSUME NEW r \in Run, Returning(r) PROVE CallOrder'
  <2>1. /\ Returned(r) /\ \E pc \in Holding \ Calls : Goto(r, pc)
        /\ outcome[r] = "error" => Raise(r, "error")
        /\ \E kind : error' = error \/ error' = [error EXCEPT ![r] = kind]
    BY <1>9, ReturningInside, ReturningQuiet DEF Inside
  <2>2. Only(r)
    BY <1>1, <2>1 DEF Returned, Goto
  <2>3. Waits(r)'
    BY <1>1, <1>2, <2>1 DEF Returned, Goto, Raise, Waits
  <2> QED
    BY <1>3, <2>2, <2>3
<1>10. ASSUME NEW r \in Run, NativeTrains(r) PROVE CallOrder'
  <2>1. At(r, "native") /\ Goto(r, "hand over") /\ UNCHANGED process /\ UNCHANGED error
    BY <1>10 DEF NativeTrains, process
  <2> QED
    BY <1>1, <1>2, <1>3, <2>1 DEF process, Waits, At, Goto, Calls
<1>11. ASSUME NEW r \in Run, Passing(r) PROVE CallOrder'
  <2>1. UNCHANGED <<rpc, error>>
    BY <1>11 DEF Passing, Listening, CallOnly, session, runner, TrainerSaves, RunsOutOfMemory,
                 PublishCheckpoint
  <2>2. CASE TrainerSaves(r) \/ PublishCheckpoint(r)
    BY <1>2, <2>1, <2>2 DEF TrainerSaves, PublishCheckpoint, Alone, process, CallOrder, Waits
  <2>3. ASSUME NEW status \in {"zero", "nonzero", "memory"}, Exits(r, status) PROVE CallOrder'
    BY <1>1, <1>2, <1>3, <2>1, <2>3 DEF Exits, Waits
  <2>4. CASE ReadLine(r)
    BY <1>1, <1>2, <1>3, <2>1, <2>4 DEF ReadLine, Waits
  <2>5. CASE EndOfOutput(r)
    BY <1>1, <1>2, <1>3, <2>1, <2>5 DEF EndOfOutput, Over, Waits
  <2>6. CASE LogFails(r)
    BY <1>1, <1>2, <1>3, <2>1, <2>6 DEF LogFails, Over, Waits
  <2>7. CASE Interrupted(r)
    BY <1>1, <1>2, <1>3, <2>1, <2>7 DEF Interrupted, Over, Terminate, Waits
  <2>8. CASE Prints(r)
    BY <1>1, <1>2, <1>3, <2>1, <2>8 DEF Prints, Waits
  <2> QED
    BY <1>11, <2>2, <2>3, <2>4, <2>5, <2>6, <2>7, <2>8 DEF Passing, Listening, RunsOutOfMemory
<1>12. ASSUME NEW r \in Run, Kill(r) PROVE CallOrder'
  <2>1. /\ Goto(r, "dead")
        /\ \A s \in Run : s # r => Same(s)
    BY <1>1, <1>12 DEF Kill, Killed, Goto
  <2>2. Only(r)
    BY <2>1
  <2>3. Waits(r)'
    BY <1>1, <1>2, <1>12, <2>1, ZenonT(60) DEF Kill, Killed, Goto, Waits, Calls
  <2> QED
    BY <1>3, <2>2, <2>3
<1> QED
  BY <1>4, <1>5, <1>6, <1>7, <1>8, <1>9, <1>10, <1>11, <1>12, NextCases DEF Others, Passing

-----------------------------------------------------------------------------
(* Nobody is given another job.                                            *)
LEMMA JobStays == ASSUME [Next]_vars PROVE UNCHANGED job
<1>1. UNCHANGED vars \/ BaseChanges => UNCHANGED job
  BY DEF vars, BaseChanges
<1>2. ASSUME NEW r \in Run, Entering(r) \/ Working(r) \/ Returning(r) \/ Bundling(r)
      PROVE  UNCHANGED job
  BY <1>2, EnteringAlone, WorkingInside, ReturningInside, BundlingInside DEF Alone
<1>3. ASSUME NEW r \in Run, Calling(r) \/ Passing(r) \/ NativeTrains(r) \/ Kill(r)
      PROVE  UNCHANGED job
  BY <1>3 DEF Calling, Evaluate, Call, CallFails, Passing, Listening, CallOnly, TrainerSaves, Alone,
              RunsOutOfMemory, PublishCheckpoint, NativeTrains, Kill
<1> QED
  BY <1>1, <1>2, <1>3, NextCases DEF Others, Passing

(* Only the preparation of the data, which happens once for each kind, lets*)
(* a run work.                                                             *)
LEMMA OneWorkerStep == ASSUME TypeOK, CallOrder, OneWorker, [Next]_vars PROVE OneWorker'
<1> DEFINE Fewer == data \subseteq data' /\ (reserved => reserved') /\ \A s \in Run : Works(s)' => Works(s)
           SameProducts == UNCHANGED <<attempts, adapter>>
           Elsewhere(r) == \A s \in Run : s # r => rpc'[s] = rpc[s]
           NoTrainer == \A s \in Run : Trains(s)' => Trains(s)
<1>1. /\ rpc \in [Run -> Steps]
      /\ call \in [Run -> {"none", "read", "over", "gone"}]
      /\ task \in [Run -> Calls \cup {"none"}]
      /\ child \in [Run -> {"none", "running", "zero", "nonzero", "memory"}]
  BY DEF TypeOK, RunsOK, CallsOK
<1>0. UNCHANGED job /\ \A s \in Run : DataKind(s)' = DataKind(s)
  BY JobStays DEF DataKind
<1>2. Fewer => OneWorker'
  BY <1>0 DEF OneWorker
<1>3. UNCHANGED process => NoTrainer
  BY DEF process, Trains
<1>4. ASSUME NEW r \in Run, NoTrainer, SameProducts, UNCHANGED <<data, reserved>>, Elsewhere(r),
             rpc'[r] \in Attempting => rpc[r] \in Attempting
      PROVE  OneWorker'
  BY <1>2, <1>4 DEF Works, Attempting
<1>5. CASE UNCHANGED vars \/ BaseChanges
  BY <1>2, <1>3, <1>5 DEF vars, BaseChanges, session, runner, folder, Works
<1>6. ASSUME NEW r \in Run, Entering(r) PROVE OneWorker'
  <2>1. NoTrainer /\ SameProducts /\ UNCHANGED <<data, reserved>>
    BY <1>3, <1>6, EnteringAlone DEF Alone, SameFolder, folder
  <2>2. \E pc \in Steps \ Attempting : Goto(r, pc)
    <3> USE DEF Steps, Holding, Attempting
    <3>1. CASE Start(r) \/ Preflight(r) \/ Acquire(r)
      BY <3>1 DEF Start, Preflight, Acquire
    <3>2. ASSUME NEW kind, Leave(r, kind) PROVE \E pc \in {"ended", "preflight"} : Goto(r, pc)
      BY <3>2, Zenon DEF Leave
    <3>3. CASE Refuse(r) \/ Release(r)
      BY <3>2, <3>3 DEF Refuse, Release
    <3> QED
      BY <1>6, <3>1, <3>3 DEF Entering
  <2> QED
    BY <1>1, <1>4, <2>1, <2>2 DEF Goto, Attempting
<1>7. ASSUME NEW r \in Run, Calling(r) PROVE OneWorker'
  <2>1. SameProducts /\ UNCHANGED <<data, reserved>>
    BY <1>7, CallingInside DEF SameFolder, folder
  <2>2. ASSUME NEW from \in Steps, NEW what \in Calls,
               Call(r, from, what) \/ CallFails(r, from, what), what = "train" => from = "attempt"
        PROVE  Fewer
    <3>1. At(r, from) /\ Goto(r, what) /\ (Launch(r, what) \/ LaunchFails(r, what))
      BY <2>2 DEF Call, CallFails
    <3>2. \A s \in Run : Trains(s)' => Trains(s) \/ s = r
      BY <1>1, <3>1 DEF Launch, LaunchFails, Trains
    <3>3. Trains(r)' => what = "train"
      BY <1>1, <3>1 DEF Launch, LaunchFails, Trains
    <3>4. rpc'[r] \in Attempting => what = "train"
      BY <1>1, <3>1 DEF Goto, Attempting, Calls
    <3>5. Elsewhere(r)
      BY <1>1, <3>1 DEF Goto
    <3>6. what = "train" => Works(r)
      BY <2>2, <3>1 DEF At, Works
    <3> QED
      BY <2>1, <3>2, <3>3, <3>4, <3>5, <3>6 DEF Works, Attempting
  <2> QED
    BY <1>2, <1>7, <2>2 DEF Calling, Evaluate, Steps, Holding, Calls
<1>8. ASSUME NEW r \in Run, Returning(r) PROVE OneWorker'
  <2>1. Returned(r) /\ Elsewhere(r)
    BY <1>1, <1>8, ReturningInside DEF Inside, Goto
  <2>2. NoTrainer
    BY <1>1, <2>1 DEF Returned, Trains
  <2>3. attempts' \subseteq attempts /\ UNCHANGED <<adapter, data, reserved>>
    BY <1>8 DEF Returning, TrainAgain, TrainingFails, TrainingEnds, Evaluated, Verified, Exported,
                Loaded, LoadAgain, MergeCallFails, CallEnds, SameFolder, folder
  <2>4. rpc'[r] \in Attempting => rpc[r] \in Attempting
    <3>1. CASE TrainAgain(r) \/ TrainingFails(r) \/ TrainingEnds(r)
      BY <3>1 DEF TrainAgain, TrainingFails, TrainingEnds, CallReturns, CallEnds, At, Attempting
    <3>2. CASE ~(TrainAgain(r) \/ TrainingFails(r) \/ TrainingEnds(r))
      <4>1. \E pc \in Holding \ Attempting : Goto(r, pc)
        <5> USE DEF Holding, Attempting, Raise
        <5>1. CASE Exported(r)
          <6>1. \E pc \in {"replace", "install", "aside"} : Goto(r, pc)
            BY <5>1, Zenon DEF Exported
          <6> QED
            BY <6>1
        <5> QED
          BY <1>8, <3>2, <5>1
             DEF Returning, Evaluated, Verified, Loaded, LoadAgain, MergeCallFails
      <4> QED
        BY <1>1, <4>1 DEF Goto, Attempting
    <3> QED
      BY <3>1, <3>2
  <2> QED
    BY <1>2, <2>1, <2>2, <2>3, <2>4 DEF Works, Attempting
<1>9. ASSUME NEW r \in Run, Bundling(r) PROVE OneWorker'
  <2>1. NoTrainer /\ SameProducts /\ UNCHANGED <<data, reserved>> /\ Elsewhere(r)
    BY <1>1, <1>3, <1>9, BundlingInside DEF SameFolder, folder, Inside, Goto
  <2>2. \E pc \in Steps \ Attempting : Goto(r, pc)
    BY <1>9 DEF Bundling, BeginEmbed, EndEmbed, SetAside, InstallWeights, DropOld, ReplaceWeights,
                ReembedAdapter, Publish, MergeFails, InstallRaises, MergeStep, Raise, Steps, Holding,
                Attempting
  <2> QED
    BY <1>1, <1>4, <2>1, <2>2 DEF Goto, Attempting
<1>10. ASSUME NEW r \in Run, Passing(r) PROVE OneWorker'
  <2>1. UNCHANGED rpc /\ UNCHANGED <<data, reserved>>
    BY <1>10 DEF Passing, Listening, CallOnly, session, runner, folder, TrainerSaves, RunsOutOfMemory,
                 PublishCheckpoint
  <2>2. NoTrainer
    BY <1>1, <1>3, <1>10
       DEF Passing, Listening, TrainerSaves, RunsOutOfMemory, PublishCheckpoint, Alone, ReadLine,
           EndOfOutput, LogFails, Over, Interrupted, Terminate, Prints, Exits, Trains
  <2>3. CASE TrainerSaves(r)
    <3>1. Trains(r) /\ Trained(r).run = r
      BY <2>3 DEF TrainerSaves, Trains, Trained
    <3>2. \/ adapter' = Trained(r) /\ UNCHANGED attempts
          \/ attempts' \subseteq attempts \cup {Trained(r)} /\ UNCHANGED adapter
      BY <2>3 DEF TrainerSaves
    <3> QED
      BY <1>2, <2>1, <2>2, <3>1, <3>2 DEF Works
  <2>4. CASE ~TrainerSaves(r)
    <3>1. SameProducts
      BY <1>10, <2>4 DEF Passing, Listening, CallOnly, session, folder, RunsOutOfMemory,
                         PublishCheckpoint
    <3> QED
      BY <1>2, <2>1, <2>2, <3>1 DEF Works
  <2> QED
    BY <2>3, <2>4
<1>11. ASSUME NEW r \in Run, NativeTrains(r) PROVE OneWorker'
  <2>1. UNCHANGED process /\ SameProducts /\ UNCHANGED <<data, reserved>> /\ Goto(r, "hand over")
    BY <1>11 DEF NativeTrains, process
  <2> QED
    BY <1>1, <1>3, <1>4, <2>1 DEF Goto, Attempting
<1>12. ASSUME NEW r \in Run, Kill(r) PROVE OneWorker'
  <2>1. NoTrainer /\ SameProducts /\ UNCHANGED <<data, reserved>> /\ Goto(r, "dead")
    BY <1>12 DEF Kill, Killed, SameFolder, folder, Trains
  <2> QED
    BY <1>1, <1>4, <2>1 DEF Goto, Attempting
<1>13. ASSUME NEW r \in Run, Working(r) PROVE OneWorker'
  <2>1. NoTrainer /\ Elsewhere(r)
    BY <1>1, <1>3, <1>13, WorkingInside DEF Alone, Inside, Goto
  <2>2. CASE PrepareData(r)
    <3>1. /\ SameProducts /\ data \subseteq data' /\ (reserved => reserved')
          /\ rpc[r] \notin Attempting
      BY <2>2 DEF PrepareData, At, Attempting
    <3>2. CASE rpc'[r] \notin Attempting
      BY <1>2, <2>1, <3>1, <3>2 DEF Works, Attempting
    <3>3. CASE rpc'[r] \in Attempting
      <4>1. /\ DataKind(r) \notin data /\ DataKind(r) \in data'
            /\ DataKind(r) = "media" => reserved'
        BY <1>1, <2>2, <3>3 DEF PrepareData, Raise, Goto, Attempting, DataKind
      <4>2. \A s \in Run : Works(s)' => Works(s) \/ s = r
        BY <2>1, <3>1 DEF Works
      <4>3. \A s \in Run : Works(s) => DataKind(s) # DataKind(r)
        BY <4>1 DEF OneWorker
      <4> QED
        BY <1>0, <3>1, <4>1, <4>2, <4>3 DEF OneWorker
    <3> QED
      BY <3>2, <3>3
  <2>3. CASE TakeAdapter(r)
    <3>1. /\ UNCHANGED <<data, reserved>> /\ \E pc \in {"fail", "losses"} : Goto(r, pc)
          /\ SameProducts \/ (adapter' \in attempts /\ attempts' \subseteq attempts)
      BY <2>3 DEF TakeAdapter, Raise
    <3>2. rpc'[r] \notin Attempting
      BY <1>1, <3>1 DEF Goto, Attempting
    <3>3. \A s \in Run : Works(s)' => Works(s)
      BY <2>1, <3>1, <3>2 DEF Works, Attempting
    <3> QED
      BY <1>2, <3>1, <3>3
  <2>4. CASE ~PrepareData(r) /\ ~TakeAdapter(r)
    <3> USE DEF Working, Inspect, InspectFails, Probe, ProbeFails, PrepareDataFails, NoLoss,
                SkipEvaluation, Convert, ConvertFails, Recheck, MarkPublishing, Deploy, DeployFails,
                Complete, Fail, NativeFails
    <3>1. SameProducts /\ data \subseteq data' /\ (reserved => reserved')
      BY <1>13, <2>4 DEF SameFolder, folder
    <3>2. \E pc \in Steps \ Attempting : Goto(r, pc)
      BY <1>13, <2>4 DEF Raise, Steps, Holding, Attempting
    <3> HIDE DEF Working
    <3>3. rpc'[r] \notin Attempting
      BY <1>1, <3>2 DEF Goto, Attempting
    <3> QED
      BY <1>2, <2>1, <3>1, <3>3 DEF Works, Attempting
  <2> QED
    BY <2>2, <2>3, <2>4
<1> QED
  BY <1>5, <1>6, <1>7, <1>8, <1>9, <1>10, <1>11, <1>12, <1>13, NextCases DEF Others, Passing

(* Only runs on text leave adapters in the folders of their attempts.      *)
LEMMA TextAttemptsStep ==
    ASSUME TypeOK, TextAttempts, [Next]_vars PROVE TextAttempts'
<1>1. UNCHANGED job /\ \A a : DataKind(a.run)' = DataKind(a.run)
  BY JobStays DEF DataKind
<1>2. attempts' \subseteq attempts => TextAttempts'
  BY <1>1 DEF TextAttempts
<1>3. ASSUME NEW r \in Run, TrainerSaves(r) PROVE TextAttempts'
  <2>1. CASE job[r].media
    BY <1>2, <1>3, <2>1 DEF TrainerSaves
  <2>2. CASE ~job[r].media
    <3>1. attempts' \subseteq attempts \cup {Trained(r)}
      BY <1>3, <2>2 DEF TrainerSaves
    <3>2. DataKind(Trained(r).run) = "text"
      BY <2>2 DEF Trained, DataKind
    <3> QED
      BY <1>1, <3>1, <3>2 DEF TextAttempts
  <2> QED
    BY <2>1, <2>2
<1>4. UNCHANGED vars \/ BaseChanges => UNCHANGED attempts
  BY DEF vars, session, BaseChanges, folder
<1>5. ASSUME NEW r \in Run, Entering(r) \/ Calling(r) \/ Bundling(r) PROVE UNCHANGED attempts
  BY <1>5, EnteringAlone, CallingInside, BundlingInside DEF SameFolder, folder
<1>6. ASSUME NEW r \in Run, Returning(r) PROVE attempts' \subseteq attempts
  BY <1>6 DEF Returning, TrainAgain, TrainingFails, TrainingEnds, Evaluated, Verified, Exported, Loaded,
              LoadAgain, MergeCallFails, CallEnds, SameFolder, folder
<1>7. ASSUME NEW r \in Run, Working(r) PROVE attempts' \subseteq attempts
  BY <1>7 DEF Working, Inspect, InspectFails, Probe, ProbeFails, PrepareData, PrepareDataFails, NoLoss,
              TakeAdapter, SkipEvaluation, Convert, ConvertFails, Recheck, MarkPublishing, Deploy,
              DeployFails, Complete, Fail, NativeFails, SameFolder, folder
<1>8. ASSUME NEW r \in Run, Passing(r) \/ NativeTrains(r) \/ Kill(r), ~TrainerSaves(r)
      PROVE  UNCHANGED attempts
  BY <1>8 DEF Passing, Listening, CallOnly, session, RunsOutOfMemory, PublishCheckpoint, NativeTrains,
              Kill, SameFolder, folder
<1> QED
  BY <1>2, <1>3, <1>4, <1>5, <1>6, <1>7, <1>8, NextCases DEF Others, Passing

(* At first nobody works in the folder.                                    *)
LEMMA InitWork == Init => WorkInv
<1> SUFFICES ASSUME Init PROVE WorkInv
  OBVIOUS
<1>1. TypeOK /\ LockOwner
  BY InitTyped, InitOwner
<1>2. \A r \in Run : rpc[r] = "idle" /\ child[r] = "none" /\ attempts = {} /\ adapter = NoAdapter
  BY DEF Init, NoCalls
<1>3. CallOrder
  BY <1>2 DEF CallOrder, Waits, Calls, Init, NoCalls
<1>4. OneWorker /\ TextAttempts
  BY <1>2 DEF Init, OneWorker, Works, Trains, TextAttempts
<1> QED
  BY <1>1, <1>3, <1>4 DEF WorkInv

(* The invariant about who works in the folder is inductive.               *)
LEMMA NextWork == ASSUME WorkInv, [Next]_vars PROVE WorkInv'
BY NextTyped, CallOrderStep, OneWorkerStep, TextAttemptsStep DEF WorkInv

(* One worker at most is one trainer at most.                              *)
LEMMA WorkTrainer == WorkInv => OneTrainer
<1> SUFFICES ASSUME WorkInv, NEW r \in Run, NEW s \in Run, Trains(r), DataKind(r) = DataKind(s)
             PROVE  ~At(s, "attempt") /\ (Trains(s) => r = s)
  BY DEF OneTrainer
<1>1. Trains(s) \/ At(s, "attempt") => r = s
  BY DEF WorkInv, OneWorker, Works, At
<1>2. ~At(r, "attempt")
  BY DEF WorkInv, CallOrder, Waits, Trains, At, Calls
<1> QED
  BY <1>1, <1>2

(* The adapter of the session is written by its trainer, or taken from an  *)
(* attempt.                                                                *)
LEMMA AdapterSteps ==
    ASSUME [Next]_vars, adapter' # adapter
    PROVE  \E r \in Run : TrainerSaves(r) \/ TakeAdapter(r)
<1>1. UNCHANGED vars \/ BaseChanges => UNCHANGED adapter
  BY DEF vars, session, BaseChanges, folder
<1>2. ASSUME NEW r \in Run, Entering(r) \/ Calling(r) \/ Bundling(r) PROVE UNCHANGED adapter
  BY <1>2, EnteringAlone, CallingInside, BundlingInside DEF SameFolder, folder
<1>3. ASSUME NEW r \in Run, Returning(r) PROVE UNCHANGED adapter
  BY <1>3 DEF Returning, TrainAgain, TrainingFails, TrainingEnds, Evaluated, Verified, Exported, Loaded,
              LoadAgain, MergeCallFails, CallEnds, SameFolder, folder
<1>4. ASSUME NEW r \in Run, Working(r), ~TakeAdapter(r) PROVE UNCHANGED adapter
  BY <1>4 DEF Working, Inspect, InspectFails, Probe, ProbeFails, PrepareData, PrepareDataFails, NoLoss,
              SkipEvaluation, Convert, ConvertFails, Recheck, MarkPublishing, Deploy, DeployFails,
              Complete, Fail, NativeFails, SameFolder, folder
<1>5. ASSUME NEW r \in Run, Passing(r) \/ NativeTrains(r) \/ Kill(r), ~TrainerSaves(r)
      PROVE  UNCHANGED adapter
  BY <1>5 DEF Passing, Listening, CallOnly, session, RunsOutOfMemory, PublishCheckpoint, NativeTrains,
              Kill, SameFolder, folder
<1> QED
  BY <1>1, <1>2, <1>3, <1>4, <1>5, NextCases DEF Others, Passing

(* The adapter of a session gives way to one of the same run, or to one    *)
(* trained on media.                                                       *)
GivesWay == /\ adapter' # NoAdapter
            /\ \/ adapter'.run = adapter.run
               \/ DataKind(adapter.run) = "text" /\ DataKind(adapter'.run) = "media"

(* A run that has trained in the folder is the last of its kind.           *)
LEMMA WorkKeeps == ASSUME WorkInv, [Next]_vars, adapter # NoAdapter PROVE GivesWay
<1>1. CASE UNCHANGED adapter
  BY <1>1 DEF GivesWay
<1>2. ASSUME NEW r \in Run, TrainerSaves(r), adapter' # adapter PROVE GivesWay
  <2>1. Trains(r) /\ adapter' = Trained(r) /\ DataKind(r) = "media"
    BY <1>2 DEF TrainerSaves, Trains, DataKind
  <2>2. adapter.run \in Run /\ Works(adapter.run) /\ Works(r)
    BY <2>1 DEF WorkInv, TypeOK, FolderOK, Adapters, Works
  <2>3. DataKind(adapter.run) = "media" => adapter.run = r
    BY <2>1, <2>2 DEF WorkInv, OneWorker
  <2>4. DataKind(adapter.run) \in {"text", "media"}
    BY DEF DataKind
  <2>5. Trained(r) \in Adapters /\ Trained(r).run = r
    BY AdaptersTyped DEF WorkInv, TypeOK, RunsOK, RunsTyped, Trained
  <2> QED
    BY <2>1, <2>3, <2>4, <2>5, AdapterAssumption DEF GivesWay
<1>3. ASSUME NEW r \in Run, TakeAdapter(r), adapter' # adapter PROVE GivesWay
  BY <1>3 DEF TakeAdapter
<1> QED
  BY <1>1, <1>2, <1>3, AdapterSteps

(* At most one trainer of each kind works for a session, whatever its runs *)
(* do, for any number of them: orphans of killed runs included, and none   *)
(* of its kind is there when a trainer is started.                         *)
THEOREM MlxOneTrainer == Spec => []OneTrainer
<1>1. Init => WorkInv
  BY InitWork
<1>2. WorkInv /\ [Next]_vars => WorkInv'
  BY NextWork
<1>3. WorkInv => OneTrainer
  BY WorkTrainer
<1> QED
  BY <1>1, <1>2, <1>3, PTL DEF Spec

(* The adapter of a session folder is never replaced by that of another    *)
(* run, but for one trained on text, which a run on media replaces.        *)
THEOREM MlxAdapterKept == Spec => AdapterKept
<1>1. Init => WorkInv
  BY InitWork
<1>2. WorkInv /\ [Next]_vars => WorkInv'
  BY NextWork
<1>3. WorkInv /\ [Next]_vars =>
          [adapter # NoAdapter =>
              /\ adapter' # NoAdapter
              /\ \/ adapter'.run = adapter.run
                 \/ DataKind(adapter.run) = "text" /\ DataKind(adapter'.run) = "media"]_vars
  BY WorkKeeps DEF GivesWay
<1> QED
  BY <1>1, <1>2, <1>3, PTL DEF Spec, AdapterKept

-----------------------------------------------------------------------------
(* Settings are lowered for a retry, and set back for a new preparation.   *)
LEMMA SettingsSteps ==
    ASSUME TypeOK, [Next]_vars, NEW s \in Run
    PROVE  \/ settings'[s] = settings[s]
           \/ settings'[s] = First /\ (PrepareData(s) \/ rpc'[s] \in {"ended", "preflight"})
           \/ TrainAgain(s) /\ settings'[s] = Lower(settings[s])
<1> USE DEF TypeOK, RunsOK
<1>1. UNCHANGED vars \/ BaseChanges => UNCHANGED settings
  BY DEF vars, session, BaseChanges, runner
<1>2. ASSUME NEW r \in Run, Calling(r) \/ Bundling(r) \/ Passing(r) \/ NativeTrains(r) \/ Kill(r)
      PROVE  UNCHANGED settings
  BY <1>2, BundlingInside
     DEF Calling, Evaluate, Call, CallFails, Stays, Passing, Listening, CallOnly, session, runner,
         TrainerSaves, RunsOutOfMemory, PublishCheckpoint, NativeTrains, Kill
<1>3. ASSUME NEW r \in Run, Returning(r), ~TrainAgain(r) PROVE UNCHANGED settings
  BY <1>3 DEF Returning, TrainingFails, TrainingEnds, Evaluated, Verified, Exported, Loaded, LoadAgain,
              MergeCallFails
<1>4. ASSUME NEW r \in Run, TrainAgain(r)
      PROVE  settings'[s] = settings[s] \/ (TrainAgain(s) /\ settings'[s] = Lower(settings[s]))
  BY <1>4 DEF TrainAgain
<1>5. ASSUME NEW r \in Run, Working(r)
      PROVE  settings'[s] = settings[s] \/ (settings'[s] = First /\ PrepareData(s))
  <2>1. CASE PrepareData(r)
    BY <2>1 DEF PrepareData
  <2>2. CASE ~PrepareData(r)
    BY <1>5, <2>2 DEF Working, Inspect, InspectFails, Probe, ProbeFails, PrepareDataFails, TakeAdapter,
                NoLoss, SkipEvaluation, Convert, ConvertFails, Recheck, MarkPublishing, Deploy,
                DeployFails, Complete, Fail, NativeFails, Stays
  <2> QED
    BY <2>1, <2>2
<1>6. ASSUME NEW r \in Run, Entering(r)
      PROVE  \/ settings'[s] = settings[s]
             \/ settings'[s] = First /\ rpc'[s] \in {"ended", "preflight"}
  <2>1. ASSUME NEW kind, Leave(r, kind)
        PROVE  \/ settings'[s] = settings[s]
               \/ settings'[s] = First /\ rpc'[s] \in {"ended", "preflight"}
    <3>1. settings' = [settings EXCEPT ![r] = First] /\ \E pc \in {"ended", "preflight"} : Goto(r, pc)
      BY <2>1 DEF Leave
    <3> QED
      BY <3>1 DEF Goto
  <2> QED
    BY <1>6, <2>1 DEF Entering, Start, Preflight, Acquire, Refuse, Release, Stays
<1> QED
  BY <1>1, <1>2, <1>3, <1>4, <1>5, <1>6, NextCases DEF Others, Passing

(* An attempt begins with the preparation of the data or with a retry.     *)
LEMMA AttemptSteps ==
    ASSUME TypeOK, [Next]_vars, NEW s \in Run, rpc'[s] \in {"attempt", "train"}
    PROVE  \/ rpc'[s] = rpc[s]
           \/ rpc'[s] = "train" /\ rpc[s] = "attempt"
           \/ rpc'[s] = "attempt" /\ TrainAgain(s)
           \/ rpc'[s] = "attempt" /\ PrepareData(s)
<1> DEFINE Goal == \/ rpc'[s] = rpc[s]
                   \/ rpc'[s] = "train" /\ rpc[s] = "attempt"
                   \/ rpc'[s] = "attempt" /\ TrainAgain(s)
                   \/ rpc'[s] = "attempt" /\ PrepareData(s)
<1>1. rpc \in [Run -> Steps]
  BY DEF TypeOK, RunsOK
<1>2. ASSUME NEW r \in Run, NEW pc \in Steps \ {"attempt", "train"}, Goto(r, pc) PROVE Goal
  BY <1>1, <1>2 DEF Goto
<1>3. CASE UNCHANGED rpc
  BY <1>3
<1>4. UNCHANGED vars \/ BaseChanges => UNCHANGED rpc
  BY DEF vars, session, BaseChanges, runner
<1>5. ASSUME NEW r \in Run, Entering(r) PROVE Goal
  <2>1. ASSUME NEW kind, Leave(r, kind) PROVE Goal
    <3>1. \E pc \in {"ended", "preflight"} : Goto(r, pc)
      BY <2>1, Zenon DEF Leave
    <3> QED
      BY <1>2, <3>1 DEF Steps
  <2>2. CASE Refuse(r) \/ Release(r)
    BY <1>2, <2>1, <2>2 DEF Refuse, Release, Steps
  <2>3. CASE Start(r) \/ Preflight(r) \/ Acquire(r)
    BY <1>2, <2>3 DEF Start, Preflight, Acquire, Steps, Holding
  <2> QED
    BY <1>5, <2>2, <2>3 DEF Entering
<1>6. ASSUME NEW r \in Run, Working(r) PROVE Goal
  <2>1. CASE PrepareData(r)
    <3>1. Goto(r, "fail") \/ Goto(r, "attempt")
      BY <2>1 DEF PrepareData, Raise
    <3> QED
      BY <1>1, <2>1, <3>1 DEF Goto
  <2>2. CASE ~PrepareData(r)
    <3>1. \E pc \in Steps \ {"attempt", "train"} : Goto(r, pc)
      BY <1>6, <2>2 DEF Working, Inspect, InspectFails, Probe, ProbeFails, PrepareDataFails, TakeAdapter,
                NoLoss, SkipEvaluation, Convert, ConvertFails, Recheck, MarkPublishing, Deploy,
                DeployFails, Complete, Fail, NativeFails, Raise, Steps, Holding
    <3> QED
      BY <1>2, <3>1
  <2> QED
    BY <2>1, <2>2
<1>7. ASSUME NEW r \in Run, Calling(r) PROVE Goal
  <2>1. ASSUME NEW from \in Steps, NEW what \in Calls, At(r, from), Goto(r, what),
               what = "train" => from = "attempt"
        PROVE  Goal
    BY <1>1, <2>1 DEF At, Goto, Calls
  <2> QED
    BY <1>7, <2>1 DEF Calling, Evaluate, Call, CallFails, Steps, Holding, Calls
<1>8. ASSUME NEW r \in Run, Returning(r) PROVE Goal
  <2>1. CASE TrainAgain(r)
    BY <1>1, <2>1 DEF TrainAgain, Goto
  <2>2. CASE Exported(r)
    <3>1. \E pc \in {"replace", "install", "aside"} : Goto(r, pc)
      BY <2>2, Zenon DEF Exported
    <3> QED
      BY <1>2, <3>1 DEF Steps, Holding
  <2>3. CASE ~TrainAgain(r) /\ ~Exported(r)
    <3>1. \E pc \in Steps \ {"attempt", "train"} : Goto(r, pc)
      BY <1>8, <2>3 DEF Returning, TrainingFails, TrainingEnds, Evaluated, Verified, Loaded, LoadAgain,
                        MergeCallFails, Raise, Steps, Holding
    <3> QED
      BY <1>2, <3>1
  <2> QED
    BY <2>1, <2>2, <2>3
<1>9. ASSUME NEW r \in Run, Bundling(r) PROVE Goal
  <2>1. \E pc \in Holding \ Calls : Goto(r, pc) /\ pc # "attempt"
    BY <1>9 DEF Bundling, BeginEmbed, EndEmbed, SetAside, InstallWeights, DropOld, ReplaceWeights,
                ReembedAdapter, Publish, MergeFails, InstallRaises, MergeStep, Raise, Holding, Calls
  <2> QED
    BY <1>2, <2>1 DEF Steps, Calls
<1>10. ASSUME NEW r \in Run, Passing(r) PROVE UNCHANGED rpc
  BY <1>10 DEF Passing, Listening, CallOnly, session, runner, TrainerSaves, RunsOutOfMemory,
               PublishCheckpoint
<1>11. ASSUME NEW r \in Run, NativeTrains(r) \/ Kill(r) PROVE Goal
  BY <1>2, <1>11 DEF NativeTrains, Kill, Steps, Holding
<1> QED
  BY <1>3, <1>4, <1>5, <1>6, <1>7, <1>8, <1>9, <1>10, <1>11, NextCases DEF Others, Passing

(* The log says of one set of settings that they took too much memory.     *)
LEMMA MemorySteps ==
    ASSUME [Next]_vars, oomAt' # oomAt
    PROVE  \E r \in Run : RunsOutOfMemory(r) \/ PrepareData(r)
<1>1. UNCHANGED vars \/ BaseChanges => UNCHANGED oomAt
  BY DEF vars, session, BaseChanges, folder
<1>2. ASSUME NEW r \in Run, Entering(r) \/ Calling(r) \/ Bundling(r) PROVE UNCHANGED oomAt
  BY <1>2, EnteringAlone, CallingInside, BundlingInside DEF SameFolder, folder
<1>3. ASSUME NEW r \in Run, Returning(r) PROVE UNCHANGED oomAt
  BY <1>3 DEF Returning, TrainAgain, TrainingFails, TrainingEnds, Evaluated, Verified, Exported, Loaded,
              LoadAgain, MergeCallFails, CallEnds, SameFolder, folder
<1>4. ASSUME NEW r \in Run, Working(r), ~PrepareData(r) PROVE UNCHANGED oomAt
  BY <1>4 DEF Working, Inspect, InspectFails, Probe, ProbeFails, PrepareData, PrepareDataFails, NoLoss,
              TakeAdapter, SkipEvaluation, Convert, ConvertFails, Recheck, MarkPublishing, Deploy,
              DeployFails, Complete, Fail, NativeFails, SameFolder, folder
<1>5. ASSUME NEW r \in Run, Passing(r) \/ NativeTrains(r) \/ Kill(r), ~RunsOutOfMemory(r)
      PROVE  UNCHANGED oomAt
  BY <1>5 DEF Passing, Listening, CallOnly, session, TrainerSaves, PublishCheckpoint, NativeTrains,
              Kill, SameFolder, folder
<1> QED
  BY <1>1, <1>2, <1>3, <1>4, <1>5, NextCases DEF Others, Passing

(* A trainer that has run out of memory is so until its call returns.      *)
LEMMA MemoryStays ==
    ASSUME TypeOK, [Next]_vars, NEW s \in Run, At(s, "train"), At(s, "train")', child[s] = "memory"
    PROVE  child'[s] = "memory"
<1>1. /\ rpc \in [Run -> Steps]
      /\ child \in [Run -> {"none", "running", "zero", "nonzero", "memory"}]
  BY DEF TypeOK, RunsOK, CallsOK
<1>2. CASE UNCHANGED child
  BY <1>2
<1>3. ASSUME NEW r \in Run, Entering(r) \/ Working(r) \/ Bundling(r) \/ TrainerSaves(r)
                            \/ PublishCheckpoint(r) \/ NativeTrains(r) \/ Kill(r)
      PROVE  UNCHANGED child
  BY <1>3, EnteringAlone, WorkingInside, BundlingInside
     DEF Alone, TrainerSaves, PublishCheckpoint, NativeTrains, Kill, Killed, process
<1>4. UNCHANGED vars \/ BaseChanges => UNCHANGED child
  BY DEF vars, BaseChanges, process
<1>5. ASSUME NEW r \in Run, Calling(r) PROVE child'[s] = "memory"
  <2>1. PICK what \in Calls : /\ Launch(r, what) \/ LaunchFails(r, what)
                              /\ rpc[r] \notin Calls
    BY <1>5, CallingLaunches
  <2> QED
    BY <1>1, <2>1 DEF Launch, LaunchFails, At, Calls
<1>6. ASSUME NEW r \in Run, Returning(r) PROVE child'[s] = "memory"
  <2>1. Returned(r) /\ \E pc \in Holding \ Calls : Goto(r, pc)
    BY <1>6, ReturningInside DEF Inside
  <2>2. r # s
    BY <1>1, <2>1 DEF At, Goto, Calls
  <2> QED
    BY <1>1, <2>1, <2>2 DEF Returned
<1>7. ASSUME NEW r \in Run, Listening(r) \/ RunsOutOfMemory(r) PROVE child'[s] = "memory"
  BY <1>1, <1>7 DEF Listening, RunsOutOfMemory, ReadLine, EndOfOutput, LogFails, Over, Interrupted,
                    Terminate, Prints, Exits
<1> QED
  BY <1>2, <1>3, <1>4, <1>5, <1>6, <1>7, NextCases DEF Others

(* What train.log says of an attempt's settings, that attempt has said.    *)
LEMMA MemoryStep == ASSUME WorkInv, MemoryOrder, [Next]_vars PROVE MemoryOrder'
<1> SUFFICES ASSUME NEW s \in Run, rpc'[s] \in {"attempt", "train"}, oomAt' = settings'[s]
             PROVE  rpc'[s] = "train" /\ child'[s] = "memory"
  BY DEF MemoryOrder, At
<1>1. /\ TypeOK /\ settings \in [Run -> Settings] /\ rpc \in [Run -> Steps]
      /\ child \in [Run -> {"none", "running", "zero", "nonzero", "memory"}]
  BY DEF WorkInv, TypeOK, RunsOK, CallsOK
<1>2. CASE \E r \in Run : PrepareData(r)
  <2>1. PICK r \in Run : PrepareData(r)
    BY <1>2
  <2>2. At(r, "data") /\ \E pc \in {"fail", "attempt"} : Goto(r, pc)
    BY <2>1 DEF PrepareData, Raise
  <2>3. lock = r
    BY <2>2 DEF WorkInv, LockOwner, Holding, At
  <2>4. s = r
    <3>1. s # r => rpc[s] \in {"attempt", "train"}
      BY <1>1, <2>2 DEF Goto
    <3>2. s # r => lock = s
      BY <3>1 DEF WorkInv, LockOwner, Holding, Calls
    <3> QED
      BY <2>3, <3>2
  <2>5. rpc'[r] = "attempt" => oomAt' = NoSettings /\ settings'[r] = First
    BY <1>1, <2>1 DEF PrepareData, Raise, Goto
  <2>6. rpc'[r] = "attempt"
    BY <1>1, <2>2, <2>4 DEF Goto
  <2> QED
    BY <2>4, <2>5, <2>6, SettingsTyped
<1>3. CASE \E r \in Run : RunsOutOfMemory(r)
  <2>1. PICK r \in Run : RunsOutOfMemory(r)
    BY <1>3
  <2>2. /\ task[r] = "train" /\ call[r] = "read" /\ child'[r] = "memory"
        /\ UNCHANGED <<rpc, settings>>
    BY <1>1, <2>1 DEF RunsOutOfMemory, Exits, runner
  <2>3. rpc[r] = "train"
    BY <2>2 DEF WorkInv, CallOrder, Waits, Calls
  <2>4. lock = r /\ lock = s
    BY <2>2, <2>3 DEF WorkInv, LockOwner, Holding, Calls
  <2> QED
    BY <2>2, <2>3, <2>4
<1>4. CASE UNCHANGED oomAt /\ ~\E r \in Run : PrepareData(r)
  <2>1. CASE TrainAgain(s)
    <3>1. rpc[s] = "train" /\ oomAt = settings[s] /\ Lower(settings[s]) # NoSettings
          /\ settings'[s] = Lower(settings[s])
      BY <1>1, <2>1 DEF TrainAgain, CallReturns, At, MemoryFailure
    <3>2. settings'[s] # oomAt
      BY <1>1, <3>1, LowerShares
    <3> QED
      BY <1>4, <3>2
  <2>2. CASE ~TrainAgain(s)
    <3>1. rpc'[s] = rpc[s] \/ (rpc'[s] = "train" /\ rpc[s] = "attempt")
      BY <1>1, <1>4, <2>2, AttemptSteps
    <3>2. ~PrepareData(s)
      BY <3>1 DEF PrepareData, At
    <3>3. settings'[s] = settings[s]
      BY <1>1, <2>2, <3>2, SettingsSteps
    <3>4. rpc[s] = "train" /\ rpc'[s] = "train" /\ child[s] = "memory"
      BY <1>4, <3>1, <3>3 DEF MemoryOrder, At
    <3> QED
      BY <1>1, <3>4, MemoryStays DEF At
  <2> QED
    BY <2>1, <2>2
<1> QED
  BY <1>2, <1>3, <1>4, MemorySteps

(* At first no attempt has run out of memory.                              *)
LEMMA InitMemory == Init => WorkInv /\ MemoryOrder
<1> SUFFICES ASSUME Init PROVE MemoryOrder
  BY InitWork
<1> QED
  BY DEF Init, MemoryOrder, At

(* What the log says of memory remains true of the attempt under way.      *)
LEMMA NextMemory == ASSUME WorkInv, MemoryOrder, [Next]_vars PROVE WorkInv' /\ MemoryOrder'
BY NextWork, MemoryStep

(* A text model is tried again with less only if the attempt that failed   *)
(* has itself run out of memory, whatever earlier attempts have logged.    *)
THEOREM MlxRetries == Spec => RetryOnlyOnMemory
<1>1. Init => WorkInv /\ MemoryOrder
  BY InitMemory
<1>2. WorkInv /\ MemoryOrder /\ [Next]_vars => (WorkInv /\ MemoryOrder)'
  BY NextMemory
<1>3. WorkInv /\ MemoryOrder /\ [Next]_vars =>
          [\A r \in Run : At(r, "train") /\ rpc'[r] = "attempt" => child[r] = "memory"]_vars
  <2> SUFFICES ASSUME WorkInv, MemoryOrder, [Next]_vars, NEW r \in Run, At(r, "train"),
                      rpc'[r] = "attempt"
               PROVE  child[r] = "memory"
    OBVIOUS
  <2>1. TrainAgain(r)
    BY AttemptSteps DEF WorkInv, At, PrepareData
  <2> QED
    BY <2>1 DEF TrainAgain, MemoryFailure, MemoryOrder
<1> QED
  BY <1>1, <1>2, <1>3, PTL DEF Spec, RetryOnlyOnMemory

(* Whatever the batch, the devices and the number of workers asked for,    *)
(* every attempt gives each worker the same share.                         *)
THEOREM MlxEvenShares == Spec => []EvenShares
<1> DEFINE Inv == TypeOK /\ LockOwner /\ EvenShares
<1>1. First.batch % Workers = 0 /\ First.batch >= Workers
  BY WorkersShare, SettingsAssumption DEF First
<1>2. Init => Inv
  BY <1>1, InitTyped, InitOwner DEF Init, EvenShares
<1>3. Inv /\ [Next]_vars => Inv'
  <2> SUFFICES ASSUME Inv, [Next]_vars, NEW s \in Run
               PROVE  settings'[s].batch % Workers = 0 /\ settings'[s].batch >= Workers
    BY NextTyped DEF EvenShares, Workers
  <2>1. settings[s] \in Settings /\ settings[s].batch % Workers = 0 /\ settings[s].batch >= Workers
    BY DEF EvenShares, TypeOK, RunsOK
  <2>2. CASE TrainAgain(s) /\ settings'[s] = Lower(settings[s])
    BY <2>1, <2>2, LowerShares DEF TrainAgain
  <2> QED
    BY <1>1, <2>1, <2>2, SettingsSteps
<1>4. Inv => EvenShares
  OBVIOUS
<1> QED
  BY <1>2, <1>3, <1>4, PTL DEF Spec
====

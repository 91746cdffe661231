---- MODULE OutputLock_proofs ----
(***************************************************************************)
(* Proofs about OutputLock for any number of processes, of create attempts *)
(* and of entries: its types, and that the pid probe and the identity      *)
(* check leave no way to a second holder but the two recorded weak points. *)
(***************************************************************************)
EXTENDS OutputLock, TLAPS

USE DEF Label, Alive, PidRunning, Mine, Goto, NextAttempt

(* The initial state, in which nobody has asked for the lock, satisfies    *)
(* the inductive invariant.                                                *)
LEMMA InitLockInv == Init => LockInv
BY AttemptsAssumption, MaxEntriesAssumption
DEF Init, LockInv, TypeOK, WellFormed, OwnerHasFile, ReclaimersSawDead, Owning, Entering

(* Each statement of the lock keeps the variables in their types, and the  *)
(* attempts and the observation of a reclaimer well formed.                *)
LEMMA StepTypes ==
    ASSUME TypeOK, WellFormed, [Next]_vars
    PROVE  TypeOK' /\ WellFormed'
<1> USE AttemptsAssumption, MaxEntriesAssumption, NoFileAssumption
<1>1. CASE UNCHANGED vars
  BY <1>1 DEF vars, TypeOK, WellFormed
<1>2. ASSUME NEW p \in Proc, Enter(p) PROVE TypeOK' /\ WellFormed'
  BY <1>2 DEF Enter, TypeOK, WellFormed, Entering
<1>3. ASSUME NEW p \in Proc, Create(p) PROVE TypeOK' /\ WellFormed'
  <2>1. token[p] \in 1..MaxEntries
    BY <1>3 DEF Create, TypeOK, WellFormed, Entering
  <2>2. [owner |-> p, token |-> token[p], written |-> FALSE] \in LockFile
    BY <2>1 DEF LockFile
  <2>3. file' \in LockFile \cup {NoFile}
    BY <1>3, <2>2 DEF Create, TypeOK
  <2>4. QED
    BY <1>3, <2>3 DEF Create, TypeOK, WellFormed, Entering
<1>4. ASSUME NEW p \in Proc, Write(p) PROVE TypeOK' /\ WellFormed'
  <2>1. file' \in LockFile \cup {NoFile}
    BY <1>4 DEF Write, TypeOK, LockFile
  <2>2. QED
    BY <1>4, <2>1 DEF Write, TypeOK, WellFormed, Entering
<1>5. ASSUME NEW p \in Proc, WriteFails(p) \/ Abort(p) PROVE TypeOK' /\ WellFormed'
  <2>1. CASE WriteFails(p)
    BY <2>1 DEF WriteFails, TypeOK, WellFormed, Entering
  <2>2. CASE Abort(p)
    BY <2>2 DEF Abort, TypeOK, WellFormed, Entering
  <2> QED
    BY <1>5, <2>1, <2>2
<1>6. ASSUME NEW p \in Proc, Exit(p) \/ Compare(p) \/ Release(p)
      PROVE  TypeOK' /\ WellFormed'
  <2>1. CASE Exit(p) \/ Compare(p)
    BY <2>1 DEF Exit, Compare, TypeOK, WellFormed, Entering
  <2>2. CASE Release(p)
    BY <2>2 DEF Release, TypeOK, WellFormed, Entering
  <2> QED
    BY <1>6, <2>1, <2>2
<1>7. ASSUME NEW p \in Proc, Observe(p) PROVE TypeOK' /\ WellFormed'
  BY <1>7 DEF Observe, TypeOK, WellFormed, Entering
<1>8. ASSUME NEW p \in Proc, JudgeStale(p) \/ JudgeActive(p) PROVE TypeOK' /\ WellFormed'
  BY <1>8 DEF JudgeStale, JudgeActive, TypeOK, WellFormed, Entering
<1>9. ASSUME NEW p \in Proc, Stat(p) PROVE TypeOK' /\ WellFormed'
  BY <1>9 DEF Stat, TypeOK, WellFormed, Entering
<1>10. ASSUME NEW p \in Proc, Unlink(p) \/ UnlinkRefused(p) PROVE TypeOK' /\ WellFormed'
  <2>1. CASE Unlink(p)
    <3>1. breach' \subseteq {"window", "grace"}
      BY <2>1 DEF Unlink, TypeOK
    <3>2. tries' \in [Proc -> 0..Attempts] /\ pc' \in [Proc -> Label]
      BY <2>1 DEF Unlink, TypeOK, WellFormed, Entering
    <3>3. WellFormed'
      BY <2>1 DEF Unlink, TypeOK, WellFormed, Entering
    <3>4. QED
      BY <2>1, <3>1, <3>2, <3>3 DEF Unlink, TypeOK
  <2>2. CASE UnlinkRefused(p)
    BY <2>2 DEF UnlinkRefused, TypeOK, WellFormed, Entering
  <2>3. QED
    BY <1>10, <2>1, <2>2
<1>11. ASSUME NEW p \in Proc, System(p) PROVE TypeOK' /\ WellFormed'
  BY <1>11 DEF System, Crash, PidTaken, PidFreed, TypeOK, WellFormed, Entering
<1>12. QED
  BY <1>1, <1>2, <1>3, <1>4, <1>5, <1>6, <1>7, <1>8, <1>9, <1>10, <1>11
  DEF Next, Progress, Acquire, Leave, Reclaim

(* The weak points are never forgotten: a step that ends without one       *)
(* started without one.                                                    *)
LEMMA BreachGrows == ASSUME [Next]_vars PROVE breach' = {} => breach = {}
BY DEF Next, vars, Enter, Exit, Progress, Acquire, Leave, Reclaim, System, Create, Write,
       WriteFails, Abort, Compare, Release, Observe, JudgeStale, JudgeActive, Stat, Unlink,
       UnlinkRefused, Crash, PidTaken, PidFreed

(* The file of the process past its creation stays its own in every step   *)
(* that hits no weak point, and every observed owner stays dead.           *)
LEMMA StepOwner ==
    ASSUME TypeOK, WellFormed, OwnerHasFile, ReclaimersSawDead, [Next]_vars, breach' = {}
    PROVE  OwnerHasFile' /\ ReclaimersSawDead'
<1> DEFINE Goal == OwnerHasFile' /\ ReclaimersSawDead'
<1> USE NoFileAssumption DEF Owning
<1>1. CASE UNCHANGED vars
  BY <1>1 DEF vars, OwnerHasFile, ReclaimersSawDead
<1>2. ASSUME NEW p \in Proc, Enter(p) PROVE Goal
  BY <1>2 DEF Enter, TypeOK, OwnerHasFile, ReclaimersSawDead, LockFile
<1>3. ASSUME NEW p \in Proc, Create(p) PROVE Goal
  <2>1. CASE file = NoFile
    <3>1. \A q \in Proc : pc[q] \notin Owning
      BY <2>1 DEF OwnerHasFile
    <3>2. file' # NoFile
      <4>1. token[p] \in 1..MaxEntries
        BY <1>3, MaxEntriesAssumption DEF Create, TypeOK, WellFormed, Entering
      <4>2. [owner |-> p, token |-> token[p], written |-> FALSE] \in LockFile
        BY <4>1 DEF LockFile
      <4>3. QED
        BY <1>3, <2>1, <4>2 DEF Create
    <3>3. OwnerHasFile'
      BY <1>3, <2>1, <3>1, <3>2 DEF Create, TypeOK, OwnerHasFile
    <3>4. QED
      BY <1>3, <2>1, <3>3 DEF Create, TypeOK, ReclaimersSawDead, LockFile, WellFormed
  <2>2. CASE file # NoFile
    BY <1>3, <2>2 DEF Create, TypeOK, OwnerHasFile, ReclaimersSawDead, LockFile, WellFormed
  <2>3. QED
    BY <2>1, <2>2
<1>4. ASSUME NEW p \in Proc, Write(p) PROVE Goal
  <2>1. file' = [file EXCEPT !.written = TRUE] /\ file \in LockFile /\ file.owner = p
    BY <1>4 DEF Write, OwnerHasFile, TypeOK
  <2>2. file' \in LockFile /\ file'.owner = p /\ file'.token = file.token /\ file'.written
    BY <2>1 DEF LockFile
  <2>3. \A q \in Proc : q # p => pc[q] \notin Owning
    BY <2>1 DEF OwnerHasFile
  <2>4. file' # NoFile /\ file'.token = token[p]
    BY <1>4, <2>2 DEF Write, OwnerHasFile
  <2>5. OwnerHasFile'
    BY <1>4, <2>2, <2>3, <2>4 DEF Write, TypeOK, OwnerHasFile
  <2>6. ReclaimersSawDead'
    BY <1>4 DEF Write, TypeOK, ReclaimersSawDead, LockFile, WellFormed
  <2>7. QED
    BY <2>5, <2>6
<1>5. ASSUME NEW p \in Proc, WriteFails(p) \/ Exit(p) \/ Compare(p) PROVE Goal
  BY <1>5
  DEF WriteFails, Exit, Compare, TypeOK, OwnerHasFile, ReclaimersSawDead, LockFile, WellFormed
<1>6. ASSUME NEW p \in Proc, Abort(p) \/ Release(p) PROVE Goal
  <2>1. \A q \in Proc : q # p => pc[q] \notin Owning
    BY <1>6 DEF Abort, Release, OwnerHasFile
  <2>2. QED
    BY <1>6, <2>1
    DEF Abort, Release, TypeOK, OwnerHasFile, ReclaimersSawDead, LockFile, WellFormed
<1>7. ASSUME NEW p \in Proc, Observe(p) PROVE Goal
  BY <1>7 DEF Observe, TypeOK, OwnerHasFile, ReclaimersSawDead, LockFile, WellFormed
<1>8. ASSUME NEW p \in Proc, JudgeStale(p) PROVE Goal
  <2>1. seen[p] \in LockFile
    BY <1>8 DEF JudgeStale, TypeOK, WellFormed
  <2>2. ~Alive(seen[p].owner)
    BY <1>8 DEF JudgeStale
  <2>3. QED
    BY <1>8, <2>1, <2>2
    DEF JudgeStale, TypeOK, OwnerHasFile, ReclaimersSawDead, LockFile, WellFormed
<1>9. ASSUME NEW p \in Proc, JudgeActive(p) \/ UnlinkRefused(p) PROVE Goal
  BY <1>9
  DEF JudgeActive, UnlinkRefused, TypeOK, OwnerHasFile, ReclaimersSawDead, LockFile, WellFormed
<1>10. ASSUME NEW p \in Proc, Stat(p) PROVE Goal
  BY <1>10 DEF Stat, TypeOK, OwnerHasFile, ReclaimersSawDead, LockFile, WellFormed
<1>11. ASSUME NEW p \in Proc, Unlink(p) PROVE Goal
  <2>1. file \in {NoFile, seen[p]} /\ ~Alive(seen[p].owner)
    BY <1>11 DEF Unlink, ReclaimersSawDead
  <2>2. \A q \in Proc : pc[q] \notin Owning
    BY <2>1 DEF OwnerHasFile
  <2>3. QED
    BY <1>11, <2>2 DEF Unlink, TypeOK, OwnerHasFile, ReclaimersSawDead, LockFile, WellFormed
<1>12. ASSUME NEW p \in Proc, System(p) PROVE Goal
  BY <1>12
  DEF System, Crash, PidTaken, PidFreed, TypeOK, OwnerHasFile, ReclaimersSawDead, LockFile,
      WellFormed
<1>13. QED
  BY <1>1, <1>2, <1>3, <1>4, <1>5, <1>6, <1>7, <1>8, <1>9, <1>10, <1>11, <1>12
  DEF Next, Progress, Acquire, Leave, Reclaim

(* LockInv is inductive. *)
LEMMA NextLockInv == LockInv /\ [Next]_vars => LockInv'
BY StepTypes, BreachGrows, StepOwner DEF LockInv

(* Every run of the lock satisfies the inductive invariant.                *)
LEMMA LockInvariant == Spec => []LockInv
BY InitLockInv, NextLockInv, PTL DEF Spec

(* The state of the lock stays within its types: in particular no process  *)
(* makes more than Attempts create attempts in one __enter__.              *)
THEOREM LockTypes == Spec => []TypeOK
<1>1. LockInv => TypeOK
  BY DEF LockInv
<1>2. QED
  BY <1>1, LockInvariant, PTL

(* Two processes never hold the lock together unless a reclaimer unlinked  *)
(* a file that changed under it, or took a stalled creator for dead.       *)
THEOREM LockExclusion == Spec => []ExclusiveUnlessBreached
<1>1. LockInv => ExclusiveUnlessBreached
  BY DEF LockInv, OwnerHasFile, ExclusiveUnlessBreached, MutualExclusion, Holders, Owning
<1>2. QED
  BY <1>1, LockInvariant, PTL

(* A release or a clean-up removes only the process's own file, and a      *)
(* recovery only the file of a dead process, until a weak point is hit.    *)
THEOREM LockRemovals == Spec => RemovesOnlyOwnOrAbandoned
<1> DEFINE A == \A p \in Proc :
          /\ breach = {} /\ (Release(p) \/ Abort(p)) => Mine(p)
          /\ breach' = {} /\ Unlink(p) /\ file # NoFile => ~Alive(file.owner)
<1>1. ASSUME LockInv, [Next]_vars PROVE [A]_vars
  <2>1. ASSUME NEW p \in Proc, breach = {}, Release(p) \/ Abort(p) PROVE Mine(p)
    BY <1>1, <2>1 DEF LockInv, OwnerHasFile, Owning, Release, Abort
  <2>2. ASSUME NEW p \in Proc, breach' = {}, Unlink(p), file # NoFile
        PROVE  ~Alive(file.owner)
    <3>1. file = seen[p]
      BY <2>2 DEF Unlink
    <3>2. breach = {}
      BY <1>1, <2>2, BreachGrows
    <3>3. QED
      BY <1>1, <2>2, <3>1, <3>2 DEF LockInv, ReclaimersSawDead, Unlink
  <2>3. QED
    BY <2>1, <2>2
<1>2. QED
  BY <1>1, LockInvariant, PTL DEF Spec, RemovesOnlyOwnOrAbandoned
====

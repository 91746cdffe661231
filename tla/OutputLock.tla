---- MODULE OutputLock ----
(***************************************************************************)
(* The single-writer lock of an osAi output folder (src/osai/io.py,        *)
(* OutputLock): a file created with O_CREAT | O_EXCL that holds the pid    *)
(* and a random token of its creator, and that a later process removes     *)
(* when it judges that the creator is gone.                                *)
(*                                                                         *)
(* Every system call of the lock is one action, so the calls of different  *)
(* processes interleave as the operating system lets them.  The identity   *)
(* the code compares (device, inode, size, mtime) is the pair of the       *)
(* creator's token and of "written", which the first write changes.        *)
(* The file system is POSIX: an open file can be unlinked.                 *)
(*                                                                         *)
(* The history variable breach records the two known weak points: a file   *)
(* that changed between a reclaimer's stat and its unlink ("window"), and  *)
(* an empty file taken for abandoned, after the thirty seconds of grace,   *)
(* while its creator still runs ("grace").                                 *)
(***************************************************************************)
EXTENDS Naturals

CONSTANTS Proc,         \* the processes that want the output folder
          NoFile,       \* the value of file when .osai.lock is missing
          Attempts,     \* OutputLock._CREATE_ATTEMPTS
          MaxEntries    \* bound: how many times the lock is entered at all

ASSUME AttemptsAssumption == Attempts \in Nat \ {0}
ASSUME MaxEntriesAssumption == MaxEntries \in Nat

VARIABLES file,     \* .osai.lock: NoFile or what it holds
          pc,       \* where each process is in __enter__, the body, __exit__
          token,    \* the token of a process's current payload
          tries,    \* create attempts left in the for loop
          seen,     \* the lock file a reclaimer has observed
          reused,   \* pids of dead processes given to unrelated programs
          entries,  \* how many payloads have been made: the source of tokens
          breach    \* history: which weak points have been hit

vars == <<file, pc, token, tries, seen, reused, entries, breach>>

LockFile == [owner : Proc, token : 1..MaxEntries, written : BOOLEAN]
ASSUME NoFileAssumption == NoFile \notin LockFile

Label == {"idle", "create", "write", "abort", "held", "compare", "release",
          "observe", "judge", "stat", "unlink", "dead"}

Init == /\ file = NoFile
        /\ pc = [p \in Proc |-> "idle"]
        /\ token = [p \in Proc |-> 0]
        /\ tries = [p \in Proc |-> 0]
        /\ seen = [p \in Proc |-> NoFile]
        /\ reused = {}
        /\ entries = 0
        /\ breach = {}

Alive(p) == pc[p] # "dead"

(* _process_is_running: a signal-0 probe cannot tell a program that has    *)
(* been given the pid of a dead process from the process itself.           *)
PidRunning(p) == Alive(p) \/ p \in reused

Goto(p, label) == pc' = [pc EXCEPT ![p] = label]

-----------------------------------------------------------------------------
(* __enter__ *)

Enter(p) == /\ pc[p] = "idle"
            /\ entries < MaxEntries
            /\ entries' = entries + 1
            /\ token' = [token EXCEPT ![p] = entries + 1]
            /\ tries' = [tries EXCEPT ![p] = Attempts]
            /\ Goto(p, "create")
            /\ UNCHANGED <<file, seen, reused, breach>>

Create(p) == /\ pc[p] = "create"
             /\ IF file = NoFile
                THEN /\ file' = [owner |-> p, token |-> token[p], written |-> FALSE]
                     /\ Goto(p, "write")
                ELSE /\ Goto(p, "observe")
                     /\ UNCHANGED file
             /\ UNCHANGED <<token, tries, seen, reused, entries, breach>>

(* The write goes through the descriptor: when the name has been removed   *)
(* meanwhile, it fills a file nobody can find, and still succeeds.         *)
Mine(p) == file # NoFile /\ file.token = token[p]

Write(p) == /\ pc[p] = "write"
            /\ file' = IF Mine(p) THEN [file EXCEPT !.written = TRUE] ELSE file
            /\ Goto(p, "held")
            /\ UNCHANGED <<token, tries, seen, reused, entries, breach>>

(* os.write or os.fsync raises: the descriptor is closed, the name is then *)
(* unlinked whatever it names.                                             *)
WriteFails(p) == /\ pc[p] = "write"
                 /\ Goto(p, "abort")
                 /\ UNCHANGED <<file, token, tries, seen, reused, entries, breach>>

Abort(p) == /\ pc[p] = "abort"
            /\ file' = NoFile
            /\ Goto(p, "idle")
            /\ UNCHANGED <<token, tries, seen, reused, entries, breach>>

-----------------------------------------------------------------------------
(* __exit__ *)

Exit(p) == /\ pc[p] = "held"
           /\ Goto(p, "compare")
           /\ UNCHANGED <<file, token, tries, seen, reused, entries, breach>>

Compare(p) == /\ pc[p] = "compare"
              /\ Goto(p, IF Mine(p) /\ file.written THEN "release" ELSE "idle")
              /\ UNCHANGED <<file, token, tries, seen, reused, entries, breach>>

Release(p) == /\ pc[p] = "release"
              /\ file' = NoFile
              /\ Goto(p, "idle")
              /\ UNCHANGED <<token, tries, seen, reused, entries, breach>>

-----------------------------------------------------------------------------
(* _reclaim_stale_lock: TRUE takes the caller to its next create attempt,  *)
(* FALSE and an exception end __enter__ with a TrainingError.              *)


NextAttempt(p) == /\ tries' = [tries EXCEPT ![p] = @ - 1]
                  /\ Goto(p, IF tries[p] > 1 THEN "create" ELSE "idle")

Observe(p) == /\ pc[p] = "observe"
              /\ IF file = NoFile
                 THEN NextAttempt(p) /\ UNCHANGED seen
                 ELSE /\ seen' = [seen EXCEPT ![p] = file]
                      /\ Goto(p, "judge")
                      /\ UNCHANGED tries
              /\ UNCHANGED <<file, token, reused, entries, breach>>

(* Mutant: the owner is not probed, any lock is taken for a stale one.     *)
JudgeStaleUnprobed(p) == /\ pc[p] = "judge"
                         /\ Goto(p, "stat")
                         /\ UNCHANGED <<file, token, tries, seen, reused, entries, breach>>

(* A written payload names its owner, whose pid is probed; an empty one is *)
(* stale once it is thirty seconds old, which may or may not have passed.  *)
JudgeStale(p) == /\ pc[p] = "judge"
                 /\ seen[p].written => ~PidRunning(seen[p].owner)
                 /\ breach' = IF ~seen[p].written /\ Alive(seen[p].owner)
                              THEN breach \cup {"grace"} ELSE breach
                 /\ Goto(p, "stat")
                 /\ UNCHANGED <<file, token, tries, seen, reused, entries>>

(* Mutant: a recorded owner is taken for a running one.                    *)
JudgeActiveUnprobed(p) == /\ pc[p] = "judge"
                          /\ Goto(p, "idle")
                          /\ UNCHANGED <<file, token, tries, seen, reused, entries, breach>>

(* Mutant: a lock in use is waited for.                                    *)
JudgeActiveWaits(p) == /\ pc[p] = "judge"
                       /\ seen[p].written => PidRunning(seen[p].owner)
                       /\ Goto(p, "create")
                       /\ UNCHANGED <<file, token, tries, seen, reused, entries, breach>>

JudgeActive(p) == /\ pc[p] = "judge"
                  /\ seen[p].written => PidRunning(seen[p].owner)
                  /\ Goto(p, "idle")
                  /\ UNCHANGED <<file, token, tries, seen, reused, entries, breach>>

(* seen becomes the file that has been checked: the same one.              *)
Stat(p) == /\ pc[p] = "stat"
           /\ IF file = seen[p]
              THEN /\ seen' = [seen EXCEPT ![p] = file]
                   /\ Goto(p, "unlink")
                   /\ UNCHANGED tries
              ELSE NextAttempt(p) /\ UNCHANGED seen
           /\ UNCHANGED <<file, token, reused, entries, breach>>

Unlink(p) == /\ pc[p] = "unlink"
             /\ file' = NoFile
             /\ breach' = IF file \notin {NoFile, seen[p]}
                          THEN breach \cup {"window"} ELSE breach
             /\ NextAttempt(p)
             /\ UNCHANGED <<token, seen, reused, entries>>

UnlinkRefused(p) == /\ pc[p] = "unlink"
                    /\ file # NoFile
                    /\ Goto(p, "idle")
                    /\ UNCHANGED <<file, token, tries, seen, reused, entries, breach>>

-----------------------------------------------------------------------------
(* The operating system: a process is killed anywhere, its pid can be      *)
(* given to another program, and that program ends.                        *)

Crash(p) == /\ Alive(p)
            /\ Goto(p, "dead")
            /\ UNCHANGED <<file, token, tries, seen, reused, entries, breach>>

PidTaken(p) == /\ ~Alive(p) /\ p \notin reused
               /\ reused' = reused \cup {p}
               /\ UNCHANGED <<file, pc, token, tries, seen, entries, breach>>

PidFreed(p) == /\ p \in reused
               /\ reused' = reused \ {p}
               /\ UNCHANGED <<file, pc, token, tries, seen, entries, breach>>

Acquire(p) == Create(p) \/ Write(p) \/ WriteFails(p) \/ Abort(p)
Leave(p) == Compare(p) \/ Release(p)
Reclaim(p) == \/ Observe(p) \/ JudgeStale(p) \/ JudgeActive(p)
              \/ Stat(p) \/ Unlink(p) \/ UnlinkRefused(p)
System(p) == Crash(p) \/ PidTaken(p) \/ PidFreed(p)

(* What a process does by itself once it has called __enter__ or __exit__. *)
Progress(p) == Acquire(p) \/ Leave(p) \/ Reclaim(p)

Next == \E p \in Proc : Enter(p) \/ Exit(p) \/ Progress(p) \/ System(p)

(* A running process executes its next statement.  Nothing obliges a user  *)
(* to start a run, a run to end, or a process to crash.                    *)
Spec == Init /\ [][Next]_vars /\ \A p \in Proc : WF_vars(Progress(p))

-----------------------------------------------------------------------------
TypeOK == /\ file \in LockFile \cup {NoFile}
          /\ pc \in [Proc -> Label]
          /\ token \in [Proc -> 0..MaxEntries]
          /\ tries \in [Proc -> 0..Attempts]
          /\ seen \in [Proc -> LockFile \cup {NoFile}]
          /\ reused \subseteq Proc
          /\ entries \in 0..MaxEntries
          /\ breach \subseteq {"window", "grace"}

Holders == {p \in Proc : pc[p] = "held"}

(* io.py:88 "Cross-platform single-writer lock with safe crash recovery":  *)
(* two processes never run the body of the lock together.                  *)
MutualExclusion == \A p, q \in Holders : p = q

(* The same for creators that write their payload within the grace period, *)
(* as all but a stalled one do: what "safe crash recovery" promises.       *)
SafeCrashRecovery == "grace" \notin breach => MutualExclusion

(* The same, as long as neither weak point has been hit: the pid probe and *)
(* the identity check close every other way a recovery can go wrong.       *)
ExclusiveUnlessBreached == breach = {} => MutualExclusion

(* Neither __exit__ nor the clean-up after a failed write ever removes a   *)
(* lock file that another process has created, unless a weak point was hit *)
(* before; and a reclaim never removes the file of a running process.      *)
RemovesOnlyOwnOrAbandoned ==
    [][\A p \in Proc :
          /\ breach = {} /\ (Release(p) \/ Abort(p)) => Mine(p)
          /\ breach' = {} /\ Unlink(p) /\ file # NoFile => ~Alive(file.owner)]_vars

(* A lock left written by a crashed owner never turns an attempt away: the *)
(* attempt gets as far as its removal, unless somebody else is faster, the *)
(* attempt dies, or the owner's pid has been given to another program.     *)
Abandoned(t) == file # NoFile /\ file.token = t /\ file.written /\ ~Alive(file.owner)

CrashRecovery ==
    \A p \in Proc, t \in 1..MaxEntries :
        (Abandoned(t) /\ pc[p] = "create")
            ~> (~Abandoned(t) \/ pc[p] \in {"unlink", "dead"} \/ PidRunning(file.owner))

(* Every __enter__ and __exit__ ends: contention, crashes and recoveries   *)
(* of others never keep a process in its create loop for ever.             *)
EveryCallEnds ==
    \A p \in Proc : pc[p] \notin {"idle", "held", "dead"} ~> pc[p] \in {"idle", "held", "dead"}

-----------------------------------------------------------------------------
(* The inductive invariant behind the two safety properties: while no weak *)
(* point has been hit, the file is the one of the process that is past its *)
(* creation, and whoever is about to remove a file has seen a dead owner.  *)
Owning == {"write", "abort", "held", "compare", "release"}
Entering == {"create", "observe", "judge", "stat", "unlink"}

OwnerHasFile ==
    \A p \in Proc : pc[p] \in Owning =>
        /\ Mine(p) /\ file.owner = p
        /\ pc[p] \in {"held", "compare", "release"} => file.written

ReclaimersSawDead == \A q \in Proc : pc[q] \in {"stat", "unlink"} => ~Alive(seen[q].owner)

WellFormed == \A p \in Proc :
    /\ pc[p] \in Entering => tries[p] > 0 /\ token[p] > 0
    /\ pc[p] \in {"judge", "stat", "unlink"} => seen[p] # NoFile

LockInv == TypeOK /\ WellFormed /\ (breach = {} => OwnerHasFile /\ ReclaimersSawDead)
====

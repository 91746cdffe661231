---- MODULE ModelDownload ----
(***************************************************************************)
(* The download of an official model (src/osai/model_download.py):         *)
(* processes that want it take the lock of the download folder one after   *)
(* the other, fill a staging folder that outlives them, and rename it to   *)
(* its destination when every file has the published checksum.             *)
(*                                                                         *)
(* A file is its size in chunks and the set of publications its chunks     *)
(* come from: its digest is the published one exactly when it is complete  *)
(* and all of that publication.  Publications differ in the content of     *)
(* their files, not in its size, and an MLX model in which files it has.   *)
(***************************************************************************)
EXTENDS Naturals

CONSTANTS Proc,         \* processes that ask for the model
          NoProc,
          File,         \* the files that any publication of the model has
          FilesOf,      \* those that each of them has
          Size,         \* chunks of a file
          NoModel,      \* no destination folder
          Publications, \* bound: how often the model is published
          MaxFailures   \* bound: errors, interrupts, damaged chunks, kills

ASSUME ProcAssumption == NoProc \notin Proc
ASSUME SizeAssumption == Size \in Nat \ {0}
ASSUME BoundsAssumption == Publications \in Nat \ {0} /\ MaxFailures \in Nat

VARIABLES pc,           \* the step of each process
          lock,         \* the owner of .downloads/.osai.lock
          published,    \* the publication the server has now
          destination,  \* the installed model's files, or NoModel
          staging,      \* the .partial folder
          (* of the owner of the lock *)
          expected,     \* checksum_map: the publication whose checksums it has read
          listed,       \* manifest_files: what has been found good, for the manifest
          target,       \* the file under way
          serving,      \* the publication of the response being read
          failures

vars == <<pc, lock, published, destination, staging, expected, listed, target, serving, failures>>

Version == 1..Publications
ASSUME FilesAssumption == FilesOf \in [Version -> SUBSET File \ {{}}]
Damaged == 0
Content == [size : 0..Size, from : SUBSET (Version \cup {Damaged})]
Empty == [size |-> 0, from |-> {}]          \* there is no such file
Nothing == [f \in File |-> Empty]
ASSUME NoModelAssumption == NoModel \notin [File -> Content]

Digest(content, version) == content = [size |-> Size, from |-> {version}]

Init == /\ pc = [p \in Proc |-> "idle"] /\ lock = NoProc
        /\ published = 1 /\ destination = NoModel /\ staging = Nothing
        /\ expected = 1 /\ listed = Nothing /\ target \in File /\ serving = 1
        /\ failures = 0

-----------------------------------------------------------------------------
At(p, label) == pc[p] = label
Goto(p, label) == pc' = [pc EXCEPT ![p] = label]
Mishap == failures < MaxFailures /\ failures' = failures + 1

(* A process that finds the model installed is content with it.            *)
Ensure(p) == /\ At(p, "idle") /\ destination = NoModel
             /\ Goto(p, "lock")
             /\ UNCHANGED <<lock, published, destination, staging, expected, listed, target,
                            serving, failures>>

Refuse(p) == /\ At(p, "lock") /\ lock # NoProc
             /\ Goto(p, "idle")
             /\ UNCHANGED <<lock, published, destination, staging, expected, listed, target,
                            serving, failures>>

(* Another process may have installed it since: it is looked for again.    *)
Acquire(p) == /\ At(p, "lock") /\ lock = NoProc
              /\ lock' = p
              /\ Goto(p, IF destination = NoModel THEN "catalogue" ELSE "release")
              /\ UNCHANGED <<published, destination, staging, expected, listed, target, serving,
                             failures>>

ReadCatalogue(p) == /\ At(p, "catalogue")
                    /\ expected' = published
                    /\ listed' = Nothing
                    /\ Goto(p, "files")
                    /\ UNCHANGED <<lock, published, destination, staging, target, serving,
                                   failures>>

(* The files of that publication in turn; in which order is immaterial.    *)
(* One that an earlier process has completed is taken as it is.            *)
Unlisted == {f \in FilesOf[expected] : listed[f] = Empty}

Take(p) == /\ At(p, "files")
           /\ \E f \in Unlisted : /\ Digest(staging[f], expected)
                                  /\ listed' = [listed EXCEPT ![f] = staging[f]]
           /\ UNCHANGED <<pc, lock, published, destination, staging, expected, target, serving,
                          failures>>

(* Mutant: what is in the staging folder is fetched all the same.          *)
FetchAgain(p) == /\ At(p, "files")
                 /\ target' \in Unlisted
                 /\ Goto(p, "request")
                 /\ UNCHANGED <<lock, published, destination, staging, expected, listed,
                                serving, failures>>

Fetch(p) == /\ At(p, "files")
            /\ \E f \in Unlisted : ~Digest(staging[f], expected) /\ target' = f
            /\ Goto(p, "request")
            /\ UNCHANGED <<lock, published, destination, staging, expected, listed, serving,
                           failures>>

-----------------------------------------------------------------------------
(* _download_file *)

Offered == target \in FilesOf[published]

(* The rest of a partial file, when the server grants the range.           *)
Resume(p) == /\ At(p, "request") /\ Offered /\ staging[target].size \in 1..Size - 1
             /\ serving' = published
             /\ Goto(p, "body")
             /\ UNCHANGED <<lock, published, destination, staging, expected, listed, target,
                            failures>>

(* The whole file: there is none yet, or the server ignores the range.     *)
Restart(p) == /\ At(p, "request") /\ Offered
              /\ serving' = published
              /\ staging' = [staging EXCEPT ![target] = Empty]
              /\ Goto(p, "body")
              /\ UNCHANGED <<lock, published, destination, expected, listed, target, failures>>

(* Mutant: 416 is an error like any other, and the staging folder is kept. *)
RangeRefusedFails(p) == /\ At(p, "request") /\ staging[target].size = Size
                        /\ Goto(p, "release")
                        /\ UNCHANGED <<lock, published, destination, staging, expected, listed,
                                       target, serving, failures>>

(* 416, nothing is left to send: the file is deleted and asked for anew.   *)
RangeRefused(p) == /\ At(p, "request") /\ Offered /\ staging[target].size = Size
                   /\ staging' = [staging EXCEPT ![target] = Empty]
                   /\ UNCHANGED <<pc, lock, published, destination, expected, listed, target,
                                  serving, failures>>

(* 404, a later publication is without it: the staging folder is kept.     *)
NotFound(p) == /\ At(p, "request") /\ ~Offered
               /\ Goto(p, "release")
               /\ UNCHANGED <<lock, published, destination, staging, expected, listed, target,
                              serving, failures>>

Append(p, version) == /\ At(p, "body") /\ staging[target].size < Size
                      /\ staging' = [staging EXCEPT ![target] =
                                        [size |-> @.size + 1, from |-> @.from \cup {version}]]
                      /\ UNCHANGED <<pc, lock, published, destination, expected, listed, target,
                                     serving>>

(* Mutant: a chunk more than the file has.                                 *)
ChunkBeyond(p) == /\ At(p, "body")
                  /\ staging' = [staging EXCEPT ![target] =
                                    [size |-> @.size + 1, from |-> @.from \cup {serving}]]
                  /\ UNCHANGED <<pc, lock, published, destination, expected, listed, target,
                                 serving, failures>>

Chunk(p) == Append(p, serving) /\ UNCHANGED failures
DamagedChunk(p) == Append(p, Damaged) /\ Mishap

(* Mutant: a complete file is listed whatever its digest.                  *)
EndOfFileUnchecked(p) ==
    /\ At(p, "body") /\ staging[target].size = Size
    /\ listed' = [listed EXCEPT ![target] = staging[target]]
    /\ Goto(p, "files")
    /\ UNCHANGED <<lock, published, destination, staging, expected, target, serving, failures>>

EndOfFile(p) ==
    /\ At(p, "body") /\ staging[target].size = Size
    /\ IF Digest(staging[target], expected)
       THEN /\ listed' = [listed EXCEPT ![target] = staging[target]]
            /\ Goto(p, "files")
       ELSE Goto(p, "discard") /\ UNCHANGED listed
    /\ UNCHANGED <<lock, published, destination, staging, expected, target, serving, failures>>

-----------------------------------------------------------------------------
(* The manifest is written and each file that it lists checked against it. *)
(* What else is in the folder, of an earlier publication, is not looked at.*)
AsListed == \A f \in FilesOf[expected] : staging[f] = listed[f]

Verify(p) == /\ At(p, "files") /\ Unlisted = {}
             /\ Goto(p, IF AsListed THEN "activate" ELSE "discard")
             /\ UNCHANGED <<lock, published, destination, staging, expected, listed, target,
                            serving, failures>>

Activate(p) == /\ At(p, "activate")
               /\ destination' = staging
               /\ staging' = Nothing
               /\ Goto(p, "release")
               /\ UNCHANGED <<lock, published, expected, listed, target, serving, failures>>

Working == {"catalogue", "files", "request", "body", "activate"}

(* An error of the network or the disk: the staging folder is kept, or what *)
(* is left of it when deleting it fails.                                   *)
Interrupted(p) == /\ pc[p] \in Working \cup {"discard"} /\ Mishap
                  /\ Goto(p, "release")
                  /\ UNCHANGED <<lock, published, destination, staging, expected, listed, target,
                                 serving>>

(* Any other exception, a body that ends early, Ctrl-C: it is deleted.     *)
Abandoned(p) == /\ pc[p] \in Working /\ Mishap
                /\ Goto(p, "discard")
                /\ UNCHANGED <<lock, published, destination, staging, expected, listed, target,
                               serving>>

Discard(p) == /\ At(p, "discard")
              /\ IF staging = Nothing
                 THEN Goto(p, "release") /\ UNCHANGED staging
                 ELSE /\ \E f \in File : /\ staging[f] # Empty
                                         /\ staging' = [staging EXCEPT ![f] = Empty]
                      /\ UNCHANGED pc
              /\ UNCHANGED <<lock, published, destination, expected, listed, target, serving,
                             failures>>

Release(p) == /\ At(p, "release")
              /\ lock' = NoProc
              /\ Goto(p, "idle")
              /\ UNCHANGED <<published, destination, staging, expected, listed, target, serving,
                             failures>>

(* The process is killed, its lock is recovered by the next one.           *)
Kill(p) == /\ ~At(p, "idle") /\ Mishap
           /\ lock' = IF lock = p THEN NoProc ELSE lock
           /\ Goto(p, "idle")
           /\ UNCHANGED <<published, destination, staging, expected, listed, target, serving>>

Publish == /\ published < Publications
           /\ published' = published + 1
           /\ UNCHANGED <<pc, lock, destination, staging, expected, listed, target, serving,
                          failures>>

Download(p) == Resume(p) \/ Restart(p) \/ RangeRefused(p) \/ NotFound(p) \/ Chunk(p)
                   \/ EndOfFile(p)
Prepare(p) == Ensure(p) \/ Refuse(p) \/ Acquire(p) \/ ReadCatalogue(p) \/ Take(p) \/ Fetch(p)
Finish(p) == Verify(p) \/ Activate(p) \/ Discard(p) \/ Release(p)
Progress(p) == Prepare(p) \/ Download(p) \/ Finish(p)
Failure(p) == DamagedChunk(p) \/ Interrupted(p) \/ Abandoned(p) \/ Kill(p)

Next == (\E p \in Proc : Progress(p) \/ Failure(p)) \/ Publish

(* A process executes its next statement, and as long as the model is      *)
(* missing somebody asks for it again, as every run that needs it does.    *)
Spec == Init /\ [][Next]_vars /\ \A p \in Proc : WF_vars(Progress(p))

-----------------------------------------------------------------------------
Labels == Working \cup {"idle", "lock", "discard", "release"}

TypeOK == /\ pc \in [Proc -> Labels] /\ lock \in Proc \cup {NoProc}
          /\ published \in Version /\ expected \in Version /\ serving \in Version
          /\ destination \in [File -> Content] \cup {NoModel}
          /\ staging \in [File -> Content] /\ listed \in [File -> Content]
          /\ target \in File /\ failures \in 0..MaxFailures

(* What the destination holds: a whole publication, or damage.             *)
Holds(version) == \A f \in FilesOf[version] : Digest(destination[f], version)

Installed == IF destination = NoModel THEN NoModel
             ELSE IF \E v \in Version : Holds(v) THEN CHOOSE v \in Version : Holds(v)
             ELSE Damaged

Abstract == INSTANCE Installation WITH model <- Installed, None <- NoModel

(* model_download.py:344 "It is never activated until all published        *)
(* SHA-256 checksums have passed": whatever was interrupted, resumed,      *)
(* damaged or published anew on the way, the model appears in one step,    *)
(* every file that one publication lists is there, whole and as in that    *)
(* publication, and it is never replaced.  Files that only an earlier one  *)
(* listed, whole or not, may be left beside them.                          *)
Installs == Abstract!Spec

(* A staging folder never gets in the way: as long as somebody tries again *)
(* and failures end, the model is installed.                               *)
RetryInstalls == <>(destination # NoModel)

(* A file that is already right is neither fetched again nor touched, by   *)
(* this process or the next, unless the whole folder is given up.          *)
KeepsCompleted ==
    [][\A f \in File :
          lock # NoProc /\ pc[lock] # "catalogue" /\ Digest(staging[f], expected)
              => staging'[f] = staging[f] \/ pc[lock] \in {"activate", "discard"}]_vars

-----------------------------------------------------------------------------
(* What makes it inductive: a process works under the lock, and what is    *)
(* listed is right.                                                        *)
Holding == Working \cup {"discard", "release"}

LockOwner == \A p \in Proc : pc[p] \in Holding <=> lock = p

ListedIsRight == \A p \in Proc :
    /\ pc[p] \in {"files", "request", "body", "activate"} =>
           \A f \in File : listed[f] # Empty => Digest(listed[f], expected)
    /\ pc[p] = "activate" =>
           \A f \in FilesOf[expected] : staging[f] = listed[f] /\ listed[f] # Empty

NotTwice == \A p \in Proc : pc[p] \in Working => destination = NoModel

AsksForWrong == \A p \in Proc :
    pc[p] = "request" => ~Digest(staging[target], expected)

Sound == destination # NoModel => \E v \in Version : Holds(v)

DownloadInv == TypeOK /\ LockOwner /\ ListedIsRight /\ NotTwice /\ AsksForWrong /\ Sound
====

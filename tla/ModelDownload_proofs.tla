---- MODULE ModelDownload_proofs ----
(***************************************************************************)
(* Proofs about ModelDownload for any number of processes, files, chunks,  *)
(* publications and failures: that it implements Installation, and that a  *)
(* file which is right is left alone.                                      *)
(***************************************************************************)
EXTENDS ModelDownload, TLAPS

USE DEF At, Goto, Mishap, Version, Working, Holding, Labels

(* A file without content belongs to the staging folder, and is never      *)
(* taken for a complete one.                                               *)
LEMMA EmptyContent == /\ Empty \in Content /\ Nothing \in [File -> Content]
                      /\ \A v \in Version : ~Digest(Empty, v)
BY SizeAssumption DEF Empty, Content, Nothing, Digest

(* Appending a chunk to a file that is not full leaves a file.             *)
LEMMA AppendedContent ==
    ASSUME NEW c \in Content, c.size < Size, NEW v \in Version \cup {Damaged}
    PROVE  [size |-> c.size + 1, from |-> c.from \cup {v}] \in Content
<1>1. c.size \in 0..Size /\ c.from \in SUBSET (Version \cup {Damaged})
  BY DEF Content
<1>2. c.size + 1 \in 0..Size
  BY <1>1, SizeAssumption
<1>3. QED
  BY <1>1, <1>2 DEF Content

(* The first process finds neither a model nor anything of one.            *)
LEMMA InitDownloadInv == Init => DownloadInv
<1> SUFFICES ASSUME Init PROVE DownloadInv
  OBVIOUS
<1>1. TypeOK
  BY EmptyContent, BoundsAssumption DEF Init, TypeOK
<1>2. LockOwner
  BY ProcAssumption DEF Init, LockOwner
<1>3. ListedIsRight /\ NotTwice /\ AsksForWrong /\ Sound
  BY DEF Init, ListedIsRight, NotTwice, AsksForWrong, Sound
<1>4. QED
  BY <1>1, <1>2, <1>3 DEF DownloadInv

(* Every step of a process keeps the variables in their types.             *)
LEMMA StepTypes ==
    ASSUME TypeOK, [Next]_vars
    PROVE  TypeOK'
<1> USE EmptyContent, BoundsAssumption
<1>1. CASE UNCHANGED vars
  BY <1>1 DEF vars, TypeOK
<1>2. ASSUME NEW p \in Proc, Prepare(p) PROVE TypeOK'
  <2>1. FilesOf[expected] \subseteq File
    BY FilesAssumption DEF TypeOK
  <2>2. QED
    BY <1>2, <2>1
    DEF Prepare, Ensure, Refuse, Acquire, ReadCatalogue, Take, Fetch, Unlisted, TypeOK
<1>3. ASSUME NEW p \in Proc, Append(p, serving) \/ Append(p, Damaged)
      PROVE  staging' \in [File -> Content]
  <2>1. staging[target] \in Content /\ serving \in Version /\ staging[target].size < Size
    BY <1>3 DEF Append, TypeOK
  <2>2. [size |-> staging[target].size + 1, from |-> staging[target].from \cup {serving}]
            \in Content
    BY <2>1, AppendedContent
  <2>3. [size |-> staging[target].size + 1, from |-> staging[target].from \cup {Damaged}]
            \in Content
    BY <2>1, AppendedContent
  <2>4. QED
    BY <1>3, <2>2, <2>3 DEF Append, TypeOK
<1>4. ASSUME NEW p \in Proc, Download(p) PROVE TypeOK'
  <2>1. CASE Resume(p) \/ Restart(p) \/ RangeRefused(p) \/ NotFound(p) \/ EndOfFile(p)
    BY <2>1 DEF Resume, Restart, RangeRefused, NotFound, EndOfFile, TypeOK
  <2>2. CASE Chunk(p)
    BY <2>2, <1>3 DEF Chunk, Append, TypeOK
  <2>3. QED
    BY <1>4, <2>1, <2>2 DEF Download
<1>5. ASSUME NEW p \in Proc, Finish(p) PROVE TypeOK'
  BY <1>5 DEF Finish, Verify, Activate, Discard, Release, TypeOK
<1>6. ASSUME NEW p \in Proc, Failure(p) PROVE TypeOK'
  <2>1. CASE DamagedChunk(p)
    <3>1. staging' \in [File -> Content]
      BY <2>1, <1>3 DEF DamagedChunk
    <3>2. failures' \in 0..MaxFailures
      BY <2>1 DEF DamagedChunk, TypeOK
    <3>3. UNCHANGED <<pc, lock, published, destination, expected, listed, target, serving>>
      BY <2>1 DEF DamagedChunk, Append
    <3>4. QED
      BY <3>1, <3>2, <3>3 DEF TypeOK
  <2>2. CASE Interrupted(p) \/ Abandoned(p) \/ Kill(p)
    BY <2>2 DEF Interrupted, Abandoned, Kill, TypeOK
  <2>3. QED
    BY <1>6, <2>1, <2>2 DEF Failure
<1>7. CASE Publish
  BY <1>7 DEF Publish, TypeOK
<1>8. QED
  BY <1>1, <1>2, <1>4, <1>5, <1>6, <1>7 DEF Next, Progress

(* Who works holds the lock, from the moment it is granted to its release  *)
(* or to the kill that makes it stale.                                     *)
LEMMA StepLock ==
    ASSUME TypeOK, LockOwner, [Next]_vars
    PROVE  LockOwner'
<1> USE ProcAssumption
<1>1. CASE UNCHANGED vars \/ Publish
  BY <1>1 DEF vars, Publish, LockOwner
<1>2. ASSUME NEW p \in Proc, Prepare(p) PROVE LockOwner'
  BY <1>2 DEF Prepare, Ensure, Refuse, Acquire, ReadCatalogue, Take, Fetch, TypeOK, LockOwner
<1>3. ASSUME NEW p \in Proc, Download(p) PROVE LockOwner'
  BY <1>3 DEF Download, Resume, Restart, RangeRefused, NotFound, Chunk, Append, EndOfFile,
              TypeOK, LockOwner
<1>4. ASSUME NEW p \in Proc, Finish(p) PROVE LockOwner'
  BY <1>4 DEF Finish, Verify, Activate, Discard, Release, TypeOK, LockOwner
<1>5. ASSUME NEW p \in Proc, Failure(p) PROVE LockOwner'
  BY <1>5 DEF Failure, DamagedChunk, Append, Interrupted, Abandoned, Kill, TypeOK, LockOwner
<1>6. QED
  BY <1>1, <1>2, <1>3, <1>4, <1>5 DEF Next, Progress

(* The process in the lock lists what is right, asks for what is not, and  *)
(* installs only where nothing is installed; no other process works.       *)
LEMMA StepWork ==
    ASSUME DownloadInv, [Next]_vars
    PROVE  ListedIsRight' /\ NotTwice' /\ AsksForWrong'
<1> USE EmptyContent DEF DownloadInv
<1>1. CASE UNCHANGED vars
  BY <1>1 DEF vars, ListedIsRight, NotTwice, AsksForWrong, Digest
<1>2. CASE Publish
  BY <1>2 DEF Publish, ListedIsRight, NotTwice, AsksForWrong, Digest
<1>3. ASSUME NEW p \in Proc, Progress(p) \/ Failure(p)
      PROVE  \A q \in Proc \ {p} : /\ pc'[q] = pc[q]
                                   /\ pc[p] \in Holding => pc[q] \notin Holding
  BY <1>3 DEF Progress, Prepare, Ensure, Refuse, Acquire, ReadCatalogue, Take, Fetch,
              Download, Resume, Restart, RangeRefused, NotFound, Chunk, Append, EndOfFile,
              Finish, Verify, Activate, Discard, Release,
              Failure, DamagedChunk, Interrupted, Abandoned, Kill, TypeOK, LockOwner
<1>4. ASSUME NEW p \in Proc, Ensure(p) \/ Refuse(p) \/ Acquire(p)
      PROVE  ListedIsRight' /\ NotTwice' /\ AsksForWrong'
  BY <1>4 DEF Ensure, Refuse, Acquire, TypeOK, ListedIsRight, NotTwice, AsksForWrong, Digest
<1>5. ASSUME NEW p \in Proc, ReadCatalogue(p)
      PROVE  ListedIsRight' /\ NotTwice' /\ AsksForWrong'
  BY <1>5, <1>3 DEF Progress, Prepare, ReadCatalogue, TypeOK, ListedIsRight, NotTwice,
                    AsksForWrong, Nothing
<1>6. ASSUME NEW p \in Proc, Take(p)
      PROVE  ListedIsRight' /\ NotTwice' /\ AsksForWrong'
  BY <1>6, <1>3 DEF Progress, Prepare, Take, TypeOK, ListedIsRight, NotTwice, AsksForWrong,
                    Digest
<1>7. ASSUME NEW p \in Proc, Fetch(p)
      PROVE  ListedIsRight' /\ NotTwice' /\ AsksForWrong'
  BY <1>7, <1>3 DEF Progress, Prepare, Fetch, TypeOK, ListedIsRight, NotTwice, AsksForWrong,
                    Digest
<1>8. ASSUME NEW p \in Proc, Resume(p) \/ Restart(p) \/ RangeRefused(p) \/ NotFound(p)
      PROVE  ListedIsRight' /\ NotTwice' /\ AsksForWrong'
  BY <1>8, <1>3 DEF Progress, Download, Resume, Restart, RangeRefused, NotFound, TypeOK,
                    ListedIsRight, NotTwice, AsksForWrong
<1>9. ASSUME NEW p \in Proc, Chunk(p) \/ DamagedChunk(p)
      PROVE  ListedIsRight' /\ NotTwice' /\ AsksForWrong'
  BY <1>9, <1>3 DEF Progress, Download, Failure, Chunk, DamagedChunk, Append, TypeOK,
                    ListedIsRight, NotTwice, AsksForWrong, Digest
<1>10. ASSUME NEW p \in Proc, EndOfFile(p)
       PROVE  ListedIsRight' /\ NotTwice' /\ AsksForWrong'
  <2>1. /\ \A q \in Proc \ {p} : pc'[q] = pc[q] /\ pc[q] \notin Holding
        /\ pc[p] = "body" /\ pc'[p] \in {"files", "discard"}
    BY <1>10, <1>3 DEF Progress, Download, EndOfFile, TypeOK
  <2>2. \A f \in File : listed[f] # Empty => Digest(listed[f], expected)
    BY <1>10 DEF EndOfFile, ListedIsRight
  <2>3. \A f \in File : listed'[f] # Empty => Digest(listed'[f], expected)
    BY <1>10, <2>2 DEF EndOfFile, TypeOK
  <2>4. ListedIsRight'
    BY <1>10, <2>1, <2>3 DEF EndOfFile, ListedIsRight, Digest
  <2>5. NotTwice' /\ AsksForWrong'
    BY <1>10, <2>1 DEF EndOfFile, NotTwice, AsksForWrong
  <2>6. QED
    BY <2>4, <2>5
<1>11. ASSUME NEW p \in Proc, Verify(p)
       PROVE  ListedIsRight' /\ NotTwice' /\ AsksForWrong'
  BY <1>11, <1>3 DEF Progress, Finish, Verify, Unlisted, AsListed, TypeOK, ListedIsRight, NotTwice,
                     AsksForWrong, Digest
<1>12. ASSUME NEW p \in Proc, Activate(p) \/ Discard(p) \/ Release(p)
       PROVE  ListedIsRight' /\ NotTwice' /\ AsksForWrong'
  BY <1>12, <1>3 DEF Progress, Finish, Activate, Discard, Release, TypeOK, ListedIsRight,
                     NotTwice, AsksForWrong
<1>13. ASSUME NEW p \in Proc, Interrupted(p) \/ Abandoned(p) \/ Kill(p)
       PROVE  ListedIsRight' /\ NotTwice' /\ AsksForWrong'
  BY <1>13 DEF Interrupted, Abandoned, Kill, TypeOK, ListedIsRight, NotTwice, AsksForWrong,
               Digest
<1>14. QED
  BY <1>1, <1>2, <1>4, <1>5, <1>6, <1>7, <1>8, <1>9, <1>10, <1>11, <1>12, <1>13
  DEF Next, Progress, Prepare, Download, Finish, Failure

(* The destination is the work of nobody but Activate.                     *)
LEMMA OnlyActivate ==
    ASSUME [Next]_vars
    PROVE  (\E p \in Proc : Activate(p)) \/ destination' = destination
BY DEF vars, Next, Progress, Prepare, Ensure, Refuse, Acquire, ReadCatalogue, Take, Fetch,
       Download, Resume, Restart, RangeRefused, NotFound, Chunk, Append, EndOfFile,
       Finish, Verify, Discard, Release,
       Failure, DamagedChunk, Interrupted, Abandoned, Kill, Publish

(* What is activated is whole: every file of the publication that was read *)
(* is listed, and every listed file has the checksum it has there.         *)
LEMMA ActivatesWhole ==
    ASSUME DownloadInv, NEW p \in Proc, Activate(p)
    PROVE  /\ destination = NoModel /\ destination' # NoModel
           /\ \E v \in Version : Holds(v)'
<1>1. destination = NoModel
  BY DEF Activate, DownloadInv, NotTwice
<1>2. destination' \in [File -> Content]
  BY DEF Activate, DownloadInv, TypeOK
<1>3. \A f \in FilesOf[expected] : Digest(staging[f], expected)
  <2>1. FilesOf[expected] \subseteq File
    BY FilesAssumption DEF DownloadInv, TypeOK
  <2>2. QED
    BY <2>1 DEF Activate, DownloadInv, ListedIsRight
<1>4. Holds(expected)'
  BY <1>3 DEF Activate, Holds, Digest
<1>5. expected' \in Version
  BY DEF Activate, DownloadInv, TypeOK
<1>6. QED
  BY <1>1, <1>2, <1>4, <1>5, NoModelAssumption DEF Holds, Digest, Activate

(* Every step keeps the inductive invariant.                               *)
LEMMA StepDownloadInv ==
    ASSUME DownloadInv, [Next]_vars
    PROVE  DownloadInv'
<1>1. TypeOK' /\ LockOwner'
  BY StepTypes, StepLock DEF DownloadInv
<1>2. ListedIsRight' /\ NotTwice' /\ AsksForWrong'
  BY StepWork
<1>3. Sound'
  <2>1. CASE \E p \in Proc : Activate(p)
    BY <2>1, ActivatesWhole DEF Sound
  <2>2. CASE destination' = destination
    BY <2>2 DEF DownloadInv, Sound, Holds, Digest
  <2>3. QED
    BY <2>1, <2>2, OnlyActivate
<1>4. QED
  BY <1>1, <1>2, <1>3 DEF DownloadInv

(* The model of a process, a server and a folder is sound throughout.      *)
THEOREM DownloadInvariant == Spec => []DownloadInv
<1>1. DownloadInv /\ [Next]_vars => DownloadInv'
  BY StepDownloadInv
<1>2. QED
  BY <1>1, InitDownloadInv, PTL DEF Spec

(* TypeOK, for any number of processes, files, chunks and publications:    *)
(* no file of model_download.py's staging folder outgrows its size.        *)
THEOREM DownloadTypes == Spec => []TypeOK
<1>1. DownloadInv => TypeOK
  BY DEF DownloadInv
<1>2. QED
  BY <1>1, DownloadInvariant, PTL

(* download_model_variant implements Installation: the rename of the       *)
(* staging folder is the one step that installs, what it installs has all  *)
(* that one publication lists, and every other step of every process,      *)
(* error, kill or publication leaves the model as it is.                   *)
THEOREM DownloadInstalls == Spec => Installs
<1>1. Init => Abstract!Init
  BY DEF Init, Installed, Abstract!Init
<1>2. DownloadInv /\ [Next]_vars => [Abstract!Install]_Installed
  <2> SUFFICES ASSUME DownloadInv, [Next]_vars
               PROVE  [Abstract!Install]_Installed
    OBVIOUS
  <2>1. CASE \E p \in Proc : Activate(p)
    <3>1. destination = NoModel /\ destination' # NoModel /\ \E v \in Version : Holds(v)'
      BY <2>1, ActivatesWhole
    <3>2. Installed = NoModel
      BY <3>1 DEF Installed
    <3>3. Installed' \in Version
      BY <3>1 DEF Installed
    <3>4. QED
      BY <3>2, <3>3 DEF Abstract!Install
  <2>2. CASE destination' = destination
    BY <2>2 DEF Installed, Holds, Digest
  <2>3. QED
    BY <2>1, <2>2, OnlyActivate
<1>3. QED
  BY <1>1, <1>2, DownloadInvariant, PTL DEF Spec, Installs, Abstract!Spec

(* _download_file is called only for a file that is not right, and appends *)
(* only to one that is not full: what is right stays as it is until the    *)
(* folder is renamed or given up.                                          *)
THEOREM DownloadKeepsCompleted == Spec => KeepsCompleted
<1> DEFINE Kept == \A f \in File :
        lock # NoProc /\ pc[lock] # "catalogue" /\ Digest(staging[f], expected)
            => staging'[f] = staging[f] \/ pc[lock] \in {"activate", "discard"}
<1>1. DownloadInv /\ [Next]_vars => [Kept]_vars
  <2> SUFFICES ASSUME DownloadInv, Next
               PROVE  Kept
    BY DEF vars
  <2>1. ASSUME NEW p \in Proc, Restart(p) \/ RangeRefused(p) PROVE Kept
    BY <2>1 DEF Restart, RangeRefused, DownloadInv, TypeOK, AsksForWrong
  <2>2. ASSUME NEW p \in Proc, Chunk(p) \/ DamagedChunk(p) PROVE Kept
    <3>1. ~Digest(staging[target], expected)
      BY <2>2, SizeAssumption DEF Chunk, DamagedChunk, Append, Digest
    <3>2. \A f \in File \ {target} : staging'[f] = staging[f]
      BY <2>2 DEF Chunk, DamagedChunk, Append, DownloadInv, TypeOK
    <3>3. QED
      BY <3>1, <3>2
  <2>3. ASSUME NEW p \in Proc, Activate(p) \/ Discard(p) PROVE Kept
    BY <2>3 DEF Activate, Discard, DownloadInv, LockOwner
  <2>4. CASE UNCHANGED staging
    BY <2>4
  <2>5. QED
    BY <2>1, <2>2, <2>3, <2>4
    DEF Next, Progress, Prepare, Ensure, Refuse, Acquire, ReadCatalogue, Take, Fetch,
        Download, Resume, NotFound, EndOfFile, Finish, Verify, Release,
        Failure, Interrupted, Abandoned, Kill, Publish
<1>2. QED
  BY <1>1, DownloadInvariant, PTL DEF Spec, KeepsCompleted
====

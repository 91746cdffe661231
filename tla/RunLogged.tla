---- MODULE RunLogged ----
(***************************************************************************)
(* The child processes of osAi (process.py, run_logged): a command is      *)
(* started, its output is read line by line until it ends, and the caller  *)
(* gets a result or an exception.  Cancellation by a parallel worker has   *)
(* no caller and is left out; a time limit is looked at only at the top of *)
(* the loop, so a child that says nothing holds the caller in readline.    *)
(*                                                                         *)
(* A run is an osAi process; it has at most one child at a time, and a     *)
(* child outlives the osAi process that is killed.                         *)
(***************************************************************************)
CONSTANT Run

VARIABLES
    call,       \* "none", "read": in readline, "over", or "gone": osAi is killed
    task,       \* what the child was started for
    child,      \* "none", "running" or its exit: "zero", "nonzero", or
                \* "memory": nonzero, with an out-of-memory message before it
    line,       \* whether a line waits in the pipe
    expired,    \* whether the time limit has passed
    outcome     \* how the call ended: "ok" or the kind of exception

process == <<call, task, child, line, expired, outcome>>

NoCalls == /\ call = [r \in Run |-> "none"] /\ task = [r \in Run |-> "none"]
           /\ child = [r \in Run |-> "none"] /\ line = [r \in Run |-> FALSE]
           /\ expired = [r \in Run |-> FALSE] /\ outcome = [r \in Run |-> "none"]

Launch(r, what) == /\ call[r] = "none"
                   /\ call' = [call EXCEPT ![r] = "read"]
                   /\ task' = [task EXCEPT ![r] = what]
                   /\ child' = [child EXCEPT ![r] = "running"]
                   /\ line' = [line EXCEPT ![r] = FALSE]
                   /\ expired' = [expired EXCEPT ![r] = FALSE]
                   /\ outcome' = [outcome EXCEPT ![r] = "none"]

(* The executable is missing: the OSError becomes a TrainingError.         *)
LaunchFails(r, what) == /\ call[r] = "none"
                        /\ call' = [call EXCEPT ![r] = "over"]
                        /\ task' = [task EXCEPT ![r] = what]
                        /\ outcome' = [outcome EXCEPT ![r] = "training"]
                        /\ UNCHANGED <<child, line, expired>>

Over(r, result) == /\ call' = [call EXCEPT ![r] = "over"]
                   /\ outcome' = [outcome EXCEPT ![r] = result]

(* The limit is looked at between two lines, before the next readline.     *)
ReadLine(r) == /\ call[r] = "read" /\ line[r] /\ ~expired[r]
               /\ line' = [line EXCEPT ![r] = FALSE]
               /\ UNCHANGED <<call, task, child, expired, outcome>>

(* The log or the console cannot be written: the exception leaves the loop *)
(* without a word to the child.                                            *)
LogFails(r) == /\ call[r] = "read" /\ line[r]
               /\ line' = [line EXCEPT ![r] = FALSE]
               /\ Over(r, "error")
               /\ UNCHANGED <<task, child, expired>>

EndOfOutput(r) == /\ call[r] = "read" /\ ~line[r] /\ child[r] # "running"
                  /\ Over(r, IF child[r] = "zero" THEN "ok" ELSE "training")
                  /\ UNCHANGED <<task, child, line, expired>>

(* terminate, ten seconds of patience, kill.                               *)
Terminate(r) == child' = [child EXCEPT ![r] = IF @ = "running" THEN "nonzero" ELSE @]

TimesOut(r) == /\ call[r] = "read" /\ line[r] /\ expired[r]
               /\ Terminate(r)
               /\ Over(r, "training")
               /\ UNCHANGED <<task, line, expired>>

Interrupted(r) == /\ call[r] = "read"
                  /\ Terminate(r)
                  /\ Over(r, "interrupt")
                  /\ UNCHANGED <<task, line, expired>>

(* The caller goes on; what is left of the child no longer matters to it.  *)
Returned(r) == /\ call[r] = "over"
               /\ call' = [call EXCEPT ![r] = "none"]
               /\ child' = [child EXCEPT ![r] = IF @ = "running" THEN @ ELSE "none"]
               /\ line' = [line EXCEPT ![r] = FALSE]
               /\ expired' = [expired EXCEPT ![r] = FALSE]
               /\ outcome' = [outcome EXCEPT ![r] = "none"]
               /\ task' = [task EXCEPT ![r] = IF child[r] = "running" THEN @ ELSE "none"]

(* The child.  A line written for a reader that is gone breaks the pipe.   *)
Prints(r) == /\ child[r] = "running" /\ ~line[r]
             /\ IF call[r] = "read"
                THEN line' = [line EXCEPT ![r] = TRUE] /\ UNCHANGED child
                ELSE child' = [child EXCEPT ![r] = "nonzero"] /\ UNCHANGED line
             /\ UNCHANGED <<call, task, expired, outcome>>

Exits(r, status) == /\ child[r] = "running"
                    /\ child' = [child EXCEPT ![r] = status]
                    /\ UNCHANGED <<call, task, line, expired, outcome>>

TimePasses(r) == /\ call[r] = "read" /\ ~expired[r]
                 /\ expired' = [expired EXCEPT ![r] = TRUE]
                 /\ UNCHANGED <<call, task, child, line, outcome>>

(* osAi is killed: nobody tells the child.                                 *)
Killed(r) == /\ call' = [call EXCEPT ![r] = "gone"]
             /\ line' = [line EXCEPT ![r] = FALSE]
             /\ UNCHANGED <<task, child, expired, outcome>>

Reads(r) == ReadLine(r) \/ EndOfOutput(r)

CallsOK(tasks) ==
    /\ call \in [Run -> {"none", "read", "over", "gone"}]
    /\ task \in [Run -> tasks \cup {"none"}]
    /\ child \in [Run -> {"none", "running", "zero", "nonzero", "memory"}]
    /\ line \in [Run -> BOOLEAN] /\ expired \in [Run -> BOOLEAN]
    /\ outcome \in [Run -> {"none", "ok", "training", "interrupt", "error"}]
====

------------------------------ MODULE JobRunner ------------------------------
(***************************************************************************)
(* The detached job runner of core/jobs.py: start_job, run by the CLI      *)
(* process that creates a job (the launcher), and run_job_in_process, run  *)
(* by the detached child it spawns.  The two share no memory; they         *)
(* communicate through ~/.clusterbuild/jobs/<job_id>/{status,log,pid} and  *)
(* the jobs row in SQLite.  One action is one statement that another       *)
(* process can observe: Path.write_text truncates the file and then writes *)
(* it, an ORM update loads the row and then commits the changed columns.   *)
(*                                                                         *)
(* Faults names the faults a run allows:                                   *)
(*   "terminal"  the launcher dies, or a statement of start_job raises     *)
(*   "boot"      the child fails before run_job_in_process enters its try  *)
(*   "kill"      the child is killed (SIGKILL, out of memory, reboot)      *)
(*   "disk"      writing the status file fails after it was truncated      *)
(*   "database"  the child's commit raises ("database is locked")          *)
(*   "pid"       the OS gives the pid of a reaped child to a new process   *)
(***************************************************************************)
EXTENDS Integers

CONSTANTS Jobs,       \* job ids (uuid4().hex)
          MaxLines,   \* bound: lines a handler prints
          Faults      \* the faults that may occur

FaultKinds == {"terminal", "boot", "kill", "disk", "database", "pid"}

ASSUME BoundAssumption == MaxLines \in Nat
ASSUME FaultsAssumption == Faults \subseteq FaultKinds

VARIABLES
  launch,    \* launch[j]: the next statement of start_job
  loaded,    \* loaded[j]: status column of the row start_job loaded (93)
  child,     \* child[j]: the next statement of run_job_in_process
  handler,   \* handler[j]: how the handler ended (ghost)
  final,     \* final[j]: the local final_status
  status,    \* status[j]: contents of the status file
  log,       \* log[j]: number of lines in the log file, NoLog if none
  pidFile,   \* pidFile[j]: contents of the pid file
  row,       \* row[j]: status column of the jobs row
  rowPid,    \* rowPid[j]: the pid column of the jobs row is set
  reused     \* reused[j]: the child's pid belongs to another process now

launcherVars == <<launch, loaded>>
childVars == <<child, handler, final>>
fileVars == <<status, log, pidFile>>
rowVars == <<row, rowPid>>
vars == <<launcherVars, childVars, fileVars, rowVars, reused>>

TERMINAL_STATUSES == {"succeeded", "failed"}
NoLog == -1

LaunchStages == {"idle", "truncate", "fill", "touch", "insert", "spawn", "mkpid",
                 "fillpid", "load", "save", "returned", "ended"}
LiveStages == {"boot", "handler", "report", "truncate", "fill", "load", "commit",
               "unwind", "exit"}
DeadStages == {"zombie", "gone"}

Terminal(j) == status[j] \in TERMINAL_STATUSES
LauncherLive(j) == launch[j] \notin {"idle", "ended"}
Exists(j) == launch[j] # "idle"           \* the job directory exists

TypeOK ==
  /\ launch \in [Jobs -> LaunchStages]
  /\ loaded \in [Jobs -> {"none", "absent", "running", "succeeded", "failed"}]
  /\ child \in [Jobs -> {"none"} \cup LiveStages \cup DeadStages]
  /\ handler \in [Jobs -> {"none", "returned", "raised"}]
  /\ final \in [Jobs -> {"none", "succeeded", "failed"}]
  /\ status \in [Jobs -> {"absent", "empty", "running", "succeeded", "failed"}]
  /\ log \in [Jobs -> NoLog .. MaxLines + 2]
  /\ pidFile \in [Jobs -> {"absent", "empty", "pid"}]
  /\ row \in [Jobs -> {"absent", "running", "succeeded", "failed"}]
  /\ rowPid \in [Jobs -> BOOLEAN]
  /\ reused \in [Jobs -> BOOLEAN]

Init ==
  /\ launch = [j \in Jobs |-> "idle"]
  /\ loaded = [j \in Jobs |-> "none"]
  /\ child = [j \in Jobs |-> "none"]
  /\ handler = [j \in Jobs |-> "none"]
  /\ final = [j \in Jobs |-> "none"]
  /\ status = [j \in Jobs |-> "absent"]
  /\ log = [j \in Jobs |-> NoLog]
  /\ pidFile = [j \in Jobs |-> "absent"]
  /\ row = [j \in Jobs |-> "absent"]
  /\ rowPid = [j \in Jobs |-> FALSE]
  /\ reused = [j \in Jobs |-> FALSE]

-----------------------------------------------------------------------------
(* start_job, in the launching CLI process *)

LaunchAt(j, here, next) == /\ launch[j] = here
                           /\ launch' = [launch EXCEPT ![j] = next]

\* uuid4, mkdir, params.json
CreateJobDir(j) ==
  /\ LaunchAt(j, "idle", "truncate")
  /\ UNCHANGED <<loaded, childVars, fileVars, rowVars, reused>>

TruncateStatus(j) ==
  /\ LaunchAt(j, "truncate", "fill")
  /\ status' = [status EXCEPT ![j] = "empty"]
  /\ UNCHANGED <<loaded, childVars, log, pidFile, rowVars, reused>>

WriteRunning(j) ==
  /\ LaunchAt(j, "fill", "touch")
  /\ status' = [status EXCEPT ![j] = "running"]
  /\ UNCHANGED <<loaded, childVars, log, pidFile, rowVars, reused>>

TouchLog(j) ==
  /\ LaunchAt(j, "touch", "insert")
  /\ log' = [log EXCEPT ![j] = 0]
  /\ UNCHANGED <<loaded, childVars, status, pidFile, rowVars, reused>>

InsertRow(j) ==
  /\ LaunchAt(j, "insert", "spawn")
  /\ row' = [row EXCEPT ![j] = "running"]
  /\ UNCHANGED <<loaded, childVars, fileVars, rowPid, reused>>

\* Bug: the child is spawned in place of inserting its row first.
SpawnBeforeInsert(j) ==
  /\ LaunchAt(j, "insert", "mkpid")
  /\ child' = [child EXCEPT ![j] = "boot"]
  /\ UNCHANGED <<loaded, handler, final, fileVars, rowVars, reused>>

\* Popen(..., start_new_session=True): from here on the child runs on its own
Spawn(j) ==
  /\ LaunchAt(j, "spawn", "mkpid")
  /\ child' = [child EXCEPT ![j] = "boot"]
  /\ UNCHANGED <<loaded, handler, final, fileVars, rowVars, reused>>

TruncatePid(j) ==
  /\ LaunchAt(j, "mkpid", "fillpid")
  /\ pidFile' = [pidFile EXCEPT ![j] = "empty"]
  /\ UNCHANGED <<loaded, childVars, status, log, rowVars, reused>>

WritePid(j) ==
  /\ LaunchAt(j, "fillpid", "load")
  /\ pidFile' = [pidFile EXCEPT ![j] = "pid"]
  /\ UNCHANGED <<loaded, childVars, status, log, rowVars, reused>>

LoadRow(j) ==
  /\ LaunchAt(j, "load", IF row[j] = "absent" THEN "returned" ELSE "save")
  /\ loaded' = [loaded EXCEPT ![j] = row[j]]
  /\ UNCHANGED <<childVars, fileVars, rowVars, reused>>

\* Bug: the update writes every column of the row that was loaded.
SaveWholeRow(j) ==
  /\ LaunchAt(j, "save", "returned")
  /\ rowPid' = [rowPid EXCEPT ![j] = TRUE]
  /\ row' = [row EXCEPT ![j] = loaded[j]]
  /\ UNCHANGED <<loaded, childVars, fileVars, reused>>

\* The unit of work writes only the column that was assigned: job.pid
SavePid(j) ==
  /\ LaunchAt(j, "save", "returned")
  /\ rowPid' = [rowPid EXCEPT ![j] = TRUE]
  /\ UNCHANGED <<loaded, childVars, fileVars, row, reused>>

\* The launcher exits (init reaps a child that ended before it) ...
Reap(j) == child' = [child EXCEPT ![j] = IF @ = "zombie" THEN "gone" ELSE @]

LauncherExits(j) ==
  /\ LaunchAt(j, "returned", "ended")
  /\ Reap(j)
  /\ UNCHANGED <<loaded, handler, final, fileVars, rowVars, reused>>

\* ... or dies, or start_job raises, before it returned
LauncherDies(j) ==
  /\ "terminal" \in Faults
  /\ launch[j] \notin {"idle", "returned", "ended"}
  /\ launch' = [launch EXCEPT ![j] = "ended"]
  /\ Reap(j)
  /\ UNCHANGED <<loaded, handler, final, fileVars, rowVars, reused>>

Launcher(j) ==
  \/ CreateJobDir(j) \/ TruncateStatus(j) \/ WriteRunning(j) \/ TouchLog(j)
  \/ InsertRow(j) \/ Spawn(j) \/ TruncatePid(j) \/ WritePid(j) \/ LoadRow(j)
  \/ SavePid(j) \/ LauncherExits(j)

-----------------------------------------------------------------------------
(* run_job_in_process, in the detached child *)

ChildAt(j, here, next) == /\ child[j] = here
                          /\ child' = [child EXCEPT ![j] = next]
AddLine(j) == log' = [log EXCEPT ![j] = @ + 1]

\* Bug: final_status starts as "succeeded".
EnterHandlerOptimistic(j) ==
  /\ ChildAt(j, "boot", "handler")
  /\ final' = [final EXCEPT ![j] = "succeeded"]
  /\ UNCHANGED <<launcherVars, handler, fileVars, rowVars, reused>>

\* Imports and params.json are read, final_status = "failed", the try is entered
EnterHandler(j) ==
  /\ ChildAt(j, "boot", "handler")
  /\ final' = [final EXCEPT ![j] = "failed"]
  /\ UNCHANGED <<launcherVars, handler, fileVars, rowVars, reused>>

\* An exception there is outside the try: neither the file nor the row changes
BootFails(j) ==
  /\ "boot" \in Faults
  /\ ChildAt(j, "boot", "unwind")
  /\ UNCHANGED <<launcherVars, handler, final, fileVars, rowVars, reused>>

HandlerLogs(j) ==
  /\ child[j] = "handler"
  /\ log[j] < MaxLines
  /\ AddLine(j)
  /\ UNCHANGED <<launcherVars, childVars, status, pidFile, rowVars, reused>>

\* Bug: a success is committed to the row without going through the file.
HandlerReturnsToRow(j) ==
  /\ ChildAt(j, "handler", "load")
  /\ handler' = [handler EXCEPT ![j] = "returned"]
  /\ final' = [final EXCEPT ![j] = "succeeded"]
  /\ UNCHANGED <<launcherVars, fileVars, rowVars, reused>>

HandlerReturns(j) ==
  /\ ChildAt(j, "handler", "truncate")
  /\ handler' = [handler EXCEPT ![j] = "returned"]
  /\ final' = [final EXCEPT ![j] = "succeeded"]
  /\ UNCHANGED <<launcherVars, fileVars, rowVars, reused>>

\* An unknown job type raises here too.  Only an Exception is reported; a
\* SystemExit or KeyboardInterrupt goes straight to the finally clause.
HandlerRaises(j) ==
  /\ \E next \in {"report", "truncate"} : ChildAt(j, "handler", next)
  /\ handler' = [handler EXCEPT ![j] = "raised"]
  /\ UNCHANGED <<launcherVars, final, fileVars, rowVars, reused>>

\* Bug: the exception leaves without the finally clause.
ReportFailureAndLeave(j) ==
  /\ ChildAt(j, "report", "unwind")
  /\ AddLine(j)
  /\ UNCHANGED <<launcherVars, handler, final, status, pidFile, rowVars, reused>>

ReportFailure(j) ==
  /\ ChildAt(j, "report", "truncate")
  /\ AddLine(j)
  /\ UNCHANGED <<launcherVars, handler, final, status, pidFile, rowVars, reused>>

TruncateFinal(j) ==
  /\ ChildAt(j, "truncate", "fill")
  /\ status' = [status EXCEPT ![j] = "empty"]
  /\ UNCHANGED <<launcherVars, handler, final, log, pidFile, rowVars, reused>>

\* Bug: another word than "succeeded" or "failed" is written.
WriteFinalOtherWord(j) ==
  /\ ChildAt(j, "fill", "load")
  /\ status' = [status EXCEPT ![j] = handler[j]]
  /\ UNCHANGED <<launcherVars, handler, final, log, pidFile, rowVars, reused>>

WriteFinal(j) ==
  /\ ChildAt(j, "fill", "load")
  /\ status' = [status EXCEPT ![j] = final[j]]
  /\ UNCHANGED <<launcherVars, handler, final, log, pidFile, rowVars, reused>>

\* An exception inside the finally clause skips what is left of it
WriteFails(j) ==
  /\ "disk" \in Faults
  /\ ChildAt(j, "fill", "unwind")
  /\ UNCHANGED <<launcherVars, handler, final, fileVars, rowVars, reused>>

\* Bug: something is always printed after the finally clause.
AfterFinallyPrints(j) == "unwind"

\* Where the child goes when the finally clause is over: a pending exception
\* of the handler is re-raised
AfterFinally(j) == IF handler[j] = "returned" THEN "exit" ELSE "unwind"

ChildLoadsRow(j) ==
  /\ ChildAt(j, "load", IF row[j] = "absent" THEN AfterFinally(j) ELSE "commit")
  /\ UNCHANGED <<launcherVars, handler, final, fileVars, rowVars, reused>>

\* Writes the columns that were assigned: job.status and job.finished_at
CommitFinal(j) ==
  /\ ChildAt(j, "commit", AfterFinally(j))
  /\ row' = [row EXCEPT ![j] = final[j]]
  /\ UNCHANGED <<launcherVars, handler, final, fileVars, rowPid, reused>>

CommitFails(j) ==
  /\ "database" \in Faults
  /\ ChildAt(j, "commit", "unwind")
  /\ UNCHANGED <<launcherVars, handler, final, fileVars, rowVars, reused>>

\* The interpreter prints the traceback of the exception that left main()
Traceback(j) ==
  /\ ChildAt(j, "unwind", "exit")
  /\ AddLine(j)
  /\ UNCHANGED <<launcherVars, handler, final, status, pidFile, rowVars, reused>>

Dead(j) == IF LauncherLive(j) THEN "zombie" ELSE "gone"

ChildExits(j) ==
  /\ ChildAt(j, "exit", Dead(j))
  /\ UNCHANGED <<launcherVars, handler, final, fileVars, rowVars, reused>>

ChildKilled(j) ==
  /\ "kill" \in Faults
  /\ child[j] \in LiveStages
  /\ child' = [child EXCEPT ![j] = Dead(j)]
  /\ UNCHANGED <<launcherVars, handler, final, fileVars, rowVars, reused>>

Child(j) ==
  \/ EnterHandler(j) \/ HandlerLogs(j) \/ HandlerReturns(j) \/ HandlerRaises(j)
  \/ ReportFailure(j) \/ TruncateFinal(j) \/ WriteFinal(j) \/ ChildLoadsRow(j)
  \/ CommitFinal(j) \/ Traceback(j) \/ ChildExits(j)

PidReused(j) ==
  /\ "pid" \in Faults
  /\ child[j] = "gone"
  /\ ~reused[j]
  /\ reused' = [reused EXCEPT ![j] = TRUE]
  /\ UNCHANGED <<launcherVars, childVars, fileVars, rowVars>>

Fault(j) ==
  \/ LauncherDies(j) \/ BootFails(j) \/ ChildKilled(j) \/ WriteFails(j)
  \/ CommitFails(j) \/ PidReused(j)

Next == \E j \in Jobs : Launcher(j) \/ Child(j) \/ Fault(j)

Spec == Init /\ [][Next]_vars

-----------------------------------------------------------------------------
(* Properties *)

\* What the status file and the jobs row tell about the end of a job is what
\* the handler did, and the row never runs ahead of the file: `cluster logs`,
\* `doctor` and whoever reads the row cannot be told two different outcomes
\* (jobs.py 114-136).
OutcomeAgreement ==
  \A j \in Jobs :
    /\ status[j] = "succeeded" => handler[j] = "returned"
    /\ status[j] = "failed" => handler[j] = "raised"
    /\ row[j] \in TERMINAL_STATUSES => row[j] = status[j]

\* From the moment it is spawned the child finds everything start_job promises
\* it: its row (so that `if job:` is never what drops the outcome), a log to
\* write to and a status file that the launcher will not touch any more
\* (jobs.py 68-88 against 109-131).
ChildFindsItsJob ==
  \A j \in Jobs : child[j] # "none" =>
    /\ row[j] # "absent"
    /\ log[j] # NoLog
    /\ launch[j] \in {"mkpid", "fillpid", "load", "save", "returned", "ended"}

\* A published outcome is never taken back, neither in the file nor in the
\* row, although the launcher still updates the row's pid while the child runs
\* (jobs.py 91-98 against 125-136).
OutcomeKept ==
  [][\A j \in Jobs :
       /\ Terminal(j) => status'[j] = status[j]
       /\ row[j] \in TERMINAL_STATUSES => row'[j] = row[j]]_vars

\* JobRunner implements JobLifecycle: the handler's end decides, the status
\* file publishes, the row records.
OutcomeOf(how) == CASE how = "returned" -> "succeeded"
                    [] how = "raised" -> "failed"
                    [] OTHER -> "none"
Ended(text) == IF text \in TERMINAL_STATUSES THEN text ELSE "none"

Lifecycle == INSTANCE JobLifecycle WITH
               outcome <- [j \in Jobs |-> OutcomeOf(handler[j])],
               published <- [j \in Jobs |-> Ended(status[j])],
               recorded <- [j \in Jobs |-> Ended(row[j])]

\* The abstract lifecycle of JobLifecycle holds of the files and the row.
ImplementsLifecycle == Lifecycle!Spec

-----------------------------------------------------------------------------
(* Liveness.  The launcher runs its next statement unless it dies; the     *)
(* child is scheduled and its handler ends (the self test, or an install   *)
(* whose remote commands return): both are ordinary processes.             *)

Fairness == \A j \in Jobs : /\ WF_vars(Exists(j) /\ Launcher(j))
                            /\ WF_vars(Child(j))

FairSpec == Spec /\ Fairness

\* Once spawned, a job reports an outcome in the file and the same one in the
\* row, even when the launching terminal is closed at any point after the
\* spawn (jobs.py 3-9, the detached session of 80-88).
JobSettles ==
  \A j \in Jobs : child[j] # "none" ~> Terminal(j) /\ row[j] = status[j]

=============================================================================

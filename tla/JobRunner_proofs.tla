-------------------------- MODULE JobRunner_proofs --------------------------
(***************************************************************************)
(* Proofs about JobRunner and about the commands that watch it             *)
(* (JobObservers), for every set of jobs, every number of lines and every  *)
(* combination of faults and of commands.                                  *)
(*                                                                         *)
(* OutcomeAgreement and ChildFindsItsJob are not inductive: they forget    *)
(* how far the launcher and the child have come.  JobInv adds it: what     *)
(* start_job has already created at each of its stages, that the launcher  *)
(* writes the status file only before the child exists, and what           *)
(* final_status, the file and the row hold at each stage of the child.     *)
(*                                                                         *)
(* The watchers only read: ObsSpec implements Spec, and every theorem of   *)
(* the runner holds of it.  What a watcher reports is an earlier reading   *)
(* of a file that has moved on since, so their invariant, ObsInv, rests on *)
(* what a step of the runner may still do to the things that they have     *)
(* read: RunnerMoves.                                                      *)
(***************************************************************************)
EXTENDS JobObservers, TLAPS

BeforeSpawn == {"idle", "truncate", "fill", "touch", "insert", "spawn"}

\* What start_job has created so far.
LaunchInv(j) ==
  /\ launch[j] \in BeforeSpawn => child[j] = "none"
  /\ launch[j] \in {"insert", "spawn"} => log[j] = 0
  /\ launch[j] = "spawn" => row[j] = "running"
  /\ child[j] = "none" =>
       /\ handler[j] = "none" /\ final[j] = "none"
       /\ status[j] \in {"absent", "empty", "running"}
       /\ log[j] \in {NoLog, 0}
       /\ row[j] \in {"absent", "running"}
  /\ child[j] # "none" => row[j] # "absent" /\ log[j] # NoLog

\* How far the child's outcome has got.
ChildInv(j) ==
  /\ child[j] = "boot" => final[j] = "none"
  /\ child[j] = "handler" => final[j] = "failed"
  /\ child[j] \in {"boot", "handler"} => handler[j] = "none"
  /\ child[j] \in {"report", "truncate", "fill", "load", "commit"} => handler[j] # "none"
  /\ child[j] \in {"boot", "handler", "report", "truncate", "fill"} =>
       ~Terminal(j) /\ row[j] = "running"
  /\ child[j] \in {"load", "commit"} => status[j] = final[j] /\ row[j] = "running"
  /\ handler[j] = "returned" => final[j] = "succeeded"
  /\ handler[j] = "raised" => final[j] = "failed"
  /\ Terminal(j) => status[j] = final[j] /\ handler[j] # "none"
  /\ row[j] \in TERMINAL_STATUSES => row[j] = status[j]

\* The lines the child may still add.
LogInv(j) ==
  /\ child[j] \in {"boot", "handler", "report"} => log[j] <= MaxLines
  /\ child[j] \in {"truncate", "fill", "load", "commit", "unwind"} => log[j] <= MaxLines + 1

JobInv(j) == LaunchInv(j) /\ ChildInv(j) /\ LogInv(j)

IInv == TypeOK /\ \A j \in Jobs : JobInv(j)

\* Initially no job exists.
LEMMA InitIInv == Init => IInv
  BY BoundAssumption
  DEF Init, IInv, TypeOK, JobInv, LaunchInv, ChildInv, LogInv, BeforeSpawn, Terminal,
      TERMINAL_STATUSES, NoLog, LaunchStages, LiveStages, DeadStages

\* The statements of start_job keep the invariant (jobs.py 65-100).
LEMMA LauncherKeepsIInv ==
  ASSUME IInv, NEW i \in Jobs, Launcher(i) \/ LauncherDies(i)
  PROVE  IInv'
<1> USE BoundAssumption
    DEF IInv, TypeOK, JobInv, LaunchInv, ChildInv, LogInv, BeforeSpawn, Terminal,
        TERMINAL_STATUSES, NoLog, LaunchStages, LiveStages, DeadStages, LaunchAt,
        Reap, launcherVars, childVars, fileVars, rowVars
<1>1. CASE CreateJobDir(i)   BY <1>1 DEF CreateJobDir
<1>2. CASE TruncateStatus(i) BY <1>2 DEF TruncateStatus
<1>3. CASE WriteRunning(i)   BY <1>3 DEF WriteRunning
<1>4. CASE TouchLog(i)       BY <1>4 DEF TouchLog
<1>5. CASE InsertRow(i)      BY <1>5 DEF InsertRow
<1>6. CASE Spawn(i)          BY <1>6 DEF Spawn
<1>7. CASE TruncatePid(i)    BY <1>7 DEF TruncatePid
<1>8. CASE WritePid(i)       BY <1>8 DEF WritePid
<1>9. CASE LoadRow(i)        BY <1>9 DEF LoadRow
<1>10. CASE SavePid(i)       BY <1>10 DEF SavePid
<1>11. CASE LauncherExits(i) BY <1>11 DEF LauncherExits
<1>12. CASE LauncherDies(i)  BY <1>12 DEF LauncherDies
<1>13. QED BY <1>1, <1>2, <1>3, <1>4, <1>5, <1>6, <1>7, <1>8, <1>9, <1>10, <1>11, <1>12
           DEF Launcher

\* The statements of run_job_in_process keep it, and so do its failures
\* (jobs.py 103-136).
LEMMA ChildKeepsIInv ==
  ASSUME IInv, NEW i \in Jobs,
         Child(i) \/ BootFails(i) \/ ChildKilled(i) \/ WriteFails(i) \/ CommitFails(i)
  PROVE  IInv'
<1> USE BoundAssumption
    DEF IInv, TypeOK, JobInv, LaunchInv, ChildInv, LogInv, BeforeSpawn, Terminal,
        TERMINAL_STATUSES, NoLog, LaunchStages, LiveStages, DeadStages, ChildAt,
        AddLine, AfterFinally, Dead, launcherVars, childVars, fileVars, rowVars
<1>1. CASE EnterHandler(i)   BY <1>1 DEF EnterHandler
<1>2. CASE HandlerLogs(i)    BY <1>2 DEF HandlerLogs
<1>3. CASE HandlerReturns(i) BY <1>3 DEF HandlerReturns
<1>4. CASE HandlerRaises(i)  BY <1>4 DEF HandlerRaises
<1>5. CASE ReportFailure(i)  BY <1>5 DEF ReportFailure
<1>6. CASE TruncateFinal(i)  BY <1>6 DEF TruncateFinal
<1>7. CASE WriteFinal(i)     BY <1>7 DEF WriteFinal
<1>8. CASE ChildLoadsRow(i)  BY <1>8 DEF ChildLoadsRow
<1>9. CASE CommitFinal(i)    BY <1>9 DEF CommitFinal
<1>10. CASE Traceback(i)     BY <1>10 DEF Traceback
<1>11. CASE ChildExits(i)    BY <1>11 DEF ChildExits
<1>12. CASE BootFails(i)     BY <1>12 DEF BootFails
<1>13. CASE ChildKilled(i)   BY <1>13 DEF ChildKilled
<1>14. CASE WriteFails(i)    BY <1>14 DEF WriteFails
<1>15. CASE CommitFails(i)   BY <1>15 DEF CommitFails
<1>16. QED BY <1>1, <1>2, <1>3, <1>4, <1>5, <1>6, <1>7, <1>8, <1>9, <1>10, <1>11,
              <1>12, <1>13, <1>14, <1>15
           DEF Child

\* The invariant is inductive.
LEMMA NextIInv == IInv /\ [Next]_vars => IInv'
<1> SUFFICES ASSUME IInv, [Next]_vars PROVE IInv'
    OBVIOUS
<1>1. ASSUME NEW i \in Jobs, PidReused(i) PROVE IInv'
  BY <1>1, BoundAssumption
  DEF PidReused, IInv, TypeOK, JobInv, LaunchInv, ChildInv, LogInv, BeforeSpawn, Terminal,
      launcherVars, childVars, fileVars, rowVars
<1>2. CASE UNCHANGED vars
  BY <1>2
  DEF IInv, TypeOK, JobInv, LaunchInv, ChildInv, LogInv, BeforeSpawn, Terminal, vars,
      launcherVars, childVars, fileVars, rowVars
<1>3. QED
  BY <1>1, <1>2, LauncherKeepsIInv, ChildKeepsIInv DEF Next, Fault

\* Type correctness of every variable, for all constants.
THEOREM TypeCorrect == Spec => []TypeOK
<1>1. IInv => TypeOK BY DEF IInv
<1>2. QED BY InitIInv, NextIInv, <1>1, PTL DEF Spec

\* The inductive invariant holds throughout.
THEOREM Inductive == Spec => []IInv
  BY InitIInv, NextIInv, PTL DEF Spec

\* The status file and the row tell what the handler did, under every fault
\* (jobs.py 114-136).
THEOREM Agreement == Spec => []OutcomeAgreement
<1>1. IInv => OutcomeAgreement
  BY DEF IInv, TypeOK, JobInv, ChildInv, OutcomeAgreement, Terminal, TERMINAL_STATUSES
<1>2. QED BY Inductive, <1>1, PTL

\* A spawned child finds its row and its log, and the launcher is past every
\* write of the status file (jobs.py 68-88).
THEOREM ChildFinds == Spec => []ChildFindsItsJob
<1>1. IInv => ChildFindsItsJob
  BY DEF IInv, TypeOK, JobInv, LaunchInv, ChildFindsItsJob, BeforeSpawn, LaunchStages
<1>2. QED BY Inductive, <1>1, PTL

\* A published or recorded outcome is never taken back, whichever process steps
\* next (jobs.py 91-98 against 125-136).
THEOREM Kept == Spec => OutcomeKept
<1>1. IInv /\ [Next]_vars =>
        [\A j \in Jobs :
           /\ Terminal(j) => status'[j] = status[j]
           /\ row[j] \in TERMINAL_STATUSES => row'[j] = row[j]]_vars
  <2> SUFFICES ASSUME IInv, Next, NEW j \in Jobs
               PROVE  /\ Terminal(j) => status'[j] = status[j]
                      /\ row[j] \in TERMINAL_STATUSES => row'[j] = row[j]
      OBVIOUS
  <2> USE DEF IInv, TypeOK, JobInv, LaunchInv, ChildInv, BeforeSpawn, Terminal,
          TERMINAL_STATUSES, launcherVars, childVars, fileVars, rowVars
  <2>1. CASE \E i \in Jobs : Launcher(i)
    BY <2>1 DEF Launcher, CreateJobDir, TruncateStatus, WriteRunning, TouchLog, InsertRow,
       Spawn, TruncatePid, WritePid, LoadRow, SavePid, LauncherExits, LaunchAt
  <2>2. CASE \E i \in Jobs : Child(i)
    BY <2>2 DEF Child, EnterHandler, HandlerLogs, HandlerReturns, HandlerRaises,
       ReportFailure, TruncateFinal, WriteFinal, ChildLoadsRow, CommitFinal, Traceback,
       ChildExits, ChildAt
  <2>3. CASE \E i \in Jobs : Fault(i)
    BY <2>3 DEF Fault, LauncherDies, BootFails, ChildKilled, WriteFails, CommitFails, PidReused
  <2>4. QED BY <2>1, <2>2, <2>3 DEF Next
<1>2. QED BY Inductive, <1>1, PTL DEF Spec, OutcomeKept

-----------------------------------------------------------------------------
(* Where a child ends.  This is JobSettles without its time: how a child   *)
(* can have come to its end, whenever that is.                             *)

Silencing == {"boot", "disk", "kill"}

\* The finally clause is behind it
EndInv(j) ==
  child[j] \in {"unwind", "exit"} \cup DeadStages =>
    /\ Terminal(j) \/ Faults \cap Silencing # {}
    /\ row[j] = status[j] \/ Faults \cap (Silencing \cup {"database"}) # {}

\* A child that is dead has published an outcome, unless the boot, the disk or a
\* kill stopped it, and its row holds the same, unless those or the database did.
EndsSettled ==
  \A j \in Jobs : child[j] \in DeadStages =>
    /\ Terminal(j) \/ Faults \cap Silencing # {}
    /\ row[j] = status[j] \/ Faults \cap (Silencing \cup {"database"}) # {}

\* Neither the launcher nor another job can take a child's end away, and a closed
\* terminal or a pid given away is not among the faults that can silence it.
LEMMA NextEndInv ==
  ASSUME IInv, [Next]_vars, NEW j \in Jobs, EndInv(j)
  PROVE  EndInv(j)'
<1> USE DEF IInv, TypeOK, JobInv, LaunchInv, ChildInv, BeforeSpawn, Terminal,
        TERMINAL_STATUSES, DeadStages, launcherVars, childVars, fileVars, rowVars, EndInv,
        Silencing
<1>1. ASSUME NEW i \in Jobs, Launcher(i) PROVE EndInv(j)'
  BY <1>1 DEF Launcher, CreateJobDir, TruncateStatus, WriteRunning, TouchLog, InsertRow,
     Spawn, TruncatePid, WritePid, LoadRow, SavePid, LauncherExits, LaunchAt, Reap
<1>2. ASSUME NEW i \in Jobs, Child(i) PROVE EndInv(j)'
  BY <1>2 DEF Child, EnterHandler, HandlerLogs, HandlerReturns, HandlerRaises,
     ReportFailure, TruncateFinal, WriteFinal, ChildLoadsRow, CommitFinal, Traceback,
     ChildExits, ChildAt, Dead, AfterFinally
<1>3. ASSUME NEW i \in Jobs, BootFails(i) \/ WriteFails(i) \/ PidReused(i) PROVE EndInv(j)'
  BY <1>3 DEF BootFails, WriteFails, PidReused, ChildAt
<1>4. ASSUME NEW i \in Jobs, CommitFails(i) PROVE EndInv(j)'
  BY <1>4 DEF CommitFails, ChildAt
<1>5. ASSUME NEW i \in Jobs, LauncherDies(i) \/ ChildKilled(i) PROVE EndInv(j)'
  BY <1>5 DEF LauncherDies, ChildKilled, Reap, Dead, LiveStages
<1>6. CASE UNCHANGED vars BY <1>6 DEF vars
<1>7. QED BY <1>1, <1>2, <1>3, <1>4, <1>5, <1>6 DEF Next, Fault

\* No child ends without an outcome in its file and in its row, but for the four
\* faults that the code cannot catch (jobs.py 109-136).
THEOREM Settled == Spec => []EndsSettled
<1>1. Init => \A j \in Jobs : EndInv(j) BY DEF Init, EndInv, DeadStages
<1>2. IInv /\ [Next]_vars /\ (\A j \in Jobs : EndInv(j)) => (\A j \in Jobs : EndInv(j))'
  BY NextEndInv
<1>3. (\A j \in Jobs : EndInv(j)) => EndsSettled BY DEF EndInv, EndsSettled
<1>4. QED BY Inductive, <1>1, <1>2, <1>3, PTL DEF Spec

-----------------------------------------------------------------------------
(* JobRunner implements JobLifecycle. *)

\* A step that keeps the handler's end, and moves neither a terminal text into
\* nor out of the status file and the row, is a stuttering step of the lifecycle.
LEMMA LifecycleStutters ==
  ASSUME UNCHANGED handler,
         \A j \in Jobs : Ended(status[j])' = Ended(status[j]) /\ Ended(row[j])' = Ended(row[j])
  PROVE  UNCHANGED Lifecycle!lifecycleVars
  BY DEF Lifecycle!lifecycleVars, OutcomeOf

\* The three steps of a child that the lifecycle knows: the handler's end, the
\* write of the status file, the commit of the row; every other step stutters.
LEMMA StepRefines == IInv /\ [Next]_vars => [Lifecycle!Next]_(Lifecycle!lifecycleVars)
<1> SUFFICES ASSUME IInv, [Next]_vars
             PROVE  Lifecycle!Next \/ UNCHANGED Lifecycle!lifecycleVars
    OBVIOUS
<1> USE DEF IInv, TypeOK, JobInv, LaunchInv, ChildInv, BeforeSpawn, Terminal,
        TERMINAL_STATUSES, launcherVars, childVars, fileVars, rowVars, Ended, OutcomeOf,
        Lifecycle!Next, Lifecycle!Outcomes
<1>1. ASSUME NEW i \in Jobs, Launcher(i) PROVE UNCHANGED Lifecycle!lifecycleVars
  BY <1>1, LifecycleStutters
  DEF Launcher, CreateJobDir, TruncateStatus, WriteRunning, TouchLog, InsertRow,
      Spawn, TruncatePid, WritePid, LoadRow, SavePid, LauncherExits, LaunchAt
<1>2. ASSUME NEW i \in Jobs, Fault(i) PROVE UNCHANGED Lifecycle!lifecycleVars
  BY <1>2, LifecycleStutters
  DEF Fault, LauncherDies, BootFails, ChildKilled, WriteFails, CommitFails, PidReused
<1>3. ASSUME NEW i \in Jobs, HandlerReturns(i) PROVE Lifecycle!Next
  <2>1. Lifecycle!Decide(i, "succeeded")
    BY <1>3 DEF HandlerReturns, ChildAt, Lifecycle!Decide
  <2>2. QED BY <2>1
<1>4. ASSUME NEW i \in Jobs, HandlerRaises(i) PROVE Lifecycle!Next
  <2>1. Lifecycle!Decide(i, "failed")
    BY <1>4 DEF HandlerRaises, ChildAt, Lifecycle!Decide
  <2>2. QED BY <2>1
<1>5. ASSUME NEW i \in Jobs, WriteFinal(i) PROVE Lifecycle!Next
  <2>1. Lifecycle!Publish(i)
    BY <1>5, ZenonT(60) DEF WriteFinal, ChildAt, Lifecycle!Publish
  <2>2. QED BY <2>1
<1>6. ASSUME NEW i \in Jobs, CommitFinal(i) PROVE Lifecycle!Next
  <2>1. Lifecycle!Record(i)
    BY <1>6 DEF CommitFinal, ChildAt, Lifecycle!Record
  <2>2. QED BY <2>1
<1>7. ASSUME NEW i \in Jobs,
             \/ EnterHandler(i) \/ HandlerLogs(i) \/ ReportFailure(i) \/ TruncateFinal(i)
             \/ ChildLoadsRow(i) \/ Traceback(i) \/ ChildExits(i)
      PROVE  UNCHANGED Lifecycle!lifecycleVars
  BY <1>7, LifecycleStutters
  DEF EnterHandler, HandlerLogs, ReportFailure, TruncateFinal, ChildLoadsRow, Traceback,
      ChildExits, ChildAt
<1>8. CASE UNCHANGED vars
  BY <1>8 DEF vars, Lifecycle!lifecycleVars
<1>9. QED BY <1>1, <1>2, <1>3, <1>4, <1>5, <1>6, <1>7, <1>8 DEF Next, Child

\* The files and the row of JobRunner, driven by two processes under any
\* faults, implement the job lifecycle (jobs.py 65-136).
THEOREM Refinement == Spec => ImplementsLifecycle
<1>1. Init => Lifecycle!Init
  BY DEF Init, Lifecycle!Init, Ended, OutcomeOf, TERMINAL_STATUSES
<1>2. QED BY <1>1, StepRefines, Inductive, PTL DEF Spec, Lifecycle!Spec, ImplementsLifecycle

-----------------------------------------------------------------------------
(* The watchers *)

Ending == {"exit", "zombie", "gone"}

\* How a success leaves the child: the file says it first, then the row, and
\* only a commit that fails has anything left to print.
SuccessInv(j) ==
  /\ status[j] = "succeeded" => child[j] \in {"load", "commit", "unwind"} \cup Ending
  /\ status[j] = "succeeded" /\ child[j] = "unwind" =>
       row[j] = "running" /\ "database" \in Faults

\* What `cluster logs` has read: it is never ahead of the log; behind a success
\* comes one traceback at most.
TailInv(j) ==
  /\ tail[j] = "idle" => pos[j] = 0
  /\ tail[j] # "idle" => pos[j] <= log[j]
  /\ openedAt[j] = "succeeded" =>
       /\ status[j] = "succeeded"
       /\ tail[j] \in {"check", "tell", "done"} =>
            \/ pos[j] = log[j]
            \/ /\ log[j] = pos[j] + 1 /\ child[j] \in Ending
               /\ "database" \in Faults /\ row[j] # "succeeded"
  /\ follow[j] /\ tail[j] = "tell" => Terminal(j)
  /\ follow[j] /\ tail[j] = "done" => told[j] \in TERMINAL_STATUSES

\* An outcome that was reported is the one the file holds.
ReportInv(j) ==
  \A text \in {told[j], verdict[j], listed[j]} :
    text \in TERMINAL_STATUSES => text = status[j]

\* `cluster list` of a job that was reaped before it asked.
ListInv(j) ==
  goneAt[j] = "gone" =>
    /\ child[j] = "gone"
    /\ ~reused[j] => /\ lister[j] # "zombie"
                     /\ lister[j] = "done" => listed[j] = status[j]

ObsInv(j) == SuccessInv(j) /\ TailInv(j) /\ ReportInv(j) /\ ListInv(j)

ObsIInv == IInv /\ ObsTypeOK /\ \A j \in Jobs : ObsInv(j)

-----------------------------------------------------------------------------
\* What a step of the runner does to the things that a watcher may have read.
LEMMA RunnerMoves ==
  ASSUME IInv, [Next]_vars, NEW j \in Jobs
  PROVE  /\ Terminal(j) => status'[j] = status[j]
         /\ log[j] <= log'[j]
         /\ child[j] = "gone" => child'[j] = "gone" /\ status'[j] = status[j]
         /\ child[j] \in Ending =>
              child'[j] \in Ending /\ row'[j] = row[j] /\ log'[j] = log[j]
         /\ reused[j] => reused'[j]
<1> DEFINE Goal == /\ Terminal(j) => status'[j] = status[j]
                   /\ log[j] <= log'[j]
                   /\ child[j] = "gone" => child'[j] = "gone" /\ status'[j] = status[j]
                   /\ child[j] \in Ending =>
                        child'[j] \in Ending /\ row'[j] = row[j] /\ log'[j] = log[j]
                   /\ reused[j] => reused'[j]
<1> USE BoundAssumption
    DEF IInv, TypeOK, JobInv, LaunchInv, ChildInv, BeforeSpawn, Terminal, TERMINAL_STATUSES,
        Ending, NoLog, launcherVars, childVars, fileVars, rowVars
<1>1. ASSUME NEW i \in Jobs, Launcher(i) PROVE Goal
  BY <1>1 DEF Launcher, CreateJobDir, TruncateStatus, WriteRunning, TouchLog, InsertRow,
     Spawn, TruncatePid, WritePid, LoadRow, SavePid, LauncherExits, LaunchAt, Reap
<1>2. ASSUME NEW i \in Jobs, Child(i) PROVE Goal
  BY <1>2 DEF Child, EnterHandler, HandlerLogs, HandlerReturns, HandlerRaises,
     ReportFailure, TruncateFinal, WriteFinal, ChildLoadsRow, CommitFinal, Traceback,
     ChildExits, ChildAt, AddLine, Dead
<1>3. ASSUME NEW i \in Jobs, BootFails(i) \/ WriteFails(i) \/ CommitFails(i) PROVE Goal
  BY <1>3 DEF BootFails, WriteFails, CommitFails, ChildAt
<1>4. ASSUME NEW i \in Jobs, LauncherDies(i) \/ ChildKilled(i) PROVE Goal
  BY <1>4 DEF LauncherDies, ChildKilled, Reap, Dead, LiveStages
<1>5. ASSUME NEW i \in Jobs, PidReused(i) PROVE Goal
  BY <1>5 DEF PidReused
<1>6. CASE UNCHANGED vars BY <1>6 DEF vars
<1>7. QED BY <1>1, <1>2, <1>3, <1>4, <1>5, <1>6 DEF Next, Fault

\* A success is published before it is committed, and committed before the child
\* ends; the interpreter prints behind it only when the commit has raised
\* (jobs.py 123-136).
LEMMA NextSuccess ==
  ASSUME IInv, [Next]_vars, NEW j \in Jobs, SuccessInv(j)
  PROVE  SuccessInv(j)'
<1> USE DEF IInv, TypeOK, JobInv, LaunchInv, ChildInv, BeforeSpawn, Terminal,
        TERMINAL_STATUSES, Ending, launcherVars, childVars, fileVars, rowVars, SuccessInv
<1>1. ASSUME NEW i \in Jobs, Launcher(i) PROVE SuccessInv(j)'
  BY <1>1 DEF Launcher, CreateJobDir, TruncateStatus, WriteRunning, TouchLog, InsertRow,
     Spawn, TruncatePid, WritePid, LoadRow, SavePid, LauncherExits, LaunchAt, Reap
<1>2. ASSUME NEW i \in Jobs, Child(i) PROVE SuccessInv(j)'
  BY <1>2 DEF Child, EnterHandler, HandlerLogs, HandlerReturns, HandlerRaises,
     ReportFailure, TruncateFinal, WriteFinal, ChildLoadsRow, CommitFinal, Traceback,
     ChildExits, ChildAt, Dead, AfterFinally
<1>3. ASSUME NEW i \in Jobs, BootFails(i) \/ WriteFails(i) \/ PidReused(i) PROVE SuccessInv(j)'
  BY <1>3 DEF BootFails, WriteFails, PidReused, ChildAt
<1>4. ASSUME NEW i \in Jobs, CommitFails(i) PROVE SuccessInv(j)'
  BY <1>4 DEF CommitFails, ChildAt
<1>5. ASSUME NEW i \in Jobs, LauncherDies(i) \/ ChildKilled(i) PROVE SuccessInv(j)'
  BY <1>5 DEF LauncherDies, ChildKilled, Reap, Dead, LiveStages
<1>6. CASE UNCHANGED vars BY <1>6 DEF vars
<1>7. QED BY <1>1, <1>2, <1>3, <1>4, <1>5, <1>6 DEF Next, Fault

\* The one line that comes behind a published success.
LEMMA SuccessLogs ==
  ASSUME IInv, [Next]_vars, NEW j \in Jobs, SuccessInv(j), status[j] = "succeeded",
         log'[j] # log[j]
  PROVE  /\ log'[j] = log[j] + 1 /\ child'[j] \in Ending
         /\ "database" \in Faults /\ row'[j] # "succeeded"
<1> USE DEF IInv, TypeOK, JobInv, LaunchInv, BeforeSpawn, Ending, launcherVars, childVars,
        fileVars, rowVars, SuccessInv
<1>1. ASSUME NEW i \in Jobs, Launcher(i) PROVE log'[j] = log[j]
  BY <1>1 DEF Launcher, CreateJobDir, TruncateStatus, WriteRunning, TouchLog, InsertRow,
     Spawn, TruncatePid, WritePid, LoadRow, SavePid, LauncherExits, LaunchAt
<1>2. ASSUME NEW i \in Jobs, Child(i) PROVE Traceback(i) /\ i = j
  BY <1>2 DEF Child, EnterHandler, HandlerLogs, HandlerReturns, HandlerRaises,
     ReportFailure, TruncateFinal, WriteFinal, ChildLoadsRow, CommitFinal, 
     ChildExits, ChildAt, AddLine, Traceback
<1>3. ASSUME NEW i \in Jobs, Fault(i) PROVE log'[j] = log[j]
  BY <1>3 DEF Fault, LauncherDies, BootFails, ChildKilled, WriteFails, CommitFails, PidReused
<1>4. ASSUME UNCHANGED vars PROVE log'[j] = log[j]
  BY <1>4 DEF vars
<1>5. PICK i \in Jobs : Child(i) BY <1>1, <1>3, <1>4 DEF Next
<1>6. QED BY <1>2, <1>5 DEF Traceback, ChildAt, AddLine


-----------------------------------------------------------------------------
\* A command that watches changes nothing of the runner, and a runner that is
\* watched does nothing it could not do before.
LEMMA StepOfRunner == [ObsNext]_allVars => [Next]_vars
  BY DEF ObsNext, RunnerStep, Observe, OpenLog, Reader, YieldLine, EndOfFile, CheckStatus,
         TellStatus, DoctorWaits, Doctor, DoctorLeavesLoop, DoctorDeadline, DoctorReports,
         ListJob, Lister, ProbePid, CheckZombie, ListStatus, allVars

\* `cluster logs`, `doctor` and `cluster list` only read (jobs.py 144-187,
\* cluster.py 207-261, doctor.py 55-69): a watched runner is a runner.
THEOREM WatchersOnlyRead == ObsSpec => Spec
<1>1. ObsInit => Init BY DEF ObsInit
<1>2. QED BY <1>1, StepOfRunner, PTL DEF ObsSpec, Spec

\* Nobody watches at first.
LEMMA InitObsIInv == ObsInit => ObsIInv
<1>1. ObsInit => IInv BY InitIInv DEF ObsInit
<1>2. ObsInit => ObsTypeOK BY BoundAssumption DEF ObsInit, ObsTypeOK
<1>3. ASSUME ObsInit, NEW j \in Jobs PROVE ObsInv(j)
  <2> USE <1>3 DEF ObsInit
  <2>1. SuccessInv(j) BY DEF Init, SuccessInv
  <2>2. TailInv(j) BY DEF TailInv
  <2>3. ReportInv(j) BY DEF ReportInv, TERMINAL_STATUSES
  <2>4. ListInv(j) BY DEF ListInv
  <2>5. QED BY <2>1, <2>2, <2>3, <2>4 DEF ObsInv
<1>4. QED BY <1>1, <1>2, <1>3 DEF ObsIInv

\* The runner moves on under what was read (jobs.py 65-136).
LEMMA RunnerKeepsObs ==
  ASSUME ObsIInv, [Next]_vars, UNCHANGED obsVars
  PROVE  ObsTypeOK' /\ \A j \in Jobs : ObsInv(j)'
<1> USE DEF ObsIInv, obsVars, tailVars, doctorVars, listVars
<1>1. ObsTypeOK' BY DEF ObsTypeOK
<1>2. ASSUME NEW j \in Jobs PROVE ObsInv(j)'
  <2>1. SuccessInv(j)' BY NextSuccess DEF ObsInv
  <2>2. TailInv(j)'
    <3> USE RunnerMoves
    <3>1. TailInv(j) /\ SuccessInv(j) BY DEF ObsInv
    <3>2. /\ log[j] \in Int /\ log'[j] \in Int /\ pos[j] \in Int
          /\ log[j] <= log'[j]
      <4>1. IInv' BY NextIInv
      <4>2. QED BY <4>1, BoundAssumption DEF IInv, TypeOK, ObsTypeOK, NoLog
    <3>3. CASE openedAt[j] = "succeeded" /\ log'[j] # log[j]
      <4>1. /\ log'[j] = log[j] + 1 /\ child'[j] \in Ending /\ child[j] \notin Ending
            /\ "database" \in Faults /\ row'[j] # "succeeded"
        BY <3>1, <3>3, SuccessLogs DEF TailInv
      <4>2. tail[j] \in {"check", "tell", "done"} => pos[j] = log[j]
        BY <3>1, <3>3, <4>1 DEF TailInv
      <4>3. QED
        BY <3>1, <3>2, <3>3, <4>1, <4>2 DEF TailInv, Terminal, TERMINAL_STATUSES
    <3>4. CASE ~(openedAt[j] = "succeeded" /\ log'[j] # log[j])
      BY <3>1, <3>2, <3>4 DEF TailInv, Terminal, TERMINAL_STATUSES
    <3>5. QED BY <3>3, <3>4
  <2>3. ReportInv(j)' BY RunnerMoves DEF ObsInv, ReportInv, Terminal
  <2>4. ListInv(j)' BY RunnerMoves DEF ObsInv, ListInv
  <2>5. QED BY <2>1, <2>2, <2>3, <2>4 DEF ObsInv
<1>3. QED BY <1>1, <1>2

\* `cluster logs` stops at an end of file that is also the end of a job
\* (cluster.py 207-220, jobs.py 176-187).
LEMMA LogsKeepsObs ==
  ASSUME ObsIInv, NEW i \in Jobs, OpenLog(i) \/ Reader(i)
  PROVE  ObsTypeOK' /\ \A j \in Jobs : ObsInv(j)'
<1>1. UNCHANGED <<vars, doctorVars, listVars>>
  BY DEF OpenLog, Reader, YieldLine, EndOfFile, CheckStatus, TellStatus
<1>2. log \in [Jobs -> NoLog .. MaxLines + 2] BY DEF ObsIInv, IInv, TypeOK
<1> USE BoundAssumption
    DEF ObsIInv, ObsTypeOK, StatusTexts, tailVars, doctorVars, listVars, vars, launcherVars,
        childVars, fileVars, rowVars
<1>3. ObsTypeOK'
  BY <1>1, <1>2, SMTT(20)
  DEF OpenLog, Reader, YieldLine, EndOfFile, CheckStatus, TellStatus, NoLog, IInv, TypeOK
<1>4. ASSUME NEW j \in Jobs PROVE ObsInv(j)'
  <2> USE DEF ObsInv
  <2>1. SuccessInv(j)' BY <1>1 DEF SuccessInv
  <2>2. ListInv(j)' BY <1>1 DEF ListInv
  <2>3. ReportInv(j)'
    BY <1>1 DEF ReportInv, OpenLog, Reader, YieldLine, EndOfFile, CheckStatus, TellStatus
  <2>4. TailInv(j)'
    BY <1>1, <1>2, SMTT(20)
    DEF TailInv, OpenLog, Reader, YieldLine, EndOfFile, CheckStatus, TellStatus, NoLog,
        Terminal, TERMINAL_STATUSES
  <2>5. QED BY <2>1, <2>2, <2>3, <2>4
<1>5. QED BY <1>3, <1>4

\* doctor reports a reading of its own (doctor.py 55-69).
LEMMA DoctorKeepsObs ==
  ASSUME ObsIInv, NEW i \in Jobs, DoctorWaits(i) \/ Doctor(i)
  PROVE  ObsTypeOK' /\ \A j \in Jobs : ObsInv(j)'
<1> USE DEF ObsIInv, DoctorWaits, Doctor, DoctorLeavesLoop, DoctorDeadline, DoctorReports
<1>1. UNCHANGED <<vars, tailVars, listVars>> OBVIOUS
<1> USE DEF tailVars, doctorVars, listVars, vars, launcherVars, childVars, fileVars, rowVars
<1>2. ObsTypeOK'
  <2>1. /\ doctor' \in [Jobs -> {"idle", "poll", "report", "done"}]
        /\ expired' \in [Jobs -> BOOLEAN]
    BY DEF ObsTypeOK
  <2>2. verdict' \in [Jobs -> {"none"} \cup StatusTexts]
    BY DEF ObsTypeOK, IInv, TypeOK, StatusTexts
  <2>3. QED BY <1>1, <2>1, <2>2 DEF ObsTypeOK
<1>3. ASSUME NEW j \in Jobs PROVE ObsInv(j)'
  BY <1>1 DEF ObsInv, SuccessInv, TailInv, ReportInv, ListInv, Terminal, ObsTypeOK
<1>4. QED BY <1>2, <1>3

\* `cluster list` asks for the status of a process that does not answer or is a
\* zombie (jobs.py 144-173, cluster.py 253-261).
LEMMA ListKeepsObs ==
  ASSUME ObsIInv, NEW i \in Jobs, ListJob(i) \/ Lister(i)
  PROVE  ObsTypeOK' /\ \A j \in Jobs : ObsInv(j)'
<1> USE DEF ObsIInv, ListJob, Lister, ProbePid, CheckZombie, ListStatus
<1>1. UNCHANGED <<vars, tailVars, doctorVars>> OBVIOUS
<1> USE DEF tailVars, doctorVars, listVars, vars, launcherVars, childVars, fileVars, rowVars
<1>2. ObsTypeOK'
  <2>1. /\ goneAt' \in [Jobs -> {"none"} \cup LiveStages \cup DeadStages]
        /\ listed' \in [Jobs -> {"none"} \cup StatusTexts]
        /\ lister' \in [Jobs -> {"idle", "probe", "zombie", "status", "done"}]
    BY DEF ObsTypeOK, IInv, TypeOK, StatusTexts
  <2>2. QED BY <1>1, <2>1 DEF ObsTypeOK
<1>3. ASSUME NEW j \in Jobs PROVE ObsInv(j)'
  <2>1. SuccessInv(j)' /\ TailInv(j)'
    BY <1>1 DEF ObsInv, SuccessInv, TailInv, Terminal
  <2>2. ReportInv(j)'
    BY <1>1 DEF ObsInv, ReportInv, ObsTypeOK, TERMINAL_STATUSES
  <2>3. ListInv(j)'
    BY <1>1 DEF ObsInv, ListInv, ObsTypeOK, Answers
  <2>4. QED BY <2>1, <2>2, <2>3 DEF ObsInv
<1>4. QED BY <1>2, <1>3

\* The watchers' invariant is inductive.
LEMMA NextObsIInv == ObsIInv /\ [ObsNext]_allVars => ObsIInv'
<1> SUFFICES ASSUME ObsIInv, [ObsNext]_allVars PROVE ObsIInv'
    OBVIOUS
<1>1. IInv' BY StepOfRunner, NextIInv DEF ObsIInv
<1>2. CASE RunnerStep \/ UNCHANGED allVars
  BY <1>1, <1>2, RunnerKeepsObs DEF RunnerStep, allVars, ObsIInv
<1>3. ASSUME NEW i \in Jobs, Observe(i) PROVE ObsIInv'
  BY <1>1, <1>3, LogsKeepsObs, DoctorKeepsObs, ListKeepsObs DEF Observe, ObsIInv
<1>4. QED BY <1>2, <1>3 DEF ObsNext

\* The watchers' invariant holds throughout.
THEOREM WatchersInductive == ObsSpec => []ObsIInv
  BY InitObsIInv, NextObsIInv, PTL DEF ObsSpec

\* Type correctness of the watchers' variables, for all constants.
THEOREM WatchersTypeCorrect == ObsSpec => []ObsTypeOK
<1>1. ObsIInv => ObsTypeOK BY DEF ObsIInv
<1>2. QED BY WatchersInductive, <1>1, PTL

\* Whatever `cluster logs`, `doctor` and `cluster list` report as the end of a job
\* is what its handler did, and stays so (cluster.py 215-220, 255-257, doctor.py
\* 64-69).
THEOREM TrueReports == ObsSpec => []ReportsAreTrue
<1>1. ObsIInv => ReportsAreTrue
  <2> SUFFICES ASSUME ObsIInv, NEW j \in Jobs
               PROVE  /\ "succeeded" \in {told[j], verdict[j], listed[j]} => handler[j] = "returned"
                      /\ "failed" \in {told[j], verdict[j], listed[j]} => handler[j] = "raised"
                      /\ follow[j] /\ tail[j] = "done" => told[j] \in TERMINAL_STATUSES
      BY DEF ReportsAreTrue
  <2>1. /\ status[j] = "succeeded" => handler[j] = "returned"
        /\ status[j] = "failed" => handler[j] = "raised"
    BY DEF ObsIInv, IInv, TypeOK, JobInv, ChildInv, Terminal, TERMINAL_STATUSES
  <2>2. ReportInv(j) /\ TailInv(j) BY DEF ObsIInv, ObsInv
  <2>3. QED BY <2>1, <2>2 DEF ReportInv, TailInv, TERMINAL_STATUSES
<1>2. QED BY WatchersInductive, <1>1, PTL

\* Who opens the log behind a success reads all of it, but for the traceback of a
\* commit that failed (jobs.py 119-136, 176-187).
THEOREM CompleteAfterSuccess == ObsSpec => []ReadAfterSuccessIsComplete
<1>1. ObsIInv => ReadAfterSuccessIsComplete
  BY DEF ObsIInv, ObsInv, TailInv, ReadAfterSuccessIsComplete
<1>2. QED BY WatchersInductive, <1>1, PTL

\* A job that was reaped before it was asked for is listed with its status file
\* (jobs.py 144-173, cluster.py 256).
THEOREM SeesExit == ObsSpec => []ListSeesExit
<1>1. ObsIInv => ListSeesExit BY DEF ObsIInv, ObsInv, ListInv, ListSeesExit
<1>2. QED BY WatchersInductive, <1>1, PTL

=============================================================================

---------------------------- MODULE JobObservers ----------------------------
(***************************************************************************)
(* The commands that watch a job through its files while JobRunner runs    *)
(* it: `cluster logs [--follow]` (tail_log, get_status), the background    *)
(* check of `doctor`, which waits in the launching process, and the jobs   *)
(* part of `cluster list` (is_alive, get_status).  Every one of them is a  *)
(* sequence of separate reads; the runner may move between any two.        *)
(* Observers only read: no step of theirs changes a variable of the        *)
(* runner, except that doctor keeps the launcher alive while it waits.     *)
(* A read that finds nothing new and is repeated after a sleep is a        *)
(* stuttering step.                                                        *)
(* get_status reports the text of the status file: "absent" stands here    *)
(* for its "unknown" and "empty" for the "" of a file that is being        *)
(* written.                                                                *)
(***************************************************************************)
EXTENDS JobRunner

CONSTANT Watchers     \* the commands that run: a subset of WatcherKinds

WatcherKinds == {"logs", "doctor", "list"}

ASSUME WatchersAssumption == Watchers \subseteq WatcherKinds

VARIABLES
  tail,      \* tail[j]: where `cluster logs` is
  follow,    \* follow[j]: --follow was given
  pos,       \* pos[j]: lines yielded
  openedAt,  \* openedAt[j]: the status file when the log was opened (ghost)
  told,      \* told[j]: the job status `cluster logs` printed at its end
  doctor,    \* doctor[j]: where the background check is
  expired,   \* expired[j]: its 15 seconds were over (ghost)
  verdict,   \* verdict[j]: the status it reported
  lister,    \* lister[j]: where `cluster list` is with this job
  goneAt,    \* goneAt[j]: the state of the child when is_alive began (ghost)
  listed     \* listed[j]: what `cluster list` printed for this job

tailVars == <<tail, follow, pos, openedAt, told>>
doctorVars == <<doctor, expired, verdict>>
listVars == <<lister, goneAt, listed>>
obsVars == <<tailVars, doctorVars, listVars>>
allVars == <<vars, obsVars>>

StatusTexts == {"absent", "empty", "running", "succeeded", "failed"}

ObsTypeOK ==
  /\ tail \in [Jobs -> {"idle", "read", "check", "tell", "done"}]
  /\ follow \in [Jobs -> BOOLEAN]
  /\ pos \in [Jobs -> 0 .. MaxLines + 2]
  /\ openedAt \in [Jobs -> {"none"} \cup StatusTexts]
  /\ told \in [Jobs -> {"none"} \cup StatusTexts]
  /\ doctor \in [Jobs -> {"idle", "poll", "report", "done"}]
  /\ expired \in [Jobs -> BOOLEAN]
  /\ verdict \in [Jobs -> {"none"} \cup StatusTexts]
  /\ lister \in [Jobs -> {"idle", "probe", "zombie", "status", "done"}]
  /\ goneAt \in [Jobs -> {"none"} \cup LiveStages \cup DeadStages]
  /\ listed \in [Jobs -> {"none"} \cup StatusTexts]

ObsInit ==
  /\ Init
  /\ tail = [j \in Jobs |-> "idle"]
  /\ follow = [j \in Jobs |-> FALSE]
  /\ pos = [j \in Jobs |-> 0]
  /\ openedAt = [j \in Jobs |-> "none"]
  /\ told = [j \in Jobs |-> "none"]
  /\ doctor = [j \in Jobs |-> "idle"]
  /\ expired = [j \in Jobs |-> FALSE]
  /\ verdict = [j \in Jobs |-> "none"]
  /\ lister = [j \in Jobs |-> "idle"]
  /\ goneAt = [j \in Jobs |-> "none"]
  /\ listed = [j \in Jobs |-> "none"]

-----------------------------------------------------------------------------
(* `cluster logs [--follow]` *)

\* open() raises FileNotFoundError while the log does not exist
OpenLog(j) ==
  /\ "logs" \in Watchers
  /\ tail[j] = "idle"
  /\ log[j] # NoLog
  /\ tail' = [tail EXCEPT ![j] = "read"]
  /\ \E f \in BOOLEAN : follow' = [follow EXCEPT ![j] = f]
  /\ openedAt' = [openedAt EXCEPT ![j] = status[j]]
  /\ UNCHANGED <<vars, pos, told, doctorVars, listVars>>

YieldLine(j) ==
  /\ tail[j] = "read"
  /\ pos[j] < log[j]
  /\ pos' = [pos EXCEPT ![j] = @ + 1]
  /\ UNCHANGED <<vars, tail, follow, openedAt, told, doctorVars, listVars>>

\* readline() returned "": a reader that does not follow stops here
EndOfFile(j) ==
  /\ tail[j] = "read"
  /\ pos[j] = log[j]
  /\ tail' = [tail EXCEPT ![j] = IF follow[j] THEN "check" ELSE "tell"]
  /\ UNCHANGED <<vars, follow, pos, openedAt, told, doctorVars, listVars>>

\* Bug: anything but "running" counts as the end of the job.
CheckNotRunning(j) ==
  /\ tail[j] = "check"
  /\ tail' = [tail EXCEPT ![j] = IF status[j] # "running" THEN "tell" ELSE "read"]
  /\ UNCHANGED <<vars, follow, pos, openedAt, told, doctorVars, listVars>>

\* Bug: "failed" is missing from the terminal statuses.
CheckSucceeded(j) ==
  /\ tail[j] = "check"
  /\ tail' = [tail EXCEPT ![j] = IF status[j] = "succeeded" THEN "tell" ELSE "read"]
  /\ UNCHANGED <<vars, follow, pos, openedAt, told, doctorVars, listVars>>

\* A separate read, of another file: stop on a terminal status, else sleep
CheckStatus(j) ==
  /\ tail[j] = "check"
  /\ tail' = [tail EXCEPT ![j] = IF Terminal(j) THEN "tell" ELSE "read"]
  /\ UNCHANGED <<vars, follow, pos, openedAt, told, doctorVars, listVars>>

TellStatus(j) ==
  /\ tail[j] = "tell"
  /\ tail' = [tail EXCEPT ![j] = "done"]
  /\ told' = [told EXCEPT ![j] = status[j]]
  /\ UNCHANGED <<vars, follow, pos, openedAt, doctorVars, listVars>>

Reader(j) == YieldLine(j) \/ EndOfFile(j) \/ CheckStatus(j) \/ TellStatus(j)

-----------------------------------------------------------------------------
(* `doctor --background`: start_job, then the wait, in one process *)

DoctorWaits(j) ==
  /\ "doctor" \in Watchers
  /\ doctor[j] = "idle"
  /\ launch[j] = "returned"
  /\ doctor' = [doctor EXCEPT ![j] = "poll"]
  /\ UNCHANGED <<vars, tailVars, expired, verdict, listVars>>

DoctorLeavesLoop(j) ==
  /\ doctor[j] = "poll"
  /\ status[j] # "running"
  /\ doctor' = [doctor EXCEPT ![j] = "report"]
  /\ UNCHANGED <<vars, tailVars, expired, verdict, listVars>>

DoctorDeadline(j) ==
  /\ doctor[j] = "poll"
  /\ doctor' = [doctor EXCEPT ![j] = "report"]
  /\ expired' = [expired EXCEPT ![j] = TRUE]
  /\ UNCHANGED <<vars, tailVars, verdict, listVars>>

\* Bug: the wait starts again unless the job succeeded.
DoctorInsists(j) ==
  /\ doctor[j] = "report"
  /\ doctor' = [doctor EXCEPT ![j] = IF status[j] = "succeeded" THEN "done" ELSE "poll"]
  /\ verdict' = [verdict EXCEPT ![j] = status[j]]
  /\ UNCHANGED <<vars, tailVars, expired, listVars>>

\* get_status is called again: this read, not the loop's, is reported
DoctorReports(j) ==
  /\ doctor[j] = "report"
  /\ doctor' = [doctor EXCEPT ![j] = "done"]
  /\ verdict' = [verdict EXCEPT ![j] = status[j]]
  /\ UNCHANGED <<vars, tailVars, expired, listVars>>

DoctorBusy(j) == doctor[j] \in {"poll", "report"}

Doctor(j) == DoctorLeavesLoop(j) \/ DoctorDeadline(j) \/ DoctorReports(j)

-----------------------------------------------------------------------------
(* The jobs part of `cluster list`: is_alive, and get_status if it is FALSE *)

ListJob(j) ==
  /\ "list" \in Watchers
  /\ lister[j] = "idle"
  /\ Exists(j)
  /\ lister' = [lister EXCEPT ![j] = "probe"]
  /\ goneAt' = [goneAt EXCEPT ![j] = child[j]]
  /\ UNCHANGED <<vars, tailVars, doctorVars, listed>>

\* Bug: a pid file is taken for a living process.
AnswersByFile(j) == pidFile[j] = "pid"

\* int() of the pid file and os.kill(pid, 0); a zombie still answers
Answers(j) == pidFile[j] = "pid" /\ (child[j] # "gone" \/ reused[j])

ProbePid(j) ==
  /\ lister[j] = "probe"
  /\ lister' = [lister EXCEPT ![j] = IF Answers(j) THEN "zombie" ELSE "status"]
  /\ UNCHANGED <<vars, tailVars, doctorVars, goneAt, listed>>

\* _is_zombie: a /proc entry that is missing by now counts as not a zombie
CheckZombie(j) ==
  /\ lister[j] = "zombie"
  /\ IF child[j] = "zombie"
       THEN /\ lister' = [lister EXCEPT ![j] = "status"]
            /\ UNCHANGED listed
       ELSE /\ lister' = [lister EXCEPT ![j] = "done"]
            /\ listed' = [listed EXCEPT ![j] = "running"]
  /\ UNCHANGED <<vars, tailVars, doctorVars, goneAt>>

ListStatus(j) ==
  /\ lister[j] = "status"
  /\ lister' = [lister EXCEPT ![j] = "done"]
  /\ listed' = [listed EXCEPT ![j] = status[j]]
  /\ UNCHANGED <<vars, tailVars, doctorVars, goneAt>>

Lister(j) == ProbePid(j) \/ CheckZombie(j) \/ ListStatus(j)

-----------------------------------------------------------------------------
RunnerStep == /\ Next
              /\ \A j \in Jobs : DoctorBusy(j) => launch'[j] = launch[j]
              /\ UNCHANGED obsVars

Observe(j) == OpenLog(j) \/ Reader(j) \/ DoctorWaits(j) \/ Doctor(j) \/ ListJob(j) \/ Lister(j)

ObsNext == RunnerStep \/ \E j \in Jobs : Observe(j)

ObsSpec == ObsInit /\ [][ObsNext]_allVars

-----------------------------------------------------------------------------
(* Properties *)

\* Whatever a command reports as the end of a job is what the handler did:
\* the line `cluster logs` ends with, doctor's verdict, the list's entry, and a
\* follower is not told anything else (cluster.py 215-220, 255-257, doctor.py
\* 64-69; their status reads happen at different moments of the child's life).
ReportsAreTrue ==
  \A j \in Jobs :
    /\ "succeeded" \in {told[j], verdict[j], listed[j]} => handler[j] = "returned"
    /\ "failed" \in {told[j], verdict[j], listed[j]} => handler[j] = "raised"
    /\ follow[j] /\ tail[j] = "done" => told[j] \in TERMINAL_STATUSES

\* Who opens the log after the status says "succeeded" gets all of it, for ever:
\* nothing is logged behind a success, except the one traceback of a commit that
\* failed, and then the row does not say "succeeded" (the tests wait for the
\* status and read the log once; jobs.py 119-136).
ReadAfterSuccessIsComplete ==
  \A j \in Jobs :
    openedAt[j] = "succeeded" /\ tail[j] = "done" =>
      \/ pos[j] = log[j]
      \/ "database" \in Faults /\ log[j] = pos[j] + 1 /\ row[j] # "succeeded"

\* A job whose process had been reaped before `cluster list` asked is listed
\* with its status file, never as alive, unless its pid was given away
\* (jobs.py 163-173, cluster.py 256).
ListSeesExit ==
  \A j \in Jobs :
    goneAt[j] = "gone" /\ ~reused[j] /\ lister[j] = "done" => listed[j] = status[j]

-----------------------------------------------------------------------------
(* Liveness.  The commands are loops of finite reads: they keep running.   *)

LauncherRuns(j) == /\ Exists(j) /\ Launcher(j)
                   /\ DoctorBusy(j) => launch'[j] = launch[j]
                   /\ UNCHANGED obsVars
ChildRuns(j) == Child(j) /\ UNCHANGED obsVars

ObsFairness ==
  \A j \in Jobs : /\ WF_allVars(LauncherRuns(j))
                  /\ WF_allVars(ChildRuns(j))
                  /\ WF_allVars(Reader(j))
                  /\ WF_allVars(Doctor(j))
                  /\ WF_allVars(Lister(j))

ObsFairSpec == ObsSpec /\ ObsFairness

\* `cluster logs --follow` of a job that was spawned comes back, although the
\* launching terminal may be closed at any time (jobs.py 176-187, and 80-88).
FollowEnds == \A j \in Jobs : tail[j] = "read" /\ child[j] # "none" ~> tail[j] = "done"

\* doctor's wait ends with a verdict, even if only its deadline ends it.
DoctorAnswers == \A j \in Jobs : doctor[j] = "poll" ~> doctor[j] = "done"

-----------------------------------------------------------------------------
(* What a comment says and the code does not do.                           *)

\* A follower of a job that succeeded has been given the whole log.
FollowerSeesAll ==
  \A j \in Jobs :
    /\ tail[j] = "done" /\ follow[j] /\ told[j] = "succeeded"
    => pos[j] = log[j]
=============================================================================

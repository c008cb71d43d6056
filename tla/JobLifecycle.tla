---------------------------- MODULE JobLifecycle ----------------------------
(***************************************************************************)
(* What the job runner (core/jobs.py) promises about the end of a job,     *)
(* without its files, processes or database: the job's handler ends once,  *)
(* with one outcome; that outcome, and no other, is then published (the    *)
(* status file that `cluster logs`, `cluster list` and `doctor` read); and *)
(* it is recorded (the jobs row) only after it has been published.         *)
(* Nothing published or recorded is ever taken back.  JobRunner implements *)
(* this specification.                                                     *)
(***************************************************************************)
CONSTANT Jobs       \* the job ids handed out by start_job

VARIABLES outcome,      \* how the handler ended
          published,    \* the outcome readers of the status file are told
          recorded      \* the outcome the jobs row holds

lifecycleVars == <<outcome, published, recorded>>

Outcomes == {"succeeded", "failed"}

Init == /\ outcome = [j \in Jobs |-> "none"]
        /\ published = [j \in Jobs |-> "none"]
        /\ recorded = [j \in Jobs |-> "none"]

Decide(j, o) == /\ outcome[j] = "none"
                /\ outcome' = [outcome EXCEPT ![j] = o]
                /\ UNCHANGED <<published, recorded>>

Publish(j) == /\ outcome[j] # "none"
              /\ published[j] = "none"
              /\ published' = [published EXCEPT ![j] = outcome[j]]
              /\ UNCHANGED <<outcome, recorded>>

Record(j) == /\ published[j] # "none"
             /\ recorded[j] = "none"
             /\ recorded' = [recorded EXCEPT ![j] = published[j]]
             /\ UNCHANGED <<outcome, published>>

Next == \E j \in Jobs : \/ \E o \in Outcomes : Decide(j, o)
                        \/ Publish(j)
                        \/ Record(j)

Spec == Init /\ [][Next]_lifecycleVars
=============================================================================

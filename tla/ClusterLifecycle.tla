-------------------------- MODULE ClusterLifecycle --------------------------
(***************************************************************************)
(* What an install job promises to the owner of a cluster, without its     *)
(* steps, its files and the machines behind it: the status that            *)
(* `cluster list` shows leaves "underway" once, for one final status; it   *)
(* becomes "installed" only with the kubeconfig kept; it becomes "failed"  *)
(* by a job that has nothing left but to fail, and a job succeeds only on  *)
(* an installed cluster.  The status is committed before the job fails: a  *)
(* job that dies between the two leaves a failed cluster and never ends,   *)
(* and a job may fail without a word about the cluster, whose status then  *)
(* stays "underway".  InstallPipeline and AssistedService implement this   *)
(* specification.                                                          *)
(***************************************************************************)
CONSTANT Clusters

VARIABLES status,    \* what the clusters row tells, as far as it is final
          kept,      \* the kubeconfig has a local backup
          outcome    \* how the install job ended

lifecycleVars == <<status, kept, outcome>>

Init == /\ status = [c \in Clusters |-> "none"]
        /\ kept = [c \in Clusters |-> FALSE]
        /\ outcome = [c \in Clusters |-> "none"]

Underway(c) == status[c] = "underway" /\ outcome[c] = "none"

Begin(c) == /\ status[c] = "none"
            /\ status' = [status EXCEPT ![c] = "underway"]
            /\ UNCHANGED <<kept, outcome>>

Keep(c) == /\ Underway(c)
           /\ kept' = [kept EXCEPT ![c] = TRUE]
           /\ UNCHANGED <<status, outcome>>

MarkInstalled(c) == /\ Underway(c)
                    /\ kept[c]
                    /\ status' = [status EXCEPT ![c] = "installed"]
                    /\ UNCHANGED <<kept, outcome>>

Succeed(c) == /\ status[c] = "installed"
              /\ outcome[c] = "none"
              /\ outcome' = [outcome EXCEPT ![c] = "succeeded"]
              /\ UNCHANGED <<status, kept>>

MarkFailed(c) == /\ Underway(c)
                 /\ status' = [status EXCEPT ![c] = "failed"]
                 /\ UNCHANGED <<kept, outcome>>

Fail(c) == /\ status[c] \in {"underway", "failed"}
           /\ outcome[c] = "none"
           /\ outcome' = [outcome EXCEPT ![c] = "failed"]
           /\ UNCHANGED <<status, kept>>

Next == \E c \in Clusters :
          \/ Begin(c) \/ Keep(c) \/ MarkInstalled(c) \/ Succeed(c)
          \/ MarkFailed(c) \/ Fail(c)

Spec == Init /\ [][Next]_lifecycleVars
=============================================================================

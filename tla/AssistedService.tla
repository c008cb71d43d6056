-------------------------- MODULE AssistedService --------------------------
(***************************************************************************)
(* The Assisted Installer job (core/installers/assisted.py) and its REST   *)
(* client (core/drivers/assisted_api.py) against an assisted-service that  *)
(* works on its own: it registers hosts, becomes ready, installs, fails.   *)
(* The job only knows what its polls are answered.  An answer that is not  *)
(* 2xx, a cluster in status "error", an infra-env without its ISO and a    *)
(* deadline are AssistedApiErrors: the handler catches them, marks the     *)
(* cluster failed and then raises.  Any other exception (a lost            *)
(* connection, a locked database, a driver's error) leaves the status as   *)
(* it is, and so does the death of the job, which may come at any time.    *)
(*                                                                         *)
(* The access token of the SaaS backend is fetched once and lives about a  *)
(* quarter of an hour.  The self-hosted service is one per bastion: a job  *)
(* that finds it down deploys it, and the jobs of a bastion race for it.   *)
(***************************************************************************)
EXTENDS Integers

CONSTANTS Jobs,
          Saas,       \* the jobs with `backend: saas`; the others are self-hosted
          Lossy,      \* jobs that may lose a connection or meet another exception
          Refusing,   \* jobs the service may refuse, fail, or keep past a deadline
          Mortal,     \* jobs whose process may die
          Hosts       \* VMs per cluster

ASSUME JobsAssumption == /\ Saas \subseteq Jobs /\ Lossy \subseteq Jobs
                         /\ Refusing \subseteq Jobs /\ Mortal \subseteq Jobs
ASSUME HostsAssumption == Hosts \in Nat \ {0}

VARIABLES
  stage,     \* stage[j]: the next statement of the job
  told,      \* told[j]: the status column of the clusters row
  saved,     \* saved[j]: the kubeconfig has its backup and its row
  remote,    \* remote[j]: the cluster's status at the service
  hosts,     \* hosts[j]: VMs that were powered on with the discovery ISO
  token,     \* token[j]: the SaaS access token
  service    \* the self-hosted service of the bastion

vars == <<stage, told, saved, remote, hosts, token, service>>

\* Stages at which the job waits for the answer of a request
Requests == {"create", "infra", "iso", "ready", "install", "watch", "fetch"}
Over == {"succeeded", "raised", "killed"}
\* In the except clause: "except" is before set_cluster_status, "marked" after it
Stages == {"idle", "request", "token", "service", "deploy", "recheck", "hosts", "save", "finish",
           "return", "except", "marked"} \cup Requests \cup Over
Statuses == {"created", "building-request", "creating-cluster", "provisioning-vms",
             "waiting-for-ready", "installing", "installed", "failed"}
RemoteStatuses == {"none", "insufficient", "ready", "installing", "installed", "error", "cancelled"}

TypeOK ==
  /\ stage \in [Jobs -> Stages]
  /\ told \in [Jobs -> Statuses]
  /\ saved \in [Jobs -> BOOLEAN]
  /\ remote \in [Jobs -> RemoteStatuses]
  /\ hosts \in [Jobs -> 0 .. Hosts]
  /\ token \in [Jobs -> {"none", "valid", "expired"}]
  /\ service \in {"down", "starting", "up"}

Init ==
  /\ stage = [j \in Jobs |-> "idle"]
  /\ told = [j \in Jobs |-> "created"]
  /\ saved = [j \in Jobs |-> FALSE]
  /\ remote = [j \in Jobs |-> "none"]
  /\ hosts = [j \in Jobs |-> 0]
  /\ token = [j \in Jobs |-> "none"]
  /\ service \in {"down", "up"}

Goto(j, here, there) == stage[j] = here /\ stage' = [stage EXCEPT ![j] = there]
Tell(j, s) == told' = [told EXCEPT ![j] = s]
Raise(j, here) == Goto(j, here, "raised") /\ UNCHANGED told

-----------------------------------------------------------------------------
(* Before the service is asked for anything *)

Start(j) ==
  /\ Goto(j, "idle", "request")
  /\ Tell(j, "building-request")
  /\ UNCHANGED <<saved, remote, hosts, token, service>>

BuildRequest(j) ==
  /\ Goto(j, "request", IF j \in Saas THEN "token" ELSE "service")
  /\ UNCHANGED <<told, saved, remote, hosts, token, service>>

\* exchange_offline_token
FetchToken(j) ==
  /\ Goto(j, "token", "create")
  /\ Tell(j, "creating-cluster")
  /\ token' = [token EXCEPT ![j] = "valid"]
  /\ UNCHANGED <<saved, remote, hosts, service>>

\* _ensure_self_hosted_service
ServiceHealthy(j) ==
  /\ Goto(j, "service", "create") \/ Goto(j, "recheck", "create")
  /\ service = "up"
  /\ Tell(j, "creating-cluster")
  /\ UNCHANGED <<saved, remote, hosts, token, service>>

ServiceUnhealthy(j) ==
  /\ Goto(j, "service", "deploy")
  /\ service # "up"
  /\ UNCHANGED <<told, saved, remote, hosts, token, service>>

\* `podman play kube`
Deploy(j) ==
  /\ Goto(j, "deploy", "recheck")
  /\ service = "down"
  /\ service' = "starting"
  /\ UNCHANGED <<told, saved, remote, hosts, token>>

\* Bug: a deploy that fails is tried again.
DeployFailsAfterwards(j) ==
  /\ Raise(j, "recheck") /\ service # "up"
  /\ UNCHANGED <<saved, remote, hosts, token, service>>

\* Another job has made the pod, or the pod does not answer at once
DeployFails(j) ==
  /\ \/ Raise(j, "deploy") /\ service # "down"
     \/ Raise(j, "recheck") /\ service # "up"
  /\ UNCHANGED <<saved, remote, hosts, token, service>>

-----------------------------------------------------------------------------
(* The requests, when they are answered 2xx *)

Reaches(j) == IF j \in Saas THEN token[j] = "valid" ELSE service = "up"

CreateCluster(j) ==
  /\ Goto(j, "create", "infra")
  /\ Reaches(j)
  /\ remote' = [remote EXCEPT ![j] = "insufficient"]
  /\ UNCHANGED <<told, saved, hosts, token, service>>

CreateInfraEnv(j) ==
  /\ Goto(j, "infra", "iso")
  /\ Reaches(j)
  /\ UNCHANGED <<told, saved, remote, hosts, token, service>>

\* discovery_iso_url, when the infra-env has its `download_url`
DiscoveryIsoUrl(j) ==
  /\ Goto(j, "iso", "hosts")
  /\ Reaches(j)
  /\ Tell(j, "provisioning-vms")
  /\ UNCHANGED <<saved, remote, hosts, token, service>>

\* One VM of _provision_hosts
ProvisionHost(j) ==
  /\ stage[j] = "hosts"
  /\ hosts[j] < Hosts
  /\ hosts' = [hosts EXCEPT ![j] = @ + 1]
  /\ UNCHANGED <<stage, told, saved, remote, token, service>>

\* Bug: one host is missing.
HostsProvisionedButOne(j) ==
  /\ Goto(j, "hosts", "ready")
  /\ hosts[j] >= Hosts - 1
  /\ Tell(j, "waiting-for-ready")
  /\ UNCHANGED <<saved, remote, hosts, token, service>>

HostsProvisioned(j) ==
  /\ Goto(j, "hosts", "ready")
  /\ hosts[j] = Hosts
  /\ Tell(j, "waiting-for-ready")
  /\ UNCHANGED <<saved, remote, hosts, token, service>>

\* wait_for_status(["ready"])
SeesReady(j) ==
  /\ Goto(j, "ready", "install")
  /\ Reaches(j)
  /\ remote[j] = "ready"
  /\ Tell(j, "installing")
  /\ UNCHANGED <<saved, remote, hosts, token, service>>

InstallCluster(j) ==
  /\ Goto(j, "install", "watch")
  /\ Reaches(j)
  /\ remote[j] = "ready"
  /\ remote' = [remote EXCEPT ![j] = "installing"]
  /\ UNCHANGED <<told, saved, hosts, token, service>>

\* wait_for_status(["installed"])
SeesInstalled(j) ==
  /\ Goto(j, "watch", "fetch")
  /\ Reaches(j)
  /\ remote[j] = "installed"
  /\ UNCHANGED <<told, saved, remote, hosts, token, service>>

FetchKubeconfig(j) ==
  /\ Goto(j, "fetch", "save")
  /\ Reaches(j)
  /\ UNCHANGED <<told, saved, remote, hosts, token, service>>

\* record_local_backup
SaveKubeconfig(j) ==
  /\ Goto(j, "save", "finish")
  /\ saved' = [saved EXCEPT ![j] = TRUE]
  /\ UNCHANGED <<told, remote, hosts, token, service>>

\* Bug: the status is written while the kubeconfig is still to be saved.
FinishEarly(j) ==
  /\ Goto(j, "save", "return") \/ Goto(j, "finish", "return")
  /\ Tell(j, "installed")
  /\ UNCHANGED <<saved, remote, hosts, token, service>>

Finish(j) ==
  /\ Goto(j, "finish", "return")
  /\ Tell(j, "installed")
  /\ UNCHANGED <<saved, remote, hosts, token, service>>

Return(j) ==
  /\ Goto(j, "return", "succeeded")
  /\ UNCHANGED <<told, saved, remote, hosts, token, service>>

-----------------------------------------------------------------------------
(* What goes wrong *)

Unauthorised(j) == j \in Saas /\ token[j] = "expired"

\* wait_for_status raises on "error"; a cluster that was cancelled is polled on
ErrorSeen(j) == stage[j] \in {"ready", "watch"} /\ remote[j] = "error"

\* The service checks what it is asked
Conflict(j) == stage[j] = "install" /\ remote[j] # "ready"

\* The infra-env is asked for once, right after it was created: it may have no
\* `download_url` yet
NoIsoYet(j) == stage[j] = "iso" /\ Reaches(j)

AnswersError(j) ==
  \/ stage[j] \in Requests /\ (Unauthorised(j) \/ ErrorSeen(j) \/ Conflict(j) \/ NoIsoYet(j))
  \/ stage[j] \in Requests \cup {"token"} /\ j \in Refusing

\* Bug: the error is raised past the handler's except clause.
ApiErrorUncaught(j) ==
  /\ AnswersError(j)
  /\ Raise(j, stage[j])
  /\ UNCHANGED <<saved, remote, hosts, token, service>>

\* Bug: the cluster is marked failed, and the job goes on.
ApiErrorSwallowed(j) ==
  /\ AnswersError(j) /\ stage[j] # "token"
  /\ Tell(j, "failed")
  /\ UNCHANGED <<stage, saved, remote, hosts, token, service>>

\* AssistedApiError, caught in `run`
ApiError(j) ==
  /\ AnswersError(j)
  /\ Goto(j, stage[j], "except")
  /\ UNCHANGED <<told, saved, remote, hosts, token, service>>

\* The two statements of the except clause
MarkFailed(j) ==
  /\ Goto(j, "except", "marked")
  /\ Tell(j, "failed")
  /\ UNCHANGED <<saved, remote, hosts, token, service>>

RaiseFailed(j) ==
  /\ Raise(j, "marked")
  /\ UNCHANGED <<saved, remote, hosts, token, service>>

\* Bug: whatever is raised marks the cluster failed.
OtherErrorMarksFailed(j) ==
  /\ j \in Lossy
  /\ stage[j] \notin {"idle", "return", "marked"} \cup Over
  /\ stage' = [stage EXCEPT ![j] = "raised"]
  /\ Tell(j, "failed")
  /\ UNCHANGED <<saved, remote, hosts, token, service>>

\* Any other exception, before the statement has had its effect (the commit of
\* "failed" included) ...
OtherError(j) ==
  /\ j \in Lossy
  /\ stage[j] \notin {"idle", "return", "marked"} \cup Over
  /\ Raise(j, stage[j])
  /\ UNCHANGED <<saved, remote, hosts, token, service>>

\* ... or after: the answer of a request that was performed is lost, the VM was
\* started nevertheless
LateError(j) ==
  /\ j \in Lossy
  /\ \/ /\ stage[j] = "create"
        /\ remote' = [remote EXCEPT ![j] = "insufficient"]
        /\ UNCHANGED hosts
     \/ /\ stage[j] = "install"
        /\ remote[j] = "ready"
        /\ remote' = [remote EXCEPT ![j] = "installing"]
        /\ UNCHANGED hosts
     \/ /\ stage[j] = "hosts"
        /\ hosts[j] < Hosts
        /\ hosts' = [hosts EXCEPT ![j] = @ + 1]
        /\ UNCHANGED remote
  /\ Raise(j, stage[j])
  /\ UNCHANGED <<saved, token, service>>

\* Outside the program: the job's process dies
Killed(j) ==
  /\ j \in Mortal
  /\ stage[j] \notin {"idle"} \cup Over
  /\ stage' = [stage EXCEPT ![j] = "killed"]
  /\ UNCHANGED <<told, saved, remote, hosts, token, service>>

Work(j) ==
  \/ BuildRequest(j) \/ FetchToken(j)
  \/ ServiceHealthy(j) \/ ServiceUnhealthy(j) \/ Deploy(j) \/ DeployFails(j)
  \/ CreateCluster(j) \/ CreateInfraEnv(j) \/ DiscoveryIsoUrl(j)
  \/ ProvisionHost(j) \/ HostsProvisioned(j)
  \/ SeesReady(j) \/ InstallCluster(j) \/ SeesInstalled(j) \/ FetchKubeconfig(j)
  \/ SaveKubeconfig(j) \/ Finish(j) \/ Return(j)
  \/ ApiError(j) \/ MarkFailed(j) \/ RaiseFailed(j) \/ OtherError(j) \/ LateError(j)

-----------------------------------------------------------------------------
(* The other side, outside the program *)

\* All hosts have registered and pass their validations; they may fail them later
Validate(j) ==
  /\ \/ /\ remote[j] = "insufficient"
        /\ hosts[j] = Hosts
        /\ remote' = [remote EXCEPT ![j] = "ready"]
     \/ /\ remote[j] = "ready"
        /\ j \in Refusing
        /\ remote' = [remote EXCEPT ![j] = "insufficient"]
  /\ UNCHANGED <<stage, told, saved, hosts, token, service>>

\* The installation ends; it goes on whether the job polls or not
Complete(j) ==
  /\ remote[j] = "installing"
  /\ remote' = [remote EXCEPT ![j] = "installed"]
  /\ UNCHANGED <<stage, told, saved, hosts, token, service>>

Break(j) ==
  /\ j \in Refusing
  /\ \/ /\ remote[j] \in {"insufficient", "ready", "installing"}
        /\ remote' = [remote EXCEPT ![j] = "cancelled"]
     \/ /\ remote[j] = "installing"
        /\ remote' = [remote EXCEPT ![j] = "error"]
  /\ UNCHANGED <<stage, told, saved, hosts, token, service>>

TokenExpires(j) ==
  /\ token[j] = "valid"
  /\ token' = [token EXCEPT ![j] = "expired"]
  /\ UNCHANGED <<stage, told, saved, remote, hosts, service>>

ServiceComesUp ==
  /\ service = "starting"
  /\ service' = "up"
  /\ UNCHANGED <<stage, told, saved, remote, hosts, token>>

Next == \/ \E j \in Jobs :
             \/ Start(j) \/ Work(j) \/ Killed(j)
             \/ Validate(j) \/ Complete(j) \/ Break(j) \/ TokenExpires(j)
        \/ ServiceComesUp

Spec == Init /\ [][Next]_vars

-----------------------------------------------------------------------------
(* Properties *)

\* "installed" is told only of a cluster that the service has installed on all
\* its hosts and whose kubeconfig is kept, whatever was lost, refused or late on
\* the way (assisted.py 80-134).
InstalledIsInstalled ==
  \A j \in Jobs : told[j] = "installed" =>
    remote[j] = "installed" /\ hosts[j] = Hosts /\ saved[j]

\* A cluster that the service neither refuses nor fails nor delays is marked
\* "failed" for one of two reasons only: its token has expired during a wait, or
\* the infra-env had no ISO yet, and then nothing has been started for it.  No other
\* request is made too early to be accepted, and no other exception marks it
\* (assisted.py 80-137, assisted_api.py 46-50, 68-73, 82-104).
FailedHasCause ==
  \A j \in Jobs \ Refusing : told[j] = "failed" =>
    Unauthorised(j) \/ (remote[j] = "insufficient" /\ hosts[j] = 0)

\* A job that fails without marking its cluster has lost a connection, or has
\* not come to create a cluster at the service; only a job that is killed leaves
\* more behind (assisted.py 135-137, 142-161).
StrandedHasCause ==
  \A j \in Jobs \ Lossy : stage[j] = "raised" /\ told[j] # "failed" => remote[j] = "none"

\* The status never runs ahead of the machines: from "waiting-for-ready" on, all
\* hosts have been started, and installing begins with no host missing
\* (assisted.py 104-118, 164-202).
HostsBeforeWait ==
  \A j \in Jobs :
    /\ told[j] \in {"waiting-for-ready", "installing", "installed"} => hosts[j] = Hosts
    /\ remote[j] \in {"installing", "installed", "error"} =>
         hosts[j] = Hosts /\ told[j] \in {"installing", "installed", "failed"}

\* Jobs run on, the service works on, and it keeps no one past the deadlines but
\* those it refuses: for them the deadline itself is the step that comes.
Fairness ==
  /\ \A j \in Jobs : WF_vars(Work(j))
  /\ \A j \in Jobs \ Refusing : WF_vars(Validate(j)) /\ WF_vars(Complete(j))
  /\ WF_vars(ServiceComesUp)

FairSpec == Spec /\ Fairness

\* A job that was started ends, also when its cluster was cancelled at the
\* service, which no poll recognises (assisted_api.py 91-104).
JobEnds == \A j \in Jobs : stage[j] = "request" ~> stage[j] \in Over

\* What the owner of the cluster is told implements the abstract lifecycle.
toldStatus == [j \in Jobs |-> IF told[j] \in {"installed", "failed"} THEN told[j] ELSE
                              IF stage[j] = "idle" THEN "none" ELSE "underway"]
jobOutcome == [j \in Jobs |-> IF stage[j] = "raised" THEN "failed" ELSE
                              IF stage[j] = "succeeded" THEN "succeeded" ELSE "none"]

Lifecycle == INSTANCE ClusterLifecycle
               WITH Clusters <- Jobs, status <- toldStatus, kept <- saved, outcome <- jobOutcome

\* Final statuses are told once, "installed" with the kubeconfig kept and "failed"
\* before the job fails or dies, and nothing follows them (assisted.py 52, 121-139).
ImplementsClusterLifecycle == Lifecycle!Spec
=============================================================================

---------------------- MODULE AssistedService_proofs ----------------------
(***************************************************************************)
(* Theorems about AssistedService, for any jobs, backends, faults and      *)
(* numbers of hosts.  The invariant says what a job at a given statement   *)
(* knows of its cluster at the service; the service moves on between two   *)
(* polls, so each clause names only what the service cannot take back.     *)
(***************************************************************************)
EXTENDS AssistedService, TLAPS

Early == {"idle", "request", "token", "service", "deploy", "recheck"}
BeforeInstall == {"insufficient", "ready", "cancelled"}
AfterInstall == {"installing", "installed", "error", "cancelled"}

\* What the clusters row says at each statement, and after the job has failed
RowInv(j) ==
  /\ stage[j] = "idle" => told[j] = "created"
  /\ stage[j] \in Early \ {"idle"} => told[j] = "building-request"
  /\ stage[j] \in {"create", "infra", "iso"} => told[j] = "creating-cluster"
  /\ stage[j] = "hosts" => told[j] = "provisioning-vms"
  /\ stage[j] = "ready" => told[j] = "waiting-for-ready"
  /\ stage[j] \in {"install", "watch", "fetch", "save", "finish"} => told[j] = "installing"
  /\ stage[j] \in {"return", "succeeded"} => told[j] = "installed"
  /\ stage[j] = "except" => told[j] \notin {"created", "installed", "failed"}
  /\ stage[j] = "marked" => told[j] = "failed"
  /\ stage[j] = "raised" => told[j] \notin {"created", "installed"}
  /\ stage[j] = "killed" => told[j] # "created"
  /\ stage[j] \in {"finish", "return", "succeeded"} \/ told[j] = "installed" => saved[j]

\* What is true of the cluster at the service and of its hosts
RemoteInv(j) ==
  /\ stage[j] \in Early \cup {"create"} => remote[j] = "none"
  /\ stage[j] \in {"infra", "iso", "hosts", "ready", "install"} => remote[j] \in BeforeInstall
  /\ stage[j] \in Early \cup {"create", "infra", "iso"} => hosts[j] = 0
  /\ stage[j] = "watch" => remote[j] \in AfterInstall
  /\ stage[j] \in {"fetch", "save", "finish", "return", "succeeded"} => remote[j] = "installed"
  /\ told[j] = "installed" => remote[j] = "installed"
  /\ told[j] \in {"waiting-for-ready", "installing", "installed"} => hosts[j] = Hosts
  /\ remote[j] = "ready" => hosts[j] = Hosts
  /\ remote[j] \in {"installing", "installed", "error"} =>
       hosts[j] = Hosts /\ told[j] \in {"installing", "installed", "failed"}

\* Why the service has answered with an error to a job that it does not refuse
Cause(j) == Unauthorised(j) \/ (remote[j] = "insufficient" /\ hosts[j] = 0)

\* What the faults a job is spared exclude
FaultInv(j) ==
  /\ j \notin Refusing =>
       /\ remote[j] \notin {"error", "cancelled"}
       /\ stage[j] = "install" => remote[j] = "ready"
       /\ stage[j] = "except" \/ told[j] = "failed" => Cause(j)
  /\ j \notin Lossy /\ stage[j] = "raised" /\ told[j] # "failed" => remote[j] = "none"

IInv == TypeOK /\ \A j \in Jobs : RowInv(j) /\ RemoteInv(j) /\ FaultInv(j)

-----------------------------------------------------------------------------
\* The invariant holds when no job has started.
LEMMA InitIInv == Init => IInv
  BY HostsAssumption
  DEF Init, IInv, TypeOK, RowInv, RemoteInv, FaultInv, Stages, Statuses, RemoteStatuses,
      Requests, Over, Early

\* A statement of the job that succeeds keeps it (assisted.py 40-134, 142-161).
LEMMA WorkKeepsIInv ==
  ASSUME IInv, NEW i \in Jobs, Start(i) \/ Work(i) \/ Killed(i)
  PROVE  IInv'
<1> USE JobsAssumption, HostsAssumption
    DEF IInv, TypeOK, RowInv, RemoteInv, FaultInv, Stages, Statuses, RemoteStatuses, Requests,
        Over, Early, BeforeInstall, AfterInstall, Goto, Tell, Raise, Cause, Unauthorised
<1>1. CASE Start(i)             BY <1>1 DEF Start
<1>2. CASE BuildRequest(i)      BY <1>2 DEF BuildRequest
<1>3. CASE FetchToken(i)        BY <1>3 DEF FetchToken
<1>4. CASE ServiceHealthy(i)    BY <1>4 DEF ServiceHealthy
<1>5. CASE ServiceUnhealthy(i)  BY <1>5 DEF ServiceUnhealthy
<1>6. CASE Deploy(i)            BY <1>6 DEF Deploy
<1>7. CASE DeployFails(i)       BY <1>7 DEF DeployFails
<1>8. CASE CreateCluster(i)     BY <1>8 DEF CreateCluster
<1>9. CASE CreateInfraEnv(i)    BY <1>9 DEF CreateInfraEnv
<1>10. CASE ProvisionHost(i)    BY <1>10 DEF ProvisionHost
<1>11. CASE HostsProvisioned(i) BY <1>11 DEF HostsProvisioned
<1>12. CASE SeesReady(i)        BY <1>12 DEF SeesReady
<1>13. CASE InstallCluster(i)   BY <1>13 DEF InstallCluster
<1>14. CASE SeesInstalled(i)    BY <1>14 DEF SeesInstalled
<1>15. CASE FetchKubeconfig(i)  BY <1>15 DEF FetchKubeconfig
<1>16. CASE SaveKubeconfig(i)   BY <1>16 DEF SaveKubeconfig
<1>17. CASE Finish(i)           BY <1>17 DEF Finish
<1>18. CASE Return(i)           BY <1>18 DEF Return
<1>19. CASE ApiError(i)
  BY <1>19 DEF ApiError, AnswersError, ErrorSeen, Conflict, NoIsoYet
<1>20. CASE OtherError(i)       BY <1>20 DEF OtherError
<1>21. CASE LateError(i)        BY <1>21 DEF LateError
<1>22. CASE DiscoveryIsoUrl(i)  BY <1>22 DEF DiscoveryIsoUrl
<1>23. CASE MarkFailed(i)       BY <1>23 DEF MarkFailed
<1>24. CASE RaiseFailed(i)      BY <1>24 DEF RaiseFailed
<1>25. CASE Killed(i)           BY <1>25 DEF Killed
<1>26. QED
  BY <1>1, <1>2, <1>3, <1>4, <1>5, <1>6, <1>7, <1>8, <1>9, <1>10, <1>11, <1>12, <1>13, <1>14,
     <1>15, <1>16, <1>17, <1>18, <1>19, <1>20, <1>21, <1>22, <1>23, <1>24, <1>25
  DEF Work

\* The service, which works between any two statements, keeps it.
LEMMA ServiceKeepsIInv ==
  ASSUME IInv,
         \/ \E i \in Jobs : Validate(i) \/ Complete(i) \/ Break(i) \/ TokenExpires(i)
         \/ ServiceComesUp
  PROVE  IInv'
<1> USE JobsAssumption, HostsAssumption
    DEF IInv, TypeOK, RowInv, RemoteInv, FaultInv, Stages, Statuses, RemoteStatuses, Requests,
        Over, Early, BeforeInstall, AfterInstall, Cause, Unauthorised
<1>1. ASSUME NEW i \in Jobs, Validate(i) PROVE IInv'     BY <1>1 DEF Validate
<1>2. ASSUME NEW i \in Jobs, Complete(i) PROVE IInv'     BY <1>2 DEF Complete
<1>3. ASSUME NEW i \in Jobs, Break(i) PROVE IInv'        BY <1>3 DEF Break
<1>4. ASSUME NEW i \in Jobs, TokenExpires(i) PROVE IInv' BY <1>4 DEF TokenExpires
<1>5. CASE ServiceComesUp                                BY <1>5 DEF ServiceComesUp
<1>6. QED BY <1>1, <1>2, <1>3, <1>4, <1>5

\* The invariant is inductive.
LEMMA NextIInv == IInv /\ [Next]_vars => IInv'
<1> SUFFICES ASSUME IInv, [Next]_vars PROVE IInv'
    OBVIOUS
<1>1. CASE UNCHANGED vars
  BY <1>1 DEF vars, IInv, TypeOK, RowInv, RemoteInv, FaultInv, Cause, Unauthorised
<1>2. QED BY <1>1, WorkKeepsIInv, ServiceKeepsIInv DEF Next

\* The inductive invariant holds throughout.
THEOREM Inductive == Spec => []IInv
  BY InitIInv, NextIInv, PTL DEF Spec

\* Type correctness of every variable, for all constants.
THEOREM TypeCorrect == Spec => []TypeOK
<1>1. IInv => TypeOK BY DEF IInv
<1>2. QED BY Inductive, <1>1, PTL

\* "installed" is told only of a cluster that is installed on all its hosts and
\* whose kubeconfig is kept (assisted.py 80-134).
THEOREM Installed == Spec => []InstalledIsInstalled
<1>1. IInv => InstalledIsInstalled
  BY DEF IInv, RowInv, RemoteInv, InstalledIsInstalled
<1>2. QED BY Inductive, <1>1, PTL

\* Where the service refuses nothing, only an expired token, or an infra-env
\* without its ISO, marks a cluster failed (assisted.py 80-137).
THEOREM FailedCause == Spec => []FailedHasCause
<1>1. IInv => FailedHasCause BY DEF IInv, FaultInv, Cause, FailedHasCause
<1>2. QED BY Inductive, <1>1, PTL

\* Where nothing is lost, a job that fails silently has no cluster at the service
\* (assisted.py 135-137, 142-161).
THEOREM Stranded == Spec => []StrandedHasCause
<1>1. IInv => StrandedHasCause BY DEF IInv, FaultInv, StrandedHasCause
<1>2. QED BY Inductive, <1>1, PTL

\* The status never runs ahead of the machines (assisted.py 104-118, 164-202).
THEOREM HostsFirst == Spec => []HostsBeforeWait
<1>1. IInv => HostsBeforeWait BY DEF IInv, RemoteInv, HostsBeforeWait
<1>2. QED BY Inductive, <1>1, PTL

-----------------------------------------------------------------------------
\* Every statement of a job is a step of the abstract lifecycle, or none.
LEMMA WorkRefines ==
  ASSUME IInv, NEW i \in Jobs, Start(i) \/ Work(i) \/ Killed(i)
  PROVE  [Lifecycle!Next]_(Lifecycle!lifecycleVars)
<1> USE DEF IInv, TypeOK, toldStatus, jobOutcome, Lifecycle!lifecycleVars, Goto, Tell, Raise
<1> DEFINE Same == UNCHANGED <<toldStatus, saved, jobOutcome>>
<1>1. CASE Start(i)
  <2>1. Lifecycle!Begin(i)
    BY <1>1 DEF Start, RowInv, Stages, Requests, Over, Lifecycle!Begin
  <2>2. QED BY <2>1 DEF Lifecycle!Next
<1>2. CASE \/ BuildRequest(i) \/ FetchToken(i) \/ ServiceHealthy(i) \/ ServiceUnhealthy(i)
           \/ Deploy(i) \/ CreateCluster(i) \/ CreateInfraEnv(i) \/ DiscoveryIsoUrl(i)
           \/ ProvisionHost(i) \/ HostsProvisioned(i) \/ SeesReady(i) \/ InstallCluster(i)
           \/ SeesInstalled(i) \/ FetchKubeconfig(i) \/ ApiError(i) \/ Killed(i)
  <2>1. Same
    <3>1. CASE ApiError(i) \/ Killed(i)
      BY <3>1 DEF ApiError, AnswersError, Killed, RowInv, Requests, Over
    <3>2. CASE ~(ApiError(i) \/ Killed(i))
      BY <1>2, <3>2
      DEF BuildRequest, FetchToken, ServiceHealthy, ServiceUnhealthy, Deploy, CreateCluster,
          CreateInfraEnv, DiscoveryIsoUrl, ProvisionHost, HostsProvisioned, SeesReady,
          InstallCluster, SeesInstalled, FetchKubeconfig, RowInv, Early, Requests, Over
    <3>3. QED BY <3>1, <3>2
  <2>2. QED BY <2>1
<1>3. CASE SaveKubeconfig(i)
  <2>1. Lifecycle!Keep(i)
    BY <1>3 DEF SaveKubeconfig, RowInv, Lifecycle!Keep, Lifecycle!Underway
  <2>2. QED BY <2>1 DEF Lifecycle!Next
<1>4. CASE Finish(i)
  <2>1. Lifecycle!MarkInstalled(i)
    BY <1>4 DEF Finish, RowInv, Lifecycle!MarkInstalled, Lifecycle!Underway
  <2>2. QED BY <2>1 DEF Lifecycle!Next
<1>5. CASE Return(i)
  <2>1. Lifecycle!Succeed(i)
    BY <1>5 DEF Return, RowInv, Lifecycle!Succeed
  <2>2. QED BY <2>1 DEF Lifecycle!Next
<1>6. CASE MarkFailed(i)
  <2>1. Lifecycle!MarkFailed(i)
    BY <1>6 DEF MarkFailed, RowInv, Lifecycle!MarkFailed, Lifecycle!Underway
  <2>2. QED BY <2>1 DEF Lifecycle!Next
<1>7. CASE RaiseFailed(i) \/ DeployFails(i) \/ OtherError(i) \/ LateError(i)
  <2>1. /\ stage[i] \notin {"idle", "return"} \cup Over
        /\ stage' = [stage EXCEPT ![i] = "raised"]
        /\ told' = told /\ saved' = saved
    BY <1>7 DEF RaiseFailed, DeployFails, OtherError, LateError, Requests, Over
  <2>2. told[i] # "installed"
    BY <2>1 DEF RowInv, Stages, Early, Requests, Over
  <2>3. Lifecycle!Fail(i)
    BY <2>1, <2>2 DEF Stages, Over, Lifecycle!Fail
  <2>4. QED BY <2>3 DEF Lifecycle!Next
<1>8. QED BY <1>1, <1>2, <1>3, <1>4, <1>5, <1>6, <1>7 DEF Work

\* What the owner of the cluster is told implements the abstract lifecycle
\* (assisted.py 52, 121-139).
THEOREM Refinement == Spec => ImplementsClusterLifecycle
<1>1. Init => Lifecycle!Init
  BY DEF Init, Lifecycle!Init, toldStatus, jobOutcome
<1>2. IInv /\ [Next]_vars => [Lifecycle!Next]_(Lifecycle!lifecycleVars)
  <2> SUFFICES ASSUME IInv, [Next]_vars PROVE [Lifecycle!Next]_(Lifecycle!lifecycleVars)
      OBVIOUS
  <2>1. CASE \/ \E i \in Jobs : Validate(i) \/ Complete(i) \/ Break(i) \/ TokenExpires(i)
             \/ ServiceComesUp
             \/ UNCHANGED vars
    BY <2>1
    DEF Validate, Complete, Break, TokenExpires, ServiceComesUp, vars, toldStatus, jobOutcome,
        Lifecycle!lifecycleVars
  <2>2. QED BY <2>1, WorkRefines DEF Next
<1>3. QED BY Inductive, <1>1, <1>2, PTL DEF Spec, ImplementsClusterLifecycle, Lifecycle!Spec

-----------------------------------------------------------------------------
(* Nobody waits for what nobody will do.  This is JobEnds without its      *)
(* time: whenever a job has made a request, either it can be answered or   *)
(* the service still has to do its part, and can.                          *)

\* 2xx, with the status that a poll waits for, or an error
Answered(j) ==
  \/ Unauthorised(j) \/ ErrorSeen(j) \/ Conflict(j) \/ NoIsoYet(j) \/ j \in Refusing
  \/ /\ Reaches(j)
     /\ stage[j] = "ready" => remote[j] = "ready"
     /\ stage[j] = "watch" => remote[j] = "installed"

\* Validate or Complete is still to come: all hosts are on, or the cluster installs
ServiceWorks(j) ==
  \/ stage[j] = "ready" /\ remote[j] = "insufficient" /\ hosts[j] = Hosts
  \/ stage[j] = "watch" /\ remote[j] = "installing"

\* No job is left with a service that is down, with a token that nobody refuses, or
\* with hosts that do not come.
NeverStuck == \A j \in Jobs : stage[j] \in Requests => Answered(j) \/ ServiceWorks(j)

\* Why a request reaches the service, or is refused by it
ReachInv(j) ==
  /\ stage[j] = "token" => j \in Saas
  /\ stage[j] \in {"service", "deploy", "recheck"} => j \notin Saas
  /\ stage[j] \in Requests \cup {"hosts"} =>
       IF j \in Saas THEN token[j] \in {"valid", "expired"} ELSE service = "up"

\* A service that is up stays up, and a job that has a token keeps it (assisted.py
\* 71-82, 142-161).
LEMMA NextReachInv ==
  ASSUME IInv, [Next]_vars, \A j \in Jobs : ReachInv(j)
  PROVE  \A j \in Jobs : ReachInv(j)'
<1> SUFFICES ASSUME NEW j \in Jobs PROVE ReachInv(j)'
    OBVIOUS
<1> USE DEF IInv, TypeOK, ReachInv, Requests, Goto, Raise, Tell
<1>1. CASE UNCHANGED vars BY <1>1 DEF vars
<1>2. ASSUME NEW i \in Jobs, Start(i) \/ BuildRequest(i) \/ FetchToken(i) PROVE ReachInv(j)'
  BY <1>2 DEF Start, BuildRequest, FetchToken
<1>3. ASSUME NEW i \in Jobs, ServiceHealthy(i) \/ ServiceUnhealthy(i) PROVE ReachInv(j)'
  BY <1>3 DEF ServiceHealthy, ServiceUnhealthy
<1>4. ASSUME NEW i \in Jobs, Deploy(i) \/ DeployFails(i) PROVE ReachInv(j)'
  BY <1>4 DEF Deploy, DeployFails
<1>5. ASSUME NEW i \in Jobs,
             CreateCluster(i) \/ CreateInfraEnv(i) \/ DiscoveryIsoUrl(i) \/ ProvisionHost(i)
      PROVE  ReachInv(j)'
  BY <1>5 DEF CreateCluster, CreateInfraEnv, DiscoveryIsoUrl, ProvisionHost
<1>6. ASSUME NEW i \in Jobs, HostsProvisioned(i) \/ SeesReady(i) \/ InstallCluster(i)
      PROVE  ReachInv(j)'
  BY <1>6 DEF HostsProvisioned, SeesReady, InstallCluster
<1>7. ASSUME NEW i \in Jobs, SeesInstalled(i) \/ FetchKubeconfig(i) \/ SaveKubeconfig(i)
      PROVE  ReachInv(j)'
  BY <1>7 DEF SeesInstalled, FetchKubeconfig, SaveKubeconfig
<1>8. ASSUME NEW i \in Jobs, Finish(i) \/ Return(i) PROVE ReachInv(j)'
  BY <1>8 DEF Finish, Return
<1>9. ASSUME NEW i \in Jobs,
             \/ ApiError(i) \/ MarkFailed(i) \/ RaiseFailed(i)
             \/ OtherError(i) \/ LateError(i) \/ Killed(i)
      PROVE  ReachInv(j)'
  <2>1. /\ \E end \in {"except", "marked", "raised", "killed"} : stage' = [stage EXCEPT ![i] = end]
        /\ UNCHANGED <<token, service>>
    BY <1>9 DEF ApiError, MarkFailed, RaiseFailed, OtherError, LateError, Killed
  <2>2. QED BY <2>1
<1>10. ASSUME NEW i \in Jobs, Validate(i) \/ Complete(i) \/ Break(i) \/ TokenExpires(i)
       PROVE  ReachInv(j)'
  BY <1>10 DEF Validate, Complete, Break, TokenExpires
<1>11. CASE ServiceComesUp BY <1>11 DEF ServiceComesUp
<1>12. QED
  BY <1>1, <1>2, <1>3, <1>4, <1>5, <1>6, <1>7, <1>8, <1>9, <1>10, <1>11 DEF Next, Work

\* Every request of every job is answered, or waits for a service that works on its
\* cluster; whoever is refused or kept waiting longer has a deadline
\* (assisted.py 80-137, assisted_api.py 82-104).
THEOREM Unstuck == Spec => []NeverStuck
<1> DEFINE AllReach == \A j \in Jobs : ReachInv(j)
<1>1. Init => AllReach BY DEF Init, ReachInv, Requests
<1>2. IInv /\ AllReach /\ [Next]_vars => AllReach'
  BY NextReachInv
<1>3. ASSUME IInv, AllReach PROVE NeverStuck
  <2> SUFFICES ASSUME NEW j \in Jobs, stage[j] \in Requests, j \notin Refusing,
                      ~Unauthorised(j), ~Conflict(j)
               PROVE  Answered(j) \/ ServiceWorks(j)
      BY DEF NeverStuck, Answered
  <2>1. ReachInv(j) /\ RemoteInv(j) /\ RowInv(j) /\ FaultInv(j) BY <1>3 DEF IInv
  <2>2. Reaches(j) BY <2>1 DEF ReachInv, Reaches, Unauthorised
  <2>3. stage[j] = "ready" => remote[j] \in {"insufficient", "ready"} /\ hosts[j] = Hosts
    BY <2>1 DEF RemoteInv, RowInv, FaultInv, BeforeInstall
  <2>4. stage[j] = "watch" => remote[j] \in {"installing", "installed"}
    BY <2>1 DEF RemoteInv, FaultInv, AfterInstall
  <2>5. QED BY <2>2, <2>3, <2>4 DEF Answered, ServiceWorks
<1> HIDE DEF AllReach
<1>4. QED BY Inductive, <1>1, <1>2, <1>3, PTL DEF Spec
=============================================================================

-------------------------- MODULE InstallPipeline --------------------------
(***************************************************************************)
(* `cluster create` (cli/cluster.py) and the five job handlers it starts   *)
(* (core/installers).  A handler is a straight line of steps over the      *)
(* clusters row, the backups, the cluster_configs rows and the bastion; it *)
(* is written here as a program, and the actions below say what a kind of  *)
(* step does when it succeeds and when it fails.  Any step may raise: then *)
(* the job fails and the clusters row keeps the status it had.  Only a     *)
(* command that exits nonzero, an AssistedApiError and a failed preflight  *)
(* also mark the cluster: the status is committed first and the handler    *)
(* raises afterwards, and it may be killed before, between and after.      *)
(*                                                                         *)
(* Left out: what the wizard asks besides the name, the contents of the    *)
(* manifests, the virtual machines, the audit log.  A job is what          *)
(* JobRunner says it is; here it is running, or failing (the handler has   *)
(* seen the failure of its step), or marked (it has committed that), and   *)
(* in the end returned, raised or killed.                                  *)
(***************************************************************************)
EXTENDS Sequences, Integers, FiniteSets

CONSTANTS Creates,     \* runs of `cluster create`; one makes at most one cluster
          Names,       \* names users type
          Offered,     \* the methods users ask for
          NamedBy,     \* the methods whose catalog entry asks for `metadata.name`
          NoCluster    \* no management cluster

Methods == {"ipi", "agent", "upi", "assisted", "hcp"}

ASSUME MethodsAssumption == Offered \subseteq Methods /\ NamedBy \subseteq Methods
ASSUME NoClusterAssumption == NoCluster \notin Creates

VARIABLES
  cli,       \* cli[c]: the next part of `cluster create`
  refusal,   \* refusal[c]: why it exited without starting a job
  method,    \* method[c], name[c]: what the user asked for
  name,
  cstatus,   \* cstatus[c]: the status column of its clusters row, "none" if no row
  job,       \* job[c]: the install job
  pc,        \* pc[c]: the next step of the handler's program
  backups,   \* backups[c]: files with a local backup
  configs,   \* configs[c]: files with a cluster_configs row
  used,      \* used[c]: files handed to an installer or to assisted-service (ghost)
  mgmt       \* mgmt[c]: the management cluster an HCP job was given

cliVars == <<cli, refusal, method, name, mgmt>>
jobVars == <<job, pc>>
recordVars == <<backups, configs, used>>
vars == <<cliVars, cstatus, jobVars, recordVars>>

-----------------------------------------------------------------------------
(* The handlers' programs *)

Status(s)   == [do |-> "status", to |-> s, files |-> {}]
Try         == [do |-> "try", to |-> "", files |-> {}]
Preflight   == [do |-> "preflight", to |-> "", files |-> {}]
Backup(f)   == [do |-> "backup", to |-> "", files |-> {f}]
Record(fs)  == [do |-> "record", to |-> "", files |-> fs]
\* A command on the bastion that consumes the files fs; an API call likewise
Command(fs) == [do |-> "command", to |-> "", files |-> fs]
Api(fs)     == [do |-> "command", to |-> "", files |-> fs]

InstallConfig == "install-config.yaml"
AgentConfig == "agent-config.yaml"
ClusterRequest == "cluster-request.json"
InfraEnv == "infra-env"
HcpParams == "hcp-create-cluster-params.yaml"
Kubeconfig == "auth/kubeconfig"
\* What the handlers stage; the payload of the infra-env is made up in the call
Manifests == {InstallConfig, AgentConfig, ClusterRequest, HcpParams}
Files == Manifests \cup {InfraEnv, Kubeconfig}

\* Bug: only the row of the last manifest reaches the commit.
stage_records_last(files) ==
  <<Try>> \o [n \in 1 .. Len(files) |-> Backup(files[n])]
          \o <<Record({files[Len(files)]})>>

\* Each manifest is written, read back and saved; one commit records them all
build_and_stage_manifests(files) ==
  <<Try>> \o [n \in 1 .. Len(files) |-> Backup(files[n])]
          \o <<Record({files[n] : n \in 1 .. Len(files)})>>

\* Bug: the cluster is marked installed before its kubeconfig is saved.
ipi_install_early ==
  <<Try, Status("staging-manifests"), Try>>
  \o build_and_stage_manifests(<<InstallConfig>>)
  \o <<Try, Status("installing"), Command({InstallConfig}),
       Status("installed"), Backup(Kubeconfig)>>

ipi_install ==
  <<Try, Status("staging-manifests"), Try>>
  \o build_and_stage_manifests(<<InstallConfig>>)
  \o <<Try, Status("installing"), Command({InstallConfig}),
       Backup(Kubeconfig), Status("installed")>>

agent_install ==
  <<Try, Status("staging-manifests"), Try>>
  \o build_and_stage_manifests(<<InstallConfig, AgentConfig>>)
  \o <<Status("building-agent-iso"), Command({InstallConfig, AgentConfig}), Try,
       Status("installing"), Command({}), Command({}),
       Backup(Kubeconfig), Status("installed")>>

upi_install ==
  <<Try, Preflight, Status("staging-manifests"), Try>>
  \o build_and_stage_manifests(<<InstallConfig>>)
  \o <<Status("generating-ignition"), Command({InstallConfig}), Try,
       Status("provisioning-vms"), Try,
       Status("waiting-for-bootstrap"), Command({}), Try,
       Status("installing"), Command({}),
       Backup(Kubeconfig), Status("installed")>>

assisted_install ==
  <<Try, Status("building-request"), Try,
    Backup(ClusterRequest), Record({ClusterRequest}), Try, Api({}),
    Status("creating-cluster"), Api({ClusterRequest}), Api({InfraEnv}), Api({}),
    Status("provisioning-vms"), Try,
    Status("waiting-for-ready"), Api({}),
    Status("installing"), Api({}), Api({}), Api({}),
    Backup(Kubeconfig), Record({Kubeconfig}), Status("installed")>>

hcp_install ==
  <<Try, Status("staging-manifests"), Try>>
  \o build_and_stage_manifests(<<HcpParams>>)
  \o <<Try, Try, Status("installing"), Try, Command({HcpParams}), Command({}), Try,
       Backup(Kubeconfig), Status("installed")>>

\* JOB_TYPE_BY_METHOD, and the handler registered for the job type
Program ==
  [ipi |-> ipi_install, agent |-> agent_install, upi |-> upi_install,
   assisted |-> assisted_install, hcp |-> hcp_install]

\* The files whose contents the method installs from
Inputs(m) == UNION {Program[m][n].files :
                      n \in {k \in 1 .. Len(Program[m]) : Program[m][k].do = "command"}}

Statuses ==
  {"created", "preflight-failed", "failed"}
  \cup UNION {{Program[m][n].to : n \in 1 .. Len(Program[m])} \ {""} : m \in Methods}

\* The states of a job whose process is there
Alive == {"running", "failing", "marked"}

Refusals == {"none", "no-name", "name-taken", "no-candidate", "not-installed",
             "no-kubeconfig", "aborted"}

TypeOK ==
  /\ cli \in [Creates -> {"idle", "insert", "prompt", "select", "start", "done", "refused"}]
  /\ refusal \in [Creates -> Refusals]
  /\ method \in [Creates -> Methods \cup {"none"}]
  /\ name \in [Creates -> Names \cup {"none"}]
  /\ cstatus \in [Creates -> Statuses \cup {"none"}]
  /\ job \in [Creates -> {"none", "returned", "raised", "killed"} \cup Alive]
  /\ pc \in [Creates -> Nat]
  /\ \A c \in Creates :
       pc[c] \in 0 .. (IF method[c] = "none" THEN 0 ELSE Len(Program[method[c]]) + 1)
  /\ backups \in [Creates -> SUBSET Files]
  /\ configs \in [Creates -> SUBSET Files]
  /\ used \in [Creates -> SUBSET Files]
  /\ mgmt \in [Creates -> Creates \cup {NoCluster}]

Init ==
  /\ cli = [c \in Creates |-> "idle"]
  /\ refusal = [c \in Creates |-> "none"]
  /\ method = [c \in Creates |-> "none"]
  /\ name = [c \in Creates |-> "none"]
  /\ cstatus = [c \in Creates |-> "none"]
  /\ job = [c \in Creates |-> "none"]
  /\ pc = [c \in Creates |-> 0]
  /\ backups = [c \in Creates |-> {}]
  /\ configs = [c \in Creates |-> {}]
  /\ used = [c \in Creates |-> {}]
  /\ mgmt = [c \in Creates |-> NoCluster]

-----------------------------------------------------------------------------
(* `cluster create` *)

Refuse(c, why) == /\ cli' = [cli EXCEPT ![c] = "refused"]
                  /\ refusal' = [refusal EXCEPT ![c] = why]

\* collect_answers, and the test for `metadata.name` among the answers
Ask(c) ==
  /\ cli[c] = "idle"
  /\ \E m \in Offered, n \in Names :
       /\ method' = [method EXCEPT ![c] = m]
       /\ name' = [name EXCEPT ![c] = n]
       /\ IF m \in NamedBy THEN /\ cli' = [cli EXCEPT ![c] = "insert"]
                                /\ UNCHANGED refusal
                           ELSE Refuse(c, "no-name")
  /\ UNCHANGED <<mgmt, cstatus, jobVars, recordVars>>

\* Bug: only installed clusters keep their name.
NameTakenByInstalled(n) == \E d \in Creates : cstatus[d] = "installed" /\ name[d] = n

NameTaken(n) == \E d \in Creates : cstatus[d] # "none" /\ name[d] = n

\* The prompts that come after the row has been committed
AfterInsert(m) == CASE m \in {"upi", "assisted"} -> "prompt"
                    [] m = "hcp" -> "select"
                    [] OTHER -> "start"

InsertCluster(c) ==
  /\ cli[c] = "insert"
  /\ ~NameTaken(name[c])
  /\ cstatus' = [cstatus EXCEPT ![c] = "created"]
  /\ cli' = [cli EXCEPT ![c] = AfterInsert(method[c])]
  /\ UNCHANGED <<refusal, method, name, mgmt, jobVars, recordVars>>

\* IntegrityError: clusters.name is unique and no command deletes a row
InsertRefused(c) ==
  /\ cli[c] = "insert"
  /\ NameTaken(name[c])
  /\ Refuse(c, "name-taken")
  /\ UNCHANGED <<method, name, mgmt, cstatus, jobVars, recordVars>>

AnswerPrompts(c) ==
  /\ cli[c] = "prompt"
  /\ cli' = [cli EXCEPT ![c] = "start"]
  /\ UNCHANGED <<refusal, method, name, mgmt, cstatus, jobVars, recordVars>>

\* A prompt is interrupted or answered with no number, or start_job raises
Abort(c) ==
  /\ cli[c] \in {"prompt", "select", "start"}
  /\ Refuse(c, "aborted")
  /\ UNCHANGED <<method, name, mgmt, cstatus, jobVars, recordVars>>

\* Bug: the filter on the status is missing.
CandidatesOfAnyStatus == {d \in Creates : cstatus[d] # "none" /\ method[d] # "hcp"}

Candidates == {d \in Creates : cstatus[d] = "installed" /\ method[d] # "hcp"}

\* _select_management_cluster: the user names one, or it is the only candidate
SelectManagementCluster(c) ==
  /\ cli[c] = "select"
  /\ \E d \in Candidates :
       IF Kubeconfig \in configs[d]
         THEN /\ mgmt' = [mgmt EXCEPT ![c] = d]
              /\ cli' = [cli EXCEPT ![c] = "start"]
              /\ UNCHANGED refusal
         ELSE Refuse(c, "no-kubeconfig") /\ UNCHANGED mgmt
  /\ UNCHANGED <<method, name, cstatus, jobVars, recordVars>>

NoManagementCluster(c) ==
  /\ cli[c] = "select"
  /\ Refuse(c, IF Candidates = {} THEN "no-candidate" ELSE "not-installed")
  /\ UNCHANGED <<method, name, mgmt, cstatus, jobVars, recordVars>>

StartJob(c) ==
  /\ cli[c] = "start"
  /\ cli' = [cli EXCEPT ![c] = "done"]
  /\ job' = [job EXCEPT ![c] = "running"]
  /\ pc' = [pc EXCEPT ![c] = 1]
  /\ UNCHANGED <<refusal, method, name, mgmt, cstatus, recordVars>>

Create(c) ==
  \/ Ask(c) \/ InsertCluster(c) \/ InsertRefused(c) \/ AnswerPrompts(c) \/ Abort(c)
  \/ SelectManagementCluster(c) \/ NoManagementCluster(c) \/ StartJob(c)

-----------------------------------------------------------------------------
(* The install job *)

AtStep(c, kind) == /\ job[c] = "running"
                   /\ pc[c] <= Len(Program[method[c]])
                   /\ Program[method[c]][pc[c]].do = kind
StepOf(c) == Program[method[c]][pc[c]]
Advance(c) == pc' = [pc EXCEPT ![c] = @ + 1] /\ UNCHANGED job
Becomes(c, state) == job' = [job EXCEPT ![c] = state] /\ UNCHANGED pc

\* set_cluster_status
SetStatus(c) ==
  /\ AtStep(c, "status")
  /\ cstatus' = [cstatus EXCEPT ![c] = StepOf(c).to]
  /\ Advance(c)
  /\ UNCHANGED <<cliVars, recordVars>>

\* Loading the rows and the catalog, connecting, driving the platform, ...
Proceed(c) ==
  /\ AtStep(c, "try") \/ AtStep(c, "preflight")
  /\ Advance(c)
  /\ UNCHANGED <<cliVars, cstatus, recordVars>>

PreflightFails(c) ==
  /\ AtStep(c, "preflight")
  /\ Becomes(c, "failing")
  /\ UNCHANGED <<cliVars, cstatus, recordVars>>

\* backup_manifest, or the file of record_local_backup
BackUp(c) ==
  /\ AtStep(c, "backup")
  /\ backups' = [backups EXCEPT ![c] = @ \cup StepOf(c).files]
  /\ Advance(c)
  /\ UNCHANGED <<cliVars, cstatus, configs, used>>

\* The commit of the cluster_configs rows
CommitConfigs(c) ==
  /\ AtStep(c, "record")
  /\ configs' = [configs EXCEPT ![c] = @ \cup StepOf(c).files]
  /\ Advance(c)
  /\ UNCHANGED <<cliVars, cstatus, backups, used>>

\* The files are handed over whether the command then succeeds or not
HandOver(c) == used' = [used EXCEPT ![c] = @ \cup StepOf(c).files]

CommandSucceeds(c) ==
  /\ AtStep(c, "command")
  /\ HandOver(c)
  /\ Advance(c)
  /\ UNCHANGED <<cliVars, cstatus, backups, configs>>

\* The exit code is not zero, or assisted-service answers with an error
CommandFails(c) ==
  /\ AtStep(c, "command")
  /\ HandOver(c)
  /\ Becomes(c, "failing")
  /\ UNCHANGED <<cliVars, cstatus, backups, configs>>

FailedAt(c) == IF StepOf(c).do = "preflight" THEN "preflight-failed" ELSE "failed"

\* Bug: the cluster is marked failed and the handler goes on.
MarkFailedGoesOn(c) ==
  /\ job[c] = "failing"
  /\ cstatus' = [cstatus EXCEPT ![c] = FailedAt(c)]
  /\ job' = [job EXCEPT ![c] = "running"]
  /\ pc' = [pc EXCEPT ![c] = @ + 1]
  /\ UNCHANGED <<cliVars, recordVars>>

\* set_cluster_status, before the handler raises
MarkFailed(c) ==
  /\ job[c] = "failing"
  /\ cstatus' = [cstatus EXCEPT ![c] = FailedAt(c)]
  /\ Becomes(c, "marked")
  /\ UNCHANGED <<cliVars, recordVars>>

\* The exception of a marked job, or any other one: that of a step, of a command
\* whose connection is lost, of the commit of the status
Raises(c) ==
  /\ job[c] \in Alive
  /\ pc[c] <= Len(Program[method[c]])
  /\ Becomes(c, "raised")
  /\ UNCHANGED <<cliVars, cstatus, recordVars>>

Returns(c) ==
  /\ job[c] = "running"
  /\ pc[c] > Len(Program[method[c]])
  /\ Becomes(c, "returned")
  /\ UNCHANGED <<cliVars, cstatus, recordVars>>

Killed(c) ==
  /\ job[c] \in Alive
  /\ Becomes(c, "killed")
  /\ UNCHANGED <<cliVars, cstatus, recordVars>>

Install(c) ==
  \/ SetStatus(c) \/ Proceed(c) \/ PreflightFails(c) \/ BackUp(c) \/ CommitConfigs(c)
  \/ CommandSucceeds(c) \/ CommandFails(c) \/ MarkFailed(c)
  \/ Raises(c) \/ Returns(c) \/ Killed(c)

Next == \E c \in Creates : Create(c) \/ Install(c)

Spec == Init /\ [][Next]_vars

-----------------------------------------------------------------------------
(* Properties *)

\* None of the four manifests that the handlers stage is given to an installer or
\* to assisted-service before it has a local backup and a cluster_configs row, in
\* any handler and after any partial failure (base.py 76-125, and the order in each
\* handler).  The payload of the infra-env is none of them: see PayloadsBackedUp.
BackedUpBeforeUse ==
  \A c \in Creates : used[c] \cap Manifests \subseteq backups[c] \cap configs[c]

\* "installed" and "failed" mean what they say, whatever else happens to the job,
\* its death between the commit and the exception included: an installed cluster
\* went through every command of its method, has a kubeconfig backup, and its job
\* does not report a failure; a cluster is marked failed by a job that does nothing
\* after it and never succeeds; and a job that succeeds leaves it installed
\* (ipi.py 66-79, agent.py 66-94, upi.py 55-62 and 152-161, assisted.py 128-139,
\* hcp.py 120-141).
StatusTellsOutcome ==
  \A c \in Creates :
    /\ cstatus[c] = "installed" =>
         /\ Inputs(method[c]) \subseteq used[c]
         /\ Kubeconfig \in backups[c]
         /\ job[c] \in {"running", "returned", "killed"}
    /\ cstatus[c] \in {"failed", "preflight-failed"} => job[c] \in {"marked", "raised", "killed"}
    /\ job[c] = "returned" => cstatus[c] = "installed"

\* A hosted control plane is only ever put on a cluster that is installed, is no
\* hosted cluster itself and has the kubeconfig that is uploaded; the choice,
\* made in `cluster create`, still holds whenever the job uses it
\* (cluster.py 62-112 against hcp.py 64-88).
HostedOnInstalled ==
  \A c \in Creates : job[c] # "none" /\ method[c] = "hcp" =>
    \E d \in Creates \ {c} :
      /\ mgmt[c] = d
      /\ cstatus[d] = "installed"
      /\ method[d] # "hcp"
      /\ Kubeconfig \in backups[d] \cap configs[d]

\* Two jobs never share an install directory on the bastion, which is named after
\* the cluster (ipi.py 37, agent.py 41, upi.py 42, assisted.py 184, hcp.py 61).
DirectoriesApart ==
  \A c, d \in Creates :
    c # d /\ job[c] # "none" /\ job[d] # "none" => name[c] # name[d]

\* What the owner of a cluster is told implements the abstract lifecycle.  A job
\* that was killed never ends there: nothing is told after it.
lifecycleStatus ==
  [c \in Creates |-> IF cstatus[c] \in {"none", "installed", "failed"} THEN cstatus[c]
                     ELSE IF cstatus[c] = "preflight-failed" THEN "failed" ELSE "underway"]
lifecycleKept == [c \in Creates |-> Kubeconfig \in backups[c]]
lifecycleOutcome ==
  [c \in Creates |-> IF job[c] = "raised" THEN "failed"
                     ELSE IF job[c] = "returned" THEN "succeeded" ELSE "none"]

Lifecycle == INSTANCE ClusterLifecycle
               WITH Clusters <- Creates, status <- lifecycleStatus,
                    kept <- lifecycleKept, outcome <- lifecycleOutcome

\* All five handlers tell one final status, "installed" only with the kubeconfig
\* kept and "failed" only before they fail or die (ipi.py 32-79, agent.py 35-94,
\* upi.py 36-163, assisted.py 40-139, hcp.py 45-143).
ImplementsClusterLifecycle == Lifecycle!Spec

-----------------------------------------------------------------------------
(* What the documentation says and the code does not do. *)

\* An installed cluster has the cluster_configs row that `cluster kubeconfig`
\* and _select_management_cluster look for.
KubeconfigOnRecord ==
  \A c \in Creates : cstatus[c] = "installed" => Kubeconfig \in configs[c]

\* Whatever is sent to an installer or to assisted-service has a backup and a row
\* before: "always backed up locally before the install starts", the payloads of
\* the API included (README 189-192 against assisted.py 88-96).
PayloadsBackedUp ==
  \A c \in Creates : used[c] \subseteq backups[c] \cap configs[c]

=============================================================================

# ClusterBuild in TLA+

ClusterBuild is a command-line program that installs OpenShift clusters. It has
no server: a `cluster create` starts a detached process, the *job*, which drives
`openshift-install`, VMs and APIs for hours through an SSH connection to a
bastion. Everything that the commands know of one another is in files under
`~/.clusterbuild`, in a SQLite database, in the keyring or a Vault, and on the
bastion. This directory models how these pieces act on each other, checks the
models with TLC and proves what matters most about them with TLAPS.

Paths below are relative to `src/clusterbuild/` unless they say otherwise.

## The system

| component | state it keeps | operations | hard behaviour | status |
|---|---|---|---|---|
| Detached job runner, `core/jobs.py` | `jobs/<id>/{params.json,status,log,pid}`, the `jobs` row | `start_job` (the launcher), `run_job_in_process` (the child) | two processes without shared memory, death of either one, partial writes, an ORM update against another | modelled |
| Job observers, `tail_log`, `get_status`, `is_alive`, `cli/doctor.py`, `cluster logs`/`list` | positions and earlier reads | separate reads of log, status, pid, `/proc` | reads that the runner moves between, zombies, reused pids, a deadline | modelled |
| `cluster create` and the install handlers, `cli/cluster.py`, `core/installers/` | the `clusters` row, `cluster_configs`, backups, the install directory on the bastion | wizard, insert, prompts, choice of a management cluster, `start_job`; five straight-line handlers | rows that stay after an abort, a choice that is used much later; each step may raise; order of backup, row, use and status | partly |
| Bastion HTTP servers, `installers/upi.py`, `drivers/nutanix.py` | ports of the bastion | start, hand the URL over, stop | a port is shared by all jobs that use it, the start is not looked at, the stop is by port number | modelled |
| vSphere and Nutanix drivers, `core/drivers/` | VMs, images and templates | upload, import, clone, ignition, power, destroy, tasks | check-then-act on a template that all UPI jobs share, operations that outlive their job | modelled |
| Assisted service client, `drivers/assisted_api.py`, `installers/assisted.py` | a token, the remote cluster, the service's pod | create, poll, install, download, deploy | polling for hours, expiry of the token, a lost answer, a pod that two jobs deploy | modelled |
| Manifest builder, `core/manifest_builder.py` | none | `build_manifests` | sources, defaults, derived fields, CIDR check, secrets that come and go | modelled |
| Catalog, `core/catalog_loader.py`, `cli/catalog.py`, `core/version_watch.py` | bundled and override directories | load, update, compare versions | two files read one after the other, while git rewrites them, by two processes | partly |
| Secrets, `core/secrets.py`, `cli/credentials.py`, `core/cloud_credentials.py` | keyring, Vault, a file on the bastion | set, delete, stage | one key at a time, read-modify-write of a Vault secret, a file per account | modelled |
| Bastion registry, `cli/bastion.py` | `bastions` row, password | register, verify | password stored before the connection is tried, rows that go stale, columns that are written one by one | modelled |
| Checklist, audit log, CLI entry, packaging | text, log rows | rendering | none | not modelled |

What makes each one correct: the runner tells one outcome, the true one, and
tells it in the end; observers report nothing else; the handlers keep rows,
backups and statuses in the order that the documentation promises; a job talks
to its own files on the bastion, boots its VMs from whole images and configured,
and takes the bootstrap VM away when it is no longer needed; an Assisted cluster
that is called installed is; the builder gives each field the value its source
names; catalog, credentials and passwords that a job uses are those the user
chose, in one piece.

They interact as follows. `cluster create` reads the catalog, asks the user,
writes the `clusters` row and calls `start_job`; `start_job` writes the job's
files and row and spawns the child; the child calls the handler, whose output is
the log; the handler reads the catalog again, builds the manifests with secrets
of the keyring, writes `clusters.status` and `cluster_configs`, and acts on the
bastion, the platform and assisted-service; `cluster logs`, `list`, `status`,
`kubeconfig` and `doctor` read all of this at any time, and `catalog update`,
`credentials` and `bastion` commands change at any time what jobs read.

## Modules

| module | models | lines up with the code as |
|---|---|---|
| `JobLifecycle` | what the runner promises | abstract: decide, publish, record |
| `JobRunner` | `core/jobs.py`, `start_job` and `run_job_in_process` | one action per statement that another process can observe |
| `JobObservers` | `cluster logs`, `doctor`, `cluster list` | extends `JobRunner`; one action per read |
| `ClusterLifecycle` | what the owner of a cluster is told | abstract: begin, keep, mark installed, succeed, mark failed, fail |
| `InstallPipeline` | `cluster create` and the five handlers | a handler is a sequence of steps; one action per kind of step and outcome |
| `CreateBuild` | catalog, wizard, `build_manifests`, `catalog update` | two processes that read, git that writes; one action per file read, per prompt and per field source |
| `BastionHttp` | the HTTP servers | one action per statement that uses the port, and the clients outside |
| `VmProvisioning` | both drivers, and the VM steps of UPI, Agent and Assisted | one action per driver call and per operation of the platform |
| `AssistedService` | the Assisted handler, its client, the service | one action per request and its answer, and the service outside |
| `Credentials` | `credentials set`/`delete`, `stage()` of a job | one action per key that is stored, deleted or read, and per half of a file write |
| `BastionRegistry` | `bastion register`/`verify` | one action per statement that reads or writes password or row |
| `MC...` | | the sets, functions and symmetry that the configurations name |
| `..._proofs` | | the theorems about a module |

`InstallPipeline` has all five handlers from end to end and leaves out what goes
on inside a step; `CreateBuild` (loading and building), `BastionHttp` and
`VmProvisioning` (provisioning) and `AssistedService` (all of its handler) are
the insides of such steps, where a step is shared with other actors. Both
`InstallPipeline` and `AssistedService` implement `ClusterLifecycle`.

### JobRunner

`launch[j]` and `child[j]` name the next statement of the two processes.
`Path.write_text` is two actions, truncate and write (`TruncateStatus` and
`WriteRunning`, `TruncateFinal` and `WriteFinal`, `TruncatePid` and
`WritePid`), because a reader, and a failure, can come between them. An ORM
update is a load and a commit of the columns that were assigned (`LoadRow` and
`SavePid`, `ChildLoadsRow` and `CommitFinal`). The child is `none` before Popen,
a `zombie` after its exit while the launcher lives, and `gone` once it has been
reaped. `handler[j]` is a ghost: how the handler really ended. The contents of
a log line do not matter to any property; the log is its number of lines.

`Faults` names what may go wrong: the launcher dies at any statement, the child
fails before its `try`, is killed at any statement, fails to write the status
file, fails to commit, and a reaped pid is used again.

A `SystemExit` of a handler is not an `Exception`: `HandlerRaises` goes to the
`finally` clause with or without the message that `ReportFailure` adds.

### JobObservers

`tail[j]` is `tail_log` and the status line that `cluster logs` adds;
`doctor[j]` is the wait of the self test, which runs in the launching process,
so that the launcher does not exit (and does not reap) while it waits;
`lister[j]` is `is_alive` and the `get_status` after it. `openedAt`, `goneAt`
and `expired` are ghosts that remember what was true when a command began.
Observers change nothing of the runner's.

### InstallPipeline

A handler is written as a program: a sequence of records that say what the
step is (`status`, `try`, `preflight`, `backup`, `record`, `command`) and what
it handles. `Program[m]` is to be read next to the handler's body. A `try` is
any work that can only raise (loading rows, connecting, driving the platform).
A command or an API call may fail, and so may a pre-flight check: the job is then
"failing"; `MarkFailed` commits the status ("failed" or "preflight-failed"), which
leaves it "marked"; only then does it raise. It may be killed, or meet another
exception, before, between and after. Any step may raise, and then only the job
fails. `used[c]` is a ghost: the files that
were handed over. `build_and_stage_manifests` keeps its order, each backup
before the one commit of all rows. `hcp create cluster` takes the parameters
that the backed-up parameters file holds; it counts as its use. `Manifests` are the four
files that handlers stage; the payload of the infra-env is made up in the call that
sends it, and no handler backs it up: `BackedUpBeforeUse` is about the four, and the
run `payload_not_backed_up` about the disagreement with the README.

`NamedBy` is the set of methods whose catalog entry asks for `metadata.name`.
The bundled catalog's Assisted entries ask for `name`. The safety run takes all
methods: an entry in `~/.clusterbuild/catalog` overrides the bundled one, and
the Assisted handler could otherwise never be reached.

### CreateBuild

`process` says which of the two processes runs, the command or its job; both
find a file (`Find`: override or package) and then read it (`Read`), the matrix
before the entry. `catalog update` is git: `RewriteFile` takes a file away,
makes it anew and writes it, one file at a time, and may be interrupted.
`generation` is a ghost, odd while the override is between two trees; with it
`load[p]` remembers whether a reader was disturbed. Updates run while somebody
reads (`Reading`): between the reads nothing looks at the override, so an update
that runs then has the effect of one that runs at the next read.

An entry is a sequence of fields, in the order of its manifests; a field says
its source, whether it is required, has a default, is checked against the
profile's network, its transform, and, if derived, from which field. A field without a source
is taken from the answers but never asked for (`unsaid`); one whose source or
transform the builder does not know stops it. A value is known by
where it comes from, an answer by whether it is inside the profile's network,
outside or null. A transform gives a value another shape and keeps where it comes
from; that of the agent hosts looks at their addresses on the way, as `validate`
does (`Checked`). The profile is the set of the keys it has: without
`machine_network_cidr` nothing is checked, without `derived_blocks` there is nothing
to take. Two fields of one manifest whose paths are the same, or nested, would
overwrite each other in `_set_nested`, or be refused by it: no entry of the package
has such fields, and the model has none. The fields are constants of the model: the properties hold of
all catalogs that fulfil the assumptions, not of the bundled one alone.

### BastionHttp

`server[p]` is the transfer whose directory port `p` serves: 8080 for ignition,
the profile's `bastion_http_port` for images (`ImagePort`), which may be the same. `stage[t]` is the
next statement of the job that makes transfer `t`. A start on a port that is
taken changes nothing, and nobody looks. The clients are outside the program
and modelled from how it uses them: a bootstrap VM asks until it is answered,
an image task of Prism Central fails when it is refused. The names of the files
do not depend on the job, so a client takes what the server that answers has.
`openshift-install wait-for bootstrap-complete` succeeds only for a VM that
runs its own cluster's bootstrap, and fails if there is none (`NeverBoots`); an
image task succeeds with any file.

Three constants say which transfers may meet which trouble: `Overlapping` ones
may begin while another has the port; in `MayError` ones a call or a command may
fail, where the `finally` clause still helps in the Nutanix driver; `Exposed` ones
may fail where no `finally` helps, between the start of the server and the
`try`, or in the `pkill`, whose exception is swallowed. The properties say what
all the others keep, and whose trouble it is when they do not.

### VmProvisioning

`stage[j]` is the job's statement; entering a driver call puts an operation
into `call[j]`, which the platform performs, refuses or breaks, and answers. A
job that gives up (`GiveUp`: timeout, poll that is not answered, lost
connection) leaves its operation behind, which may still be performed.
`image[j]` is the template or ISO that job `j` makes ("lost" when a broken import
has left nothing), `source` and `torn` are
ghosts of a VM's disk. UPI jobs share the template's name: `Found` is every
image of that name, finished or not, which is what `template_exists` and the
image list see. vSphere gives a name once and marks a template after its import;
Nutanix gives names again, takes the first of a list, and answers a deletion
before it is done ("going"). `Overlapping` jobs may
look for the template while others make it, `Hasty` jobs may be refused,
interrupted, held or out of time at any statement. VMs are named
after their cluster, so two jobs have none of the same name (`DirectoriesApart`).

The first VM of a UPI job is the bootstrap VM, the next `Masters` ones are the
control plane, the others workers. `openshift-install wait-for bootstrap-complete`
looks at the control plane only, so `BootstrapCompletes` asks that the bootstrap
VM and one VM of the control plane have whole disks (`Serves`) and nothing of the workers: a
UPI job may go on with workers that cannot boot.

Driver calls have timeouts; work on the bastion has not. The download of the image
(`fetch`), the commands between a driver's calls and the wait for the bootstrap are
run by `run_remote_streaming` or over SFTP without a limit, so that a connection that
stalls there holds the job for ever: `Untimed` says where, `Stall` does it, and
`stalled` remembers whom. `ProvisioningEnds` excuses the jobs that are held
themselves, and none that share a template with them.

### AssistedService

`stage[j]` is the job's statement, `told[j]` the `clusters.status` it has
written, `saved[j]` whether the kubeconfig has backup and row. The other side
is `remote[j]`, `hosts[j]`, `token[j]` and `service`, the self-hosted pod, of
which a bastion has one. The service works on its own: hosts validate and fail
to again, the installation completes while nobody polls, a cluster errors or is
cancelled, a token expires. `Saas` jobs have a token, the others share the pod.
`Refusing` jobs may be answered with any error at any request, or pass a
deadline: `ApiError` then leads to the `except` clause, `MarkFailed` commits the
status there, `RaiseFailed` ends the job. The infra-env may have no ISO yet when it
is asked for one (`NoIsoYet`), which is such an error for any job. `Mortal` jobs may be killed at any
statement, between status and exception too. `Lossy` jobs may meet any other exception, before or after what they
asked for was done (`LateError`). A cluster in "cancelled" is polled until the
deadline, as the code knows "error" only.

### Credentials

The keyring and the Vault hold, per key, which `set` stored the value.
`StoreKey` follows a prompt, so that a failure, or another command, comes
between two keys. The Vault's secret is read (`ReadVault`, which takes a failed
read for an empty secret), changed and written back (`WriteVault`). A job reads
key by key, then empties and fills the credentials file in the home directory
of the bastion's user (`OpenFile`, `FillFile`); the installer reads it when
it gets to it (`Install`). `home` is any assignment of jobs to accounts.

### BastionRegistry

One bastion: its row and the password of its host. `local[c]` are a command's
variables, among them the row it has found. User, port and tools are columns of
their own: of a row that is there, a commit writes each of them whose value
differs from what was found (`Column`), as the ORM does it, so that two registers
that overlap may leave the user of one with the port of the other (`RowWith`). `by`
and `toolsBy` in the row are ghosts: the commands that the row, and its tools, stand for; `key` and `used` what
they were in with; `by` in the password who put it there. `overlapped` is a ghost
as well: the commands that really ran while another `register` did. `Overlapping` only
says which may. A password is named by the account it
opens, and accounts may also open by agent or by a key file that only the
registering command is given.

## Runs

Passing:

| run | instance | shows |
|---|---|---|
| `job_safety` | 1 job, 1 line, all faults, all commands | `TypeOK`; the file and the row agree with the handler (`OutcomeAgreement`); a child finds what it needs (`ChildFindsItsJob`); no outcome is taken back (`OutcomeKept`); `ImplementsLifecycle`; what `logs`, `doctor` and `list` say was so (`ReportsAreTrue`); after "succeeded" the log that was read is complete, but for the traceback of a failed commit (`ReadAfterSuccessIsComplete`); a child that has gone is seen to be (`ListSeesExit`) |
| `observers_live` | 1 job, 1 line, the launcher may die, logs and doctor | `JobSettles`, `FollowEnds`, `DoctorAnswers`: each ends, with the exceptions that they name |
| `pipeline_safety` | 2 creates, 2 names, 5 methods | `BackedUpBeforeUse`, `StatusTellsOutcome`, `HostedOnInstalled`, `DirectoriesApart`, `ImplementsClusterLifecycle` |
| `create_build` | 4 trees, of which one lacks the entry, one has it as a preview and one the version, and one has fields the builder does not know; 1 update | what is asked suffices (`AskedSuffices`); answers and derived fields are in the manifests (`ManifestsAsAsked`); nothing that was refused is (`NothingWrongBuilt`); previews are confirmed (`PreviewConfirmed`); matrix and entry are of one tree (`OneTree`) |
| `http_ports` | 3 ignition transfers, of which one may overlap the others and fail; 2 overlapping image transfers, one may fail inside the `try`, one outside; an image transfer on the ignition's port | whose file a bootstrap VM gets (`OwnFile`); `ImagePortFreed`; `StopAfterAllFetched`; `TransferEnds` |
| `vms` | any 2 of 2 UPI jobs with a common template and 1 Agent job; one UPI job may overlap and fail or be held anywhere; 3 VMs each (bootstrap, control plane, worker), both platforms | VMs boot from whole images (`WholeDisks`), configured (`BootsConfigured`); the bootstrap VM serves the control plane before it is taken away (`BootstrapServesAll`); who is not held ends (`ProvisioningEnds`) |
| `assisted` | 2 self-hosted jobs, one lossy, one refused and mortal, and 1 SaaS job; 2 hosts each | `InstalledIsInstalled`; only an expired token marks a cluster failed that nobody refused (`FailedHasCause`); only a lossy job leaves a cluster behind unmarked (`StrandedHasCause`); `HostsBeforeWait`; `JobEnds`; `ImplementsClusterLifecycle` |
| `credentials` | 3 `set`s, 1 `delete`, 2 jobs, 2 accounts; one `set` and one job may overlap others, one of each may fail | an installer's credentials are of one `set` (`OneSet`) and its own job's (`OwnCredentials`); `VaultKeepsOthers` |
| `registry` | 3 `register`s, 1 `verify`, 2 users and 2 ports; one `register` may overlap the others and the `verify` | a registered bastion stays reachable (`StaysReachable`); tools and account belong together (`ToolsOfTheAccount`) |

Many of these properties are of the form "this holds, or one of these has
happened": the exceptions are what the code does not guard against. They are
part of the statement because they say exactly how far a guarantee goes, and a
change of the code that adds an exception violates the property.

The file says "succeeded" before the row is committed. When the commit fails, its
traceback is one line that comes behind the success; `ReadAfterSuccessIsComplete`
says that it is the only one, and that the row then does not say "succeeded".

Violated, each a disagreement between the code and what its documentation and
comments say of it:

| run | what happens |
|---|---|
| `follow_loses_lines` | the last lines of a job can be missing from `--follow` |
| `kubeconfig_missing` | no `cluster_configs` row for the kubeconfig except with Assisted, so `cluster kubeconfig` does not find it and HCP refuses the cluster |
| `payload_not_backed_up` | the infra-env payload goes to assisted-service without backup or row |

The models also contain these outcomes, which no run is devoted to:

- The runner: a child that fails while it imports the handlers or reads
  `params.json` (`BootFails`) or is killed leaves a dead job "running", since only the
  `try` of `run_job_in_process` reports. A launcher that dies before Popen leaves
  `--follow` waiting for ever; `FollowEnds` presupposes the child. A zombie that is
  reaped between `os.kill(pid, 0)` and the look into `/proc` counts as alive
  (`CheckZombie`). The wait of doctor may end on the empty status between truncate and write.
- `cluster create`: the retry after a failed pre-flight check is refused, the
  name being taken by the first row (`InsertRefused`). Assisted is refused with
  the bundled catalog, which asks for `name` (`Ask`). A job that is killed after it
  has marked its cluster failed leaves that status, and a job file that says "running".
- The bastion: a UPI job that fails leaves its server, and its VM asking, so that
  the next job's VM may boot its file (`Fetch`). Overlapping image transfers may register
  one job's file under the other's name; overlapping UPI jobs stop each other's server (`Stop`).
- The platform: a template whose import was interrupted, or is not yet done, is
  taken for a template (`TemplateFound`, `Clone`). The bootstrap VM is destroyed although
  a worker cannot boot (`BootstrapCompletes`). A download that stalls holds its job for
  ever (`Stall`).
- Assisted: the SaaS token is fetched once and expires during the waits, the
  installation goes on, and the cluster is marked failed (`ApiError`). A lost answer
  leaves a cluster at the service that no row tells of (`LateError`).
- Credentials: a job never looks into the Vault. `delete` leaves the keys of the
  cloud platforms, although `cli/credentials.py:99` says "Remove stored keyring credentials
  for a platform". A Vault read that fails
  drops the platform's other keys at the write. A job between two prompts of a
  `set` signs in with half of each.
- The registry: a registration that fails has already replaced or removed the
  password of the one that succeeded. Two that overlap may leave a row, user of
  the one and port of the other, that nobody has been in with (`NewRow`).
- The catalog: the job reads it anew; after an update the build may lack answers
  or use another entry, without a preview being confirmed.

### Bounds

Jobs do not share files or rows of the runner: one job shows every interleaving of a
launcher, a child and the commands. `MaxLines` bounds the lines a handler prints; the
report of a failure and the traceback may add two more. One is enough to have
lines before, between and after the reads of a follower.

In `InstallPipeline` two creates are the least with which a name can be taken, a
directory shared, and a management cluster chosen, become installed, or be in the making;
one create makes at most one cluster, and the programs are run to their ends.

In `CreateBuild` one update suffices, as it can come between any two reads, be
interrupted in any state of the two files, and leave the override of an earlier
one behind (`Init`); a job's reads do not depend on other jobs. `MCCreateBuild`'s
entries have a field of every source, required and not, with and without default.

Two transfers per port are the least that collide; the third ignition transfer is
the troublesome one between two that are not. The same holds of the UPI jobs, of
which two share a template; `MaxJobs` lets any two of the three jobs begin, so
that every pair of kinds is there (all that jobs share is the template). Three VMs of a job are one of each kind.
Two self-hosted jobs race for one pod. Three `set`s are one that fails, one that
overlaps and one that does neither. `HomesAlike` exchanges the two accounts, which nothing
tells apart. Three `register`s are two in turn (`InTurn` exchanges them) and one that
overlaps either; the `verify` waits its turn, so that what it writes is
excused only when the third `register` runs beside it. Of the four accounts one has a key file and
no password, two have a password.

Commands and jobs are run once each; a second run is another command. Sleeps and
poll intervals are stuttering: a deadline may pass at any time, which covers every
ratio of the real times.

What the theorems below state does not depend on these bounds. Deadlock checking is
off: all the processes modelled here end.

### Fairness

`JobRunner` and `JobObservers` ask for weak fairness of each process as a
whole: the launcher while it lives, the child, and each reading loop. They are
operating-system processes that are always runnable. That a handler ends is an
assumption there: its polls have time limits (`wait_for_status`, `wait_task`,
`openshift-install wait-for`), a connection to the bastion that stalls has none
(see `Stall`), and such a job never settles. No fairness is asked of faults,
of starting a job, or of opening a log.

In `BastionHttp` the jobs are fair for the same reason, and so are the clients:
a VM that was booted asks its URL, and Prism Central runs its tasks. In
`VmProvisioning` the jobs are fair until they are held (`stalled`), and the platform is to those jobs that are
not `Hasty`: for a hasty one that waits for a driver call the step that must come is
`GiveUp`, the timeout of the call; nothing must come where it has none. In `AssistedService` the service is fair to the jobs that it does not
refuse; for those it does, `ApiError` stands for the deadline, so that
`JobEnds` holds of a cluster that was cancelled, too. A connection that stalls
while the job makes its hosts is left to `VmProvisioning`; a `Mortal` job may die and need not. A pod that was started comes
up; a job does not wait for it longer than its one check.

## Proofs

Every theorem is about all values of the constants, from the assumptions that
the module states. Each proof module defines an inductive invariant `IInv`,
proves it (`Inductive`) and derives the properties from it; type correctness
(`TypeCorrect`) is part of it. TLC has checked the invariants on the
instances of the runs before they were proved. None of the properties is inductive by
itself: they do not say how far each process has come.

`JobRunner_proofs` (`TypeCorrect`, `Agreement`, `ChildFinds`, `Kept`,
`Settled`, `Refinement`), from two assumptions: `Faults` are faults, `MaxLines` is a number. `LaunchInv` says
what `start_job` has created at each of its statements, and that the child does not
exist before Popen, which is why the launcher's write of "running" cannot
overwrite an outcome. `ChildInv` says what `final_status`, the file and the
row hold at each statement of the child; its core is that the file is not terminal
before the child writes it, that it equals `final_status` when the row is
committed, and that `final_status` agrees with the handler's end once there is
one. `LogInv` bounds the lines that can still come. The refinement maps the
handler's end to `Decide`, the write of the file to `Publish` and the commit to
`Record`; every other step stutters. `Settled` is the safety half of `JobSettles`: a child
that is dead has published an outcome and recorded it, unless a boot, a disk, a kill
or (for the row) the database stopped it; `EndInv` says so from the `finally` clause on.

The same module has the theorems about `JobObservers` (`WatchersOnlyRead`,
`WatchersTypeCorrect`, `TrueReports`, `CompleteAfterSuccess`, `SeesExit`), for any set of
commands. `WatchersOnlyRead` is `ObsSpec => Spec`: all theorems about the runner hold
while it is watched, and its `IInv` can be used. What a command holds is an earlier
reading of a file that has moved on since, so the proofs rest on one lemma about the runner, `RunnerMoves`: a
terminal text stays, a log never shrinks, a child that was reaped stays so and
its file stands still. Upon it `SuccessInv` says what may
still be logged behind a success, `TailInv` that `cluster logs` is never ahead of the log
and at most that traceback behind it, `ReportInv` that a terminal text that was reported
is the one in the file, and `ListInv` what `cluster list` finds of a child that is gone.

`InstallPipeline_proofs` (`TypeCorrect`, `BackedUp`, `Outcome`, `OnInstalled`,
`Apart`, `Refinement`), for any number of creates and names. First about the
programs: `Sound(P)` says that each command's files are backed up and recorded by
earlier steps (the infra-env's payload, which is in no such step, apart), that "installed" is told last, after a backup of the kubeconfig,
and that no earlier step tells a final status. The lemmas `Parts`, `Assemble`, `OneStaged` and
`TwoStaged` reduce this to the parts of a program; `Programs` states it for
all five. Then about the state: what is backed up, recorded and used is what the steps
before `pc` do (`JobInv`), a job that has failed or ended has told its status or not
(`DoneInv`), a row exists from the insert on (`CliInv`), rows have different
names (`NamesApart`), and a management cluster stays installed, as its program
has no step left (`HostInv`).

`CreateBuild_proofs` (`TypeCorrect`, `OneTreeRead`, `Confirmed`, `Suffices`,
`AsAsked`, `NothingWrong`), for all catalogs whose entries have fields of the named
sources, each field once and derived fields after what they are derived from.
`CatalogInv` says that the override is one tree whenever `generation` is even, and
what is still to be written when it is not; `ReadInv` that a reader that has
been undisturbed so far has read from the tree that is there (`Quiet`); `StageInv` what
has been read, confirmed and asked at each stage; `BuildInv` what the fields before `field`
are; `MissingInv` why an answer is missing.

`BastionHttp_proofs` (`TypeCorrect`, `Own`, `PortFreed`, `StopsLate`), for any
set of transfers, of image ports and of troubles. `Matching` puts the transfers of a port on
that port, `ImageServerInv` says which stages of an image transfer leave it a server,
`IgnitionInv` that the ignition's port is used by one job at a time until some overlap
(`Alone`), and that the server stays while the VM it was started for may ask (`ServedInv`).

`VmProvisioning_proofs` (`TypeCorrect`, `Whole`, `BootstrapServes`, `Boots`), for
any number of jobs, control-plane VMs and workers. `CallInv` says what a pending operation says of its
job's statement, also after the job has given up; `NodeInv` how far the VMs are at each
statement; `ShareInv` that jobs which neither overlap nor hurry make the template once, and whole,
unless an import has left nothing behind (`Vanished`).

`AssistedService_proofs` (`TypeCorrect`, `Installed`, `FailedCause`, `Stranded`,
`HostsFirst`, `Refinement`, `Unstuck`). `RowInv` relates statement, status, hosts and
kubeconfig; `RemoteInv` what the service can have come to by itself at each
statement; `FaultInv` why a job was given up. The steps of the service stutter in
`ClusterLifecycle`, those of the job that write a final status, keep the kubeconfig or end
it do not. `Unstuck` is the safety half of `JobEnds`: a request that a job has made
is answered or refused, or the service has something to do for it and can. `ReachInv` is
what it needs: whoever talks to a pod has found it up, and pods stay up; a SaaS
job has a token, and one that has expired is refused at once.

`Credentials_proofs` (`TypeCorrect`, `Own`, `Keeps`, `One`). `StageInv` says which key
a command is at, `Exclusive` that two run at once only if one may overlap,
`SeenInv` that a `set` that is alone and lucky has seen the Vault as it is, `FileInv`
that a file holds nothing, or all that a job of this account has read. `One` is about what
the keyring holds between the keys of a `set`. As long as nothing is excused (`Excused`), one
command or job runs at a time (`Alone`). Then the fields that a running `set` has come
past are its own, and all the others are of one earlier `set`, or missing
(`KeyringInv`); a job that reads finds them as they stay (`ReadInv`); and what is staged, in
a file or used is whole and of one `set` (`StagedInv`). Once something is excused
it stays so (`ExcusedStays`), and only `StagedInv` is left to prove.

`BastionRegistry_proofs` (`TypeCorrect`, `RowReached`, `Reachable`, `Tools`), for any
commands, users and ports. `CommandInv` and `FoundInv` say how far what a command was in with, and
the row it has found, may be behind the password and the row of the moment: not at
all, unless the command ran while another `register` did; `Exclusive` that whoever did
is in `overlapped`. `RowInv` says who a row stands for: a row that is put together from the columns
of several stands for all of them, and then all of them overlapped.

Every invariant and every action property that the passing runs check is stated
by a theorem. Model-checked only are the liveness properties (`JobSettles`, `FollowEnds`,
`DoctorAnswers`, `TransferEnds`, `ProvisioningEnds`, `JobEnds`): they depend on weak fairness,
that is on ENABLED, which TLAPS does not handle. Of two of them the part that is
safety is proved (`Settled`, `Unstuck`). Besides most type invariants,
`EndsSettled`, `NeverStuck` and `RowWasReached` (a bastion's row is an account that was reached, or a mixture of two
that overlapped) are stated by theorems and by no run. The specifications' fairness is of no use
to these proofs: they are about `Spec` and `ObsSpec`.

## Not modelled

- `core/preflight.py`: the checks resolve names and try ports, and change nothing. `InstallPipeline` has their two outcomes (`Proceed`, `PreflightFails`).
- The rendering of manifests, ignition files, tables and logs, agent hosts' network
  state, VM sizes: no property here distinguishes them. Values are known by their source.
- `core/version_watch.py` and the listings of the catalog, `cluster status`,
  `config` and `kubeconfig`, `credentials check`, `bastion list`: they read and print.
- `core/checklist.py`, the audit log, `cli/main.py` and `src/scripts/`: they render
  text, append rows or package the program.
- A failure that leaves the clusters row at an intermediate status ("installing")
  while the job has failed is modelled, and `ClusterLifecycle` allows it; the
  documentation does not say what the status should be.
- Two jobs of one cluster: `cluster create` starts one, and no command starts another.

## Plan

Done: `JobLifecycle`, `JobRunner`, `JobObservers`; `ClusterLifecycle` and its
two refinements, `InstallPipeline` and `AssistedService`; `BastionHttp`, `VmProvisioning`,
`CreateBuild`, `Credentials`, `BastionRegistry`; proofs of all their safety properties.

Left:

1. A composition of `AssistedService` with `VmProvisioning`, where a host that is
   made by an operation left behind registers at the service.
2. The safety halves of `TransferEnds` and `ProvisioningEnds`, as `Unstuck` is of `JobEnds`.

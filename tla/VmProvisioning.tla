--------------------------- MODULE VmProvisioning ---------------------------
(***************************************************************************)
(* How install jobs make virtual machines (installers/upi.py, agent.py,    *)
(* assisted.py) through a platform driver (drivers/vsphere.py, nutanix.py, *)
(* chosen by drivers/registry.py).  A driver call asks the platform for an *)
(* operation that takes its time and waits for it; a job that waits no     *)
(* longer fails, while the operation may still be performed.               *)
(*                                                                         *)
(* A UPI job clones its VMs from the RHCOS template, which all UPI jobs of *)
(* an OCP version share by name: whoever does not find it imports it.  To  *)
(* find it is to find an object or an image of that name, finished or not. *)
(* On vSphere a name is given once; on Nutanix it may be given again, and  *)
(* the first image of a list is taken.  An ISO job (Agent, Assisted) boots *)
(* its VMs from an image of its own that it uploads first.                 *)
(*                                                                         *)
(* Every driver call has a timeout.  What a job does on the bastion        *)
(* between the calls has none where nothing else is said: a connection     *)
(* that stalls there holds the job for ever.                               *)
(***************************************************************************)
EXTENDS Integers, FiniteSets

CONSTANTS Jobs,
          IsoJobs,       \* Agent and Assisted jobs; the others are UPI jobs
          Nodes,         \* VMs per job; of a UPI job the first is the bootstrap VM,
          Masters,       \* the next are the control plane, the others are workers
          Overlapping,   \* jobs that may look for the template while others make it
          Hasty,         \* jobs that may be refused, interrupted or held, or wait no longer
          MaxJobs,       \* how many of the jobs begin
          NoImage

ASSUME JobsAssumption == IsoJobs \subseteq Jobs /\ Overlapping \subseteq Jobs /\ Hasty \subseteq Jobs
ASSUME NodesAssumption == Nodes \in Nat \ {0} /\ Masters \in Nat
ASSUME MaxJobsAssumption == MaxJobs \in Nat
ASSUME NoImageAssumption == NoImage \notin Jobs

VARIABLES
  platform,   \* the infra_provisioning_target of all jobs
  stage,      \* stage[j]: the next statement of the job
  call,       \* call[j]: the operation asked from the platform, or how it ended
  vm,         \* vm[j]: the VM being made
  image,      \* image[j]: the image job j imports, or uploads
  node,       \* node[j][v]: VM v of job j at the platform
  source,     \* source[j][v]: whose image its disk was made from
  torn,       \* <<j, v>>: VM v of j has a disk that is not the whole image
  stalled     \* the jobs whose connection to the bastion answers no more

vars == <<platform, stage, call, vm, image, node, source, torn, stalled>>

Vms == 1 .. Nodes
Bootstrap == 1
ControlPlane == {v \in Vms : Bootstrap < v /\ v <= Bootstrap + Masters}
Down == {"off", "going", "gone"}
\* The driver calls: import also for the upload of an ISO job; clone also for
\* create_vm_from_iso; ignite for set_ignition
Calls == {"import", "mark", "clone", "ignite", "power", "off", "destroy"}
Over == {"done", "failed"}
Stages == {"idle", "check", "fetch", "bootstrap"} \cup Calls \cup Over

TypeOK ==
  /\ platform \in {"vsphere", "nutanix"}
  /\ stage \in [Jobs -> Stages]
  /\ call \in [Jobs -> {"none", "ok", "error"} \cup Calls]
  /\ vm \in [Jobs -> Vms]
  /\ image \in [Jobs -> {"none", "importing", "lost", "broken", "ready"}]
  /\ node \in [Jobs -> [Vms -> {"none", "made", "configured", "on"} \cup Down]]
  /\ source \in [Jobs -> [Vms -> Jobs \cup {NoImage}]]
  /\ torn \subseteq Jobs \X Vms
  /\ stalled \subseteq Jobs

Init ==
  /\ platform \in {"vsphere", "nutanix"}
  /\ stage = [j \in Jobs |-> "idle"]
  /\ call = [j \in Jobs |-> "none"]
  /\ vm = [j \in Jobs |-> 1]
  /\ image = [j \in Jobs |-> "none"]
  /\ node = [j \in Jobs |-> [v \in Vms |-> "none"]]
  /\ source = [j \in Jobs |-> [v \in Vms |-> NoImage]]
  /\ torn = {}
  /\ stalled = {}

platformVars == <<platform, image, node, source, torn>>

-----------------------------------------------------------------------------
(* The job *)

\* Entering a driver call asks the platform for it
Enter(j, there) ==
  /\ stage' = [stage EXCEPT ![j] = there]
  /\ call' = [call EXCEPT ![j] = IF there \in Calls THEN there ELSE "none"]

Goto(j, here, there) == stage[j] = here /\ Enter(j, there)

SameName(j, k) == j = k \/ {j, k} \cap IsoJobs = {}
Present(k) == image[k] \in {"importing", "broken", "ready"}
Found(j) == {k \in Jobs : SameName(j, k) /\ Present(k)}

Making(j) == stage[j] \in {"check", "fetch", "import", "mark"}

Begin(j) ==
  /\ Cardinality({k \in Jobs : stage[k] # "idle"}) < MaxJobs
  /\ j \in IsoJobs \cup Overlapping \/ \A k \in Jobs \ IsoJobs : ~Making(k)
  /\ Goto(j, "idle", IF j \in IsoJobs THEN "fetch" ELSE "check")
  /\ UNCHANGED <<vm, stalled, platformVars>>

\* template_exists
TemplateFound(j) ==
  /\ Goto(j, "check", "clone")
  /\ Found(j) # {}
  /\ UNCHANGED <<vm, platformVars>>

\* govc that fails says no as well
TemplateMissing(j) ==
  /\ Goto(j, "check", "fetch")
  /\ Found(j) = {} \/ (platform = "vsphere" /\ j \in Hasty)
  /\ UNCHANGED <<vm, platformVars>>

\* The image is on the bastion, and on Nutanix it is served there
Fetched(j) ==
  /\ Goto(j, "fetch", "import")
  /\ UNCHANGED <<vm, platformVars>>

AfterImport(j) == IF platform = "vsphere" /\ j \notin IsoJobs THEN "mark" ELSE "clone"

\* Bug: a UPI VM is started like one with an ISO.
AfterCloneBoot(j) == "power"

AfterClone(j) == IF j \in IsoJobs THEN "power" ELSE "ignite"

\* Bug: the bootstrap is not waited for.
AfterLastDestroy(j) == IF j \in IsoJobs THEN "done" ELSE "off"

AfterLast(j) == IF j \in IsoJobs THEN "done" ELSE "bootstrap"

After(j) == CASE stage[j] = "import"  -> AfterImport(j)
              [] stage[j] = "mark"    -> "clone"
              [] stage[j] = "clone"   -> AfterClone(j)
              [] stage[j] = "ignite"  -> "power"
              [] stage[j] = "power"   -> IF vm[j] < Nodes THEN "clone" ELSE AfterLast(j)
              [] stage[j] = "off"     -> "destroy"
              [] stage[j] = "destroy" -> "done"

\* Bug: the task of an import is not waited for.
CallReturnsBeforeTask(j) ==
  \/ call[j] = "ok"
  \/ stage[j] = "import" /\ call[j] = "import" /\ image[j] = "importing"

\* The command has exited with 0, or wait_task has seen SUCCEEDED
CallReturns(j) == call[j] = "ok"

Proceed(j) ==
  /\ stage[j] \in Calls
  /\ CallReturns(j)
  /\ Enter(j, After(j))
  /\ vm' = IF stage[j] = "power" /\ vm[j] < Nodes THEN [vm EXCEPT ![j] = @ + 1] ELSE vm
  /\ UNCHANGED platformVars

\* What wait-for bootstrap-complete waits for: the bootstrap VM and, of the others,
\* the control plane; one VM of it may do.  It does not look at the workers.
Serves(j) == /\ <<j, Bootstrap>> \notin torn
             /\ \E v \in ControlPlane : <<j, v>> \notin torn

BootstrapCompletes(j) ==
  /\ Goto(j, "bootstrap", "off")
  /\ Serves(j)
  /\ UNCHANGED <<vm, platformVars>>

\* Bug: the bootstrap of VMs that do not boot is waited for without end.
BootstrapNeverFails(j) ==
  /\ Goto(j, "bootstrap", "failed")
  /\ j \in Hasty
  /\ UNCHANGED <<vm, platformVars>>

BootstrapFails(j) ==
  /\ Goto(j, "bootstrap", "failed")
  /\ j \in Hasty \/ ~Serves(j) \/ \E v \in ControlPlane : <<j, v>> \in torn
  /\ UNCHANGED <<vm, platformVars>>

\* A driver's error: nonzero exit, a response that is not ok, FAILED, CANCELED
CallFails(j) ==
  /\ stage[j] \in Calls
  /\ call[j] = "error"
  /\ Enter(j, "failed")
  /\ UNCHANGED <<vm, platformVars>>

\* A timeout of a call, a poll that is not answered, a lost connection: what was
\* asked for may still happen.  Or the download exits with an error.
GiveUp(j) ==
  /\ j \in Hasty
  /\ stage[j] \in {"check", "fetch"} \cup Calls
  /\ stage' = [stage EXCEPT ![j] = "failed"]
  /\ UNCHANGED <<call, vm, platformVars>>

\* What has no timeout: the download of a UPI job, the start of a server on the
\* bastion (for Nutanix images, and for ignition when the template is there), the
\* sftp read of the next ignition file, and wait-for bootstrap-complete
Untimed(j) ==
  \/ stage[j] = "fetch" /\ (j \notin IsoJobs \/ platform = "nutanix")
  \/ stage[j] = "check" /\ Found(j) # {}
  \/ stage[j] = "bootstrap"
  \/ stage[j] \in {"import", "mark", "power"} /\ j \notin IsoJobs /\ call[j] = "ok"

Stall(j) ==
  /\ j \in Hasty
  /\ Untimed(j)
  /\ stalled' = stalled \cup {j}
  /\ UNCHANGED <<stage, call, vm, platformVars>>

Advance(j) == \/ TemplateFound(j) \/ TemplateMissing(j) \/ Fetched(j) \/ Proceed(j)
              \/ BootstrapCompletes(j) \/ BootstrapFails(j) \/ CallFails(j) \/ GiveUp(j)

Work(j) == j \notin stalled /\ ((Advance(j) /\ UNCHANGED stalled) \/ Stall(j))

-----------------------------------------------------------------------------
(* The platform, outside the program *)

Answer(j, a) == call' = [call EXCEPT ![j] = IF stage[j] = "failed" THEN "none" ELSE a]

BeginImport(j) ==
  /\ call[j] = "import"
  /\ image[j] = "none"
  /\ IF platform = "vsphere" /\ Found(j) # {}
       THEN Answer(j, "error") /\ UNCHANGED image
       ELSE image' = [image EXCEPT ![j] = "importing"] /\ UNCHANGED call
  /\ UNCHANGED <<platform, stage, vm, node, source, torn>>

EndImport(j) ==
  /\ call[j] = "import"
  /\ image[j] = "importing"
  /\ image' = [image EXCEPT ![j] = "ready"]
  /\ Answer(j, "ok")
  /\ UNCHANGED <<platform, stage, vm, node, source, torn>>

BreakImport(j) ==
  /\ j \in Hasty
  /\ call[j] = "import"
  /\ image[j] = "importing"
  /\ image' \in {[image EXCEPT ![j] = i] : i \in {"lost", "broken"}}
  /\ Answer(j, "error")
  /\ UNCHANGED <<platform, stage, vm, node, source, torn>>

MarkTemplate(j) ==
  /\ call[j] = "mark"
  /\ Answer(j, "ok")
  /\ UNCHANGED <<stage, vm, platformVars>>

\* Of an image that is not complete a part may be cloned, or nothing
Clone(j) ==
  /\ call[j] = "clone"
  /\ \E k \in Found(j) :
       /\ source' = [source EXCEPT ![j][vm[j]] = k]
       /\ torn' = IF image[k] = "ready" THEN torn ELSE torn \cup {<<j, vm[j]>>}
  /\ node' = [node EXCEPT ![j][vm[j]] = "made"]
  /\ Answer(j, "ok")
  /\ UNCHANGED <<platform, stage, vm, image>>

CloneRefused(j) ==
  /\ call[j] = "clone"
  /\ Found(j) = {} \/ \E k \in Found(j) : image[k] # "ready"
  /\ Answer(j, "error")
  /\ UNCHANGED <<stage, vm, platformVars>>

ChangeVm(j, what, v, to) ==
  /\ call[j] = what
  /\ node' = [node EXCEPT ![j][v] = to]
  /\ Answer(j, "ok")
  /\ UNCHANGED <<platform, stage, vm, image, source, torn>>

SetIgnition(j) == ChangeVm(j, "ignite", vm[j], "configured")
PowerOn(j) == ChangeVm(j, "power", vm[j], "on")
PowerOff(j) == ChangeVm(j, "off", Bootstrap, "off")

\* govc waits for the VM to be destroyed, the Nutanix driver only for the request
Destroy(j) == ChangeVm(j, "destroy", Bootstrap, IF platform = "vsphere" THEN "gone" ELSE "going")

Destroyed(j) ==
  /\ node[j][Bootstrap] = "going"
  /\ node' = [node EXCEPT ![j][Bootstrap] = "gone"]
  /\ UNCHANGED <<platform, stage, call, vm, image, source, torn>>

Refuse(j) ==
  /\ j \in Hasty
  /\ call[j] \in Calls
  /\ call[j] = "import" => image[j] = "none"
  /\ Answer(j, "error")
  /\ UNCHANGED <<stage, vm, platformVars>>

Perform(j) ==
  \/ BeginImport(j) \/ EndImport(j) \/ BreakImport(j) \/ MarkTemplate(j)
  \/ Clone(j) \/ CloneRefused(j) \/ SetIgnition(j) \/ PowerOn(j) \/ PowerOff(j) \/ Destroy(j)
  \/ Destroyed(j) \/ Refuse(j)

Platform(j) == Perform(j) /\ UNCHANGED stalled

Next == \E j \in Jobs : Begin(j) \/ Work(j) \/ Platform(j)

Spec == Init /\ [][Next]_vars

-----------------------------------------------------------------------------
(* Properties *)

\* The import of h was interrupted and has left nothing behind
Vanished(h) == h \notin IsoJobs /\ image[h] = "lost"

\* A VM boots from a part of an image only where two jobs looked for the template
\* at one time, or where an import was interrupted or given up: the check and the
\* import are two steps, and the check takes whatever has the name
\* (upi.py 210-231, vsphere.py 128-149, nutanix.py 90-100, 245-273, 337-344).
WholeDisks ==
  \A j \in Jobs, v \in Vms : <<j, v>> \in torn =>
    \/ j \in Overlapping
    \/ source[j][v] \in Overlapping \cup Hasty
    \/ \E h \in Jobs : Vanished(h)

\* The bootstrap VM is up before any other VM is.  It is only taken away when all
\* the others have been started and it has been able to do its work: from a whole
\* disk, for a control plane that has one, whatever was given up before, and
\* whatever became of the workers, of which the wait knows nothing
\* (upi.py 107-139).
BootstrapServesAll ==
  \A j \in Jobs \ IsoJobs :
    /\ \A v \in Vms : node[j][v] = "on" => node[j][Bootstrap] \in {"on"} \cup Down
    /\ node[j][Bootstrap] \in Down =>
         Serves(j) /\ \A v \in Vms \ {Bootstrap} : node[j][v] = "on"

\* No VM of a UPI job is started without its ignition config, no VM of an ISO job
\* without a disk of its own job's image (upi.py 166-169, agent.py 119-127,
\* assisted.py 193-202).
BootsConfigured ==
  [][\A j \in Jobs, v \in Vms : node[j][v] # "on" /\ node'[j][v] = "on" =>
       IF j \in IsoJobs THEN node[j][v] = "made" /\ source[j][v] = j
                        ELSE node[j][v] = "configured"]_vars

\* Jobs that are not held run on; the platform answers those that are not hasty, the
\* calls of the hasty ones have their timeouts.
Fairness == /\ \A j \in Jobs : WF_vars(Work(j))
            /\ \A j \in Jobs \ Hasty : WF_vars(Platform(j))

FairSpec == Spec /\ Fairness

\* A job that began to make VMs has made them or fails, unless it is held where it
\* has no timeout: no job waits for ever for another's template, for another that
\* is held, for a task, or for a VM that cannot boot (upi.py 102-139, 210-231,
\* vsphere.py 61-66, nutanix.py 90-100).
ProvisioningEnds ==
  \A j \in Jobs : Making(j) \/ stage[j] = "clone" ~> stage[j] \in Over \/ j \in stalled
=============================================================================

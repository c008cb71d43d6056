------------------------ MODULE InstallPipeline_proofs ------------------------
(***************************************************************************)
(* Theorems about InstallPipeline, for any number of clusters and names.   *)
(* What the five programs have in common is proved first, of the programs  *)
(* as they are: what a command consumes was staged before, "installed" is  *)
(* told last, and the kubeconfig is kept before that.  The invariant then  *)
(* follows a handler through any program of this shape.                    *)
(***************************************************************************)
EXTENDS InstallPipeline, TLAPS

Kinds == {"status", "try", "preflight", "backup", "record", "command"}
Told == {"staging-manifests", "building-agent-iso", "generating-ignition", "provisioning-vms",
         "waiting-for-bootstrap", "building-request", "creating-cluster", "waiting-for-ready",
         "installing"}
Steps == [do : Kinds, to : Told \cup {"", "installed"}, files : SUBSET Files]

Installed == Status("installed")

\* A step before the last one that consumes no files but fs
Consuming(fs) ==
  {s \in Steps : s # Installed /\ (s.do = "status" => s.to \in Told)
                   /\ (s.do = "command" => s.files \subseteq fs \cup {InfraEnv})}

Staged(P, n, f) ==
  /\ \E k \in 1 .. n - 1 : P[k] = Backup(f)
  /\ \E k \in 1 .. n - 1 : P[k].do = "record" /\ f \in P[k].files

\* What the programs have in common
Sound(P) ==
  /\ P \in Seq(Steps) /\ Len(P) > 1
  /\ P[Len(P)] = Installed
  /\ \A n \in 1 .. Len(P) - 1 : P[n].do = "status" => P[n].to \in Told
  /\ \E k \in 1 .. Len(P) : P[k] = Backup(Kubeconfig)
  /\ \A n \in 1 .. Len(P) : P[n].do = "command" =>
       \A f \in P[n].files \cap Manifests : Staged(P, n, f)

-----------------------------------------------------------------------------
\* The names of the files that the programs mention
LEMMA FilesAreFiles ==
  /\ InstallConfig \in Files /\ AgentConfig \in Files /\ ClusterRequest \in Files
  /\ InfraEnv \in Files /\ HcpParams \in Files /\ Kubeconfig \in Files
  /\ InfraEnv \notin Manifests
BY DEF Files, Manifests, InfraEnv, InstallConfig, AgentConfig, ClusterRequest, HcpParams

\* What the constructors of steps say
LEMMA RecordFields ==
  /\ \A fs : Record(fs).do = "record" /\ Record(fs).files = fs
  /\ \A f : Backup(f).do = "backup" /\ Backup(f).files = {f}
BY DEF Record, Backup

\* A step that is not the last one consumes at most the files it names.
LEMMA StepsAreSteps ==
  /\ Try \in Consuming({}) /\ Preflight \in Consuming({})
  /\ \A s \in Told : Status(s) \in Consuming({})
  /\ \A f \in Files : Backup(f) \in Consuming({})
  /\ \A fs \in SUBSET Files : Record(fs) \in Consuming({})
  /\ \A fs \in SUBSET Files : Command(fs) \in Consuming(fs)
  /\ Installed \in Steps
  /\ \A fs : Consuming({}) \subseteq Consuming(fs) /\ Consuming(fs) \subseteq Steps
<1> USE DEF Consuming, Installed, Status, Try, Preflight, Backup, Record, Command, Steps, Kinds
<1>1. Try \in Consuming({}) /\ Preflight \in Consuming({}) OBVIOUS
<1>2. \A s \in Told : Status(s) \in Consuming({}) BY DEF Told
<1>3. \A f \in Files : Backup(f) \in Consuming({}) OBVIOUS
<1>4. \A fs \in SUBSET Files : Record(fs) \in Consuming({}) /\ Command(fs) \in Consuming(fs) OBVIOUS
<1>5. Installed \in Steps OBVIOUS
<1>6. \A fs : Consuming({}) \subseteq Consuming(fs) /\ Consuming(fs) \subseteq Steps OBVIOUS
<1>7. QED BY ONLY <1>1, <1>2, <1>3, <1>4, <1>5, <1>6

\* The parts of a program keep their order.
LEMMA Parts ==
  ASSUME NEW a \in Seq(Steps), NEW b \in Seq(Steps), NEW c \in Seq(Steps), NEW P, P = a \o b \o c
  PROVE  /\ P \in Seq(Steps) /\ Len(P) = Len(a) + Len(b) + Len(c)
         /\ \A i \in 1 .. Len(a) : P[i] = a[i]
         /\ \A i \in Len(a) + 1 .. Len(a) + Len(b) : P[i] = b[i - Len(a)]
         /\ \A i \in Len(a) + Len(b) + 1 .. Len(P) : P[i] = c[i - Len(a) - Len(b)]
OBVIOUS

\* A program that stages what its commands consume, and then tells "installed", is sound.
LEMMA Assemble ==
  ASSUME NEW a \in Seq(Consuming({})), NEW b \in Seq(Consuming({})), NEW fs \in SUBSET Files,
         NEW c \in Seq(Steps), Len(c) > 1,
         \A f \in fs : Staged(b, Len(b) + 1, f),
         c[Len(c)] = Installed,
         \A n \in 1 .. Len(c) - 1 : c[n] \in Consuming(fs),
         \E k \in 1 .. Len(c) : c[k] = Backup(Kubeconfig)
  PROVE  Sound(a \o b \o c)
<1> DEFINE P == a \o b \o c
           A == Len(a)
           B == Len(b)
           C == Len(c)
<1>1. /\ a \in Seq(Steps) /\ b \in Seq(Steps) /\ A \in Nat /\ B \in Nat /\ C \in Nat /\ C > 1
      /\ \A i \in 1 .. A : a[i] \in Consuming({})
      /\ \A i \in 1 .. B : b[i] \in Consuming({})
  BY DEF Consuming
<1>2. /\ P \in Seq(Steps) /\ Len(P) = A + B + C
      /\ \A i \in 1 .. A : P[i] = a[i]
      /\ \A i \in A + 1 .. A + B : P[i] = b[i - A]
      /\ \A i \in A + B + 1 .. A + B + C : P[i] = c[i - A - B]
  BY <1>1, Parts
<1> HIDE DEF P, A, B, C
<1>3. /\ \A k \in 1 .. B : A + k \in A + 1 .. A + B /\ (A + k) - A = k
      /\ \A k \in 1 .. C : A + B + k \in A + B + 1 .. A + B + C /\ (A + B + k) - A - B = k
  BY <1>1
<1>4. /\ \A k \in 1 .. B : P[A + k] = b[k]
      /\ \A k \in 1 .. C : P[A + B + k] = c[k]
  BY <1>2, <1>3
<1>5. P[Len(P)] = Installed
  <2>1. c[C] = Installed /\ C \in 1 .. C BY <1>1 DEF C
  <2>2. QED BY <1>2, <1>4, <2>1
<1>6. \E k \in 1 .. Len(P) : P[k] = Backup(Kubeconfig)
  <2>1. PICK k \in 1 .. C : c[k] = Backup(Kubeconfig) BY DEF C
  <2>2. A + B + k \in 1 .. Len(P) BY <1>1, <1>2
  <2>3. QED BY <1>4, <2>1, <2>2
<1>7. ASSUME NEW n \in 1 .. A + B PROVE P[n] \in Consuming({})
  <2>1. CASE n \in 1 .. A BY <1>1, <1>2, <2>1
  <2>2. CASE n \in A + 1 .. A + B
    <3>1. n - A \in 1 .. B BY <1>1, <2>2
    <3>2. QED BY <1>1, <1>2, <2>2, <3>1
  <2>3. QED BY <1>1, <2>1, <2>2
<1>8. ASSUME NEW n \in A + B + 1 .. A + B + C - 1 PROVE P[n] \in Consuming(fs)
  <2>1. n \in A + B + 1 .. A + B + C /\ n - A - B \in 1 .. C - 1 BY <1>1
  <2>2. QED BY <1>2, <2>1 DEF C
<1>9. \A n \in 1 .. Len(P) - 1 : n \in 1 .. A + B \/ n \in A + B + 1 .. A + B + C - 1
  BY <1>1, <1>2
<1>10. \A n \in 1 .. Len(P) - 1 : P[n].do = "status" => P[n].to \in Told
  BY <1>7, <1>8, <1>9 DEF Consuming
<1>11. ASSUME NEW n \in 1 .. Len(P), P[n].do = "command", NEW f \in P[n].files \cap Manifests
       PROVE  Staged(P, n, f)
  <2>1. n \in 1 .. Len(P) - 1 BY <1>1, <1>2, <1>5, <1>11 DEF Installed, Status
  <2>2. n \in A + B + 1 .. A + B + C - 1 /\ f \in fs
    BY <1>7, <1>8, <1>9, <1>11, <2>1, FilesAreFiles DEF Consuming
  <2>3. Staged(b, B + 1, f) BY <2>2 DEF B
  <2>4. PICK k \in 1 .. B : b[k] = Backup(f) BY <1>1, <2>3 DEF Staged
  <2>5. PICK l \in 1 .. B : b[l].do = "record" /\ f \in b[l].files BY <1>1, <2>3 DEF Staged
  <2>6. A + k \in 1 .. n - 1 /\ A + l \in 1 .. n - 1 BY <1>1, <2>2
  <2>7. QED BY <1>4, <2>4, <2>5, <2>6 DEF Staged
<1>12. Len(P) > 1 BY <1>1, <1>2
<1>13. Sound(P) BY <1>2, <1>5, <1>6, <1>10, <1>11, <1>12 DEF Sound
<1>14. QED BY <1>13 DEF P

-----------------------------------------------------------------------------
\* What is staged is backed up and recorded.
LEMMA OneStaged ==
  ASSUME NEW f \in Files, NEW b, b = build_and_stage_manifests(<<f>>)
  PROVE  b \in Seq(Consuming({})) /\ \A g \in {f} : Staged(b, Len(b) + 1, g)
<1>1. Try \in Consuming({}) /\ Backup(f) \in Consuming({}) /\ Record({f}) \in Consuming({})
  BY StepsAreSteps
<1>2. /\ b \in Seq(Consuming({})) /\ Len(b) = 3
      /\ b[2] = Backup(f) /\ b[3] = Record({f})
  BY <1>1 DEF build_and_stage_manifests
<1>3. Staged(b, Len(b) + 1, f)
  <2>1. 2 \in 1 .. (Len(b) + 1) - 1 /\ 3 \in 1 .. (Len(b) + 1) - 1 BY <1>2
  <2>2. b[3].do = "record" /\ f \in b[3].files BY <1>2, RecordFields
  <2>3. QED BY <1>2, <2>1, <2>2 DEF Staged
<1>4. QED BY <1>2, <1>3

\* The same of two manifests, which one commit records
LEMMA TwoStaged ==
  ASSUME NEW f \in Files, NEW g \in Files, NEW b, b = build_and_stage_manifests(<<f, g>>)
  PROVE  b \in Seq(Consuming({})) /\ \A h \in {f, g} : Staged(b, Len(b) + 1, h)
<1>1. /\ Try \in Consuming({}) /\ Backup(f) \in Consuming({}) /\ Backup(g) \in Consuming({})
      /\ Record({f, g}) \in Consuming({})
  BY StepsAreSteps
<1>2. /\ b \in Seq(Consuming({})) /\ Len(b) = 4
      /\ b[2] = Backup(f) /\ b[3] = Backup(g) /\ b[4] = Record({f, g})
  BY <1>1 DEF build_and_stage_manifests
<1>3. ASSUME NEW h \in {f, g} PROVE Staged(b, Len(b) + 1, h)
  <2>1. {2, 3, 4} \subseteq 1 .. (Len(b) + 1) - 1 BY <1>2
  <2>2. b[4].do = "record" /\ h \in b[4].files BY <1>2, <1>3, RecordFields
  <2>3. QED BY <1>2, <1>3, <2>1, <2>2 DEF Staged
<1>4. QED BY <1>2, <1>3

\* ipi.py 32-79 has the shape.
LEMMA IpiSound == Sound(ipi_install)
<1> DEFINE a == <<Try, Status("staging-manifests"), Try>>
           b == build_and_stage_manifests(<<InstallConfig>>)
           fs == {InstallConfig}
           c == <<Try, Status("installing"), Command({InstallConfig}),
                  Backup(Kubeconfig), Status("installed")>>
<1>1. a \in Seq(Consuming({}))
  <2>1. Status("staging-manifests") \in Consuming({}) BY StepsAreSteps DEF Told
  <2>2. QED BY <2>1, StepsAreSteps
<1>2. /\ Try \in Consuming(fs) /\ Command(fs) \in Consuming(fs) /\ Command({}) \in Consuming(fs)
      /\ {Status("installing")} \subseteq Consuming(fs)
      /\ Backup(Kubeconfig) \in Consuming(fs)
      /\ Installed \in Steps /\ Consuming(fs) \subseteq Steps
  BY StepsAreSteps, FilesAreFiles DEF Told
<1>3. /\ c \in Seq(Steps) /\ Len(c) > 1 /\ c[Len(c)] = Installed
      /\ \A n \in 1 .. Len(c) - 1 : c[n] \in Consuming(fs)
      /\ \E k \in 1 .. Len(c) : c[k] = Backup(Kubeconfig)
  BY <1>2 DEF Installed
<1>4. b \in Seq(Consuming({})) /\ \A f \in fs : Staged(b, Len(b) + 1, f)
  BY OneStaged, FilesAreFiles
<1>5. fs \in SUBSET Files BY FilesAreFiles
<1>6. ipi_install = a \o b \o c BY DEF ipi_install
<1> HIDE DEF a, b, c, fs
<1>7. QED BY <1>1, <1>3, <1>4, <1>5, <1>6, Assemble

\* So has agent.py 35-94,
LEMMA AgentSound == Sound(agent_install)
<1> DEFINE a == <<Try, Status("staging-manifests"), Try>>
           b == build_and_stage_manifests(<<InstallConfig, AgentConfig>>)
           fs == {InstallConfig, AgentConfig}
           c == <<Status("building-agent-iso"), Command({InstallConfig, AgentConfig}), Try,
                  Status("installing"), Command({}), Command({}),
                  Backup(Kubeconfig), Status("installed")>>
<1>1. a \in Seq(Consuming({}))
  <2>1. Status("staging-manifests") \in Consuming({}) BY StepsAreSteps DEF Told
  <2>2. QED BY <2>1, StepsAreSteps
<1>2. /\ Try \in Consuming(fs) /\ Command(fs) \in Consuming(fs) /\ Command({}) \in Consuming(fs)
      /\ {Status("building-agent-iso"), Status("installing")} \subseteq Consuming(fs)
      /\ Backup(Kubeconfig) \in Consuming(fs)
      /\ Installed \in Steps /\ Consuming(fs) \subseteq Steps
  BY StepsAreSteps, FilesAreFiles DEF Told
<1>3. /\ c \in Seq(Steps) /\ Len(c) > 1 /\ c[Len(c)] = Installed
      /\ \A n \in 1 .. Len(c) - 1 : c[n] \in Consuming(fs)
      /\ \E k \in 1 .. Len(c) : c[k] = Backup(Kubeconfig)
  BY <1>2 DEF Installed
<1>4. b \in Seq(Consuming({})) /\ \A f \in fs : Staged(b, Len(b) + 1, f)
  BY TwoStaged, FilesAreFiles
<1>5. fs \in SUBSET Files BY FilesAreFiles
<1>6. agent_install = a \o b \o c BY DEF agent_install
<1> HIDE DEF a, b, c, fs
<1>7. QED BY <1>1, <1>3, <1>4, <1>5, <1>6, Assemble

\* upi.py 36-163,
LEMMA UpiSound == Sound(upi_install)
<1> DEFINE a == <<Try, Preflight, Status("staging-manifests"), Try>>
           b == build_and_stage_manifests(<<InstallConfig>>)
           fs == {InstallConfig}
           c == <<Status("generating-ignition"), Command({InstallConfig}), Try,
                  Status("provisioning-vms"), Try,
                  Status("waiting-for-bootstrap"), Command({}), Try,
                  Status("installing"), Command({}),
                  Backup(Kubeconfig), Status("installed")>>
<1>1. a \in Seq(Consuming({}))
  <2>1. Status("staging-manifests") \in Consuming({}) BY StepsAreSteps DEF Told
  <2>2. QED BY <2>1, StepsAreSteps
<1>2. /\ Try \in Consuming(fs) /\ Command(fs) \in Consuming(fs) /\ Command({}) \in Consuming(fs)
      /\ {Status("generating-ignition"), Status("provisioning-vms"),
          Status("waiting-for-bootstrap"), Status("installing")} \subseteq Consuming(fs)
      /\ Backup(Kubeconfig) \in Consuming(fs)
      /\ Installed \in Steps /\ Consuming(fs) \subseteq Steps
  BY StepsAreSteps, FilesAreFiles DEF Told
<1>3. /\ c \in Seq(Steps) /\ Len(c) > 1 /\ c[Len(c)] = Installed
      /\ \A n \in 1 .. Len(c) - 1 : c[n] \in Consuming(fs)
      /\ \E k \in 1 .. Len(c) : c[k] = Backup(Kubeconfig)
  BY <1>2 DEF Installed
<1>4. b \in Seq(Consuming({})) /\ \A f \in fs : Staged(b, Len(b) + 1, f)
  BY OneStaged, FilesAreFiles
<1>5. fs \in SUBSET Files BY FilesAreFiles
<1>6. upi_install = a \o b \o c BY DEF upi_install
<1> HIDE DEF a, b, c, fs
<1>7. QED BY <1>1, <1>3, <1>4, <1>5, <1>6, Assemble

\* hcp.py 45-143,
LEMMA HcpSound == Sound(hcp_install)
<1> DEFINE a == <<Try, Status("staging-manifests"), Try>>
           b == build_and_stage_manifests(<<HcpParams>>)
           fs == {HcpParams}
           c == <<Try, Try, Status("installing"), Try, Command({HcpParams}), Command({}), Try,
                  Backup(Kubeconfig), Status("installed")>>
<1>1. a \in Seq(Consuming({}))
  <2>1. Status("staging-manifests") \in Consuming({}) BY StepsAreSteps DEF Told
  <2>2. QED BY <2>1, StepsAreSteps
<1>2. /\ Try \in Consuming(fs) /\ Command(fs) \in Consuming(fs) /\ Command({}) \in Consuming(fs)
      /\ {Status("installing")} \subseteq Consuming(fs)
      /\ Backup(Kubeconfig) \in Consuming(fs)
      /\ Installed \in Steps /\ Consuming(fs) \subseteq Steps
  BY StepsAreSteps, FilesAreFiles DEF Told
<1>3. /\ c \in Seq(Steps) /\ Len(c) > 1 /\ c[Len(c)] = Installed
      /\ \A n \in 1 .. Len(c) - 1 : c[n] \in Consuming(fs)
      /\ \E k \in 1 .. Len(c) : c[k] = Backup(Kubeconfig)
  BY <1>2 DEF Installed
<1>4. b \in Seq(Consuming({})) /\ \A f \in fs : Staged(b, Len(b) + 1, f)
  BY OneStaged, FilesAreFiles
<1>5. fs \in SUBSET Files BY FilesAreFiles
<1>6. hcp_install = a \o b \o c BY DEF hcp_install
<1> HIDE DEF a, b, c, fs
<1>7. QED BY <1>1, <1>3, <1>4, <1>5, <1>6, Assemble

\* and assisted.py 40-139, which stages its request itself.
LEMMA AssistedSound == Sound(assisted_install)
<1> DEFINE P == assisted_install
           fs == {ClusterRequest}
<1>1. /\ {Status("building-request"), Status("creating-cluster"), Status("provisioning-vms"),
          Status("waiting-for-ready"), Status("installing")} \subseteq Consuming({})
      /\ {Try, Backup(ClusterRequest), Record({ClusterRequest}), Api({}),
          Backup(Kubeconfig), Record({Kubeconfig})} \subseteq Consuming({})
      /\ Installed \in Steps
  BY StepsAreSteps, FilesAreFiles DEF Told, Api, Command
<1>2. Api({ClusterRequest}) \in Consuming(fs) /\ Api({InfraEnv}) \in Consuming(fs)
  <2>1. {InfraEnv} \subseteq Files /\ {ClusterRequest} \subseteq Files BY FilesAreFiles
  <2>2. Api({ClusterRequest}) \in Consuming(fs) BY <2>1, StepsAreSteps DEF Api, Command
  <2>3. Api({InfraEnv}) \in Consuming(fs)
    BY <2>1 DEF Api, Consuming, Steps, Kinds, Installed, Status
  <2>4. QED BY <2>2, <2>3
<1>3. Consuming({}) \subseteq Consuming(fs) /\ Consuming(fs) \subseteq Steps BY StepsAreSteps
<1>4. /\ P \in Seq(Steps) /\ Len(P) = 22 /\ P[22] = Installed
      /\ P[4] = Backup(ClusterRequest) /\ P[5] = Record({ClusterRequest})
      /\ P[20] = Backup(Kubeconfig)
  <2>1. {Api({ClusterRequest}), Api({InfraEnv}), Try, Backup(ClusterRequest)} \subseteq Steps
    BY <1>1, <1>2, <1>3
  <2>2. QED BY <1>1, <1>2, <1>3, <2>1 DEF assisted_install, Installed
<1>5. \A n \in 1 .. 5 : P[n] \in Consuming({})
  BY <1>1 DEF assisted_install
<1>6. \A n \in 1 .. 21 : P[n] \in Consuming(fs)
  BY <1>1, <1>2, <1>3 DEF assisted_install
<1> HIDE DEF P
<1>7. ASSUME NEW n \in 1 .. 22, P[n].do = "command", NEW f \in P[n].files \cap Manifests
      PROVE  Staged(P, n, f)
  <2>1. n \in 1 .. 21 BY <1>4, <1>7 DEF Installed, Status
  <2>2. n \in 6 .. 21 /\ f = ClusterRequest
    BY <1>5, <1>6, <1>7, <2>1, FilesAreFiles DEF Consuming
  <2>3. 4 \in 1 .. n - 1 /\ 5 \in 1 .. n - 1 BY <2>2
  <2>4. QED BY <1>4, <2>2, <2>3, RecordFields DEF Staged
<1>8. \A n \in 1 .. 21 : P[n].do = "status" => P[n].to \in Told
  BY <1>6 DEF Consuming
<1>9. Sound(P) BY <1>4, <1>7, <1>8 DEF Sound
<1>10. QED BY <1>9 DEF P

\* Every method has a program, and all have the shape.
LEMMA Programs == \A m \in Methods : Sound(Program[m])
BY IpiSound, AgentSound, UpiSound, HcpSound, AssistedSound DEF Methods, Program

-----------------------------------------------------------------------------
Length(c) == Len(Program[method[c]])

\* What `cluster create` has done, and has not
CliInv(c) ==
  /\ cli[c] \notin {"idle", "refused"} => method[c] \in Methods
  /\ cli[c] \in {"idle", "insert"} => cstatus[c] = "none"
  /\ cli[c] \in {"prompt", "select", "start"} => cstatus[c] = "created"
  /\ cli[c] = "refused" => cstatus[c] \in {"none", "created"}
  /\ cli[c] = "done" <=> job[c] # "none"
  /\ cli[c] # "done" => pc[c] = 0 /\ used[c] = {}
  /\ cli[c] \in {"prompt", "select"} => (method[c] = "hcp" <=> cli[c] = "select")

\* How far the job is, and what that says of the row
JobInv(c) ==
  job[c] # "none" =>
    /\ pc[c] \in 1 .. Length(c) + 1
    /\ cstatus[c] = "installed" <=> pc[c] = Length(c) + 1
    /\ cstatus[c] # "none"
    /\ cstatus[c] \in {"failed", "preflight-failed"} => job[c] \in {"marked", "raised", "killed"}
    /\ job[c] \in {"failing", "marked", "raised"} => pc[c] # Length(c) + 1
    /\ job[c] = "returned" => pc[c] = Length(c) + 1

\* What the steps that are done have left behind
DoneInv(c) ==
  job[c] # "none" =>
    \A n \in 1 .. Length(c) : n < pc[c] =>
      LET s == Program[method[c]][n]
      IN  /\ s.do = "backup" => s.files \subseteq backups[c]
          /\ s.do = "record" => s.files \subseteq configs[c]
          /\ s.do = "command" => s.files \subseteq used[c]

Hosted(c) ==
  \E d \in Creates \ {c} :
    /\ mgmt[c] = d
    /\ cstatus[d] = "installed" /\ job[d] # "none"
    /\ method[d] # "hcp"
    /\ Kubeconfig \in backups[d] \cap configs[d]

HostInv(c) == cli[c] \in {"start", "done"} /\ method[c] = "hcp" => Hosted(c)

NamesApart ==
  \A c, d \in Creates :
    c # d /\ cstatus[c] # "none" /\ cstatus[d] # "none" => name[c] # name[d]

CreateInv(c) == CliInv(c) /\ JobInv(c) /\ DoneInv(c) /\ HostInv(c)

IInv == TypeOK /\ (\A c \in Creates : CreateInv(c)) /\ NamesApart /\ BackedUpBeforeUse

\* What there is to know about the step that a job is at
LEMMA ThisStep ==
  ASSUME IInv, NEW c \in Creates, job[c] \in Alive, pc[c] <= Length(c)
  PROVE  /\ method[c] \in Methods /\ Sound(Program[method[c]]) /\ Length(c) \in Nat
         /\ pc[c] \in 1 .. Length(c)
         /\ StepOf(c) \in Steps
         /\ StepOf(c) = Program[method[c]][pc[c]]
         /\ StepOf(c).files \subseteq Files
         /\ StepOf(c).do = "status" =>
              /\ StepOf(c).to \in Told \cup {"installed"} /\ StepOf(c).to \in Statuses
              /\ StepOf(c).to = "installed" <=> pc[c] = Length(c)
<1>1. method[c] \in Methods /\ pc[c] \in 1 .. Length(c) + 1
  BY DEF IInv, CreateInv, CliInv, JobInv, Alive
<1>2. Sound(Program[method[c]]) BY <1>1, Programs
<1>3. Length(c) \in Nat /\ pc[c] \in 1 .. Length(c) BY <1>1, <1>2 DEF Sound, Length
<1>4. StepOf(c) \in Steps BY <1>2, <1>3 DEF StepOf, Sound, Length
<1>5. StepOf(c).files \subseteq Files /\ StepOf(c).to \in Told \cup {"", "installed"}
  BY <1>4 DEF Steps
<1>6. ASSUME StepOf(c).do = "status"
      PROVE  /\ StepOf(c).to \in Told \cup {"installed"}
             /\ StepOf(c).to = "installed" <=> pc[c] = Length(c)
  <2>1. CASE pc[c] = Length(c)
    BY <1>2, <2>1 DEF Sound, StepOf, Length, Installed, Status
  <2>2. CASE pc[c] # Length(c)
    <3>1. pc[c] \in 1 .. Length(c) - 1 BY <1>3, <2>2
    <3>2. StepOf(c).to \in Told BY <1>2, <1>6, <3>1 DEF Sound, StepOf, Length
    <3>3. QED BY <2>2, <3>2 DEF Told
  <2>3. QED BY <2>1, <2>2
<1>7. ASSUME StepOf(c).to \in Told \cup {"installed"} PROVE StepOf(c).to \in Statuses
  <2> DEFINE m == method[c]
             tos == {Program[m][n].to : n \in 1 .. Len(Program[m])} \ {""}
  <2>1. StepOf(c).to \in tos BY <1>3, <1>7 DEF StepOf, Length, Told
  <2>2. tos \subseteq Statuses BY <1>1, ZenonT(60) DEF Statuses
  <2>3. QED BY <2>1, <2>2
<1>8. QED BY <1>1, <1>2, <1>3, <1>4, <1>5, <1>6, <1>7 DEF StepOf

\* No cluster is there at first.
LEMMA InitIInv == Init => IInv
<1> SUFFICES ASSUME Init PROVE IInv
    OBVIOUS
<1>1. TypeOK BY DEF Init, TypeOK, Refusals, Methods, Statuses
<1>2. \A c \in Creates : CreateInv(c)
  BY DEF Init, CreateInv, CliInv, JobInv, DoneInv, HostInv
<1>3. NamesApart /\ BackedUpBeforeUse BY DEF Init, NamesApart, BackedUpBeforeUse
<1>4. QED BY <1>1, <1>2, <1>3 DEF IInv

-----------------------------------------------------------------------------
\* What a `cluster create` or a job does leaves the others as they are.
Frame(c) ==
  \A d \in Creates \ {c} :
    /\ cli'[d] = cli[d] /\ method'[d] = method[d] /\ name'[d] = name[d]
    /\ cstatus'[d] = cstatus[d] /\ job'[d] = job[d] /\ pc'[d] = pc[d]
    /\ backups'[d] = backups[d] /\ configs'[d] = configs[d] /\ used'[d] = used[d]
    /\ mgmt'[d] = mgmt[d]

\* A cluster that is installed remains so, with all that was kept.
Lasting(c) ==
  cstatus[c] = "installed" /\ job[c] # "none" =>
    /\ cstatus'[c] = "installed" /\ job'[c] # "none" /\ method'[c] = method[c]
    /\ backups[c] \subseteq backups'[c] /\ configs[c] \subseteq configs'[c]

\* A step for one cluster leaves what is known of the others.
LEMMA OthersKeep ==
  ASSUME IInv, NEW c \in Creates, Frame(c), Lasting(c), TypeOK', CliInv(c)', JobInv(c)', DoneInv(c)',
         HostInv(c)',
         (used'[c] \cap Manifests) \subseteq (backups'[c] \cap configs'[c]),
         \/ cstatus'[c] = "none"
         \/ cstatus[c] # "none" /\ name'[c] = name[c]
         \/ name'[c] = name[c] /\ ~NameTaken(name[c])
  PROVE  IInv'
<1> USE DEF IInv
<1>1. ASSUME NEW d \in Creates, d # c PROVE CreateInv(d)'
  <2>1. CliInv(d)' BY <1>1 DEF Frame, CreateInv, CliInv
  <2>2. JobInv(d)' BY <1>1 DEF Frame, CreateInv, JobInv, Length
  <2>3. DoneInv(d)' BY <1>1 DEF Frame, CreateInv, DoneInv, Length
  <2>4. HostInv(d)'
    BY <1>1 DEF Frame, Lasting, CreateInv, HostInv, Hosted
  <2>5. QED BY <2>1, <2>2, <2>3, <2>4 DEF CreateInv
<1>2. CreateInv(c)' BY DEF CreateInv
<1>3. NamesApart' BY DEF NamesApart, Frame, NameTaken
<1>4. BackedUpBeforeUse' BY DEF BackedUpBeforeUse, Frame
<1>5. QED BY <1>1, <1>2, <1>3, <1>4

\* An installed cluster has been through its whole program.
LEMMA WholeProgram ==
  ASSUME IInv, NEW c \in Creates, cstatus[c] = "installed"
  PROVE  /\ job[c] # "none" /\ cli[c] = "done" /\ method[c] \in Methods
         /\ Kubeconfig \in backups[c] /\ Inputs(method[c]) \subseteq used[c]
<1> DEFINE P == Program[method[c]]
<1>1. cli[c] = "done" BY DEF IInv, TypeOK, CreateInv, CliInv
<1>2. job[c] # "none" /\ method[c] \in Methods BY <1>1 DEF IInv, CreateInv, CliInv
<1>3. pc[c] = Len(P) + 1 BY <1>2 DEF IInv, CreateInv, JobInv, Length
<1>4. Sound(P) BY <1>2, Programs
<1>5. Len(P) \in Nat BY <1>4 DEF Sound
<1>6. \A n \in 1 .. Len(P) :
        /\ P[n].do = "backup" => P[n].files \subseteq backups[c]
        /\ P[n].do = "command" => P[n].files \subseteq used[c]
  BY <1>2, <1>3, <1>5 DEF IInv, CreateInv, DoneInv, Length
<1>7. Kubeconfig \in backups[c]
  <2>1. PICK k \in 1 .. Len(P) : P[k] = Backup(Kubeconfig) BY <1>4 DEF Sound
  <2>2. P[k].do = "backup" /\ Kubeconfig \in P[k].files BY <2>1, RecordFields
  <2>3. QED BY <1>6, <2>2
<1>8. Inputs(method[c]) \subseteq used[c] BY <1>6 DEF Inputs
<1>9. QED BY <1>1, <1>2, <1>7, <1>8

-----------------------------------------------------------------------------
(* `cluster create` *)

\* `cluster create` exits without a job.
LEMMA CreateGivesUp ==
  ASSUME IInv, NEW c \in Creates, cli[c] \in {"insert", "prompt", "select", "start"},
         NEW why \in Refusals, Refuse(c, why),
         UNCHANGED <<method, name, mgmt, cstatus, jobVars, recordVars>>
  PROVE  IInv'
<1> USE DEF IInv
<1>1. cli' = [cli EXCEPT ![c] = "refused"] /\ refusal' = [refusal EXCEPT ![c] = why]
  BY DEF Refuse
<1>2. /\ job[c] = "none" /\ pc[c] = 0 /\ used[c] = {}
      /\ cstatus[c] \in {"none", "created"}
  BY DEF CreateInv, CliInv
<1>3. TypeOK' BY <1>1 DEF TypeOK, jobVars, recordVars
<1>4. Frame(c) /\ Lasting(c) BY <1>1, <1>2 DEF Frame, Lasting, TypeOK, jobVars, recordVars
<1>5. CliInv(c)' /\ JobInv(c)' /\ DoneInv(c)' /\ HostInv(c)'
  BY <1>1, <1>2 DEF TypeOK, CliInv, JobInv, DoneInv, HostInv, jobVars, recordVars
<1>6. QED BY <1>2, <1>3, <1>4, <1>5, OthersKeep DEF jobVars, recordVars

\* Until the job is started nothing is done for the cluster but to insert its row.
LEMMA CreateKeeps ==
  ASSUME IInv, NEW c \in Creates, Create(c)
  PROVE  IInv'
<1> USE DEF IInv
<1>1. CreateInv(c) /\ TypeOK OBVIOUS
<1>2. \A m \in Methods : Len(Program[m]) \in Nat /\ Len(Program[m]) > 1
  BY Programs DEF Sound
<1>3. CASE Ask(c)
  <2>1. PICK m \in Offered, n \in Names :
          /\ method' = [method EXCEPT ![c] = m]
          /\ name' = [name EXCEPT ![c] = n]
          /\ \/ cli' = [cli EXCEPT ![c] = "insert"] /\ UNCHANGED refusal
             \/ Refuse(c, "no-name")
    BY <1>3 DEF Ask
  <2>2. cli[c] = "idle" /\ UNCHANGED <<mgmt, cstatus, jobVars, recordVars>> BY <1>3 DEF Ask
  <2>3. m \in Methods BY MethodsAssumption
  <2>4. /\ job[c] = "none" /\ cstatus[c] = "none" /\ pc[c] = 0 /\ used[c] = {}
        /\ cli'[c] \in {"insert", "refused"} /\ method'[c] = m
    BY <1>1, <2>1, <2>2 DEF CreateInv, CliInv, TypeOK, Refuse
  <2>5. TypeOK'
    <3>1. \A d \in Creates : pc'[d] \in 0 .. (IF method'[d] = "none" THEN 0
                                            ELSE Len(Program[method'[d]]) + 1)
      BY <1>1, <1>2, <2>1, <2>2, <2>3, <2>4 DEF TypeOK, jobVars
    <3>2. /\ cli' \in [Creates -> {"idle", "insert", "prompt", "select", "start", "done", "refused"}]
          /\ refusal' \in [Creates -> Refusals]
      BY <1>1, <2>1 DEF TypeOK, Refuse, Refusals
    <3>3. QED BY <1>1, <2>1, <2>2, <2>3, <3>1, <3>2 DEF TypeOK, jobVars, recordVars
  <2>6. Frame(c) /\ Lasting(c)
    BY <1>1, <2>1, <2>2, <2>4 DEF Frame, Lasting, Refuse, TypeOK, jobVars, recordVars
  <2>7. CliInv(c)' /\ JobInv(c)' /\ DoneInv(c)' /\ HostInv(c)'
    BY <2>2, <2>3, <2>4 DEF CliInv, JobInv, DoneInv, HostInv, jobVars, recordVars
  <2>8. QED BY <2>2, <2>4, <2>5, <2>6, <2>7, OthersKeep DEF jobVars, recordVars
<1>4. CASE InsertCluster(c)
  <2>1. /\ cli[c] = "insert" /\ ~NameTaken(name[c])
        /\ cstatus' = [cstatus EXCEPT ![c] = "created"]
        /\ cli' = [cli EXCEPT ![c] = AfterInsert(method[c])]
        /\ UNCHANGED <<refusal, method, name, mgmt, jobVars, recordVars>>
    BY <1>4 DEF InsertCluster
  <2>2. /\ job[c] = "none" /\ method[c] \in Methods /\ cstatus[c] = "none"
        /\ pc[c] = 0 /\ used[c] = {}
    BY <1>1, <2>1 DEF CreateInv, CliInv
  <2>3. /\ AfterInsert(method[c]) \in {"prompt", "select", "start"}
        /\ method[c] = "hcp" <=> AfterInsert(method[c]) = "select"
    BY <2>2 DEF AfterInsert, Methods
  <2>4. TypeOK' BY <1>1, <2>1, <2>3 DEF TypeOK, Statuses, jobVars, recordVars
  <2>5. Frame(c) /\ Lasting(c)
    BY <1>1, <2>1, <2>2 DEF Frame, Lasting, TypeOK, jobVars, recordVars
  <2>6. CliInv(c)' /\ JobInv(c)' /\ DoneInv(c)' /\ HostInv(c)'
    BY <1>1, <2>1, <2>2, <2>3 DEF TypeOK, CliInv, JobInv, DoneInv, HostInv, jobVars, recordVars
  <2>7. QED BY <2>1, <2>2, <2>4, <2>5, <2>6, OthersKeep DEF jobVars, recordVars
<1>5. CASE InsertRefused(c) \/ Abort(c) \/ NoManagementCluster(c)
  <2>1. /\ cli[c] \in {"insert", "prompt", "select", "start"}
        /\ \E why \in Refusals : Refuse(c, why)
        /\ UNCHANGED <<method, name, mgmt, cstatus, jobVars, recordVars>>
    BY <1>5 DEF InsertRefused, Abort, NoManagementCluster, Refusals
  <2>2. QED BY <1>1, <2>1, CreateGivesUp
<1>6. CASE AnswerPrompts(c)
  <2>1. /\ cli[c] = "prompt" /\ cli' = [cli EXCEPT ![c] = "start"]
        /\ UNCHANGED <<refusal, method, name, mgmt, cstatus, jobVars, recordVars>>
    BY <1>6 DEF AnswerPrompts
  <2>2. /\ job[c] = "none" /\ method[c] \in Methods \ {"hcp"} /\ cstatus[c] = "created"
        /\ pc[c] = 0 /\ used[c] = {}
    BY <1>1, <2>1 DEF CreateInv, CliInv
  <2>3. TypeOK' BY <1>1, <2>1 DEF TypeOK, jobVars, recordVars
  <2>4. Frame(c) /\ Lasting(c)
    BY <1>1, <2>1, <2>2 DEF Frame, Lasting, TypeOK, jobVars, recordVars
  <2>5. CliInv(c)' /\ JobInv(c)' /\ DoneInv(c)' /\ HostInv(c)'
    BY <1>1, <2>1, <2>2 DEF TypeOK, CliInv, JobInv, DoneInv, HostInv, jobVars, recordVars
  <2>6. QED BY <2>1, <2>2, <2>3, <2>4, <2>5, OthersKeep DEF jobVars, recordVars
<1>7. CASE SelectManagementCluster(c)
  <2>1. /\ cli[c] = "select"
        /\ UNCHANGED <<method, name, cstatus, jobVars, recordVars>>
    BY <1>7 DEF SelectManagementCluster
  <2>2. /\ job[c] = "none" /\ method[c] = "hcp" /\ cstatus[c] = "created"
        /\ pc[c] = 0 /\ used[c] = {}
    BY <1>1, <2>1 DEF CreateInv, CliInv
  <2>3. CASE Refuse(c, "no-kubeconfig") /\ UNCHANGED mgmt
    BY <1>1, <2>1, <2>3, CreateGivesUp DEF Refusals
  <2>4. ASSUME NEW d \in Candidates, Kubeconfig \in configs[d],
               mgmt' = [mgmt EXCEPT ![c] = d], cli' = [cli EXCEPT ![c] = "start"],
               UNCHANGED refusal
        PROVE  IInv'
    <3>1. d \in Creates \ {c} /\ cstatus[d] = "installed" /\ method[d] # "hcp"
      BY <2>2, <2>4 DEF Candidates
    <3>2. job[d] # "none" /\ Kubeconfig \in backups[d] BY <3>1, WholeProgram
    <3>3. TypeOK' BY <1>1, <2>1, <2>4, <3>1 DEF TypeOK, jobVars, recordVars
    <3>4. Frame(c) /\ Lasting(c)
      BY <1>1, <2>1, <2>2, <2>4 DEF Frame, Lasting, TypeOK, jobVars, recordVars
    <3>5. CliInv(c)' /\ JobInv(c)' /\ DoneInv(c)'
      BY <1>1, <2>1, <2>2, <2>4 DEF TypeOK, CliInv, JobInv, DoneInv, Methods, jobVars, recordVars
    <3>6. HostInv(c)'
      BY <1>1, <2>1, <2>4, <3>1, <3>2 DEF TypeOK, HostInv, Hosted, jobVars, recordVars
    <3>7. QED BY <2>1, <2>2, <3>3, <3>4, <3>5, <3>6, OthersKeep DEF jobVars, recordVars
  <2>5. QED BY <1>7, <2>3, <2>4 DEF SelectManagementCluster
<1>8. CASE StartJob(c)
  <2>1. /\ cli[c] = "start" /\ cli' = [cli EXCEPT ![c] = "done"]
        /\ job' = [job EXCEPT ![c] = "running"] /\ pc' = [pc EXCEPT ![c] = 1]
        /\ UNCHANGED <<refusal, method, name, mgmt, cstatus, recordVars>>
    BY <1>8 DEF StartJob
  <2>2. /\ job[c] = "none" /\ method[c] \in Methods /\ cstatus[c] = "created" /\ used[c] = {}
    BY <1>1, <2>1 DEF CreateInv, CliInv
  <2>3. Len(Program[method[c]]) \in Nat /\ Len(Program[method[c]]) > 1 BY <1>2, <2>2
  <2>4. TypeOK'
    <3>1. \A d \in Creates : pc'[d] \in 0 .. (IF method'[d] = "none" THEN 0
                                            ELSE Len(Program[method'[d]]) + 1)
      BY <1>1, <2>1, <2>2, <2>3 DEF TypeOK, Methods
    <3>2. QED BY <1>1, <2>1, <3>1 DEF TypeOK, Alive, recordVars
  <2>5. Frame(c) /\ Lasting(c)
    BY <1>1, <2>1, <2>2 DEF Frame, Lasting, TypeOK, recordVars
  <2>6. CliInv(c)' BY <1>1, <2>1, <2>2 DEF TypeOK, CliInv, recordVars
  <2>7. JobInv(c)' BY <1>1, <2>1, <2>2, <2>3 DEF TypeOK, JobInv, Length
  <2>8. DoneInv(c)' BY <1>1, <2>1 DEF TypeOK, DoneInv, Length
  <2>9. HostInv(c)' BY <1>1, <2>1 DEF CreateInv, TypeOK, HostInv, Hosted, recordVars
  <2>10. QED BY <2>1, <2>2, <2>4, <2>5, <2>6, <2>7, <2>8, <2>9, OthersKeep DEF recordVars
<1>9. QED BY <1>3, <1>4, <1>5, <1>6, <1>7, <1>8 DEF Create

-----------------------------------------------------------------------------
(* The install job *)

\* What a command is given has been backed up and recorded by the steps before.
LEMMA HandedOver ==
  ASSUME IInv, NEW c \in Creates, job[c] = "running", pc[c] <= Length(c), StepOf(c).do = "command"
  PROVE  StepOf(c).files \cap Manifests \subseteq backups[c] \cap configs[c]
<1> DEFINE P == Program[method[c]]
<1> SUFFICES ASSUME NEW f \in StepOf(c).files \cap Manifests PROVE f \in backups[c] /\ f \in configs[c]
    OBVIOUS
<1>1. Sound(P) /\ pc[c] \in 1 .. Len(P) /\ Len(P) \in Nat /\ StepOf(c) = P[pc[c]]
  BY ThisStep DEF Length, Alive
<1>2. Staged(P, pc[c], f) BY <1>1 DEF Sound
<1>3. PICK k \in 1 .. pc[c] - 1 : P[k] = Backup(f) BY <1>2 DEF Staged
<1>4. PICK l \in 1 .. pc[c] - 1 : P[l].do = "record" /\ f \in P[l].files BY <1>2 DEF Staged
<1>5. P[k].do = "backup" /\ f \in P[k].files BY <1>3, RecordFields
<1>6. \A n \in 1 .. pc[c] - 1 : /\ P[n].do = "backup" => P[n].files \subseteq backups[c]
                                /\ P[n].do = "record" => P[n].files \subseteq configs[c]
  BY <1>1 DEF IInv, CreateInv, DoneInv, Length
<1>7. QED BY <1>4, <1>5, <1>6

\* A step that succeeds
LEMMA StepDone ==
  ASSUME IInv, NEW c \in Creates, job[c] = "running", pc[c] <= Length(c),
         TypeOK', Frame(c), UNCHANGED <<cliVars, job>>, pc'[c] = pc[c] + 1,
         cstatus'[c] = IF StepOf(c).do = "status" THEN StepOf(c).to ELSE cstatus[c],
         backups'[c] = IF StepOf(c).do = "backup" THEN backups[c] \cup StepOf(c).files ELSE backups[c],
         configs'[c] = IF StepOf(c).do = "record" THEN configs[c] \cup StepOf(c).files ELSE configs[c],
         used'[c] = IF StepOf(c).do = "command" THEN used[c] \cup StepOf(c).files ELSE used[c]
  PROVE  IInv'
<1> USE DEF IInv
<1>1. CreateInv(c) /\ TypeOK OBVIOUS
<1>2. /\ method[c] \in Methods /\ Sound(Program[method[c]]) /\ Length(c) \in Nat
      /\ pc[c] \in 1 .. Length(c) /\ StepOf(c) = Program[method[c]][pc[c]]
      /\ StepOf(c).do = "status" =>
           /\ StepOf(c).to \in Told \cup {"installed"}
           /\ StepOf(c).to = "installed" <=> pc[c] = Length(c)
  BY ThisStep DEF Alive
<1>3. pc[c] = Length(c) => StepOf(c).do = "status"
  BY <1>2 DEF Sound, Length, Installed, Status
<1>4. cli[c] = "done" BY <1>1 DEF CreateInv, CliInv
<1>5. Lasting(c)
  <2> HIDE DEF IInv
  <2>1. cstatus[c] # "installed" BY <1>1, <1>2 DEF CreateInv, JobInv
  <2>2. QED BY <2>1 DEF Lasting
<1>6. CliInv(c)' BY <1>1, <1>4 DEF CreateInv, CliInv, cliVars
<1>7. Length(c)' = Length(c) BY DEF Length, cliVars
<1>8. JobInv(c)' BY <1>1, <1>2, <1>3, <1>7 DEF CreateInv, JobInv, Told
<1>9. DoneInv(c)'
  <2> SUFFICES ASSUME NEW n \in 1 .. Length(c), n < pc[c] + 1
               PROVE  LET s == Program[method[c]][n]
                      IN  /\ s.do = "backup" => s.files \subseteq backups'[c]
                          /\ s.do = "record" => s.files \subseteq configs'[c]
                          /\ s.do = "command" => s.files \subseteq used'[c]
      BY <1>7 DEF DoneInv, cliVars
  <2>1. CASE n = pc[c] BY <1>2, <2>1
  <2>2. CASE n < pc[c] BY <1>1, <2>2 DEF CreateInv, DoneInv
  <2> HIDE DEF IInv
  <2>3. n = pc[c] \/ n < pc[c] BY <1>2
  <2>4. QED BY <2>1, <2>2, <2>3
<1>10. HostInv(c)' BY <1>1, <1>4 DEF CreateInv, HostInv, Hosted, Frame, cliVars
<1>11. used'[c] \cap Manifests \subseteq backups'[c] \cap configs'[c]
  BY HandedOver DEF BackedUpBeforeUse
<1>12. cstatus[c] # "none" BY <1>1 DEF CreateInv, JobInv
<1>13. QED
  BY <1>5, <1>6, <1>8, <1>9, <1>10, <1>11, <1>12, OthersKeep DEF cliVars

\* The job fails at its step, marks the cluster, or ends.
LEMMA JobLeaves ==
  ASSUME IInv, NEW c \in Creates, job[c] \in Alive,
         TypeOK', Frame(c), UNCHANGED <<cliVars, pc, backups, configs>>,
         job'[c] \in {"failing", "marked", "returned", "raised", "killed"},
         job'[c] = "failing" => job[c] = "running",
         job'[c] = "returned" => job[c] = "running" /\ pc[c] > Length(c),
         job'[c] \in {"failing", "marked", "raised"} => pc[c] <= Length(c),
         \/ cstatus'[c] = cstatus[c]
         \/ job'[c] = "marked" /\ cstatus'[c] \in {"failed", "preflight-failed"},
         \/ used'[c] = used[c]
         \/ /\ job[c] = "running" /\ pc[c] <= Length(c) /\ StepOf(c).do = "command"
            /\ used'[c] = used[c] \cup StepOf(c).files
  PROVE  IInv'
<1> USE DEF IInv
<1>1. CreateInv(c) /\ TypeOK OBVIOUS
<1>2. /\ cli[c] = "done" /\ method[c] \in Methods
      /\ pc[c] \in 1 .. Length(c) + 1 /\ cstatus[c] # "none"
      /\ job[c] # "none"
  BY <1>1 DEF CreateInv, CliInv, JobInv, Alive
<1>3. Length(c) \in Nat BY <1>2, Programs DEF Sound, Length
<1>4. Length(c)' = Length(c) BY DEF Length, cliVars
<1>5. JobInv(c)' BY <1>1, <1>2, <1>3, <1>4 DEF CreateInv, JobInv
<1>6. Lasting(c) BY <1>1, <1>2, <1>3 DEF CreateInv, JobInv, Lasting, cliVars
<1>7. CliInv(c)' BY <1>1, <1>2 DEF CreateInv, CliInv, cliVars
<1>8. DoneInv(c)' BY <1>1, <1>2, <1>4 DEF CreateInv, DoneInv, cliVars
<1>9. HostInv(c)' BY <1>1, <1>2 DEF CreateInv, HostInv, Hosted, Frame, cliVars
<1>10. used'[c] \cap Manifests \subseteq backups'[c] \cap configs'[c]
  BY HandedOver DEF BackedUpBeforeUse
<1>11. QED
  BY <1>2, <1>5, <1>6, <1>7, <1>8, <1>9, <1>10, OthersKeep DEF cliVars

\* Every step of a job keeps the invariant, whether it succeeds or not.
LEMMA InstallKeeps ==
  ASSUME IInv, NEW c \in Creates, Install(c)
  PROVE  IInv'
<1>1. /\ TypeOK /\ job[c] \in Alive /\ method[c] \in Methods
      /\ Length(c) \in Nat /\ pc[c] \in 1 .. Length(c) + 1
  <2>1. TypeOK /\ job[c] \in Alive
    BY DEF IInv, Install, SetStatus, Proceed, PreflightFails, BackUp, CommitConfigs,
           CommandSucceeds, CommandFails, MarkFailed, Raises, Returns, Killed, AtStep, Alive
  <2>2. method[c] \in Methods /\ pc[c] \in 1 .. Length(c) + 1
    BY <2>1 DEF IInv, CreateInv, CliInv, JobInv, Alive
  <2>3. QED BY <2>1, <2>2, Programs DEF Sound, Length
<1>2. ASSUME pc[c] <= Length(c)
      PROVE  /\ StepOf(c).files \subseteq Files
             /\ StepOf(c).do = "status" => StepOf(c).to \in Statuses
  BY <1>1, <1>2, ThisStep
<1>3. ASSUME NEW kind, AtStep(c, kind)
      PROVE  job[c] = "running" /\ pc[c] <= Length(c) /\ StepOf(c).do = kind
  BY <1>3 DEF AtStep, Length, StepOf
<1>4. CASE SetStatus(c) \/ Proceed(c) \/ BackUp(c) \/ CommitConfigs(c) \/ CommandSucceeds(c)
  <2>1. /\ job[c] = "running" /\ pc[c] <= Length(c)
        /\ StepOf(c).do \in {"status", "try", "preflight", "backup", "record", "command"}
    BY <1>3, <1>4 DEF SetStatus, Proceed, BackUp, CommitConfigs, CommandSucceeds
  <2>2. UNCHANGED <<cliVars, job>> /\ pc' = [pc EXCEPT ![c] = @ + 1]
    BY <1>4 DEF SetStatus, Proceed, BackUp, CommitConfigs, CommandSucceeds, Advance
  <2>3. /\ \/ StepOf(c).do = "status" /\ cstatus' = [cstatus EXCEPT ![c] = StepOf(c).to]
           \/ StepOf(c).do # "status" /\ UNCHANGED cstatus
        /\ \/ StepOf(c).do = "backup" /\ backups' = [backups EXCEPT ![c] = @ \cup StepOf(c).files]
           \/ StepOf(c).do # "backup" /\ UNCHANGED backups
        /\ \/ StepOf(c).do = "record" /\ configs' = [configs EXCEPT ![c] = @ \cup StepOf(c).files]
           \/ StepOf(c).do # "record" /\ UNCHANGED configs
        /\ \/ StepOf(c).do = "command" /\ used' = [used EXCEPT ![c] = @ \cup StepOf(c).files]
           \/ StepOf(c).do # "command" /\ UNCHANGED used
    <3>1. CASE SetStatus(c) BY <1>3, <3>1 DEF SetStatus, recordVars
    <3>2. CASE Proceed(c) BY <1>3, <3>2 DEF Proceed, recordVars
    <3>3. CASE BackUp(c) BY <1>3, <3>3 DEF BackUp
    <3>4. CASE CommitConfigs(c) BY <1>3, <3>4 DEF CommitConfigs
    <3>5. CASE CommandSucceeds(c) BY <1>3, <3>5 DEF CommandSucceeds, HandOver
    <3>6. QED BY <1>4, <3>1, <3>2, <3>3, <3>4, <3>5
  <2>4. TypeOK'
    <3>1. \A d \in Creates : pc'[d] \in 0 .. (IF method'[d] = "none" THEN 0
                                            ELSE Len(Program[method'[d]]) + 1)
      BY <1>1, <2>1, <2>2 DEF TypeOK, Length, Methods, cliVars
    <3>2. cstatus' \in [Creates -> Statuses \cup {"none"}] BY <1>1, <1>2, <2>1, <2>3 DEF TypeOK
    <3>3. backups' \in [Creates -> SUBSET Files] BY <1>1, <1>2, <2>1, <2>3 DEF TypeOK
    <3>4. configs' \in [Creates -> SUBSET Files] BY <1>1, <1>2, <2>1, <2>3, SMTT(30) DEF TypeOK
    <3>5. used' \in [Creates -> SUBSET Files] BY <1>1, <1>2, <2>1, <2>3, SMTT(30) DEF TypeOK
    <3>6. pc' \in [Creates -> Nat] BY <1>1, <2>2 DEF TypeOK
    <3>7. QED BY <1>1, <2>2, <3>1, <3>2, <3>3, <3>4, <3>5, <3>6 DEF TypeOK, cliVars
  <2>5. Frame(c) BY <1>1, <2>2, <2>3 DEF Frame, TypeOK, cliVars
  <2>6. /\ pc'[c] = pc[c] + 1
        /\ cstatus'[c] = IF StepOf(c).do = "status" THEN StepOf(c).to ELSE cstatus[c]
        /\ backups'[c] = IF StepOf(c).do = "backup" THEN backups[c] \cup StepOf(c).files ELSE backups[c]
        /\ configs'[c] = IF StepOf(c).do = "record" THEN configs[c] \cup StepOf(c).files ELSE configs[c]
        /\ used'[c] = IF StepOf(c).do = "command" THEN used[c] \cup StepOf(c).files ELSE used[c]
    BY <1>1, <2>2, <2>3 DEF TypeOK
  <2>7. QED BY <1>1, <2>1, <2>2, <2>4, <2>5, <2>6, StepDone
<1>5. CASE \/ PreflightFails(c) \/ CommandFails(c) \/ MarkFailed(c)
           \/ Raises(c) \/ Returns(c) \/ Killed(c)
  <2>1. /\ UNCHANGED <<cliVars, pc, backups, configs>>
        /\ \E to \in {"failing", "marked", "returned", "raised", "killed"} :
             /\ job' = [job EXCEPT ![c] = to]
             /\ to = "failing" => job[c] = "running"
             /\ to = "returned" => job[c] = "running" /\ pc[c] > Length(c)
             /\ to \in {"failing", "marked", "raised"} => pc[c] <= Length(c)
             /\ \/ UNCHANGED cstatus
                \/ to = "marked" /\ \E s \in {"failed", "preflight-failed"} :
                                       cstatus' = [cstatus EXCEPT ![c] = s]
             /\ \/ UNCHANGED used
                \/ /\ job[c] = "running" /\ pc[c] <= Length(c) /\ StepOf(c).do = "command"
                   /\ used' = [used EXCEPT ![c] = @ \cup StepOf(c).files]
    <3>1. CASE PreflightFails(c) BY <1>3, <3>1 DEF PreflightFails, Becomes, recordVars
    <3>2. CASE CommandFails(c) BY <1>3, <3>2 DEF CommandFails, Becomes, HandOver
    <3>3. CASE MarkFailed(c)
      <4>1. /\ job[c] = "failing" /\ job' = [job EXCEPT ![c] = "marked"]
            /\ cstatus' = [cstatus EXCEPT ![c] = FailedAt(c)]
            /\ UNCHANGED <<cliVars, pc, backups, configs, used>>
        BY <3>3 DEF MarkFailed, Becomes, recordVars
      <4>2. FailedAt(c) \in {"failed", "preflight-failed"} BY DEF FailedAt
      <4>3. pc[c] <= Length(c) BY <1>1, <4>1 DEF IInv, CreateInv, JobInv
      <4>4. QED BY <4>1, <4>2, <4>3
    <3>4. CASE Raises(c) BY <3>4 DEF Raises, Becomes, Length, recordVars
    <3>5. CASE Returns(c) BY <3>5 DEF Returns, Becomes, Length, recordVars
    <3>6. CASE Killed(c) BY <3>6 DEF Killed, Becomes, recordVars
    <3>7. QED BY <1>5, <3>1, <3>2, <3>3, <3>4, <3>5, <3>6
  <2>2. TypeOK'
    <3>1. cstatus' \in [Creates -> Statuses \cup {"none"}] BY <1>1, <2>1 DEF TypeOK, Statuses
    <3>2. used' \in [Creates -> SUBSET Files]
      <4>1. used \in [Creates -> SUBSET Files] BY <1>1 DEF TypeOK
      <4>2. CASE UNCHANGED used BY <4>1, <4>2
      <4>3. CASE pc[c] <= Length(c) /\ used' = [used EXCEPT ![c] = @ \cup StepOf(c).files]
        BY <1>2, <4>1, <4>3
      <4>4. QED BY <2>1, <4>2, <4>3
    <3>3. job' \in [Creates -> {"none", "returned", "raised", "killed"} \cup Alive]
      BY <1>1, <2>1 DEF TypeOK, Alive
    <3>4. QED BY <1>1, <2>1, <3>1, <3>2, <3>3 DEF TypeOK, cliVars
  <2>3. Frame(c) BY <1>1, <2>1 DEF Frame, TypeOK, cliVars
  <2>4. /\ job'[c] \in {"failing", "marked", "returned", "raised", "killed"}
        /\ job'[c] = "failing" => job[c] = "running"
        /\ job'[c] = "returned" => job[c] = "running" /\ pc[c] > Length(c)
        /\ job'[c] \in {"failing", "marked", "raised"} => pc[c] <= Length(c)
        /\ \/ cstatus'[c] = cstatus[c]
           \/ job'[c] = "marked" /\ cstatus'[c] \in {"failed", "preflight-failed"}
        /\ \/ used'[c] = used[c]
           \/ /\ job[c] = "running" /\ pc[c] <= Length(c) /\ StepOf(c).do = "command"
              /\ used'[c] = used[c] \cup StepOf(c).files
    BY <1>1, <2>1 DEF TypeOK
  <2>5. QED BY <1>1, <2>1, <2>2, <2>3, <2>4, JobLeaves
<1>6. QED BY <1>4, <1>5 DEF Install

\* The invariant is inductive.
LEMMA NextKeeps == IInv /\ [Next]_vars => IInv'
<1> SUFFICES ASSUME IInv, [Next]_vars PROVE IInv'
    OBVIOUS
<1>1. CASE UNCHANGED vars
  BY <1>1
  DEF vars, cliVars, jobVars, recordVars, IInv, TypeOK, CreateInv, CliInv, JobInv, DoneInv, HostInv,
      Hosted, NamesApart, BackedUpBeforeUse, Length
<1>2. QED BY <1>1, CreateKeeps, InstallKeeps DEF Next

-----------------------------------------------------------------------------
\* The invariant of all clusters holds throughout, for any number of them.
THEOREM Inductive == Spec => []IInv
<1>1. Init => IInv BY InitIInv
<1>2. IInv /\ [Next]_vars => IInv' BY NextKeeps
<1>3. QED BY <1>1, <1>2, PTL DEF Spec

\* The state has its type (cli/cluster.py 64-216, core/installers).
THEOREM TypeCorrect == Spec => []TypeOK
<1>1. IInv => TypeOK BY DEF IInv
<1>2. QED BY <1>1, Inductive, PTL

\* What is staged has a backup and a row before an installer or assisted-service is
\* given it: each of the four manifests, and not the payload of the infra-env, which
\* is never staged (base.py 76-125; assisted.py 68-83 and 88-96).
THEOREM BackedUp == Spec => []BackedUpBeforeUse
<1>1. IInv => BackedUpBeforeUse BY DEF IInv
<1>2. QED BY <1>1, Inductive, PTL

\* The status and the job's end agree in all handlers, also when the job is killed
\* after the commit of the status and before the exception (core/installers).
THEOREM Outcome == Spec => []StatusTellsOutcome
<1>1. ASSUME IInv, NEW c \in Creates
      PROVE  /\ cstatus[c] = "installed" =>
                  /\ Inputs(method[c]) \subseteq used[c]
                  /\ Kubeconfig \in backups[c]
                  /\ job[c] \in {"running", "returned", "killed"}
             /\ cstatus[c] \in {"failed", "preflight-failed"} =>
                  job[c] \in {"marked", "raised", "killed"}
             /\ job[c] = "returned" => cstatus[c] = "installed"
  <2>1. CreateInv(c) /\ TypeOK BY <1>1 DEF IInv
  <2>2. CASE job[c] = "none"
    BY <2>1, <2>2, <1>1, WholeProgram DEF CreateInv, CliInv, TypeOK
  <2>3. CASE job[c] # "none"
    BY <2>1, <2>3, <1>1, WholeProgram DEF CreateInv, JobInv, TypeOK, Alive
  <2>4. QED BY <2>2, <2>3
<1>2. IInv => StatusTellsOutcome BY <1>1 DEF StatusTellsOutcome
<1>3. QED BY <1>2, Inductive, PTL

\* A management cluster stays what it was chosen for (cluster.py 62-112, hcp.py 64-88).
THEOREM OnInstalled == Spec => []HostedOnInstalled
<1>1. IInv => HostedOnInstalled
  BY DEF IInv, CreateInv, CliInv, HostInv, Hosted, HostedOnInstalled
<1>2. QED BY <1>1, Inductive, PTL

\* Clusters with a job have different names (state_schema.sql, ipi.py 37).
THEOREM Apart == Spec => []DirectoriesApart
<1>1. IInv => DirectoriesApart
  BY DEF IInv, CreateInv, JobInv, NamesApart, DirectoriesApart
<1>2. QED BY <1>1, Inductive, PTL

-----------------------------------------------------------------------------
(* The abstract lifecycle *)

\* A step changes the variables of one cluster only.
LEMMA OnlyOne ==
  ASSUME TypeOK, NEW c \in Creates, Create(c) \/ Install(c)
  PROVE  Frame(c)
<1> USE DEF TypeOK, Frame, jobVars, recordVars, cliVars, Refuse
<1>1. CASE Ask(c) BY <1>1 DEF Ask
<1>2. CASE InsertCluster(c) \/ InsertRefused(c) \/ AnswerPrompts(c) \/ Abort(c)
  BY <1>2 DEF InsertCluster, InsertRefused, AnswerPrompts, Abort
<1>3. CASE SelectManagementCluster(c) \/ NoManagementCluster(c) \/ StartJob(c)
  BY <1>3 DEF SelectManagementCluster, NoManagementCluster, StartJob
<1>4. CASE SetStatus(c) \/ Proceed(c) \/ BackUp(c) \/ CommitConfigs(c) \/ CommandSucceeds(c)
  BY <1>4 DEF SetStatus, Proceed, BackUp, CommitConfigs, CommandSucceeds, Advance, HandOver
<1>5. CASE PreflightFails(c) \/ CommandFails(c) \/ Raises(c) \/ Returns(c) \/ Killed(c)
  BY <1>5 DEF PreflightFails, CommandFails, Raises, Returns, Killed, Becomes, HandOver
<1>6. CASE MarkFailed(c) BY <1>6 DEF MarkFailed, Becomes
<1>7. QED BY <1>1, <1>2, <1>3, <1>4, <1>5, <1>6 DEF Create, Install

\* What a step of a cluster's owner or job does to the abstract variables
LEMMA AbstractFrame ==
  ASSUME NEW c \in Creates, Frame(c)
  PROVE  /\ lifecycleStatus' = [lifecycleStatus EXCEPT ![c] = lifecycleStatus'[c]]
         /\ lifecycleKept' = [lifecycleKept EXCEPT ![c] = lifecycleKept'[c]]
         /\ lifecycleOutcome' = [lifecycleOutcome EXCEPT ![c] = lifecycleOutcome'[c]]
<1> USE DEF Frame
<1>1. lifecycleStatus' = [lifecycleStatus EXCEPT ![c] = lifecycleStatus'[c]]
  BY DEF lifecycleStatus
<1>2. lifecycleKept' = [lifecycleKept EXCEPT ![c] = lifecycleKept'[c]]
  BY DEF lifecycleKept
<1>3. lifecycleOutcome' = [lifecycleOutcome EXCEPT ![c] = lifecycleOutcome'[c]]
  BY DEF lifecycleOutcome
<1>4. QED BY <1>1, <1>2, <1>3

\* A job that is not at its end, and has not marked its cluster, has told nothing final.
LEMMA NothingFinal ==
  ASSUME IInv, NEW c \in Creates, job[c] \in {"running", "failing"}, pc[c] <= Length(c)
  PROVE  /\ lifecycleStatus[c] = "underway" /\ lifecycleOutcome[c] = "none"
         /\ pc[c] = Length(c) => Kubeconfig \in backups[c]
<1> DEFINE P == Program[method[c]]
<1>1. Sound(P) /\ pc[c] \in 1 .. Length(c) /\ Length(c) \in Nat /\ Length(c) = Len(P)
  BY ThisStep DEF Length, Alive
<1>2. cstatus[c] \notin {"none", "installed", "failed", "preflight-failed"}
  BY <1>1 DEF IInv, CreateInv, JobInv
<1>3. ASSUME pc[c] = Length(c) PROVE Kubeconfig \in backups[c]
  <2>1. PICK k \in 1 .. Len(P) : P[k] = Backup(Kubeconfig) BY <1>1 DEF Sound
  <2>2. P[k].do = "backup" /\ Kubeconfig \in P[k].files BY <2>1, RecordFields
  <2>3. P[Len(P)].do = "status" BY <1>1 DEF Sound, Installed, Status
  <2>4. k < pc[c] BY <1>1, <1>3, <2>2, <2>3
  <2>5. QED BY <1>1, <2>2, <2>4 DEF IInv, CreateInv, DoneInv
<1>4. QED BY <1>2, <1>3 DEF lifecycleStatus, lifecycleOutcome

\* Every step of `cluster create` and of a job is one of the lifecycle, or none.
LEMMA AbstractStep ==
  ASSUME IInv, NEW c \in Creates, Create(c) \/ Install(c)
  PROVE  [Lifecycle!Next]_(Lifecycle!lifecycleVars)
<1> USE DEF Lifecycle!lifecycleVars
<1> DEFINE Same == UNCHANGED <<lifecycleStatus, lifecycleKept, lifecycleOutcome>>
<1>1. CreateInv(c) /\ TypeOK /\ Frame(c) BY OnlyOne DEF IInv
<1>2. /\ lifecycleStatus' = [lifecycleStatus EXCEPT ![c] = lifecycleStatus'[c]]
      /\ lifecycleKept' = [lifecycleKept EXCEPT ![c] = lifecycleKept'[c]]
      /\ lifecycleOutcome' = [lifecycleOutcome EXCEPT ![c] = lifecycleOutcome'[c]]
  BY <1>1, AbstractFrame
<1>3. CASE \/ Ask(c) \/ InsertRefused(c) \/ AnswerPrompts(c) \/ Abort(c)
           \/ SelectManagementCluster(c) \/ NoManagementCluster(c)
           \/ Proceed(c) \/ CommitConfigs(c) \/ CommandSucceeds(c)
  <2>1. UNCHANGED <<cstatus, backups, job>>
    BY <1>3 DEF Ask, InsertRefused, AnswerPrompts, Abort, SelectManagementCluster,
                NoManagementCluster, Proceed, CommitConfigs, CommandSucceeds, Advance,
                recordVars, jobVars
  <2>2. Same BY <2>1 DEF lifecycleStatus, lifecycleKept, lifecycleOutcome
  <2>3. QED BY <2>2
<1>4. CASE StartJob(c) \/ PreflightFails(c) \/ CommandFails(c) \/ Killed(c)
  <2>1. /\ UNCHANGED <<cstatus, backups>>
        /\ job[c] \in {"none"} \cup Alive /\ job'[c] \in {"running", "failing", "killed"}
    BY <1>1, <1>4 DEF StartJob, PreflightFails, CommandFails, Killed, Becomes, AtStep, Alive,
                      CreateInv, CliInv, TypeOK, recordVars
  <2>2. UNCHANGED <<lifecycleStatus, lifecycleKept>> BY <2>1 DEF lifecycleStatus, lifecycleKept
  <2>3. lifecycleOutcome' = lifecycleOutcome
    BY <1>1, <2>1 DEF lifecycleOutcome, Frame, Alive
  <2>4. QED BY <2>2, <2>3
<1>5. CASE InsertCluster(c)
  <2>1. /\ cstatus[c] = "none" /\ cstatus'[c] = "created" /\ UNCHANGED <<backups, job>>
    BY <1>1, <1>5 DEF InsertCluster, CreateInv, CliInv, TypeOK, jobVars, recordVars
  <2>2. lifecycleStatus[c] = "none" /\ lifecycleStatus'[c] = "underway"
    BY <2>1 DEF lifecycleStatus
  <2>3. UNCHANGED <<lifecycleKept, lifecycleOutcome>> BY <2>1 DEF lifecycleKept, lifecycleOutcome
  <2>4. Lifecycle!Begin(c) BY <1>2, <2>2, <2>3 DEF Lifecycle!Begin
  <2>5. QED BY <2>4 DEF Lifecycle!Next
<1>6. CASE SetStatus(c)
  <2>1. /\ job[c] = "running" /\ pc[c] <= Length(c) /\ StepOf(c).do = "status"
        /\ cstatus'[c] = StepOf(c).to /\ UNCHANGED <<backups, job>>
    BY <1>1, <1>6 DEF SetStatus, AtStep, StepOf, Length, Advance, TypeOK, recordVars
  <2>2. /\ StepOf(c).to \in Told \cup {"installed"}
        /\ StepOf(c).to = "installed" <=> pc[c] = Length(c)
    BY <2>1, ThisStep DEF Alive
  <2>3. /\ lifecycleStatus[c] = "underway" /\ lifecycleOutcome[c] = "none"
        /\ pc[c] = Length(c) => lifecycleKept[c]
    BY <2>1, NothingFinal DEF lifecycleKept
  <2>4. UNCHANGED <<lifecycleKept, lifecycleOutcome>> BY <2>1 DEF lifecycleKept, lifecycleOutcome
  <2>5. CASE StepOf(c).to = "installed"
    <3>1. lifecycleStatus'[c] = "installed" BY <2>1, <2>5 DEF lifecycleStatus
    <3>2. Lifecycle!MarkInstalled(c)
      BY <1>2, <2>2, <2>3, <2>4, <2>5, <3>1 DEF Lifecycle!MarkInstalled, Lifecycle!Underway
    <3>3. QED BY <3>2 DEF Lifecycle!Next
  <2>6. CASE StepOf(c).to \in Told
    <3>1. lifecycleStatus'[c] = "underway" BY <2>1, <2>6 DEF lifecycleStatus, Told
    <3>2. lifecycleStatus' = lifecycleStatus BY <1>2, <2>3, <3>1 DEF lifecycleStatus
    <3>3. QED BY <2>4, <3>2
  <2>7. QED BY <2>2, <2>5, <2>6
<1>7. CASE BackUp(c)
  <2>1. /\ job[c] = "running" /\ pc[c] <= Length(c)
        /\ UNCHANGED <<cstatus, job>> /\ backups[c] \subseteq backups'[c]
    BY <1>1, <1>7 DEF BackUp, AtStep, Length, Advance, TypeOK
  <2>2. lifecycleStatus[c] = "underway" /\ lifecycleOutcome[c] = "none"
    BY <2>1, NothingFinal
  <2>3. UNCHANGED <<lifecycleStatus, lifecycleOutcome>> BY <2>1 DEF lifecycleStatus, lifecycleOutcome
  <2>4. CASE Kubeconfig \in backups'[c]
    <3>1. lifecycleKept'[c] = TRUE BY <2>4 DEF lifecycleKept
    <3>2. Lifecycle!Keep(c)
      BY <1>2, <2>2, <2>3, <3>1 DEF Lifecycle!Keep, Lifecycle!Underway
    <3>3. QED BY <3>2 DEF Lifecycle!Next
  <2>5. CASE Kubeconfig \notin backups'[c]
    <3>1. \A d \in Creates : (Kubeconfig \in backups'[d]) = (Kubeconfig \in backups[d])
      BY <1>1, <2>1, <2>5 DEF Frame
    <3>2. lifecycleKept' = lifecycleKept BY <3>1 DEF lifecycleKept
    <3>3. QED BY <2>3, <3>2
  <2>6. QED BY <2>4, <2>5
<1>8. CASE Returns(c)
  <2>1. job[c] = "running" /\ job'[c] = "returned" /\ pc[c] > Length(c) /\ UNCHANGED <<cstatus, backups>>
    BY <1>1, <1>8 DEF Returns, Becomes, Length, TypeOK, recordVars
  <2>2. cstatus[c] = "installed"
    <3>1. method[c] \in Methods /\ pc[c] \in 1 .. Length(c) + 1
      BY <1>1, <2>1 DEF CreateInv, CliInv, JobInv
    <3>2. Length(c) \in Nat BY <3>1, Programs DEF Sound, Length
    <3>3. QED BY <1>1, <2>1, <3>1, <3>2 DEF CreateInv, JobInv
  <2>3. /\ lifecycleStatus[c] = "installed" /\ lifecycleOutcome[c] = "none"
        /\ lifecycleOutcome'[c] = "succeeded"
    BY <2>1, <2>2 DEF lifecycleStatus, lifecycleOutcome
  <2>4. UNCHANGED <<lifecycleStatus, lifecycleKept>> BY <2>1 DEF lifecycleStatus, lifecycleKept
  <2>5. Lifecycle!Succeed(c) BY <1>2, <2>3, <2>4 DEF Lifecycle!Succeed
  <2>6. QED BY <2>5 DEF Lifecycle!Next
<1>9. CASE MarkFailed(c)
  <2>1. /\ job[c] = "failing" /\ job' = [job EXCEPT ![c] = "marked"] /\ UNCHANGED backups
        /\ cstatus'[c] = FailedAt(c)
    BY <1>1, <1>9 DEF MarkFailed, Becomes, TypeOK, recordVars
  <2>2. FailedAt(c) \in {"failed", "preflight-failed"} BY DEF FailedAt
  <2>3. pc[c] <= Length(c)
    <3>1. method[c] \in Methods /\ pc[c] \in 1 .. Length(c) + 1 /\ pc[c] # Length(c) + 1
      BY <1>1, <2>1 DEF CreateInv, CliInv, JobInv
    <3>2. Length(c) \in Nat BY <3>1, Programs DEF Sound, Length
    <3>3. QED BY <3>1, <3>2
  <2>4. lifecycleStatus[c] = "underway" /\ lifecycleOutcome[c] = "none"
    BY <2>1, <2>3, NothingFinal
  <2>5. lifecycleStatus'[c] = "failed" BY <2>1, <2>2 DEF lifecycleStatus
  <2>6. lifecycleKept' = lifecycleKept BY <2>1 DEF lifecycleKept
  <2>7. lifecycleOutcome' = lifecycleOutcome BY <1>1, <2>1 DEF lifecycleOutcome, TypeOK
  <2>8. Lifecycle!MarkFailed(c)
    BY <1>2, <2>4, <2>5, <2>6, <2>7 DEF Lifecycle!MarkFailed, Lifecycle!Underway
  <2>9. QED BY <2>8 DEF Lifecycle!Next
<1>10. CASE Raises(c)
  <2>1. /\ job[c] \in Alive /\ pc[c] <= Length(c) /\ job'[c] = "raised"
        /\ UNCHANGED <<backups, cstatus>>
    BY <1>1, <1>10 DEF Raises, Becomes, Length, TypeOK, recordVars
  <2>2. lifecycleStatus[c] \in {"underway", "failed"}
    <3>1. Length(c) \in Nat BY <2>1, ThisStep
    <3>2. cstatus[c] \notin {"none", "installed"}
      BY <1>1, <2>1, <3>1 DEF CreateInv, JobInv, Alive
    <3>3. QED BY <3>2 DEF lifecycleStatus
  <2>3. lifecycleOutcome[c] = "none" /\ lifecycleOutcome'[c] = "failed"
    BY <2>1 DEF lifecycleOutcome, Alive
  <2>4. UNCHANGED <<lifecycleStatus, lifecycleKept>> BY <2>1 DEF lifecycleStatus, lifecycleKept
  <2>5. Lifecycle!Fail(c) BY <1>2, <2>2, <2>3, <2>4 DEF Lifecycle!Fail
  <2>6. QED BY <2>5 DEF Lifecycle!Next
<1>11. QED
  BY <1>3, <1>4, <1>5, <1>6, <1>7, <1>8, <1>9, <1>10 DEF Create, Install

\* What the owner of a cluster is told implements the abstract lifecycle, with any
\* method (ipi.py 32-79, agent.py 35-94, upi.py 36-163, assisted.py 40-139, hcp.py 45-143).
THEOREM Refinement == Spec => ImplementsClusterLifecycle
<1>1. Init => Lifecycle!Init
  <2> SUFFICES ASSUME Init PROVE Lifecycle!Init
      OBVIOUS
  <2>1. lifecycleStatus = [c \in Creates |-> "none"] /\ lifecycleOutcome = [c \in Creates |-> "none"]
    BY DEF Init, lifecycleStatus, lifecycleOutcome
  <2>2. \A c \in Creates : (Kubeconfig \in backups[c]) = FALSE BY DEF Init
  <2>3. lifecycleKept = [c \in Creates |-> FALSE] BY <2>2 DEF lifecycleKept
  <2>4. QED BY <2>1, <2>3 DEF Lifecycle!Init
<1>2. IInv /\ [Next]_vars => [Lifecycle!Next]_(Lifecycle!lifecycleVars)
  <2> SUFFICES ASSUME IInv, [Next]_vars PROVE [Lifecycle!Next]_(Lifecycle!lifecycleVars)
      OBVIOUS
  <2>1. CASE UNCHANGED vars
    BY <2>1 DEF vars, recordVars, jobVars, lifecycleStatus, lifecycleKept, lifecycleOutcome,
                Lifecycle!lifecycleVars
  <2>2. QED BY <2>1, AbstractStep DEF Next
<1>3. QED BY Inductive, <1>1, <1>2, PTL DEF Spec, ImplementsClusterLifecycle, Lifecycle!Spec
===============================================================================

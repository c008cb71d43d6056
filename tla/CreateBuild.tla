----------------------------- MODULE CreateBuild -----------------------------
(***************************************************************************)
(* From a catalog entry to manifests (cli/cluster.py `create`, wizard.py,  *)
(* catalog_loader.py, manifest_builder.py, cli/catalog.py `update`).  The  *)
(* command reads the catalog to ask the user; the job it starts reads the  *)
(* catalog again, for what it builds.  Each reads two files, the version   *)
(* matrix and the entry, and each file from the user's override directory  *)
(* when it is there and from the package when it is not.  `catalog update` *)
(* has git rewrite the override one file at a time, at any moment.         *)
(* Secrets come and go as well (`credentials set` and `delete`): when the  *)
(* build asks the keyring for one, it is there or not.                     *)
(*                                                                         *)
(* One command and its job for one version, platform and method.  A field  *)
(* value is known by where it comes from; a transform only gives it        *)
(* another shape.  The fields of one manifest have paths of which none is  *)
(* another's or a part of it, as in every entry of the package: what       *)
(* _set_nested does to fields that collide is not modelled.                *)
(***************************************************************************)
EXTENDS Integers, Sequences

CONSTANTS
  Trees,        \* what the catalog has been: of the package, or in the shared repository
  Bundled,      \* the tree of the package
  Entry,        \* Entry[t]: the fields of the entry, those of all its manifests
  Lacking,      \* trees without a file for this entry
  Preview,      \* Preview[t]: the files that give the version or the entry as a preview
  MaxUpdates

Files == {"matrix", "entry"}
NoFile == {"absent", "empty"}
Sources == {"constant", "user_input", "unsaid", "environment_profile", "keyring", "derived",
            "unknown"}
Transforms == {"none", "wrap_cidr_list", "hosts_to_nmstate", "unknown"}
ProfileKeys == {"machine_network_cidr", "derived_blocks"}   \* without the file there is neither

Fields == UNION {{Entry[t][n] : n \in 1 .. Len(Entry[t])} : t \in Trees}
Ids == {f.id : f \in Fields}
Paths == {f.path : f \in Fields}
Name == "metadata.name"

ASSUME TreesAssumption == Bundled \in Trees \ Lacking /\ Trees \cap NoFile = {}
ASSUME PreviewAssumption == Preview \in [Trees -> SUBSET Files]
ASSUME EntryAssumption ==
  /\ Entry \in [Trees -> Seq(Fields)]
  /\ \A f \in Fields : /\ f.source \in Sources /\ f.transform \in Transforms
                       /\ {f.required, f.default, f.check} \subseteq BOOLEAN
\* A field is one of its entry's, and is derived from an earlier one
ASSUME OrderAssumption ==
  \A t \in Trees : \A n, m \in 1 .. Len(Entry[t]) :
    /\ Entry[t][n].id = Entry[t][m].id => n = m
    /\ Entry[t][n].source = "derived" /\ Entry[t][n].from = Entry[t][m].id => m < n
ASSUME MaxUpdatesAssumption == MaxUpdates \in Nat

VARIABLES
  override,     \* override[f]: the tree the file is from
  update,       \* the tree `catalog update` brings, and the files it has still to write
  generation,   \* odd while the override is between two trees
  platform,     \* the entry's platform, the namespace of its secrets
  profile,      \* what the environment profile has
  process,      \* which of the two processes runs
  stage,        \* what it does next
  root,         \* where it has found the file it is about to read
  load,         \* load[p]: the trees p has read its files from, and when
  confirmed,    \* the user has agreed to a preview
  answers,
  field,        \* the field being built
  manifest,     \* manifest[id]: the value of a field, in the document or the registry
  cause         \* why the process stopped

catalogVars == <<override, update, generation>>
secretVars == <<platform, profile>>
buildVars == <<field, manifest>>
vars == <<catalogVars, secretVars, process, stage, root, load, confirmed, answers, buildVars, cause>>

NoUpdate == [tree |-> Bundled, todo |-> {}, on |-> FALSE]
NoLoad == [matrix |-> "absent", entry |-> "absent", first |-> 0, last |-> 0]

Given == {"inside", "outside", "null"}   \* an answer: within the network, elsewhere, none
Values == Given \cup {"constant", "default", "block", "own", "vsphere"}

TypeOK ==
  /\ override \in [Files -> Trees \cup NoFile]
  /\ update \in [tree : Trees, todo : SUBSET Files, on : BOOLEAN]
  /\ generation \in 0 .. 2 * MaxUpdates
  /\ platform \in {"own", "vsphere"}
  /\ profile \subseteq ProfileKeys
  /\ process \in {"create", "job"}
  /\ stage \in Files \cup {"confirm", "ask", "profile", "build", "built", "stopped"}
  /\ root \in {"none", "override", "bundled"}
  /\ load \in [{"create", "job"} -> [matrix : Trees \cup NoFile, entry : Trees \cup NoFile,
                                     first : Nat, last : Nat]]
  /\ confirmed \in BOOLEAN
  /\ answers \in [Paths -> Given \cup {"unasked"}]
  /\ field \in Nat \ {0}
  /\ manifest \in [Ids -> Values \cup {"unset"}]
  /\ cause \in {"none", "catalog", "user", "missing", "profile", "secret", "cidr", "unknown"}

Content(t, f) == IF f = "entry" /\ t \in Lacking THEN "absent" ELSE t

\* The catalog has been updated before, or not
Init ==
  /\ \/ override = [f \in Files |-> "absent"]
     \/ \E t \in Trees \ {Bundled} : override = [f \in Files |-> Content(t, f)]
  /\ update = NoUpdate
  /\ generation = 0
  /\ platform \in {"own", "vsphere"}
  /\ profile = {}
  /\ process = "create"
  /\ stage = "matrix"
  /\ root = "none"
  /\ load = [p \in {"create", "job"} |-> NoLoad]
  /\ confirmed = FALSE
  /\ answers = [p \in Paths |-> "unasked"]
  /\ field = 1
  /\ manifest = [i \in Ids |-> "unset"]
  /\ cause = "none"

-----------------------------------------------------------------------------
(* `catalog update`, that is git clone or git pull, while somebody reads the catalog *)

Reading == stage \in Files

processVars == <<secretVars, process, stage, root, load, confirmed, answers, buildVars, cause>>

BeginUpdate(t) ==
  /\ Reading /\ ~update.on
  /\ generation < 2 * MaxUpdates
  /\ update' = [tree |-> t, todo |-> {f \in Files : override[f] # Content(t, f)}, on |-> TRUE]
  /\ generation' = IF generation % 2 = 0 THEN generation + 1 ELSE generation
  /\ UNCHANGED <<override, processVars>>

\* git takes a file away, makes it anew and writes it
RewriteFile(f) ==
  LET new == Content(update.tree, f)
      now == IF override[f] \in Trees THEN "absent"
             ELSE IF override[f] = "absent" /\ new # "absent" THEN "empty" ELSE new
  IN /\ Reading /\ f \in update.todo
     /\ override' = [override EXCEPT ![f] = now]
     /\ update' = [update EXCEPT !.todo = IF now = new THEN @ \ {f} ELSE @]
     /\ UNCHANGED <<generation, processVars>>

EndUpdate ==
  /\ Reading /\ update.on
  /\ update.todo = {}
  /\ generation' = generation + 1
  /\ update' = NoUpdate
  /\ UNCHANGED <<override, processVars>>

InterruptUpdate ==
  /\ Reading /\ update.on
  /\ update' = NoUpdate
  /\ UNCHANGED <<override, generation, processVars>>

Others == \/ \E t \in Trees \ {Bundled} : BeginUpdate(t)
          \/ \E f \in Files : RewriteFile(f)
          \/ EndUpdate \/ InterruptUpdate

-----------------------------------------------------------------------------
(* Catalog.load_entry, in either process *)

Stop(why) == stage' = "stopped" /\ cause' = why

\* Bug: the entry is looked up in the package first.
FindBundledEntry ==
  /\ stage \in Files
  /\ root = "none"
  /\ root' = IF stage = "entry" \/ override[stage] = "absent" THEN "bundled" ELSE "override"
  /\ load' = [load EXCEPT ![process].first = IF stage = "matrix" THEN generation ELSE @]
  /\ UNCHANGED <<catalogVars, secretVars, process, stage, confirmed, answers, buildVars, cause>>

Find ==
  /\ stage \in Files
  /\ root = "none"
  /\ root' = IF override[stage] = "absent" THEN "bundled" ELSE "override"
  /\ load' = [load EXCEPT ![process].first = IF stage = "matrix" THEN generation ELSE @]
  /\ UNCHANGED <<catalogVars, secretVars, process, stage, confirmed, answers, buildVars, cause>>

\* An empty file is an empty mapping: of a matrix, no versions; of an entry, no manifests
IsPreview(l) == \/ "matrix" \in Preview[l.matrix]
                \/ l.entry \in Trees /\ "entry" \in Preview[l.entry]

\* Bug: a version that is a preview is not asked about.
AfterLoadOfEntry(l) ==
  IF process = "job" THEN "profile"
  ELSE IF l.entry \in Trees /\ "entry" \in Preview[l.entry] THEN "confirm" ELSE "ask"

AfterLoad(l) == IF process = "job" THEN "profile" ELSE IF IsPreview(l) THEN "confirm" ELSE "ask"

Read ==
  /\ stage \in Files
  /\ root # "none"
  /\ LET there == IF root = "bundled" THEN Bundled ELSE override[stage]
         l == [load[process] EXCEPT
                 ![stage] = there, !.last = generation]
     IN IF there = "absent" \/ (there = "empty" /\ stage = "matrix")
        THEN Stop("catalog") /\ UNCHANGED load
        ELSE /\ load' = [load EXCEPT ![process] = l]
             /\ stage' = IF stage = "matrix" THEN "entry" ELSE AfterLoad(l)
             /\ UNCHANGED cause
  /\ root' = "none"
  /\ UNCHANGED <<catalogVars, secretVars, process, confirmed, answers, buildVars>>

-----------------------------------------------------------------------------
(* The command: `cluster create` and collect_answers *)

EntryRead(p) == IF load[p].entry \in Trees THEN Entry[load[p].entry] ELSE <<>>

Confirm(yes) ==
  /\ stage = "confirm"
  /\ confirmed' = yes
  /\ IF yes THEN stage' = "ask" /\ UNCHANGED cause ELSE Stop("user")
  /\ UNCHANGED <<catalogVars, secretVars, process, root, load, answers, buildVars>>

Prompts == {f \in {EntryRead("create")[n] : n \in 1 .. Len(EntryRead("create"))} :
              f.source = "user_input"}

\* Bug: a type that has no prompt of its own is left out.
AskedUnchecked == {f.path : f \in {g \in Prompts : ~g.check}}

\* Only a field that says it is user_input is asked for
Asked == {f.path : f \in Prompts}

\* The user may get one answer wrong; without a cluster name nothing is started
Ask(odd, value) ==
  /\ stage = "ask"
  /\ answers' = [p \in Paths |-> IF p \notin Asked THEN "unasked"
                                 ELSE IF p = odd THEN value ELSE "inside"]
  /\ IF answers'[Name] \in {"unasked", "null"}
     THEN Stop("user") /\ UNCHANGED process
     ELSE process' = "job" /\ stage' = "matrix" /\ UNCHANGED cause
  /\ UNCHANGED <<catalogVars, secretVars, root, load, confirmed, buildVars>>

-----------------------------------------------------------------------------
(* build_manifests, in the job *)

This == EntryRead("job")[field]
Building(source) == stage = "build" /\ field <= Len(EntryRead("job")) /\ This.source = source

\* A constant is taken as it is; no hosts are not a list of them
Transformed(f) == IF f.source = "constant" THEN "none" ELSE f.transform
Unrendered(v) == \/ Transformed(This) = "unknown"
                 \/ Transformed(This) = "hosts_to_nmstate" /\ v = "null"

\* Fields whose addresses are looked at, the hosts' while they are rendered
Checked(f) == f.check \/ Transformed(f) = "hosts_to_nmstate"

\* The network is the profile's; without one nothing is checked
Rejected(v) ==
  Checked(This) /\ "machine_network_cidr" \in profile /\ v \in {"outside", "null"}

Put(v) ==
  IF Unrendered(v) THEN Stop("unknown") /\ UNCHANGED buildVars
  ELSE IF Rejected(v) THEN Stop("cidr") /\ UNCHANGED buildVars
  ELSE /\ manifest' = [manifest EXCEPT ![This.id] = v]
       /\ field' = field + 1
       /\ UNCHANGED <<stage, cause>>

jobVars == <<catalogVars, secretVars, process, root, load, confirmed, answers>>

\* The profile is read once, where it can be found
LoadProfile ==
  /\ stage = "profile"
  /\ \/ profile' \in SUBSET ProfileKeys /\ stage' = "build" /\ UNCHANGED cause
     \/ Stop("profile") /\ UNCHANGED profile
  /\ UNCHANGED <<catalogVars, platform, process, root, load, confirmed, answers, buildVars>>

TakeConstant == Building("constant") /\ Put("constant") /\ UNCHANGED jobVars

\* Bug: a default is used where there is one.
TakeInputDefaultFirst ==
  /\ Building("user_input") \/ Building("unsaid")
  /\ IF This.default THEN Put("default")
     ELSE IF answers[This.path] # "unasked" THEN Put(answers[This.path])
     ELSE IF This.required THEN Stop("missing") /\ UNCHANGED buildVars
     ELSE field' = field + 1 /\ UNCHANGED <<manifest, stage, cause>>
  /\ UNCHANGED jobVars

TakeInput ==
  /\ Building("user_input") \/ Building("unsaid")
  /\ IF answers[This.path] # "unasked" THEN Put(answers[This.path])
     ELSE IF This.default THEN Put("default")
     ELSE IF This.required THEN Stop("missing") /\ UNCHANGED buildVars
     ELSE field' = field + 1 /\ UNCHANGED <<manifest, stage, cause>>
  /\ UNCHANGED jobVars

\* A block may refer to the platform login in the keyring
TakeProfile ==
  /\ Building("environment_profile")
  /\ IF "derived_blocks" \notin profile THEN Stop("profile") /\ UNCHANGED buildVars
     ELSE Put("block") \/ (Stop("secret") /\ UNCHANGED buildVars)
  /\ UNCHANGED jobVars

\* Bug: a secret that is missing is left empty.
TakeSecretOrNull ==
  /\ Building("keyring")
  /\ \E stored \in SUBSET {platform, "vsphere"} :
     \/ platform \in stored /\ Put(platform)
     \/ platform \notin stored /\ "vsphere" \in stored /\ Put("vsphere")
     \/ {platform, "vsphere"} \cap stored = {} /\ Put("null")
  /\ UNCHANGED jobVars

TakeSecret ==
  /\ Building("keyring")
  /\ \E stored \in SUBSET {platform, "vsphere"} :
     \/ platform \in stored /\ Put(platform)
     \/ platform \notin stored /\ "vsphere" \in stored /\ Put("vsphere")
     \/ /\ {platform, "vsphere"} \cap stored = {}
        /\ IF This.required THEN Stop("secret") /\ UNCHANGED buildVars ELSE Put("null")
  /\ UNCHANGED jobVars

TakeDerived ==
  /\ Building("derived")
  /\ Put(IF This.from \in Ids /\ manifest[This.from] # "unset" THEN manifest[This.from]
         ELSE IF answers[This.path] # "unasked" THEN answers[This.path]
         ELSE "null")
  /\ UNCHANGED jobVars

TakeUnknown == Building("unknown") /\ Stop("unknown") /\ UNCHANGED <<jobVars, buildVars>>

Finish ==
  /\ stage = "build"
  /\ field > Len(EntryRead("job"))
  /\ stage' = "built"
  /\ UNCHANGED <<jobVars, buildVars, cause>>

Load == Find \/ Read
Command == \/ \E yes \in BOOLEAN : Confirm(yes)
           \/ \E p \in Paths, v \in Given : Ask(p, v)
Build == LoadProfile \/ TakeConstant \/ TakeInput \/ TakeProfile
         \/ TakeSecret \/ TakeDerived \/ TakeUnknown \/ Finish

Next == Load \/ Command \/ Build \/ Others

Spec == Init /\ [][Next]_vars

-----------------------------------------------------------------------------
(* Properties *)

\* The job has read what the command has read
Unchanged == /\ load["create"].matrix = load["job"].matrix
             /\ load["create"].entry = load["job"].entry

\* No update began, went on or was left unfinished between the two reads
Undisturbed(l) == l.first = l.last /\ l.last % 2 = 0

JobFields == {EntryRead("job")[n] : n \in 1 .. Len(EntryRead("job"))}

\* What is asked suffices: only an update between `create` and the job, or a field
\* without a source, makes the build miss an answer (wizard.py 73-85,
\* manifest_builder.py 168-176).
AskedSuffices ==
  cause = "missing" => ~Unchanged \/ This.source = "unsaid"

\* Every answer is in the manifests as it was given, unless the catalog was updated
\* since, and a derived field agrees with the field it names, in whatever manifest
\* that is (manifest_builder.py 168-171, 198-199, 209-210).
ManifestsAsAsked ==
  stage = "built" =>
    /\ Unchanged => \A p \in Asked : \E f \in JobFields :
                      f.path = p /\ manifest[f.id] = answers[p]
    /\ \A f \in JobFields :
         f.source = "derived" /\ f.from \in Ids /\ manifest[f.from] # "unset" =>
           manifest[f.id] = manifest[f.from]

\* No address outside the profile's network, a host's included, and no required
\* secret that is missing gets into a manifest, whatever became of catalog and
\* keyring during the build (manifest_builder.py 65-67, 125-130, 183-197, 203-207).
NothingWrongBuilt ==
  stage = "built" => \A f \in JobFields :
    /\ Checked(f) /\ "machine_network_cidr" \in profile =>
         manifest[f.id] \notin {"outside", "null"}
    /\ f.source = "keyring" /\ f.required => manifest[f.id] \in {platform, "vsphere"}

\* A preview is built only with the user's consent, or when the catalog has made it
\* one since (catalog_loader.py 62-64, cluster.py 142-149).
PreviewConfirmed ==
  process = "job" /\ Unchanged /\ IsPreview(load["job"]) => confirmed

\* The matrix and the entry are of one tree, unless an update was under way or the
\* tree has no such entry (catalog_loader.py 67-74, 87-96, 127-132).
OneTree ==
  \A p \in {"create", "job"} : load[p].entry # "absent" /\ Undisturbed(load[p]) =>
    \/ load[p].entry = load[p].matrix
    \/ load[p].entry = Bundled /\ load[p].matrix \in Lacking

=============================================================================

-------------------------- MODULE CreateBuild_proofs --------------------------
(***************************************************************************)
(* Theorems about CreateBuild, for any trees, entries and number of        *)
(* updates.  The invariant has three parts: what the override holds while  *)
(* no update is under way, what a reader knows that saw no update, and     *)
(* what has become of the fields that are built.                           *)
(***************************************************************************)
EXTENDS CreateBuild, TLAPS

Processes == {"create", "job"}
JobEntry == EntryRead("job")

\* Outside of updates the override is one tree, or not there
Settled == \/ \A f \in Files : override[f] = "absent"
           \/ \E t \in Trees : \A f \in Files : override[f] = Content(t, f)

CatalogInv ==
  /\ update.on => /\ generation % 2 = 1
                  /\ \A f \in Files \ update.todo : override[f] = Content(update.tree, f)
  /\ ~update.on => update.todo = {}
  /\ generation % 2 = 0 => Settled

\* Nothing has happened to the override since the process began to read
Quiet == load[process].first = generation /\ generation % 2 = 0

Place(f) == IF override[f] = "absent" THEN "bundled" ELSE "override"

ReadInv ==
  /\ \A p \in Processes : load[p].first <= generation
  /\ root # "none" => stage \in Files
  /\ stage \in Files => load[process].entry = "absent"
  /\ root # "none" /\ Quiet => root = Place(stage)
  /\ stage = "entry" /\ Quiet =>
       load[process].matrix = IF override["matrix"] = "absent" THEN Bundled ELSE override["matrix"]
  /\ process = "create" => load["job"].entry = "absent"

\* How far the two processes have come
StageInv ==
  /\ process = "create" => stage \notin {"profile", "build", "built"}
  /\ process = "job" => stage \notin {"confirm", "ask"}
  /\ stage = "entry" => load[process].matrix \in Trees
  /\ stage \in {"confirm", "ask"} \/ process = "job" =>
       load["create"].matrix \in Trees /\ load["create"].entry # "absent"
  /\ stage \in {"profile", "build", "built"} => load["job"].matrix \in Trees
  /\ stage = "ask" \/ process = "job" => (IsPreview(load["create"]) => confirmed)
  /\ process = "job" => \A p \in Asked : answers[p] \in Given
  /\ stage \notin {"build", "built", "stopped"} => field = 1 /\ \A i \in Ids : manifest[i] = "unset"
  /\ stage = "built" => field > Len(JobEntry)

\* What has become of the nth field
Built(n) ==
  LET f == JobEntry[n] IN
  /\ Checked(f) /\ "machine_network_cidr" \in profile =>
       manifest[f.id] \notin {"outside", "null"}
  /\ f.source = "keyring" /\ f.required => manifest[f.id] \in {platform, "vsphere"}
  /\ f.source = "user_input" /\ answers[f.path] # "unasked" => manifest[f.id] = answers[f.path]
  /\ f.source = "derived" /\ f.from \in Ids /\ manifest[f.from] # "unset" =>
       manifest[f.id] = manifest[f.from]

BuildInv ==
  stage \in {"build", "built"} => \A n \in 1 .. Len(JobEntry) :
    IF n < field THEN Built(n) ELSE manifest[JobEntry[n].id] = "unset"

\* What is missing was not asked for
MissingInv ==
  cause = "missing" =>
    /\ stage = "stopped" /\ process = "job"
    /\ field <= Len(JobEntry)
    /\ This.source \in {"user_input", "unsaid"}
    /\ answers[This.path] = "unasked"

IInv == TypeOK /\ CatalogInv /\ ReadInv /\ StageInv /\ BuildInv /\ MissingInv /\ OneTree

-----------------------------------------------------------------------------
\* The entries that are read have fields.
LEMMA EntryFields ==
  ASSUME TypeOK, NEW p \in Processes
  PROVE  /\ EntryRead(p) \in Seq(Fields)
         /\ Len(EntryRead(p)) \in Nat
         /\ \A n \in 1 .. Len(EntryRead(p)) :
              /\ EntryRead(p)[n] \in Fields
              /\ EntryRead(p)[n].id \in Ids
              /\ EntryRead(p)[n].path \in Paths
              /\ EntryRead(p)[n].source \in Sources
<1>1. EntryRead(p) \in Seq(Fields)
  BY EntryAssumption DEF EntryRead
<1>2. Len(EntryRead(p)) \in Nat /\ \A n \in 1 .. Len(EntryRead(p)) : EntryRead(p)[n] \in Fields
  BY <1>1
<1>3. \A f \in Fields : f.id \in Ids /\ f.path \in Paths /\ f.source \in Sources
  BY EntryAssumption DEF Ids, Paths
<1>4. QED BY <1>1, <1>2, <1>3

\* `create` begins with a catalog that is one tree.
LEMMA InitIInv == Init => IInv
<1> SUFFICES ASSUME Init PROVE IInv
    OBVIOUS
<1> USE TreesAssumption, MaxUpdatesAssumption DEF Init, NoUpdate, NoLoad, Files, NoFile
<1>1. TypeOK
  <2>1. override \in [Files -> Trees \cup NoFile] BY DEF Content
  <2>2. load \in [{"create", "job"} -> [matrix : Trees \cup NoFile, entry : Trees \cup NoFile,
                                       first : Nat, last : Nat]]
    OBVIOUS
  <2>3. answers \in [Paths -> Given \cup {"unasked"}] /\ manifest \in [Ids -> Values \cup {"unset"}]
    OBVIOUS
  <2>4. update \in [tree : Trees, todo : SUBSET Files, on : BOOLEAN] OBVIOUS
  <2>5. generation \in 0 .. 2 * MaxUpdates /\ field \in Nat \ {0} OBVIOUS
  <2>6. /\ platform \in {"own", "vsphere"} /\ profile \subseteq ProfileKeys
        /\ process \in {"create", "job"} /\ root \in {"none", "override", "bundled"}
        /\ stage \in Files \cup {"confirm", "ask", "profile", "build", "built", "stopped"}
        /\ confirmed \in BOOLEAN
        /\ cause \in {"none", "catalog", "user", "missing", "profile", "secret", "cidr", "unknown"}
    OBVIOUS
  <2>7. QED BY ONLY <2>1, <2>2, <2>3, <2>4, <2>5, <2>6 DEF TypeOK
<1>2. CatalogInv BY DEF CatalogInv, Settled
<1>3. ReadInv /\ OneTree BY DEF ReadInv, OneTree, Processes, Undisturbed
<1>4. StageInv /\ BuildInv /\ MissingInv BY DEF StageInv, BuildInv, MissingInv
<1>5. QED BY <1>1, <1>2, <1>3, <1>4 DEF IInv

-----------------------------------------------------------------------------
\* While somebody reads, `catalog update` does its work: a reader that sees one
\* generation, and no update under way, sees one tree.
LEMMA OthersKeep ==
  ASSUME IInv, Others
  PROVE  IInv'
<1> USE TreesAssumption, MaxUpdatesAssumption DEF IInv, Others
<1>1. UNCHANGED processVars /\ Reading
  BY DEF BeginUpdate, RewriteFile, EndUpdate, InterruptUpdate
<1>2. TypeOK'
  <2> USE DEF TypeOK, processVars, secretVars, buildVars, NoUpdate, Files, NoFile, Content
  <2>1. ASSUME NEW t \in Trees, BeginUpdate(t) PROVE TypeOK' BY <1>1, <2>1 DEF BeginUpdate
  <2>2. ASSUME NEW f \in Files, RewriteFile(f) PROVE TypeOK' BY <1>1, <2>2 DEF RewriteFile
  <2>3. CASE EndUpdate BY <1>1, <2>3 DEF EndUpdate, CatalogInv
  <2>4. CASE InterruptUpdate BY <1>1, <2>4 DEF InterruptUpdate
  <2>5. QED BY <2>1, <2>2, <2>3, <2>4
<1>3. CatalogInv'
  <2> USE DEF TypeOK, CatalogInv, Settled, NoUpdate, Files, NoFile, Content
  <2>1. ASSUME NEW t \in Trees, BeginUpdate(t) PROVE CatalogInv' BY <2>1 DEF BeginUpdate
  <2>2. ASSUME NEW f \in Files, RewriteFile(f) PROVE CatalogInv' BY <2>2 DEF RewriteFile
  <2>3. CASE EndUpdate BY <2>3 DEF EndUpdate
  <2>4. CASE InterruptUpdate BY <2>4 DEF InterruptUpdate
  <2>5. QED BY <2>1, <2>2, <2>3, <2>4
<1>4. /\ generation' >= generation
      /\ generation' # generation \/ generation % 2 = 1 \/ override' = override
  <2> USE DEF TypeOK, CatalogInv
  <2>1. ASSUME NEW t \in Trees, BeginUpdate(t) PROVE generation' >= generation /\ override' = override
    BY <2>1 DEF BeginUpdate
  <2>2. ASSUME NEW f \in Files, RewriteFile(f) PROVE generation' = generation /\ generation % 2 = 1
    BY <2>2 DEF RewriteFile
  <2>3. CASE EndUpdate \/ InterruptUpdate BY <2>3 DEF EndUpdate, InterruptUpdate
  <2>4. QED BY <2>1, <2>2, <2>3 DEF TypeOK
<1>5. ReadInv'
  <2>1. UNCHANGED <<load, process, stage, root>> BY <1>1 DEF processVars
  <2>2. Quiet' => Quiet /\ override' = override
    BY <1>4, <2>1 DEF Quiet, ReadInv, TypeOK, Processes
  <2>3. \A p \in Processes : load'[p].first <= generation'
    BY <1>2, <1>4, <2>1 DEF ReadInv, TypeOK, Processes
  <2>4. root' # "none" /\ Quiet' => root' = Place(stage)'
    BY <2>1, <2>2 DEF ReadInv, Place
  <2>5. stage' = "entry" /\ Quiet' =>
          load'[process'].matrix = IF override'["matrix"] = "absent" THEN Bundled ELSE override'["matrix"]
    BY <2>1, <2>2 DEF ReadInv
  <2>6. QED BY <2>1, <2>3, <2>4, <2>5 DEF ReadInv
<1>6. StageInv'
  BY <1>1 DEF processVars, secretVars, buildVars, StageInv, JobEntry, EntryRead, Asked, Prompts,
              IsPreview
<1>7. BuildInv'
  BY <1>1 DEF processVars, secretVars, buildVars, BuildInv, Built, JobEntry, EntryRead
<1>8. MissingInv'
  BY <1>1 DEF processVars, secretVars, buildVars, MissingInv, This, JobEntry, EntryRead
<1>9. OneTree' BY <1>1 DEF processVars, OneTree, Undisturbed
<1>10. QED BY <1>2, <1>3, <1>5, <1>6, <1>7, <1>8, <1>9

-----------------------------------------------------------------------------
\* A process finds a file.
LEMMA FindKeeps ==
  ASSUME IInv, Find
  PROVE  IInv'
<1> USE TreesAssumption DEF IInv
<1>1. /\ stage \in Files /\ root = "none" /\ root' = Place(stage)
      /\ UNCHANGED <<catalogVars, secretVars, process, stage, confirmed, answers, buildVars, cause>>
      /\ load' = [load EXCEPT ![process].first = IF stage = "matrix" THEN generation ELSE @]
  BY DEF Find, Place
<1>2. /\ \A p \in Processes :
           /\ load'[p].matrix = load[p].matrix
           /\ load'[p].entry = load[p].entry
           /\ load'[p].last = load[p].last
           /\ p # process => load'[p] = load[p]
      /\ load'[process].first = IF stage = "matrix" THEN generation ELSE load[process].first
  BY <1>1 DEF TypeOK, Processes
<1>3. TypeOK' BY <1>1 DEF TypeOK, catalogVars, secretVars, buildVars, Place
<1>4. CatalogInv' BY <1>1 DEF CatalogInv, Settled, catalogVars
<1>5. ReadInv'
  BY <1>1, <1>2 DEF ReadInv, TypeOK, Processes, Quiet, Place, catalogVars, Files
<1>6. StageInv'
  BY <1>1, <1>2 DEF StageInv, TypeOK, Processes, JobEntry, EntryRead, Asked, Prompts, IsPreview, catalogVars, buildVars, Files
<1>7. BuildInv' /\ MissingInv'
  BY <1>1, <1>2 DEF BuildInv, MissingInv, Files, buildVars, TypeOK
<1>8. OneTree'
  BY <1>1, <1>2 DEF OneTree, Undisturbed, ReadInv, TypeOK, Processes
<1>9. QED BY <1>3, <1>4, <1>5, <1>6, <1>7, <1>8
-----------------------------------------------------------------------------
\* A process reads a file: if no update was seen, the second is of the first's tree.
LEMMA ReadKeeps ==
  ASSUME IInv, Read
  PROVE  IInv'
<1> USE TreesAssumption DEF IInv
<1> DEFINE there == IF root = "bundled" THEN Bundled ELSE override[stage]
           l == [load[process] EXCEPT ![stage] = there, !.last = generation]
<1>1. /\ stage \in Files /\ root # "none" /\ root' = "none"
      /\ UNCHANGED <<catalogVars, secretVars, process, confirmed, answers, buildVars>>
  BY DEF Read
<1>2. /\ there \in Trees \cup NoFile
      /\ l \in [matrix : Trees \cup NoFile, entry : Trees \cup NoFile, first : Nat, last : Nat]
      /\ l.first = load[process].first /\ l.last = generation
      /\ stage = "matrix" => l.matrix = there /\ l.entry = load[process].entry
      /\ stage = "entry" => l.entry = there /\ l.matrix = load[process].matrix
  <2>1. there \in Trees \cup NoFile BY <1>1 DEF TypeOK
  <2>2. load[process] \in [matrix : Trees \cup NoFile, entry : Trees \cup NoFile, first : Nat, last : Nat]
    BY DEF TypeOK
  <2>3. generation \in Nat BY MaxUpdatesAssumption DEF TypeOK
  <2> HIDE DEF there
  <2>4. CASE stage = "matrix" BY <2>1, <2>2, <2>3, <2>4
  <2>5. CASE stage = "entry" BY <2>1, <2>2, <2>3, <2>5
  <2>6. QED BY <1>1, <2>4, <2>5 DEF Files
<1>3. CatalogInv' BY <1>1 DEF CatalogInv, Settled, catalogVars
<1>4. CASE stage' = "stopped" /\ cause' = "catalog" /\ UNCHANGED load
  <2>1. TypeOK' BY <1>1, <1>4 DEF TypeOK, catalogVars, secretVars, buildVars
  <2>2. ReadInv' BY <1>1, <1>4 DEF ReadInv, Files, catalogVars
  <2>3. StageInv' /\ BuildInv' /\ MissingInv' /\ OneTree'
    BY <1>1, <1>4
    DEF StageInv, BuildInv, MissingInv, OneTree, Undisturbed, Asked, Prompts, EntryRead,
        IsPreview, JobEntry, Files
  <2>4. QED BY <1>3, <2>1, <2>2, <2>3
<1>5. ASSUME /\ there # "absent" /\ ~(there = "empty" /\ stage = "matrix")
             /\ load' = [load EXCEPT ![process] = l]
             /\ stage' = IF stage = "matrix" THEN "entry" ELSE AfterLoad(l)
             /\ UNCHANGED cause
      PROVE  IInv'
  <2> HIDE DEF there, l
  <2>1. /\ load'[process] = l
        /\ \A p \in Processes : p # process => load'[p] = load[p]
    BY <1>5 DEF TypeOK, Processes
  <2>2. stage' \in {"entry", "profile", "confirm", "ask"}
    BY <1>5 DEF AfterLoad
  <2>3. TypeOK'
    BY <1>1, <1>2, <1>5, <2>2 DEF TypeOK, catalogVars, secretVars, buildVars, Files
  <2>4. BuildInv' /\ MissingInv'
    BY <1>1, <1>5, <2>2 DEF BuildInv, MissingInv, Files
  <2>5. CASE stage = "matrix"
    <3>1. stage' = "entry" /\ l.matrix = there /\ l.entry = "absent" /\ there \in Trees
      BY <1>1, <1>2, <1>5, <2>5 DEF ReadInv, NoFile
    <3>2. Quiet => there = IF override["matrix"] = "absent" THEN Bundled ELSE override["matrix"]
      BY <1>1, <2>5 DEF ReadInv, Place, there
    <3>3. ReadInv'
      BY <1>1, <1>2, <2>1, <3>1, <3>2 DEF ReadInv, Quiet, Processes, TypeOK, Files, catalogVars
    <3>4. StageInv'
      BY <1>1, <2>1, <2>5, <3>1
      DEF StageInv, Processes, TypeOK, Asked, Prompts, EntryRead, IsPreview, buildVars, Files
    <3>5. OneTree' BY <2>1, <3>1, <1>1 DEF OneTree, Undisturbed, Processes, TypeOK
    <3>6. QED BY <1>3, <2>3, <2>4, <3>3, <3>4, <3>5
  <2>6. CASE stage = "entry"
    <3>1. l.entry = there /\ l.matrix = load[process].matrix /\ l.matrix \in Trees
      BY <1>2, <2>6 DEF StageInv
    <3>2. stage' = AfterLoad(l) BY <1>5, <2>6
    <3>3. ReadInv'
      BY <1>1, <1>2, <2>1, <3>2 DEF ReadInv, Processes, TypeOK, Files, catalogVars, AfterLoad
    <3>4. StageInv'
      BY <1>1, <1>5, <2>1, <2>6, <3>1, <3>2
      DEF StageInv, Processes, TypeOK, Asked, Prompts, EntryRead, buildVars, Files, AfterLoad, ReadInv
    <3>5. ASSUME Undisturbed(l)
          PROVE  l.entry = l.matrix \/ (l.entry = Bundled /\ l.matrix \in Lacking)
      <4>1. Quiet BY <1>2, <3>5 DEF Quiet, Undisturbed
      <4>2. /\ there = IF override["entry"] = "absent" THEN Bundled ELSE override["entry"]
            /\ l.matrix = IF override["matrix"] = "absent" THEN Bundled ELSE override["matrix"]
            /\ Settled
        BY <1>1, <2>6, <3>1, <4>1 DEF ReadInv, Place, there, CatalogInv, Quiet
      <4>3. QED BY <3>1, <4>2 DEF Settled, Content, Files, NoFile
    <3>6. OneTree' BY <1>1, <2>1, <3>5 DEF OneTree, Undisturbed, Processes, TypeOK
    <3>7. QED BY <1>3, <2>3, <2>4, <3>3, <3>4, <3>6
  <2>7. QED BY <1>1, <2>5, <2>6 DEF Files
<1>6. QED BY <1>4, <1>5 DEF Read, Stop
-----------------------------------------------------------------------------
\* The user agrees, or not, and answers.
LEMMA CommandKeeps ==
  ASSUME IInv, Command
  PROVE  IInv'
<1> USE DEF IInv
<1>1. ASSUME NEW yes \in BOOLEAN, Confirm(yes) PROVE IInv'
  <2>1. /\ stage = "confirm" /\ confirmed' = yes
        /\ UNCHANGED <<catalogVars, secretVars, process, root, load, answers, buildVars>>
        /\ IF yes THEN stage' = "ask" /\ UNCHANGED cause ELSE stage' = "stopped" /\ cause' = "user"
    BY <1>1 DEF Confirm, Stop
  <2>2. process = "create" /\ root = "none" BY <2>1 DEF StageInv, TypeOK, ReadInv, Files
  <2>3. TypeOK' BY <2>1 DEF TypeOK, catalogVars, secretVars, buildVars
  <2>4. CatalogInv' /\ ReadInv' /\ OneTree'
    BY <2>1, <2>2 DEF CatalogInv, Settled, ReadInv, OneTree, Undisturbed, catalogVars, Files
  <2>5. StageInv'
    BY <2>1, <2>2 DEF StageInv, Asked, Prompts, EntryRead, IsPreview, buildVars
  <2>6. BuildInv' /\ MissingInv' BY <2>1 DEF BuildInv, MissingInv
  <2>7. QED BY <2>3, <2>4, <2>5, <2>6
<1>2. ASSUME NEW odd \in Paths, NEW value \in Given, Ask(odd, value) PROVE IInv'
  <2>1. /\ stage = "ask"
        /\ answers' = [p \in Paths |-> IF p \notin Asked THEN "unasked"
                                       ELSE IF p = odd THEN value ELSE "inside"]
        /\ UNCHANGED <<catalogVars, secretVars, root, load, confirmed, buildVars>>
        /\ \/ stage' = "stopped" /\ cause' = "user" /\ UNCHANGED process
           \/ process' = "job" /\ stage' = "matrix" /\ UNCHANGED cause
    BY <1>2 DEF Ask, Stop
  <2>2. process = "create" /\ root = "none" BY <2>1 DEF StageInv, TypeOK, ReadInv, Files
  <2>3. "inside" \in Given BY DEF Given
  <2>4. TypeOK' BY <2>1, <2>3 DEF TypeOK, catalogVars, secretVars, buildVars, Files
  <2>5. CatalogInv' /\ ReadInv' /\ OneTree'
    BY <2>1, <2>2 DEF CatalogInv, Settled, ReadInv, OneTree, Undisturbed, catalogVars, Files
  <2>6. Asked' = Asked /\ Asked \subseteq Paths
    <3>1. UNCHANGED load BY <2>1
    <3>2. Prompts \subseteq Fields BY EntryFields DEF Prompts, Processes
    <3>3. QED BY <3>1, <3>2 DEF Asked, Prompts, EntryRead, Paths
  <2>7. \A p \in Asked' : answers'[p] \in Given BY <2>1, <2>3, <2>6
  <2>8. StageInv'
    BY <2>1, <2>2, <2>7 DEF StageInv, IsPreview, buildVars, EntryRead
  <2>9. BuildInv' /\ MissingInv' BY <2>1 DEF BuildInv, MissingInv, StageInv
  <2>10. QED BY <2>4, <2>5, <2>8, <2>9
<1>3. QED BY <1>1, <1>2 DEF Command

-----------------------------------------------------------------------------
\* The build reads what the two processes have read, and changes none of it.
LEMMA JobKeeps ==
  ASSUME IInv, UNCHANGED <<catalogVars, process, root, load, confirmed, answers>>,
         stage \notin Files, stage' \in {"build", "built", "stopped"}
  PROVE  CatalogInv' /\ ReadInv' /\ OneTree'
BY DEF IInv, CatalogInv, Settled, ReadInv, OneTree, Undisturbed, catalogVars, Files

\* A build that stops says why (manifest_builder.py 125-130, 168-204).
LEMMA StopKeeps ==
  ASSUME IInv, UNCHANGED <<jobVars, buildVars>>, stage = "build",
         NEW why \in {"missing", "profile", "secret", "cidr", "unknown"}, Stop(why),
         why = "missing" => /\ field <= Len(JobEntry)
                            /\ This.source \in {"user_input", "unsaid"}
                            /\ answers[This.path] = "unasked"
  PROVE  IInv'
<1>1. stage' = "stopped" /\ cause' = why BY DEF Stop
<1>2. TypeOK'
  BY <1>1 DEF IInv, TypeOK, jobVars, catalogVars, secretVars, buildVars
<1>3. StageInv'
  BY <1>1 DEF IInv, StageInv, TypeOK, Asked, Prompts, EntryRead, IsPreview, jobVars
<1>4. MissingInv'
  BY <1>1 DEF IInv, StageInv, TypeOK, MissingInv, This, JobEntry, EntryRead, jobVars, buildVars
<1>5. BuildInv' BY <1>1 DEF BuildInv
<1>6. CatalogInv' /\ ReadInv' /\ OneTree' BY <1>1, JobKeeps DEF jobVars, Files
<1>7. QED BY <1>2, <1>3, <1>4, <1>5, <1>6 DEF IInv

\* A field gets a value that fits its source, or the value is refused.
LEMMA PutKeeps ==
  ASSUME IInv, UNCHANGED jobVars, stage = "build", field <= Len(JobEntry),
         NEW v \in Values, Put(v),
         This.source = "keyring" /\ This.required => v \in {platform, "vsphere"},
         This.source = "user_input" /\ answers[This.path] # "unasked" => v = answers[This.path],
         This.source = "derived" /\ This.from \in Ids /\ manifest[This.from] # "unset" =>
           v = manifest[This.from]
  PROVE  IInv'
<1> USE DEF IInv
<1>1. process = "job" BY DEF StageInv, TypeOK
<1>2. /\ Len(JobEntry) \in Nat /\ field \in 1 .. Len(JobEntry)
      /\ \A n \in 1 .. Len(JobEntry) : JobEntry[n].id \in Ids
  BY EntryFields DEF TypeOK, Processes, JobEntry
<1>3. CASE Unrendered(v) \/ Rejected(v)
  <2>1. \E why \in {"unknown", "cidr"} : Stop(why) /\ UNCHANGED buildVars
    BY <1>3 DEF Put
  <2>2. QED BY <2>1, StopKeeps
<1>4. CASE ~Unrendered(v) /\ ~Rejected(v)
  <2>1. /\ manifest' = [manifest EXCEPT ![This.id] = v] /\ field' = field + 1
        /\ UNCHANGED <<stage, cause>>
    BY <1>4 DEF Put
  <2>2. This = JobEntry[field] BY DEF This, JobEntry
  <2>3. /\ manifest'[This.id] = v
        /\ \A i \in Ids : i # This.id => manifest'[i] = manifest[i]
    BY <1>2, <2>1, <2>2 DEF TypeOK
  <2>4. JobEntry' = JobEntry BY DEF JobEntry, EntryRead, jobVars
  <2>5. TypeOK'
    BY <1>2, <2>1, <2>2 DEF TypeOK, jobVars, catalogVars, secretVars
  <2>6. StageInv'
    BY <1>1, <2>1 DEF StageInv, Asked, Prompts, EntryRead, IsPreview, jobVars
  <2>7. \A n, m \in 1 .. Len(JobEntry) :
          /\ JobEntry[n].id = JobEntry[m].id => n = m
          /\ JobEntry[n].source = "derived" /\ JobEntry[n].from = JobEntry[m].id => m < n
    BY OrderAssumption DEF JobEntry, EntryRead
  <2>8. v # "unset" BY DEF Values, Given
  <2>9. ASSUME NEW n \in 1 .. Len(JobEntry), n = field PROVE Built(n)'
    <3>1. This.source = "derived" /\ This.from \in Ids /\ manifest'[This.from] # "unset" =>
            manifest[This.from] # "unset" /\ This.from # This.id
      BY <1>2, <2>2, <2>3, <2>7
    <3>2. Checked(This) /\ "machine_network_cidr" \in profile => v \notin {"outside", "null"}
      BY <1>4 DEF Rejected
    <3>3. QED
      BY <2>2, <2>3, <2>4, <2>9, <3>1, <3>2 DEF Built, jobVars, secretVars
  <2>10. ASSUME NEW n \in 1 .. Len(JobEntry), n < field PROVE Built(n)'
    <3>1. JobEntry[n].id # This.id BY <1>2, <2>2, <2>7, <2>10
    <3>2. JobEntry[n].source = "derived" => JobEntry[n].from # This.id
      BY <1>2, <2>2, <2>7, <2>10
    <3>3. Built(n) BY <2>10 DEF BuildInv
    <3>4. QED BY <1>2, <2>3, <2>4, <3>1, <3>2, <3>3 DEF Built, jobVars, secretVars
  <2>11. ASSUME NEW n \in 1 .. Len(JobEntry), n > field
         PROVE  manifest'[JobEntry[n].id] = "unset"
    <3>1. JobEntry[n].id # This.id BY <1>2, <2>2, <2>7, <2>11
    <3>2. QED BY <1>2, <2>3, <2>11, <3>1 DEF BuildInv
  <2>12. BuildInv'
    <3> SUFFICES ASSUME NEW n \in 1 .. Len(JobEntry)
                 PROVE  IF n < field + 1 THEN Built(n)' ELSE manifest'[JobEntry[n].id] = "unset"
        BY <2>1, <2>4 DEF BuildInv
    <3>1. n < field \/ n = field \/ n > field BY <1>2
    <3>2. QED BY <1>2, <2>9, <2>10, <2>11, <3>1
  <2>13. MissingInv' BY <2>1 DEF MissingInv
  <2>14. CatalogInv' /\ ReadInv' /\ OneTree' BY <2>1, JobKeeps DEF jobVars, Files
  <2>15. QED BY <2>5, <2>6, <2>12, <2>13, <2>14
<1>5. QED BY <1>3, <1>4

\* A field that nobody answered, without default, is left out when it may be.
LEMMA SkipKeeps ==
  ASSUME IInv, UNCHANGED <<jobVars, manifest, stage, cause>>, stage = "build",
         field <= Len(JobEntry), field' = field + 1,
         This.source \in {"user_input", "unsaid"}, answers[This.path] = "unasked"
  PROVE  IInv'
<1> USE DEF IInv
<1>1. process = "job" BY DEF StageInv, TypeOK
<1>2. Len(JobEntry) \in Nat /\ field \in 1 .. Len(JobEntry)
  BY EntryFields DEF TypeOK, Processes, JobEntry
<1>3. TypeOK' BY <1>2 DEF TypeOK, jobVars, catalogVars, secretVars
<1>4. StageInv'
  BY <1>1 DEF StageInv, Asked, Prompts, EntryRead, IsPreview, jobVars
<1>5. JobEntry' = JobEntry /\ This = JobEntry[field] BY DEF JobEntry, EntryRead, This, jobVars
<1>6. manifest[This.id] = "unset" BY <1>2, <1>5 DEF BuildInv
<1>7. ASSUME NEW n \in 1 .. Len(JobEntry), n = field PROVE Built(n)'
  BY <1>5, <1>6, <1>7 DEF Built, jobVars
<1>8. ASSUME NEW n \in 1 .. Len(JobEntry), n < field PROVE Built(n)'
  BY <1>5, <1>8 DEF Built, BuildInv, jobVars, secretVars
<1>9. BuildInv'
  <2> SUFFICES ASSUME NEW n \in 1 .. Len(JobEntry)
               PROVE  IF n < field + 1 THEN Built(n)' ELSE manifest'[JobEntry[n].id] = "unset"
      BY <1>5 DEF BuildInv
  <2>1. n < field \/ n = field \/ n > field BY <1>2
  <2>2. QED BY <1>2, <1>7, <1>8, <2>1 DEF BuildInv
<1>10. MissingInv' BY DEF MissingInv
<1>11. CatalogInv' /\ ReadInv' /\ OneTree' BY JobKeeps DEF jobVars, Files
<1>12. QED BY <1>3, <1>4, <1>9, <1>10, <1>11

\* Every statement of the build, for every source (manifest_builder.py 135-216).
LEMMA BuildKeeps ==
  ASSUME IInv, Build
  PROVE  IInv'
<1> USE DEF IInv
<1>1. CASE LoadProfile
  <2>1. /\ stage = "profile" /\ process = "job" /\ field = 1 /\ field' = 1
        /\ \A i \in Ids : manifest[i] = "unset"
        /\ UNCHANGED <<catalogVars, platform, process, root, load, confirmed, answers, buildVars>>
        /\ \/ profile' \subseteq ProfileKeys /\ stage' = "build" /\ UNCHANGED cause
           \/ stage' = "stopped" /\ cause' = "profile" /\ UNCHANGED profile
    BY <1>1 DEF LoadProfile, Stop, StageInv, TypeOK, buildVars
  <2>2. TypeOK' BY <2>1 DEF TypeOK, catalogVars, buildVars
  <2>3. StageInv'
    BY <2>1 DEF StageInv, Asked, Prompts, EntryRead, IsPreview, buildVars
  <2>4. BuildInv'
    BY <2>1, EntryFields DEF BuildInv, JobEntry, EntryRead, Processes, buildVars
  <2>5. MissingInv' BY <2>1 DEF MissingInv
  <2>6. CatalogInv' /\ ReadInv' /\ OneTree' BY <2>1, JobKeeps DEF Files
  <2>7. QED BY <2>2, <2>3, <2>4, <2>5, <2>6
<1>2. CASE Finish
  <2>1. stage = "build" /\ field > Len(JobEntry) /\ stage' = "built"
        /\ UNCHANGED <<jobVars, buildVars, cause>>
    BY <1>2 DEF Finish, JobEntry
  <2>2. TypeOK' BY <2>1 DEF TypeOK, jobVars, catalogVars, secretVars, buildVars
  <2>3. StageInv'
    BY <2>1 DEF StageInv, TypeOK, Asked, Prompts, EntryRead, IsPreview, JobEntry, jobVars, buildVars
  <2>4. BuildInv' /\ MissingInv'
    BY <2>1 DEF BuildInv, MissingInv, Built, JobEntry, EntryRead, jobVars, secretVars, buildVars
  <2>5. CatalogInv' /\ ReadInv' /\ OneTree' BY <2>1, JobKeeps DEF jobVars, Files
  <2>6. QED BY <2>2, <2>3, <2>4, <2>5
<1>3. ASSUME UNCHANGED jobVars, NEW source \in Sources, Building(source)
      PROVE  /\ stage = "build" /\ field <= Len(JobEntry)
             /\ This.source = source /\ This.path \in Paths /\ This.id \in Ids
  BY <1>3, EntryFields DEF Building, This, JobEntry, TypeOK, Processes
<1>4. CASE TakeConstant
  <2>1. UNCHANGED jobVars /\ Building("constant") /\ Put("constant") BY <1>4 DEF TakeConstant
  <2>2. QED BY <1>3, <2>1, PutKeeps DEF Sources, Values
<1>5. CASE TakeInput
  <2>1. /\ UNCHANGED jobVars /\ stage = "build" /\ field <= Len(JobEntry)
        /\ This.source \in {"user_input", "unsaid"} /\ This.path \in Paths
    BY <1>3, <1>5 DEF TakeInput, Sources
  <2>2. CASE answers[This.path] # "unasked"
    <3>1. Put(answers[This.path]) BY <1>5, <2>2 DEF TakeInput
    <3>2. answers[This.path] \in Values BY <2>1, <2>2 DEF TypeOK, Values
    <3>3. QED BY <2>1, <3>1, <3>2, PutKeeps
  <2>3. CASE answers[This.path] = "unasked" /\ This.default
    <3>1. Put("default") BY <1>5, <2>3 DEF TakeInput
    <3>2. QED BY <2>1, <2>3, <3>1, PutKeeps DEF Values
  <2>4. CASE answers[This.path] = "unasked" /\ ~This.default /\ This.required
    <3>1. Stop("missing") /\ UNCHANGED buildVars BY <1>5, <2>4 DEF TakeInput
    <3>2. QED BY <2>1, <2>4, <3>1, StopKeeps
  <2>5. CASE answers[This.path] = "unasked" /\ ~This.default /\ ~This.required
    <3>1. field' = field + 1 /\ UNCHANGED <<manifest, stage, cause>>
      BY <1>5, <2>5 DEF TakeInput
    <3>2. QED BY <2>1, <2>5, <3>1, SkipKeeps
  <2>6. QED BY <2>2, <2>3, <2>4, <2>5
<1>6. CASE TakeProfile
  <2>1. UNCHANGED jobVars /\ Building("environment_profile") BY <1>6 DEF TakeProfile
  <2>2. stage = "build" /\ field <= Len(JobEntry) /\ This.source = "environment_profile"
    BY <1>3, <2>1 DEF Sources
  <2>3. \/ \E why \in {"profile", "secret"} : Stop(why) /\ UNCHANGED buildVars
        \/ Put("block")
    BY <1>6 DEF TakeProfile
  <2>4. QED BY <2>1, <2>2, <2>3, PutKeeps, StopKeeps DEF Values
<1>7. CASE TakeSecret
  <2>1. UNCHANGED jobVars /\ Building("keyring") BY <1>7 DEF TakeSecret
  <2>2. stage = "build" /\ field <= Len(JobEntry) /\ This.source = "keyring"
    BY <1>3, <2>1 DEF Sources
  <2>3. \/ \E v \in {platform, "vsphere"} : Put(v)
        \/ Stop("secret") /\ UNCHANGED buildVars
        \/ ~This.required /\ Put("null")
    BY <1>7 DEF TakeSecret
  <2>4. {platform, "vsphere", "null"} \subseteq Values BY DEF TypeOK, Values, Given
  <2>5. QED BY <2>1, <2>2, <2>3, <2>4, PutKeeps, StopKeeps
<1>8. CASE TakeDerived
  <2> DEFINE v == IF This.from \in Ids /\ manifest[This.from] # "unset" THEN manifest[This.from]
                  ELSE IF answers[This.path] # "unasked" THEN answers[This.path]
                  ELSE "null"
  <2>1. UNCHANGED jobVars /\ Building("derived") /\ Put(v) BY <1>8 DEF TakeDerived
  <2>2. stage = "build" /\ field <= Len(JobEntry) /\ This.source = "derived" /\ This.path \in Paths
    BY <1>3, <2>1 DEF Sources
  <2>3. v \in Values BY <2>2 DEF TypeOK, Values, Given
  <2>4. This.from \in Ids /\ manifest[This.from] # "unset" => v = manifest[This.from] OBVIOUS
  <2> HIDE DEF v
  <2>5. QED BY <2>1, <2>2, <2>3, <2>4, PutKeeps
<1>9. CASE TakeUnknown
  <2>1. UNCHANGED <<jobVars, buildVars>> /\ Building("unknown") /\ Stop("unknown")
    BY <1>9 DEF TakeUnknown
  <2>2. QED BY <1>3, <2>1, StopKeeps DEF Sources
<1>10. QED BY <1>1, <1>2, <1>4, <1>5, <1>6, <1>7, <1>8, <1>9 DEF Build

\* A stuttering step changes nothing.
LEMMA NextKeeps == IInv /\ [Next]_vars => IInv'
<1> SUFFICES ASSUME IInv, [Next]_vars PROVE IInv'
    OBVIOUS
<1>1. CASE UNCHANGED vars
  <2> USE <1>1 DEF vars, catalogVars, secretVars, buildVars, IInv
  <2>1. TypeOK' BY DEF TypeOK
  <2>2. CatalogInv' BY DEF CatalogInv, Settled
  <2>3. ReadInv' BY DEF ReadInv, Quiet, Place
  <2>4. StageInv' BY DEF StageInv, JobEntry, EntryRead, Asked, Prompts, IsPreview
  <2>5. BuildInv' BY DEF BuildInv, Built, JobEntry, EntryRead
  <2>6. MissingInv' BY DEF MissingInv, This, JobEntry, EntryRead
  <2>7. OneTree' BY DEF OneTree, Undisturbed
  <2>8. QED BY <2>1, <2>2, <2>3, <2>4, <2>5, <2>6, <2>7
<1>2. QED
  BY <1>1, OthersKeep, FindKeeps, ReadKeeps, CommandKeeps, BuildKeeps DEF Next, Load

-----------------------------------------------------------------------------
\* What the runs check of `create` and the job's build holds for any catalogs.
THEOREM Inductive == Spec => []IInv
<1>1. Init => IInv BY InitIInv
<1>2. IInv /\ [Next]_vars => IInv' BY NextKeeps
<1>3. QED BY <1>1, <1>2, PTL DEF Spec

\* The state has its type (cli/cluster.py 64-216, manifest_builder.py 135-216).
THEOREM TypeCorrect == Spec => []TypeOK
<1>1. IInv => TypeOK BY DEF IInv
<1>2. QED BY <1>1, Inductive, PTL

\* Without an update the reader's two files are of one tree, whatever `catalog update`
\* does to one file after the other (catalog_loader.py 67-74, 87-96, 127-132).
THEOREM OneTreeRead == Spec => []OneTree
<1>1. IInv => OneTree BY DEF IInv
<1>2. QED BY <1>1, Inductive, PTL

\* What the job builds of a preview has been agreed to (cli/cluster.py 142-149).
THEOREM Confirmed == Spec => []PreviewConfirmed
<1>1. IInv => PreviewConfirmed
  BY DEF IInv, StageInv, PreviewConfirmed, Unchanged, IsPreview
<1>2. QED BY <1>1, Inductive, PTL

\* The wizard asks for what the build needs (wizard.py 73-85).
THEOREM Suffices == Spec => []AskedSuffices
<1>1. ASSUME IInv, cause = "missing", Unchanged PROVE This.source = "unsaid"
  <2>1. /\ process = "job" /\ field \in 1 .. Len(JobEntry)
        /\ This.source \in {"user_input", "unsaid"} /\ answers[This.path] = "unasked"
    BY <1>1, EntryFields DEF IInv, MissingInv, TypeOK, Processes, JobEntry
  <2>2. EntryRead("create") = JobEntry BY <1>1 DEF Unchanged, EntryRead, JobEntry
  <2>3. This.source = "user_input" => This.path \in Asked
    BY <2>1, <2>2 DEF This, Asked, Prompts, JobEntry
  <2>4. This.path \in Asked => answers[This.path] # "unasked"
    BY <1>1, <2>1 DEF IInv, StageInv, Given
  <2>5. QED BY <2>1, <2>3, <2>4
<1>2. IInv => AskedSuffices BY <1>1 DEF AskedSuffices
<1>3. QED BY <1>2, Inductive, PTL

\* All fields are built when the manifests are.
LEMMA AllBuilt ==
  ASSUME IInv, stage = "built"
  PROVE  process = "job" /\ \A n \in 1 .. Len(JobEntry) : Built(n)
<1>1. process = "job" /\ field > Len(JobEntry) BY DEF IInv, StageInv, TypeOK
<1>2. Len(JobEntry) \in Nat BY EntryFields DEF IInv, Processes, JobEntry
<1>3. QED BY <1>1, <1>2 DEF IInv, BuildInv, TypeOK

\* The answers are in the manifests (manifest_builder.py 168-171, 198-199, 209-210).
THEOREM AsAsked == Spec => []ManifestsAsAsked
<1>1. ASSUME IInv, stage = "built" PROVE ManifestsAsAsked
  <2>1. ASSUME Unchanged, NEW p \in Asked
        PROVE  \E f \in JobFields : f.path = p /\ manifest[f.id] = answers[p]
    <3>1. EntryRead("create") = JobEntry BY <2>1 DEF Unchanged, EntryRead, JobEntry
    <3>2. PICK n \in 1 .. Len(JobEntry) :
            JobEntry[n].path = p /\ JobEntry[n].source = "user_input"
      BY <3>1 DEF Asked, Prompts
    <3>3. answers[p] # "unasked" BY <1>1, AllBuilt DEF IInv, StageInv, Given
    <3>4. manifest[JobEntry[n].id] = answers[p] BY <1>1, <3>2, <3>3, AllBuilt DEF Built
    <3>5. QED BY <3>2, <3>4 DEF JobFields, JobEntry
  <2>2. ASSUME NEW f \in JobFields, f.source = "derived" /\ f.from \in Ids, manifest[f.from] # "unset"
        PROVE  manifest[f.id] = manifest[f.from]
    BY <1>1, <2>2, AllBuilt DEF JobFields, JobEntry, Built
  <2>3. QED BY <2>1, <2>2 DEF ManifestsAsAsked
<1>2. IInv => ManifestsAsAsked BY <1>1 DEF ManifestsAsAsked
<1>3. QED BY <1>2, Inductive, PTL

\* Nothing that was refused is in them (manifest_builder.py 65-67, 125-130, 183-197, 203-207).
THEOREM NothingWrong == Spec => []NothingWrongBuilt
<1>1. IInv => NothingWrongBuilt
  BY AllBuilt DEF NothingWrongBuilt, JobFields, JobEntry, Built
<1>2. QED BY <1>1, Inductive, PTL
===============================================================================

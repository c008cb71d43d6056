----------------------- MODULE VmProvisioning_proofs -----------------------
(***************************************************************************)
(* Theorems about VmProvisioning, for any jobs, either platform and any    *)
(* number of VMs.  Two invariants carry them.  NodeInv says how far the    *)
(* VMs of one job are, by the operation that is pending at the platform:   *)
(* a job that has given up no longer has a statement that would tell it.   *)
(* ShareInv says what the jobs that share the template know of each other: *)
(* a job that neither overlaps nor hurries imports only when there is no   *)
(* image, and then whoever is already cloning has lost the one it found.   *)
(***************************************************************************)
EXTENDS VmProvisioning, TLAPS

\* The operation that is pending, and what the call of a statement has come to
CallInv(j) ==
  /\ stage[j] \in {"idle", "check", "fetch", "bootstrap", "done"} => call[j] = "none"
  /\ stage[j] \in Calls => call[j] \in {stage[j], "ok", "error"}
  /\ j \notin Hasty /\ stage[j] = "failed" => call[j] = "none"
  /\ stage[j] \in {"check", "mark"} => j \notin IsoJobs
  /\ stage[j] = "ignite" \/ call[j] = "ignite" => j \notin IsoJobs
  /\ stage[j] \in {"bootstrap", "off", "destroy"} => j \notin IsoJobs
  /\ call[j] \in {"off", "destroy"} => j \notin IsoJobs
  /\ call[j] = "import" => stage[j] \in {"import", "failed"}
  /\ stage[j] \in Calls \ {"import"} /\ j \in IsoJobs => image[j] = "ready"
  /\ j \in IsoJobs /\ call[j] \in Calls \ {"import"} => image[j] = "ready"
  /\ stage[j] = "import" /\ call[j] = "ok" => image[j] = "ready"
  /\ stage[j] = "mark" => image[j] = "ready"
  /\ image[j] = "importing" => call[j] = "import"
  /\ stage[j] \in {"idle", "check", "fetch"} => image[j] = "none"
  /\ image[j] = "broken" => j \in Hasty

AllOn(j) == /\ vm[j] = Nodes
            /\ Serves(j)
            /\ \A v \in Vms \ {Bootstrap} : node[j][v] = "on"

\* How far the VMs of a job are
NodeInv(j) ==
  /\ stage[j] \in {"idle", "check", "fetch", "import", "mark"} => vm[j] = 1
  /\ stage[j] \in {"idle", "check", "fetch", "import", "mark"} \/ call[j] \in {"import", "mark"} =>
       \A v \in Vms : node[j][v] = "none"
  /\ \A v \in Vms : v > vm[j] => node[j][v] = "none"
  /\ \A v \in Vms : v < vm[j] =>
       node[j][v] = "on" \/ (v = Bootstrap /\ node[j][v] \in Down)
  /\ call[j] = "clone" => node[j][vm[j]] = "none"
  /\ call[j] = "ignite" => node[j][vm[j]] = "made"
  /\ call[j] = "power" => node[j][vm[j]] = IF j \in IsoJobs THEN "made" ELSE "configured"
  /\ call[j] = "ok" => /\ stage[j] = "clone" => node[j][vm[j]] = "made"
                       /\ stage[j] = "ignite" => node[j][vm[j]] = "configured"
                       /\ stage[j] = "power" => node[j][vm[j]] = "on"
  /\ stage[j] = "bootstrap" => vm[j] = Nodes /\ \A v \in Vms : node[j][v] = "on"
  /\ (\/ stage[j] \in {"off", "destroy"}
      \/ call[j] \in {"off", "destroy"}
      \/ node[j][Bootstrap] \in Down) => AllOn(j)
  /\ node[j][Bootstrap] \in Down =>
       stage[j] \in {"off", "destroy", "done", "failed"}
  /\ \A v \in Vms : node[j][v] # "none" /\ j \in IsoJobs => source[j][v] = j
  /\ \A v \in Vms : <<j, v>> \in torn => node[j][v] # "none"

Upi == Jobs \ IsoJobs
Cloning(j) == \/ stage[j] \in {"clone", "ignite", "power", "bootstrap", "off", "destroy", "done"}
              \/ call[j] = "clone"

\* What the jobs that share the template know of each other
ShareInv ==
  /\ \A j, k \in Upi : j # k /\ j \notin Overlapping /\ k \notin Overlapping =>
       ~(Making(j) /\ Making(k))
  /\ \A j \in Upi : Cloning(j) =>
       (\E k \in Upi : Present(k)) \/ (\E h \in Jobs : Vanished(h))
  /\ \A j, k \in Upi :
       j # k /\ j \notin Overlapping /\ k \notin Overlapping \cup Hasty
       /\ stage[k] \in {"fetch", "import"} /\ Cloning(j) => \E h \in Jobs : Vanished(h)

IInv == /\ TypeOK
        /\ \A j \in Jobs : CallInv(j) /\ NodeInv(j)
        /\ ShareInv
        /\ WholeDisks

-----------------------------------------------------------------------------
\* The invariant holds when no job has begun.
LEMMA InitIInv == Init => IInv
  BY JobsAssumption, NodesAssumption, NoImageAssumption
  DEF Init, IInv, TypeOK, CallInv, NodeInv, AllOn, ShareInv, WholeDisks, Cloning, Making,
      Stages, Calls, Over, Down, Vms, Bootstrap, Upi

-----------------------------------------------------------------------------
(* One step, for the job that takes it and for the others *)

Same(j) == /\ stage'[j] = stage[j] /\ call'[j] = call[j] /\ vm'[j] = vm[j]
           /\ image'[j] = image[j] /\ node'[j] = node[j] /\ source'[j] = source[j]
           /\ \A v \in Vms : <<j, v>> \in torn' <=> <<j, v>> \in torn

\* A step of a job or of its operation leaves the other jobs and their VMs alone.
LEMMA OthersSame ==
  ASSUME TypeOK, NEW i \in Jobs, Begin(i) \/ Work(i) \/ Platform(i),
         NEW j \in Jobs, j # i
  PROVE  Same(j)
<1> USE DEF TypeOK, Same, platformVars, Goto, Enter, Answer
<1>1. CASE Begin(i)              BY <1>1 DEF Begin
<1>2. CASE TemplateFound(i)      BY <1>2 DEF TemplateFound
<1>3. CASE TemplateMissing(i)    BY <1>3 DEF TemplateMissing
<1>4. CASE Proceed(i)            BY <1>4 DEF Proceed
<1>5. CASE BootstrapCompletes(i) BY <1>5 DEF BootstrapCompletes
<1>6. CASE BootstrapFails(i)     BY <1>6 DEF BootstrapFails
<1>7. CASE CallFails(i)          BY <1>7 DEF CallFails
<1>8. CASE GiveUp(i)             BY <1>8 DEF GiveUp
<1>9. CASE BeginImport(i)        BY <1>9 DEF BeginImport
<1>10. CASE EndImport(i)         BY <1>10 DEF EndImport
<1>11. CASE BreakImport(i)
  <2>1. image'[j] = image[j]  BY <1>11 DEF BreakImport
  <2> QED  BY <1>11, <2>1 DEF BreakImport
<1>12. CASE MarkTemplate(i)      BY <1>12 DEF MarkTemplate
<1>13. CASE Clone(i)             BY <1>13 DEF Clone
<1>14. CASE CloneRefused(i)      BY <1>14 DEF CloneRefused
<1>15. CASE SetIgnition(i)       BY <1>15 DEF SetIgnition, ChangeVm
<1>16. CASE PowerOn(i)           BY <1>16 DEF PowerOn, ChangeVm
<1>17. CASE PowerOff(i)          BY <1>17 DEF PowerOff, ChangeVm
<1>18. CASE Destroy(i)           BY <1>18 DEF Destroy, ChangeVm
<1>19. CASE Refuse(i)            BY <1>19 DEF Refuse
<1>20. CASE Fetched(i)           BY <1>20 DEF Fetched
<1>21. CASE Stall(i)             BY <1>21 DEF Stall
<1>22. CASE Destroyed(i)         BY <1>22 DEF Destroyed
<1>23. QED
  BY <1>1, <1>2, <1>3, <1>4, <1>5, <1>6, <1>7, <1>8, <1>9, <1>10,
     <1>11, <1>12, <1>13, <1>14, <1>15, <1>16, <1>17, <1>18, <1>19, <1>20,
     <1>21, <1>22
  DEF Work, Advance, Platform, Perform

\* Nothing that changes of a job but its own state can disturb what is said of it.
LEMMA SameKeeps ==
  ASSUME NEW j \in Jobs, Same(j)
  PROVE  (CallInv(j) => CallInv(j)') /\ (NodeInv(j) => NodeInv(j)')
<1>1. CallInv(j) => CallInv(j)'  BY DEF Same, CallInv
<1>2. Serves(j)' <=> Serves(j)
  <2>1. Bootstrap \in Vms  BY NodesAssumption DEF Vms, Bootstrap
  <2>2. ControlPlane \subseteq Vms  BY DEF ControlPlane
  <2>3. \A v \in Vms : <<j, v>> \in torn' <=> <<j, v>> \in torn  BY DEF Same
  <2> QED  BY <2>1, <2>2, <2>3 DEF Serves, ControlPlane
<1>3. NodeInv(j) => NodeInv(j)'  BY <1>2 DEF Same, NodeInv, AllOn
<1> QED  BY <1>1, <1>3

\* Types.
LEMMA TypesKept ==
  ASSUME TypeOK, NEW i \in Jobs, Begin(i) \/ Work(i) \/ Platform(i)
  PROVE  TypeOK'
<1>0. stalled' \subseteq Jobs  BY DEF TypeOK, Begin, Work, Stall, Platform
<1> USE <1>0, JobsAssumption, NodesAssumption, NoImageAssumption
    DEF TypeOK, Stages, Calls, Over, Down, Vms, Bootstrap, platformVars, Goto, Enter, After,
        AfterImport, AfterClone, AfterLast, Answer, Found
<1>1. CASE Begin(i)              BY <1>1 DEF Begin
<1>2. CASE TemplateFound(i)      BY <1>2 DEF TemplateFound
<1>3. CASE TemplateMissing(i)    BY <1>3 DEF TemplateMissing
<1>4. CASE Proceed(i)            BY <1>4 DEF Proceed
<1>5. CASE BootstrapCompletes(i) BY <1>5 DEF BootstrapCompletes
<1>6. CASE BootstrapFails(i)     BY <1>6 DEF BootstrapFails
<1>7. CASE CallFails(i)          BY <1>7 DEF CallFails
<1>8. CASE GiveUp(i)             BY <1>8 DEF GiveUp
<1>9. CASE BeginImport(i)
  <2>1. image' \in [Jobs -> {"none", "importing", "lost", "broken", "ready"}]  BY <1>9 DEF BeginImport
  <2>2. call' \in [Jobs -> {"none", "ok", "error"} \cup Calls]  BY <1>9 DEF BeginImport
  <2> QED  BY <1>9, <2>1, <2>2 DEF BeginImport
<1>10. CASE EndImport(i)         BY <1>10 DEF EndImport
<1>11. CASE BreakImport(i)
  <2>1. \E s \in {"lost", "broken"} : image' = [image EXCEPT ![i] = s]  BY <1>11 DEF BreakImport
  <2> QED  BY <1>11, <2>1 DEF BreakImport
<1>12. CASE MarkTemplate(i)      BY <1>12 DEF MarkTemplate
<1>13. CASE Clone(i)             BY <1>13 DEF Clone
<1>14. CASE CloneRefused(i)      BY <1>14 DEF CloneRefused
<1>15. CASE SetIgnition(i)       BY <1>15 DEF SetIgnition, ChangeVm
<1>16. CASE PowerOn(i)           BY <1>16 DEF PowerOn, ChangeVm
<1>17. CASE PowerOff(i)          BY <1>17 DEF PowerOff, ChangeVm
<1>18. CASE Destroy(i)           BY <1>18 DEF Destroy, ChangeVm
<1>19. CASE Refuse(i)            BY <1>19 DEF Refuse
<1>20. CASE Fetched(i)           BY <1>20 DEF Fetched
<1>21. CASE Stall(i)             BY <1>21 DEF Stall
<1>22. CASE Destroyed(i)         BY <1>22 DEF Destroyed
<1>23. QED
  BY <1>1, <1>2, <1>3, <1>4, <1>5, <1>6, <1>7, <1>8, <1>9, <1>10,
     <1>11, <1>12, <1>13, <1>14, <1>15, <1>16, <1>17, <1>18, <1>19, <1>20,
     <1>21, <1>22
  DEF Work, Advance, Platform, Perform

\* What a pending call says of its job (upi.py 102-145, 166-231, agent.py 119-127,
\* assisted.py 193-202).
LEMMA CallsKept ==
  ASSUME TypeOK, NEW i \in Jobs, CallInv(i), Begin(i) \/ Work(i) \/ Platform(i)
  PROVE  CallInv(i)'
<1> USE JobsAssumption, NodesAssumption
    DEF TypeOK, CallInv, Stages, Calls, Over, platformVars, Goto, Enter, After,
        AfterImport, AfterClone, AfterLast, CallReturns, Answer, Found, SameName
<1>1. CASE Begin(i)              BY <1>1 DEF Begin
<1>2. CASE TemplateFound(i)      BY <1>2 DEF TemplateFound
<1>3. CASE TemplateMissing(i)    BY <1>3 DEF TemplateMissing
<1>4. CASE Proceed(i)            BY <1>4 DEF Proceed
<1>5. CASE BootstrapCompletes(i) BY <1>5 DEF BootstrapCompletes
<1>6. CASE BootstrapFails(i)     BY <1>6 DEF BootstrapFails
<1>7. CASE CallFails(i)          BY <1>7 DEF CallFails
<1>8. CASE GiveUp(i)             BY <1>8 DEF GiveUp
<1>9. CASE BeginImport(i)        BY <1>9 DEF BeginImport
<1>10. CASE EndImport(i)         BY <1>10 DEF EndImport
<1>11. CASE BreakImport(i)
  <2>1. image'[i] \in {"lost", "broken"}  BY <1>11 DEF BreakImport
  <2> QED  BY <1>11, <2>1 DEF BreakImport
<1>12. CASE MarkTemplate(i)      BY <1>12 DEF MarkTemplate
<1>13. CASE Clone(i)             BY <1>13 DEF Clone
<1>14. CASE CloneRefused(i)      BY <1>14 DEF CloneRefused
<1>15. CASE SetIgnition(i)       BY <1>15 DEF SetIgnition, ChangeVm
<1>16. CASE PowerOn(i)           BY <1>16 DEF PowerOn, ChangeVm
<1>17. CASE PowerOff(i)          BY <1>17 DEF PowerOff, ChangeVm
<1>18. CASE Destroy(i)           BY <1>18 DEF Destroy, ChangeVm
<1>19. CASE Refuse(i)            BY <1>19 DEF Refuse
<1>20. CASE Fetched(i)           BY <1>20 DEF Fetched
<1>21. CASE Stall(i)             BY <1>21 DEF Stall
<1>22. CASE Destroyed(i)         BY <1>22 DEF Destroyed
<1>23. QED
  BY <1>1, <1>2, <1>3, <1>4, <1>5, <1>6, <1>7, <1>8, <1>9, <1>10,
     <1>11, <1>12, <1>13, <1>14, <1>15, <1>16, <1>17, <1>18, <1>19, <1>20,
     <1>21, <1>22
  DEF Work, Advance, Platform, Perform

\* A job that ends, or whose call is answered with an error, keeps its VMs.
LEMMA Settled ==
  ASSUME NEW j \in Jobs, NodeInv(j), UNCHANGED <<vm, node, source, torn>>,
         stage'[j] \in {stage[j], "failed", "done"},
         call'[j] \in {call[j], "none", "error"}
  PROVE  NodeInv(j)'
<1> USE DEF Serves
<1>1. CASE call'[j] = call[j] /\ stage'[j] = stage[j]  BY <1>1 DEF NodeInv, AllOn
<1>2. CASE call'[j] = call[j] /\ stage'[j] \in {"failed", "done"}  BY <1>2 DEF NodeInv, AllOn
<1>3. CASE call'[j] \in {"none", "error"}  BY <1>3 DEF NodeInv, AllOn
<1> QED  BY <1>1, <1>2, <1>3

\* How far the VMs are.
LEMMA NodesKept ==
  ASSUME TypeOK, NEW i \in Jobs, CallInv(i), NodeInv(i), Begin(i) \/ Work(i) \/ Platform(i)
  PROVE  NodeInv(i)'
<1>0. torn' = torn => (Serves(i)' <=> Serves(i))  BY DEF Serves
<1> USE <1>0, JobsAssumption, NodesAssumption, NoImageAssumption
    DEF TypeOK, CallInv, NodeInv, AllOn, Stages, Calls, Over, Down, Vms, Bootstrap,
        platformVars, Goto, Enter, After, AfterImport, AfterClone, AfterLast, CallReturns, Answer, Found, SameName
<1>1. CASE Begin(i)              BY <1>1 DEF Begin
<1>2. CASE TemplateFound(i)      BY <1>2 DEF TemplateFound
<1>3. CASE TemplateMissing(i)    BY <1>3 DEF TemplateMissing
<1>4. CASE Proceed(i)
  <2>1. CASE stage[i] = "import"  BY <1>4, <2>1 DEF Proceed
  <2>2. CASE stage[i] = "mark"  BY <1>4, <2>2 DEF Proceed
  <2>3. CASE stage[i] = "clone"  BY <1>4, <2>3 DEF Proceed
  <2>4. CASE stage[i] = "ignite"  BY <1>4, <2>4 DEF Proceed
  <2>5. CASE stage[i] = "power"
    <3>1. node[i][vm[i]] = "on" /\ node[i][Bootstrap] \notin Down  BY <1>4, <2>5 DEF Proceed
    <3>2. \A v \in Vms : v <= vm[i] => node[i][v] = "on"
      <4> SUFFICES ASSUME NEW v \in Vms, v <= vm[i] PROVE node[i][v] = "on"
        OBVIOUS
      <4>1. CASE v = vm[i]  BY <3>1, <4>1
      <4>2. CASE v < vm[i]  BY <3>1, <4>2
      <4> QED  BY <4>1, <4>2
    <3>3. UNCHANGED <<node, source, torn>>  BY <1>4 DEF Proceed
    <3>4. CASE vm[i] < Nodes
      <4>1. stage'[i] = "clone" /\ call'[i] = "clone" /\ vm'[i] = vm[i] + 1
        BY <1>4, <2>5, <3>4 DEF Proceed
      <4> QED  BY <3>1, <3>2, <3>3, <3>4, <4>1
    <3>5. CASE vm[i] = Nodes
      <4>1. stage'[i] \in {"bootstrap", "done"} /\ call'[i] = "none" /\ vm'[i] = Nodes
        BY <1>4, <2>5, <3>5 DEF Proceed
      <4> QED  BY <3>1, <3>2, <3>3, <3>5, <4>1
    <3> QED  BY <3>4, <3>5
  <2>6. CASE stage[i] = "off"  BY <1>4, <2>6 DEF Proceed
  <2>7. CASE stage[i] = "destroy"
    <3>1. /\ UNCHANGED <<vm, node, source, torn>>
          /\ stage'[i] = "done" /\ call'[i] = "none"  BY <1>4, <2>7 DEF Proceed
    <3> QED  BY <3>1, Settled
  <2> QED  BY <1>4, <2>1, <2>2, <2>3, <2>4, <2>5, <2>6, <2>7 DEF Proceed
<1>5. CASE BootstrapCompletes(i) BY <1>5 DEF BootstrapCompletes
<1>6. CASE BootstrapFails(i)     BY <1>6 DEF BootstrapFails
<1>7. CASE CallFails(i)
  <2>1. /\ UNCHANGED <<vm, node, source, torn>>
        /\ stage'[i] \in {stage[i], "failed"}
        /\ call'[i] \in {call[i], "none", "error"}  BY <1>7 DEF CallFails
  <2> QED  BY <2>1, Settled
<1>8. CASE GiveUp(i)
  <2>1. /\ UNCHANGED <<vm, node, source, torn>>
        /\ stage'[i] \in {stage[i], "failed"}
        /\ call'[i] \in {call[i], "none", "error"}  BY <1>8 DEF GiveUp
  <2> QED  BY <2>1, Settled
<1>9. CASE BeginImport(i)        BY <1>9 DEF BeginImport
<1>10. CASE EndImport(i)         BY <1>10 DEF EndImport
<1>11. CASE BreakImport(i)       BY <1>11 DEF BreakImport
<1>12. CASE MarkTemplate(i)      BY <1>12 DEF MarkTemplate
<1>13. CASE Clone(i)
  <2>1. node[i][vm[i]] = "none" /\ node[i][Bootstrap] \notin Down  BY <1>13 DEF Clone
  <2> QED  BY <1>13, <2>1 DEF Clone
<1>14. CASE CloneRefused(i)      BY <1>14 DEF CloneRefused
<1>15. CASE SetIgnition(i)       BY <1>15 DEF SetIgnition, ChangeVm
<1>16. CASE PowerOn(i)           BY <1>16 DEF PowerOn, ChangeVm
<1>17. CASE PowerOff(i)
  <2> HIDE DEF NodeInv
  <2>0. call[i] = "off"  BY <1>17 DEF PowerOff, ChangeVm
  <2>1. stage[i] \in {"off", "failed"}  BY <2>0
  <2>5. AllOn(i)  BY <2>0 DEF NodeInv
  <2>2. AllOn(i)'  BY <1>17, <2>5 DEF PowerOff, ChangeVm
  <2>3. node'[i] = [node[i] EXCEPT ![Bootstrap] = "off"]  BY <1>17 DEF PowerOff, ChangeVm
  <2>4. UNCHANGED <<stage, vm, source, torn>> /\ call'[i] \in {"ok", "none"}  BY <1>17 DEF PowerOff, ChangeVm
  <2>6. \A v \in Vms : node'[i][v] = "on" \/ (v = Bootstrap /\ node'[i][v] = "off")
    BY <2>2, <2>3
  <2>7. i \notin IsoJobs /\ vm'[i] = Nodes  BY <2>0, <2>2
  <2>8. stage'[i] \in {"off", "failed"} /\ call'[i] \in {"ok", "none"}  BY <2>1, <2>4
  <2> HIDE DEF AllOn, CallInv, TypeOK
  <2> QED  BY <2>2, <2>6, <2>7, <2>8 DEF NodeInv, AllOn
<1>18. CASE Destroy(i)
  <2> HIDE DEF NodeInv
  <2>0. call[i] = "destroy"  BY <1>18 DEF Destroy, ChangeVm
  <2>1. stage[i] \in {"destroy", "failed"}  BY <2>0
  <2>5. AllOn(i)  BY <2>0 DEF NodeInv
  <2>2. AllOn(i)'  BY <1>18, <2>5 DEF Destroy, ChangeVm
  <2>3. \E d \in Down : node'[i] = [node[i] EXCEPT ![Bootstrap] = d]  BY <1>18 DEF Destroy, ChangeVm
  <2>4. UNCHANGED <<stage, vm, source, torn>> /\ call'[i] \in {"ok", "none"}  BY <1>18 DEF Destroy, ChangeVm
  <2>6. \A v \in Vms : node'[i][v] = "on" \/ (v = Bootstrap /\ node'[i][v] \in Down)
    BY <2>2, <2>3
  <2>7. i \notin IsoJobs /\ vm'[i] = Nodes  BY <2>0, <2>2
  <2>8. stage'[i] \in {"destroy", "failed"} /\ call'[i] \in {"ok", "none"}  BY <2>1, <2>4
  <2> HIDE DEF AllOn, CallInv, TypeOK
  <2> QED  BY <2>2, <2>6, <2>7, <2>8 DEF NodeInv, AllOn
<1>19. CASE Refuse(i)
  <2>1. /\ UNCHANGED <<vm, node, source, torn>>
        /\ stage'[i] \in {stage[i], "failed"}
        /\ call'[i] \in {call[i], "none", "error"}  BY <1>19 DEF Refuse
  <2> QED  BY <2>1, Settled
<1>20. CASE Fetched(i)           BY <1>20 DEF Fetched
<1>21. CASE Stall(i)             BY <1>21 DEF Stall
<1>22. CASE Destroyed(i)
  <2> HIDE DEF NodeInv
  <2>0. node[i][Bootstrap] \in Down  BY <1>22 DEF Destroyed
  <2>5. AllOn(i)  BY <2>0 DEF NodeInv
  <2>2. AllOn(i)'  BY <1>22, <2>5 DEF Destroyed
  <2>3. node'[i] = [node[i] EXCEPT ![Bootstrap] = "gone"]  BY <1>22 DEF Destroyed
  <2>4. UNCHANGED <<stage, call, vm, source, torn>>  BY <1>22 DEF Destroyed
  <2>6. /\ vm[i] = Nodes /\ \A v \in Vms \ {Bootstrap} : node[i][v] = "on"
        /\ \A v \in Vms \ {Bootstrap} : node'[i][v] = "on"
        /\ node'[i][Bootstrap] = "gone"  BY <2>2, <2>3, <2>5
  <2> HIDE DEF AllOn, CallInv, TypeOK
  <2> QED  BY <2>0, <2>2, <2>4, <2>5, <2>6 DEF NodeInv
<1>23. QED
  BY <1>1, <1>2, <1>3, <1>4, <1>5, <1>6, <1>7, <1>8, <1>9, <1>10,
     <1>11, <1>12, <1>13, <1>14, <1>15, <1>16, <1>17, <1>18, <1>19, <1>20,
     <1>21, <1>22
  DEF Work, Advance, Platform, Perform


-----------------------------------------------------------------------------
(* What the jobs know of each other *)

\* What a step can do to one job's image, and where its import and its clones begin.
LEMMA Steps ==
  ASSUME TypeOK, NEW i \in Jobs, CallInv(i), Begin(i) \/ Work(i) \/ Platform(i)
  PROVE  /\ Making(i)' => Making(i) \/ Begin(i) \/ i \in IsoJobs
         /\ Cloning(i)' => \/ Cloning(i)
                           \/ TemplateFound(i)
                           \/ stage[i] \in {"import", "mark"} /\ image[i] = "ready"
                           \/ i \in IsoJobs
         /\ stage'[i] \in {"fetch", "import"} =>
              stage[i] \in {"fetch", "import"} \/ TemplateMissing(i) \/ i \in IsoJobs
         /\ Present(i) => Present(i)' \/ i \in IsoJobs \/ Vanished(i)'
         /\ \/ torn' = torn /\ source' = source
            \/ Clone(i)
         /\ Vanished(i) => Vanished(i)'
<1> USE JobsAssumption, NodesAssumption, NoImageAssumption
    DEF TypeOK, CallInv, Stages, Calls, Over, platformVars, Goto, Enter, After, AfterImport,
        AfterClone, AfterLast, CallReturns, Answer, Making, Cloning, Vanished, Present, Upi
<1>1. CASE Begin(i)              BY <1>1 DEF Begin
<1>2. CASE TemplateFound(i)      BY <1>2 DEF TemplateFound
<1>3. CASE TemplateMissing(i)    BY <1>3 DEF TemplateMissing
<1>4. CASE Proceed(i)            BY <1>4 DEF Proceed
<1>5. CASE BootstrapCompletes(i) BY <1>5 DEF BootstrapCompletes
<1>6. CASE BootstrapFails(i)     BY <1>6 DEF BootstrapFails
<1>7. CASE CallFails(i)          BY <1>7 DEF CallFails
<1>8. CASE GiveUp(i)             BY <1>8 DEF GiveUp
<1>9. CASE BeginImport(i)        BY <1>9 DEF BeginImport
<1>10. CASE EndImport(i)         BY <1>10 DEF EndImport
<1>11. CASE BreakImport(i)
  <2>1. image'[i] \in {"lost", "broken"}  BY <1>11 DEF BreakImport
  <2> QED  BY <1>11, <2>1 DEF BreakImport
<1>12. CASE MarkTemplate(i)      BY <1>12 DEF MarkTemplate
<1>13. CASE Clone(i)             BY <1>13 DEF Clone
<1>14. CASE CloneRefused(i)      BY <1>14 DEF CloneRefused
<1>15. CASE SetIgnition(i)       BY <1>15 DEF SetIgnition, ChangeVm
<1>16. CASE PowerOn(i)           BY <1>16 DEF PowerOn, ChangeVm
<1>17. CASE PowerOff(i)          BY <1>17 DEF PowerOff, ChangeVm
<1>18. CASE Destroy(i)           BY <1>18 DEF Destroy, ChangeVm
<1>19. CASE Refuse(i)            BY <1>19 DEF Refuse
<1>20. CASE Fetched(i)           BY <1>20 DEF Fetched
<1>21. CASE Stall(i)             BY <1>21 DEF Stall
<1>22. CASE Destroyed(i)         BY <1>22 DEF Destroyed
<1>23. QED
  BY <1>1, <1>2, <1>3, <1>4, <1>5, <1>6, <1>7, <1>8, <1>9, <1>10,
     <1>11, <1>12, <1>13, <1>14, <1>15, <1>16, <1>17, <1>18, <1>19, <1>20,
     <1>21, <1>22
  DEF Work, Advance, Platform, Perform

\* An import that left nothing is not made good.
LEMMA VanishedStays ==
  ASSUME TypeOK, \A j \in Jobs : CallInv(j), NEW i \in Jobs,
         Begin(i) \/ Work(i) \/ Platform(i), NEW h \in Jobs, Vanished(h)
  PROVE  Vanished(h)'
<1>1. CASE h = i  BY <1>1, Steps
<1>2. CASE h # i  BY <1>2, OthersSame DEF Same, Vanished
<1> QED  BY <1>1, <1>2

\* A job that neither overlaps nor hurries imports when there is no image (upi.py 210-231).
LEMMA ShareKept ==
  ASSUME TypeOK, \A j \in Jobs : CallInv(j), ShareInv, NEW i \in Jobs,
         Begin(i) \/ Work(i) \/ Platform(i)
  PROVE  ShareInv'
<1> USE JobsAssumption
<1>1. \A j \in Jobs : j # i => Same(j)  BY OthersSame
<1>2. (\E h \in Jobs : Vanished(h)) => (\E h \in Jobs : Vanished(h)')  BY VanishedStays
<1>3. ASSUME NEW j \in Upi, NEW k \in Upi, j # k, j \notin Overlapping, k \notin Overlapping
      PROVE  ~(Making(j)' /\ Making(k)')
  <2>1. ~(Making(j) /\ Making(k))  BY <1>3 DEF ShareInv
  <2>2. \A x \in {j, k} : x # i => (Making(x)' <=> Making(x))  BY <1>1 DEF Upi, Same, Making
  <2>3. Begin(i) /\ i \in {j, k} => ~Making(j) /\ ~Making(k)  BY <1>3 DEF Begin, Upi
  <2>4. \A x \in {j, k} : Making(x)' => Making(x) \/ (x = i /\ Begin(i))
    BY <2>2, Steps DEF Upi
  <2> QED  BY <1>3, <2>1, <2>3, <2>4
<1>4. ASSUME NEW j \in Upi, Cloning(j)'
      PROVE  (\E k \in Upi : Present(k)') \/ (\E h \in Jobs : Vanished(h)')
  <2>1. (\E k \in Upi : Present(k)) \/ (\E h \in Jobs : Vanished(h))
    <3>1. CASE Cloning(j)  BY <3>1 DEF ShareInv
    <3>2. CASE j = i /\ TemplateFound(i)  BY <3>2 DEF TemplateFound, Found, SameName, Upi
    <3>3. CASE j = i /\ image[i] = "ready"  BY <1>4, <3>3 DEF Present
    <3>4. j # i => Cloning(j)  BY <1>1, <1>4 DEF Same, Cloning, Upi
    <3> QED  BY <1>4, <3>1, <3>2, <3>3, <3>4, Steps DEF Upi
  <2>2. ASSUME NEW k \in Upi, Present(k)
        PROVE  Present(k)' \/ Vanished(k)'
    BY <1>1, <2>2, Steps DEF Upi, Same, Present
  <2> QED  BY <1>2, <2>1, <2>2 DEF Upi
<1>5. ASSUME NEW j \in Upi, NEW k \in Upi, j # k, j \notin Overlapping,
             k \notin Overlapping \cup Hasty, stage'[k] \in {"fetch", "import"}, Cloning(j)'
      PROVE  \E h \in Jobs : Vanished(h)'
  <2>1. CASE stage[k] \in {"fetch", "import"}
    <3>1. ~Making(j)  BY <1>5, <2>1 DEF ShareInv, Making
    <3>2. Cloning(j)
      <4>1. CASE j = i
        BY <1>5, <3>1, <4>1, Steps DEF Making, TemplateFound, Goto, Upi
      <4>2. CASE j # i  BY <1>1, <1>5, <4>2 DEF Same, Cloning, Upi
      <4> QED  BY <4>1, <4>2
    <3> QED  BY <1>2, <1>5, <2>1, <3>2 DEF ShareInv
  <2>2. CASE stage[k] \notin {"fetch", "import"}
    <3>1. k = i /\ TemplateMissing(i)  BY <1>1, <1>5, <2>2, Steps DEF Same, Upi
    <3>2. \A x \in Upi : ~Present(x)
      BY <1>5, <3>1 DEF TemplateMissing, Found, SameName, Upi
    <3>3. Cloning(j)  BY <1>1, <1>5, <3>1 DEF Same, Cloning, Upi
    <3> QED  BY <1>2, <3>2, <3>3 DEF ShareInv
  <2> QED  BY <2>1, <2>2
<1> QED  BY <1>3, <1>4, <1>5 DEF ShareInv

\* A clone of an image that is not complete.
LEMMA DisksKept ==
  ASSUME IInv, NEW i \in Jobs, Begin(i) \/ Work(i) \/ Platform(i)
  PROVE  WholeDisks'
<1> USE JobsAssumption
<1> DEFINE Excused(j, v) == \/ j \in Overlapping
                            \/ source[j][v] \in Overlapping \cup Hasty
                            \/ \E h \in Jobs : Vanished(h)
<1>1. (\E h \in Jobs : Vanished(h)) => (\E h \in Jobs : Vanished(h)')
  BY VanishedStays DEF IInv
<1>2. SUFFICES ASSUME NEW j \in Jobs, NEW v \in Vms, <<j, v>> \in torn'
               PROVE  Excused(j, v)'
  BY DEF WholeDisks
<1>3. CASE <<j, v>> \in torn
  <2>1. Excused(j, v)  BY <1>3 DEF IInv, WholeDisks
  <2>2. source'[j][v] = source[j][v]
    <3>1. CASE source' = source  BY <3>1
    <3>2. CASE Clone(i)
      <4>1. node[i][vm[i]] = "none"  BY <3>2 DEF IInv, NodeInv, Clone
      <4>2. node[j][v] # "none"  BY <1>3 DEF IInv, NodeInv
      <4>3. i # j \/ vm[i] # v  BY <4>1, <4>2
      <4>4. PICK k \in Found(i) : source' = [source EXCEPT ![i][vm[i]] = k]
        BY <3>2 DEF Clone
      <4>5. source \in [Jobs -> [Vms -> Jobs \cup {NoImage}]]  BY DEF IInv, TypeOK
      <4> HIDE DEF Found
      <4> QED  BY <4>3, <4>4, <4>5
    <3> QED  BY <3>1, <3>2, Steps DEF IInv
  <2> QED  BY <1>1, <2>1, <2>2
<1>4. CASE <<j, v>> \notin torn
  <2>1. Clone(i)  BY <1>2, <1>4, Steps DEF IInv
  <2>2. PICK k \in Found(i) :
          /\ source' = [source EXCEPT ![i][vm[i]] = k]
          /\ torn' = IF image[k] = "ready" THEN torn ELSE torn \cup {<<i, vm[i]>>}
    BY <2>1 DEF Clone
  <2>3. j = i /\ v = vm[i] /\ image[k] # "ready"  BY <1>2, <1>4, <2>2
  <2>4. source'[j][v] = k  BY <2>2, <2>3 DEF IInv, TypeOK
  <2>5. k \in Jobs /\ Present(k) /\ call[i] = "clone"  BY <2>1 DEF Found, Clone
  <2>6. i \in Upi /\ k \in Upi
    BY <2>3, <2>5 DEF Found, SameName, Upi, IInv, CallInv, Calls
  <2>7. CASE image[k] = "broken"  BY <2>4, <2>5, <2>7 DEF IInv, CallInv
  <2>8. CASE image[k] = "importing" /\ k \notin Hasty
    <3>1. call[k] = "import" /\ stage[k] = "import"  BY <2>5, <2>8 DEF IInv, CallInv
    <3>2. CASE i \in Overlapping \/ k \in Overlapping  BY <2>3, <2>4, <3>2
    <3>3. CASE i \notin Overlapping /\ k \notin Overlapping
      BY <1>1, <2>5, <2>6, <2>8, <3>1, <3>3 DEF IInv, ShareInv, Cloning
    <3> QED  BY <3>2, <3>3
  <2> QED  BY <2>3, <2>4, <2>5, <2>7, <2>8 DEF IInv, TypeOK, Present
<1> QED  BY <1>3, <1>4

-----------------------------------------------------------------------------
(* The theorems *)

\* The invariant is kept by every step of every job and of the platform.
LEMMA NextIInv == IInv /\ [Next]_vars => IInv'
<1> SUFFICES ASSUME IInv, [Next]_vars PROVE IInv'
  OBVIOUS
<1>1. ASSUME NEW i \in Jobs, Begin(i) \/ Work(i) \/ Platform(i) PROVE IInv'
  <2>1. TypeOK'  BY <1>1, TypesKept DEF IInv
  <2>2. ASSUME NEW j \in Jobs PROVE CallInv(j)' /\ NodeInv(j)'
    <3>1. CASE j = i  BY <1>1, <3>1, CallsKept, NodesKept DEF IInv
    <3>2. CASE j # i
      <4>1. Same(j)  BY <1>1, <3>2, OthersSame DEF IInv
      <4> QED  BY <4>1, SameKeeps DEF IInv
    <3> QED  BY <3>1, <3>2
  <2>3. ShareInv'  BY <1>1, ShareKept DEF IInv
  <2>4. WholeDisks'  BY <1>1, DisksKept
  <2> QED  BY <2>1, <2>2, <2>3, <2>4 DEF IInv
<1>2. CASE UNCHANGED vars
  BY <1>2 DEF vars, IInv, TypeOK, CallInv, NodeInv, AllOn, ShareInv, WholeDisks, Cloning,
              Making, Vanished, Present, Serves
<1> QED  BY <1>1, <1>2 DEF Next

\* The strengthened invariant holds in every reachable state.
THEOREM Inductive == Spec => []IInv
  BY InitIInv, NextIInv, PTL DEF Spec

\* The variables keep their types.
THEOREM TypeCorrect == Spec => []TypeOK
<1>1. IInv => TypeOK  BY DEF IInv
<1> QED  BY <1>1, Inductive, PTL

\* A disk is not the whole image only where the check of the template and its import
\* are torn apart, by a second job or by an interruption (upi.py 210-231).
THEOREM Whole == Spec => []WholeDisks
<1>1. IInv => WholeDisks  BY DEF IInv
<1> QED  BY <1>1, Inductive, PTL

\* The bootstrap VM is up before the others and goes when it has served the control
\* plane, whatever is given up and whatever became of the workers (upi.py 107-139).
THEOREM BootstrapServes == Spec => []BootstrapServesAll
<1>1. IInv => BootstrapServesAll
  <2> SUFFICES ASSUME IInv, NEW j \in Upi
      PROVE /\ \A v \in Vms : node[j][v] = "on" => node[j][Bootstrap] \in {"on"} \cup Down
            /\ node[j][Bootstrap] \in Down =>
                 Serves(j) /\ \A v \in Vms \ {Bootstrap} : node[j][v] = "on"
    BY DEF BootstrapServesAll, Upi
  <2> USE NodesAssumption
  <2>1. NodeInv(j) /\ vm[j] \in 1 .. Nodes  BY DEF IInv, Upi, TypeOK, Vms
  <2>2. ASSUME NEW v \in Vms, node[j][v] = "on"
        PROVE  node[j][Bootstrap] \in {"on"} \cup Down
    <3>1. v <= vm[j]  BY <2>1, <2>2 DEF NodeInv, Vms
    <3>2. CASE v = Bootstrap  BY <2>2, <3>2
    <3>3. CASE v # Bootstrap
      BY <2>1, <3>1, <3>3 DEF NodeInv, Vms, Bootstrap
    <3> QED  BY <3>2, <3>3
  <2>3. node[j][Bootstrap] \in Down => AllOn(j)  BY <2>1 DEF NodeInv
  <2> QED  BY <2>2, <2>3 DEF AllOn
<1> QED  BY <1>1, Inductive, PTL

\* A VM is started with its ignition config, or from its own job's image
\* (upi.py 166-169, agent.py 119-127, assisted.py 193-202).
THEOREM Boots == Spec => BootsConfigured
<1> DEFINE Step == \A j \in Jobs, v \in Vms : node[j][v] # "on" /\ node'[j][v] = "on" =>
                     IF j \in IsoJobs THEN node[j][v] = "made" /\ source[j][v] = j
                                      ELSE node[j][v] = "configured"
<1>1. IInv /\ [Next]_vars => [Step]_vars
  <2> SUFFICES ASSUME IInv, NEW i \in Jobs, Begin(i) \/ Work(i) \/ Platform(i) PROVE Step
    BY DEF Next
  <2> SUFFICES ASSUME NEW j \in Jobs, NEW v \in Vms, node[j][v] # "on", node'[j][v] = "on"
               PROVE  IF j \in IsoJobs THEN node[j][v] = "made" /\ source[j][v] = j
                                       ELSE node[j][v] = "configured"
    OBVIOUS
  <2>1. j = i  BY OthersSame DEF IInv, Same
  <2>2. call[i] = "power" /\ v = vm[i]
    BY <2>1 DEF IInv, TypeOK, Bootstrap, Work, Advance, Stall, Platform, Perform, Begin,
             TemplateFound, TemplateMissing, Fetched, Proceed, BootstrapCompletes,
             BootstrapFails, CallFails, GiveUp, BeginImport, EndImport, BreakImport,
             MarkTemplate, Clone, CloneRefused, SetIgnition, PowerOn, PowerOff, Destroy,
             Destroyed, Refuse, ChangeVm, platformVars
  <2> QED  BY <2>1, <2>2 DEF IInv, NodeInv
<1> QED  BY <1>1, Inductive, PTL DEF Spec, BootsConfigured
=============================================================================

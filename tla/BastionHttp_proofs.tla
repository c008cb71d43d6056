-------------------------- MODULE BastionHttp_proofs --------------------------
(***************************************************************************)
(* Theorems about BastionHttp, for any transfers and faults.               *)
(*                                                                         *)
(* The images need one fact: their server belongs to a transfer that is in *)
(* progress or exposed.  The ignition port is served for one job at a time *)
(* until a transfer overlaps another there; till then the invariant says   *)
(* whose server it can be, and that it is there while a VM needs it.       *)
(***************************************************************************)
EXTENDS BastionHttp, TLAPS

ImageServerInv ==
  \A p \in Ports : server[p] \in Transfers \ (Ignition \cup Exposed) => Active(server[p])

\* The server's owner, and what a client asked for
Matching ==
  /\ \A p \in Ports : server[p] # NoOne =>
       Port(server[p]) = p /\ got[server[p]] \in {NoOne, server[p]}
  /\ \A t \in Ignition : stage[t] # "giveup" /\ got[t] # "refused"
  /\ \A t \in Transfers : stage[t] \in {"idle", "start", "tell"} => ~asked[t] /\ got[t] = NoOne

\* One transfer at a time on the port of the ignition
OnIgnitionPort == {t \in Transfers : Port(t) = "8080"}
Alone == \A t, u \in OnIgnitionPort : Active(t) /\ Active(u) => t = u

ServedInv ==
  /\ server["8080"] # NoOne =>
       Active(server["8080"]) \/ server["8080"] \in MayError \cup Exposed
  /\ \A t \in Ignition :
       /\ stage[t] \in {"tell", "wait", "cleanup", "stop"} => server["8080"] # NoOne
       /\ stage[t] \in {"cleanup", "stop", "done"} => got[t] = t
       /\ stage[t] = "failed" /\ t \notin MayError => got[t] \in Transfers \ {t}

IgnitionInv == IgnitionOverlapped \/ (Alone /\ ServedInv)

IInv == TypeOK /\ Matching /\ ImageServerInv /\ IgnitionInv /\ OwnFile

-----------------------------------------------------------------------------
\* The port of the ignition is fixed, and each transfer has one of the ports.
LEMMA PortsAre ==
  /\ "8080" \in Ports
  /\ \A t \in Transfers : Port(t) \in Ports
  /\ \A t \in Ignition : Port(t) = "8080"
BY DEF Ports, Port

\* Nothing is served at first.
LEMMA InitIInv == Init => IInv
  BY TransfersAssumption, NoOneAssumption, PortsAre
  DEF Init, IInv, TypeOK, Matching, ImageServerInv, IgnitionInv, Alone, OnIgnitionPort, ServedInv,
      OwnFile, Active, Over

\* Every statement of a transfer, and its client, keep the types.
LEMMA NextTypeOK == TypeOK /\ [Next]_vars => TypeOK'
<1> SUFFICES ASSUME TypeOK, [Next]_vars PROVE TypeOK'
    OBVIOUS
<1> USE NoOneAssumption, PortsAre DEF TypeOK, Over, Goto, Unwind
<1>1. CASE UNCHANGED vars BY <1>1 DEF vars
<1>2. ASSUME NEW t \in Transfers, Begin(t) PROVE TypeOK' BY <1>2 DEF Begin
<1>3. ASSUME NEW t \in Transfers, Work(t) PROVE TypeOK'
  <2>1. CASE StartServer(t)      BY <2>1 DEF StartServer
  <2>2. CASE GiveUrl(t)          BY <2>2 DEF GiveUrl
  <2>3. CASE Succeed(t)          BY <2>3 DEF Succeed
  <2>4. CASE DestroyBootstrap(t) BY <2>4 DEF DestroyBootstrap
  <2>5. CASE WaitFails(t)        BY <2>5 DEF WaitFails
  <2>6. CASE OtherError(t)       BY <2>6 DEF OtherError
  <2>7. CASE Stop(t)             BY <2>7 DEF Stop
  <2>8. QED BY <1>3, <2>1, <2>2, <2>3, <2>4, <2>5, <2>6, <2>7 DEF Work
<1>4. ASSUME NEW t \in Transfers, Fault(t) PROVE TypeOK' BY <1>4 DEF Fault, NoClient, StopFails
<1>5. ASSUME NEW t \in Transfers, Client(t) PROVE TypeOK'
  BY <1>5 DEF Client, Fetch, Refuse, Waiting
<1>6. QED BY <1>1, <1>2, <1>3, <1>4, <1>5 DEF Next

\* A server is for the clients of its port.
LEMMA NextMatching ==
  ASSUME IInv, [Next]_vars, TypeOK'
  PROVE  Matching'
<1> USE TransfersAssumption, NoOneAssumption, PortsAre
    DEF IInv, TypeOK, Matching, Over, Goto, Unwind
<1>1. CASE UNCHANGED vars BY <1>1 DEF vars
<1>2. ASSUME NEW t \in Transfers, Begin(t) PROVE Matching' BY <1>2 DEF Begin
<1>3. ASSUME NEW t \in Transfers, StartServer(t) PROVE Matching' BY <1>3 DEF StartServer
<1>4. ASSUME NEW t \in Transfers, GiveUrl(t) PROVE Matching' BY <1>4 DEF GiveUrl
<1>5. ASSUME NEW t \in Transfers, Stop(t) PROVE Matching' BY <1>5 DEF Stop
<1>6. ASSUME NEW t \in Transfers,
             Succeed(t) \/ DestroyBootstrap(t) \/ WaitFails(t) \/ OtherError(t) \/ Fault(t)
      PROVE  Matching'
  BY <1>6 DEF Succeed, DestroyBootstrap, WaitFails, OtherError, Fault, NoClient, StopFails
<1>7. ASSUME NEW t \in Transfers, Client(t) PROVE Matching'
  BY <1>7 DEF Client, Fetch, Refuse, Waiting
<1>8. QED BY <1>1, <1>2, <1>3, <1>4, <1>5, <1>6, <1>7 DEF Next, Work

\* A transfer leaves the image port's server behind only where it is exposed.
LEMMA NextImageServerInv ==
  ASSUME IInv, [Next]_vars, TypeOK'
  PROVE  ImageServerInv'
<1> USE TransfersAssumption, NoOneAssumption, PortsAre
    DEF IInv, TypeOK, Matching, ImageServerInv, Active, Over, Goto, Unwind
<1>1. CASE UNCHANGED vars BY <1>1 DEF vars
<1>2. ASSUME NEW t \in Transfers, Begin(t) PROVE ImageServerInv' BY <1>2 DEF Begin
<1>3. ASSUME NEW t \in Transfers, StartServer(t) PROVE ImageServerInv' BY <1>3 DEF StartServer
<1>4. ASSUME NEW t \in Transfers, Stop(t) PROVE ImageServerInv' BY <1>4 DEF Stop
<1>5. ASSUME NEW t \in Transfers, Fault(t) PROVE ImageServerInv'
  BY <1>5 DEF Fault, NoClient, StopFails
<1>6. ASSUME NEW t \in Transfers,
             GiveUrl(t) \/ Succeed(t) \/ DestroyBootstrap(t) \/ WaitFails(t) \/ OtherError(t)
      PROVE  ImageServerInv'
  BY <1>6 DEF GiveUrl, Succeed, DestroyBootstrap, WaitFails, OtherError
<1>7. ASSUME NEW t \in Transfers, Client(t) PROVE ImageServerInv'
  BY <1>7 DEF Client, Fetch, Refuse, Waiting
<1>8. QED BY <1>1, <1>2, <1>3, <1>4, <1>5, <1>6, <1>7 DEF Next, Work

\* A transfer becomes active by Begin only, and is never idle again.
LEMMA Moves ==
  ASSUME TypeOK, [Next]_vars, NEW u \in Transfers
  PROVE  /\ stage[u] # "idle" => stage'[u] # "idle"
         /\ Active(u)' => Active(u) \/ Begin(u)
<1> DEFINE Goal == /\ stage[u] # "idle" => stage'[u] # "idle"
                   /\ Active(u)' => Active(u) \/ Begin(u)
<1> USE DEF TypeOK, Active, Over, Goto, Unwind
<1>1. CASE UNCHANGED vars BY <1>1 DEF vars
<1>2. ASSUME NEW t \in Transfers, Begin(t) \/ StartServer(t) \/ GiveUrl(t) PROVE Goal
  BY <1>2 DEF Begin, StartServer, GiveUrl
<1>3. ASSUME NEW t \in Transfers, Succeed(t) \/ DestroyBootstrap(t) PROVE Goal
  BY <1>3 DEF Succeed, DestroyBootstrap
<1>4. ASSUME NEW t \in Transfers, WaitFails(t) PROVE Goal
  BY <1>4 DEF WaitFails
<1>5. ASSUME NEW t \in Transfers, OtherError(t) PROVE Goal
  BY <1>5 DEF OtherError
<1>6. ASSUME NEW t \in Transfers, Stop(t) \/ NoClient(t) \/ StopFails(t) PROVE Goal
  BY <1>6 DEF Stop, NoClient, StopFails
<1>7. ASSUME NEW t \in Transfers, Client(t) PROVE Goal
  BY <1>7 DEF Client, Fetch, Refuse
<1>8. QED BY <1>1, <1>2, <1>3, <1>4, <1>5, <1>6, <1>7 DEF Next, Work, Fault

\* An overlap that has begun does not become undone.
LEMMA OverlapStays ==
  ASSUME IInv, [Next]_vars, IgnitionOverlapped
  PROVE  IgnitionOverlapped'
BY Moves, TransfersAssumption DEF IInv, IgnitionOverlapped

\* Until transfers overlap, ignition is served for one job at a time.
LEMMA NextAlone ==
  ASSUME IInv, [Next]_vars, ~IgnitionOverlapped'
  PROVE  Alone'
<1>1. Alone /\ TypeOK BY OverlapStays DEF IInv, IgnitionInv
<1>2. ASSUME NEW t \in OnIgnitionPort, Begin(t)
      PROVE  \A u \in OnIgnitionPort : ~Active(u)
  <2>1. stage'[t] # "idle"
    BY <1>1, <1>2 DEF OnIgnitionPort, Begin, Goto, TypeOK
  <2>2. t \notin Overlapping BY <2>1 DEF OnIgnitionPort, IgnitionOverlapped, Port
  <2>3. QED BY <1>2, <2>2 DEF OnIgnitionPort, Begin
<1>3. \A t \in OnIgnitionPort : Active(t)' => Active(t) \/ Begin(t)
  BY <1>1, Moves DEF OnIgnitionPort
<1>4. ASSUME NEW t \in OnIgnitionPort, NEW u \in OnIgnitionPort, Begin(t), Active(u)' PROVE t = u
  <2>1. t \in Transfers /\ u \in Transfers /\ ~Active(u) BY <1>2, <1>4 DEF OnIgnitionPort
  <2>2. QED BY <1>1, <1>4, <2>1 DEF Begin, Goto, TypeOK, Active
<1>5. QED BY <1>1, <1>3, <1>4 DEF Alone, OnIgnitionPort, Port

\* The server stays as long as the VM it was started for may ask.
LEMMA NextServedInv ==
  ASSUME IInv, [Next]_vars, TypeOK', ~IgnitionOverlapped'
  PROVE  ServedInv'
<1> USE TransfersAssumption, NoOneAssumption, PortsAre
    DEF IInv, TypeOK, IgnitionInv, Matching, ServedInv, Active, Over, Goto, Unwind
<1>1. Alone /\ ServedInv BY OverlapStays
<1>2. CASE UNCHANGED vars BY <1>1, <1>2 DEF vars
<1>3. ASSUME NEW t \in Transfers, Begin(t) PROVE ServedInv' BY <1>1, <1>3 DEF Begin
<1>4. ASSUME NEW t \in Transfers, StartServer(t) PROVE ServedInv'
  BY <1>1, <1>4 DEF StartServer, Alone
<1>5. ASSUME NEW t \in Transfers, Succeed(t) \/ DestroyBootstrap(t) \/ GiveUrl(t) PROVE ServedInv'
  BY <1>1, <1>5 DEF Succeed, DestroyBootstrap, GiveUrl
<1>6. ASSUME NEW t \in Transfers, WaitFails(t) PROVE ServedInv'
  <2>1. /\ stage[t] = "wait" /\ stage' = [stage EXCEPT ![t] = Unwind(t)]
        /\ UNCHANGED <<server, got>>
    BY <1>6 DEF WaitFails
  <2>2. t \in Ignition \ MayError => got[t] \in Transfers \ {t}
    BY <1>1, <1>6, <2>1 DEF WaitFails, NeverBoots
  <2>3. t \in Ignition /\ server["8080"] = t => t \in MayError
    BY <1>1, <2>2
  <2>4. QED BY <1>1, <2>1, <2>2, <2>3
<1>7. ASSUME NEW t \in Transfers, OtherError(t) PROVE ServedInv'
  BY <1>1, <1>7 DEF OtherError
<1>8. ASSUME NEW t \in Transfers, Stop(t) PROVE ServedInv'
  <2>1. CASE Port(t) # "8080" BY <1>1, <1>8, <2>1 DEF Stop
  <2>2. CASE Port(t) = "8080"
    <3>1. \A u \in Ignition : Active(u) => u = t
      BY <1>1, <1>8, <2>2 DEF Stop, Alone, OnIgnitionPort
    <3>2. server' = [server EXCEPT !["8080"] = NoOne]
      BY <1>8, <2>2 DEF Stop
    <3>3. stage'[t] \in Over /\ \A u \in Transfers \ {t} : stage'[u] = stage[u]
      BY <1>8 DEF Stop
    <3>4. t \in Ignition => stage[t] = "stop" /\ stage'[t] = "done" BY <1>8 DEF Stop
    <3>5. server'["8080"] = NoOne /\ got' = got BY <1>8, <3>2 DEF Stop
    <3>6. QED BY <1>1, <3>1, <3>3, <3>4, <3>5
  <2>3. QED BY <2>1, <2>2
<1>9. ASSUME NEW t \in Transfers, Fault(t) PROVE ServedInv'
  BY <1>1, <1>9 DEF Fault, NoClient, StopFails
<1>10. ASSUME NEW t \in Transfers, Client(t) PROVE ServedInv'
  BY <1>1, <1>10 DEF Client, Fetch, Refuse, Waiting
<1>11. QED BY <1>2, <1>3, <1>4, <1>5, <1>6, <1>7, <1>8, <1>9, <1>10 DEF Next, Work

\* What a client fetches is its own job's file, with the exceptions that are named.
LEMMA NextOwnFile ==
  ASSUME IInv, [Next]_vars
  PROVE  OwnFile'
<1> USE TransfersAssumption, NoOneAssumption
    DEF IInv, TypeOK, OwnFile, Over
<1> USE PortsAre
<1>1. CASE IgnitionOverlapped BY <1>1, OverlapStays
<1>2. ASSUME ~IgnitionOverlapped, NEW t \in Transfers, Fetch(t) PROVE OwnFile'
  <2>1. /\ Alone /\ ServedInv /\ Matching /\ Waiting(t)
        /\ got' = [got EXCEPT ![t] = server[Port(t)]]
        /\ server[Port(t)] # NoOne
    BY <1>2 DEF IgnitionInv, Fetch
  <2>2. ASSUME t \in Ignition, server["8080"] # t
        PROVE  {t, server["8080"]} \cap MayError # {} \/ server["8080"] \in Exposed
    <3>1. stage[t] \in {"wait", "cleanup", "stop"} \/ t \in MayError
      BY <2>1, <2>2 DEF ServedInv, Matching, Waiting
    <3>2. /\ server["8080"] \in OnIgnitionPort /\ t \in OnIgnitionPort
          /\ Active(server["8080"]) \/ server["8080"] \in MayError \cup Exposed
      BY <2>1, <2>2 DEF ServedInv, Matching, OnIgnitionPort
    <3>3. QED BY <2>1, <2>2, <3>1, <3>2 DEF Alone, Active
  <2>3. CASE t \notin Ignition BY <1>2, <2>1, <2>3
  <2>4. CASE t \in Ignition
    <3>1. got' = [got EXCEPT ![t] = server["8080"]] BY <2>1, <2>4
    <3>2. QED BY <1>2, <2>2, <2>4, <3>1
  <2>5. QED BY <2>3, <2>4
<1>3. ASSUME got' = got, ~IgnitionOverlapped PROVE OwnFile'
  BY <1>3
<1>4. ASSUME NEW t \in Transfers, Refuse(t), ~IgnitionOverlapped PROVE OwnFile'
  BY <1>4 DEF Refuse
<1>5. ASSUME NEW t \in Transfers, Begin(t) \/ Work(t) \/ Fault(t) PROVE got' = got
  BY <1>5
  DEF Begin, Work, StartServer, GiveUrl, Succeed, DestroyBootstrap, WaitFails, OtherError, Stop,
      Fault, NoClient, StopFails
<1>6. QED BY <1>1, <1>2, <1>3, <1>4, <1>5 DEF Next, Client, vars

\* The invariant is inductive.
LEMMA NextIInv == IInv /\ [Next]_vars => IInv'
  BY NextTypeOK, NextMatching, NextImageServerInv, NextAlone, NextServedInv, NextOwnFile
  DEF IInv, IgnitionInv

\* The inductive invariant holds throughout.
THEOREM Inductive == Spec => []IInv
  BY InitIInv, NextIInv, PTL DEF Spec

\* Type correctness of every variable, for all constants.
THEOREM TypeCorrect == Spec => []TypeOK
<1>1. IInv => TypeOK BY DEF IInv
<1>2. QED BY Inductive, <1>1, PTL

\* A bootstrap VM gets another job's file only after an overlap or a failure
\* (upi.py 105-112, 135-145, 185-208).
THEOREM Own == Spec => []OwnFile
<1>1. IInv => OwnFile BY DEF IInv
<1>2. QED BY Inductive, <1>1, PTL

\* No images are served where no image transfer is in progress, but for the exposed
\* ones (nutanix.py 118-136, 168-185, 262-273).
THEOREM PortFreed == Spec => []ImagePortFreed
<1>1. IInv => ImagePortFreed
  BY DEF IInv, TypeOK, Matching, ImageServerInv, ImagePortFreed
<1>2. QED BY Inductive, <1>1, PTL

\* The ignition server is stopped when nobody still needs it (upi.py 140-145, 185-194).
THEOREM StopsLate == Spec => StopAfterAllFetched
<1> DEFINE A == \A t \in Ignition : server[Port(t)] # NoOne /\ server'[Port(t)] = NoOne =>
                  ~Waiting(t) \/ t \in MayError \/ IgnitionOverlapped
<1>1. ASSUME IInv, [Next]_vars PROVE A
  <2> SUFFICES ASSUME NEW u \in Ignition, ~IgnitionOverlapped, u \notin MayError, Waiting(u),
                      server["8080"] # NoOne, server'["8080"] = NoOne
               PROVE  FALSE
      BY PortsAre
  <2> USE TransfersAssumption, NoOneAssumption, PortsAre DEF IInv, TypeOK
  <2>1. PICK t \in Transfers : Stop(t) \/ StartServer(t)
    <3>1. server' # server BY <1>1
    <3>2. QED
      BY <1>1, <3>1
      DEF Next, Begin, Work, GiveUrl, Succeed, DestroyBootstrap, WaitFails,
          OtherError, Fault, NoClient, StopFails, Client, Fetch, Refuse, vars
  <2>2. Stop(t) /\ Port(t) = "8080"
    <3>1. ~StartServer(t) BY <1>1 DEF StartServer
    <3>2. QED BY <1>1, <2>1, <3>1 DEF Stop
  <2>3. stage[t] \in {"stop", "giveup"} /\ Alone /\ ServedInv /\ Matching
    BY <1>1, <2>2 DEF Stop, Goto, IgnitionInv
  <2>4. Active(u) BY <1>1, <2>3 DEF ServedInv, Matching, Waiting, Active, Over
  <2>5. u = t
    <3>1. t \in OnIgnitionPort /\ u \in OnIgnitionPort BY <2>2 DEF OnIgnitionPort
    <3>2. QED BY <2>3, <2>4, <3>1 DEF Alone, Active, Over
  <2>6. QED BY <2>3, <2>5 DEF ServedInv, Matching, Waiting
<1>2. QED BY Inductive, <1>1, PTL DEF Spec, StopAfterAllFetched
===============================================================================

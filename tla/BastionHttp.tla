---------------------------- MODULE BastionHttp ----------------------------
(***************************************************************************)
(* The HTTP servers that install jobs start on the bastion to hand a file  *)
(* of their install directory to somebody else: bootstrap.ign to the       *)
(* bootstrap VM (upi.py, port 8080) and an image to Prism Central          *)
(* (drivers/nutanix.py, bastion_http_port, 8081 by default).  A server is  *)
(* `nohup python3 -m http.server PORT &` in the job's directory, and is    *)
(* stopped with `pkill -f 'http.server PORT'`.  The port is all that two   *)
(* jobs share: a second server cannot bind it, which nobody notices, and   *)
(* pkill stops whoever has it.  Nothing keeps a profile's                  *)
(* bastion_http_port from being 8080 as well.                              *)
(*                                                                         *)
(* A transfer is one use of a server by one job.  The client asks for the  *)
(* same file name whatever the job, so it takes the file of the job whose  *)
(* server answers.  The bootstrap VM asks until somebody answers; Prism    *)
(* Central fails the image's task when nobody does.                        *)
(***************************************************************************)
CONSTANTS Transfers,    \* uses of a server, each by another job
          Ignition,     \* the transfers of bootstrap.ign; the others are images
          ImagePort,    \* ImagePort[t]: the port that the job's profile gives for images
          Overlapping,  \* transfers that may begin while another one has the port
          MayError,     \* transfers in which an API call or a command may fail
          Exposed,      \* transfers that may fail where no finally clause helps
          NoOne         \* nobody listens on the port

ASSUME TransfersAssumption ==
  Ignition \subseteq Transfers /\ MayError \subseteq Transfers /\ Exposed \subseteq Transfers
  /\ Overlapping \subseteq Transfers
ASSUME ImagePortAssumption == DOMAIN ImagePort = Transfers \ Ignition
ASSUME NoOneAssumption == NoOne \notin Transfers \cup {"refused"} /\ "refused" \notin Transfers

VARIABLES stage,    \* stage[t]: the next statement of the transfer
          server,   \* server[p]: the transfer whose directory port p serves
          asked,    \* asked[t]: the client was given the URL
          got       \* got[t]: whose file it has got

vars == <<stage, server, asked, got>>

Ports == {"8080"} \cup {ImagePort[t] : t \in Transfers \ Ignition}
Port(t) == IF t \in Ignition THEN "8080" ELSE ImagePort[t]
Over == {"done", "failed"}
Active(t) == stage[t] \notin {"idle"} \cup Over

TypeOK ==
  /\ stage \in [Transfers -> {"idle", "start", "tell", "wait", "cleanup", "stop", "giveup"} \cup Over]
  /\ server \in [Ports -> Transfers \cup {NoOne}]
  /\ asked \in [Transfers -> BOOLEAN]
  /\ got \in [Transfers -> Transfers \cup {NoOne, "refused"}]

Init ==
  /\ stage = [t \in Transfers |-> "idle"]
  /\ server = [p \in Ports |-> NoOne]
  /\ asked = [t \in Transfers |-> FALSE]
  /\ got = [t \in Transfers |-> NoOne]

Goto(t, here, there) == stage[t] = here /\ stage' = [stage EXCEPT ![t] = there]

Begin(t) ==
  /\ t \in Overlapping \/ \A u \in Transfers : Port(u) = Port(t) => ~Active(u)
  /\ Goto(t, "idle", "start")
  /\ UNCHANGED <<server, asked, got>>

\* Bug: the server never listens, for instance because `cd` failed.
StartServerInVain(t) ==
  /\ Goto(t, "start", "tell")
  /\ UNCHANGED <<server, asked, got>>

\* The result of the shell command is not looked at: binding a port that is
\* taken goes unnoticed
StartServer(t) ==
  /\ Goto(t, "start", "tell")
  /\ server' = [server EXCEPT ![Port(t)] = IF @ = NoOne THEN t ELSE @]
  /\ UNCHANGED <<asked, got>>

\* Bug: the bootstrap VM is destroyed without waiting for the bootstrap.
GiveUrlAndGoOn(t) ==
  /\ Goto(t, "tell", IF t \in Ignition THEN "cleanup" ELSE "wait")
  /\ asked' = [asked EXCEPT ![t] = TRUE]
  /\ UNCHANGED <<server, got>>

\* Boot the bootstrap VM with the pointer, or POST /images with the URL
GiveUrl(t) ==
  /\ Goto(t, "tell", "wait")
  /\ asked' = [asked EXCEPT ![t] = TRUE]
  /\ UNCHANGED <<server, got>>

\* The client, outside the program
Waiting(t) == asked[t] /\ got[t] = NoOne

Fetch(t) ==
  /\ Waiting(t)
  /\ server[Port(t)] # NoOne
  /\ got' = [got EXCEPT ![t] = server[Port(t)]]
  /\ UNCHANGED <<stage, server, asked>>

Refuse(t) ==
  /\ Waiting(t)
  /\ t \notin Ignition
  /\ server[Port(t)] = NoOne
  /\ got' = [got EXCEPT ![t] = "refused"]
  /\ UNCHANGED <<stage, server, asked>>

\* wait-for bootstrap-complete returns 0: the node runs this cluster's own
\* bootstrap.  wait_task: Prism Central has an image, from whatever it fetched.
Succeed(t) ==
  /\ Goto(t, "wait", IF t \in Ignition THEN "cleanup" ELSE "stop")
  /\ got[t] \in IF t \in Ignition THEN {t} ELSE Transfers
  /\ UNCHANGED <<server, asked, got>>

\* The bootstrap VM is powered off and destroyed
DestroyBootstrap(t) ==
  /\ Goto(t, "cleanup", "stop")
  /\ UNCHANGED <<server, asked, got>>

\* Bug: no finally clause in the driver either.
UnwindNoFinally(t) == "failed"

\* What leaves the straight line: in the UPI handler the job just fails, in the
\* Nutanix driver the finally clause still stops the server
Unwind(t) == IF t \in Ignition THEN "failed" ELSE "giveup"

\* Another job's file boots, but not this cluster; without a server nothing does
NeverBoots(t) == got[t] \in Transfers \ {t} \/ (got[t] = NoOne /\ server[Port(t)] = NoOne)

\* Bug: a FAILED task is polled like a running one.
WaitFailsOnError(t) ==
  /\ Goto(t, "wait", Unwind(t))
  /\ \/ t \in MayError
     \/ t \in Ignition /\ NeverBoots(t)
  /\ UNCHANGED <<server, asked, got>>

\* The bootstrap never completes, or the task is not SUCCEEDED in time
WaitFails(t) ==
  /\ Goto(t, "wait", Unwind(t))
  /\ \/ t \in MayError
     \/ got[t] = "refused"
     \/ t \in Ignition /\ NeverBoots(t)
  /\ UNCHANGED <<server, asked, got>>

OtherError(t) ==
  /\ t \in MayError
  /\ Goto(t, "tell", Unwind(t)) \/ Goto(t, "cleanup", Unwind(t))
  /\ UNCHANGED <<server, asked, got>>

\* Bug: the other port's server is stopped.
StopOtherPort(t) ==
  /\ Goto(t, "stop", "done") \/ Goto(t, "giveup", "failed")
  /\ \E p \in Ports \ {Port(t)} : server' = [server EXCEPT ![p] = NoOne]
  /\ UNCHANGED <<asked, got>>

\* pkill -f 'http.server PORT'
Stop(t) ==
  /\ Goto(t, "stop", "done") \/ Goto(t, "giveup", "failed")
  /\ server' = [server EXCEPT ![Port(t)] = NoOne]
  /\ UNCHANGED <<asked, got>>

\* The client object is made between the start of the server and the try: a
\* profile without `prism_central` leaves the server behind
NoClient(t) ==
  /\ t \in Exposed \ Ignition
  /\ Goto(t, "tell", "failed")
  /\ UNCHANGED <<server, asked, got>>

\* The connection is lost: the exception of the pkill is swallowed
StopFails(t) ==
  /\ t \in Exposed
  /\ Goto(t, "stop", "done") \/ Goto(t, "giveup", "failed")
  /\ UNCHANGED <<server, asked, got>>

Work(t) == \/ StartServer(t) \/ GiveUrl(t) \/ Succeed(t) \/ DestroyBootstrap(t)
           \/ WaitFails(t) \/ OtherError(t) \/ Stop(t)
Fault(t) == NoClient(t) \/ StopFails(t)
Client(t) == Fetch(t) \/ Refuse(t)

Next == \E t \in Transfers : Begin(t) \/ Work(t) \/ Fault(t) \/ Client(t)

Spec == Init /\ [][Next]_vars

-----------------------------------------------------------------------------
(* Properties *)

\* A transfer that may overlap others has come to the ignition port
IgnitionOverlapped == \E t \in Overlapping : Port(t) = "8080" /\ stage[t] # "idle"

\* All jobs serve one file name from one port.  Still a bootstrap VM only gets
\* another job's file when transfers overlapped on its port, when a job failed with its
\* server on or its VM asking, or when the server could not be stopped
\* (upi.py 105-112, 135-145, 185-208).
OwnFile ==
  \A t \in Ignition : got[t] \notin {NoOne, t} =>
    {t, got[t]} \cap MayError # {} \/ got[t] \in Exposed \/ IgnitionOverlapped

\* When no image transfer of a port is in progress nobody serves images there,
\* whatever failed inside the try and however the transfers overlapped: a server
\* is left behind only by a transfer that failed outside it
\* (nutanix.py 118-136, 168-185, 262-273).
ImagePortFreed ==
  \A p \in Ports :
    (\A t \in Transfers \ Ignition : Port(t) = p => ~Active(t)) =>
      server[p] \in Ignition \cup Exposed \cup {NoOne}

\* The ignition server is stopped only when no bootstrap VM that was sent to it
\* still has to ask, but for those whose job has failed or was overlapped, be it by
\* one who serves images on that port (upi.py 140-145, 185-194, nutanix.py 262-273).
StopAfterAllFetched ==
  [][\A t \in Ignition : server[Port(t)] # NoOne /\ server'[Port(t)] = NoOne =>
       ~Waiting(t) \/ t \in MayError \/ IgnitionOverlapped]_vars

\* Jobs run on, and so do their clients: a VM that boots, Prism Central's tasks.
Fairness == \A t \in Transfers : WF_vars(Work(t)) /\ WF_vars(Client(t))

FairSpec == Spec /\ Fairness

\* A transfer that was begun comes to an end: no job waits for ever.
TransferEnds == \A t \in Transfers : stage[t] = "start" ~> stage[t] \in Over
=============================================================================

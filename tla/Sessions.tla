------------------------------ MODULE Sessions ------------------------------
(***************************************************************************)
(* The server program and its clients together: who gets connected, which  *)
(* process serves whom, what happens to the others when a process ends,    *)
(* and what is left when the server ends and is started again.             *)
(***************************************************************************)
EXTENDS TcpServer, TcpClient

vars == <<socketVars, parentVars, clientVars>>

Init == SocketInit /\ ParentInit /\ ClientInit

Next ==
  \/ ServerNext /\ UNCHANGED clientVars
  \/ \E c \in Clients : ClientNext(c) /\ UNCHANGED parentVars

Spec == Init /\ [][Next]_vars

(* Fairness: the parent and a child that has just been forked run and do   *)
(* what they can do.  Nothing makes a call fail, makes anybody kill or     *)
(* restart the parent, makes a child end (it may wait for its client, or   *)
(* spin, for ever) or a client move.                                       *)
FairSpec ==
  /\ Spec
  /\ WF_vars(ParentStep /\ UNCHANGED clientVars)
  /\ \A c \in Clients : WF_vars(ChildStarts(c) /\ UNCHANGED clientVars)

-----------------------------------------------------------------------------
TypeOK == SocketTypeOK /\ ParentTypeOK /\ ClientTypeOK

(* The descriptors a child inherits by fork() are those of its own         *)
(* connection: no child holds the connection of another client, which      *)
(* would then not end with the process that serves it.                     *)
ConnectionsSeparate == \A c \in Clients : opened[c] \ {Listen} \subseteq {c}

(* After the parent's end the port stays bound for new clients only as     *)
(* long as some child has not run yet; a child never listens while it      *)
(* serves.                                                                 *)
NoStrayListener ==
  /\ \A c \in Clients : child[c] = "serving" => Listen \notin opened[c]
  /\ Open(Listen) /\ ~ParentRunning => \E c \in Clients : child[c] = "forked"

(* tcp_state says connection_ready only for a connection that has been     *)
(* established on a socket still open, however the constructor got there.  *)
ReadyMeansConnected ==
  \A c \in Clients :
    tcp_state[c] = "connection_ready" /\ cpc[c] # "killed"
      => c \in established /\ sockfd[c] = "open"

(* The test of tcp_state in send keeps a client that never got its         *)
(* connection from being killed by SIGPIPE: only one whose server went     *)
(* away is.                                                                *)
KilledOnlyByLoss ==
  \A c \in Clients : cpc[c] = "killed" => c \in established /\ ~Queued(c)

(* Once the process that served a connection has ended, nobody holds the   *)
(* connection any more, so that the client sees its end; only the parent   *)
(* may, when it has not come to its own close() of it yet.                 *)
ClosedWithChild ==
  \A c \in Clients :
    child[c] \in {"zombie", "gone"} /\ Open(c) => ppc = "close" /\ connectionfd = c

(* A server that gets the port starts with nothing left of an earlier one: *)
(* no connection waits or is being served, and no child of it still runs.  *)
CleanStart ==
  [][ppc = "init" /\ ppc' = "accept"
       => \A c \in Clients : ~Held(c) /\ child[c] \notin {"forked", "serving"}]_vars

(* The forking server, its children and the kernel implement a service to  *)
(* each client that is independent of the others.                          *)
Phase(c) ==
  IF child[c] \in {"forked", "serving"} THEN "served"
  ELSE IF child[c] = "none" /\ c \in opened[Parent] THEN "taken"
  ELSE IF Queued(c) THEN "waiting"
  ELSE IF c \in established THEN "over"
  ELSE "none"

Service == INSTANCE ConnectionService WITH phase <- [c \in Clients |-> Phase(c)]

ImplementsService == Service!ServiceSpec

-----------------------------------------------------------------------------
(* A connection in the queue does not stay there: the server accepts it,   *)
(* or goes away and the kernel resets it.  No child has to end for that.   *)
QueuedIsSettled == \A c \in Clients : Queued(c) ~> ~Queued(c)

(* When the child that served a connection has ended, the connection gets  *)
(* closed: no other process keeps it open.                                 *)
EndedIsClosed == \A c \in Clients : child[c] \in {"zombie", "gone"} ~> ~Open(c)

-----------------------------------------------------------------------------
(* What the repository says of the program and the code does not do.       *)

(* stream_rpi_camera.cpp: "This version runs forever, forking off a        *)
(* separate process for each connection": the server does not run out of   *)
(* processes while it serves nobody.                                       *)
RunsForever ==
  ppc = "no_fork" => \E c \in Clients : child[c] \in {"forked", "serving"}
=============================================================================

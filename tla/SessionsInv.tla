---------------------------- MODULE SessionsInv ----------------------------
(***************************************************************************)
(* The inductive invariant of Sessions, in parts: which process has which  *)
(* socket open, where a connection is on its way through the server, and   *)
(* what a client's tcp_state says of its connection.                       *)
(***************************************************************************)
EXTENDS Sessions

(* The parent's descriptors follow from where it is in its loop.           *)
ParentHolds ==
  /\ ~ParentRunning \/ ppc = "init" => opened[Parent] = {}
  /\ ppc = "accept" => opened[Parent] = {Listen}
  /\ ppc \in {"fork", "close"} =>
       /\ connectionfd \in Clients
       /\ opened[Parent] = {Listen, connectionfd}

(* So do a child's from how far it is.                                     *)
ChildHolds ==
  \A c \in Clients :
    /\ child[c] = "forked" => opened[c] = {Listen, c}
    /\ child[c] = "serving" => opened[c] = {c}
    /\ child[c] \in {"none", "zombie", "gone"} => opened[c] = {}

(* A client that has not connected yet has no connection anywhere; the     *)
(* queue holds a connection once; a process is forked only for one that    *)
(* has left the queue.                                                     *)
Progress ==
  /\ \A c \in Clients :
       /\ Queued(c) => c \in established /\ child[c] = "none"
       /\ child[c] # "none" => c \in established
       /\ cpc[c] \in {"socket", "resolve", "connect"} => c \notin established
  /\ \A i, j \in 1 .. Len(pending) : pending[i] = pending[j] => i = j
  /\ ppc \in {"fork", "close"} =>
       connectionfd \in established /\ ~Queued(connectionfd)
  /\ ppc = "fork" => child[connectionfd] = "none"
  /\ ppc = "close" => child[connectionfd] # "none"

(* A queue there is only with the listening socket it belongs to.          *)
QueueNeedsListener == pending # <<>> => Open(Listen)

(* What tcp_state and the end of a client say of its connection.           *)
StateTells ==
  \A c \in Clients :
    /\ tcp_state[c] = "connection_ready" =>
         /\ cpc[c] \in {"use", "killed"}
         /\ c \in established
         /\ cpc[c] = "use" => sockfd[c] = "open"
    /\ cpc[c] = "killed" => c \in established /\ ~Queued(c)

IInv ==
  /\ TypeOK
  /\ ParentHolds
  /\ ChildHolds
  /\ Progress
  /\ QueueNeedsListener
  /\ StateTells
=============================================================================

----------------------------- MODULE TcpServer -----------------------------
(***************************************************************************)
(* The server program of the PC: main of stream_rpi_camera.cpp (and of     *)
(* tcp_reader.cpp), which constructs a tcp_server and calls                *)
(* tcp_server::connect_and_receive for ever.  Each call accepts one        *)
(* connection and forks a child for it.  What the child does with the      *)
(* connection is the matter of ServerChild; here it serves and some day    *)
(* exits, or never does.                                                   *)
(***************************************************************************)
EXTENDS ListenSocket, FiniteSets

CONSTANTS
  MaxProcesses,  \* how many children, ended ones not waited for included, the
                 \* system lets the server have
  NoClient       \* value of connectionfd before the first accept()

ASSUME TcpServerAssumption ==
  /\ NoClient \notin Clients
  /\ MaxProcesses \in Nat

VARIABLES
  ppc,           \* what the parent is about to call, or how it has ended
  connectionfd,  \* the connection accepted last
  child,         \* child[c]: state of the process forked for connection c
  orphans        \* children whose parent has ended

parentVars == <<ppc, connectionfd, child, orphans>>

ParentRunning == ppc \in {"init", "accept", "fork", "close"}
EndStates == {"no_socket", "no_accept", "no_fork", "killed"}

ParentTypeOK ==
  /\ ppc \in {"init", "accept", "fork", "close"} \union EndStates
  /\ connectionfd \in Clients \union {NoClient}
  /\ child \in [Clients -> {"none", "forked", "serving", "zombie", "gone"}]
  /\ orphans \subseteq Clients

ParentInit ==
  /\ ppc = "init"
  /\ connectionfd = NoClient
  /\ child = [c \in Clients |-> "none"]
  /\ orphans = {}

-----------------------------------------------------------------------------
(* The constructor: socket(), bind() and listen().                         *)
InitReusesPort == \* mutant
  /\ ppc = "init"
  /\ \A p \in Processes : Listen \notin opened[p]
  /\ opened' = [opened EXCEPT ![Parent] = {Listen}]
  /\ ppc' = "accept"
  /\ UNCHANGED <<pending, established, connectionfd, child, orphans>>
init_socket ==
  /\ ppc = "init"
  /\ PortFree
  /\ opened' = [opened EXCEPT ![Parent] = {Listen}]
  /\ ppc' = "accept"
  /\ UNCHANGED <<pending, established, connectionfd, child, orphans>>

-----------------------------------------------------------------------------
(* The end of the parent, by exit(1) in error() or by a signal: its        *)
(* descriptors are closed, the children it never waited for disappear, and *)
(* the running ones go on as orphans.                                      *)
ParentEnds(how) ==
  /\ ppc' = how
  /\ Reopen([opened EXCEPT ![Parent] = {}])
  /\ child' = [c \in Clients |-> IF child[c] = "zombie" THEN "gone" ELSE child[c]]
  /\ orphans' = orphans \union {c \in Clients : child[c] \in {"forked", "serving"}}
  /\ UNCHANGED <<established, connectionfd>>

(* A socket left on the port, also one in TIME_WAIT, which is not modelled *)
(* otherwise, makes bind() fail.                                           *)
InitFails == ppc = "init" /\ ParentEnds("no_socket")

AcceptFails == ppc = "accept" /\ ParentEnds("no_accept")

ParentKilled == ParentRunning /\ ParentEnds("killed")

(* Somebody starts the program again.                                      *)
Restart ==
  /\ ~ParentRunning
  /\ ppc' = "init"
  /\ connectionfd' = NoClient
  /\ UNCHANGED <<socketVars, child, orphans>>

-----------------------------------------------------------------------------
(* connect_and_receive: accept(), fork(), close() in the parent.           *)
AcceptDrainsQueue == \* mutant
  /\ ppc = "accept"
  /\ pending # <<>>
  /\ connectionfd' = Head(pending)
  /\ opened' = [opened EXCEPT ![Parent] = @ \union {Head(pending)}]
  /\ pending' = Tail(pending)
  /\ ppc' = IF pending' = <<>> THEN "fork" ELSE "accept"
  /\ UNCHANGED <<established, child, orphans>>
AcceptUntested == \* mutant
  /\ ppc = "accept"
  /\ pending = <<>>
  /\ connectionfd' = NoClient
  /\ opened' = [opened EXCEPT ![Parent] = @ \union {NoClient}]
  /\ ppc' = "close"
  /\ UNCHANGED <<pending, established, child, orphans>>
connect_to_socket ==
  /\ ppc = "accept"
  /\ pending # <<>>
  /\ connectionfd' = Head(pending)
  /\ opened' = [opened EXCEPT ![Parent] = @ \union {Head(pending)}]
  /\ pending' = Tail(pending)
  /\ ppc' = "fork"
  /\ UNCHANGED <<established, child, orphans>>

(* Ended children count, because the parent never calls wait().            *)
ProcessesUsed ==
  Cardinality({c \in Clients : child[c] \in {"forked", "serving", "zombie"}})

(* The child begins with a copy of all descriptors of the parent.          *)
ForkChild ==
  /\ ppc = "fork"
  /\ ProcessesUsed < MaxProcesses
  /\ child' = [child EXCEPT ![connectionfd] = "forked"]
  /\ opened' = [opened EXCEPT ![connectionfd] = opened[Parent]]
  /\ ppc' = "close"
  /\ UNCHANGED <<pending, established, connectionfd, orphans>>

ForkFails ==
  /\ ppc = "fork"
  /\ ProcessesUsed >= MaxProcesses
  /\ ParentEnds("no_fork")

CloseOmitted == \* mutant
  /\ ppc = "close"
  /\ ppc' = "accept"
  /\ UNCHANGED <<socketVars, connectionfd, child, orphans>>
CloseConnection ==
  /\ ppc = "close"
  /\ opened' = [opened EXCEPT ![Parent] = @ \ {connectionfd}]
  /\ ppc' = "accept"
  /\ UNCHANGED <<pending, established, connectionfd, child, orphans>>

-----------------------------------------------------------------------------
(* The child: it closes the listening socket, processes the messages of    *)
(* its connection and calls exit(), here or in error(), or crashes.        *)
ChildStartsListening(c) == \* mutant
  /\ child[c] = "forked"
  /\ child' = [child EXCEPT ![c] = "serving"]
  /\ UNCHANGED <<socketVars, ppc, connectionfd, orphans>>
ChildStarts(c) ==
  /\ child[c] = "forked"
  /\ Reopen([opened EXCEPT ![c] = @ \ {Listen}])
  /\ child' = [child EXCEPT ![c] = "serving"]
  /\ UNCHANGED <<established, ppc, connectionfd, orphans>>

ChildEnds(c) ==
  /\ child[c] = "serving"
  /\ Reopen([opened EXCEPT ![c] = {}])
  /\ child' = [child EXCEPT ![c] = IF c \in orphans THEN "gone" ELSE "zombie"]
  /\ UNCHANGED <<established, ppc, connectionfd, orphans>>

(* One turn of the endless loop of main, or the way there.                 *)
ParentStep ==
  \/ init_socket
  \/ connect_to_socket
  \/ ForkChild
  \/ ForkFails
  \/ CloseConnection

ServerNext ==
  \/ ParentStep
  \/ InitFails
  \/ AcceptFails
  \/ ParentKilled
  \/ Restart
  \/ \E c \in Clients : ChildStarts(c) \/ ChildEnds(c)
=============================================================================

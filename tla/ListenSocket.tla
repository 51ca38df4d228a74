---------------------------- MODULE ListenSocket ----------------------------
(***************************************************************************)
(* The listening socket of the server and the connections made through it, *)
(* as the processes of the server and the clients share them: which        *)
(* process has which descriptor open, and the kernel's queue of            *)
(* connections that wait for accept().  All of this is kernel state, the   *)
(* external ground on which TcpServer and TcpClient meet.  A client        *)
(* connects at most once, so its name also names its connection, and the   *)
(* child process the server forks for it.                                  *)
(***************************************************************************)
EXTENDS Naturals, Sequences

CONSTANTS
  Clients,  \* the clients, and so the connections and the child processes
  Parent,   \* the server process that listens and forks
  Listen,   \* the listening socket
  Backlog   \* the second argument of listen()

ASSUME SocketAssumption ==
  /\ Parent \notin Clients
  /\ Listen \notin Clients
  /\ Backlog \in Nat

VARIABLES
  pending,      \* connections established by the kernel and not yet accepted
  established,  \* clients whose connection has ever been established
  opened        \* opened[p]: the sockets process p of the server has open

socketVars == <<pending, established, opened>>

Processes == Clients \union {Parent}
Sockets == Clients \union {Listen}

SocketTypeOK ==
  /\ pending \in Seq(Clients)
  /\ established \subseteq Clients
  /\ opened \in [Processes -> SUBSET Sockets]

SocketInit ==
  /\ pending = <<>>
  /\ established = {}
  /\ opened = [p \in Processes |-> {}]

(* A socket exists while some process has it open.                         *)
Open(s) == \E p \in Processes : s \in opened[p]
Queued(c) == \E i \in 1 .. Len(pending) : pending[i] = c

(* The server's end of the connection of c still exists.                   *)
Held(c) == Queued(c) \/ Open(c)

(* The port can be bound: without SO_REUSEADDR no socket may be left on it.*)
PortFree == \A s \in Sockets : ~Open(s)

(* The processes' descriptors become those of table.  With the last        *)
(* descriptor of the listening socket the queue goes, and the kernel       *)
(* resets the connections in it.                                           *)
Reopen(table) ==
  /\ opened' = table
  /\ pending' = IF \E p \in Processes : Listen \in table[p]
                  THEN pending ELSE <<>>

(* connect() succeeds: the kernel completes the handshake without the      *)
(* server's doing as long as the queue, one longer than the backlog, has   *)
(* room.                                                                   *)
Establish(c) ==
  /\ Open(Listen)
  /\ Len(pending) <= Backlog
  /\ pending' = Append(pending, c)
  /\ established' = established \union {c}
  /\ UNCHANGED opened
=============================================================================

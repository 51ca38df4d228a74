----------------------------- MODULE TcpClient -----------------------------
(***************************************************************************)
(* tcp_client, the class through which every program of the robot talks to *)
(* the PC: construction (create_socketfd, get_hostname, TCP_connect), send *)
(* and destruction (TCP_disconnect and a second close).  One object per    *)
(* client process.  How messages are cut into send calls is the matter of  *)
(* CameraClient; here a call of send matters for what it finds of the      *)
(* object's state and of the connection.                                   *)
(***************************************************************************)
EXTENDS ListenSocket

VARIABLES
  cpc,        \* cpc[c]: the next call of client c
  tcp_state,  \* the member tcp_state
  sockfd      \* what the member sockfd refers to: "none" stands for -1

clientVars == <<cpc, tcp_state, sockfd>>

tcp_state_def ==
  {"tcp_not_initialized", "socket_error", "socket_fd_ready", "gethost_error",
   "tcp_ready_to_connect", "connect_error", "connection_ready"}

ClientTypeOK ==
  /\ cpc \in [Clients -> {"socket", "resolve", "connect", "use", "close",
                          "ended", "killed"}]
  /\ tcp_state \in [Clients -> tcp_state_def]
  /\ sockfd \in [Clients -> {"none", "open", "closed"}]

ClientInit ==
  /\ cpc = [c \in Clients |-> "socket"]
  /\ tcp_state = [c \in Clients |-> "tcp_not_initialized"]
  /\ sockfd = [c \in Clients |-> "none"]

Set(f, c, value) == f' = [f EXCEPT ![c] = value]

-----------------------------------------------------------------------------
(* The constructor.                                                        *)
create_socketfd(c) ==
  /\ cpc[c] = "socket"
  /\ \/ Set(sockfd, c, "open") /\ Set(tcp_state, c, "socket_fd_ready")
     \/ UNCHANGED sockfd /\ Set(tcp_state, c, "socket_error")
  /\ Set(cpc, c, "resolve")
  /\ UNCHANGED socketVars

(* Unless the name cannot be resolved, the constructor sets                *)
(* tcp_ready_to_connect, over a socket_error too.                          *)
get_hostname(c) ==
  /\ cpc[c] = "resolve"
  /\ \E s \in {"gethost_error", "tcp_ready_to_connect"} : Set(tcp_state, c, s)
  /\ Set(cpc, c, "connect")
  /\ UNCHANGED <<socketVars, sockfd>>

(* TCP_connect returns -2 at once when the state is not ready.             *)
NotReady(c) ==
  /\ cpc[c] = "connect"
  /\ tcp_state[c] # "tcp_ready_to_connect"
  /\ Set(cpc, c, "use")
  /\ UNCHANGED <<socketVars, tcp_state, sockfd>>

ConnectSucceeds(c) ==
  /\ cpc[c] = "connect"
  /\ tcp_state[c] = "tcp_ready_to_connect"
  /\ sockfd[c] = "open"
  /\ Establish(c)
  /\ Set(tcp_state, c, "connection_ready")
  /\ Set(cpc, c, "use")
  /\ UNCHANGED sockfd

(* Nobody listens, the queue stays full, the host is away, or sockfd is -1.*)
ConnectFailsIgnored(c) == \* mutant
  /\ cpc[c] = "connect"
  /\ tcp_state[c] = "tcp_ready_to_connect"
  /\ Set(tcp_state, c, "connection_ready")
  /\ Set(cpc, c, "use")
  /\ UNCHANGED <<socketVars, sockfd>>
ConnectFails(c) ==
  /\ cpc[c] = "connect"
  /\ tcp_state[c] = "tcp_ready_to_connect"
  /\ Set(tcp_state, c, "connect_error")
  /\ Set(cpc, c, "use")
  /\ UNCHANGED <<socketVars, sockfd>>

-----------------------------------------------------------------------------
(* send: the state is tested before write().  Whether write() succeeds, as *)
(* it does on a sound connection and once after the server has closed, or  *)
(* returns -1, which error() prints, the object stays as it is; so calls   *)
(* of send are no steps here, except the one that ends the program.        *)
MaySendAlways(c) == TRUE \* mutant
MaySend(c) == tcp_state[c] = "connection_ready"

(* What write() finds wrong.                                               *)
Broken(c) == c \notin established \/ ~Held(c)

(* write() raises SIGPIPE, which nobody handles.                           *)
BrokenPipe(c) ==
  /\ cpc[c] = "use"
  /\ MaySend(c)
  /\ sockfd[c] = "open"
  /\ Broken(c)
  /\ Set(cpc, c, "killed")
  /\ Set(sockfd, c, "closed")
  /\ UNCHANGED <<socketVars, tcp_state>>

-----------------------------------------------------------------------------
(* The destructor.                                                         *)
TCP_disconnect(c) ==
  /\ cpc[c] = "use"
  /\ Set(sockfd, c, IF sockfd[c] = "open" THEN "closed" ELSE sockfd[c])
  /\ Set(tcp_state, c, "tcp_ready_to_connect")
  /\ Set(cpc, c, "close")
  /\ UNCHANGED socketVars

(* The second close(): no open descriptor can be meant by it any more.     *)
CloseAgain(c) ==
  /\ cpc[c] = "close"
  /\ Set(cpc, c, "ended")
  /\ UNCHANGED <<socketVars, tcp_state, sockfd>>

ClientNext(c) ==
  \/ create_socketfd(c)
  \/ get_hostname(c)
  \/ NotReady(c)
  \/ ConnectSucceeds(c)
  \/ ConnectFails(c)
  \/ BrokenPipe(c)
  \/ TCP_disconnect(c)
  \/ CloseAgain(c)
=============================================================================

--------------------------- MODULE SessionsProofs ---------------------------
(***************************************************************************)
(* Machine-checked proofs about Sessions for any set of clients, any       *)
(* backlog and any number of processes: SessionsInv is inductive, and the  *)
(* safety properties follow from it.                                       *)
(***************************************************************************)
EXTENDS SessionsInv, TLAPS

-----------------------------------------------------------------------------
(* What the queue holds after the kernel has added to it, after accept()   *)
(* has taken its head, and after it has been thrown away.                  *)
LEMMA QueueFacts ==
  ASSUME SocketTypeOK
  PROVE  /\ \A c \in Clients : Append(pending, c) \in Seq(Clients)
         /\ \A c \in Clients : /\ Len(Append(pending, c)) = Len(pending) + 1
                               /\ Append(pending, c)[Len(pending) + 1] = c
                               /\ \A i \in 1 .. Len(pending) :
                                    Append(pending, c)[i] = pending[i]
         /\ pending # <<>> =>
              /\ Head(pending) = pending[1]
              /\ Head(pending) \in Clients
              /\ Tail(pending) \in Seq(Clients)
              /\ Len(pending) > 0
              /\ Len(Tail(pending)) = Len(pending) - 1
              /\ \A i \in 1 .. Len(pending) - 1 : Tail(pending)[i] = pending[i + 1]
  BY DEF SocketTypeOK

(* The initial state satisfies the invariant.                              *)
LEMMA InitIInv == Init => IInv
  <1> SUFFICES ASSUME Init PROVE IInv
    OBVIOUS
  <1> USE SocketAssumption, TcpServerAssumption
      DEF Init, SocketInit, ParentInit, ClientInit
  <1>1. TypeOK
    BY DEF TypeOK, SocketTypeOK, ParentTypeOK, ClientTypeOK, Processes,
           Sockets, tcp_state_def, EndStates
  <1>2. ParentHolds
    BY DEF ParentHolds, ParentRunning, Processes
  <1>3. ChildHolds
    BY DEF ChildHolds, Processes
  <1>4. Progress
    BY DEF Progress, Queued
  <1>5. StateTells
    BY DEF StateTells
  <1>6. QueueNeedsListener
    BY DEF QueueNeedsListener
  <1> QED
    BY <1>1, <1>2, <1>3, <1>4, <1>5, <1>6 DEF IInv

(* The parent binds and listens.                                           *)
LEMMA init_socketStep ==
  IInv /\ init_socket /\ UNCHANGED clientVars => IInv'
  <1> SUFFICES ASSUME IInv, init_socket, UNCHANGED clientVars PROVE IInv'
    OBVIOUS
  <1> USE SocketAssumption, TcpServerAssumption
      DEF IInv, init_socket, clientVars
  <1>1. TypeOK'
    BY DEF TypeOK, SocketTypeOK, ParentTypeOK, ClientTypeOK, Processes,
           Sockets, EndStates
  <1>2. ParentHolds'
    BY DEF ParentHolds, ParentRunning, Processes, TypeOK, SocketTypeOK
  <1>3. ChildHolds'
    BY DEF ChildHolds, Processes, TypeOK, SocketTypeOK
  <1>4. Progress'
    BY DEF Progress, Queued
  <1>5. StateTells'
    BY DEF StateTells, Queued
  <1>6. QueueNeedsListener'
    BY DEF QueueNeedsListener, Open, Processes, SocketTypeOK, ParentHolds,
           ParentTypeOK, ChildHolds
  <1> QED
    BY <1>1, <1>2, <1>3, <1>4, <1>5, <1>6

(* The parent ends, however that comes about.                              *)
LEMMA ParentEndsStep ==
  ASSUME IInv, NEW how \in EndStates, ParentEnds(how), UNCHANGED clientVars
  PROVE  IInv'
  <1> USE SocketAssumption, TcpServerAssumption
      DEF IInv, ParentEnds, Reopen, clientVars
  <1>1. TypeOK'
    BY DEF TypeOK, SocketTypeOK, ParentTypeOK, ClientTypeOK, Processes
  <1>2. ParentHolds'
    BY DEF ParentHolds, ParentRunning, Processes, TypeOK, SocketTypeOK, EndStates
  <1>3. ChildHolds'
    BY DEF ChildHolds, Processes, TypeOK, SocketTypeOK
  <1>4. Progress'
    BY DEF Progress, Queued, EndStates
  <1>5. StateTells'
    BY DEF StateTells, Queued
  <1>6. QueueNeedsListener'
    BY DEF QueueNeedsListener, Open, Processes, SocketTypeOK, ParentHolds,
           ParentTypeOK, ChildHolds
  <1> QED
    BY <1>1, <1>2, <1>3, <1>4, <1>5, <1>6

(* The program is started again.                                           *)
LEMMA RestartStep ==
  IInv /\ Restart /\ UNCHANGED clientVars => IInv'
  <1> SUFFICES ASSUME IInv, Restart, UNCHANGED clientVars PROVE IInv'
    OBVIOUS
  <1> USE DEF IInv, Restart, clientVars, socketVars
  <1>1. TypeOK'
    BY DEF TypeOK, SocketTypeOK, ParentTypeOK, ClientTypeOK
  <1>2. ParentHolds'
    BY DEF ParentHolds, ParentRunning
  <1>3. ChildHolds'
    BY DEF ChildHolds
  <1>4. Progress'
    BY DEF Progress, Queued
  <1>5. StateTells'
    BY DEF StateTells, Queued
  <1>6. QueueNeedsListener'
    BY DEF QueueNeedsListener, Open, Processes, SocketTypeOK, ParentHolds,
           ParentTypeOK, ChildHolds
  <1> QED
    BY <1>1, <1>2, <1>3, <1>4, <1>5, <1>6

(* The parent accepts the first connection of the queue.                   *)
LEMMA connect_to_socketStep ==
  IInv /\ connect_to_socket /\ UNCHANGED clientVars => IInv'
  <1> SUFFICES ASSUME IInv, connect_to_socket, UNCHANGED clientVars PROVE IInv'
    OBVIOUS
  <1> USE SocketAssumption, TcpServerAssumption
      DEF IInv, connect_to_socket, clientVars
  <1> USE QueueFacts DEF TypeOK
  <1>1. TypeOK'
    BY DEF SocketTypeOK, ParentTypeOK, ClientTypeOK, Processes, Sockets
  <1>2. ParentHolds'
    BY DEF ParentHolds, ParentRunning, Processes, SocketTypeOK
  <1>3. ChildHolds'
    BY DEF ChildHolds, Processes, SocketTypeOK
  <1>4. \A c \in Clients : Queued(c)' => Queued(c) /\ c # Head(pending)
    BY DEF Queued, Progress, SocketTypeOK
  <1>5. Queued(Head(pending))
    BY DEF Queued
  <1>6. Progress'
    <2>1. \A i, j \in 1 .. Len(pending') : pending'[i] = pending'[j] => i = j
      BY DEF Progress, SocketTypeOK
    <2> QED
      BY <1>4, <1>5, <2>1 DEF Progress
  <1>7. StateTells'
    BY <1>4 DEF StateTells
  <1>8. QueueNeedsListener'
    BY DEF QueueNeedsListener, Open, Processes, SocketTypeOK, ParentHolds,
           ParentTypeOK, ChildHolds
  <1> QED
    BY <1>1, <1>2, <1>3, <1>6, <1>7, <1>8

(* The parent forks a child for the connection it has accepted.            *)
LEMMA ForkChildStep ==
  IInv /\ ForkChild /\ UNCHANGED clientVars => IInv'
  <1> SUFFICES ASSUME IInv, ForkChild, UNCHANGED clientVars PROVE IInv'
    OBVIOUS
  <1> USE SocketAssumption, TcpServerAssumption
      DEF IInv, ForkChild, clientVars, TypeOK
  <1>1. TypeOK'
    BY DEF SocketTypeOK, ParentTypeOK, ClientTypeOK, Processes, ParentHolds
  <1>2. ParentHolds'
    BY DEF ParentHolds, ParentRunning, Processes, SocketTypeOK
  <1>3. ChildHolds'
    BY DEF ChildHolds, ParentHolds, Processes, SocketTypeOK, ParentTypeOK
  <1>4. Progress'
    BY DEF Progress, Queued, ParentHolds, ParentTypeOK
  <1>5. StateTells'
    BY DEF StateTells, Queued
  <1>6. QueueNeedsListener'
    BY DEF QueueNeedsListener, Open, Processes, SocketTypeOK, ParentHolds,
           ParentTypeOK, ChildHolds
  <1> QED
    BY <1>1, <1>2, <1>3, <1>4, <1>5, <1>6

(* The parent closes its descriptor of the connection.                     *)
LEMMA CloseConnectionStep ==
  IInv /\ CloseConnection /\ UNCHANGED clientVars => IInv'
  <1> SUFFICES ASSUME IInv, CloseConnection, UNCHANGED clientVars PROVE IInv'
    OBVIOUS
  <1> USE SocketAssumption, TcpServerAssumption
      DEF IInv, CloseConnection, clientVars, TypeOK
  <1>1. TypeOK'
    BY DEF SocketTypeOK, ParentTypeOK, ClientTypeOK, Processes
  <1>2. ParentHolds'
    BY DEF ParentHolds, ParentRunning, Processes, SocketTypeOK
  <1>3. ChildHolds'
    BY DEF ChildHolds, Processes, SocketTypeOK
  <1>4. Progress'
    BY DEF Progress, Queued
  <1>5. StateTells'
    BY DEF StateTells, Queued
  <1>6. QueueNeedsListener'
    BY DEF QueueNeedsListener, Open, Processes, SocketTypeOK, ParentHolds,
           ParentTypeOK, ChildHolds
  <1> QED
    BY <1>1, <1>2, <1>3, <1>4, <1>5, <1>6

(* A child closes the listening socket and begins to serve.                *)
LEMMA ChildStartsStep ==
  ASSUME IInv, NEW c \in Clients, ChildStarts(c), UNCHANGED clientVars
  PROVE  IInv'
  <1> USE SocketAssumption, TcpServerAssumption
      DEF IInv, ChildStarts, Reopen, clientVars, TypeOK
  <1>1. TypeOK'
    BY DEF SocketTypeOK, ParentTypeOK, ClientTypeOK, Processes
  <1>2. ParentHolds'
    BY DEF ParentHolds, ParentRunning, Processes, SocketTypeOK
  <1>3. ChildHolds'
    BY DEF ChildHolds, Processes, SocketTypeOK, ParentTypeOK
  <1>4. Progress'
    BY DEF Progress, Queued, ParentTypeOK
  <1>5. StateTells'
    BY DEF StateTells, Queued
  <1>6. QueueNeedsListener'
    BY DEF QueueNeedsListener, Open, Processes, SocketTypeOK, ParentHolds,
           ParentTypeOK, ChildHolds
  <1> QED
    BY <1>1, <1>2, <1>3, <1>4, <1>5, <1>6

(* A child ends.                                                           *)
LEMMA ChildEndsStep ==
  ASSUME IInv, NEW c \in Clients, ChildEnds(c), UNCHANGED clientVars
  PROVE  IInv'
  <1> USE SocketAssumption, TcpServerAssumption
      DEF IInv, ChildEnds, Reopen, clientVars, TypeOK
  <1>1. TypeOK'
    BY DEF SocketTypeOK, ParentTypeOK, ClientTypeOK, Processes
  <1>2. ParentHolds'
    BY DEF ParentHolds, ParentRunning, Processes, SocketTypeOK
  <1>3. ChildHolds'
    BY DEF ChildHolds, Processes, SocketTypeOK, ParentTypeOK
  <1>4. Progress'
    BY DEF Progress, Queued, ParentTypeOK
  <1>5. StateTells'
    BY DEF StateTells, Queued
  <1>6. QueueNeedsListener'
    BY DEF QueueNeedsListener, Open, Processes, SocketTypeOK, ParentHolds,
           ParentTypeOK, ChildHolds
  <1> QED
    BY <1>1, <1>2, <1>3, <1>4, <1>5, <1>6

(* Every step of the server preserves the invariant.                       *)
LEMMA ServerPreserves ==
  IInv /\ ServerNext /\ UNCHANGED clientVars => IInv'
  <1> SUFFICES ASSUME IInv, ServerNext, UNCHANGED clientVars PROVE IInv'
    OBVIOUS
  <1>1. CASE init_socket
    BY <1>1, init_socketStep
  <1>2. CASE connect_to_socket
    BY <1>2, connect_to_socketStep
  <1>3. CASE ForkChild
    BY <1>3, ForkChildStep
  <1>4. CASE CloseConnection
    BY <1>4, CloseConnectionStep
  <1>5. CASE ForkFails \/ InitFails \/ AcceptFails \/ ParentKilled
    <2>1. PICK how \in EndStates : ParentEnds(how)
      BY <1>5 DEF ForkFails, InitFails, AcceptFails, ParentKilled, EndStates
    <2> QED
      BY <2>1, ParentEndsStep
  <1>6. CASE Restart
    BY <1>6, RestartStep
  <1>7. ASSUME NEW c \in Clients, ChildStarts(c) PROVE IInv'
    BY <1>7, ChildStartsStep
  <1>8. ASSUME NEW c \in Clients, ChildEnds(c) PROVE IInv'
    BY <1>8, ChildEndsStep
  <1> QED
    BY <1>1, <1>2, <1>3, <1>4, <1>5, <1>6, <1>7, <1>8 DEF ServerNext, ParentStep

(* The kernel establishes the connection of a client.                      *)
LEMMA ConnectSucceedsStep ==
  ASSUME IInv, NEW c \in Clients, ConnectSucceeds(c), UNCHANGED parentVars
  PROVE  IInv'
  <1> USE SocketAssumption, TcpServerAssumption
      DEF IInv, ConnectSucceeds, Establish, Set, parentVars, TypeOK
  <1> USE QueueFacts
  <1>1. TypeOK'
    BY DEF SocketTypeOK, ParentTypeOK, ClientTypeOK, tcp_state_def
  <1>2. ParentHolds'
    BY DEF ParentHolds, ParentRunning
  <1>3. ChildHolds'
    BY DEF ChildHolds
  <1>4. \A d \in Clients : Queued(d)' <=> Queued(d) \/ d = c
    BY DEF Queued, SocketTypeOK
  <1>5. ~Queued(c) /\ child[c] = "none" /\ c \notin established
    BY DEF Progress, ParentTypeOK
  <1>6. Progress'
    <2>1. \A i, j \in 1 .. Len(pending') : pending'[i] = pending'[j] => i = j
      BY <1>5 DEF Progress, Queued, SocketTypeOK
    <2> QED
      BY <1>4, <1>5, <2>1 DEF Progress, ClientTypeOK, ParentHolds
  <1>7. StateTells'
    BY <1>4, <1>5 DEF StateTells, ClientTypeOK
  <1>8. QueueNeedsListener'
    BY DEF QueueNeedsListener, Open, Processes, SocketTypeOK, ParentHolds,
           ParentTypeOK, ChildHolds
  <1> QED
    BY <1>1, <1>2, <1>3, <1>6, <1>7, <1>8

(* The other steps of a client leave the sockets of the server alone.      *)
LEMMA ClientAloneStep ==
  ASSUME IInv, NEW c \in Clients, UNCHANGED <<socketVars, parentVars>>,
         \/ create_socketfd(c) \/ get_hostname(c) \/ NotReady(c)
         \/ ConnectFails(c) \/ BrokenPipe(c)
         \/ TCP_disconnect(c) \/ CloseAgain(c)
  PROVE  IInv'
  <1> USE DEF IInv, TypeOK, socketVars, parentVars, Set
  <1>1. TypeOK'
    <2>1. SocketTypeOK' /\ ParentTypeOK'
      BY DEF SocketTypeOK, ParentTypeOK
    <2>2. ClientTypeOK'
      <3> USE DEF ClientTypeOK, tcp_state_def
      <3>1. CASE create_socketfd(c)
        BY <3>1 DEF create_socketfd
      <3>2. CASE get_hostname(c)
        BY <3>2 DEF get_hostname
      <3>3. CASE NotReady(c)
        BY <3>3 DEF NotReady
      <3>4. CASE ConnectFails(c)
        BY <3>4 DEF ConnectFails
      <3>5. CASE BrokenPipe(c)
        BY <3>5 DEF BrokenPipe
      <3>6. CASE TCP_disconnect(c)
        BY <3>6 DEF TCP_disconnect
      <3>7. CASE CloseAgain(c)
        BY <3>7 DEF CloseAgain
      <3> QED
        BY <3>1, <3>2, <3>3, <3>4, <3>5, <3>6, <3>7
    <2> QED
      BY <2>1, <2>2
  <1>2. ParentHolds'
    BY DEF ParentHolds, ParentRunning
  <1>3. ChildHolds'
    BY DEF ChildHolds
  <1>4. Progress'
    BY DEF Progress, Queued, ClientTypeOK,
           create_socketfd, get_hostname, NotReady, ConnectFails,
           BrokenPipe, TCP_disconnect, CloseAgain
  <1>5. StateTells'
    BY DEF StateTells, Queued, Held, Broken, MaySend, ClientTypeOK,
           create_socketfd, get_hostname, NotReady, ConnectFails,
           BrokenPipe, TCP_disconnect, CloseAgain
  <1>6. QueueNeedsListener'
    BY DEF QueueNeedsListener, Open, Processes, SocketTypeOK, ParentHolds,
           ParentTypeOK, ChildHolds
  <1> QED
    BY <1>1, <1>2, <1>3, <1>4, <1>5, <1>6

(* Every step of a client preserves the invariant.                         *)
LEMMA ClientPreserves ==
  ASSUME IInv, NEW c \in Clients, ClientNext(c), UNCHANGED parentVars
  PROVE  IInv'
  <1>1. CASE ConnectSucceeds(c)
    BY <1>1, ConnectSucceedsStep
  <1>2. CASE ~ConnectSucceeds(c)
    <2>1. UNCHANGED socketVars
      BY <1>2 DEF ClientNext, create_socketfd, get_hostname, NotReady,
         ConnectFails, BrokenPipe, TCP_disconnect, CloseAgain
    <2> QED
      BY <1>2, <2>1, ClientAloneStep DEF ClientNext
  <1> QED
    BY <1>1, <1>2

(* IInv is an inductive invariant of the server and its clients.           *)
THEOREM Inductive == Spec => []IInv
  <1>1. IInv /\ [Next]_vars => IInv'
    <2> SUFFICES ASSUME IInv, [Next]_vars PROVE IInv'
      OBVIOUS
    <2>1. CASE ServerNext /\ UNCHANGED clientVars
      BY <2>1, ServerPreserves
    <2>2. ASSUME NEW c \in Clients, ClientNext(c), UNCHANGED parentVars
          PROVE  IInv'
      BY <2>2, ClientPreserves
    <2>3. CASE UNCHANGED vars
      BY <2>3 DEF vars, socketVars, parentVars, clientVars, IInv, TypeOK,
         SocketTypeOK, ParentTypeOK, ClientTypeOK, ParentHolds, ParentRunning,
         ChildHolds, Progress, Queued, StateTells, QueueNeedsListener, Open
    <2> QED
      BY <2>1, <2>2, <2>3 DEF Next
  <1> QED
    BY InitIInv, <1>1, PTL DEF Spec

(* Every variable of the server, the sockets and the clients keeps its     *)
(* type.                                                                   *)
THEOREM TypeCorrect == Spec => []TypeOK
  <1>1. IInv => TypeOK
    BY DEF IInv
  <1> QED
    BY Inductive, <1>1, PTL

(* No child ever holds another client's connection.                        *)
THEOREM SeparateCorrect == Spec => []ConnectionsSeparate
  <1>1. IInv => ConnectionsSeparate
    <2> SUFFICES ASSUME IInv, NEW c \in Clients PROVE opened[c] \ {Listen} \subseteq {c}
      BY DEF ConnectionsSeparate
    <2>1. child[c] \in {"none", "forked", "serving", "zombie", "gone"}
      BY DEF IInv, TypeOK, ParentTypeOK
    <2>2. opened[c] \in {{Listen, c}, {c}, {}}
      BY <2>1 DEF IInv, ChildHolds
    <2> QED
      BY <2>2
  <1> QED
    BY Inductive, <1>1, PTL

(* No serving child listens, and after the parent's end only a child that  *)
(* has not run yet keeps the port bound for new clients.                   *)
THEOREM NoStrayListenerCorrect == Spec => []NoStrayListener
  <1>1. IInv => NoStrayListener
    BY SocketAssumption
    DEF IInv, TypeOK, ParentTypeOK, ChildHolds, ParentHolds, NoStrayListener,
        Open, Processes
  <1> QED
    BY Inductive, <1>1, PTL

(* connection_ready is only ever said of an established connection on an   *)
(* open socket.                                                            *)
THEOREM ReadyCorrect == Spec => []ReadyMeansConnected
  <1>1. IInv => ReadyMeansConnected
    BY DEF IInv, StateTells, ReadyMeansConnected
  <1> QED
    BY Inductive, <1>1, PTL

(* SIGPIPE only ends clients that had a connection and lost it.            *)
THEOREM KilledCorrect == Spec => []KilledOnlyByLoss
  <1>1. IInv => KilledOnlyByLoss
    BY DEF IInv, StateTells, KilledOnlyByLoss
  <1> QED
    BY Inductive, <1>1, PTL

(* A connection does not outlive the process that served it.               *)
THEOREM ClosedWithChildCorrect == Spec => []ClosedWithChild
  <1>1. ASSUME IInv, NEW c \in Clients, child[c] \in {"zombie", "gone"}, Open(c)
        PROVE  ppc = "close" /\ connectionfd = c
    <2>1. PICK p \in Processes : c \in opened[p]
      BY <1>1 DEF Open
    <2>2. p = Parent
      <3>1. ASSUME NEW d \in Clients, c \in opened[d] PROVE FALSE
        BY <1>1, <3>1, SocketAssumption
           DEF IInv, TypeOK, ParentTypeOK, ChildHolds
      <3> QED
        BY <2>1, <3>1 DEF Processes
    <2>3. ppc \in {"fork", "close"} /\ connectionfd = c
      BY <1>1, <2>1, <2>2, SocketAssumption
         DEF IInv, TypeOK, ParentTypeOK, ParentHolds, ParentRunning
    <2>4. ppc # "fork"
      BY <1>1, <2>3 DEF IInv, Progress
    <2> QED
      BY <2>3, <2>4
  <1>2. IInv => ClosedWithChild
    BY <1>1 DEF ClosedWithChild
  <1> QED
    BY Inductive, <1>2, PTL

(* The port is only to be had when nothing of an earlier server is left.   *)
THEOREM StartsClean == Spec => CleanStart
  <1>1. ASSUME IInv, Next, ppc = "init", ppc' = "accept"
        PROVE  PortFree
    <2>1. CASE ServerNext
      BY <1>1, <2>1
         DEF ServerNext, ParentStep, init_socket, connect_to_socket, ForkChild,
             ForkFails, CloseConnection, InitFails, AcceptFails, ParentKilled,
             ParentEnds, Restart, ChildStarts, ChildEnds
    <2>2. CASE UNCHANGED parentVars
      BY <1>1, <2>2 DEF parentVars
    <2> QED
      BY <1>1, <2>1, <2>2 DEF Next
  <1>2. ASSUME IInv, PortFree, NEW c \in Clients
        PROVE  ~Held(c) /\ child[c] \notin {"forked", "serving"}
    <2>1. pending = <<>>
      <3>1. ~Open(Listen)
        BY <1>2 DEF PortFree, Sockets
      <3> QED
        BY <1>2, <3>1 DEF IInv, QueueNeedsListener
    <2>2. ~Open(c)
      BY <1>2 DEF PortFree, Sockets
    <2>3. child[c] \notin {"forked", "serving"}
      <3>1. c \notin opened[c]
        BY <2>2 DEF Open, Processes
      <3> QED
        BY <1>2, <3>1 DEF IInv, ChildHolds
    <2> QED
      BY <2>1, <2>2, <2>3 DEF Held, Queued
  <1>3. IInv /\ [Next]_vars =>
          [ppc = "init" /\ ppc' = "accept" =>
             \A c \in Clients : ~Held(c) /\ child[c] \notin {"forked", "serving"}]_vars
    BY <1>1, <1>2
  <1> QED
    BY <1>3, Inductive, PTL DEF Spec, CleanStart

-----------------------------------------------------------------------------
(* The refinement of ConnectionService.                                    *)

(* The phases as a function of the current state.                          *)
Phases == [c \in Clients |-> Phase(c)]

(* In a state that satisfies the invariant the phase of a connection says  *)
(* where it is, and the cases of Phase exclude each other.                 *)
LEMMA PhaseFacts ==
  ASSUME IInv, NEW c \in Clients
  PROVE  /\ Phase(c) = "served" <=> child[c] \in {"forked", "serving"}
         /\ Phase(c) = "taken" <=> ppc = "fork" /\ c = connectionfd
         /\ Phase(c) = "waiting" <=> Queued(c)
         /\ Phase(c) = "none" <=> c \notin established
         /\ Phase(c) \in Service!Phases
  <1> USE SocketAssumption
      DEF IInv, TypeOK, SocketTypeOK, ParentTypeOK, Phase, Service!Phases,
          Progress, ParentHolds, ParentRunning
  <1>1. child[c] = "none" /\ c \in opened[Parent] <=> ppc = "fork" /\ c = connectionfd
    BY DEF EndStates
  <1>2. Queued(c) => child[c] = "none" /\ c \in established
    OBVIOUS
  <1>3. ppc = "fork" /\ c = connectionfd => ~Queued(c) /\ c \in established
    OBVIOUS
  <1> QED
    BY <1>1, <1>2, <1>3

(* When the phases stay the same, the service does nothing.                *)
LEMMA PhaseStutter ==
  ASSUME \A d \in Clients : Phase(d)' = Phase(d)
  PROVE  UNCHANGED Phases
  BY DEF Phases

(* A step that advances one connection.                                    *)
LEMMA PhaseAdvance ==
  ASSUME NEW c \in Clients, NEW to, Phase(c)' = to,
         \A d \in Clients \ {c} : Phase(d)' = Phase(d)
  PROVE  Phases' = [Phases EXCEPT ![c] = to]
  BY DEF Phases

(* A step that leaves the connections alone, or makes those in the queue   *)
(* and the one just accepted end unserved.                                 *)
LEMMA PhaseDrop ==
  ASSUME IInv,
         \A d \in Clients : \/ Phase(d)' = Phase(d)
                            \/ Phase(d) \in {"waiting", "taken"} /\ Phase(d)' = "over"
  PROVE  [Service!ServiceNext]_Phases
  <1> DEFINE lost == {d \in Clients : Phase(d)' # Phase(d)}
  <1>1. Service!Drop(lost)
    BY DEF Service!Drop, Phases
  <1> QED
    BY <1>1 DEF Service!ServiceNext, Phases

(* The steps of the server.                                                *)
LEMMA ServerRefines ==
  ASSUME IInv, IInv', ServerNext, UNCHANGED clientVars
  PROVE  [Service!ServiceNext]_Phases
  <1> USE DEF clientVars
  <1>1. CASE init_socket \/ Restart \/ CloseConnection
    <2>1. \A d \in Clients : Phase(d)' = Phase(d)
      BY <1>1, SocketAssumption
      DEF IInv, TypeOK, SocketTypeOK, ParentTypeOK, ParentHolds, ParentRunning,
          Progress, Phase, Queued, init_socket, Restart, CloseConnection,
          socketVars, Processes
    <2> QED
      BY <2>1, PhaseStutter
  <1>2. CASE connect_to_socket
    <2>0. PICK c \in Clients : c = Head(pending)
      BY <1>2, QueueFacts DEF connect_to_socket, IInv, TypeOK
    <2>1. Queued(c)
      BY <1>2, <2>0, QueueFacts DEF connect_to_socket, IInv, TypeOK, Queued
    <2>2. \A d \in Clients : Queued(d)' <=> Queued(d) /\ d # c
      <3> USE <1>2, <2>0, QueueFacts
          DEF connect_to_socket, IInv, TypeOK, SocketTypeOK, Queued, Progress
      <3>1. \A i \in 2 .. Len(pending) : pending[i] # pending[1]
        OBVIOUS
      <3>2. \A i \in 2 .. Len(pending) :
              i - 1 \in 1 .. Len(pending') /\ pending'[i - 1] = pending[i]
        OBVIOUS
      <3>3. \A i \in 1 .. Len(pending') :
              i + 1 \in 2 .. Len(pending) /\ pending'[i] = pending[i + 1]
        OBVIOUS
      <3>4. ASSUME NEW d \in Clients, Queued(d)' PROVE Queued(d) /\ d # c
        BY <3>1, <3>3, <3>4
      <3>5. ASSUME NEW d \in Clients, Queued(d), d # c PROVE Queued(d)'
        <4>1. PICK i \in 1 .. Len(pending) : pending[i] = d
          BY <3>5
        <4>2. i # 1
          BY <3>5, <4>1
        <4>3. i - 1 \in 1 .. Len(pending') /\ pending'[i - 1] = d
          BY <3>2, <4>1, <4>2
        <4> HIDE <1>2, QueueFacts DEF connect_to_socket, Progress
        <4> QED
          BY <4>3
      <3> QED
        BY <3>4, <3>5
    <2>3. Phase(c) = "waiting" /\ \A d \in Clients : Phase(d) # "taken"
      BY <1>2, <2>1, PhaseFacts DEF connect_to_socket
    <2>4. Phase(c)' = "taken"
      BY <1>2, <2>0, <2>1, SocketAssumption
      DEF connect_to_socket, Phase, IInv, TypeOK, SocketTypeOK, Progress, Processes
    <2>5. \A d \in Clients \ {c} : Phase(d)' = Phase(d)
      BY <1>2, <2>0, <2>2, SocketAssumption
      DEF connect_to_socket, Phase, IInv, TypeOK, SocketTypeOK, Processes
    <2>6. Phases' = [Phases EXCEPT ![c] = "taken"]
      BY <2>4, <2>5, PhaseAdvance
    <2>7. Service!Take(c)
      BY <2>3, <2>6 DEF Service!Take, Service!Advance, Phases
    <2> QED
      BY <2>7 DEF Service!ServiceNext
  <1>3. CASE ForkChild
    <2>1. PICK c \in Clients : c = connectionfd
      BY <1>3 DEF ForkChild, IInv, ParentHolds
    <2>2. Phase(c) = "taken"
      BY <1>3, <2>1, PhaseFacts DEF ForkChild
    <2>3. Phase(c)' = "served"
      BY <1>3, <2>1 DEF ForkChild, Phase, IInv, TypeOK, ParentTypeOK
    <2>4. \A d \in Clients \ {c} : Phase(d)' = Phase(d)
      BY <1>3, <2>1, SocketAssumption
      DEF ForkChild, Phase, Queued, IInv, TypeOK, ParentTypeOK, SocketTypeOK,
          Processes
    <2>5. Service!Serve(c)
      BY <2>2, <2>3, <2>4, PhaseAdvance
      DEF Service!Serve, Service!Advance, Phases
    <2> QED
      BY <2>5 DEF Service!ServiceNext
  <1>4. CASE ForkFails \/ InitFails \/ AcceptFails \/ ParentKilled
    <2>1. PICK how \in EndStates : ParentEnds(how)
      BY <1>4 DEF ForkFails, InitFails, AcceptFails, ParentKilled, EndStates
    <2>2. ppc' # "fork"
      BY <2>1 DEF ParentEnds, EndStates
    <2>3. ASSUME NEW d \in Clients
          PROVE  \/ Phase(d)' = Phase(d)
                 \/ Phase(d) \in {"waiting", "taken"} /\ Phase(d)' = "over"
      <3> USE <2>1 DEF ParentEnds, Reopen
      <3>1. Parent \in Processes /\ opened'[Parent] = {}
        BY DEF Processes, IInv, TypeOK, SocketTypeOK
      <3>2. CASE Phase(d) = "served"
        BY <3>2 DEF Phase, IInv, TypeOK, ParentTypeOK
      <3>3. CASE Phase(d) = "taken"
        <4>1. d \in established /\ ~Queued(d) /\ child[d] = "none"
          BY <3>3, PhaseFacts DEF IInv, Progress
        <4>2. ~Queued(d)' /\ child'[d] = "none"
          BY <4>1 DEF Queued, IInv, TypeOK, ParentTypeOK
        <4> QED
          BY <3>1, <3>3, <4>1, <4>2 DEF Phase
      <3>4. CASE Phase(d) = "waiting"
        <4>1. Queued(d) /\ d \in established /\ child[d] = "none"
          BY <3>4, PhaseFacts DEF IInv, Progress
        <4>2. child'[d] = "none"
          BY <4>1
        <4> QED
          BY <3>1, <3>4, <4>1, <4>2 DEF Phase
      <3>5. CASE Phase(d) = "over"
        <4>1. ~Queued(d) /\ d \in established /\ child[d] \notin {"forked", "serving"}
          BY <3>5, PhaseFacts
        <4>2. ~Queued(d)' /\ child'[d] \notin {"forked", "serving"}
          BY <4>1 DEF Queued
        <4> QED
          BY <3>1, <3>5, <4>1, <4>2 DEF Phase
      <3>6. CASE Phase(d) = "none"
        <4>1. ~Queued(d) /\ d \notin established /\ child[d] = "none"
          BY <3>6, PhaseFacts DEF IInv, Progress
        <4>2. ~Queued(d)' /\ child'[d] = "none"
          BY <4>1 DEF Queued
        <4> QED
          BY <3>1, <3>6, <4>1, <4>2 DEF Phase
      <3> QED
        BY <3>2, <3>3, <3>4, <3>5, <3>6, PhaseFacts DEF Service!Phases
    <2> QED
      BY <2>3, PhaseDrop
  <1>5. ASSUME NEW c \in Clients, ChildStarts(c) PROVE [Service!ServiceNext]_Phases
    <2>1. ASSUME NEW d \in Clients
          PROVE  \/ Phase(d)' = Phase(d)
                 \/ Phase(d) \in {"waiting", "taken"} /\ Phase(d)' = "over"
      <3>1. opened'[Parent] = opened[Parent]
        BY <1>5, SocketAssumption
        DEF ChildStarts, Reopen, Processes, IInv, TypeOK, SocketTypeOK
      <3>2. \/ child'[d] = child[d]
            \/ child[d] = "forked" /\ child'[d] = "serving"
        <4>1. child \in [Clients -> {"none", "forked", "serving", "zombie", "gone"}]
          BY DEF IInv, TypeOK, ParentTypeOK
        <4>2. child[c] = "forked" /\ child' = [child EXCEPT ![c] = "serving"]
          BY <1>5 DEF ChildStarts
        <4> QED
          BY <4>1, <4>2
      <3>3. Queued(d)' <=> Queued(d) /\ pending' = pending
        BY <1>5 DEF ChildStarts, Reopen, Queued
      <3>4. Queued(d) => d \in established
        BY DEF IInv, Progress
      <3> QED
        BY <1>5, <3>1, <3>2, <3>3, <3>4 DEF Phase, ChildStarts
    <2> QED
      BY <2>1, PhaseDrop
  <1>6. ASSUME NEW c \in Clients, ChildEnds(c) PROVE [Service!ServiceNext]_Phases
    <2>1. opened'[Parent] = opened[Parent]
      BY <1>6, SocketAssumption
      DEF ChildEnds, Reopen, Processes, IInv, TypeOK, SocketTypeOK
    <2>2. UNCHANGED pending
      <3>1. opened[c] = {c}
        BY <1>6 DEF ChildEnds, IInv, ChildHolds
      <3>2. CASE pending = <<>>
        BY <1>6, <3>2 DEF ChildEnds, Reopen
      <3>3. CASE pending # <<>>
        <4>1. PICK p \in Processes : Listen \in opened[p]
          BY <3>3 DEF IInv, QueueNeedsListener, Open
        <4>2. Listen \in [opened EXCEPT ![c] = {}][p]
          BY <3>1, <4>1, SocketAssumption DEF IInv, TypeOK, SocketTypeOK, Processes
        <4> QED
          BY <1>6, <4>2 DEF ChildEnds, Reopen
      <3> QED
        BY <3>2, <3>3
    <2>3. child[c] = "serving" /\ child'[c] \in {"gone", "zombie"}
      BY <1>6 DEF ChildEnds, IInv, TypeOK, ParentTypeOK
    <2>4. Phase(c) = "served"
      BY <2>3 DEF Phase
    <2>5. c \in established /\ ~Queued(c)
      BY <2>3 DEF IInv, Progress
    <2>6. Phase(c)' = "over"
      BY <1>6, <2>2, <2>3, <2>5 DEF Phase, Queued, ChildEnds
    <2>7. \A d \in Clients \ {c} : Phase(d)' = Phase(d)
      BY <1>6, <2>1, <2>2
      DEF Phase, Queued, ChildEnds, IInv, TypeOK, ParentTypeOK
    <2>8. Service!Finish(c)
      BY <2>4, <2>6, <2>7, PhaseAdvance
      DEF Service!Finish, Service!Advance, Phases
    <2> QED
      BY <2>8 DEF Service!ServiceNext
  <1> QED
    BY <1>1, <1>2, <1>3, <1>4, <1>5, <1>6 DEF ServerNext, ParentStep, ServerNext

(* The steps of a client.                                                  *)
LEMMA ClientRefines ==
  ASSUME IInv, IInv', NEW c \in Clients, ClientNext(c), UNCHANGED parentVars
  PROVE  [Service!ServiceNext]_Phases
  <1>1. CASE ConnectSucceeds(c)
    <2> USE <1>1 DEF ConnectSucceeds, Establish, parentVars
    <2>1. \A d \in Clients : Queued(d)' <=> Queued(d) \/ d = c
      BY QueueFacts DEF Queued, IInv, TypeOK, SocketTypeOK
    <2>2. c \notin established
      BY DEF IInv, Progress
    <2>3. Phase(c) = "none"
      BY <2>2, PhaseFacts
    <2>4. Phase(c)' = "waiting"
      <3>1. child[c] = "none" /\ c \notin opened[Parent]
        BY <2>2, SocketAssumption
        DEF IInv, TypeOK, ParentTypeOK, Progress, ParentHolds, ParentRunning, EndStates
      <3> QED
        BY <2>1, <3>1 DEF Phase
    <2>5. \A d \in Clients \ {c} : Phase(d)' = Phase(d)
      BY <2>1 DEF Phase
    <2>6. Service!Connect(c)
      BY <2>3, <2>4, <2>5, PhaseAdvance
      DEF Service!Connect, Service!Advance, Phases
    <2> QED
      BY <2>6 DEF Service!ServiceNext
  <1>2. CASE ~ConnectSucceeds(c)
    <2>1. UNCHANGED socketVars
      BY <1>2 DEF ClientNext, create_socketfd, get_hostname, NotReady,
         ConnectFails, BrokenPipe, TCP_disconnect, CloseAgain
    <2>2. \A d \in Clients : Phase(d)' = Phase(d)
      BY <2>1 DEF socketVars, parentVars, Phase, Queued
    <2> QED
      BY <2>2, PhaseStutter
  <1> QED
    BY <1>1, <1>2

(* The forking server, its children and the kernel implement the service   *)
(* ConnectionService promises: every connection is handled independently   *)
(* of the others.                                                          *)
THEOREM Refinement == Spec => ImplementsService
  <1>1. Init => Service!ServiceInit
    BY DEF Init, SocketInit, ParentInit, Service!ServiceInit, Phase, Queued,
       Processes
  <1>2. IInv /\ IInv' /\ [Next]_vars => [Service!ServiceNext]_Phases
    <2> SUFFICES ASSUME IInv, IInv', [Next]_vars
                 PROVE  [Service!ServiceNext]_Phases
      OBVIOUS
    <2>1. CASE ServerNext /\ UNCHANGED clientVars
      BY <2>1, ServerRefines
    <2>2. ASSUME NEW c \in Clients, ClientNext(c), UNCHANGED parentVars
          PROVE  [Service!ServiceNext]_Phases
      BY <2>2, ClientRefines
    <2>3. CASE UNCHANGED vars
      BY <2>3, PhaseStutter DEF vars, socketVars, parentVars, Phase, Queued
    <2> QED
      BY <2>1, <2>2, <2>3 DEF Next
  <1> QED
    BY <1>1, <1>2, Inductive, PTL
    DEF Spec, ImplementsService, Service!ServiceSpec, Phases
=============================================================================

--------------------------- MODULE TcpConnection ---------------------------
(***************************************************************************)
(* One established TCP connection between a cockpit client (tcp_client)    *)
(* and the forked receiver of the server (tcp_server::process_messages),   *)
(* as both programs see it through write(), read() and close().            *)
(*                                                                         *)
(* The kernel is external code.  The byte stream from the client is not    *)
(* stored: a byte is its position in the stream, and three counters say    *)
(* how far it has got.  The only content that matters to the programs is   *)
(* where the client put its headers and which data length each announces.  *)
(* The server's answers travel the other way, arrive one after the other,  *)
(* and then stay in the client's receive buffer, because no client code    *)
(* reads them.                                                             *)
(***************************************************************************)
EXTENDS Naturals, Sequences

CONSTANTS
  HeaderLength,  \* TCP_HEADER_LENGTH, compiled into both programs
  SendSpace,     \* bytes the two kernels hold between write() and read()
  ReplySpace     \* unread answers that fit on the way back to the client,
                 \* in the two kernels' buffers together

ASSUME ConnAssumption ==
  /\ HeaderLength \in Nat \ {0}
  /\ SendSpace \in Nat \ {0}
  /\ ReplySpace \in Nat \ {0}

VARIABLES
  headers,    \* headers[i]: where the i-th header starts, and its data length
  written,    \* bytes the client's write() calls have handed to its kernel
  arrived,    \* bytes of those that are readable, or were read, at the server
  taken,      \* bytes the server's read() calls have returned
  clientEnd,  \* "open", "fin": closed in order, "rst": aborted
  serverEnd,  \* "open", or "closed" once no process holds connectionfd
  replies,    \* message ids of the answers sent to the client
  delivered   \* how many of them have reached the client's receive buffer

connVars ==
  <<headers, written, arrived, taken, clientEnd, serverEnd, replies, delivered>>

Header == [at : Nat, len : Nat]

ConnTypeOK ==
  /\ headers \in Seq(Header)
  /\ written \in Nat
  /\ arrived \in Nat
  /\ taken \in Nat
  /\ clientEnd \in {"open", "fin", "rst"}
  /\ serverEnd \in {"open", "closed"}
  /\ replies \in Seq(Nat)
  /\ delivered \in Nat

ConnInit ==
  /\ headers = <<>>
  /\ written = 0
  /\ arrived = 0
  /\ taken = 0
  /\ clientEnd = "open"
  /\ serverEnd = "open"
  /\ replies = <<>>
  /\ delivered = 0

Lesser(a, b) == IF a <= b THEN a ELSE b

-----------------------------------------------------------------------------
(* What the kernel does by itself.                                         *)

(* Some more of the written bytes become readable at the server.  TCP cuts *)
(* the stream where it likes, so any number of them may come at once.      *)
Arrive ==
  /\ serverEnd = "open"
  /\ \E n \in 1 .. (written - arrived) : arrived' = arrived + n
  /\ UNCHANGED <<headers, written, taken, clientEnd, serverEnd, replies, delivered>>

(* The next answer reaches the client's kernel.  If the client has closed  *)
(* its socket meanwhile, the kernel answers it with a reset.               *)
ReplyArrives ==
  /\ delivered < Len(replies)
  /\ \/ /\ clientEnd = "open"
        /\ delivered' = delivered + 1
        /\ UNCHANGED clientEnd
     \/ /\ clientEnd = "fin"
        /\ clientEnd' = "rst"
        /\ UNCHANGED delivered
  /\ UNCHANGED <<headers, written, arrived, taken, serverEnd, replies>>

-----------------------------------------------------------------------------
(* What a read() by the server finds.                                      *)

Unread == arrived - taken

(* read() returns 0: everything was read and the client's FIN is next.     *)
(* After an abort it may also return 0, when the reset has been reported   *)
(* by an earlier call on the socket.                                       *)
EofSeen ==
  /\ Unread = 0
  /\ \/ clientEnd = "fin" /\ arrived = written
     \/ clientEnd = "rst"

(* read() returns -1: the connection was reset; what has not arrived by    *)
(* now is lost.                                                            *)
ErrorSeen == Unread = 0 /\ clientEnd = "rst"

-----------------------------------------------------------------------------
(* The calls of the client.                                                *)

(* A blocking write() copies the next n bytes as far as there is room.     *)
CopyIn(n) ==
  /\ clientEnd = "open"
  /\ written + n <= taken + SendSpace
  /\ written' = written + n
  /\ UNCHANGED <<headers, arrived, taken, clientEnd, serverEnd, replies, delivered>>

(* close(), also when the process dies.  Closing a socket with unread      *)
(* answers in it aborts the connection instead of ending it in order.      *)
CloseClient ==
  /\ clientEnd' = IF delivered = 0 THEN "fin" ELSE "rst"
  /\ UNCHANGED <<headers, written, arrived, taken, serverEnd, replies, delivered>>

-----------------------------------------------------------------------------
(* The calls of the server.                                                *)

TakeOut(n) ==
  /\ taken' = taken + n
  /\ UNCHANGED <<headers, written, arrived, clientEnd, serverEnd, replies, delivered>>

(* The way back takes another answer.                                      *)
ReplyFits == Len(replies) < ReplySpace

(* write() of the answer for message id.  It blocks while the way back is  *)
(* full, also after the client's close(), of which the server has heard    *)
(* nothing or only the FIN.  Once the connection is reset a write may      *)
(* still be accepted, or fail with -1, and either way no answer is sent.   *)
WriteReply(id) ==
  /\ \/ /\ clientEnd \in {"open", "fin"}
        /\ ReplyFits
        /\ replies' = Append(replies, id)
     \/ /\ clientEnd = "rst"
        /\ UNCHANGED replies
  /\ UNCHANGED <<headers, written, arrived, taken, clientEnd, serverEnd, delivered>>

(* The receiver process ends and with it the last use of connectionfd.     *)
CloseServer ==
  /\ serverEnd' = "closed"
  /\ UNCHANGED <<headers, written, arrived, taken, clientEnd, replies, delivered>>
=============================================================================

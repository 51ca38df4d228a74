---------------------------- MODULE ServerChild ----------------------------
(***************************************************************************)
(* The receiver process the server forks for one connection:               *)
(* tcp_server::process_messages with read_TCP_header, read_TCP_data,       *)
(* send_response and the header constructor of message_class.  It loops:   *)
(* read a header, read the data it announces, display the picture, send a  *)
(* confirmation.                                                           *)
(***************************************************************************)
EXTENDS TcpConnection

CONSTANTS
  WildSizes,     \* data lengths found in bytes that are not a header, or in
                 \* an uninitialised message
  StateResidue   \* what the uninitialised field message_class::state may hold
                 \* when the header constructor tests it

ASSUME ServerAssumption ==
  /\ WildSizes \subseteq Nat
  /\ StateResidue \subseteq {"initialized", "complete", "invalid"}

VARIABLES
  spc,          \* "header", "data", "respond", or ended: "exited", "crashed"
                \* by SIGPIPE, "killed" by something else
  message,      \* the message object of this round of the loop
  count_bytes,  \* data bytes read_TCP_data has read
  shown,        \* ids of the client's pictures displayed so far, in order
  faults        \* what has gone wrong with the framing of the stream so far

serverVars == <<spc, message, count_bytes, shown, faults>>

(* id 0 stands for an id taken from bytes that are not a header: the       *)
(* client's ids start at 1.                                                *)
Message == [id : Nat, len : Nat, state : {"initialized", "invalid"}]

ServerTypeOK ==
  /\ spc \in {"header", "data", "respond", "exited", "crashed", "killed"}
  /\ message \in Message
  /\ count_bytes \in Nat
  /\ shown \in Seq(Nat)
  /\ faults \subseteq {"residue", "overrun"}

ServerInit ==
  /\ spc = "header"
  /\ message = [id |-> 0, len |-> 0, state |-> "invalid"]
  /\ count_bytes = 0
  /\ shown = <<>>
  /\ faults = {}

ServerEnded == spc \in {"exited", "crashed", "killed"}

-----------------------------------------------------------------------------
(* Reading and parsing a header.                                           *)

(* The headers of the client that start where the child reads.             *)
HeadersAt(pos) == {i \in 1 .. Len(headers) : headers[i].at = pos}

(* The message the constructor makes of the HeaderLength bytes at pos when *)
(* both control segments match.  Picture bytes may look like a header.     *)
Accepted(pos) ==
  IF HeadersAt(pos) # {}
    THEN {[id |-> i, len |-> headers[i].len, state |-> "initialized"]
            : i \in HeadersAt(pos)}
    ELSE {[id |-> 0, len |-> n, state |-> "initialized"] : n \in WildSizes}

(* The message of a header found invalid: the constructor sets no member,  *)
(* and process_messages goes on with whatever they hold.                   *)
Rejected == {[id |-> 0, len |-> n, state |-> "invalid"] : n \in WildSizes}

(* A new round begins with nothing of its data read.                       *)
CountGoesOn == UNCHANGED count_bytes \* mutant
StartCount == count_bytes' = 0

(* read() fills the header buffer.  The constructor rejects it when a      *)
(* control segment is wrong, but also when the uninitialised state happens *)
(* to hold "invalid".  A data length below 1 makes read_TCP_data exit.     *)
ReadHeader ==
  /\ spc = "header"
  /\ Unread >= HeaderLength
  /\ taken' = taken + HeaderLength
  /\ \/ /\ StateResidue \ {"invalid"} # {}
        /\ message' \in Accepted(taken)
        /\ UNCHANGED faults
     \/ /\ "invalid" \in StateResidue \/ HeadersAt(taken) = {}
        /\ message' \in Rejected
        /\ faults' = IF HeadersAt(taken) = {} THEN faults
                                              ELSE faults \union {"residue"}
  /\ StartCount
  /\ IF message'.len < 1
       THEN spc' = "exited" /\ serverEnd' = "closed"
       ELSE spc' = "data" /\ UNCHANGED serverEnd
  /\ UNCHANGED <<headers, written, arrived, clientEnd, replies, delivered, shown>>

(* error() is called: the child exits with status 1.                       *)
Quit ==
  /\ spc' = "exited"
  /\ CloseServer
  /\ UNCHANGED <<message, count_bytes, shown, faults>>

(* read() returns the part of the header that is there: "too short".       *)
HeaderTooShortIgnored == \* mutant
  /\ spc = "header"
  /\ Unread \in 1 .. HeaderLength - 1
  /\ TakeOut(Unread)
  /\ UNCHANGED serverVars
HeaderTooShort ==
  /\ spc = "header"
  /\ Unread \in 1 .. HeaderLength - 1
  /\ Quit

(* End of stream or an error instead of a header.                          *)
NoMoreHeadersIgnored == \* mutant
  /\ spc = "header"
  /\ EofSeen
  /\ UNCHANGED <<connVars, serverVars>>
NoMoreHeaders ==
  /\ spc = "header"
  /\ EofSeen \/ ErrorSeen
  /\ Quit

-----------------------------------------------------------------------------
(* Reading the data.                                                       *)

(* The length read() is asked for: remaining_message_length, which keeps   *)
(* its first value, the whole data length, on every turn of the loop.      *)
Requested == message.len

(* The loop ends when count_bytes = n is no longer below the length.       *)
CompleteAtOnce(n) == n > 0 \* mutant
CompleteLate(n) == n > message.len \* mutant
Complete(n) == n >= message.len

(* One read() of the data loop.  With the last one the picture is          *)
(* displayed and the confirmation is next.                                 *)
ReadData ==
  /\ spc = "data"
  /\ Unread > 0
  /\ LET n == Lesser(Requested, Unread) IN
       /\ TakeOut(n)
       /\ count_bytes' = count_bytes + n
  /\ IF Complete(count_bytes')
       THEN /\ spc' = "respond"
            /\ shown' = IF message.id = 0 THEN shown ELSE Append(shown, message.id)
            /\ faults' = IF count_bytes' > message.len
                           THEN faults \union {"overrun"} ELSE faults
       ELSE UNCHANGED <<spc, shown, faults>>
  /\ UNCHANGED message

(* read() returns 0 in the data loop: nothing changes, and it is called    *)
(* again at once, and for ever.                                            *)
SpinOnEof ==
  /\ spc = "data"
  /\ EofSeen
  /\ UNCHANGED <<connVars, serverVars>>

DataReadFails ==
  /\ spc = "data"
  /\ ErrorSeen
  /\ Quit

-----------------------------------------------------------------------------
(* The confirmation "okokok" and the message id; response_ok is always     *)
(* true.  The result of write() is not acted upon, the message object is   *)
(* destroyed and the loop starts again.                                    *)
RespondTwice == \* mutant
  /\ spc = "respond"
  /\ WriteReply(message.id)
  /\ spc' \in {"respond", "header"}
  /\ UNCHANGED <<message, count_bytes, shown, faults>>
RespondNoId == \* mutant
  /\ spc = "respond"
  /\ WriteReply(0)
  /\ spc' = "header"
  /\ UNCHANGED <<message, count_bytes, shown, faults>>
RespondSilently == \* mutant
  /\ spc = "respond"
  /\ spc' = "header"
  /\ UNCHANGED <<connVars, message, count_bytes, shown, faults>>
Respond ==
  /\ spc = "respond"
  /\ WriteReply(message.id)
  /\ spc' = "header"
  /\ UNCHANGED <<message, count_bytes, shown, faults>>

(* Writing to a connection the client has reset raises SIGPIPE.            *)
RespondToNobody ==
  /\ spc = "respond"
  /\ clientEnd = "rst"
  /\ spc' = "crashed"
  /\ CloseServer
  /\ UNCHANGED <<message, count_bytes, shown, faults>>

(* The process is killed at any point, or fails after an overrun of the    *)
(* data buffer or after the use of an invalid message's members as         *)
(* pointers.                                                               *)
Crash ==
  /\ ~ServerEnded
  /\ spc' = "killed"
  /\ CloseServer
  /\ UNCHANGED <<message, count_bytes, shown, faults>>

ServerStep ==
  \/ ReadHeader
  \/ HeaderTooShort
  \/ NoMoreHeaders
  \/ ReadData
  \/ SpinOnEof
  \/ DataReadFails
  \/ Respond
  \/ RespondToNobody
=============================================================================

----------------------------- MODULE VideoLink -----------------------------
(***************************************************************************)
(* The video link of the cockpit: the camera program on the robot, the TCP *)
(* connection, and the receiver process of the PC's server.  The client    *)
(* never waits for an answer, so any number of messages may be under way,  *)
(* and the receiver must find the message boundaries in the byte stream by *)
(* counting.                                                               *)
(***************************************************************************)
EXTENDS CameraClient, ServerChild

vars == <<connVars, clientVars, serverVars>>

Init == ConnInit /\ ClientInit /\ ServerInit

(* Both processes have ended; nothing can happen any more.                 *)
AllEnded ==
  /\ ClientEnded
  /\ ServerEnded
  /\ UNCHANGED vars

Next ==
  \/ (Arrive \/ ReplyArrives) /\ UNCHANGED <<clientVars, serverVars>>
  \/ (ClientStep \/ Die) /\ UNCHANGED serverVars
  \/ (ServerStep \/ Crash) /\ UNCHANGED clientVars
  \/ AllEnded

Spec == Init /\ [][Next]_vars

-----------------------------------------------------------------------------
(* Fairness.  Both programs are loops that never wait for anything but     *)
(* their own socket calls, so each makes progress while it can; TCP        *)
(* repeats lost segments until they arrive.  Nothing makes a process die   *)
(* or crash, and nothing says what arrives, or which result read() has,    *)
(* after an abort.                                                         *)
ClientProgress == ClientStep /\ UNCHANGED serverVars
ServerProgress ==
  /\ \/ ReadHeader \/ HeaderTooShort \/ NoMoreHeaders \/ ReadData
     \/ Respond \/ RespondToNobody
  /\ UNCHANGED clientVars
NetworkProgress ==
  /\ clientEnd # "rst"
  /\ Arrive
  /\ UNCHANGED <<clientVars, serverVars>>
AnswerProgress == ReplyArrives /\ UNCHANGED <<clientVars, serverVars>>

FairSpec ==
  /\ Spec
  /\ WF_vars(ClientProgress)
  /\ WF_vars(ServerProgress)
  /\ WF_vars(NetworkProgress)
  /\ WF_vars(AnswerProgress)

-----------------------------------------------------------------------------
(* Where the message after the k-th one starts in the stream.              *)
EndOf(k) == IF k = 0 THEN 0 ELSE headers[k].at + HeaderLength + headers[k].len

(* The client's last completely received message, which a round of the     *)
(* receiver loop is about, while the framing is intact.                    *)
Current == Len(shown) + 1

TypeOK == ConnTypeOK /\ ClientTypeOK /\ ServerTypeOK

(* As long as no fault has occurred, the receiver reads headers where the  *)
(* client wrote them, and the data it is reading belong to the header it   *)
(* has read: read_TCP_header and read_TCP_data alternate over the very     *)
(* messages send_message wrote.                                            *)
FramingHolds ==
  faults = {} =>
    /\ spc = "header" =>
         /\ taken = EndOf(Len(shown))
         /\ Unread > 0 => HeadersAt(taken) = {Current}
    /\ spc = "data" =>
         /\ message.id = Current
         /\ message.len = headers[Current].len
         /\ taken = headers[Current].at + HeaderLength + count_bytes

(* The pictures displayed are the client's, each at most once and in the   *)
(* order it took them, even after the framing was lost and found again;    *)
(* while it is intact none is left out.                                    *)
ShownInOrder ==
  /\ \A i \in 1 .. Len(shown) : shown[i] \in 1 .. image_counter
  /\ \A i, j \in 1 .. Len(shown) : i < j => shown[i] < shown[j]
  /\ faults = {} => \A i \in 1 .. Len(shown) : shown[i] = i

(* A picture is displayed, and then confirmed to the client, only after    *)
(* every byte of it has arrived.                                           *)
ShownHasArrived == \A i \in 1 .. Len(shown) : EndOf(shown[i]) <= arrived

(* The loop of read_TCP_data stops before it has read twice the announced  *)
(* length: the overrun is bounded by the length of the message itself.     *)
OverrunBound == count_bytes > 0 => count_bytes < 2 * message.len

(* The data loop loses the framing only by taking bytes of a following     *)
(* message: the client must have begun the next picture before the         *)
(* receiver was done with this one.                                        *)
OverrunNeedsPipelining ==
  [][faults = {} /\ "overrun" \in faults' => image_counter > Current]_vars

(* Each unread answer belongs to one displayed picture, in the same order, *)
(* while the framing is intact.                                            *)
RepliesMatchShown ==
  faults = {} => /\ \A i \in 1 .. Len(replies) : replies[i] = i
                 /\ spc \in {"header", "data"} /\ clientEnd # "rst"
                      => Len(replies) = Len(shown)
                 /\ spc = "respond" => message.id = Len(shown)

(* Client and receiver wait for each other: the client for room to write,  *)
(* the receiver for room to answer.                                        *)
Stuck ==
  /\ Writing /\ serverEnd = "open" /\ written = taken + SendSpace
  /\ spc = "respond" /\ ~ReplyFits

(* Answers nobody reads can block the link, but not before the client is   *)
(* two pictures past the number of answers its receive buffer holds.       *)
StuckOnlyAfterReplySpace ==
  Stuck /\ faults = {} => image_counter >= ReplySpace + 2

(* Where the receiver waits for a header and nothing is left to read, it   *)
(* has displayed every picture all of which has arrived: neither the way   *)
(* TCP cut the stream nor the end of the client has lost one.              *)
NothingLeftOut ==
  faults = {} /\ spc = "header" /\ Unread = 0
    => \A k \in 1 .. image_counter : EndOf(k) <= arrived => k <= Len(shown)

(* However long the client goes on, and however many pictures it sends,    *)
(* the cockpit displays no more of them over a connection that is not      *)
(* reset than the way back has room for answers nobody reads, and one.     *)
DisplayBound == clientEnd # "rst" => Len(shown) <= ReplySpace + 1

(* What is displayed does not fall behind the camera by more messages than *)
(* the kernels have room for when no picture is smaller than f, although   *)
(* nothing but their room ever makes the client wait.                      *)
NoneBelow(f) == \A k \in 1 .. image_counter : f <= headers[k].len
Behind == image_counter - Len(shown) - (IF spc = "data" THEN 2 ELSE 1)

LagBounded ==
  faults = {} /\ serverEnd = "open" =>
    \A f \in FrameSizes : NoneBelow(f) => Behind * (HeaderLength + f) <= SendSpace
-----------------------------------------------------------------------------
(* The link as an ordered delivery of pictures that may lose its framing.  *)
LastShown == IF shown = <<>> THEN 0 ELSE shown[Len(shown)]

Delivery == INSTANCE FrameDelivery WITH
  MayReject <- "invalid" \in StateResidue,
  sent      <- image_counter,
  last      <- LastShown,
  framed    <- faults = {}

(* VideoLink implements FrameDelivery.                                     *)
ImplementsDelivery == Delivery!DeliverySpec

-----------------------------------------------------------------------------
(* The receiver calls read() again and again at the end of a stream that   *)
(* stopped in the middle of a picture.                                     *)
Spinning == spc = "data" /\ EofSeen

(* The camera program gets to its end, unless the link is blocked by       *)
(* answers nobody reads.                                                   *)
ClientEndsOrStuck == <>(ClientEnded \/ Stuck)

(* Once the client has gone, the receiver ends, or spins in read_TCP_data. *)
ReceiverEndsOrSpins == clientEnd # "open" ~> ServerEnded \/ Spinning

Arrived(k) ==
  /\ k <= image_counter
  /\ EndOf(k) <= arrived
  /\ \A i \in 1 .. k : headers[i].len > 0

(* A picture all of which has arrived gets displayed, and so do those      *)
(* before it, whatever the client does meanwhile, if none is empty.  What  *)
(* can prevent it is a loss of the framing, a kill, answers that block the *)
(* link, or SIGPIPE on an answer, and that only after the first picture.   *)
ArrivedIsShown ==
  \A k \in 1 .. MaxImages + 1 :
    Arrived(k) ~> \/ Len(shown) >= k
                  \/ faults # {} \/ spc = "killed" \/ Stuck
                  \/ spc = "crashed" /\ shown # <<>>

-----------------------------------------------------------------------------
(* What the repository says of the program and the code does not do.       *)

(* tcp_server.cpp: "keep reading messages, which should be alternating     *)
(* between a header message and a data message": what process_messages     *)
(* reads as a header is a header.                                          *)
MessagesAlternate ==
  spc = "header" /\ Unread >= HeaderLength => HeadersAt(taken) # {}

(* tcp_server.cpp: the child "either queues a valid message or in case of  *)
(* issues requests a retransmision": an invalid message is not confirmed.  *)
InvalidNotConfirmed ==
  [][replies' # replies => message.state # "invalid"]_vars

(* tcp_server.cpp: "the child processes the message and then terminates".  *)
ReceiverEnds == clientEnd # "open" ~> ServerEnded
=============================================================================

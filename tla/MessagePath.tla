---------------------------- MODULE MessagePath ----------------------------
(***************************************************************************)
(* Messages from their creation in a robot's program to their destruction  *)
(* in the receiver process: what becomes of their members on the way       *)
(* through the header, and of the memory on both sides.                    *)
(***************************************************************************)
EXTENDS MessageReceiver

vars == <<senderVars, receiverVars>>

TypeOK == SenderTypeOK /\ ReceiverTypeOK

Init == SenderInit /\ ReceiverInit

Ended == spc = "ended" /\ rpc = "ended" /\ UNCHANGED vars

Next ==
  \/ SenderStep /\ UNCHANGED receiverVars
  \/ ReaderStep /\ UNCHANGED <<program, spc, outgoing, messages, sheap>>
  \/ ReceiverStep /\ UNCHANGED senderVars
  \/ Ended

Spec == Init /\ [][Next]_vars

-----------------------------------------------------------------------------
(* new_message was made from the header read last.  Nothing is said of     *)
(* messages after an overrun, which may have written over their parts.     *)
Overrun == "overrun" \in misused
IsParsed == turn > 0 /\ new_message.state # "invalid" /\ ~ Overrun

(* "reverse of header generation": whatever the object's memory held       *)
(* before, a header made of the parsed message is the header it was parsed *)
(* from, and a message of the camera has kept its numbers and parameters.  *)
Numbers == {"message_id", "sender_time", "sensor_time", "data_length"}

ReverseOfGeneration ==
  IsParsed =>
    /\ create_TCP_header(new_message) = got.bytes
    /\ got.origin = "camera" =>
         \A f \in Numbers \union {"special_params"} : new_message[f] = got.message[f]

(* What the camera's picture is displayed with belongs together: the rows, *)
(* cols and depth are those of one picture, and the length is its length.  *)
Describes(m, p) ==
  /\ m.special_params = ParamsOf(p.rows, p.cols, p.depth)
  /\ m.data_length = WordOf(p.rows * p.cols * p.depth)

PictureDescribed ==
  IsParsed /\ got.origin = "camera" => \E p \in Pictures : Describes(new_message, p)

(* The reader of headers that is not in use, process_header_message, would *)
(* find the same numbers.  In the enums it sets the bytes that were not    *)
(* sent too, by the sign of the one that was; it loses the parameters.     *)
ReadersAgree ==
  IsParsed =>
    LET other == process_header_message(got.bytes, turn) IN
      /\ \A f \in Numbers : other[f] = new_message[f]
      /\ \A f \in {"sender", "sensor_platform", "sensor_type"} :
           other[f] = SignExtended(new_message[f][0])
      /\ other.special_params = Blank.special_params

(* A header of the camera is accepted, whatever the message before it was, *)
(* unless an earlier state "invalid" is in the way.                        *)
CameraAccepted ==
  [][turn' > turn /\ got'.origin = "camera" /\ new_message.state # "invalid"
       => new_message'.state = "initialized"]_vars

(* So is the message of a test image, of which send_test_image is to send  *)
(* what the receiver reads as its header.                                  *)
TestImagesAccepted ==
  [][turn' > turn /\ got'.origin = "test" /\ new_message.state # "invalid"
       => new_message'.state = "initialized"]_vars

(* And any message whose header has both control segments.                 *)
GoodHeadersAccepted ==
  [][turn' > turn /\ SegmentsMatch(got'.bytes)
       => new_message'.state = "initialized"]_vars

(* The code does neither.  No message of send_test_image is ever accepted: *)
(* the end segment is not among the 25 bytes it sends of its header.       *)
TestImagesRejected == got.origin = "test" => ~ IsParsed

(* Until the first header is rejected no pointer is used or freed that     *)
(* points to no allocated block; and no turn of a rejected message goes    *)
(* well: its pointers are those of a destroyed message, or none.           *)
MisuseIsRejection ==
  /\ "pointer" \in misused => rejected
  /\ rejected /\ rpc \notin {"message", "ended"} => "pointer" \in misused

(* Of each message the receiver keeps one block, the response it does not  *)
(* free; all others are freed once, the pixels of the program's start by   *)
(* the first picture.                                                      *)
KeptByReceiver ==
  rpc = "header" /\ ~ rejected =>
    rheap = (1 .. turn) \X {"response"} \union (IF turn = 0 THEN {Startup} ELSE {})

(* The robot's programs keep the header of each message, the camera its    *)
(* parameter buffer too, and nothing else but images.                      *)
KeptBySender ==
  spc = "idle" =>
    /\ \A n \in 1 .. messages, b \in {"object", "data", "params"} : <<n, b>> \notin sheap
    /\ \A n \in 1 .. messages : <<n, "header">> \in sheap
    /\ program = "camera" =>
         sheap = (1 .. messages) \X {"header", "param_buffer"}

(* The frame's pixels are there from the display to the end of the turn;   *)
(* between two pictures the frame points to freed memory.                  *)
FrameAllocated ==
  turn > 0 /\ ~ rejected /\ rpc # "ended" =>
    (global_test_frame \in rheap
       <=> rpc \in {"answer", "end"} \/ global_test_frame = Startup)

(* Once a header was rejected, all later ones are, valid or not: nothing   *)
(* sets the state before the constructor tests it.  This is what refutes   *)
(* GoodHeadersAccepted.                                                    *)
InvalidStays ==
  [][new_message.state = "invalid" => new_message'.state = "invalid"]_vars

(* For the colour pictures of the camera the whole frame is within the     *)
(* data buffer, unless a number did not fit into its four bytes.           *)
InColour(p) == p.depth = 3 /\ (p.rows * p.cols * p.depth) \div 16777216 < 256

FrameInBuffer ==
  IsParsed /\ got.origin = "camera" /\ (\A p \in Pictures : InColour(p))
    => FrameBytes(new_message) <= NumberOf(new_message.data_length)

-----------------------------------------------------------------------------
(* The path as a transfer of messages without bytes.                       *)
Content(id, sent, taken, length, params) ==
  [message_id |-> id, sender_time |-> sent, sensor_time |-> taken,
   data_length |-> length, special_params |-> params]

ContentOf(m) ==
  Content(m.message_id, m.sender_time, m.sensor_time, m.data_length, m.special_params)

(* What the camera program composes as its n-th message.                   *)
PictureContents ==
  [n \in Nat |->
    {Content(WordOf(n), WordOf(0), Truncated(t), WordOf(p.rows * p.cols * p.depth),
             ParamsOf(p.rows, p.cols, p.depth)) : p \in Pictures, t \in Times}]

OnTheWay(sent) == IF sent.origin = "camera" THEN {ContentOf(sent.message)} ELSE {}

ReceivedContent ==
  IF IsParsed /\ got.origin = "camera" THEN {ContentOf(new_message)} ELSE {}

(* The receiver is out of step with the camera, or rejects.                *)
Failing ==
  \/ turn > 0 /\ got.origin = "stray"
  \/ new_message.state = "invalid"
  \/ Overrun

Transfer == INSTANCE MessageTransfer WITH
  Contents <- PictureContents,
  number   <- messages,
  fresh    <- spc = "ready",
  pipe     <- [i \in 1 .. Len(wire) |-> OnTheWay(wire[i])],
  received <- ReceivedContent,
  failing  <- Failing

(* MessagePath implements MessageTransfer.                                 *)
ImplementsTransfer == Transfer!TransferSpec
=============================================================================

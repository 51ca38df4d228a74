--------------------------- MODULE MessageSender ---------------------------
(***************************************************************************)
(* The messages of the robot's programs, and the memory they take: the     *)
(* camera program (create_message, prep, send_message) and the two test    *)
(* programs that send images from files (read_image, send_test_image).     *)
(* How write() splits what is sent is the business of CameraClient and     *)
(* TimerClient; here a header arrives or it does not.                      *)
(***************************************************************************)
EXTENDS MessageClass, Sequences

CONSTANTS
  Pictures,     \* the camera's pictures: [rows, cols, depth]
  Times,        \* what get_timestamp may return
  FileLengths,  \* imagelen: of the files, or not set when there is no file
  FileStarts,   \* the first 12 bytes of the files
  MaxMessages   \* bound on the messages of one program

ASSUME SenderAssumption ==
  /\ Pictures \subseteq [rows : Nat, cols : Nat, depth : Nat]
  /\ Times \subseteq Long
  /\ FileLengths \subseteq Long
  /\ FileStarts \subseteq Params
  /\ MaxMessages \in Nat

(* The files are JPEG pictures, which have no "end" there.                 *)
ASSUME FilesArePictures ==
  \A s \in FileStarts : \E i \in 0 .. 2 : s[9 + i] # end[i + 1]

VARIABLES
  program,   \* which program it is: "camera" or "test"
  spc,       \* "idle", a message is "ready", "sent", or the process "ended"
  outgoing,  \* the message object
  messages,  \* number of message objects created: image_counter
  sheap,     \* the blocks of memory the program holds
  wire       \* sent and not yet read: the 37 bytes, and what they come from

senderVars == <<program, spc, outgoing, messages, sheap, wire>>

Blank == NewMessage(0, WordOf(0), WordOf(0), WordOf(0), WordOf(0))
Sent == [bytes : Header, origin : {"camera", "test", "stray"}, message : Message]

SenderTypeOK ==
  /\ program \in {"camera", "test"}
  /\ spc \in {"idle", "ready", "sent", "ended"}
  /\ outgoing \in Message
  /\ messages \in Nat
  /\ sheap \subseteq Block
  /\ wire \in Seq(Sent)

SenderInit ==
  /\ program \in {"camera", "test"}
  /\ spc = "idle"
  /\ outgoing = Blank
  /\ messages = 0
  /\ sheap = {}
  /\ wire = <<>>

Blocks(n, names) == {n} \X names

-----------------------------------------------------------------------------
(* The next picture: create_message allocates the object, its two buffers  *)
(* and param_buffer.  The time of sending is 0.                            *)
create_message ==
  /\ program = "camera" /\ spc = "idle" /\ messages < MaxMessages
  /\ messages' = messages + 1
  /\ \E p \in Pictures, t \in Times :
       outgoing' = set_special_params(
                     NewMessage(messages', WordOf(messages'), WordOf(0), Truncated(t),
                                WordOf(p.rows * p.cols * p.depth)),
                     ParamsOf(p.rows, p.cols, p.depth))
  /\ sheap' = sheap \union Blocks(messages', {"object", "data", "params", "param_buffer"})
  /\ spc' = "ready"
  /\ UNCHANGED <<program, wire>>

(* read_image, which may find no file, and the object of send_test_image,  *)
(* with its own two buffers; it gets the id 256.                           *)
read_image ==
  /\ program = "test" /\ spc = "idle" /\ messages < MaxMessages
  /\ messages' = messages + 1
  /\ \E now, sensor \in Times, imagelen \in FileLengths :
       outgoing' = NewMessage(messages', WordOf(256), Truncated(now),
                              Truncated(sensor), Truncated(imagelen))
  /\ \E file \in SUBSET {"image"} :
       sheap' = sheap \union Blocks(messages', {"data", "params"} \union file)
  /\ spc' = "ready"
  /\ UNCHANGED <<program, wire>>

(* The 37 bytes the receiver reads when only the first 25 of the header    *)
(* are sent and the image follows them.                                    *)
ShortHeader(h, start) ==
  [i \in 0 .. TCP_HEADER_LENGTH - 1 |-> IF i < 25 THEN h[i] ELSE start[i - 25]]

(* What may follow it: a file, or, when write() had no image to send, the  *)
(* beginning of the next header.                                           *)
Followers ==
  FileStarts \union
  {[k \in 0 .. 11 |-> create_TCP_header([outgoing EXCEPT !.sender_time = Truncated(t)])[k]]
     : t \in Times}

(* The header is allocated and created in a block of its own and sent; or  *)
(* send() fails and nothing of it arrives.                                 *)
send_message ==
  /\ spc = "ready"
  /\ sheap' = sheap \union Blocks(messages, {"header"})
  /\ LET h == create_TCP_header(outgoing) IN
       \/ UNCHANGED wire
       \/ /\ program = "camera"
          /\ wire' = Append(wire, [bytes |-> h, origin |-> program, message |-> outgoing])
       \/ /\ program = "test"
          /\ \E s \in Followers :
               wire' = Append(wire, [bytes |-> ShortHeader(h, s), origin |-> program,
                                     message |-> outgoing])
  /\ spc' = "sent"
  /\ UNCHANGED <<program, outgoing, messages>>

(* The message is destroyed: prep deletes it, or send_test_image returns.  *)
DeleteObjectOnly == \* mutant
  /\ spc = "sent"
  /\ sheap' = sheap \ Blocks(messages, {"object"})
  /\ spc' = "idle"
  /\ UNCHANGED <<program, outgoing, messages, wire>>
delete_message ==
  /\ spc = "sent"
  /\ sheap' = sheap \ Blocks(messages, {"object", "data", "params"})
  /\ spc' = "idle"
  /\ UNCHANGED <<program, outgoing, messages, wire>>

(* The loop ends, or the process is killed; the test program may also die  *)
(* of the 37 bytes it wrote into a block of 26.                            *)
SenderEnds ==
  /\ spc # "ended"
  /\ spc' = "ended"
  /\ sheap' = {}
  /\ UNCHANGED <<program, outgoing, messages, wire>>

SenderStep == create_message \/ read_image \/ send_message \/ delete_message \/ SenderEnds
=============================================================================

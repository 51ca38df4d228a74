-------------------------- MODULE MessageReceiver --------------------------
(***************************************************************************)
(* The memory of a receiver process: what tcp_server::process_messages     *)
(* allocates, frees and points to in a turn of its loop.                   *)
(*                                                                         *)
(* new_message is a local variable of the loop.  The builds do not         *)
(* optimise, so each turn's object is built where the last turn's was, and *)
(* members the constructor does not set are those of the last turn.        *)
(***************************************************************************)
EXTENDS MessageSender

CONSTANTS
  Garbage,   \* what may be in the place of new_message before the first turn
  Stray,     \* bytes that may be read as a header when the framing is lost
  MaxTurns   \* bound on the turns of the loop

ASSUME ReceiverAssumption ==
  /\ \A m \in Garbage :
       m \in Message /\ {m.data_buffer, m.special_param_buffer} \subseteq {NULL, Wild}
  /\ Stray \subseteq Header
  /\ MaxTurns \in Nat

VARIABLES
  rpc,                \* where in the loop the process is, or "ended"
  new_message,        \* the message object
  turn,               \* turns of the loop begun
  rheap,              \* the blocks of memory the process holds
  global_test_frame,  \* the block the frame's pixels are in
  got,                \* the header read last
  rejected,           \* a header has been found invalid
  misused             \* in which ways memory has been misused

receiverVars ==
  <<rpc, new_message, turn, rheap, global_test_frame, got, rejected, misused>>

ReceiverTypeOK ==
  /\ rpc \in {"header", "message", "picture", "answer", "end", "ended"}
  /\ new_message \in Message
  /\ turn \in Nat
  /\ rheap \subseteq Block
  /\ global_test_frame \in Block
  /\ got \in Sent
  /\ rejected \in BOOLEAN
  /\ misused \subseteq {"pointer", "overrun", "frame"}

(* The process begins with the frame of the program that forked it.        *)
ReceiverInit ==
  /\ rpc = "header"
  /\ new_message \in Garbage
  /\ turn = 0
  /\ rheap = {Startup}
  /\ global_test_frame = Startup
  /\ got = [bytes |-> create_TCP_header(Blank), origin |-> "stray", message |-> Blank]
  /\ rejected = FALSE
  /\ misused = {}

(* The pointers are used or passed to free().                              *)
Misuse(pointers) == IF pointers \subseteq rheap THEN {} ELSE {"pointer"}

(* What get_data_buffer_ptr hands out, and what print_meta_data and        *)
(* extract_special_param_buffer read, without asking for the state.        *)
Buffers == {new_message.data_buffer, new_message.special_param_buffer}

-----------------------------------------------------------------------------
(* read_TCP_header gets the next header, or other bytes in its place, and  *)
(* new_message is constructed from it.  A wrong segment sets the state to  *)
(* "invalid"; the state, set or not, then decides.                         *)
Valid(h) == SegmentsMatch(h) /\ new_message.state # "invalid"

ReadHeader(sent) ==
  /\ rpc = "header" /\ turn < MaxTurns
  /\ turn' = turn + 1
  /\ got' = sent
  /\ IF Valid(sent.bytes)
       THEN /\ new_message' = Parsed(new_message, sent.bytes, turn')
            /\ rheap' = rheap \union Blocks(turn', {"data", "params"})
            /\ UNCHANGED rejected
       ELSE /\ new_message' = [new_message EXCEPT !.state = "invalid"]
            /\ rejected' = TRUE
            /\ UNCHANGED rheap
  /\ rpc' = "message"
  /\ UNCHANGED <<global_test_frame, misused>>

ReadSentHeader ==
  /\ wire # <<>>
  /\ ReadHeader(Head(wire))
  /\ wire' = Tail(wire)

ReadStrayHeader ==
  /\ \E h \in Stray : ReadHeader([bytes |-> h, origin |-> "stray", message |-> Blank])
  /\ UNCHANGED wire

(* The data of the header read last follows it, data_length bytes of it.   *)
InFrame == got.origin = "camera" /\ new_message.state # "invalid"

(* Whether or not it is valid: print_meta_data and                         *)
(* extract_special_param_buffer read the parameters, read_TCP_data puts    *)
(* the data into the buffer.  A length below 1 ends the process.  Each     *)
(* read() of the data loop asks for the whole length, so that the last one *)
(* may write what follows, headers and all, behind the buffer; when the    *)
(* framing is lost headers are also taken for data within it.              *)
ReadMessage ==
  /\ rpc = "message"
  /\ \E lost \in 0 .. Len(wire), behind \in SUBSET {"overrun"} :
       /\ new_message.data_length = WordOf(0) => lost = 0 /\ behind = {}
       /\ InFrame => (lost > 0 <=> behind # {})
       /\ wire' = SubSeq(wire, lost + 1, Len(wire))
       /\ misused' = misused \union Misuse(Buffers) \union behind
  /\ rpc' = IF new_message.data_length = WordOf(0) THEN "ended" ELSE "picture"
  /\ UNCHANGED <<new_message, turn, rheap, global_test_frame, got, rejected>>

(* Rows by cols pixels of three bytes, whatever depth and data length say. *)
NumberOf(w) == w[0] + 256 * w[1] + 65536 * w[2] + 16777216 * w[3]
ExtractBehind(m, at) == \* mutant
  [k \in 0 .. 3 |-> m.special_params[at + 4 + k]]
extract_special_param_buffer(m, at) == [k \in 0 .. 3 |-> m.special_params[at + k]]

FrameBytes(m) ==
  NumberOf(extract_special_param_buffer(m, 0)) * NumberOf(extract_special_param_buffer(m, 4)) * 3

TooSmall(m) == m.state # "invalid" /\ FrameBytes(m) > NumberOf(m.data_length)

(* The frame is made on top of the data buffer and displayed.  With the    *)
(* assignment the frame of the program's start loses its pixels.           *)
ShowPicture ==
  /\ rpc = "picture"
  /\ global_test_frame' = new_message.data_buffer
  /\ rheap' = rheap \ {Startup}
  /\ misused' = misused \union Misuse({global_test_frame'})
                       \union (IF TooSmall(new_message) THEN {"frame"} ELSE {})
  /\ rpc' = "answer"
  /\ UNCHANGED <<new_message, turn, got, rejected>>

(* The confirmation is allocated and sent.                                 *)
SendResponse ==
  /\ rpc = "answer"
  /\ rheap' = rheap \union Blocks(turn, {"response"})
  /\ rpc' = "end"
  /\ UNCHANGED <<new_message, turn, global_test_frame, got, rejected, misused>>

(* The turn ends and new_message is destroyed: special_param_buffer is     *)
(* freed, and data_buffer unless it is NULL.  The members stay.            *)
DestroyKeepsData == \* mutant
  /\ rpc = "end"
  /\ misused' = misused \union Misuse(Buffers \ {NULL})
  /\ rheap' = rheap \ {new_message.special_param_buffer}
  /\ rpc' = "header"
  /\ UNCHANGED <<new_message, turn, global_test_frame, got, rejected>>
DestroyMessage ==
  /\ rpc = "end"
  /\ misused' = misused \union Misuse(Buffers \ {NULL})
  /\ rheap' = rheap \ Buffers
  /\ rpc' = "header"
  /\ UNCHANGED <<new_message, turn, global_test_frame, got, rejected>>

(* The end of the connection in the header, an error of read(), SIGPIPE    *)
(* for the response, a failure after a misuse of memory, or a kill.  At    *)
(* the end of the connection in the data the process stays at "message".   *)
ReceiverEnds ==
  /\ rpc # "ended"
  /\ rpc' = "ended"
  /\ UNCHANGED <<new_message, turn, rheap, global_test_frame, got, rejected, misused>>

ReaderStep == ReadSentHeader \/ ReadStrayHeader \/ ReadMessage
ReceiverStep == ShowPicture \/ SendResponse \/ DestroyMessage \/ ReceiverEnds
=============================================================================

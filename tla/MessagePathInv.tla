-------------------------- MODULE MessagePathInv --------------------------
(***************************************************************************)
(* The inductive invariant behind the properties of MessagePath.           *)
(***************************************************************************)
EXTENDS MessagePath

(* What has been sent is a header of the camera, or no valid header.       *)
Honest(sent) ==
  /\ sent.origin = "camera" =>
       /\ sent.bytes = create_TCP_header(sent.message)
       /\ \E p \in Pictures : Describes(sent.message, p)
  /\ sent.origin = "test" => ~ SegmentsMatch(sent.bytes)

(* Only the two programs send.                                             *)
HonestlySent(sent) == Honest(sent) /\ sent.origin # "stray"

(* A message that is ready is what its program sends, and carries the      *)
(* content its number allows.                                              *)
OutgoingInv ==
  spc = "ready" =>
    /\ program = "test" => outgoing.message_id = WordOf(256)
    /\ program = "camera" => /\ \E p \in Pictures : Describes(outgoing, p)
                            /\ ContentOf(outgoing) \in PictureContents[messages]

WireInv ==
  /\ \A i \in 1 .. Len(wire) : HonestlySent(wire[i])
  /\ Honest(got)
  /\ OutgoingInv

ParsedInv ==
  /\ IsParsed => SegmentsMatch(got.bytes) /\ create_TCP_header(new_message) = got.bytes
  /\ rpc = "message" => turn > 0

(* What the sender's messages before this one, and this one, hold.         *)
HeadersMade == IF spc = "ready" THEN messages - 1 ELSE messages

SenderInv ==
  /\ spc \in {"ready", "sent"} => messages > 0
  /\ spc # "ended" =>
       /\ \A n \in 1 .. HeadersMade : <<n, "header">> \in sheap
       /\ \A x \in sheap :
            x[2] \in {"object", "data", "params"} => spc # "idle" /\ x[1] = messages
       /\ program = "camera" =>
            sheap = (1 .. messages) \X {"param_buffer"}
                      \union (1 .. HeadersMade) \X {"header"}
                      \union (IF spc = "idle" THEN {}
                              ELSE Blocks(messages, {"object", "data", "params"}))

(* What the receiver holds as long as no header was rejected.              *)
Own(n) == Blocks(n, {"data", "params"})
Responses(n) == (1 .. n) \X {"response"}
FirstFrame(n) == IF n = 0 THEN {Startup} ELSE {}

HeapInv ==
  ~ rejected =>
    /\ rpc = "header" => rheap = Responses(turn) \union FirstFrame(turn)
    /\ rpc \in {"message", "picture"} =>
         /\ turn > 0
         /\ rheap = Responses(turn - 1) \union Own(turn) \union FirstFrame(turn - 1)
    /\ rpc = "answer" => turn > 0 /\ rheap = Responses(turn - 1) \union Own(turn)
    /\ rpc = "end" => turn > 0 /\ rheap = Responses(turn) \union Own(turn)

PointerInv ==
  ~ rejected =>
    /\ IF turn = 0 THEN Buffers \subseteq {NULL, Wild}
       ELSE /\ new_message.data_buffer = <<turn, "data">>
            /\ new_message.special_param_buffer = <<turn, "params">>
    /\ global_test_frame \in {Startup} \union (1 .. turn) \X {"data"}
    /\ global_test_frame = Startup <=> Startup \in rheap
    /\ rpc \in {"message", "picture"} => global_test_frame # <<turn, "data">>
    /\ rpc \in {"answer", "end"} => global_test_frame = <<turn, "data">>

MisuseInv ==
  /\ "pointer" \in misused => rejected
  /\ rejected /\ "pointer" \notin misused =>
       rpc \in {"message", "ended"} /\ new_message.special_param_buffer \notin rheap

IInv ==
  /\ TypeOK
  /\ WireInv
  /\ ParsedInv
  /\ SenderInv
  /\ HeapInv
  /\ PointerInv
  /\ MisuseInv
=============================================================================

---------------------------- MODULE VideoLinkInv ----------------------------
(***************************************************************************)
(* The inductive invariant behind the safety properties of VideoLink, part *)
(* by part.  VideoLinkProofs proves it; the runs check it too.             *)
(***************************************************************************)
EXTENDS VideoLink

(* Each end of the connection is open as long as its program runs, and a   *)
(* write() call belongs to a picture.                                      *)
EndsInv ==
  /\ (clientEnd = "open") = ~ClientEnded
  /\ (serverEnd = "open") = ~ServerEnded
  /\ Writing => image_counter > 0

(* The receiver cannot be ahead of the network, nor that of the client.    *)
StreamInv == taken <= arrived /\ arrived <= written

(* While there is a receiver, each message begins where the one before it  *)
(* ends.                                                                   *)
LayoutInv ==
  serverEnd = "open" =>
    /\ \A k \in 1 .. image_counter : headers[k].at = EndOf(k - 1)
    /\ \A i, j \in 1 .. image_counter : i < j => EndOf(i) <= headers[j].at

(* While there is a receiver, the write() call under way and the bytes     *)
(* written before it make up exactly a header, or a whole message.         *)
WriterInv ==
  serverEnd = "open" =>
    /\ written <= EndOf(image_counter)
    /\ image_counter > 0 => headers[image_counter].at <= written
    /\ cpc = "capture" => written = EndOf(image_counter)
    /\ cpc = "header" =>
         /\ unsent \in 1 .. HeaderLength
         /\ written + unsent = headers[image_counter].at + HeaderLength
    /\ cpc = "data" =>
         /\ unsent \in 1 .. headers[image_counter].len
         /\ written + unsent = EndOf(image_counter)

(* The pictures shown are some of the client's, in order, and the receiver *)
(* has read past the end of each.                                          *)
ShownInv ==
  /\ \A i \in 1 .. Len(shown) :
        shown[i] \in 1 .. image_counter /\ EndOf(shown[i]) <= taken
  /\ \A i, j \in 1 .. Len(shown) : i < j => shown[i] < shown[j]

(* In the data loop the data are not complete; and if the header was one   *)
(* of the client's, they are that header's, of a picture not yet shown.    *)
DataInv ==
  spc = "data" =>
    /\ count_bytes < message.len
    /\ message.id # 0 =>
         /\ message.id \in 1 .. image_counter
         /\ message.len = headers[message.id].len
         /\ taken = headers[message.id].at + HeaderLength + count_bytes
         /\ \A i \in 1 .. Len(shown) : shown[i] < message.id

(* Until a fault, the receiver has shown every picture it read, and it     *)
(* stands in the stream where the client's messages say.                   *)
AlignInv ==
  faults = {} =>
    /\ \A i \in 1 .. Len(shown) : shown[i] = i
    /\ spc = "header" => taken = EndOf(Len(shown))
    /\ spc = "data" => message.id = Len(shown) + 1
    /\ spc = "respond" => /\ Len(shown) > 0
                          /\ message.id = Len(shown)
                          /\ taken = EndOf(Len(shown))

(* Until a fault, the client finds one answer for each picture, except for *)
(* the one about to be confirmed.                                          *)
AnswersInv ==
  faults = {} =>
    /\ \A i \in 1 .. Len(replies) : replies[i] = i
    /\ clientEnd # "rst" =>
         /\ spc \in {"header", "data"} => Len(replies) = Len(shown)
         /\ spc = "respond" => Len(replies) + 1 = Len(shown)

(* The inductive invariant.                                                *)
IInv ==
  /\ TypeOK /\ EndsInv /\ StreamInv /\ LayoutInv /\ WriterInv
  /\ ShownInv /\ DataInv /\ OverrunBound /\ AlignInv /\ AnswersInv

(* While there is a receiver, headers are as far apart in the stream as    *)
(* the smallest messages make them.                                        *)
SpacingInv ==
  /\ \A k \in 1 .. image_counter : headers[k].len \in FrameSizes
  /\ serverEnd = "open" =>
       \A f \in FrameSizes : NoneBelow(f) =>
         \A i, j \in 1 .. image_counter : i <= j =>
           (j - i) * (HeaderLength + f) <= headers[j].at - headers[i].at

(* The client is never further ahead of the receiver than there is room.   *)
RoomInv == serverEnd = "open" => written <= taken + SendSpace

(* The answers sent fit on their way, and unless the connection is reset   *)
(* there is one for every picture displayed before the one about to be     *)
(* confirmed, whatever went wrong with the framing.                        *)
BackInv ==
  /\ delivered <= Len(replies)
  /\ Len(replies) <= ReplySpace
  /\ clientEnd # "rst" =>
       /\ Len(shown) <= Len(replies) + 1
       /\ spc \in {"header", "data"} => Len(shown) <= Len(replies)

(* All that the safety properties need.                                    *)
StrongInv == IInv /\ SpacingInv /\ RoomInv /\ BackInv
=============================================================================

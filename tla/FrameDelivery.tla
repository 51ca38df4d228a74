--------------------------- MODULE FrameDelivery ---------------------------
(***************************************************************************)
(* What the video link promises, with no bytes and no buffers in it.       *)
(* Pictures are numbered in the order the robot takes them.  The cockpit   *)
(* displays each at most once and never out of order; it leaves none out   *)
(* as long as the stream is framed.  The framing can get lost in two ways  *)
(* only: together with a picture, when the next one is already on its way, *)
(* or because a good header was rejected.  It is never known to be back.   *)
(***************************************************************************)
EXTENDS Naturals

CONSTANT MayReject   \* whether the receiver may reject a good header

VARIABLES
  sent,    \* number of pictures the robot has taken and begun to send
  last,    \* number of the last picture displayed, 0 for none
  framed   \* the receiver still knows where messages begin

deliveryVars == <<sent, last, framed>>

DeliveryInit == sent = 0 /\ last = 0 /\ framed = TRUE

Send == sent' = sent + 1 /\ UNCHANGED <<last, framed>>

Deliver ==
  /\ \E i \in last + 1 .. sent :
       /\ framed => i = last + 1
       /\ last' = i
       /\ \/ UNCHANGED framed
          \/ framed' = FALSE /\ i < sent
  /\ UNCHANGED sent

Reject ==
  /\ MayReject
  /\ framed
  /\ last < sent
  /\ framed' = FALSE
  /\ UNCHANGED <<sent, last>>

DeliveryNext == Send \/ Deliver \/ Reject

DeliverySpec == DeliveryInit /\ [][DeliveryNext]_deliveryVars
=============================================================================

-------------------------- MODULE MessageTransfer --------------------------
(***************************************************************************)
(* What the way of a message through header and constructor promises,      *)
(* without bytes: the messages of the camera get to the receiver one after *)
(* the other, each at most once and with the content they were composed    *)
(* with, or not at all.  A receiver that does not fail takes every one of  *)
(* them; nothing is promised about when it fails, and for how long.        *)
(***************************************************************************)
EXTENDS Naturals, Sequences

CONSTANT Contents   \* Contents[n]: what the n-th message may contain

VARIABLES
  number,    \* messages composed so far
  fresh,     \* the last of them has not been sent yet
  pipe,      \* on the way: {content}, or {} for what is not of the camera
  received,  \* {content} of the message the receiver has, or {}
  failing    \* the receiver may pass messages over

transferVars == <<number, fresh, pipe, received, failing>>

TransferInit ==
  /\ number = 0
  /\ fresh = FALSE
  /\ pipe = <<>>
  /\ received = {}
  /\ failing \in BOOLEAN

Compose ==
  /\ ~ fresh
  /\ number' = number + 1
  /\ fresh' = TRUE
  /\ UNCHANGED <<pipe, received, failing>>

(* The message goes on its way, or something does that is not one, or      *)
(* nothing; there is no second attempt.                                    *)
Send ==
  /\ fresh
  /\ fresh' = FALSE
  /\ \/ UNCHANGED pipe
     \/ pipe' = Append(pipe, {})
     \/ \E c \in Contents[number] : pipe' = Append(pipe, {c})
  /\ UNCHANGED <<number, received, failing>>

Receive ==
  /\ pipe # <<>>
  /\ pipe' = Tail(pipe)
  /\ received' \in {Head(pipe), {}}
  /\ failing' \in BOOLEAN
  /\ ~ failing /\ Head(pipe) # {} => received' = Head(pipe) /\ ~ failing'
  /\ UNCHANGED <<number, fresh>>

(* Other bytes are taken for a message; or messages are taken for the data *)
(* of the one before, and the receiver fails.                              *)
Mistake ==
  /\ \E lost \in 0 .. Len(pipe) :
       /\ pipe' = SubSeq(pipe, lost + 1, Len(pipe))
       /\ lost > 0 => failing' /\ (failing \/ received # {})
  /\ received' \in {received, {}}
  /\ failing' \in BOOLEAN
  /\ UNCHANGED <<number, fresh>>

TransferNext == Compose \/ Send \/ Receive \/ Mistake

TransferSpec == TransferInit /\ [][TransferNext]_transferVars
=============================================================================

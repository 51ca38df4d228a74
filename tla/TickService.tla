----------------------------- MODULE TickService -----------------------------
(***************************************************************************)
(* What the timer test program promises, with no signals and no system     *)
(* calls in it.  A tick outside a call asks for an image; ticks that come  *)
(* while one has been asked for, or during a call, ask for nothing more.   *)
(* Calls answer one at a time and take the images in turn; an image that   *)
(* cannot be read is replaced by the one sent before it.                   *)
(***************************************************************************)
EXTENDS Naturals, Sequences

CONSTANTS
  Images,  \* the images are numbered 1 .. Images
  Files,   \* those that can be read
  Most     \* the most calls there may be

VARIABLES
  ticks,  \* ticks so far
  asked,  \* an image has been asked for
  calls   \* the calls so far: the image sent, 0 for none, and how it went

serviceVars == <<ticks, asked, calls>>

ServiceInit == ticks = 0 /\ asked = FALSE /\ calls = <<>>

UnderWay == calls # <<>> /\ calls[Len(calls)].how = "open"

(* The image of the call after the first n.                                *)
ImageOf(n) ==
  LET turn == (n % Images) + 1 IN
    IF turn \in Files THEN turn ELSE IF n = 0 THEN 0 ELSE calls[n].image

Tick ==
  /\ ticks' = ticks + 1
  /\ asked' = ~UnderWay
  /\ UNCHANGED calls

Begin ==
  /\ asked
  /\ ~UnderWay
  /\ Len(calls) < Most
  /\ calls' = Append(calls, [image |-> ImageOf(Len(calls)), how |-> "open"])
  /\ asked' = FALSE
  /\ UNCHANGED ticks

End ==
  /\ UnderWay
  /\ \E how \in {"whole", "torn", "failed"} :
       calls' = [calls EXCEPT ![Len(calls)].how = how]
  /\ UNCHANGED <<ticks, asked>>

ServiceNext == Tick \/ Begin \/ End

ServiceSpec == ServiceInit /\ [][ServiceNext]_serviceVars
=============================================================================

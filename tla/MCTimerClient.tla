--------------------------- MODULE MCTimerClient ---------------------------
(* The timer program with its own numbers: five images, count1 <= 5.       *)
EXTENDS TimerClient
=============================================================================

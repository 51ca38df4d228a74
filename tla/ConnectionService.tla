------------------------- MODULE ConnectionService -------------------------
(***************************************************************************)
(* What the forking server promises its clients: each connection waits,    *)
(* is taken, is served by a process of its own and is over, independently  *)
(* of all the others.  Connections are taken one at a time.  Whatever      *)
(* happens to the server can end only connections nobody serves yet.       *)
(***************************************************************************)
CONSTANT Clients

VARIABLE phase

Phases == {"none", "waiting", "taken", "served", "over"}

ServiceInit == phase = [c \in Clients |-> "none"]

Advance(c, from, to) ==
  /\ phase[c] = from
  /\ phase' = [phase EXCEPT ![c] = to]

Connect(c) == Advance(c, "none", "waiting")
Take(c)    == Advance(c, "waiting", "taken") /\ \A d \in Clients : phase[d] # "taken"
Serve(c)   == Advance(c, "taken", "served")
Finish(c)  == Advance(c, "served", "over")

(* The server gives up, or is stopped.                                     *)
Drop(lost) ==
  /\ \A c \in lost : phase[c] \in {"waiting", "taken"}
  /\ phase' = [c \in Clients |-> IF c \in lost THEN "over" ELSE phase[c]]

ServiceNext ==
  \/ \E c \in Clients : Connect(c) \/ Take(c) \/ Serve(c) \/ Finish(c)
  \/ \E lost \in SUBSET Clients : Drop(lost)

ServiceSpec == ServiceInit /\ [][ServiceNext]_phase
=============================================================================

---------------------------- MODULE TimerClient ----------------------------
(***************************************************************************)
(* The timer test program of the robot (RPI_cockpit_1/dev_tests/           *)
(* tcp_client_test_timer_messages.cpp).  Two interval timers raise SIGALRM *)
(* in the one thread of the program.  The handler counts the ticks of the  *)
(* first timer and sets send_indicator; main polls the indicator, sends    *)
(* the next of its images with tcp_client::send_test_image, and clears it. *)
(*                                                                         *)
(* A signal may come between any two steps of main, which read and write   *)
(* the shared variables one at a time.  The handlers are installed without *)
(* SA_RESTART, so a signal also ends a write() that waits for room.        *)
(***************************************************************************)
EXTENDS Naturals, Sequences

CONSTANTS
  Images,     \* the images are numbered 1 .. Images
  LastCount,  \* the loop goes on while count1 <= LastCount
  Files,      \* the images whose file can be opened
  MaxCount    \* bound on count1: the first timer stays quiet after that

ASSUME TimerAssumption ==
  /\ Images \in Nat \ {0}
  /\ LastCount \in Nat
  /\ Files \subseteq 1 .. Images
  /\ MaxCount \in Nat /\ MaxCount > LastCount

VARIABLES
  pc,              \* where main is
  count1,          \* ticks of the first timer, counted by the handler
  send_indicator,  \* a tick has asked for an image
  image_counter,   \* the image to send next
  image,           \* what main's image buffer holds, 0 before the first file
  pending,         \* the timers whose signal waits to be delivered
  interrupted,     \* a signal came during the write() call main is in
  connection,      \* "none": the constructor of tcp_client got no connection;
                   \* "open"; or "lost" later, by a reset or the PC's close
  sent             \* send_test_image calls: the image, and how it went

vars == <<pc, count1, send_indicator, image_counter, image, pending,
          interrupted, connection, sent>>

mainVars == <<pc, image_counter, image, sent>>

Outcome == {"begun", "whole", "torn", "failed"}

TypeOK ==
  /\ pc \in {"loop", "test", "read", "header", "data", "clear", "count", "stop",
             "done", "killed"}
  /\ count1 \in 0 .. MaxCount
  /\ send_indicator \in BOOLEAN
  /\ image_counter \in 1 .. Images
  /\ image \in 0 .. Images
  /\ pending \subseteq {1, 2}
  /\ interrupted \in BOOLEAN
  /\ connection \in {"none", "open", "lost"}
  /\ sent \in Seq([image : 0 .. Images, how : Outcome])

Init ==
  /\ pc = "loop"
  /\ count1 = 0
  /\ send_indicator = FALSE
  /\ image_counter = 1
  /\ image = 0
  /\ pending = {}
  /\ interrupted = FALSE
  /\ connection \in {"none", "open"}
  /\ sent = <<>>

ProgramEnded == pc \in {"done", "killed"}

-----------------------------------------------------------------------------
(* The timers and the handler.                                             *)

(* A timer expires.  It has one signal at most; if that still waits, the   *)
(* expiration is lost.                                                     *)
Expire(t) ==
  /\ ~ProgramEnded
  /\ t \notin pending
  /\ t = 1 => count1 < MaxCount
  /\ pending' = pending \union {t}
  /\ UNCHANGED <<mainVars, count1, send_indicator, interrupted, connection>>

(* timer_callback runs, between two steps of main or in a write().         *)
timer_callback_both(t) == \* mutant
  /\ t \in pending
  /\ pending' = pending \ {t}
  /\ count1' = IF t = 1 THEN count1 + 1 ELSE count1
  /\ send_indicator' = TRUE
  /\ interrupted' = (interrupted \/ pc \in {"header", "data"})
  /\ UNCHANGED <<mainVars, connection>>
timer_callback(t) ==
  /\ t \in pending
  /\ pending' = pending \ {t}
  /\ IF t = 1 THEN count1' = count1 + 1 /\ send_indicator' = TRUE
              ELSE UNCHANGED <<count1, send_indicator>>
  /\ interrupted' = (interrupted \/ pc \in {"header", "data"})
  /\ UNCHANGED <<mainVars, connection>>

(* The PC resets or closes the connection, or dies.                        *)
LoseConnection ==
  /\ ~ProgramEnded
  /\ connection = "open"
  /\ connection' = "lost"
  /\ UNCHANGED <<mainVars, count1, send_indicator, pending, interrupted>>

-----------------------------------------------------------------------------
(* main, one access to a shared variable or one system call at a time.     *)

(* while (count1 <= 5)                                                     *)
LoopUntilEqual == count1 # LastCount + 1 \* mutant
LoopGoesOn == count1 <= LastCount

TestCount ==
  /\ pc = "loop"
  /\ pc' = IF LoopGoesOn THEN "test" ELSE "stop"
  /\ UNCHANGED <<count1, send_indicator, image_counter, image, pending,
                 interrupted, connection, sent>>

(* if (send_indicator == true)                                             *)
TestIndicatorHoisted == \* mutant
  /\ pc = "test"
  /\ pc' = "loop"
  /\ UNCHANGED <<count1, send_indicator, image_counter, image, pending,
                 interrupted, connection, sent>>
TestIndicator ==
  /\ pc = "test"
  /\ pc' = IF send_indicator THEN "read" ELSE "loop"
  /\ UNCHANGED <<count1, send_indicator, image_counter, image, pending,
                 interrupted, connection, sent>>

(* read_image, and the beginning of send_test_image.  When the file cannot *)
(* be opened, the result is not looked at and main's buffer variables      *)
(* keep what they held.                                                    *)
ReadImage ==
  /\ pc = "read"
  /\ image' = IF image_counter \in Files THEN image_counter ELSE image
  /\ sent' = Append(sent, [image |-> image', how |-> "begun"])
  /\ pc' = "header"
  /\ interrupted' = FALSE
  /\ UNCHANGED <<count1, send_indicator, image_counter, pending, connection>>

Result(how) == sent' = [sent EXCEPT ![Len(sent)].how = how]

(* A signal, or the loss of the connection, ends a write() that waits.     *)
Disturbed == interrupted \/ connection = "lost"

(* write() of the header returns without error: all of it, or, disturbed,  *)
(* a part of it, which is taken for success.  After a loss the kernel may  *)
(* still accept the first one.                                             *)
HeaderWritten ==
  /\ pc = "header"
  /\ connection # "none"
  /\ pc' = "data"
  /\ \/ connection = "open" /\ UNCHANGED sent
     \/ Disturbed /\ Result("torn")
  /\ interrupted' = FALSE
  /\ UNCHANGED <<count1, send_indicator, image_counter, image, pending, connection>>

(* write() of the data.                                                    *)
DataWritten ==
  /\ pc = "data"
  /\ pc' = "clear"
  /\ \/ /\ connection = "open"
        /\ Result(IF sent[Len(sent)].how = "begun" THEN "whole" ELSE "torn")
     \/ Disturbed /\ Result("torn")
  /\ interrupted' = FALSE
  /\ UNCHANGED <<count1, send_indicator, image_counter, image, pending, connection>>

(* send() finds no connection, or write() returns -1: with EINTR when the  *)
(* signal came before the first byte was copied, with ECONNRESET after a   *)
(* loss, with EFAULT when there is no image.  send_test_image gives up.    *)
SendFails ==
  /\ \/ pc = "header" /\ (connection = "none" \/ Disturbed)
     \/ pc = "data" /\ (Disturbed \/ image = 0)
  /\ pc' = "clear"
  /\ Result(IF pc = "header" THEN "failed" ELSE "torn")
  /\ interrupted' = FALSE
  /\ UNCHANGED <<count1, send_indicator, image_counter, image, pending, connection>>

(* The same write() may instead raise SIGPIPE, which nobody handles: the   *)
(* process is gone, and its timers and signals with it.                    *)
BrokenPipe ==
  /\ pc \in {"header", "data"}
  /\ connection = "lost"
  /\ pc' = "killed"
  /\ pending' = {}
  /\ UNCHANGED <<count1, send_indicator, image_counter, image, interrupted,
                 connection, sent>>

(* send_indicator = false, whether or not a tick has come in the meantime. *)
ClearOmitted == \* mutant
  /\ pc = "clear"
  /\ pc' = "count"
  /\ UNCHANGED <<count1, send_indicator, image_counter, image, pending,
                 interrupted, connection, sent>>
ClearIndicator ==
  /\ pc = "clear"
  /\ send_indicator' = FALSE
  /\ pc' = "count"
  /\ UNCHANGED <<count1, image_counter, image, pending, interrupted, connection, sent>>

CountImageLate == \* mutant
  /\ pc = "count"
  /\ image_counter' = IF image_counter > Images THEN 1 ELSE image_counter + 1
  /\ pc' = "loop"
  /\ UNCHANGED <<count1, send_indicator, image, pending, interrupted, connection, sent>>
CountImageEarly == \* mutant
  /\ pc = "count"
  /\ image_counter' = IF image_counter + 1 >= Images THEN 1 ELSE image_counter + 1
  /\ pc' = "loop"
  /\ UNCHANGED <<count1, send_indicator, image, pending, interrupted, connection, sent>>
CountImage ==
  /\ pc = "count"
  /\ image_counter' = IF image_counter + 1 > Images THEN 1 ELSE image_counter + 1
  /\ pc' = "loop"
  /\ UNCHANGED <<count1, send_indicator, image, pending, interrupted, connection, sent>>

(* stop_timer for both timers, and the end of the program.                 *)
StopTimers ==
  /\ pc = "stop"
  /\ pc' = "done"
  /\ pending' = {}
  /\ UNCHANGED <<count1, send_indicator, image_counter, image, interrupted,
                 connection, sent>>

MainStep ==
  \/ TestCount \/ TestIndicator \/ ReadImage \/ HeaderWritten \/ DataWritten
  \/ SendFails \/ BrokenPipe \/ ClearIndicator \/ CountImage \/ StopTimers

Ended == ProgramEnded /\ UNCHANGED vars

Next ==
  \/ \E t \in {1, 2} : Expire(t) \/ timer_callback(t)
  \/ LoseConnection
  \/ MainStep
  \/ Ended

Spec == Init /\ [][Next]_vars

(* Fairness: a signal that waits gets delivered, and main runs on; but     *)
(* nobody promises that the PC makes room for a write(), nor that the      *)
(* timers go on, unless a property says so.                                *)
WriteEnds == Disturbed /\ (HeaderWritten \/ DataWritten \/ SendFails \/ BrokenPipe)

FairSpec ==
  /\ Spec
  /\ \A t \in {1, 2} : WF_vars(timer_callback(t))
  /\ WF_vars(TestCount \/ TestIndicator \/ ReadImage \/ ClearIndicator
               \/ CountImage \/ StopTimers)
  /\ WF_vars(WriteEnds)
  /\ WF_vars(SendFails /\ (connection = "none" \/ image = 0))

TimersRun == \A t \in {1, 2} : WF_vars(Expire(t))

-----------------------------------------------------------------------------
(* The indicator stands for a tick that no send has answered yet.         *)
Owed == pc = "read" \/ (send_indicator /\ pc \in {"loop", "test", "count", "stop", "done"})

(* Each call of send_test_image answers a tick of its own: however handler *)
(* and main interleave, no tick is answered twice.                         *)
SendsAnswerTicks == Len(sent) + (IF Owed THEN 1 ELSE 0) <= count1

(* The loop ends in time: a sixth image may go out when the tick that ends *)
(* the loop comes just after its test, but never a seventh.                *)
AtMostOneExtra == Len(sent) <= LastCount + 1

(* The images go out in turn.  Where a file cannot be opened, the call     *)
(* sends the image of the call before it once more, or none.               *)
Turn(i) == ((i - 1) % Images) + 1

ImagesInTurn ==
  \A i \in 1 .. Len(sent) :
    sent[i].image = IF Turn(i) \in Files THEN Turn(i)
                    ELSE IF i = 1 THEN 0 ELSE sent[i - 1].image

(* The program as a service that answers ticks.  A call lasts until the    *)
(* indicator is cleared; what write() did is of no effect before.          *)
CallUnderWay == pc \in {"header", "data", "clear", "killed"}

Answers == INSTANCE TickService WITH
  Most  <- LastCount + 1,
  ticks <- count1,
  asked <- Owed,
  calls <- [i \in 1 .. Len(sent) |->
              IF i = Len(sent) /\ CallUnderWay
                THEN [image |-> sent[i].image, how |-> "open"] ELSE sent[i]]

(* TimerClient implements TickService.                                     *)
ImplementsTicks == Answers!ServiceSpec

(* A tick that comes while no send is under way leads to a send, and needs *)
(* no further tick for it; only the count can end the loop before.         *)
IdleTickServed ==
  \A k \in 0 .. LastCount :
    send_indicator /\ pc \in {"loop", "test", "count"} /\ Len(sent) = k
      ~> Len(sent) > k \/ count1 > LastCount

(* While the timers run, the program ends even if the receiver blocks it:  *)
(* signals end the writes.                                                 *)
Terminates == TimersRun => <>ProgramEnded

-----------------------------------------------------------------------------
(* The comment in main: "the goal is to send each image once to the pc":   *)
(* no image is sent whole twice.                                           *)
NoImageTwice ==
  \A i, j \in 1 .. Len(sent) :
    sent[i].how = "whole" /\ sent[j].how = "whole" /\ sent[i].image = sent[j].image
      => i = j
=============================================================================

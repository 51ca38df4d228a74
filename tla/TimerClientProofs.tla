------------------------- MODULE TimerClientProofs -------------------------
(***************************************************************************)
(* Machine-checked proofs about TimerClient, for any number of images, any *)
(* loop bound and any set of readable files: no tick is answered twice,    *)
(* the loop sends at most one image more than its bound, the images go out *)
(* in turn, and the program implements TickService.                        *)
(***************************************************************************)
EXTENDS TimerClient, SequenceTheorems, TLAPS

(* The loop condition that let main in still bounds the calls made so far, *)
(* a write() belongs to a call, and the first timer has room to count.     *)
InLoop ==
  /\ pc \in {"test", "read"} => Len(sent) <= LastCount
  /\ pc \in {"header", "data"} => Len(sent) > 0
  /\ 1 \in pending => count1 < MaxCount

IInv ==
  /\ TypeOK
  /\ SendsAnswerTicks
  /\ InLoop
  /\ AtMostOneExtra

-----------------------------------------------------------------------------
(* Recording how a call went keeps the calls and their number.             *)
LEMMA ResultFacts ==
  ASSUME TypeOK, NEW how \in Outcome, Len(sent) > 0, Result(how)
  PROVE  /\ sent' \in Seq([image : 0 .. Images, how : Outcome])
         /\ Len(sent') = Len(sent)
  <1> DEFINE n == Len(sent)
             Call == [image : 0 .. Images, how : Outcome]
             new == [sent[n] EXCEPT !.how = how]
  <1>1. sent \in Seq(Call)
    BY DEF TypeOK
  <1>2. n \in 1 .. Len(sent)
    BY <1>1
  <1>3. sent[n] \in Call
    <2> HIDE DEF n, Call
    <2> QED
      BY <1>1, <1>2, ElementOfSeq
  <1>4. new \in Call
    <2>1. new = [image |-> sent[n].image, how |-> how]
      BY <1>3
    <2>2. sent[n].image \in 0 .. Images
      BY <1>3
    <2> QED
      BY <2>1, <2>2
  <1>5. sent' = [sent EXCEPT ![n] = new]
    BY DEF Result
  <1> HIDE DEF n, Call, new
  <1>6. sent' \in Seq(Call) /\ Len(sent') = Len(sent)
    BY <1>1, <1>2, <1>4, <1>5, ExceptSeq
  <1> QED
    BY <1>6 DEF Call

(* The program starts in a state of the invariant.                         *)
LEMMA InitIInv == Init => IInv
  <1> SUFFICES ASSUME Init PROVE IInv
    OBVIOUS
  <1>1. TypeOK
    <2>1. connection \in {"none", "open", "lost"}
      BY DEF Init
    <2>2. sent \in Seq([image : 0 .. Images, how : Outcome])
      BY DEF Init
    <2>3. connection \in {"none", "open", "lost"} /\ sent \in Seq([image : 0 .. Images, how : Outcome])
      BY <2>1, <2>2
    <2>4. /\ pc = "loop" /\ count1 \in 0 .. MaxCount /\ send_indicator = FALSE
          /\ image_counter \in 1 .. Images /\ image \in 0 .. Images
          /\ pending = {} /\ interrupted = FALSE
      BY TimerAssumption DEF Init
    <2> QED
      BY <2>3, <2>4 DEF TypeOK
  <1>2. SendsAnswerTicks /\ InLoop /\ AtMostOneExtra
    BY TimerAssumption DEF Init, SendsAnswerTicks, InLoop, AtMostOneExtra, Owed
  <1> QED
    BY <1>1, <1>2 DEF IInv

(* A timer expires.                                                        *)
LEMMA ExpireStep ==
  ASSUME IInv, NEW t \in {1, 2}, Expire(t)
  PROVE  IInv'
  <1> USE TimerAssumption DEF Expire, IInv, mainVars
  <1>1. TypeOK'
    BY DEF TypeOK
  <1>2. SendsAnswerTicks' /\ InLoop' /\ AtMostOneExtra'
    BY DEF TypeOK, SendsAnswerTicks, InLoop, AtMostOneExtra, Owed
  <1> QED
    BY <1>1, <1>2

(* The handler runs: the tick it counts is the one a send may now answer.  *)
LEMMA timer_callbackStep ==
  ASSUME IInv, NEW t \in {1, 2}, timer_callback(t)
  PROVE  IInv'
  <1> USE TimerAssumption DEF timer_callback, IInv, mainVars
  <1>1. TypeOK'
    <2>1. interrupted' \in BOOLEAN
      BY Zenon
    <2>2. count1' \in 0 .. MaxCount
      BY DEF TypeOK, InLoop
    <2>3. send_indicator' \in BOOLEAN
      BY DEF TypeOK
    <2>4. pending' \subseteq {1, 2}
      BY DEF TypeOK
    <2> HIDE DEF timer_callback
    <2>5. UNCHANGED <<pc, image_counter, image, sent, connection>>
      BY DEF timer_callback
    <2> QED
      BY <2>1, <2>2, <2>3, <2>4, <2>5 DEF TypeOK
  <1>2. SendsAnswerTicks'
    <2>1. Len(sent') = Len(sent) /\ Len(sent) \in Nat /\ count1 \in Nat
      BY DEF TypeOK
    <2>2. CASE t = 1
      BY <2>1, <2>2 DEF SendsAnswerTicks
    <2>3. CASE t # 1
      BY <2>1, <2>3 DEF SendsAnswerTicks, Owed
    <2> QED
      BY <2>2, <2>3
  <1>3. InLoop' /\ AtMostOneExtra'
    BY DEF TypeOK, InLoop, AtMostOneExtra
  <1> QED
    BY <1>1, <1>2, <1>3

(* The connection is lost, or its loss kills the program.                  *)
LEMMA LossStep == IInv /\ (LoseConnection \/ BrokenPipe) => IInv'
  <1>1. IInv /\ LoseConnection => IInv'
    BY TimerAssumption
    DEF LoseConnection, mainVars, IInv, TypeOK, SendsAnswerTicks, InLoop,
        AtMostOneExtra, Owed
  <1>2. IInv /\ BrokenPipe => IInv'
    BY TimerAssumption
    DEF BrokenPipe, IInv, TypeOK, SendsAnswerTicks, InLoop, AtMostOneExtra, Owed
  <1> QED
    BY <1>1, <1>2

(* main tests its loop condition.                                          *)
LEMMA TestCountStep == IInv /\ TestCount => IInv'
  BY TimerAssumption
  DEF TestCount, LoopGoesOn, IInv, TypeOK, SendsAnswerTicks, InLoop,
      AtMostOneExtra, Owed

(* main tests the indicator.                                               *)
LEMMA TestIndicatorStep == IInv /\ TestIndicator => IInv'
  BY TimerAssumption
  DEF TestIndicator, IInv, TypeOK, SendsAnswerTicks, InLoop, AtMostOneExtra, Owed

(* main begins a call of send_test_image.                                  *)
LEMMA ReadImageStep == IInv /\ ReadImage => IInv'
  <1> SUFFICES ASSUME IInv, ReadImage PROVE IInv'
    OBVIOUS
  <1> USE TimerAssumption DEF ReadImage, IInv
  <1>1. image' \in 0 .. Images
    BY DEF TypeOK
  <1>2. /\ sent' \in Seq([image : 0 .. Images, how : Outcome])
        /\ Len(sent') = Len(sent) + 1
        /\ Len(sent) \in Nat
    BY <1>1 DEF TypeOK, Outcome
  <1>3. TypeOK'
    BY <1>1, <1>2 DEF TypeOK
  <1>4. SendsAnswerTicks' /\ InLoop' /\ AtMostOneExtra'
    BY <1>2 DEF TypeOK, SendsAnswerTicks, InLoop, AtMostOneExtra, Owed
  <1> QED
    BY <1>3, <1>4

(* A write() of the call ends, or the call gives up.                       *)
LEMMA WriteStep ==
  IInv /\ (HeaderWritten \/ DataWritten \/ SendFails) => IInv'
  <1> SUFFICES ASSUME IInv, HeaderWritten \/ DataWritten \/ SendFails PROVE IInv'
    OBVIOUS
  <1> USE TimerAssumption DEF IInv
  <1>1. Len(sent) > 0
    BY DEF HeaderWritten, DataWritten, SendFails, InLoop
  <1>2. UNCHANGED sent \/ \E how \in Outcome : Result(how)
    BY DEF HeaderWritten, DataWritten, SendFails, Outcome
  <1>3. /\ sent' \in Seq([image : 0 .. Images, how : Outcome])
        /\ Len(sent') = Len(sent)
        /\ Len(sent) \in Nat
    BY <1>1, <1>2, ResultFacts DEF TypeOK
  <1>4. /\ pc \in {"header", "data"} /\ pc' \in {"data", "clear"}
        /\ interrupted' = FALSE
        /\ UNCHANGED <<count1, send_indicator, image_counter, image, pending,
                       connection>>
    BY DEF HeaderWritten, DataWritten, SendFails
  <1>5. TypeOK'
    BY <1>3, <1>4 DEF TypeOK
  <1>6. SendsAnswerTicks' /\ InLoop' /\ AtMostOneExtra'
    BY <1>1, <1>3, <1>4
    DEF TypeOK, SendsAnswerTicks, InLoop, AtMostOneExtra, Owed
  <1> QED
    BY <1>5, <1>6

(* main clears the indicator, counts the image and stops the timers.       *)
LEMMA AfterSendStep ==
  IInv /\ (ClearIndicator \/ CountImage \/ StopTimers) => IInv'
  <1> SUFFICES ASSUME IInv, ClearIndicator \/ CountImage \/ StopTimers PROVE IInv'
    OBVIOUS
  <1> USE TimerAssumption DEF IInv
  <1>1. CASE ClearIndicator
    BY <1>1 DEF ClearIndicator, TypeOK, SendsAnswerTicks, InLoop,
       AtMostOneExtra, Owed
  <1>2. CASE CountImage
    BY <1>2 DEF CountImage, TypeOK, SendsAnswerTicks, InLoop,
       AtMostOneExtra, Owed
  <1>3. CASE StopTimers
    BY <1>3 DEF StopTimers, TypeOK, SendsAnswerTicks, InLoop,
       AtMostOneExtra, Owed
  <1> QED
    BY <1>1, <1>2, <1>3

(* IInv is an inductive invariant of the timer program.                    *)
THEOREM Inductive == Spec => []IInv
  <1>1. IInv /\ [Next]_vars => IInv'
    <2> SUFFICES ASSUME IInv, [Next]_vars PROVE IInv'
      OBVIOUS
    <2>1. ASSUME NEW t \in {1, 2}, Expire(t) PROVE IInv'
      BY <2>1, ExpireStep
    <2>2. ASSUME NEW t \in {1, 2}, timer_callback(t) PROVE IInv'
      BY <2>2, timer_callbackStep
    <2>3. CASE MainStep
      BY <2>3, TestCountStep, TestIndicatorStep, ReadImageStep, WriteStep,
         AfterSendStep, LossStep DEF MainStep
    <2>5. CASE LoseConnection
      BY <2>5, LossStep
    <2>4. CASE UNCHANGED vars
      BY <2>4 DEF vars, IInv, TypeOK, SendsAnswerTicks, InLoop,
         AtMostOneExtra, Owed
    <2> QED
      BY <2>1, <2>2, <2>3, <2>4, <2>5 DEF Next, Ended
  <1> QED
    BY InitIInv, <1>1, PTL DEF Spec

(* Every variable of the timer program keeps its type.                     *)
THEOREM TypeCorrect == Spec => []TypeOK
  <1>1. IInv => TypeOK
    BY DEF IInv
  <1> QED
    BY Inductive, <1>1, PTL

(* However the signal handler interleaves with main, no tick of the timer  *)
(* is answered by two calls of send_test_image.                            *)
THEOREM TicksAnsweredOnce == Spec => []SendsAnswerTicks
  <1>1. IInv => SendsAnswerTicks
    BY DEF IInv
  <1> QED
    BY Inductive, <1>1, PTL

(* main sends at most one image more than its loop bound says.             *)
THEOREM LoopBounded == Spec => []AtMostOneExtra
  <1>1. IInv => AtMostOneExtra
    BY DEF IInv
  <1> QED
    BY Inductive, <1>1, PTL

-----------------------------------------------------------------------------
(* The turn of the images: image_counter is the remainder of the calls     *)
(* that have been counted.                                                 *)

InCall == pc \in {"header", "data", "clear", "count", "killed"}
Counted == IF InCall THEN Len(sent) - 1 ELSE Len(sent)

(* main's buffer holds what the last call was given.                       *)
BufferInv == image = IF Len(sent) = 0 THEN 0 ELSE sent[Len(sent)].image

TurnInv ==
  /\ InCall => Len(sent) > 0
  /\ image_counter = (Counted % Images) + 1
  /\ BufferInv
  /\ ImagesInTurn

(* Quotient and remainder, and the remainder of the next number.           *)
LEMMA Division ==
  ASSUME NEW n \in Nat, NEW k \in Nat \ {0}
  PROVE  n = (k * (n \div k)) + (n % k) /\ n % k \in 0 .. k - 1 /\ n \div k \in Int
  <1>1. n % k \in 0 .. k - 1
    OBVIOUS
  <1>2. n \div k \in Int
    OBVIOUS
  <1>3. n = (k * (n \div k)) + (n % k)
    OBVIOUS
  <1> QED
    BY <1>1, <1>2, <1>3

LEMMA Remainder ==
  ASSUME NEW k \in Nat \ {0}, NEW q \in Int, NEW r \in 0 .. k - 1
  PROVE  ((k * q) + r) % k = r
  OBVIOUS

LEMMA NextRemainder ==
  ASSUME NEW n \in Nat, NEW k \in Nat \ {0}
  PROVE  (n + 1) % k = IF (n % k) + 1 = k THEN 0 ELSE (n % k) + 1
  <1> DEFINE q == n \div k
             r == n % k
  <1>1. n = (k * q) + r /\ r \in 0 .. k - 1 /\ q \in Int
    BY Division
  <1> HIDE DEF q, r
  <1>2. CASE r + 1 = k
    <2>1. n + 1 = (k * (q + 1)) + 0
      BY <1>1, <1>2
    <2>2. ((k * (q + 1)) + 0) % k = 0
      BY <1>1, Remainder
    <2> QED
      BY <2>1, <2>2, <1>2 DEF r
  <1>3. CASE r + 1 # k
    <2>1. n + 1 = (k * q) + (r + 1)
      BY <1>1, <1>3
    <2>2. ((k * q) + (r + 1)) % k = r + 1
      BY <1>1, <1>3, Remainder
    <2> QED
      BY <2>1, <2>2, <1>3 DEF r
  <1> QED
    BY <1>2, <1>3

(* Recording how a call went keeps the image it was for.                   *)
LEMMA ResultKeepsImages ==
  ASSUME TypeOK, Len(sent) > 0, NEW how, Result(how)
  PROVE  /\ Len(sent') = Len(sent)
         /\ \A i \in 1 .. Len(sent) : sent'[i].image = sent[i].image
  <1>1. sent \in Seq([image : 0 .. Images, how : Outcome]) /\ Len(sent) \in Nat
    BY DEF TypeOK
  <1>2. Len(sent') = Len(sent)
    BY <1>1 DEF Result
  <1>3. ASSUME NEW i \in 1 .. Len(sent)
        PROVE  sent'[i].image = sent[i].image
    <2>1. sent[i] \in [image : 0 .. Images, how : Outcome]
      BY <1>1, <1>3, ElementOfSeq
    <2>2. CASE i = Len(sent)
      BY <1>1, <2>1, <2>2 DEF Result
    <2>3. CASE i # Len(sent)
      BY <1>1, <1>3, <2>3 DEF Result
    <2> QED
      BY <2>2, <2>3
  <1> QED
    BY <1>2, <1>3

(* Every step but the beginning and the end of a call keeps the turn.      *)
LEMMA QuietTurn ==
  ASSUME IInv, TurnInv, UNCHANGED <<image_counter, image, sent>>, InCall' = InCall
  PROVE  TurnInv'
  BY DEF TurnInv, Counted, BufferInv, ImagesInTurn

LEMMA ReadImageTurn == ASSUME IInv, TurnInv, ReadImage PROVE TurnInv'
  <1> USE DEF ReadImage
  <1>1. sent \in Seq([image : 0 .. Images, how : Outcome]) /\ Len(sent) \in Nat
    BY DEF IInv, TypeOK
  <1>2. /\ Len(sent') = Len(sent) + 1
        /\ sent'[Len(sent) + 1].image = image'
        /\ \A i \in 1 .. Len(sent) : sent'[i] = sent[i]
    BY <1>1
  <1>3. Counted = Len(sent) /\ Counted' = Len(sent)
    BY <1>1, <1>2 DEF Counted, InCall
  <1>4. image_counter = Turn(Len(sent) + 1)
    BY <1>1, <1>3 DEF TurnInv, Turn
  <1>5. ASSUME NEW i \in 1 .. Len(sent')
        PROVE  sent'[i].image = IF Turn(i) \in Files THEN Turn(i)
                                ELSE IF i = 1 THEN 0 ELSE sent'[i - 1].image
    <2>1. CASE i \in 1 .. Len(sent)
      <3>1. i = 1 \/ i - 1 \in 1 .. Len(sent)
        BY <1>1, <2>1
      <3> QED
        BY <1>2, <2>1, <3>1 DEF TurnInv, ImagesInTurn
    <2>2. CASE i = Len(sent) + 1
      <3>1. image' = IF Turn(i) \in Files THEN Turn(i) ELSE image
        BY <1>4, <2>2
      <3>2. image = IF i = 1 THEN 0 ELSE sent'[i - 1].image
        BY <1>1, <1>2, <2>2 DEF TurnInv, BufferInv
      <3> QED
        BY <1>2, <2>2, <3>1, <3>2
    <2> QED
      BY <1>1, <1>2, <1>5, <2>1, <2>2
  <1>6. BufferInv'
    BY <1>1, <1>2 DEF BufferInv
  <1>7. (InCall => Len(sent) > 0)' /\ (image_counter = (Counted % Images) + 1)'
    BY <1>1, <1>2, <1>3 DEF TurnInv
  <1> QED
    BY <1>5, <1>6, <1>7 DEF TurnInv, ImagesInTurn, Turn

LEMMA WriteTurn ==
  ASSUME IInv, TurnInv, HeaderWritten \/ DataWritten \/ SendFails
  PROVE  TurnInv'
  <1>1. InCall /\ InCall' /\ UNCHANGED <<image_counter, image>>
    BY DEF HeaderWritten, DataWritten, SendFails, InCall
  <1>2. Len(sent) > 0 /\ TypeOK
    BY <1>1 DEF IInv, TurnInv
  <1>3. UNCHANGED sent \/ \E how \in Outcome : Result(how)
    BY DEF HeaderWritten, DataWritten, SendFails, Outcome
  <1>4. /\ Len(sent') = Len(sent) /\ Len(sent) \in Nat
        /\ \A i \in 1 .. Len(sent) : sent'[i].image = sent[i].image
    BY <1>2, <1>3, ResultKeepsImages DEF TypeOK
  <1>5. Counted' = Counted
    BY <1>1, <1>4 DEF Counted
  <1>6. BufferInv'
    BY <1>1, <1>2, <1>4 DEF TurnInv, BufferInv
  <1>7. ImagesInTurn'
    <2>1. \A i \in 1 .. Len(sent) : i = 1 \/ i - 1 \in 1 .. Len(sent)
      BY <1>4
    <2> QED
      BY <1>4, <2>1 DEF TurnInv, ImagesInTurn
  <1> QED
    BY <1>1, <1>2, <1>5, <1>4, <1>6, <1>7 DEF TurnInv

LEMMA CountImageTurn == ASSUME IInv, TurnInv, CountImage PROVE TurnInv'
  <1> USE TimerAssumption DEF CountImage
  <1>1. Len(sent) \in Nat /\ Len(sent) > 0 /\ sent' = sent /\ InCall /\ ~ InCall'
    BY DEF IInv, TypeOK, TurnInv, InCall
  <1>2. Counted = Len(sent) - 1 /\ Counted' = Len(sent)
    BY <1>1 DEF Counted
  <1> DEFINE n == Len(sent) - 1
  <1>3. n \in Nat /\ n + 1 = Len(sent) /\ image_counter = (n % Images) + 1
    BY <1>1, <1>2 DEF TurnInv
  <1>4. n % Images \in 0 .. Images - 1
    BY <1>3, Division
  <1>5. Len(sent) % Images = IF (n % Images) + 1 = Images THEN 0 ELSE (n % Images) + 1
    <2> HIDE DEF n
    <2>1. (n + 1) % Images = IF (n % Images) + 1 = Images THEN 0 ELSE (n % Images) + 1
      BY <1>3, NextRemainder
    <2> QED
      BY <1>3, <2>1
  <1> HIDE DEF n
  <1>6. image_counter' = (Len(sent) % Images) + 1
    BY <1>3, <1>4, <1>5
  <1> QED
    BY <1>1, <1>2, <1>6 DEF TurnInv, BufferInv, ImagesInTurn

LEMMA TurnInvariant == Spec => []TurnInv
  <1>1. Init => TurnInv
    <2>1. 0 % Images = 0
      BY TimerAssumption, Remainder
    <2> QED
      BY <2>1 DEF Init, TurnInv, Counted, InCall, BufferInv, ImagesInTurn
  <1>2. IInv /\ TurnInv /\ [Next]_vars => TurnInv'
    <2> SUFFICES ASSUME IInv, TurnInv, [Next]_vars PROVE TurnInv'
      OBVIOUS
    <2>1. ASSUME NEW t \in {1, 2}, Expire(t) \/ timer_callback(t) PROVE TurnInv'
      <3>1. UNCHANGED <<image_counter, image, sent>> /\ InCall' = InCall
        BY <2>1 DEF Expire, timer_callback, mainVars, InCall
      <3> QED
        BY <3>1, QuietTurn
    <2>2. CASE \/ TestCount \/ TestIndicator \/ ClearIndicator \/ StopTimers
               \/ BrokenPipe \/ LoseConnection
      <3>1. UNCHANGED <<image_counter, image, sent>> /\ InCall' = InCall
        BY <2>2 DEF TestCount, TestIndicator, ClearIndicator, StopTimers, BrokenPipe,
                    LoseConnection, mainVars, InCall
      <3> QED
        BY <3>1, QuietTurn
    <2>3. CASE MainStep
      BY <2>2, <2>3, ReadImageTurn, WriteTurn, CountImageTurn DEF MainStep
    <2>4. CASE UNCHANGED vars
      BY <2>4, QuietTurn DEF vars, InCall
    <2> QED
      BY <2>1, <2>2, <2>3, <2>4 DEF Next, Ended
  <1> QED
    BY Inductive, <1>1, <1>2, PTL DEF Spec

(* The images go out in turn: the counter starts over behind the last one, *)
(* no tick and no failure of a send makes it skip or repeat one, and an    *)
(* image without a file leaves its turn to the one sent before.            *)
THEOREM ImagesInTurnCorrect == Spec => []ImagesInTurn
  <1>1. TurnInv => ImagesInTurn
    BY DEF TurnInv
  <1> QED
    BY TurnInvariant, <1>1, PTL

(* What the comment in main wants: with at least one image more than the   *)
(* loop bound, and a file for each, no image is ever sent twice.           *)
THEOREM OnceWithEnoughImages ==
  ASSUME LastCount < Images, Files = 1 .. Images
  PROVE  Spec => []NoImageTwice
  <1>1. IInv /\ TurnInv => NoImageTwice
    <2> SUFFICES ASSUME IInv, TurnInv,
                        NEW i \in 1 .. Len(sent), NEW j \in 1 .. Len(sent),
                        sent[i].image = sent[j].image
                 PROVE  i = j
      BY DEF NoImageTwice
    <2>1. Len(sent) \in Nat /\ Len(sent) <= Images
      BY TimerAssumption DEF IInv, TypeOK, AtMostOneExtra
    <2>2. ASSUME NEW k \in 1 .. Len(sent) PROVE sent[k].image = k
      <3>1. k - 1 \in 0 .. Images - 1
        BY <2>1, TimerAssumption
      <3>2. (k - 1) % Images = k - 1
        BY <3>1, TimerAssumption
      <3>3. Turn(k) = k /\ k \in Files
        BY <2>1, <3>2, TimerAssumption DEF Turn
      <3> QED
        BY <3>3 DEF TurnInv, ImagesInTurn
    <2> QED
      BY <2>2
  <1> QED
    BY Inductive, TurnInvariant, <1>1, PTL

-----------------------------------------------------------------------------
(* The refinement of TickService.                                          *)

(* The calls as the service has them.                                      *)
Calls ==
  [i \in 1 .. Len(sent) |->
     IF i = Len(sent) /\ CallUnderWay
       THEN [image |-> sent[i].image, how |-> "open"] ELSE sent[i]]

(* When main clears the indicator, the call it has made has its outcome.   *)
SettledInv == pc = "clear" => sent[Len(sent)].how \in {"whole", "torn", "failed"}

LEMMA SettledStep ==
  ASSUME IInv, SettledInv, [Next]_vars
  PROVE  SettledInv'
  <1>1. CASE DataWritten \/ SendFails
    <2>1. Len(sent) > 0 /\ sent \in Seq([image : 0 .. Images, how : Outcome])
      BY <1>1 DEF DataWritten, SendFails, IInv, TypeOK, InLoop
    <2>2. PICK how \in {"whole", "torn", "failed"} : Result(how)
      BY <1>1 DEF DataWritten, SendFails
    <2>3. Len(sent') = Len(sent) /\ Len(sent) \in 1 .. Len(sent)
      BY <2>1, <2>2 DEF Result
    <2>4. sent[Len(sent)] \in [image : 0 .. Images, how : Outcome]
      BY <2>1, <2>3, ElementOfSeq
    <2>5. sent'[Len(sent')].how = how
      BY <2>1, <2>2, <2>3, <2>4 DEF Result
    <2> QED
      BY <2>5 DEF SettledInv
  <1>2. CASE pc' # "clear"
    BY <1>2 DEF SettledInv
  <1>3. CASE pc' = pc /\ sent' = sent
    BY <1>3 DEF SettledInv
  <1> QED
    BY <1>1, <1>2, <1>3
    DEF Next, MainStep, Ended, vars, Expire, timer_callback, mainVars, TestCount,
        TestIndicator, ReadImage, HeaderWritten, ClearIndicator, CountImage, StopTimers,
        BrokenPipe, LoseConnection

LEMMA SettledInvariant == Spec => []SettledInv
  <1>1. Init => SettledInv
    BY DEF Init, SettledInv
  <1> QED
    BY Inductive, SettledStep, <1>1, PTL DEF Spec

(* The service sees a call under way exactly when main is in one.          *)
LEMMA CallsFacts ==
  ASSUME IInv, TurnInv
  PROVE  /\ Len(sent) \in Nat
         /\ sent \in Seq([image : 0 .. Images, how : Outcome])
         /\ \A i \in 1 .. Len(sent) : sent[i] \in [image : 0 .. Images, how : Outcome]
         /\ Len(Calls) = Len(sent)
         /\ \A i \in 1 .. Len(sent) : Calls[i].image = sent[i].image
         /\ Answers!UnderWay <=> CallUnderWay
  <1>1. sent \in Seq([image : 0 .. Images, how : Outcome]) /\ Len(sent) \in Nat
    BY DEF IInv, TypeOK
  <1>2. \A i \in 1 .. Len(sent) : sent[i] \in [image : 0 .. Images, how : Outcome]
    BY <1>1, ElementOfSeq
  <1>3. Len(Calls) = Len(sent)
    BY <1>1 DEF Calls
  <1>4. \A i \in 1 .. Len(sent) : Calls[i].image = sent[i].image
    BY DEF Calls
  <1>5. Calls # <<>> <=> Len(sent) > 0
    <2> DEFINE S == {Calls[i] : i \in 1 .. Len(sent)}
    <2>1. Calls \in [1 .. Len(sent) -> S]
      BY DEF Calls
    <2> HIDE DEF S
    <2>2. Calls \in Seq(S)
      BY <1>1, <2>1, SeqDef
    <2> QED
      BY <1>3, <2>2, EmptySeq
  <1>6. CallUnderWay => Len(sent) > 0
    BY DEF CallUnderWay, TurnInv, InCall
  <1>7. ASSUME Len(sent) > 0
        PROVE  Calls[Len(sent)].how = "open" <=> CallUnderWay
    <2>1. Len(sent) \in 1 .. Len(sent) /\ sent[Len(sent)].how # "open"
      BY <1>1, <1>2, <1>7 DEF Outcome
    <2> QED
      BY <2>1 DEF Calls
  <1>8. Answers!UnderWay <=> Calls # <<>> /\ Calls[Len(Calls)].how = "open"
    BY DEF Answers!UnderWay, Calls
  <1> QED
    BY <1>1, <1>2, <1>3, <1>4, <1>5, <1>6, <1>7, <1>8

(* Where main neither begins nor settles a call, the service stutters.     *)
LEMMA CallsStutter ==
  ASSUME UNCHANGED <<count1, sent>>, Owed' = Owed, CallUnderWay' = CallUnderWay
  PROVE  UNCHANGED <<count1, Owed, Calls>>
  BY DEF Calls

LEMMA TickRefines ==
  ASSUME IInv, TurnInv, NEW t \in {1, 2}, timer_callback(t)
  PROVE  [Answers!ServiceNext]_<<count1, Owed, Calls>>
  <1> USE DEF timer_callback, mainVars
  <1>1. Calls' = Calls
    BY DEF Calls, CallUnderWay
  <1>2. CASE t = 1
    <2>1. count1' = count1 + 1 /\ Owed' = ~CallUnderWay
      BY <1>2 DEF Owed, CallUnderWay, IInv, TypeOK
    <2>2. Owed' = ~Answers!UnderWay
      BY <2>1, CallsFacts
    <2>3. Answers!Tick
      BY <1>1, <2>1, <2>2 DEF Answers!Tick, Calls
    <2> QED
      BY <2>3 DEF Answers!ServiceNext
  <1>3. CASE t # 1
    BY <1>1, <1>3 DEF Owed
  <1> QED
    BY <1>2, <1>3

LEMMA BeginRefines ==
  ASSUME IInv, TurnInv, ReadImage
  PROVE  Answers!Begin
  <1> USE DEF ReadImage
  <1> DEFINE n == Len(sent)
             new == [image |-> image', how |-> "open"]
  <1>1. /\ n \in Nat /\ Len(sent') = n + 1
        /\ sent'[n + 1].image = image'
        /\ \A i \in 1 .. n : sent'[i] = sent[i]
    BY CallsFacts
  <1>2. Calls = sent /\ ~CallUnderWay /\ CallUnderWay'
    BY CallsFacts DEF Calls, CallUnderWay
  <1>3. Calls' = Append(sent, new)
    BY <1>1, <1>2, CallsFacts DEF Calls
  <1>4. image_counter = (n % Images) + 1
    BY <1>1 DEF TurnInv, Counted, InCall
  <1>5. image' = Answers!ImageOf(n)
    <2>1. image = IF n = 0 THEN 0 ELSE Calls[n].image
      BY <1>2 DEF TurnInv, BufferInv
    <2>2. image' = IF (n % Images) + 1 \in Files THEN (n % Images) + 1 ELSE image
      BY <1>4
    <2> HIDE DEF n, ReadImage
    <2> QED
      BY <2>1, <2>2 DEF Answers!ImageOf, Calls
  <1>6. Owed /\ ~Owed' /\ n < LastCount + 1 /\ UNCHANGED count1
    BY <1>1, TimerAssumption DEF Owed, IInv, InLoop
  <1>7. ~Answers!UnderWay /\ Len(Calls) = n
    BY <1>2, CallsFacts
  <1>8. Calls' = Append(Calls, [image |-> Answers!ImageOf(Len(Calls)), how |-> "open"])
    BY <1>2, <1>3, <1>5, <1>7
  <1>9. Owed' = FALSE
    BY <1>6 DEF Owed
  <1> HIDE DEF n, ReadImage
  <1> QED
    BY <1>6, <1>7, <1>8, <1>9 DEF Answers!Begin, Calls

LEMMA EndRefines ==
  ASSUME IInv, TurnInv, SettledInv, ClearIndicator
  PROVE  Answers!End
  <1> USE DEF ClearIndicator
  <1> DEFINE n == Len(sent)
             how == sent[n].how
  <1>1. n > 0 /\ CallUnderWay /\ ~CallUnderWay'
    BY DEF TurnInv, InCall, CallUnderWay
  <1>2. how \in {"whole", "torn", "failed"}
    BY DEF SettledInv
  <1>3. Calls' = [Calls EXCEPT ![n].how = how]
    <2>1. n \in 1 .. n /\ sent[n] \in [image : 0 .. Images, how : Outcome]
      BY <1>1, CallsFacts
    <2>2. [[image |-> sent[n].image, how |-> "open"] EXCEPT !.how = how] = sent[n]
      BY <2>1
    <2>3. Calls' = [i \in 1 .. n |-> sent[i]]
      BY <1>1 DEF Calls
    <2> QED
      BY <1>1, <2>1, <2>2, <2>3 DEF Calls
  <1>4. Answers!UnderWay /\ Len(Calls) = n
    BY <1>1, CallsFacts
  <1>5. Owed = FALSE /\ Owed' = FALSE /\ UNCHANGED count1
    BY DEF Owed
  <1>6. Calls' = [Calls EXCEPT ![Len(Calls)].how = how]
    BY <1>3, <1>4
  <1> HIDE DEF n, how, ClearIndicator
  <1> QED
    BY <1>2, <1>4, <1>5, <1>6 DEF Answers!End, Calls

(* A write() settles how the call will be seen to have gone, but not yet.  *)
LEMMA WriteRefines ==
  ASSUME IInv, TurnInv, HeaderWritten \/ DataWritten \/ SendFails
  PROVE  UNCHANGED <<count1, Owed, Calls>>
  <1>1. /\ CallUnderWay /\ CallUnderWay' /\ UNCHANGED count1
        /\ Owed = FALSE /\ Owed' = FALSE
    BY DEF HeaderWritten, DataWritten, SendFails, CallUnderWay, Owed
  <1>2. Len(sent) > 0 /\ TypeOK /\ sent \in Seq([image : 0 .. Images, how : Outcome])
    BY <1>1, CallsFacts DEF IInv, TurnInv, InCall, CallUnderWay
  <1>3. UNCHANGED sent \/ \E how \in Outcome : Result(how)
    BY DEF HeaderWritten, DataWritten, SendFails, Outcome
  <1>4. /\ Len(sent') = Len(sent)
        /\ \A i \in 1 .. Len(sent) : sent'[i].image = sent[i].image
    BY <1>2, <1>3, ResultKeepsImages
  <1>5. \A i \in 1 .. Len(sent) : i # Len(sent) => sent'[i] = sent[i]
    BY <1>2, <1>3 DEF Result
  <1>6. Calls' = Calls
    BY <1>1, <1>4, <1>5 DEF Calls
  <1> QED
    BY <1>1, <1>6

(* Whatever the signals do to it, the program is a service that answers    *)
(* ticks: one call after the other, each for a tick that came after the    *)
(* call before it was over, each with the image whose turn it is.          *)
THEOREM Refinement == Spec => ImplementsTicks
  <1>1. Init => Answers!ServiceInit
    <2> SUFFICES ASSUME Init PROVE Answers!ServiceInit
      OBVIOUS
    <2>1. count1 = 0 /\ Owed = FALSE /\ sent = <<>> /\ Len(sent) = 0
      BY DEF Init, Owed
    <2>2. Calls = <<>>
      BY <2>1 DEF Calls
    <2> QED
      BY <2>1, <2>2 DEF Answers!ServiceInit, Calls
  <1>2. IInv /\ TurnInv /\ SettledInv /\ [Next]_vars
          => [Answers!ServiceNext]_<<count1, Owed, Calls>>
    <2> SUFFICES ASSUME IInv, TurnInv, SettledInv, [Next]_vars
                 PROVE  [Answers!ServiceNext]_<<count1, Owed, Calls>>
      OBVIOUS
    <2>1. ASSUME NEW t \in {1, 2}, timer_callback(t)
          PROVE  [Answers!ServiceNext]_<<count1, Owed, Calls>>
      BY <2>1, TickRefines
    <2>2. CASE ReadImage
      BY <2>2, BeginRefines DEF Answers!ServiceNext
    <2>3. CASE ClearIndicator
      BY <2>3, EndRefines DEF Answers!ServiceNext
    <2>4. CASE HeaderWritten \/ DataWritten \/ SendFails
      BY <2>4, WriteRefines
    <2>5. CASE \/ \E t \in {1, 2} : Expire(t)
               \/ TestCount \/ TestIndicator \/ CountImage \/ StopTimers
               \/ BrokenPipe \/ LoseConnection
               \/ UNCHANGED vars
      <3>1. UNCHANGED <<count1, sent>> /\ Owed' = Owed /\ CallUnderWay' = CallUnderWay
        BY <2>5
        DEF Expire, mainVars, TestCount, TestIndicator, CountImage, StopTimers,
            BrokenPipe, LoseConnection, vars, Owed, CallUnderWay
      <3> QED
        BY <3>1, CallsStutter
    <2> QED
      BY <2>1, <2>2, <2>3, <2>4, <2>5 DEF Next, MainStep, Ended
  <1> QED
    BY <1>1, <1>2, Inductive, TurnInvariant, SettledInvariant, PTL
    DEF Spec, ImplementsTicks, Answers!ServiceSpec, Answers!serviceVars, Calls
=============================================================================

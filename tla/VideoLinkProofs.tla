-------------------------- MODULE VideoLinkProofs --------------------------
(***************************************************************************)
(* Theorems about VideoLink, for all header lengths, buffer sizes, picture *)
(* sizes and numbers of pictures.                                          *)
(***************************************************************************)
EXTENDS VideoLinkInv, Integers, TLAPS

-----------------------------------------------------------------------------
(* Facts about the layout of the stream.                                   *)

(* Headers and the ends of messages are positions in the stream.           *)
LEMMA HeaderFacts ==
  ASSUME TypeOK
  PROVE  /\ image_counter \in Nat
         /\ HeaderLength \in Nat /\ HeaderLength > 0
         /\ \A k \in 1 .. image_counter :
               /\ headers[k].at \in Nat
               /\ headers[k].len \in Nat
               /\ EndOf(k) = headers[k].at + HeaderLength + headers[k].len
         /\ EndOf(0) = 0
         /\ \A k \in 0 .. image_counter : EndOf(k) \in Nat
<1>1. image_counter \in Nat /\ \A k \in 1 .. image_counter : headers[k] \in Header
  BY DEF TypeOK, ConnTypeOK, image_counter
<1>2. HeaderLength \in Nat /\ HeaderLength > 0
  BY ConnAssumption DEF ConnAssumption
<1>3. \A k \in 1 .. image_counter : headers[k].at \in Nat /\ headers[k].len \in Nat
  BY <1>1 DEF Header
<1>4. QED
  BY <1>1, <1>2, <1>3 DEF EndOf

(* With the headers unchanged, messages end where they did.                *)
LEMMA EndOfUnchanged ==
  ASSUME UNCHANGED headers
  PROVE  /\ image_counter' = image_counter
         /\ \A k : EndOf(k)' = EndOf(k)
BY DEF EndOf, image_counter

(* Until a fault, no more pictures are shown than were taken.              *)
LEMMA ShownCount ==
  ASSUME TypeOK, ShownInv, AlignInv, faults = {}
  PROVE  Len(shown) \in 0 .. image_counter
<1>1. Len(shown) \in Nat /\ image_counter \in Nat
  BY HeaderFacts DEF TypeOK, ServerTypeOK
<1>2. CASE Len(shown) > 0
  <2>1. Len(shown) \in 1 .. Len(shown)
    BY <1>1, <1>2
  <2>2. shown[Len(shown)] = Len(shown) /\ shown[Len(shown)] \in 1 .. image_counter
    BY <2>1 DEF ShownInv, AlignInv
  <2>3. QED
    BY <1>1, <2>2
<1>3. QED
  BY <1>1, <1>2

-----------------------------------------------------------------------------
(* The steps of the network and of the client.                             *)

(* The network only adds to what can be read.                              *)
LEMMA ArriveStep ==
  ASSUME IInv, Arrive, UNCHANGED <<clientVars, serverVars>>
  PROVE  IInv'
<1> USE DEF Arrive, clientVars, serverVars
<1>1. TypeOK'
  BY DEF IInv, TypeOK, ConnTypeOK, ClientTypeOK, ServerTypeOK
<1>2. EndsInv'
  BY DEF IInv, EndsInv, ClientEnded, ServerEnded, Writing, image_counter
<1>3. StreamInv'
  BY DEF IInv, StreamInv, TypeOK, ConnTypeOK
<1>4. LayoutInv' /\ WriterInv' /\ ShownInv'
  BY EndOfUnchanged DEF IInv, LayoutInv, WriterInv, ShownInv
<1>5. DataInv' /\ OverrunBound' /\ AlignInv' /\ AnswersInv'
  BY EndOfUnchanged DEF IInv, DataInv, OverrunBound, AlignInv, AnswersInv
<1>6. QED
  BY <1>1, <1>2, <1>3, <1>4, <1>5 DEF IInv

(* The arrival of an answer can end an orderly close in a reset.           *)
LEMMA ReplyArrivesStep ==
  ASSUME IInv, ReplyArrives, UNCHANGED <<clientVars, serverVars>>
  PROVE  IInv'
<1> USE DEF clientVars, serverVars
<1>1. /\ UNCHANGED <<headers, written, arrived, taken, serverEnd, replies>>
      /\ \/ clientEnd = "open" /\ clientEnd' = "open" /\ delivered' = delivered + 1
         \/ clientEnd = "fin" /\ clientEnd' = "rst" /\ delivered' = delivered
  BY DEF ReplyArrives
<1>2. TypeOK'
  BY <1>1 DEF IInv, TypeOK, ConnTypeOK, ClientTypeOK, ServerTypeOK
<1>3. image_counter' = image_counter /\ \A k : EndOf(k)' = EndOf(k)
  BY <1>1, EndOfUnchanged
<1>4. EndsInv'
  BY <1>1, <1>3 DEF IInv, EndsInv, ClientEnded, ServerEnded, Writing
<1>5. StreamInv' /\ LayoutInv' /\ WriterInv'
  BY <1>1, <1>3 DEF IInv, StreamInv, LayoutInv, WriterInv
<1>6. ShownInv' /\ DataInv' /\ OverrunBound' /\ AlignInv' /\ AnswersInv'
  BY <1>1, <1>3 DEF IInv, ShownInv, DataInv, OverrunBound, AlignInv, AnswersInv
<1>7. QED
  BY <1>2, <1>4, <1>5, <1>6 DEF IInv

(* A new header is put at the end of the stream, behind every message so   *)
(* far.                                                                    *)
LEMMA CaptureFrameStep ==
  ASSUME IInv, CaptureFrame, UNCHANGED serverVars
  PROVE  IInv'
<1> USE DEF serverVars
<1>1. PICK len \in FrameSizes :
        headers' = Append(headers, [at |-> written, len |-> len])
  BY DEF CaptureFrame
<1>0. PICK last \in Nat : last = image_counter + 1
  BY HeaderFacts DEF IInv
<1>2. /\ cpc = "capture" /\ cpc' = "header" /\ unsent' = HeaderLength
      /\ UNCHANGED <<written, arrived, taken, clientEnd, serverEnd, replies, delivered>>
  BY DEF CaptureFrame
<1>3. TypeOK /\ len \in Nat /\ written \in Nat /\ last = image_counter + 1
  BY <1>0, ClientAssumption DEF IInv, TypeOK, ConnTypeOK, ClientAssumption
<1>4. TypeOK'
  BY <1>1, <1>2, <1>3, ConnAssumption
     DEF TypeOK, ConnTypeOK, ClientTypeOK, ServerTypeOK, Header, ConnAssumption
<1>5. /\ image_counter' = last
      /\ \A k \in 1 .. image_counter : headers'[k] = headers[k]
      /\ headers'[last] = [at |-> written, len |-> len]
  BY <1>0, <1>1, <1>3 DEF TypeOK, ConnTypeOK, image_counter
<1>6. \A k \in 0 .. image_counter : EndOf(k)' = EndOf(k)
  <2> TAKE k \in 0 .. image_counter
  <2>1. k = 0 \/ k \in 1 .. image_counter
    BY <1>3, HeaderFacts
  <2>2. QED
    BY <2>1, <1>5 DEF EndOf
<1>7. EndOf(last)' = written + HeaderLength + len
  BY <1>3, <1>5, HeaderFacts DEF EndOf
<1>8. EndsInv'
  BY <1>2, <1>3, <1>5, HeaderFacts DEF IInv, EndsInv, ClientEnded, ServerEnded, Writing
<1>9. StreamInv'
  BY <1>2 DEF IInv, StreamInv
<1>10. LayoutInv'
  <2> SUFFICES ASSUME serverEnd = "open"
               PROVE  /\ \A k \in 1 .. last : headers'[k].at = EndOf(k - 1)'
                      /\ \A i, j \in 1 .. last : i < j => EndOf(i)' <= headers'[j].at
    BY <1>2, <1>5 DEF LayoutInv
  <2>1. LayoutInv /\ written = EndOf(image_counter)
    BY <1>2 DEF IInv, WriterInv
  <2>2. \A i \in 1 .. image_counter : EndOf(i) <= EndOf(image_counter)
    BY <2>1, <1>3, HeaderFacts DEF LayoutInv
  <2>3. ASSUME NEW k \in 1 .. last PROVE headers'[k].at = EndOf(k - 1)'
    <3>1. CASE k = last
      BY <3>1, <2>1, <1>3, <1>5, <1>6, HeaderFacts
    <3>2. CASE k \in 1 .. image_counter
      <4>1. k - 1 \in 0 .. image_counter
        BY <3>2, <1>3, HeaderFacts
      <4>2. QED
        BY <4>1, <3>2, <2>1, <1>5, <1>6 DEF LayoutInv
    <3>3. QED
      BY <3>1, <3>2, <1>3, HeaderFacts
  <2>4. ASSUME NEW i \in 1 .. last, NEW j \in 1 .. last, i < j
        PROVE  EndOf(i)' <= headers'[j].at
    <3>1. i \in 1 .. image_counter /\ EndOf(i)' = EndOf(i)
      BY <2>4, <1>3, <1>6, HeaderFacts
    <3>2. CASE j = last
      BY <3>1, <3>2, <2>1, <2>2, <1>5
    <3>3. CASE j \in 1 .. image_counter
      BY <3>1, <3>3, <2>1, <2>4, <1>5 DEF LayoutInv
    <3>4. QED
      BY <3>2, <3>3, <1>3, HeaderFacts
  <2>5. QED
    BY <2>3, <2>4
<1>11. WriterInv'
  BY <1>2, <1>3, <1>5, <1>7, HeaderFacts DEF WriterInv
<1>12. ShownInv'
  BY <1>2, <1>3, <1>5, <1>6, HeaderFacts DEF IInv, ShownInv
<1>13. DataInv'
  BY <1>2, <1>3, <1>5, HeaderFacts DEF IInv, DataInv
<1>14. OverrunBound'
  BY DEF IInv, OverrunBound
<1>15. AlignInv'
  <2>1. faults = {} => Len(shown) \in 0 .. image_counter
    BY <1>3, ShownCount DEF IInv
  <2>2. QED
    BY <2>1, <1>2, <1>6 DEF IInv, AlignInv
<1>16. AnswersInv'
  BY <1>2 DEF IInv, AnswersInv
<1>17. QED
  BY <1>4, <1>8, <1>9, <1>10, <1>11, <1>12, <1>13, <1>14, <1>15, <1>16 DEF IInv

(* A write() call brings the stream forward by bytes of the message it is  *)
(* for.                                                                    *)
LEMMA WriteBytesStep ==
  ASSUME IInv, NEW n \in 1 .. unsent, WriteBytes(n), UNCHANGED serverVars
  PROVE  IInv'
<1> USE DEF serverVars
<1>1. /\ Writing /\ clientEnd = "open"
      /\ written' = written + n
      /\ UNCHANGED <<headers, arrived, taken, clientEnd, serverEnd, replies, delivered>>
  BY DEF WriteBytes, CopyIn
<1>2. /\ TypeOK /\ n \in Nat /\ unsent \in Nat /\ written \in Nat
      /\ image_counter \in 1 .. image_counter
  BY <1>1, HeaderFacts DEF IInv, TypeOK, ConnTypeOK, ClientTypeOK, EndsInv
<1>3. \/ n < unsent /\ unsent' = unsent - n /\ UNCHANGED cpc
      \/ /\ n = unsent /\ cpc = "header" /\ headers[image_counter].len > 0
         /\ cpc' = "data" /\ unsent' = headers[image_counter].len
      \/ /\ n = unsent /\ (cpc = "data" \/ headers[image_counter].len = 0)
         /\ cpc' = "capture" /\ unsent' = 0
  BY <1>1, <1>2, HeaderFacts DEF WriteBytes, WriteReturns, Writing
<1>4. TypeOK'
  BY <1>1, <1>2, <1>3, HeaderFacts
     DEF TypeOK, ConnTypeOK, ClientTypeOK, ServerTypeOK, Writing
<1>5. image_counter' = image_counter /\ \A k : EndOf(k)' = EndOf(k)
  BY <1>1, EndOfUnchanged
<1>6. EndsInv'
  BY <1>1, <1>2, <1>3, <1>5 DEF IInv, EndsInv, ClientEnded, ServerEnded, Writing
<1>7. StreamInv'
  BY <1>1, <1>2 DEF IInv, StreamInv, TypeOK, ConnTypeOK
<1>8. LayoutInv'
  BY <1>1, <1>5 DEF IInv, LayoutInv
<1>9. WriterInv'
  <2> SUFFICES ASSUME serverEnd = "open" PROVE WriterInv'
    BY <1>1 DEF WriterInv
  <2> DEFINE at == headers[image_counter].at
             len == headers[image_counter].len
             end == EndOf(image_counter)
  <2>1. /\ WriterInv /\ at \in Nat /\ len \in Nat /\ HeaderLength \in Nat
        /\ end = at + HeaderLength + len
    BY <1>2, HeaderFacts DEF IInv
  <2>2. /\ written <= end /\ at <= written
        /\ cpc = "header" => written + unsent = at + HeaderLength
                              /\ unsent \in 1 .. HeaderLength
        /\ cpc = "data" => written + unsent = end /\ unsent \in 1 .. len
    BY <1>2, <2>1 DEF WriterInv
  <2>3. /\ written + n <= end /\ at <= written + n
        /\ cpc' = "capture" => written + n = end
        /\ cpc' = "header" => written + n + unsent' = at + HeaderLength
                               /\ unsent' \in 1 .. HeaderLength
        /\ cpc' = "data" => written + n + unsent' = end /\ unsent' \in 1 .. len
    <3>1. \/ n < unsent /\ unsent' = unsent - n /\ cpc' = cpc
          \/ n = unsent /\ cpc = "header" /\ cpc' = "data" /\ unsent' = len /\ len > 0
          \/ n = unsent /\ cpc = "header" /\ len = 0 /\ cpc' = "capture"
          \/ n = unsent /\ cpc = "data" /\ cpc' = "capture"
      BY <1>1, <1>3 DEF Writing
    <3>2. cpc \in {"header", "data"} /\ n >= 1
      BY <1>1 DEF Writing
    <3> HIDE DEF at, len, end
    <3>3. QED
      BY <3>1, <3>2, <1>2, <2>1, <2>2
  <2>4. QED
    BY <1>1, <1>5, <2>3 DEF WriterInv
<1>10. ShownInv' /\ DataInv' /\ OverrunBound' /\ AlignInv' /\ AnswersInv'
  BY <1>1, <1>5 DEF IInv, ShownInv, DataInv, OverrunBound, AlignInv, AnswersInv
<1>11. QED
  BY <1>4, <1>6, <1>7, <1>8, <1>9, <1>10 DEF IInv

(* Without a receiver the outcome of a write() call matters to the types   *)
(* only.                                                                   *)
LEMMA WriteAbandonedStep ==
  ASSUME IInv, WriteFails \/ WriteCutShort, UNCHANGED serverVars
  PROVE  IInv'
<1> USE DEF serverVars, connVars
<1>1. /\ Writing /\ serverEnd = "closed" /\ UNCHANGED connVars
      /\ \/ cpc' = "data" /\ unsent' = headers[image_counter].len
         \/ cpc' = "capture" /\ unsent' = 0
  BY DEF WriteFails, WriteCutShort, WriteReturns
<1>2. TypeOK /\ image_counter \in 1 .. image_counter
  BY <1>1, HeaderFacts DEF IInv, EndsInv
<1>3. TypeOK'
  BY <1>1, <1>2, HeaderFacts DEF TypeOK, ConnTypeOK, ClientTypeOK, ServerTypeOK
<1>4. image_counter' = image_counter /\ \A k : EndOf(k)' = EndOf(k)
  BY <1>1, EndOfUnchanged
<1>5. EndsInv'
  BY <1>1, <1>2, <1>4 DEF IInv, EndsInv, ClientEnded, ServerEnded, Writing
<1>6. StreamInv' /\ LayoutInv' /\ WriterInv'
  BY <1>1 DEF IInv, StreamInv, LayoutInv, WriterInv
<1>7. ShownInv' /\ DataInv' /\ OverrunBound' /\ AlignInv' /\ AnswersInv'
  BY <1>1, <1>4 DEF IInv, ShownInv, DataInv, OverrunBound, AlignInv, AnswersInv
<1>8. QED
  BY <1>3, <1>5, <1>6, <1>7 DEF IInv

(* The client's end changes nothing in the stream.                         *)
LEMMA ClientLeavesStep ==
  ASSUME IInv, BrokenPipe \/ Finish \/ Die, UNCHANGED serverVars
  PROVE  IInv'
<1> USE DEF serverVars
<1>1. /\ cpc' \in {"finished", "killed"} /\ unsent' \in {0, unsent}
      /\ clientEnd = "open" /\ clientEnd' \in {"fin", "rst"}
      /\ UNCHANGED <<headers, written, arrived, taken, serverEnd, replies, delivered>>
  BY DEF BrokenPipe, Finish, Die, CloseClient, IInv, EndsInv, ClientEnded, Writing
<1>2. TypeOK'
  BY <1>1 DEF IInv, TypeOK, ConnTypeOK, ClientTypeOK, ServerTypeOK
<1>3. image_counter' = image_counter /\ \A k : EndOf(k)' = EndOf(k)
  BY <1>1, EndOfUnchanged
<1>4. EndsInv'
  BY <1>1 DEF IInv, EndsInv, ClientEnded, ServerEnded, Writing
<1>5. StreamInv' /\ LayoutInv' /\ WriterInv'
  BY <1>1, <1>3 DEF IInv, StreamInv, LayoutInv, WriterInv
<1>6. ShownInv' /\ DataInv' /\ OverrunBound' /\ AlignInv' /\ AnswersInv'
  BY <1>1, <1>3 DEF IInv, ShownInv, DataInv, OverrunBound, AlignInv, AnswersInv
<1>7. QED
  BY <1>2, <1>4, <1>5, <1>6 DEF IInv

-----------------------------------------------------------------------------
(* The steps of the receiver.                                              *)

(* A header that starts where the child reads is the only one there, and   *)
(* no picture with this or a later number has been shown.                  *)
LEMMA HeaderHere ==
  ASSUME IInv, serverEnd = "open", NEW i \in HeadersAt(taken)
  PROVE  /\ i \in 1 .. image_counter /\ headers[i].at = taken
         /\ HeadersAt(taken) = {i}
         /\ \A s \in 1 .. Len(shown) : shown[s] < i
<1>1. i \in 1 .. image_counter /\ headers[i].at = taken
  BY DEF HeadersAt, image_counter
<1>2. LayoutInv /\ TypeOK /\ ShownInv
  BY DEF IInv
<1>3. ASSUME NEW a \in 1 .. image_counter, NEW b \in 1 .. image_counter, a < b
      PROVE  headers[a].at < headers[b].at
  BY <1>2, <1>3, HeaderFacts DEF LayoutInv
<1>4. \A j \in HeadersAt(taken) : j = i
  <2> SUFFICES ASSUME NEW j \in HeadersAt(taken), j # i PROVE FALSE
    OBVIOUS
  <2>1. j \in 1 .. image_counter /\ headers[j].at = taken
    BY DEF HeadersAt, image_counter
  <2>2. i < j \/ j < i
    BY <1>1, <1>2, <2>1, HeaderFacts
  <2>3. QED
    BY <1>1, <1>2, <1>3, <2>1, <2>2, HeaderFacts
<1>5. ASSUME NEW s \in 1 .. Len(shown) PROVE shown[s] < i
  <2>1. shown[s] \in 1 .. image_counter /\ EndOf(shown[s]) <= taken
    BY <1>2 DEF ShownInv
  <2>2. headers[shown[s]].at < taken
    <3>1. PICK p \in 1 .. image_counter : p = shown[s]
      BY <2>1
    <3>2. /\ EndOf(p) = headers[p].at + HeaderLength + headers[p].len
          /\ headers[p].at \in Nat /\ headers[p].len \in Nat
          /\ HeaderLength \in Nat /\ HeaderLength > 0 /\ EndOf(p) <= taken
      BY <1>2, <2>1, <3>1, HeaderFacts
    <3>3. taken \in Nat
      BY <1>2 DEF TypeOK, ConnTypeOK
    <3>4. QED
      BY <3>1, <3>2, <3>3
  <2>3. shown[s] # i /\ ~(i < shown[s])
    <3>1. PICK p \in 1 .. image_counter : p = shown[s] /\ headers[p].at < taken
      BY <2>1, <2>2
    <3>2. headers[p].at \in Nat /\ taken \in Nat
      BY <1>2, HeaderFacts DEF TypeOK, ConnTypeOK
    <3>3. i < p => taken < headers[p].at
      BY <1>1, <1>3
    <3>4. QED
      BY <1>1, <3>1, <3>2, <3>3
  <2>4. QED
    BY <1>1, <1>2, <2>1, <2>3, HeaderFacts
<1>6. QED
  BY <1>1, <1>4, <1>5

(* While the framing is intact, what there is to read when the child       *)
(* expects a header is the header of the next picture.                     *)
LEMMA NextHeaderHere ==
  ASSUME IInv, serverEnd = "open", faults = {}, spc = "header", Unread > 0
  PROVE  HeadersAt(taken) = {Current}
<1>1. /\ TypeOK /\ AlignInv /\ ShownInv /\ LayoutInv /\ WriterInv /\ StreamInv
      /\ taken = EndOf(Len(shown)) /\ Len(shown) \in 0 .. image_counter
  BY ShownCount DEF IInv, AlignInv
<1>2. taken \in Nat /\ arrived \in Nat /\ written \in Nat /\ taken < written
  BY <1>1 DEF TypeOK, ConnTypeOK, StreamInv, Unread
<1>3. Len(shown) # image_counter
  BY <1>1, <1>2, HeaderFacts DEF WriterInv
<1>4. Current \in 1 .. image_counter /\ Current - 1 = Len(shown)
  BY <1>1, <1>3, HeaderFacts DEF Current
<1>5. headers[Current].at = taken
  BY <1>1, <1>4 DEF LayoutInv
<1>6. Current \in HeadersAt(taken)
  BY <1>4, <1>5 DEF HeadersAt, image_counter
<1>7. QED
  BY <1>6, HeaderHere

(* A header read where the client wrote one announces the data behind it;  *)
(* one read elsewhere, or rejected, is a fault already noted.              *)
LEMMA ReadHeaderStep ==
  ASSUME IInv, ReadHeader, UNCHANGED clientVars
  PROVE  IInv'
<1> USE DEF clientVars
<1>1. /\ spc = "header" /\ Unread >= HeaderLength /\ taken' = taken + HeaderLength
      /\ count_bytes' = 0
      /\ UNCHANGED <<headers, written, arrived, clientEnd, replies, delivered, shown>>
  BY DEF ReadHeader, StartCount
<1>2. \/ message' \in Accepted(taken) /\ faults' = faults
      \/ /\ message' \in Rejected
         /\ faults' = IF HeadersAt(taken) = {} THEN faults
                                               ELSE faults \union {"residue"}
  BY DEF ReadHeader
<1>3. \/ message'.len < 1 /\ spc' = "exited" /\ serverEnd' = "closed"
      \/ ~(message'.len < 1) /\ spc' = "data" /\ serverEnd' = serverEnd
  BY DEF ReadHeader
<1>4. TypeOK /\ serverEnd = "open" /\ HeaderLength \in Nat /\ HeaderLength > 0
  BY <1>1, HeaderFacts DEF IInv, EndsInv, ServerEnded, TypeOK, ConnTypeOK
<1>5. /\ message' \in Message
      /\ message'.id # 0 => /\ message'.id \in HeadersAt(taken)
                            /\ message'.len = headers[message'.id].len
                            /\ faults' = faults
      /\ HeadersAt(taken) # {} /\ faults' = {} => message'.id \in HeadersAt(taken)
  <2>1. \A i \in HeadersAt(taken) :
          i \in Nat /\ i # 0 /\ headers[i].len \in Nat
    BY <1>4, HeaderFacts DEF HeadersAt, image_counter
  <2>2. WildSizes \subseteq Nat
    BY ServerAssumption DEF ServerAssumption
  <2>3. CASE message' \in Accepted(taken) /\ faults' = faults
    <3>1. CASE HeadersAt(taken) # {}
      <4>1. PICK i \in HeadersAt(taken) :
              message' = [id |-> i, len |-> headers[i].len, state |-> "initialized"]
        BY <2>3, <3>1 DEF Accepted
      <4>2. QED
        BY <4>1, <2>1, <2>3 DEF Message
    <3>2. CASE HeadersAt(taken) = {}
      <4>1. PICK n \in WildSizes :
              message' = [id |-> 0, len |-> n, state |-> "initialized"]
        BY <2>3, <3>2 DEF Accepted
      <4>2. QED
        BY <4>1, <3>2, <2>2 DEF Message
    <3>3. QED
      BY <3>1, <3>2
  <2>4. CASE /\ message' \in Rejected
             /\ faults' = IF HeadersAt(taken) = {} THEN faults
                                                   ELSE faults \union {"residue"}
    <3>1. PICK n \in WildSizes :
            message' = [id |-> 0, len |-> n, state |-> "invalid"]
      BY <2>4 DEF Rejected
    <3>2. HeadersAt(taken) # {} => faults' # {}
      BY <2>4
    <3>3. QED
      BY <3>1, <3>2, <2>2 DEF Message
  <2>5. QED
    BY <1>2, <2>3, <2>4
<1>6. TypeOK'
  <2>1. spc' \in {"exited", "data"} /\ serverEnd' \in {"open", "closed"}
    BY <1>3, <1>4
  <2>2. faults' \subseteq {"residue", "overrun"}
    BY <1>2, <1>4 DEF TypeOK, ServerTypeOK
  <2>3. taken' \in Nat
    BY <1>1, <1>4 DEF TypeOK, ConnTypeOK
  <2>4. QED
    BY <1>1, <1>4, <1>5, <2>1, <2>2, <2>3
       DEF TypeOK, ConnTypeOK, ClientTypeOK, ServerTypeOK
<1>7. image_counter' = image_counter /\ \A k : EndOf(k)' = EndOf(k)
  BY <1>1, EndOfUnchanged
<1>8. EndsInv'
  BY <1>1, <1>3, <1>4, <1>7 DEF IInv, EndsInv, ClientEnded, ServerEnded, Writing
<1>9. StreamInv'
  BY <1>1, <1>4 DEF IInv, StreamInv, TypeOK, ConnTypeOK, Unread
<1>10. LayoutInv' /\ WriterInv'
  BY <1>1, <1>4, <1>7 DEF IInv, LayoutInv, WriterInv
<1>11. ShownInv'
  <2>1. \A s \in 1 .. Len(shown) : shown[s] \in 1 .. image_counter
                                   /\ EndOf(shown[s]) \in Nat
    BY <1>4, HeaderFacts DEF IInv, ShownInv
  <2>2. taken \in Nat
    BY <1>4 DEF TypeOK, ConnTypeOK
  <2>3. QED
    BY <1>1, <1>4, <1>7, <2>1, <2>2 DEF IInv, ShownInv
<1>12. DataInv'
  <2> SUFFICES ASSUME spc' = "data"
               PROVE  /\ 0 < message'.len
                      /\ message'.id # 0 =>
                           /\ message'.id \in 1 .. image_counter
                           /\ message'.len = headers[message'.id].len
                           /\ taken' = headers[message'.id].at + HeaderLength + 0
                           /\ \A i \in 1 .. Len(shown) : shown[i] < message'.id
    BY <1>1, <1>7 DEF DataInv
  <2>1. 0 < message'.len
    BY <1>3, <1>5 DEF Message
  <2>2. ASSUME message'.id # 0
        PROVE  /\ message'.id \in 1 .. image_counter
               /\ headers[message'.id].at = taken
               /\ \A i \in 1 .. Len(shown) : shown[i] < message'.id
    BY <1>4, <1>5, <2>2, HeaderHere
  <2>3. QED
    BY <1>1, <1>4, <1>5, <2>1, <2>2 DEF TypeOK, ConnTypeOK
<1>13. OverrunBound'
  BY <1>1 DEF OverrunBound
<1>14. AlignInv'
  <2> SUFFICES ASSUME faults' = {}
               PROVE  /\ \A i \in 1 .. Len(shown) : shown[i] = i
                      /\ spc' = "data" => message'.id = Len(shown) + 1
    BY <1>1, <1>3 DEF AlignInv
  <2>1. faults = {}
    BY <1>2
  <2>2. HeadersAt(taken) = {Current}
    BY <1>1, <1>4, <2>1, NextHeaderHere DEF TypeOK, ConnTypeOK, Unread, IInv
  <2>3. message'.id = Len(shown) + 1
    BY <1>5, <2>2 DEF Current
  <2>4. QED
    BY <2>1, <2>3 DEF IInv, AlignInv
<1>15. AnswersInv'
  BY <1>1, <1>2, <1>3 DEF IInv, AnswersInv
<1>16. QED
  BY <1>6, <1>8, <1>9, <1>10, <1>11, <1>12, <1>13, <1>14, <1>15 DEF IInv

(* The receiver ends: nothing is claimed of the stream any more.           *)
LEMMA ReceiverEndsStep ==
  ASSUME IInv, UNCHANGED clientVars,
         \/ HeaderTooShort \/ NoMoreHeaders \/ DataReadFails
         \/ RespondToNobody \/ Crash
  PROVE  IInv'
<1> USE DEF clientVars
<1>1. /\ spc' \in {"exited", "crashed", "killed"} /\ serverEnd' = "closed"
      /\ UNCHANGED <<headers, written, arrived, taken, clientEnd, replies, delivered>>
      /\ UNCHANGED <<message, count_bytes, shown, faults>>
  BY DEF HeaderTooShort, NoMoreHeaders, DataReadFails, RespondToNobody, Crash,
         Quit, CloseServer
<1>2. TypeOK'
  BY <1>1 DEF IInv, TypeOK, ConnTypeOK, ClientTypeOK, ServerTypeOK
<1>3. image_counter' = image_counter /\ \A k : EndOf(k)' = EndOf(k)
  BY <1>1, EndOfUnchanged
<1>4. EndsInv'
  BY <1>1, <1>3 DEF IInv, EndsInv, ClientEnded, ServerEnded, Writing
<1>5. StreamInv' /\ LayoutInv' /\ WriterInv'
  BY <1>1 DEF IInv, StreamInv, LayoutInv, WriterInv
<1>6. ShownInv' /\ DataInv' /\ OverrunBound'
  BY <1>1, <1>3 DEF IInv, ShownInv, DataInv, OverrunBound
<1>7. AlignInv' /\ AnswersInv'
  BY <1>1 DEF IInv, AlignInv, AnswersInv
<1>8. QED
  BY <1>2, <1>4, <1>5, <1>6, <1>7 DEF IInv

(* The answer goes to the picture just displayed, and the next header is   *)
(* expected behind it.                                                     *)
LEMMA RespondStep ==
  ASSUME IInv, Respond, UNCHANGED clientVars
  PROVE  IInv'
<1> USE DEF clientVars
<1>1. /\ spc = "respond" /\ spc' = "header"
      /\ UNCHANGED <<headers, written, arrived, taken, clientEnd, serverEnd, delivered>>
      /\ UNCHANGED <<message, count_bytes, shown, faults>>
      /\ \/ clientEnd # "rst" /\ replies' = Append(replies, message.id)
         \/ clientEnd = "rst" /\ replies' = replies
  BY DEF Respond, WriteReply
<1>2. TypeOK /\ message.id \in Nat /\ replies \in Seq(Nat) /\ Len(shown) \in Nat
  BY DEF IInv, TypeOK, ConnTypeOK, ServerTypeOK, Message
<1>3. TypeOK'
  <2>1. replies' \in Seq(Nat)
    BY <1>1, <1>2
  <2>2. QED
    BY <1>1, <1>2, <2>1 DEF TypeOK, ConnTypeOK, ClientTypeOK, ServerTypeOK
<1>4. image_counter' = image_counter /\ \A k : EndOf(k)' = EndOf(k)
  BY <1>1, EndOfUnchanged
<1>5. EndsInv'
  BY <1>1, <1>4 DEF IInv, EndsInv, ClientEnded, ServerEnded, Writing
<1>6. StreamInv' /\ LayoutInv' /\ WriterInv'
  BY <1>1, <1>4 DEF IInv, StreamInv, LayoutInv, WriterInv
<1>7. ShownInv' /\ DataInv' /\ OverrunBound' /\ AlignInv'
  BY <1>1, <1>4 DEF IInv, ShownInv, DataInv, OverrunBound, AlignInv
<1>8. AnswersInv'
  <2> SUFFICES ASSUME faults = {}
               PROVE  /\ \A i \in 1 .. Len(replies') : replies'[i] = i
                      /\ clientEnd # "rst" => Len(replies') = Len(shown)
    BY <1>1 DEF AnswersInv
  <2>1. /\ \A i \in 1 .. Len(replies) : replies[i] = i
        /\ clientEnd # "rst" => Len(replies) + 1 = Len(shown)
        /\ message.id = Len(shown)
    BY <1>1 DEF IInv, AnswersInv, AlignInv
  <2>2. CASE clientEnd # "rst"
    BY <1>1, <1>2, <2>1, <2>2
  <2>3. CASE clientEnd = "rst"
    BY <1>1, <2>1, <2>3
  <2>4. QED
    BY <2>2, <2>3
<1>9. QED
  BY <1>3, <1>5, <1>6, <1>7, <1>8 DEF IInv

(* read() in the data loop stays within the message, or the overrun is     *)
(* noted as a fault; a picture is displayed after the ones before it.      *)
LEMMA ReadDataStep ==
  ASSUME IInv, ReadData, UNCHANGED clientVars
  PROVE  IInv'
<1> USE DEF clientVars
<1>1. PICK n : n = Lesser(message.len, Unread)
  OBVIOUS
<1>2. /\ spc = "data" /\ Unread > 0
      /\ taken' = taken + n /\ count_bytes' = count_bytes + n
      /\ UNCHANGED <<headers, written, arrived, clientEnd, serverEnd, replies, delivered>>
      /\ UNCHANGED message
  BY <1>1 DEF ReadData, TakeOut, Requested
<1>3. /\ TypeOK /\ DataInv /\ ShownInv /\ StreamInv
      /\ message.len \in Nat /\ message.id \in Nat /\ count_bytes \in Nat
      /\ taken \in Nat /\ arrived \in Nat /\ count_bytes < message.len
  BY <1>2 DEF IInv, TypeOK, ConnTypeOK, ServerTypeOK, Message, DataInv
<1>4. n \in Nat /\ n > 0 /\ n <= message.len /\ taken + n <= arrived
  BY <1>1, <1>2, <1>3 DEF Lesser, Unread
<1>5. \/ /\ count_bytes + n < message.len
         /\ UNCHANGED <<spc, shown, faults>>
      \/ /\ count_bytes + n >= message.len
         /\ spc' = "respond"
         /\ shown' = IF message.id = 0 THEN shown ELSE Append(shown, message.id)
         /\ faults' = IF count_bytes + n > message.len
                        THEN faults \union {"overrun"} ELSE faults
  BY <1>2, <1>3, <1>4 DEF ReadData, Complete
<1>6. TypeOK'
  <2>1. spc' \in {"data", "respond"} /\ faults' \subseteq {"residue", "overrun"}
    BY <1>2, <1>3, <1>5 DEF TypeOK, ServerTypeOK
  <2>2. shown' \in Seq(Nat)
    BY <1>3, <1>5 DEF TypeOK, ServerTypeOK
  <2>3. QED
    BY <1>2, <1>3, <1>4, <2>1, <2>2
       DEF TypeOK, ConnTypeOK, ClientTypeOK, ServerTypeOK
<1>7. image_counter' = image_counter /\ \A k : EndOf(k)' = EndOf(k)
  BY <1>2, EndOfUnchanged
<1>8. EndsInv'
  BY <1>2, <1>5, <1>7 DEF IInv, EndsInv, ClientEnded, ServerEnded, Writing
<1>9. StreamInv'
  BY <1>2, <1>3, <1>4 DEF StreamInv
<1>10. LayoutInv' /\ WriterInv'
  BY <1>2, <1>7 DEF IInv, LayoutInv, WriterInv
<1>11. OverrunBound'
  BY <1>2, <1>3, <1>4 DEF OverrunBound
<1>12. message.id # 0 =>
         /\ message.id \in 1 .. image_counter
         /\ EndOf(message.id) = headers[message.id].at + HeaderLength + message.len
         /\ headers[message.id].at + HeaderLength \in Nat
         /\ taken + n = headers[message.id].at + HeaderLength + (count_bytes + n)
         /\ \A i \in 1 .. Len(shown) : shown[i] < message.id
  <2> SUFFICES ASSUME message.id # 0
               PROVE  /\ message.id \in 1 .. image_counter
                      /\ EndOf(message.id)
                           = headers[message.id].at + HeaderLength + message.len
                      /\ headers[message.id].at + HeaderLength \in Nat
                      /\ taken + n
                           = headers[message.id].at + HeaderLength + (count_bytes + n)
                      /\ \A i \in 1 .. Len(shown) : shown[i] < message.id
    OBVIOUS
  <2>1. PICK p \in 1 .. image_counter : p = message.id
    BY <1>2, <1>3 DEF DataInv
  <2>2. /\ message.len = headers[p].len
        /\ taken = headers[p].at + HeaderLength + count_bytes
        /\ \A i \in 1 .. Len(shown) : shown[i] < p
    BY <1>2, <1>3, <2>1 DEF DataInv
  <2>3. /\ headers[p].at \in Nat /\ HeaderLength \in Nat
        /\ EndOf(p) = headers[p].at + HeaderLength + headers[p].len
    BY <1>3, HeaderFacts
  <2>4. taken + n = headers[p].at + HeaderLength + (count_bytes + n)
    <3>1. \A a, b, c, d \in Nat : (a + b + c) + d = a + b + (c + d)
      OBVIOUS
    <3>2. (headers[p].at + HeaderLength + count_bytes) + n
            = headers[p].at + HeaderLength + (count_bytes + n)
      BY <1>3, <1>4, <2>3, <3>1
    <3>3. QED
      BY <2>2, <3>2
  <2>5. headers[p].at + HeaderLength \in Nat
    BY <2>3
  <2>6. QED
    BY <2>1, <2>2, <2>3, <2>4, <2>5
<1>13. ASSUME shown' = shown
       PROVE  ShownInv'
  <2>1. \A s \in 1 .. Len(shown) : EndOf(shown[s]) \in Nat
    BY <1>3, HeaderFacts DEF ShownInv
  <2>2. QED
    BY <1>2, <1>3, <1>4, <1>7, <1>13, <2>1 DEF ShownInv
<1>14. CASE /\ count_bytes + n < message.len
            /\ UNCHANGED <<spc, shown, faults>>
  <2>1. DataInv'
    BY <1>2, <1>3, <1>7, <1>12, <1>14 DEF DataInv
  <2>2. AlignInv' /\ AnswersInv'
    BY <1>2, <1>7, <1>14 DEF IInv, AlignInv, AnswersInv
  <2>3. ShownInv'
    BY <1>13, <1>14
  <2>4. QED
    BY <1>6, <1>8, <1>9, <1>10, <1>11, <2>1, <2>2, <2>3 DEF IInv
<1>15. CASE /\ count_bytes + n >= message.len
            /\ spc' = "respond"
            /\ shown' = IF message.id = 0 THEN shown ELSE Append(shown, message.id)
            /\ faults' = IF count_bytes + n > message.len
                           THEN faults \union {"overrun"} ELSE faults
  <2>1. DataInv'
    BY <1>15 DEF DataInv
  <2>2. shown \in Seq(Nat)
    BY <1>3 DEF TypeOK, ServerTypeOK
  <2>3. PICK last \in Nat : last = Len(shown) + 1
    BY <2>2
  <2>4. ASSUME message.id # 0
        PROVE  /\ Len(shown') = last /\ shown'[last] = message.id
               /\ \A i \in 1 .. Len(shown) : shown'[i] = shown[i]
    BY <1>3, <1>15, <2>2, <2>3, <2>4
  <2>5. ShownInv'
    <3>1. CASE message.id = 0
      BY <1>13, <1>15, <3>1
    <3>2. CASE message.id # 0
      <4>1. ASSUME NEW i \in 1 .. last
            PROVE  shown'[i] \in 1 .. image_counter /\ EndOf(shown'[i]) <= taken + n
        <5>1. CASE i = last
          BY <1>3, <1>4, <1>12, <1>15, <2>4, <3>2, <5>1
        <5>2. CASE i \in 1 .. Len(shown)
          <6>1. /\ shown[i] \in 1 .. image_counter /\ EndOf(shown[i]) <= taken
                /\ EndOf(shown[i]) \in Nat
            BY <1>3, <5>2, HeaderFacts DEF ShownInv
          <6>2. QED
            BY <1>3, <1>4, <2>4, <3>2, <5>2, <6>1
        <5>3. QED
          BY <2>2, <2>3, <5>1, <5>2
      <4>2. ASSUME NEW i \in 1 .. last, NEW j \in 1 .. last, i < j
            PROVE  shown'[i] < shown'[j]
        <5>1. i \in 1 .. Len(shown)
          BY <2>2, <2>3, <4>2
        <5>2. CASE j = last
          BY <1>12, <2>4, <3>2, <5>1, <5>2
        <5>3. CASE j \in 1 .. Len(shown)
          BY <1>3, <2>4, <3>2, <4>2, <5>1, <5>3 DEF ShownInv
        <5>4. QED
          BY <2>2, <2>3, <5>2, <5>3
      <4>3. QED
        BY <1>2, <1>7, <2>4, <3>2, <4>1, <4>2 DEF ShownInv
    <3>3. QED
      BY <3>1, <3>2
  <2>6. ASSUME faults' = {}
        PROVE  /\ faults = {} /\ count_bytes + n = message.len
               /\ message.id = last
               /\ \A i \in 1 .. Len(shown) : shown[i] = i
    <3>1. faults = {} /\ ~(count_bytes + n > message.len)
      BY <1>15, <2>6
    <3>2. count_bytes + n = message.len
      BY <1>3, <1>4, <1>15, <3>1
    <3>3. /\ message.id = Len(shown) + 1
          /\ \A i \in 1 .. Len(shown) : shown[i] = i
      BY <1>2, <3>1 DEF IInv, AlignInv
    <3>4. QED
      BY <2>3, <3>1, <3>2, <3>3
  <2>7. AlignInv'
    <3> SUFFICES ASSUME faults' = {}
                 PROVE  /\ \A i \in 1 .. Len(shown') : shown'[i] = i
                        /\ Len(shown') > 0 /\ message.id = Len(shown')
                        /\ taken + n = EndOf(Len(shown'))
      BY <1>2, <1>7, <1>15 DEF AlignInv
    <3>1. message.id = last /\ message.id # 0 /\ last > 0
      BY <2>2, <2>3, <2>6
    <3>2. Len(shown') = last /\ \A i \in 1 .. last : shown'[i] = i
      BY <2>2, <2>3, <2>4, <2>6, <3>1
    <3>3. taken + n = EndOf(last)
      BY <1>12, <2>6, <3>1
    <3>4. QED
      BY <3>1, <3>2, <3>3
  <2>8. AnswersInv'
    <3> SUFFICES ASSUME faults' = {}
                 PROVE  /\ \A i \in 1 .. Len(replies) : replies[i] = i
                        /\ clientEnd # "rst" => Len(replies) + 1 = Len(shown')
      BY <1>2, <1>15 DEF AnswersInv
    <3>1. Len(shown') = Len(shown) + 1
      BY <2>2, <2>3, <2>4, <2>6
    <3>2. QED
      BY <1>2, <2>6, <3>1 DEF IInv, AnswersInv
  <2>9. QED
    BY <1>6, <1>8, <1>9, <1>10, <1>11, <2>1, <2>5, <2>7, <2>8 DEF IInv
<1>16. QED
  BY <1>5, <1>14, <1>15

-----------------------------------------------------------------------------
(* The invariant, and what follows from it.                                *)

(* The empty stream satisfies the invariant.                               *)
LEMMA InitIInv == Init => IInv
<1> SUFFICES ASSUME Init PROVE IInv
  OBVIOUS
<1> USE DEF Init, ConnInit, ClientInit, ServerInit
<1>1. headers = <<>> /\ shown = <<>> /\ replies = <<>> /\ image_counter = 0
  BY DEF image_counter
<1>2. TypeOK
  BY DEF TypeOK, ConnTypeOK, ClientTypeOK, ServerTypeOK, Header, Message
<1>3. EndOf(0) = 0
  BY DEF EndOf
<1>4. EndsInv /\ StreamInv /\ DataInv /\ OverrunBound
  BY <1>1 DEF EndsInv, StreamInv, DataInv, OverrunBound, ClientEnded, ServerEnded, Writing
<1>5. LayoutInv /\ WriterInv /\ ShownInv
  BY <1>1, <1>3 DEF LayoutInv, WriterInv, ShownInv
<1>6. AlignInv /\ AnswersInv
  BY <1>1, <1>3 DEF AlignInv, AnswersInv
<1>7. QED
  BY <1>2, <1>4, <1>5, <1>6 DEF IInv

(* A step that changes no variable preserves it.                           *)
LEMMA StutterStep ==
  ASSUME IInv, UNCHANGED vars
  PROVE  IInv'
<1> USE DEF vars, connVars, clientVars, serverVars
<1>1. image_counter' = image_counter /\ \A k : EndOf(k)' = EndOf(k)
  BY EndOfUnchanged
<1>2. TypeOK' /\ EndsInv' /\ StreamInv'
  BY <1>1 DEF IInv, TypeOK, ConnTypeOK, ClientTypeOK, ServerTypeOK, EndsInv,
              ClientEnded, ServerEnded, Writing, StreamInv
<1>3. LayoutInv' /\ WriterInv' /\ ShownInv'
  BY <1>1 DEF IInv, LayoutInv, WriterInv, ShownInv
<1>4. DataInv' /\ OverrunBound' /\ AlignInv' /\ AnswersInv'
  BY <1>1 DEF IInv, DataInv, OverrunBound, AlignInv, AnswersInv
<1>5. QED
  BY <1>2, <1>3, <1>4 DEF IInv

(* IInv is inductive.                                                      *)
THEOREM Inductive == Spec => []IInv
<1>1. IInv /\ [Next]_vars => IInv'
  <2> SUFFICES ASSUME IInv, [Next]_vars PROVE IInv'
    OBVIOUS
  <2>1. CASE Arrive /\ UNCHANGED <<clientVars, serverVars>>
    BY <2>1, ArriveStep
  <2>8. CASE ReplyArrives /\ UNCHANGED <<clientVars, serverVars>>
    BY <2>8, ReplyArrivesStep
  <2>2. CASE ClientStep /\ UNCHANGED serverVars
    BY <2>2, CaptureFrameStep, WriteBytesStep, WriteAbandonedStep, ClientLeavesStep
       DEF ClientStep
  <2>3. CASE Die /\ UNCHANGED serverVars
    BY <2>3, ClientLeavesStep
  <2>4. CASE ServerStep /\ UNCHANGED clientVars
    <3>1. CASE SpinOnEof
      BY <2>4, <3>1, StutterStep DEF SpinOnEof, vars
    <3>2. CASE ~SpinOnEof
      BY <2>4, <3>2, ReadHeaderStep, ReadDataStep, RespondStep, ReceiverEndsStep
         DEF ServerStep
    <3>3. QED
      BY <3>1, <3>2
  <2>5. CASE Crash /\ UNCHANGED clientVars
    BY <2>5, ReceiverEndsStep
  <2>6. CASE UNCHANGED vars
    BY <2>6, StutterStep
  <2>7. QED
    BY <2>1, <2>2, <2>3, <2>4, <2>5, <2>6, <2>8 DEF Next, AllEnded
<1>2. QED
  BY <1>1, InitIInv, PTL DEF Spec

(* Every variable keeps its type.                                          *)
THEOREM TypeCorrect == Spec => []TypeOK
<1>1. IInv => TypeOK
  BY DEF IInv
<1>2. QED
  BY <1>1, Inductive, PTL

(* Until a fault the receiver finds every header and the data behind it.   *)
THEOREM FramingCorrect == Spec => []FramingHolds
<1>1. ASSUME IInv, faults = {}, spc = "header", Unread > 0
      PROVE  HeadersAt(taken) = {Current}
  BY <1>1, NextHeaderHere DEF IInv, EndsInv, ServerEnded
<1>2. ASSUME IInv, faults = {}, spc = "data"
      PROVE  /\ message.id = Current /\ message.len = headers[Current].len
             /\ taken = headers[Current].at + HeaderLength + count_bytes
  <2>1. message.id = Len(shown) + 1 /\ Len(shown) \in Nat
    BY <1>2 DEF IInv, AlignInv, TypeOK, ServerTypeOK
  <2>2. QED
    BY <1>2, <2>1 DEF IInv, DataInv, Current
<1>3. IInv => FramingHolds
  BY <1>1, <1>2 DEF IInv, AlignInv, FramingHolds
<1>4. QED
  BY <1>3, Inductive, PTL

(* Pictures are displayed once and in order, framing intact or not.        *)
THEOREM OrderCorrect == Spec => []ShownInOrder
<1>1. IInv => ShownInOrder
  BY DEF IInv, ShownInv, AlignInv, ShownInOrder
<1>2. QED
  BY <1>1, Inductive, PTL

(* No picture is displayed before all of it has arrived.                   *)
THEOREM ArrivedBeforeShown == Spec => []ShownHasArrived
<1>1. ASSUME IInv, NEW i \in 1 .. Len(shown) PROVE EndOf(shown[i]) <= arrived
  <2>1. shown[i] \in 1 .. image_counter /\ EndOf(shown[i]) <= taken
    BY <1>1 DEF IInv, ShownInv
  <2>2. EndOf(shown[i]) \in Nat /\ taken \in Nat /\ arrived \in Nat /\ taken <= arrived
    BY <1>1, <2>1, HeaderFacts DEF IInv, TypeOK, ConnTypeOK, StreamInv
  <2>3. QED
    BY <2>1, <2>2
<1>2. IInv => ShownHasArrived
  BY <1>1 DEF ShownHasArrived
<1>3. QED
  BY <1>2, Inductive, PTL

(* The data loop never reads twice the length announced.                   *)
THEOREM OverrunBounded == Spec => []OverrunBound
<1>1. IInv => OverrunBound
  BY DEF IInv
<1>2. QED
  BY <1>1, Inductive, PTL

(* Until a fault the answers waiting for the client are those of the       *)
(* pictures displayed, in order.                                           *)
THEOREM AnswersCorrect == Spec => []RepliesMatchShown
<1>1. IInv => RepliesMatchShown
  BY DEF IInv, AnswersInv, AlignInv, RepliesMatchShown
<1>2. QED
  BY <1>1, Inductive, PTL

(* The link can block only once the client is two pictures past the        *)
(* capacity for answers.                                                   *)
THEOREM StuckLate == Spec => []StuckOnlyAfterReplySpace
<1>1. ASSUME IInv, Stuck, faults = {} PROVE image_counter >= ReplySpace + 2
  <2>1. /\ TypeOK /\ ShownInv /\ AlignInv /\ AnswersInv /\ WriterInv /\ EndsInv
        /\ Writing /\ serverEnd = "open" /\ written = taken + SendSpace
        /\ spc = "respond" /\ ~(Len(replies) < ReplySpace)
    BY <1>1 DEF IInv, Stuck, ReplyFits
  <2>2. clientEnd = "open"
    BY <2>1 DEF EndsInv, ClientEnded, Writing
  <2>3. /\ Len(replies) + 1 = Len(shown) /\ taken = EndOf(Len(shown))
        /\ Len(shown) \in 0 .. image_counter /\ Len(replies) \in Nat
    BY <1>1, <2>1, <2>2, ShownCount DEF AnswersInv, AlignInv, TypeOK, ConnTypeOK
  <2>4. /\ SendSpace \in Nat /\ SendSpace > 0 /\ ReplySpace \in Nat
        /\ taken \in Nat /\ written \in Nat /\ image_counter \in Nat
    BY <2>1, ConnAssumption, HeaderFacts DEF ConnAssumption, TypeOK, ConnTypeOK
  <2>5. Len(shown) # image_counter
    BY <2>1, <2>3, <2>4 DEF WriterInv
  <2>6. QED
    BY <2>1, <2>3, <2>4, <2>5
<1>2. IInv => StuckOnlyAfterReplySpace
  BY <1>1 DEF StuckOnlyAfterReplySpace
<1>3. QED
  BY <1>2, Inductive, PTL

-----------------------------------------------------------------------------
(* Steps that end a picture or lose the framing.                           *)

(* Which steps leave what FrameDelivery sees alone.                        *)
LEMMA QuietSteps ==
  ASSUME [Next]_vars
  PROVE  \/ CaptureFrame /\ UNCHANGED serverVars
         \/ ReadHeader /\ UNCHANGED clientVars
         \/ ReadData /\ UNCHANGED clientVars
         \/ UNCHANGED <<headers, shown, faults>>
<1> USE DEF connVars, clientVars, serverVars
<1>1. CASE (Arrive \/ ReplyArrives) /\ UNCHANGED <<clientVars, serverVars>>
  BY <1>1 DEF Arrive, ReplyArrives
<1>2. CASE (ClientStep \/ Die) /\ UNCHANGED serverVars
  BY <1>2 DEF ClientStep, WriteBytes, CopyIn, WriteFails, WriteCutShort, BrokenPipe,
              Finish, Die, CloseClient
<1>3. CASE (ServerStep \/ Crash) /\ UNCHANGED clientVars
  BY <1>3 DEF ServerStep, HeaderTooShort, NoMoreHeaders, SpinOnEof, DataReadFails,
              Respond, RespondToNobody, Crash, Quit, CloseServer, WriteReply
<1>4. CASE UNCHANGED vars
  BY <1>4 DEF vars
<1>5. QED
  BY <1>1, <1>2, <1>3, <1>4 DEF Next, AllEnded

(* A read() that goes past the end of a picture of the client takes bytes  *)
(* of a later one.                                                         *)
LEMMA OverrunTakesNext ==
  ASSUME IInv, ReadData, message.id # 0, count_bytes' > message.len
  PROVE  message.id \in 1 .. image_counter /\ message.id < image_counter
<1>1. PICK n : n = Lesser(message.len, Unread)
  OBVIOUS
<1>2. PICK p : p = message.id
  OBVIOUS
<1>3. /\ TypeOK /\ StreamInv /\ WriterInv /\ EndsInv
      /\ spc = "data" /\ Unread > 0 /\ count_bytes' = count_bytes + n
  BY <1>1 DEF IInv, ReadData, Requested
<1>4. /\ taken \in Nat /\ arrived \in Nat /\ written \in Nat
      /\ message.len \in Nat /\ count_bytes \in Nat
  BY <1>3 DEF TypeOK, ConnTypeOK, ServerTypeOK, Message
<1>5. n \in Nat /\ taken + n <= written
  BY <1>1, <1>3, <1>4 DEF Lesser, Unread, StreamInv
<1>6. /\ p \in 1 .. image_counter /\ message.len = headers[p].len
      /\ taken = headers[p].at + HeaderLength + count_bytes
  BY <1>2, <1>3 DEF IInv, DataInv
<1>7. /\ headers[p].at \in Nat /\ HeaderLength \in Nat /\ image_counter \in Nat
      /\ EndOf(p) = headers[p].at + HeaderLength + headers[p].len
  BY <1>3, <1>6, HeaderFacts
<1>8. written > EndOf(p)
  BY <1>3, <1>4, <1>5, <1>6, <1>7
<1>9. serverEnd = "open" /\ written <= EndOf(image_counter)
  BY <1>3 DEF EndsInv, ServerEnded, WriterInv
<1>10. p # image_counter
  <2> SUFFICES ASSUME p = image_counter PROVE FALSE
    OBVIOUS
  <2>1. EndOf(p) = EndOf(image_counter)
    OBVIOUS
  <2>2. EndOf(p) \in Nat
    BY <1>3, <1>6, HeaderFacts
  <2>3. QED
    BY <1>4, <1>8, <1>9, <2>1, <2>2
<1>11. QED
  BY <1>2, <1>6, <1>7, <1>10

(* The framing is lost in the data loop only when the client has begun the *)
(* next picture.                                                           *)
THEOREM OverrunOnlyPipelined == Spec => OverrunNeedsPipelining
<1>1. ASSUME IInv, [Next]_vars, faults = {}, "overrun" \in faults'
      PROVE  image_counter > Current
  <2>1. TypeOK /\ Len(shown) \in Nat /\ image_counter \in Nat
    BY <1>1, HeaderFacts DEF IInv, TypeOK, ServerTypeOK
  <2>2. ReadData
    BY <1>1, QuietSteps DEF serverVars, ReadHeader
  <2>3. count_bytes' > message.len /\ spc = "data"
    BY <1>1, <2>2 DEF ReadData
  <2>4. message.id = Len(shown) + 1
    BY <1>1, <2>3 DEF IInv, AlignInv
  <2>5. QED
    BY <1>1, <2>1, <2>2, <2>3, <2>4, OverrunTakesNext DEF Current
<1>2. IInv /\ [Next]_vars =>
        [faults = {} /\ "overrun" \in faults' => image_counter > Current]_vars
  BY <1>1
<1>3. QED
  BY <1>2, Inductive, PTL DEF Spec, OverrunNeedsPipelining

-----------------------------------------------------------------------------
(* What the end of the stream and the end of the client leave behind.      *)

(* Waiting for a header with nothing to read, the receiver has displayed   *)
(* every picture that has arrived completely.                              *)
THEOREM NothingIsLeftOut == Spec => []NothingLeftOut
<1>1. ASSUME IInv, faults = {}, spc = "header", Unread = 0,
             NEW k \in 1 .. image_counter, EndOf(k) <= arrived
      PROVE  k <= Len(shown)
  <2>1. TypeOK /\ LayoutInv /\ serverEnd = "open"
    BY <1>1 DEF IInv, EndsInv, ServerEnded
  <2>2. PICK s \in 0 .. image_counter : s = Len(shown)
    BY <1>1, ShownCount DEF IInv
  <2>3. /\ taken = EndOf(s) /\ arrived = taken
        /\ taken \in Nat /\ arrived \in Nat
    BY <1>1, <2>1, <2>2 DEF IInv, AlignInv, TypeOK, ConnTypeOK, Unread
  <2>4. /\ headers[k].at \in Nat /\ headers[k].at < EndOf(k) /\ EndOf(k) \in Nat
        /\ EndOf(0) = 0 /\ image_counter \in Nat
    BY <2>1, HeaderFacts
  <2>5. CASE s = 0
    <3>1. taken = 0
      BY <2>3, <2>4, <2>5
    <3>2. QED
      BY <1>1, <2>3, <2>4, <3>1
  <2>6. CASE s \in 1 .. image_counter /\ s < k
    <3>1. EndOf(s) <= headers[k].at
      BY <2>1, <2>6 DEF LayoutInv
    <3>2. QED
      BY <1>1, <2>3, <2>4, <3>1
  <2>7. QED
    BY <2>2, <2>4, <2>5, <2>6
<1>2. IInv => NothingLeftOut
  BY <1>1 DEF NothingLeftOut
<1>3. QED
  BY <1>2, Inductive, PTL

(* Which steps concern the answers and the pictures they are for; no       *)
(* others take back a reset or have the receiver wait for a message.       *)
LEMMA OtherSteps ==
  ASSUME IInv, [Next]_vars
  PROVE  \/ ReadHeader \/ ReadData \/ Respond
         \/ ReplyArrives /\ UNCHANGED serverVars
         \/ /\ UNCHANGED <<replies, delivered, shown>>
            /\ spc' \in {spc, "exited", "crashed", "killed"}
            /\ clientEnd' # "rst" => clientEnd # "rst"
<1> USE DEF connVars, clientVars, serverVars
<1>1. CASE (Arrive \/ ReplyArrives) /\ UNCHANGED <<clientVars, serverVars>>
  BY <1>1 DEF Arrive
<1>2. CASE (ClientStep \/ Die) /\ UNCHANGED serverVars
  <2>1. ASSUME BrokenPipe \/ Finish \/ Die
        PROVE  /\ UNCHANGED <<replies, delivered>>
               /\ clientEnd = "open"
    BY <2>1 DEF BrokenPipe, Finish, Die, CloseClient, IInv, EndsInv, ClientEnded, Writing
  <2>2. QED
    BY <1>2, <2>1 DEF ClientStep, CaptureFrame, WriteBytes, CopyIn, WriteFails,
                      WriteCutShort
<1>3. CASE (ServerStep \/ Crash) /\ UNCHANGED clientVars
  BY <1>3 DEF ServerStep, HeaderTooShort, NoMoreHeaders, SpinOnEof, DataReadFails,
              RespondToNobody, Crash, Quit, CloseServer
<1>4. CASE UNCHANGED vars
  BY <1>4 DEF vars
<1>5. QED
  BY <1>1, <1>2, <1>3, <1>4 DEF Next, AllEnded

(* Each answer adds to those under way or waiting, and each picture        *)
(* displayed is answered before the next.                                  *)
LEMMA BackStep ==
  ASSUME IInv, BackInv, [Next]_vars
  PROVE  BackInv'
<1>1. /\ shown \in Seq(Nat) /\ replies \in Seq(Nat) /\ delivered \in Nat
      /\ Len(shown) \in Nat /\ Len(replies) \in Nat /\ message.id \in Nat
      /\ ReplySpace \in Nat
  BY ConnAssumption DEF ConnAssumption, IInv, TypeOK, ConnTypeOK, ServerTypeOK, Message
<1>2. CASE ReadHeader
  <2>1. spc = "header" /\ UNCHANGED <<clientEnd, replies, delivered, shown>>
    BY <1>2 DEF ReadHeader
  <2>2. QED
    BY <2>1 DEF BackInv
<1>3. CASE ReadData
  <2>1. /\ spc = "data" /\ UNCHANGED <<clientEnd, replies, delivered>>
        /\ \/ UNCHANGED <<spc, shown>>
           \/ /\ spc' = "respond"
              /\ shown' = shown \/ shown' = Append(shown, message.id)
    BY <1>3 DEF ReadData, TakeOut
  <2>2. shown' = Append(shown, message.id) => Len(shown') = Len(shown) + 1
    BY <1>1
  <2>3. QED
    BY <1>1, <2>1, <2>2 DEF BackInv
<1>4. CASE Respond
  <2>1. /\ UNCHANGED <<shown, delivered, clientEnd>>
        /\ \/ Len(replies) < ReplySpace /\ replies' = Append(replies, message.id)
           \/ clientEnd = "rst" /\ replies' = replies
    BY <1>4 DEF Respond, WriteReply, ReplyFits
  <2>2. replies' = Append(replies, message.id) => Len(replies') = Len(replies) + 1
    BY <1>1
  <2>3. QED
    BY <1>1, <2>1, <2>2 DEF BackInv
<1>5. CASE ReplyArrives /\ UNCHANGED serverVars
  <2>1. /\ UNCHANGED replies /\ delivered < Len(replies)
        /\ clientEnd' # "rst" => clientEnd = "open"
        /\ delivered' \in {delivered, delivered + 1}
        /\ UNCHANGED <<spc, shown>>
    BY <1>5 DEF ReplyArrives, serverVars
  <2>2. QED
    BY <1>1, <2>1 DEF BackInv
<1>6. CASE /\ UNCHANGED <<replies, delivered, shown>>
           /\ spc' \in {spc, "exited", "crashed", "killed"}
           /\ clientEnd' # "rst" => clientEnd # "rst"
  BY <1>6 DEF BackInv
<1>7. QED
  BY <1>2, <1>3, <1>4, <1>5, <1>6, OtherSteps

-----------------------------------------------------------------------------
(* How far the camera can be ahead of the display.                         *)

(* Multiplication over one more.                                           *)
LEMMA OneMore ==
  ASSUME NEW a \in Nat, NEW m \in Nat
  PROVE  a * m \in Nat /\ (a + 1) * m = a * m + m
OBVIOUS

(* No more of anything than nothing is nothing.                            *)
LEMMA NoneOrLess ==
  ASSUME NEW a \in Int, a <= 0, NEW m \in Nat
  PROVE  a * m <= 0
<1>1. PICK b \in Nat : b = 0 - a
  OBVIOUS
<1>2. b * m \in Nat /\ a * m = 0 - b * m
  BY <1>1
<1>3. QED
  BY <1>2

(* Only CaptureFrame puts a header down, and nothing opens the receiver's  *)
(* end of the connection again.                                            *)
LEMMA HeaderSteps ==
  ASSUME IInv, [Next]_vars
  PROVE  /\ serverEnd' = "open" => serverEnd = "open"
         /\ CaptureFrame \/ UNCHANGED headers
         /\ written' = written \/ (written' <= taken' + SendSpace)
         /\ taken' \in Nat /\ taken <= taken'
<1> USE DEF connVars, clientVars, serverVars
<1>1. /\ taken \in Nat /\ arrived \in Nat /\ HeaderLength \in Nat
      /\ message.len \in Nat /\ serverEnd \in {"open", "closed"}
  BY HeaderFacts DEF IInv, TypeOK, ConnTypeOK, ServerTypeOK, Message
<1>2. CASE (Arrive \/ ReplyArrives) /\ UNCHANGED <<clientVars, serverVars>>
  BY <1>1, <1>2 DEF Arrive, ReplyArrives
<1>3. CASE (ClientStep \/ Die) /\ UNCHANGED serverVars
  <2>1. ASSUME NEW n \in 1 .. unsent, WriteBytes(n)
        PROVE  /\ written' <= taken' + SendSpace
               /\ UNCHANGED <<headers, taken, serverEnd>>
    BY <2>1 DEF WriteBytes, CopyIn
  <2>2. ASSUME \/ WriteFails \/ WriteCutShort \/ BrokenPipe \/ Finish \/ Die
        PROVE  UNCHANGED <<headers, written, taken, serverEnd>>
    BY <2>2 DEF WriteFails, WriteCutShort, BrokenPipe, Finish, Die, CloseClient
  <2>3. ASSUME CaptureFrame PROVE UNCHANGED <<written, taken, serverEnd>>
    BY <2>3 DEF CaptureFrame
  <2>4. QED
    BY <1>1, <1>3, <2>1, <2>2, <2>3 DEF ClientStep
<1>4. CASE ReadData
  <2>1. PICK n : n = Lesser(message.len, Unread)
    OBVIOUS
  <2>2. taken' = taken + n /\ Unread > 0 /\ UNCHANGED <<headers, written, serverEnd>>
    BY <1>4, <2>1 DEF ReadData, TakeOut, Requested
  <2>3. n \in Nat
    BY <1>1, <2>1, <2>2 DEF Lesser, Unread
  <2>4. QED
    BY <1>1, <2>2, <2>3
<1>5. CASE (ServerStep /\ ~ReadData) \/ Crash
  <2>1. UNCHANGED <<headers, written>> /\ (serverEnd' = serverEnd \/ serverEnd' = "closed")
    BY <1>5 DEF ServerStep, ReadHeader, HeaderTooShort, NoMoreHeaders, SpinOnEof,
       DataReadFails, Respond, RespondToNobody, Crash, Quit, CloseServer, WriteReply
  <2>2. taken' = taken \/ taken' = taken + HeaderLength
    BY <1>5 DEF ServerStep, ReadHeader, HeaderTooShort, NoMoreHeaders, SpinOnEof,
       DataReadFails, Respond, RespondToNobody, Crash, Quit, CloseServer, WriteReply
  <2>3. QED
    BY <1>1, <2>1, <2>2
<1>6. CASE UNCHANGED vars
  BY <1>1, <1>6 DEF vars
<1>7. QED
  BY <1>2, <1>3, <1>4, <1>5, <1>6 DEF Next, AllEnded

(* Room is used up by writing and made by reading.                         *)
LEMMA RoomStep ==
  ASSUME IInv, RoomInv, [Next]_vars
  PROVE  RoomInv'
<1>1. /\ taken \in Nat /\ written \in Nat /\ SendSpace \in Nat
  BY ConnAssumption DEF ConnAssumption, IInv, TypeOK, ConnTypeOK
<1>2. QED
  BY <1>1, HeaderSteps DEF RoomInv

(* A new header is a whole message behind the one before it.               *)
LEMMA SpacingStep ==
  ASSUME IInv, SpacingInv, [Next]_vars
  PROVE  SpacingInv'
<1>1. /\ TypeOK /\ image_counter \in Nat
      /\ FrameSizes \subseteq Nat /\ HeaderLength \in Nat
      /\ written \in Nat
  BY HeaderFacts, ClientAssumption DEF ClientAssumption, IInv, TypeOK, ConnTypeOK
<1>2. CASE UNCHANGED headers
  BY <1>2, HeaderSteps DEF SpacingInv, NoneBelow, image_counter
<1>3. CASE CaptureFrame
  <2>1. PICK len \in FrameSizes :
          headers' = Append(headers, [at |-> written, len |-> len])
    BY <1>3 DEF CaptureFrame
  <2>2. PICK last \in Nat : last = image_counter + 1
    BY <1>1
  <2>3. /\ image_counter' = last
        /\ \A k \in 1 .. image_counter : headers'[k] = headers[k]
        /\ headers'[last] = [at |-> written, len |-> len]
    BY <1>1, <2>1, <2>2 DEF TypeOK, ConnTypeOK, image_counter
  <2>4. ASSUME NEW k \in 1 .. last PROVE headers'[k].len \in FrameSizes
    <3>1. \A h \in 1 .. image_counter : headers[h].len \in FrameSizes
      BY DEF SpacingInv
    <3>2. k = last \/ k \in 1 .. image_counter
      BY <1>1, <2>2
    <3>3. QED
      BY <2>3, <3>1, <3>2
  <2>0. ASSUME NEW f \in FrameSizes, \A k \in 1 .. last : f <= headers'[k].len
        PROVE  NoneBelow(f)
    BY <1>1, <2>0, <2>2, <2>3 DEF NoneBelow
  <2>5. ASSUME serverEnd = "open", NEW f \in FrameSizes, NoneBelow(f),
               NEW i \in 1 .. last, NEW j \in 1 .. last, i <= j
        PROVE  (j - i) * (HeaderLength + f) <= headers'[j].at - headers'[i].at
    <3>1. PICK m \in Nat : m = HeaderLength + f
      BY <1>1
    <3>2. ASSUME NEW a \in 1 .. image_counter, NEW b \in 1 .. image_counter, a <= b
          PROVE  (b - a) * m <= headers[b].at - headers[a].at
      BY <2>5, <3>1, <3>2 DEF SpacingInv
    <3>3. CASE j \in 1 .. image_counter
      <4>1. i \in 1 .. image_counter
        BY <1>1, <2>5, <3>3
      <4>2. QED
        BY <2>3, <2>5, <3>1, <3>2, <3>3, <4>1
    <3>4. CASE j = last /\ i = last
      <4>1. j - i = 0 /\ 0 * m = 0 /\ headers'[j].at - headers'[i].at = 0
        BY <1>1, <2>2, <2>3, <3>1, <3>4
      <4>2. QED
        BY <3>1, <4>1
    <3>5. CASE j = last /\ i \in 1 .. image_counter
      <4>1. PICK n \in Nat : n = image_counter - i
        BY <1>1, <3>5
      <4>2. image_counter \in 1 .. image_counter /\ i <= image_counter
        BY <1>1, <3>5
      <4>3. n * m <= headers[image_counter].at - headers[i].at
        BY <3>2, <3>5, <4>1, <4>2
      <4>4. /\ headers[image_counter].at \in Nat /\ headers[i].at \in Nat
            /\ headers[image_counter].len \in FrameSizes
            /\ written = headers[image_counter].at + HeaderLength
                           + headers[image_counter].len
        BY <1>1, <1>3, <2>5, <3>5, <4>2, HeaderFacts
           DEF CaptureFrame, IInv, WriterInv, SpacingInv
      <4>5. f <= headers[image_counter].len /\ headers[image_counter].len \in Nat
        BY <1>1, <2>5, <4>2, <4>4 DEF NoneBelow
      <4>6. headers'[j].at = written /\ headers'[i].at = headers[i].at
        BY <2>3, <3>5
      <4>7. j - i = n + 1 /\ (n + 1) * m = n * m + m /\ n * m \in Nat
        BY <1>1, <2>2, <3>5, <4>1, OneMore
      <4>8. n * m + m <= written - headers[i].at
        BY <1>1, <3>1, <4>3, <4>4, <4>5, <4>7
      <4>9. QED
        BY <3>1, <4>6, <4>7, <4>8
    <3>6. QED
      BY <1>1, <2>2, <3>3, <3>4, <3>5
  <2>6. serverEnd' = serverEnd
    BY <1>3 DEF CaptureFrame
  <2>7. \A k \in 1 .. image_counter' : headers'[k].len \in FrameSizes
    BY <2>3, <2>4
  <2>8. serverEnd' = "open" =>
          \A f \in FrameSizes : NoneBelow(f)' =>
            \A i, j \in 1 .. image_counter' : i <= j =>
              (j - i) * (HeaderLength + f) <= headers'[j].at - headers'[i].at
    BY <2>0, <2>3, <2>5, <2>6 DEF NoneBelow
  <2>9. QED
    BY <2>7, <2>8 DEF SpacingInv
<1>4. QED
  BY <1>2, <1>3, HeaderSteps

(* The lag and the way back add to the invariant.                          *)
THEOREM StrongInductive == Spec => []StrongInv
<1>1. Init => RoomInv /\ SpacingInv /\ BackInv
  BY ConnAssumption DEF Init, ConnInit, ServerInit, RoomInv, SpacingInv, BackInv,
     image_counter, ConnAssumption
<1>2. IInv /\ RoomInv /\ SpacingInv /\ BackInv /\ [Next]_vars
        => RoomInv' /\ SpacingInv' /\ BackInv'
  BY RoomStep, SpacingStep, BackStep
<1>3. IInv /\ RoomInv /\ SpacingInv /\ BackInv => StrongInv
  BY DEF StrongInv
<1>4. QED
  BY <1>1, <1>2, <1>3, Inductive, PTL DEF Spec

(* Over a connection that is not reset no more pictures are displayed than *)
(* the way back has room for answers, and one.                             *)
THEOREM DisplayIsBounded == Spec => []DisplayBound
<1>1. StrongInv => DisplayBound
  <2>1. ASSUME StrongInv, clientEnd # "rst" PROVE Len(shown) <= ReplySpace + 1
    <3>1. /\ Len(shown) \in Nat /\ Len(replies) \in Nat /\ ReplySpace \in Nat
          /\ Len(shown) <= Len(replies) + 1 /\ Len(replies) <= ReplySpace
      BY <2>1, ConnAssumption
         DEF ConnAssumption, StrongInv, BackInv, IInv, TypeOK, ConnTypeOK, ServerTypeOK
    <3>2. QED
      BY <3>1
  <2>2. QED
    BY <2>1 DEF DisplayBound
<1>2. QED
  BY <1>1, StrongInductive, PTL

(* What is displayed lags behind the camera by no more than the room       *)
(* between the programs holds of messages as small as the smallest sent.   *)
THEOREM LagIsBounded == Spec => []LagBounded
<1>1. ASSUME IInv, RoomInv, SpacingInv, faults = {}, serverEnd = "open",
             NEW f \in FrameSizes, NoneBelow(f)
      PROVE  Behind * (HeaderLength + f) <= SendSpace
  <2>1. /\ TypeOK /\ LayoutInv /\ WriterInv /\ AlignInv /\ DataInv
        /\ spc \in {"header", "data", "respond"}
        /\ image_counter \in Nat /\ HeaderLength \in Nat /\ SendSpace \in Nat
        /\ written \in Nat /\ taken \in Nat /\ written <= taken + SendSpace
    BY <1>1, HeaderFacts, ConnAssumption
       DEF ConnAssumption, IInv, EndsInv, ServerEnded, TypeOK, ConnTypeOK,
           ServerTypeOK, RoomInv
  <2>2. PICK m \in Nat : m = HeaderLength + f
    BY <1>1, <2>1, ClientAssumption DEF ClientAssumption
  <2>3. PICK s \in 0 .. image_counter : s = Len(shown)
    BY <1>1, ShownCount DEF IInv
  <2>4. PICK b \in Nat : b = s + (IF spc = "data" THEN 2 ELSE 1)
    BY <2>1, <2>3
  <2>5. Behind = image_counter - b
    BY <2>1, <2>3, <2>4 DEF Behind
  <2>6. CASE image_counter <= b
    BY <2>1, <2>2, <2>4, <2>5, <2>6, NoneOrLess
  <2>7. CASE b < image_counter
    <3>1. /\ b \in 1 .. image_counter /\ image_counter \in 1 .. image_counter
          /\ s + 1 \in 1 .. image_counter
      BY <2>1, <2>3, <2>4, <2>7
    <3>2. taken <= headers[b].at
      <4>1. CASE spc = "data"
        <5>1. PICK p \in 1 .. image_counter : p = s + 1
          BY <3>1
        <5>2. /\ taken = headers[p].at + HeaderLength + count_bytes
              /\ count_bytes < headers[p].len /\ count_bytes \in Nat
          BY <1>1, <2>1, <2>3, <4>1, <5>1 DEF AlignInv, DataInv, TypeOK, ServerTypeOK
        <5>3. p < b /\ EndOf(p) <= headers[b].at
          BY <1>1, <2>1, <2>3, <2>4, <3>1, <4>1, <5>1 DEF LayoutInv
        <5>4. /\ EndOf(p) = headers[p].at + HeaderLength + headers[p].len
              /\ headers[p].at \in Nat /\ headers[p].len \in Nat
              /\ headers[b].at \in Nat
          BY <2>1, <3>1, HeaderFacts
        <5>5. QED
          BY <2>1, <5>2, <5>3, <5>4
      <4>2. CASE spc # "data"
        <5>1. b - 1 = s /\ taken = EndOf(s)
          BY <1>1, <2>1, <2>3, <2>4, <4>2 DEF AlignInv
        <5>2. headers[b].at = EndOf(s) /\ EndOf(s) \in Nat
          BY <1>1, <2>1, <2>3, <3>1, <5>1, HeaderFacts DEF LayoutInv
        <5>3. QED
          BY <2>1, <5>1, <5>2
      <4>3. QED
        BY <4>1, <4>2
    <3>3. /\ headers[image_counter].at <= written
          /\ headers[image_counter].at \in Nat /\ headers[b].at \in Nat
      BY <1>1, <2>1, <3>1, HeaderFacts DEF WriterInv
    <3>4. (image_counter - b) * m <= headers[image_counter].at - headers[b].at
      BY <1>1, <2>2, <2>7, <3>1 DEF SpacingInv
    <3>5. PICK x \in Int : x = (image_counter - b) * m
      BY <2>1, <2>2
    <3>6. x <= SendSpace
      BY <2>1, <3>2, <3>3, <3>4, <3>5
    <3>7. QED
      BY <2>2, <2>5, <3>5, <3>6
  <2>8. QED
    BY <2>1, <2>6, <2>7
<1>2. StrongInv => LagBounded
  BY <1>1 DEF StrongInv, LagBounded
<1>3. QED
  BY <1>2, StrongInductive, PTL

-----------------------------------------------------------------------------
(* VideoLink implements FrameDelivery.                                     *)

(* LastShown is a picture of the client, not later than any that may be    *)
(* shown next; while the framing is intact it is the number of all shown.  *)
LEMMA LastShownFacts ==
  ASSUME IInv
  PROVE  /\ LastShown \in Nat /\ LastShown <= image_counter
         /\ \A id \in Nat : (\A i \in 1 .. Len(shown) : shown[i] < id) /\ id > 0
               => LastShown < id
         /\ faults = {} => LastShown = Len(shown)
<1>1. /\ shown \in Seq(Nat) /\ Len(shown) \in Nat /\ image_counter \in Nat
  BY HeaderFacts DEF IInv, TypeOK, ServerTypeOK
<1>2. CASE shown = <<>>
  BY <1>1, <1>2 DEF LastShown
<1>3. CASE shown # <<>>
  <2>1. Len(shown) \in 1 .. Len(shown) /\ LastShown = shown[Len(shown)]
    BY <1>1, <1>3 DEF LastShown
  <2>2. shown[Len(shown)] \in 1 .. image_counter
    BY <2>1 DEF IInv, ShownInv
  <2>3. faults = {} => shown[Len(shown)] = Len(shown)
    BY <2>1 DEF IInv, AlignInv
  <2>4. QED
    BY <1>1, <2>1, <2>2, <2>3
<1>4. QED
  BY <1>2, <1>3

(* Every step of the link is a step of FrameDelivery, or changes nothing   *)
(* that FrameDelivery sees.                                                *)
LEMMA DeliveryStep ==
  ASSUME IInv, [Next]_vars
  PROVE  [Delivery!DeliveryNext]_(Delivery!deliveryVars)
<1> USE DEF Delivery!deliveryVars, Delivery!DeliveryNext
<1>1. CASE CaptureFrame /\ UNCHANGED serverVars
  <2>1. image_counter' = image_counter + 1
    BY <1>1 DEF CaptureFrame, image_counter, IInv, TypeOK, ConnTypeOK
  <2>2. Delivery!Send
    BY <1>1, <2>1 DEF Delivery!Send, serverVars, LastShown
  <2>3. QED
    BY <2>2
<1>2. CASE ReadHeader /\ UNCHANGED clientVars
  <2>1. UNCHANGED <<headers, shown>> /\ spc = "header" /\ Unread >= HeaderLength
    BY <1>2 DEF ReadHeader
  <2>2. UNCHANGED <<image_counter, LastShown>>
    BY <2>1 DEF image_counter, LastShown
  <2>3. CASE faults' = faults
    BY <2>2, <2>3
  <2>4. CASE faults' # faults
    <3>1. /\ "invalid" \in StateResidue
          /\ HeadersAt(taken) # {} /\ faults' # {}
      BY <1>2, <2>4 DEF ReadHeader
    <3>2. CASE faults # {}
      BY <2>2, <3>1, <3>2
    <3>3. CASE faults = {}
      <4>1. /\ serverEnd = "open" /\ Unread > 0
        BY <2>1, HeaderFacts DEF IInv, EndsInv, ServerEnded, TypeOK, ConnTypeOK, Unread
      <4>2. Current \in HeadersAt(taken)
        BY <2>1, <3>3, <4>1, NextHeaderHere
      <4>3. Len(shown) < image_counter
        BY HeaderFacts, <4>2
           DEF HeadersAt, Current, image_counter, IInv, TypeOK, ServerTypeOK
      <4>4. LastShown < image_counter
        BY <3>3, <4>3, LastShownFacts
      <4>5. Delivery!Reject
        BY <2>2, <3>1, <3>3, <4>4 DEF Delivery!Reject
      <4>6. QED
        BY <4>5
    <3>4. QED
      BY <3>2, <3>3
  <2>5. QED
    BY <2>3, <2>4
<1>3. CASE ReadData /\ UNCHANGED clientVars
  <2>1. image_counter' = image_counter /\ image_counter \in Nat
    BY <1>3, HeaderFacts DEF ReadData, TakeOut, image_counter, IInv
  <2>2. \/ UNCHANGED <<shown, faults>>
        \/ /\ spc = "data"
           /\ shown' = IF message.id = 0 THEN shown ELSE Append(shown, message.id)
           /\ faults' = IF count_bytes' > message.len
                          THEN faults \union {"overrun"} ELSE faults
    BY <1>3 DEF ReadData
  <2>3. CASE UNCHANGED <<shown, faults>>
    BY <2>1, <2>3 DEF LastShown
  <2>4. CASE /\ spc = "data"
             /\ shown' = IF message.id = 0 THEN shown ELSE Append(shown, message.id)
             /\ faults' = IF count_bytes' > message.len
                            THEN faults \union {"overrun"} ELSE faults
    <3>1. CASE message.id = 0
      <4>1. faults # {} /\ faults' # {}
        BY <2>4, <3>1 DEF IInv, AlignInv, TypeOK, ServerTypeOK
      <4>2. QED
        BY <2>1, <2>4, <3>1, <4>1 DEF LastShown
    <3>2. CASE message.id # 0
      <4>1. PICK id \in 1 .. image_counter :
              id = message.id /\ \A i \in 1 .. Len(shown) : shown[i] < id
        BY <2>4, <3>2 DEF IInv, DataInv
      <4>2. LastShown' = id
        BY <2>4, <3>2, <4>1 DEF LastShown, IInv, TypeOK, ServerTypeOK
      <4>3. LastShown \in Nat /\ LastShown < id /\ (faults = {} => LastShown = Len(shown))
        BY <2>1, <4>1, LastShownFacts
      <4>4. faults = {} => id = LastShown + 1
        BY <2>4, <4>1, <4>3 DEF IInv, AlignInv
      <4>5. count_bytes' > message.len => id < image_counter
        BY <1>3, <3>2, <4>1, OverrunTakesNext
      <4>6. \/ (faults' = {}) = (faults = {})
            \/ (faults' = {}) = FALSE /\ id < image_counter
        BY <2>4, <4>5
      <4>7. id \in LastShown + 1 .. image_counter
        BY <2>1, <4>1, <4>3
      <4>8. Delivery!Deliver
        BY <2>1, <4>2, <4>4, <4>6, <4>7 DEF Delivery!Deliver
      <4>9. QED
        BY <4>8
    <3>3. QED
      BY <3>1, <3>2
  <2>5. QED
    BY <2>2, <2>3, <2>4
<1>4. CASE UNCHANGED <<headers, shown, faults>>
  BY <1>4 DEF image_counter, LastShown
<1>5. QED
  BY <1>1, <1>2, <1>3, <1>4, QuietSteps

(* The video link is an ordered delivery that may lose its framing.        *)
THEOREM Refinement == Spec => ImplementsDelivery
<1>1. Init => Delivery!DeliveryInit
  BY DEF Init, ConnInit, ServerInit, Delivery!DeliveryInit, image_counter, LastShown
<1>2. IInv /\ [Next]_vars => [Delivery!DeliveryNext]_(Delivery!deliveryVars)
  BY DeliveryStep
<1>3. QED
  BY <1>1, <1>2, Inductive, PTL DEF Spec, ImplementsDelivery, Delivery!DeliverySpec
=============================================================================

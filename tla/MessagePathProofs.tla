------------------------- MODULE MessagePathProofs -------------------------
(***************************************************************************)
(* What is proved of MessagePath, for every value of its constants.        *)
(***************************************************************************)
EXTENDS MessagePathInv, SequenceTheorems, TLAPS

-----------------------------------------------------------------------------
(* The conversions, the constructors and the header.                       *)

LEMMA WordOfType == ASSUME NEW n \in Int PROVE WordOf(n) \in Word
<1> SUFFICES ASSUME NEW k \in 0 .. 3 PROVE (n \div Weight[k + 1]) % 256 \in Byte
  BY DEF WordOf, Word
<1>1. Weight[k + 1] \in {1, 256, 65536, 16777216}
  BY DEF Weight
<1>2. n \div Weight[k + 1] \in Int
  BY <1>1
<1> QED
  BY <1>2 DEF Byte

LEMMA TruncatedType == ASSUME NEW l \in Long PROVE Truncated(l) \in Word
BY DEF Truncated, Long, Word

LEMMA ParamsOfType ==
  ASSUME NEW r \in Int, NEW c \in Int, NEW d \in Int
  PROVE  ParamsOf(r, c, d) \in Params
<1>1. WordOf(r) \in Word /\ WordOf(c) \in Word /\ WordOf(d) \in Word
  BY WordOfType
<1> SUFFICES ASSUME NEW k \in 0 .. 11
             PROVE  (CASE k \in 0 .. 3  -> WordOf(r)[k]
                       [] k \in 4 .. 7  -> WordOf(c)[k - 4]
                       [] k \in 8 .. 11 -> WordOf(d)[k - 8]) \in Byte
  BY DEF ParamsOf, Params
<1>2. CASE k \in 0 .. 3
  BY <1>1, <1>2 DEF Word
<1>3. CASE k \in 4 .. 7
  BY <1>1, <1>3 DEF Word
<1>4. CASE k \in 8 .. 11
  BY <1>1, <1>4 DEF Word
<1> QED
  BY <1>2, <1>3, <1>4

LEMMA NewMessageType ==
  ASSUME NEW n \in Nat, NEW id \in Word, NEW a \in Word, NEW b \in Word, NEW c \in Word
  PROVE  NewMessage(n, id, a, b, c) \in Message
<1>1. rpi \in Word /\ camera1 \in Word
  BY WordOfType DEF rpi, camera1
<1>2. [k \in 0 .. 11 |-> 0] \in Params
  BY DEF Params, Byte
<1>3. <<n, "data">> \in Block /\ <<n, "params">> \in Block
  BY DEF Block
<1> QED
  BY <1>1, <1>2, <1>3 DEF NewMessage, Message

LEMMA BlankType == Blank \in Message
BY WordOfType, NewMessageType DEF Blank

LEMMA HeaderType == ASSUME NEW m \in Message PROVE create_TCP_header(m) \in Header
<1> SUFFICES ASSUME NEW i \in 0 .. 36
             PROVE  create_TCP_header(m)[i] \in Byte
  BY DEF create_TCP_header, Header, TCP_HEADER_LENGTH
<1> USE DEF create_TCP_header, TCP_HEADER_LENGTH, Message, Word, Params
<1>0. \A k \in 1 .. 3 : con[k] \in Byte /\ end[k] \in Byte
  <2> HIDE DEF create_TCP_header, TCP_HEADER_LENGTH, Message, Word, Params
  <2>1. \A k \in 1 .. 3 : con[k] \in Byte
    BY DEF con, Byte
  <2>2. \A k \in 1 .. 3 : end[k] \in Byte
    BY DEF end, Byte
  <2> QED
    BY <2>1, <2>2
<1>1. CASE i \in 0 .. 2
  <2>1. create_TCP_header(m)[i] = con[i + 1] /\ i + 1 \in 1 .. 3
    BY <1>1
  <2> QED
    BY <2>1, <1>0
<1>2. CASE i \in {3, 12, 13}
  BY <1>2
<1>3. CASE i \in 4 .. 7
  BY <1>3
<1>4. CASE i \in 8 .. 11
  BY <1>4
<1>5. CASE i \in 14 .. 17
  BY <1>5
<1>6. CASE i \in 18 .. 21
  BY <1>6
<1>7. CASE i \in 22 .. 33
  BY <1>7
<1>8. CASE i \in 34 .. 36
  <2>1. create_TCP_header(m)[i] = end[i - 33] /\ i - 33 \in 1 .. 3
    BY <1>8
  <2> QED
    BY <2>1, <1>0
<1> HIDE DEF create_TCP_header, TCP_HEADER_LENGTH, Message, Word, Params
<1> QED
  BY <1>1, <1>2, <1>3, <1>4, <1>5, <1>6, <1>7, <1>8

LEMMA ParsedType ==
  ASSUME NEW old \in Message, NEW h \in Header, NEW n \in Nat
  PROVE  Parsed(old, h, n) \in Message
<1>1. \A at \in 0 .. 33 : Field(h, at) \in Word
  BY DEF Field, Header, Word, TCP_HEADER_LENGTH
<1>2. \A w \in Word, b \in Byte : LowByte(w, b) \in Word
  BY DEF LowByte, Word
<1>3. h[3] \in Byte /\ h[12] \in Byte /\ h[13] \in Byte
  BY DEF Header, TCP_HEADER_LENGTH
<1>4. [k \in 0 .. 11 |-> h[22 + k]] \in Params
  BY DEF Header, Params, TCP_HEADER_LENGTH
<1>5. <<n, "data">> \in Block /\ <<n, "params">> \in Block
  BY DEF Block
<1> QED
  BY <1>1, <1>2, <1>3, <1>4, <1>5 DEF Parsed, Message

(* The constructor reverses create_TCP_header, whatever the object's       *)
(* memory held before.                                                     *)
THEOREM ParsedHeader ==
  ASSUME NEW old \in Message, NEW h \in Header, NEW n \in Nat, SegmentsMatch(h)
  PROVE  create_TCP_header(Parsed(old, h, n)) = h
<1> DEFINE m == Parsed(old, h, n)
<1> SUFFICES ASSUME NEW i \in 0 .. 36
             PROVE  create_TCP_header(m)[i] = h[i]
  <2>1. create_TCP_header(m) \in Header
    BY ParsedType, HeaderType
  <2>2. create_TCP_header(m) = [i \in 0 .. 36 |-> create_TCP_header(m)[i]]
    BY <2>1 DEF Header, TCP_HEADER_LENGTH
  <2>3. h = [i \in 0 .. 36 |-> h[i]]
    BY DEF Header, TCP_HEADER_LENGTH
  <2> QED
    BY <2>2, <2>3
<1> USE DEF create_TCP_header, TCP_HEADER_LENGTH, Parsed, Field
<1>1. CASE i \in 0 .. 2
  BY <1>1 DEF SegmentsMatch, StartMatches
<1>2. CASE i \in {3, 12, 13}
  BY <1>2 DEF LowByte, Message, Word
<1>3. CASE i \in 4 .. 7
  BY <1>3
<1>4. CASE i \in 8 .. 11
  BY <1>4
<1>5. CASE i \in 14 .. 17
  BY <1>5
<1>6. CASE i \in 18 .. 21
  BY <1>6
<1>7. CASE i \in 22 .. 33
  BY <1>7
<1>8. CASE i \in 34 .. 36
  <2>1. i - 34 \in 0 .. 2 /\ 34 + (i - 34) = i /\ (i - 34) + 1 = i - 33
    BY <1>8
  <2>2. h[i] = end[i - 33]
    BY <2>1 DEF SegmentsMatch, EndMatches
  <2> QED
    BY <1>8, <2>2
<1> HIDE DEF create_TCP_header, TCP_HEADER_LENGTH, Parsed, Field, m
<1> QED
  BY <1>1, <1>2, <1>3, <1>4, <1>5, <1>6, <1>7, <1>8

(* Where the bytes of the numbers are.                                     *)
LEMMA NumberBytes ==
  ASSUME NEW m \in Message, NEW k \in 0 .. 3
  PROVE  /\ create_TCP_header(m)[8 + k] = m.message_id[k]
         /\ create_TCP_header(m)[4 + k] = m.sender_time[k]
         /\ create_TCP_header(m)[14 + k] = m.sensor_time[k]
         /\ create_TCP_header(m)[18 + k] = m.data_length[k]
<1> USE DEF create_TCP_header, TCP_HEADER_LENGTH
<1>1. create_TCP_header(m)[8 + k] = m.message_id[k]
  OBVIOUS
<1>2. create_TCP_header(m)[4 + k] = m.sender_time[k]
  OBVIOUS
<1>3. create_TCP_header(m)[14 + k] = m.sensor_time[k]
  OBVIOUS
<1>4. create_TCP_header(m)[18 + k] = m.data_length[k]
  OBVIOUS
<1> HIDE DEF create_TCP_header
<1> QED
  BY <1>1, <1>2, <1>3, <1>4

(* The bytes of the numbers and of the enums in a header.                  *)
LEMMA HeaderFields ==
  ASSUME NEW m \in Message
  PROVE  /\ Field(create_TCP_header(m), 8) = m.message_id
         /\ Field(create_TCP_header(m), 4) = m.sender_time
         /\ Field(create_TCP_header(m), 14) = m.sensor_time
         /\ Field(create_TCP_header(m), 18) = m.data_length
         /\ create_TCP_header(m)[3] = m.sender[0]
         /\ create_TCP_header(m)[12] = m.sensor_platform[0]
         /\ create_TCP_header(m)[13] = m.sensor_type[0]
<1>1. \A v, w \in Word : (\A k \in 0 .. 3 : v[k] = w[k]) => v = w
  BY DEF Word
<1>2. \A at \in 0 .. 33 : Field(create_TCP_header(m), at) \in Word
  BY HeaderType DEF Field, Header, Word, TCP_HEADER_LENGTH
<1>3. ASSUME NEW k \in 0 .. 3
      PROVE  /\ Field(create_TCP_header(m), 8)[k] = m.message_id[k]
             /\ Field(create_TCP_header(m), 4)[k] = m.sender_time[k]
             /\ Field(create_TCP_header(m), 14)[k] = m.sensor_time[k]
             /\ Field(create_TCP_header(m), 18)[k] = m.data_length[k]
  BY NumberBytes DEF Field
<1>4. /\ create_TCP_header(m)[3] = m.sender[0]
      /\ create_TCP_header(m)[12] = m.sensor_platform[0]
      /\ create_TCP_header(m)[13] = m.sensor_type[0]
  BY DEF create_TCP_header, TCP_HEADER_LENGTH
<1> QED
  BY <1>1, <1>2, <1>3, <1>4 DEF Message

(* create_TCP_header puts the segments where the constructor looks.        *)
LEMMA SegmentsMade == ASSUME NEW m PROVE SegmentsMatch(create_TCP_header(m))
BY DEF SegmentsMatch, StartMatches, EndMatches, create_TCP_header, TCP_HEADER_LENGTH

(* Two messages with the same header agree in their numbers and parameters.*)
LEMMA HeaderKeepsFields ==
  ASSUME NEW a \in Message, NEW b \in Message,
         create_TCP_header(a) = create_TCP_header(b)
  PROVE  /\ a.message_id = b.message_id
         /\ a.sender_time = b.sender_time
         /\ a.sensor_time = b.sensor_time
         /\ a.data_length = b.data_length
         /\ a.special_params = b.special_params
<1> DEFINE A == create_TCP_header(a)
           B == create_TCP_header(b)
<1>1. ASSUME NEW m \in Message, NEW k \in 0 .. 3
      PROVE  /\ create_TCP_header(m)[8 + k] = m.message_id[k]
             /\ create_TCP_header(m)[4 + k] = m.sender_time[k]
             /\ create_TCP_header(m)[14 + k] = m.sensor_time[k]
             /\ create_TCP_header(m)[18 + k] = m.data_length[k]
  BY NumberBytes
<1>2. ASSUME NEW m \in Message, NEW k \in 0 .. 11
      PROVE  create_TCP_header(m)[22 + k] = m.special_params[k]
  BY DEF create_TCP_header, TCP_HEADER_LENGTH
<1>3. \A k \in 0 .. 3 : /\ a.message_id[k] = b.message_id[k]
                       /\ a.sender_time[k] = b.sender_time[k]
                       /\ a.sensor_time[k] = b.sensor_time[k]
                       /\ a.data_length[k] = b.data_length[k]
  BY <1>1
<1>4. \A k \in 0 .. 11 : a.special_params[k] = b.special_params[k]
  BY <1>2
<1>5. \A v, w \in Word : (\A k \in 0 .. 3 : v[k] = w[k]) => v = w
  BY DEF Word
<1>6. \A v, w \in Params : (\A k \in 0 .. 11 : v[k] = w[k]) => v = w
  BY DEF Params
<1> QED
  BY <1>3, <1>4, <1>5, <1>6 DEF Message

(* What follows the 25 bytes of a test image's header does not end in the  *)
(* end segment.                                                            *)
LEMMA ShortHeaderInvalid ==
  ASSUME outgoing \in Message, outgoing.message_id = WordOf(256),
         NEW s \in Followers, NEW h \in Header
  PROVE  ShortHeader(h, s) \in Header /\ ~ SegmentsMatch(ShortHeader(h, s))
<1> DEFINE next(t) == create_TCP_header([outgoing EXCEPT !.sender_time = Truncated(t)])
<1>1. ASSUME NEW t \in Times
      PROVE  next(t) \in Header /\ next(t)[9] = 1
  <2>1. [outgoing EXCEPT !.sender_time = Truncated(t)] \in Message
    BY TruncatedType, SenderAssumption DEF Message
  <2>2. WordOf(256)[1] = 1
    BY DEF WordOf, Weight
  <2>3. next(t)[9] = [outgoing EXCEPT !.sender_time = Truncated(t)].message_id[1]
    BY DEF create_TCP_header, TCP_HEADER_LENGTH
  <2>4. [outgoing EXCEPT !.sender_time = Truncated(t)].message_id = outgoing.message_id
    BY DEF Message
  <2> QED
    BY <2>1, <2>2, <2>3, <2>4, HeaderType
<1>2. s \in Params /\ \E i \in 0 .. 2 : s[9 + i] # end[i + 1]
  <2>1. CASE s \in FileStarts
    BY <2>1, SenderAssumption, FilesArePictures
  <2>2. CASE \E t \in Times : s = [k \in 0 .. 11 |-> next(t)[k]]
    <3>1. PICK t \in Times : s = [k \in 0 .. 11 |-> next(t)[k]]
      BY <2>2
    <3> HIDE DEF next
    <3>2. s \in Params
      BY <3>1, <1>1 DEF Params, Header, TCP_HEADER_LENGTH
    <3>3. s[9 + 0] = 1 /\ end[0 + 1] = 101
      BY <3>1, <1>1 DEF end
    <3> QED
      BY <3>2, <3>3
  <2> QED
    BY <2>1, <2>2 DEF Followers
<1>3. ShortHeader(h, s) \in Header
  BY <1>2 DEF ShortHeader, Header, Params, TCP_HEADER_LENGTH
<1>4. \A i \in 0 .. 2 : ShortHeader(h, s)[34 + i] = s[9 + i]
  BY DEF ShortHeader, TCP_HEADER_LENGTH
<1> QED
  BY <1>2, <1>3, <1>4 DEF SegmentsMatch, EndMatches

-----------------------------------------------------------------------------
(* The inductive invariant.                                                *)

LEMMA InitInv == Init => IInv
<1> SUFFICES ASSUME Init PROVE IInv
  OBVIOUS
<1> USE DEF Init, SenderInit, ReceiverInit
<1>1. TypeOK
  <2>1. SenderTypeOK
    BY BlankType DEF SenderTypeOK
  <2>2. got \in Sent
    BY BlankType, HeaderType DEF Sent
  <2>3. Startup \in Block
    BY DEF Startup, Block
  <2>4. ReceiverTypeOK
    BY <2>2, <2>3, ReceiverAssumption DEF ReceiverTypeOK
  <2> QED
    BY <2>1, <2>4 DEF TypeOK
<1>2. WireInv
  BY DEF WireInv, OutgoingInv, Honest
<1>3. ParsedInv
  BY DEF ParsedInv, IsParsed
<1>4. SenderInv
  BY DEF SenderInv, HeadersMade
<1>5. HeapInv
  BY DEF HeapInv, Responses, FirstFrame
<1>6. PointerInv
  BY ReceiverAssumption DEF PointerInv, Buffers
<1>7. MisuseInv
  BY DEF MisuseInv
<1> QED
  BY <1>1, <1>2, <1>3, <1>4, <1>5, <1>6, <1>7 DEF IInv

(* Each action of the sender keeps the part of the invariant it can touch. *)

LEMMA CreateMessageInv ==
  ASSUME IInv, create_message
  PROVE  SenderTypeOK' /\ SenderInv' /\ OutgoingInv'
<1> USE DEF IInv, TypeOK, SenderTypeOK, create_message
<1>1. SenderTypeOK'
  <2>1. PICK p \in Pictures, t \in Times :
          outgoing' = set_special_params(
                        NewMessage(messages', WordOf(messages'), WordOf(0), Truncated(t),
                                   WordOf(p.rows * p.cols * p.depth)),
                        ParamsOf(p.rows, p.cols, p.depth))
    OBVIOUS
  <2>2. messages' \in Nat
    OBVIOUS
  <2>3. p.rows \in Int /\ p.cols \in Int /\ p.depth \in Int
    BY SenderAssumption
  <2>4. p.rows * p.cols * p.depth \in Int
    BY <2>3
  <2>5. NewMessage(messages', WordOf(messages'), WordOf(0), Truncated(t),
                   WordOf(p.rows * p.cols * p.depth)) \in Message
    <3>1. /\ WordOf(messages') \in Word /\ WordOf(0) \in Word
          /\ WordOf(p.rows * p.cols * p.depth) \in Word
      BY <2>2, <2>4, WordOfType
    <3>2. Truncated(t) \in Word
      BY TruncatedType, SenderAssumption
    <3> QED
      BY <2>2, <3>1, <3>2, NewMessageType
  <2>6. outgoing' \in Message
    <3> HIDE DEF create_message
    <3>1. ParamsOf(p.rows, p.cols, p.depth) \in Params
      BY <2>3, ParamsOfType
    <3> QED
      BY <2>1, <2>5, <3>1 DEF set_special_params, Message
  <2>7. sheap' \subseteq Block
    BY <2>2 DEF Blocks, Block
  <2> QED
    BY <2>2, <2>6, <2>7
<1>2. SenderInv'
  BY DEF SenderInv, HeadersMade, Blocks
<1>3. OutgoingInv'
  <2>1. PICK p \in Pictures, t \in Times :
          outgoing' = set_special_params(
                        NewMessage(messages', WordOf(messages'), WordOf(0), Truncated(t),
                                   WordOf(p.rows * p.cols * p.depth)),
                        ParamsOf(p.rows, p.cols, p.depth))
    OBVIOUS
  <2> HIDE DEF create_message
  <2>2. Describes(outgoing', p)
    BY <2>1 DEF set_special_params, NewMessage, Describes
  <2>3. ContentOf(outgoing')
          = Content(WordOf(messages'), WordOf(0), Truncated(t),
                    WordOf(p.rows * p.cols * p.depth),
                    ParamsOf(p.rows, p.cols, p.depth))
    BY <2>1 DEF set_special_params, NewMessage, ContentOf, Content
  <2>4. ContentOf(outgoing') \in PictureContents[messages']
    <3>1. messages' \in Nat
      BY DEF create_message
    <3> QED
      BY <2>3, <3>1 DEF PictureContents
  <2>5. program' = "camera"
    BY DEF create_message
  <2> QED
    BY <2>2, <2>4, <2>5 DEF OutgoingInv, Describes, ContentOf
<1> QED
  BY <1>1, <1>2, <1>3

LEMMA ReadImageInv ==
  ASSUME IInv, read_image
  PROVE  SenderTypeOK' /\ SenderInv' /\ OutgoingInv'
<1> USE DEF IInv, TypeOK, SenderTypeOK, read_image
<1>1. PICK now \in Times, sensor \in Times, imagelen \in FileLengths :
        outgoing' = NewMessage(messages', WordOf(256), Truncated(now),
                               Truncated(sensor), Truncated(imagelen))
  OBVIOUS
<1>2. messages' \in Nat
  OBVIOUS
<1>3. outgoing' \in Message
  BY <1>1, <1>2, WordOfType, TruncatedType, SenderAssumption, NewMessageType
<1>4. PICK file \in SUBSET {"image"} :
        sheap' = sheap \union Blocks(messages', {"data", "params"} \union file)
  OBVIOUS
<1>5. sheap' \subseteq Block
  BY <1>2, <1>4 DEF Blocks, Block
<1>6. SenderTypeOK'
  BY <1>2, <1>3, <1>5
<1>7. SenderInv'
  BY <1>4 DEF SenderInv, HeadersMade, Blocks
<1> QED
  BY <1>1, <1>6, <1>7 DEF NewMessage, OutgoingInv

LEMMA SendMessageInv ==
  ASSUME IInv, send_message
  PROVE  SenderTypeOK' /\ SenderInv' /\ (\A i \in 1 .. Len(wire') : HonestlySent(wire'[i]))
<1> USE DEF IInv, TypeOK, SenderTypeOK, send_message
<1> DEFINE h == create_TCP_header(outgoing)
<1>1. h \in Header
  BY HeaderType
<1>2. wire' \in Seq(Sent) /\ \A i \in 1 .. Len(wire') : HonestlySent(wire'[i])
  <2>1. CASE UNCHANGED wire
    BY <2>1 DEF WireInv
  <2>2. ASSUME NEW w \in Sent, HonestlySent(w), wire' = Append(wire, w)
        PROVE  wire' \in Seq(Sent) /\ \A i \in 1 .. Len(wire') : HonestlySent(wire'[i])
    <3> HIDE DEF HonestlySent, send_message
    <3>1. Len(wire') = Len(wire) + 1 /\ wire'[Len(wire) + 1] = w
      BY <2>2
    <3>2. \A i \in 1 .. Len(wire) : wire'[i] = wire[i]
      BY <2>2
    <3> QED
      BY <2>2, <3>1, <3>2 DEF WireInv
  <2>3. CASE /\ program = "camera"
             /\ wire' = Append(wire, [bytes |-> h, origin |-> program, message |-> outgoing])
    <3> DEFINE w == [bytes |-> h, origin |-> program, message |-> outgoing]
    <3>1. w \in Sent
      BY <1>1, <2>3 DEF Sent
    <3>2. \E p \in Pictures : Describes(outgoing, p)
      BY <2>3 DEF WireInv, OutgoingInv
    <3>3. HonestlySent(w)
      BY <2>3, <3>2 DEF HonestlySent, Honest
    <3> QED
      BY <2>2, <2>3, <3>1, <3>3
  <2>4. CASE /\ program = "test"
             /\ \E s \in Followers :
                  wire' = Append(wire, [bytes |-> ShortHeader(h, s), origin |-> program,
                                        message |-> outgoing])
    <3>1. PICK s \in Followers :
                  wire' = Append(wire, [bytes |-> ShortHeader(h, s), origin |-> program,
                                        message |-> outgoing])
      BY <2>4
    <3> DEFINE w == [bytes |-> ShortHeader(h, s), origin |-> program, message |-> outgoing]
    <3>2. outgoing.message_id = WordOf(256)
      BY <2>4 DEF WireInv, OutgoingInv
    <3>3. ShortHeader(h, s) \in Header /\ ~ SegmentsMatch(ShortHeader(h, s))
      BY <1>1, <3>2, ShortHeaderInvalid
    <3>4. w \in Sent /\ HonestlySent(w)
      BY <2>4, <3>3 DEF Sent, HonestlySent, Honest
    <3> QED
      BY <2>2, <3>1, <3>4
  <2> QED
    BY <2>1, <2>3, <2>4
<1>3. sheap' \subseteq Block
  BY DEF Blocks, Block
<1>4. SenderTypeOK'
  BY <1>2, <1>3
<1>5. SenderInv'
  <2>1. messages > 0 /\ HeadersMade = messages - 1 /\ HeadersMade' = messages
    BY DEF SenderInv, HeadersMade
  <2>2. 1 .. messages = (1 .. (messages - 1)) \union {messages}
    BY <2>1
  <2> QED
    BY <2>1, <2>2 DEF SenderInv, Blocks
<1> QED
  BY <1>2, <1>4, <1>5

LEMMA DeleteMessageInv ==
  ASSUME IInv, delete_message
  PROVE  SenderTypeOK' /\ SenderInv'
<1> USE DEF IInv, TypeOK, SenderTypeOK, delete_message
<1>1. SenderTypeOK'
  OBVIOUS
<1>2. HeadersMade' = messages /\ HeadersMade = messages
  BY DEF HeadersMade
<1>3. \A x \in sheap' : x[2] \notin {"object", "data", "params"}
  <2>1. SUFFICES ASSUME NEW x \in sheap', x[2] \in {"object", "data", "params"} PROVE FALSE
    OBVIOUS
  <2>2. x \in sheap /\ x \in Block /\ x[1] = messages
    BY <2>1 DEF SenderInv
  <2>3. x = <<messages, x[2]>>
    BY <2>2 DEF Block
  <2> QED
    BY <2>1, <2>2, <2>3 DEF Blocks
<1>4. SenderInv'
  BY <1>2, <1>3 DEF SenderInv, Blocks
<1> QED
  BY <1>1, <1>4

LEMMA SenderStepInv == ASSUME IInv, SenderStep, UNCHANGED receiverVars PROVE IInv'
<1> USE DEF receiverVars
<1>1. /\ SenderTypeOK' /\ SenderInv'
      /\ \A i \in 1 .. Len(wire') : HonestlySent(wire'[i])
      /\ OutgoingInv'
  <2>1. CASE create_message
    BY <2>1, CreateMessageInv DEF create_message, IInv, WireInv
  <2>2. CASE read_image
    BY <2>2, ReadImageInv DEF read_image, IInv, WireInv
  <2>3. CASE send_message
    BY <2>3, SendMessageInv DEF send_message, OutgoingInv
  <2>4. CASE delete_message
    BY <2>4, DeleteMessageInv DEF delete_message, IInv, WireInv, OutgoingInv
  <2>5. CASE SenderEnds
    BY <2>5 DEF SenderEnds, IInv, TypeOK, SenderTypeOK, WireInv, OutgoingInv, SenderInv
  <2> QED
    BY <2>1, <2>2, <2>3, <2>4, <2>5 DEF SenderStep
<1>2. ReceiverTypeOK'
  BY DEF IInv, TypeOK, ReceiverTypeOK
<1>3. Honest(got)'
  BY DEF IInv, WireInv, Honest
<1>4. ParsedInv' /\ HeapInv' /\ PointerInv' /\ MisuseInv'
  BY DEF IInv, ParsedInv, IsParsed, Overrun, HeapInv, PointerInv, MisuseInv, Buffers
<1> QED
  BY <1>1, <1>2, <1>3, <1>4 DEF IInv, TypeOK, WireInv

(* The receiver's actions.                                                 *)

LEMMA ReadHeaderInv ==
  ASSUME IInv, NEW sent \in Sent, Honest(sent), ReadHeader(sent)
  PROVE  ReceiverTypeOK' /\ Honest(got)' /\ ParsedInv' /\ HeapInv' /\ PointerInv' /\ MisuseInv'
<1> USE DEF ReadHeader
<1>1. /\ turn \in Nat /\ turn' = turn + 1 /\ new_message \in Message
      /\ rheap \subseteq Block /\ sent.bytes \in Header /\ rpc = "header"
  BY DEF IInv, TypeOK, ReceiverTypeOK, Sent
<1>2. Honest(got)'
  BY DEF Honest
<1>3. CASE Valid(sent.bytes)
  <2>1. /\ new_message' = Parsed(new_message, sent.bytes, turn')
        /\ rheap' = rheap \union Own(turn') /\ rejected' = rejected
    BY <1>3 DEF Own
  <2>2. new_message' \in Message
    BY <1>1, <2>1, ParsedType
  <2>3. ReceiverTypeOK'
    BY <1>1, <2>1, <2>2 DEF IInv, TypeOK, ReceiverTypeOK, Own, Blocks, Block
  <2>4. ParsedInv'
    BY <1>1, <1>3, <2>1, ParsedHeader DEF ParsedInv, Valid, SegmentsMatch
  <2>5. HeapInv'
    BY <1>1, <2>1 DEF IInv, HeapInv, FirstFrame
  <2>6. PointerInv'
    <3>1. /\ new_message'.data_buffer = <<turn', "data">>
          /\ new_message'.special_param_buffer = <<turn', "params">>
      BY <2>1 DEF Parsed
    <3>2. ~ rejected => global_test_frame \in {Startup} \union (1 .. turn) \X {"data"}
      BY DEF IInv, PointerInv
    <3>3. ~ rejected => global_test_frame # <<turn', "data">>
      BY <1>1, <3>2 DEF Startup
    <3>4. ~ rejected => (global_test_frame = Startup <=> Startup \in rheap')
      BY <2>1 DEF IInv, PointerInv, Own, Blocks, Startup
    <3> QED
      BY <1>1, <2>1, <3>1, <3>2, <3>3, <3>4 DEF PointerInv
  <2>7. MisuseInv'
    BY <1>1, <2>1 DEF IInv, MisuseInv
  <2> QED
    BY <1>2, <2>3, <2>4, <2>5, <2>6, <2>7
<1>4. CASE ~ Valid(sent.bytes)
  <2>1. /\ new_message' = [new_message EXCEPT !.state = "invalid"]
        /\ rejected' = TRUE /\ rheap' = rheap
    BY <1>4
  <2>2. /\ new_message' \in Message /\ new_message'.state = "invalid"
        /\ new_message'.special_param_buffer = new_message.special_param_buffer
    BY <1>1, <2>1 DEF Message
  <2>3. ReceiverTypeOK'
    BY <1>1, <2>1, <2>2 DEF IInv, TypeOK, ReceiverTypeOK
  <2>4. ParsedInv' /\ HeapInv' /\ PointerInv'
    BY <1>1, <2>1, <2>2 DEF ParsedInv, IsParsed, HeapInv, PointerInv
  <2>5. MisuseInv'
    <3>1. "pointer" \notin misused => ~ rejected
      BY <1>1 DEF IInv, MisuseInv
    <3>2. ~ rejected => rheap = Responses(turn) \union FirstFrame(turn)
      BY <1>1 DEF IInv, HeapInv
    <3>3. ~ rejected => new_message.special_param_buffer \in {NULL, Wild, <<turn, "params">>}
      BY DEF IInv, PointerInv, Buffers
    <3>4. \A x \in {NULL, Wild, <<turn, "params">>} :
            x \notin Responses(turn) \union FirstFrame(turn)
      BY DEF NULL, Wild, Startup, Responses, FirstFrame
    <3> QED
      BY <2>1, <2>2, <3>1, <3>2, <3>3, <3>4 DEF MisuseInv
  <2> QED
    BY <1>2, <2>3, <2>4, <2>5
<1> QED
  BY <1>3, <1>4

LEMMA OwnNotKept ==
  ASSUME NEW n \in Nat, NEW k \in Nat
  PROVE  Own(n) \intersect Responses(k) = {}
BY DEF Own, Blocks, Responses

LEMMA StartupNotOwn == ASSUME NEW n \in Nat PROVE Startup \notin Own(n) \union Responses(n)
BY DEF Own, Blocks, Responses, Startup

(* A later part of what is on the wire is as honest as the whole.          *)
LEMMA LaterWire ==
  ASSUME wire \in Seq(Sent), NEW lost \in 0 .. Len(wire),
         \A i \in 1 .. Len(wire) : HonestlySent(wire[i])
  PROVE  LET rest == SubSeq(wire, lost + 1, Len(wire)) IN
           /\ rest \in Seq(Sent)
           /\ \A i \in 1 .. Len(rest) : HonestlySent(rest[i])
<1> DEFINE rest == SubSeq(wire, lost + 1, Len(wire))
<1>1. Len(wire) \in Nat
  OBVIOUS
<1>2. /\ rest \in Seq(Sent) /\ Len(rest) = Len(wire) - lost
      /\ \A i \in 1 .. Len(rest) : rest[i] = wire[lost + i]
  BY <1>1, SubSeqProperties
<1> HIDE DEF rest
<1>3. \A i \in 1 .. Len(rest) : lost + i \in 1 .. Len(wire)
  BY <1>1, <1>2
<1>4. \A i \in 1 .. Len(rest) : HonestlySent(rest[i])
  BY <1>2, <1>3
<1> QED
  BY <1>2, <1>4 DEF rest

(* While no header is rejected the object has its own two blocks.          *)
LEMMA OwnBuffers ==
  ASSUME IInv, ~ rejected, rpc \in {"message", "picture", "answer", "end"}
  PROVE  /\ turn \in Nat /\ turn > 0 /\ Buffers = Own(turn) /\ Buffers \subseteq rheap
         /\ new_message.data_buffer = <<turn, "data">>
         /\ new_message.data_buffer \in rheap
<1>1. turn \in Nat /\ turn > 0 /\ Own(turn) \subseteq rheap
  BY DEF IInv, TypeOK, ReceiverTypeOK, HeapInv
<1>2. Buffers = {<<turn, "data">>, <<turn, "params">>}
  BY <1>1 DEF IInv, PointerInv, Buffers
<1>3. Own(turn) = {<<turn, "data">>, <<turn, "params">>}
  BY DEF Own, Blocks
<1>4. new_message.data_buffer = <<turn, "data">>
  BY <1>1 DEF IInv, PointerInv
<1> QED
  BY <1>1, <1>2, <1>3, <1>4

LEMMA ReadMessageInv ==
  ASSUME IInv, ReadMessage, UNCHANGED <<program, spc, outgoing, messages, sheap>>
  PROVE  IInv'
<1> USE DEF ReadMessage
<1>1. PICK lost \in 0 .. Len(wire), behind \in SUBSET {"overrun"} :
        /\ wire' = SubSeq(wire, lost + 1, Len(wire))
        /\ misused' = misused \union Misuse(Buffers) \union behind
  OBVIOUS
<1>2. wire' \in Seq(Sent) /\ \A i \in 1 .. Len(wire') : HonestlySent(wire'[i])
  <2>1. wire \in Seq(Sent) /\ \A i \in 1 .. Len(wire) : HonestlySent(wire[i])
    BY DEF IInv, TypeOK, SenderTypeOK, WireInv
  <2> QED
    BY <1>1, <2>1, LaterWire
<1>3. Misuse(Buffers) \subseteq {"pointer"}
  BY DEF Misuse
<1>4. TypeOK'
  BY <1>1, <1>2, <1>3 DEF IInv, TypeOK, SenderTypeOK, ReceiverTypeOK
<1>5. WireInv'
  BY <1>2 DEF IInv, WireInv, OutgoingInv, Honest, Describes
<1>6. ParsedInv' /\ SenderInv' /\ HeapInv' /\ PointerInv'
  BY <1>1 DEF IInv, ParsedInv, IsParsed, Overrun, SenderInv, HeadersMade, HeapInv, PointerInv,
     Buffers
<1>7. MisuseInv'
  <2>1. "pointer" \in misused' => rejected
    <3>1. ~ rejected => Misuse(Buffers) = {} /\ "pointer" \notin misused
      BY OwnBuffers DEF Misuse, IInv, MisuseInv
    <3> QED
      BY <1>1, <3>1
  <2>2. rejected => "pointer" \in misused'
    BY <1>1 DEF IInv, MisuseInv, Misuse, Buffers
  <2> QED
    BY <2>1, <2>2 DEF MisuseInv
<1> QED
  BY <1>4, <1>5, <1>6, <1>7 DEF IInv

LEMMA ReceiverStepInv == ASSUME IInv, ReceiverStep, UNCHANGED senderVars PROVE IInv'
<1> USE DEF senderVars
<1>1. SenderTypeOK' /\ SenderInv' /\ OutgoingInv'
      /\ \A i \in 1 .. Len(wire') : HonestlySent(wire'[i])
  BY DEF IInv, TypeOK, SenderTypeOK, SenderInv, HeadersMade, WireInv, OutgoingInv, Describes
<1>2. /\ got' = got /\ new_message' = new_message /\ turn' = turn /\ rejected' = rejected
      /\ rpc' # "message" /\ misused \subseteq misused'
  BY DEF ReceiverStep, ShowPicture, SendResponse, DestroyMessage, ReceiverEnds
<1>3. Honest(got)' /\ ParsedInv'
  BY <1>2 DEF IInv, WireInv, Honest, ParsedInv, IsParsed, Overrun
<1>4. turn \in Nat /\ Buffers' = Buffers
  BY <1>2 DEF IInv, TypeOK, ReceiverTypeOK, Buffers
<1>5. ~ rejected /\ rpc \in {"message", "picture", "answer", "end"} =>
        /\ turn > 0 /\ Buffers = Own(turn) /\ Buffers \subseteq rheap
        /\ new_message.data_buffer = <<turn, "data">>
        /\ new_message.data_buffer \in rheap
  BY OwnBuffers
<1>6. ReceiverTypeOK' /\ HeapInv' /\ PointerInv' /\ MisuseInv'
  <2> USE DEF IInv, TypeOK, ReceiverTypeOK
  <2>2. CASE ShowPicture
    <3> USE <2>2 DEF ShowPicture
    <3> DEFINE frame == IF TooSmall(new_message) THEN {"frame"} ELSE {}
    <3>0. /\ misused' = misused \union Misuse({global_test_frame'}) \union frame
          /\ frame \subseteq {"frame"}
      OBVIOUS
    <3> HIDE DEF frame
    <3>1. "pointer" \in misused' => rejected
      <4>1. ~ rejected => Misuse({global_test_frame'}) = {} /\ "pointer" \notin misused
        BY <1>5 DEF Misuse, MisuseInv
      <4> QED
        BY <3>0, <4>1
    <3>2. ReceiverTypeOK'
      BY <3>0 DEF Message, Misuse
    <3>3. PointerInv'
      <4>1. ~ rejected => global_test_frame' = <<turn, "data">> /\ turn > 0
        BY <1>5
      <4>2. <<turn, "data">> # Startup /\ Startup \notin rheap'
        BY DEF Startup
      <4>3. ~ rejected => <<turn, "data">> \in (1 .. turn) \X {"data"}
        BY <1>4, <4>1
      <4>4. ~ rejected => /\ new_message.data_buffer = <<turn, "data">>
                          /\ new_message.special_param_buffer = <<turn, "params">>
        BY <1>4, <4>1 DEF PointerInv
      <4>5. rpc' = "answer" /\ rejected' = rejected /\ new_message' = new_message /\ turn' = turn
        BY <1>2
      <4> HIDE DEF ShowPicture
      <4> QED
        BY <4>1, <4>2, <4>3, <4>4, <4>5 DEF PointerInv
    <3>4. HeapInv'
      <4>1. ~ rejected =>
              /\ turn > 0
              /\ rheap = Responses(turn - 1) \union Own(turn) \union FirstFrame(turn - 1)
        BY DEF HeapInv
      <4>2. Startup \notin Own(turn) \union Responses(turn - 1)
        BY <1>4 DEF Own, Blocks, Responses, Startup
      <4>3. FirstFrame(turn - 1) \subseteq {Startup}
        BY DEF FirstFrame
      <4>4. ~ rejected => rheap' = Responses(turn - 1) \union Own(turn)
        BY <4>1, <4>2, <4>3
      <4> QED
        BY <1>2, <4>1, <4>4 DEF HeapInv
    <3>5. rejected => "pointer" \in misused'
      BY <3>0 DEF MisuseInv
    <3> QED
      BY <1>2, <3>1, <3>2, <3>3, <3>4, <3>5 DEF MisuseInv
  <2>3. CASE SendResponse
    <3> USE <2>3 DEF SendResponse
    <3>1. rheap' \subseteq Block
      BY DEF Blocks, Block
    <3>2. turn > 0 => Responses(turn) = Responses(turn - 1) \union Blocks(turn, {"response"})
      BY <1>4 DEF Responses, Blocks
    <3>3. HeapInv'
      BY <1>2, <3>2 DEF HeapInv
    <3>4. Startup \in rheap' <=> Startup \in rheap
      BY DEF Blocks, Startup
    <3>5. PointerInv' /\ MisuseInv'
      BY <1>2, <1>4, <3>4 DEF PointerInv, MisuseInv
    <3> QED
      BY <1>2, <3>1, <3>3, <3>5
  <2>4. CASE DestroyMessage
    <3> USE <2>4 DEF DestroyMessage
    <3>0. Misuse(Buffers \ {NULL}) \subseteq {"pointer"}
      BY DEF Misuse
    <3>1. "pointer" \in misused' => rejected
      <4>1. ~ rejected => Misuse(Buffers \ {NULL}) = {} /\ "pointer" \notin misused
        BY <1>5 DEF Misuse, MisuseInv
      <4> QED
        BY <4>1
    <3>2. HeapInv'
      BY <1>2, <1>4, <1>5, OwnNotKept DEF HeapInv, FirstFrame
    <3>3. PointerInv'
      <4>1. ~ rejected => Startup \notin Buffers
        BY <1>4, <1>5, StartupNotOwn
      <4> QED
        BY <1>2, <1>4, <1>5, <4>1 DEF PointerInv
    <3>4. ReceiverTypeOK'
      BY <3>0
    <3>5. rejected => "pointer" \in misused'
      BY DEF MisuseInv
    <3> QED
      BY <1>2, <3>1, <3>2, <3>3, <3>4, <3>5 DEF MisuseInv
  <2>5. CASE ReceiverEnds
    <3> USE <2>5 DEF ReceiverEnds
    <3>1. PointerInv' /\ HeapInv'
      BY <1>2, <1>4 DEF PointerInv, HeapInv
    <3> QED
      BY <1>2, <3>1 DEF MisuseInv
  <2> QED
    BY <2>2, <2>3, <2>4, <2>5 DEF ReceiverStep
<1> QED
  BY <1>1, <1>3, <1>6 DEF IInv, TypeOK, WireInv

LEMMA NextInv == ASSUME IInv, [Next]_vars PROVE IInv'
<1> DEFINE others == <<program, spc, outgoing, messages, sheap>>
<1>1. CASE SenderStep /\ UNCHANGED receiverVars
  BY <1>1, SenderStepInv
<1>2. CASE ReceiverStep /\ UNCHANGED senderVars
  BY <1>2, ReceiverStepInv
<1>3. CASE (ReadSentHeader \/ ReadStrayHeader) /\ UNCHANGED others
  <2>1. \E sent \in Sent : Honest(sent) /\ ReadHeader(sent)
    <3>1. CASE ReadSentHeader
      BY <3>1 DEF ReadSentHeader, IInv, TypeOK, SenderTypeOK, WireInv, HonestlySent
    <3>2. CASE ReadStrayHeader
      BY <3>2, BlankType, ReceiverAssumption DEF ReadStrayHeader, Sent, Honest
    <3> QED
      BY <1>3, <3>1, <3>2
  <2>2. ReceiverTypeOK' /\ Honest(got)' /\ ParsedInv' /\ HeapInv' /\ PointerInv' /\ MisuseInv'
    BY <2>1, ReadHeaderInv
  <2>3. wire' \in Seq(Sent) /\ \A i \in 1 .. Len(wire') : HonestlySent(wire'[i])
    <3>1. wire \in Seq(Sent) /\ \A i \in 1 .. Len(wire) : HonestlySent(wire[i])
      BY DEF IInv, TypeOK, SenderTypeOK, WireInv
    <3>2. CASE wire' = wire
      BY <3>1, <3>2 DEF HonestlySent, Honest
    <3>3. CASE wire # <<>> /\ wire' = Tail(wire)
      BY <3>1, <3>3 DEF HonestlySent, Honest
    <3> QED
      BY <1>3, <3>2, <3>3 DEF ReadSentHeader, ReadStrayHeader
  <2>4. SenderTypeOK' /\ SenderInv'
    BY <1>3, <2>3 DEF IInv, TypeOK, SenderTypeOK, SenderInv, HeadersMade
  <2>5. WireInv'
    BY <1>3, <2>2, <2>3 DEF IInv, WireInv, OutgoingInv, Describes
  <2> QED
    BY <2>2, <2>4, <2>5 DEF IInv, TypeOK
<1>4. CASE UNCHANGED vars
  BY <1>4 DEF vars, senderVars, receiverVars, IInv, TypeOK, SenderTypeOK, ReceiverTypeOK,
     WireInv, OutgoingInv, HonestlySent, Honest, ParsedInv, IsParsed, SenderInv, HeadersMade,
     Overrun, HeapInv, PointerInv, Buffers, MisuseInv
<1>5. CASE ReadMessage /\ UNCHANGED others
  BY <1>5, ReadMessageInv
<1> QED
  BY <1>1, <1>2, <1>3, <1>4, <1>5 DEF Next, Ended, ReaderStep

(* IInv is an inductive invariant.                                         *)
THEOREM Inductive == Spec => []IInv
BY InitInv, NextInv, PTL DEF Spec

-----------------------------------------------------------------------------
(* The properties of the runs.                                             *)

(* Every variable keeps its type.                                          *)
THEOREM TypeCorrect == Spec => []TypeOK
<1>1. IInv => TypeOK
  BY DEF IInv
<1> QED
  BY <1>1, Inductive, PTL

(* The header constructor reverses create_TCP_header, and a message of the *)
(* camera keeps its numbers and parameters.                                *)
THEOREM ReverseCorrect == Spec => []ReverseOfGeneration
<1>1. ASSUME IInv PROVE ReverseOfGeneration
  <2> SUFFICES ASSUME IsParsed
               PROVE  /\ create_TCP_header(new_message) = got.bytes
                      /\ got.origin = "camera" =>
                           \A f \in Numbers \union {"special_params"} :
                             new_message[f] = got.message[f]
    BY DEF ReverseOfGeneration
  <2>1. create_TCP_header(new_message) = got.bytes
    BY <1>1 DEF IInv, ParsedInv
  <2>2. ASSUME got.origin = "camera"
        PROVE  create_TCP_header(got.message) = create_TCP_header(new_message)
    BY <1>1, <2>1, <2>2 DEF IInv, WireInv, Honest
  <2>3. new_message \in Message /\ got.message \in Message
    BY <1>1 DEF IInv, TypeOK, ReceiverTypeOK, Sent
  <2> QED
    BY <2>1, <2>2, <2>3, HeaderKeepsFields DEF Numbers
<1> QED
  BY <1>1, Inductive, PTL

(* The receiver shows each picture of the camera with its own rows, cols,  *)
(* depth and length.                                                       *)
THEOREM PictureDescribedCorrect == Spec => []PictureDescribed
<1>1. ASSUME IInv, IsParsed, got.origin = "camera"
      PROVE  \E p \in Pictures : Describes(new_message, p)
  <2>1. create_TCP_header(got.message) = create_TCP_header(new_message)
    BY <1>1 DEF IInv, ParsedInv, WireInv, Honest
  <2>2. new_message \in Message /\ got.message \in Message
    BY <1>1 DEF IInv, TypeOK, ReceiverTypeOK, Sent
  <2>3. /\ new_message.special_params = got.message.special_params
        /\ new_message.data_length = got.message.data_length
    BY <2>1, <2>2, HeaderKeepsFields
  <2>4. PICK p \in Pictures : Describes(got.message, p)
    BY <1>1 DEF IInv, WireInv, Honest
  <2> QED
    BY <2>3, <2>4 DEF Describes
<1>2. IInv => PictureDescribed
  BY <1>1 DEF PictureDescribed
<1> QED
  BY <1>2, Inductive, PTL

(* What is left of a number in its four bytes: never more than the number, *)
(* and the number itself if it has no further bytes.                       *)
LEMMA NumberOfWord ==
  ASSUME NEW n \in Nat
  PROVE  /\ NumberOf(WordOf(n)) \in Nat
         /\ NumberOf(WordOf(n)) <= n
         /\ n \div 16777216 < 256 => NumberOf(WordOf(n)) = n
<1> DEFINE a == n \div 256
           b == n \div 65536
           c == n \div 16777216
<1>1. /\ WordOf(n)[0] = n % 256 /\ WordOf(n)[1] = a % 256
      /\ WordOf(n)[2] = b % 256 /\ WordOf(n)[3] = c % 256
  <2>1. n \div 1 = n
    OBVIOUS
  <2> QED
    BY <2>1 DEF WordOf, Weight
<1>2. /\ a \in Nat /\ n = 256 * a + (n % 256) /\ n % 256 \in 0 .. 255
      /\ b \in Nat /\ c \in Nat
  OBVIOUS
<1>3. a = 256 * b + (a % 256) /\ a % 256 \in 0 .. 255
  <2>1. b = a \div 256
    OBVIOUS
  <2> QED
    BY <1>2, <2>1
<1>4. b = 256 * c + (b % 256) /\ b % 256 \in 0 .. 255
  <2>1. c = b \div 256
    OBVIOUS
  <2> QED
    BY <1>2, <2>1
<1>5. c % 256 \in Nat /\ c % 256 <= c /\ (c < 256 => c % 256 = c)
  BY <1>2
<1>6. NumberOf(WordOf(n))
        = (n % 256) + 256 * (a % 256) + 65536 * (b % 256) + 16777216 * (c % 256)
  BY <1>1 DEF NumberOf
<1> HIDE DEF a, b, c
<1>7. n = (n % 256) + 256 * (a % 256) + 65536 * (b % 256) + 16777216 * c
  BY <1>2, <1>3, <1>4
<1> QED
  BY <1>2, <1>3, <1>4, <1>5, <1>6, <1>7 DEF c

(* The dimensions of a picture are where the receiver looks for them.      *)
LEMMA Dimensions ==
  ASSUME NEW m, NEW p \in Pictures, Describes(m, p)
  PROVE  /\ extract_special_param_buffer(m, 0) = WordOf(p.rows)
         /\ extract_special_param_buffer(m, 4) = WordOf(p.cols)
<1>1. m.special_params = ParamsOf(p.rows, p.cols, p.depth)
  BY DEF Describes
<1>2. /\ p.rows \in Nat /\ p.cols \in Nat
  BY SenderAssumption
<1>3. WordOf(p.rows) \in Word /\ WordOf(p.cols) \in Word
  BY <1>2, WordOfType
<1>4. \A w \in Word : w = [k \in 0 .. 3 |-> w[k]]
  BY DEF Word
<1>5. \A k \in 0 .. 3 : /\ ParamsOf(p.rows, p.cols, p.depth)[0 + k] = WordOf(p.rows)[k]
                       /\ ParamsOf(p.rows, p.cols, p.depth)[4 + k] = WordOf(p.cols)[k]
  BY DEF ParamsOf
<1> QED
  BY <1>1, <1>3, <1>4, <1>5 DEF extract_special_param_buffer

(* A product does not shrink when its factors grow.                        *)
LEMMA ProductMonotonic ==
  ASSUME NEW a \in Nat, NEW b \in Nat, NEW c \in Nat, NEW d \in Nat, a <= c, b <= d
  PROVE  a * b <= c * d
<1>1. PICK x \in Nat : c = a + x
  <2>1. c - a \in Nat /\ c = a + (c - a)
    OBVIOUS
  <2> QED
    BY <2>1
<1>2. PICK y \in Nat : d = b + y
  <2>1. d - b \in Nat /\ d = b + (d - b)
    OBVIOUS
  <2> QED
    BY <2>1
<1>3. c * d = a * b + a * y + x * b + x * y
  BY <1>1, <1>2
<1>4. a * b \in Nat /\ a * y \in Nat /\ x * b \in Nat /\ x * y \in Nat
  OBVIOUS
<1> QED
  BY <1>3, <1>4

(* The frame of a colour picture stays within the buffer of its data.      *)
THEOREM FrameFits == Spec => []FrameInBuffer
<1>1. ASSUME NEW p \in Pictures, InColour(p), NEW m, Describes(m, p)
      PROVE  FrameBytes(m) <= NumberOf(m.data_length)
  <2>1. p.rows \in Nat /\ p.cols \in Nat /\ p.depth = 3
    BY <1>1, SenderAssumption DEF InColour
  <2>2. PICK r \in Nat, c \in Nat : r = NumberOf(WordOf(p.rows)) /\ c = NumberOf(WordOf(p.cols))
    BY <2>1, NumberOfWord
  <2>3. FrameBytes(m) = r * c * 3
    BY <1>1, <2>2, Dimensions DEF FrameBytes
  <2>4. PICK size \in Nat : size = p.rows * p.cols * p.depth
    BY <2>1
  <2>5. r * c <= p.rows * p.cols
    BY <2>1, <2>2, NumberOfWord, ProductMonotonic
  <2>6. r * c * 3 <= size
    <3>1. r * c \in Nat /\ p.rows * p.cols \in Nat
      BY <2>1
    <3> QED
      BY <2>1, <2>4, <2>5, <3>1
  <2>7. m.data_length = WordOf(size) /\ size \div 16777216 < 256
    BY <1>1, <2>4 DEF Describes, InColour
  <2>8. NumberOf(m.data_length) = size
    BY <2>4, <2>7, NumberOfWord
  <2> QED
    BY <2>3, <2>6, <2>8
<1>2. PictureDescribed => FrameInBuffer
  BY <1>1 DEF PictureDescribed, FrameInBuffer
<1> QED
  BY <1>2, PictureDescribedCorrect, PTL

(* The unused reader of headers finds the numbers the constructor finds.   *)
THEOREM ReadersAgreeCorrect == Spec => []ReadersAgree
<1>2. ASSUME IInv, IsParsed
      PROVE  /\ new_message \in Message
             /\ create_TCP_header(new_message) = got.bytes
  BY <1>2 DEF IInv, TypeOK, ReceiverTypeOK, ParsedInv
<1>4. ASSUME IInv, IsParsed
      PROVE  /\ \A f \in Numbers :
                   process_header_message(got.bytes, turn)[f] = new_message[f]
             /\ \A f \in {"sender", "sensor_platform", "sensor_type"} :
                   process_header_message(got.bytes, turn)[f] = SignExtended(new_message[f][0])
             /\ process_header_message(got.bytes, turn).special_params = Blank.special_params
  <2> DEFINE other == process_header_message(got.bytes, turn)
  <2>1. /\ other.message_id = Field(got.bytes, 8)
        /\ other.sender_time = Field(got.bytes, 4)
        /\ other.sensor_time = Field(got.bytes, 14)
        /\ other.data_length = Field(got.bytes, 18)
        /\ other.sender = SignExtended(got.bytes[3])
        /\ other.sensor_platform = SignExtended(got.bytes[12])
        /\ other.sensor_type = SignExtended(got.bytes[13])
        /\ other.special_params = Blank.special_params
    BY DEF process_header_message, NewMessage, Blank
  <2>2. /\ Field(got.bytes, 8) = new_message.message_id
        /\ Field(got.bytes, 4) = new_message.sender_time
        /\ Field(got.bytes, 14) = new_message.sensor_time
        /\ Field(got.bytes, 18) = new_message.data_length
        /\ got.bytes[3] = new_message.sender[0]
        /\ got.bytes[12] = new_message.sensor_platform[0]
        /\ got.bytes[13] = new_message.sensor_type[0]
    BY <1>2, <1>4, HeaderFields
  <2> HIDE DEF other
  <2>3. \A f \in Numbers : other[f] = new_message[f]
    BY <2>1, <2>2 DEF Numbers
  <2>4. \A f \in {"sender", "sensor_platform", "sensor_type"} :
          other[f] = SignExtended(new_message[f][0])
    BY <2>1, <2>2
  <2> QED
    BY <2>1, <2>3, <2>4 DEF other
<1>5. IInv => ReadersAgree
  BY <1>4 DEF ReadersAgree
<1> QED
  BY <1>5, Inductive, PTL

(* The camera's headers are accepted while no other has been rejected.     *)
THEOREM CameraAcceptedCorrect == Spec => CameraAccepted
<1>1. ASSUME IInv, [Next]_vars, turn' > turn, got'.origin = "camera",
             new_message.state # "invalid"
      PROVE  new_message'.state = "initialized"
  <2>1. turn \in Nat
    BY <1>1 DEF IInv, TypeOK, ReceiverTypeOK
  <2>2. ReadSentHeader \/ ReadStrayHeader
    BY <1>1, <2>1 DEF Next, Ended, vars, receiverVars, ReceiverStep, ReaderStep, ReadMessage,
       ShowPicture, SendResponse, DestroyMessage, ReceiverEnds
  <2>3. ReadHeader(Head(wire)) /\ wire # <<>>
    BY <1>1, <2>2 DEF ReadSentHeader, ReadStrayHeader, ReadHeader
  <2>4. got' = Head(wire) /\ Honest(Head(wire))
    BY <1>1, <2>3 DEF ReadHeader, IInv, TypeOK, SenderTypeOK, WireInv, HonestlySent
  <2>5. SegmentsMatch(Head(wire).bytes)
    BY <1>1, <2>4, SegmentsMade DEF Honest
  <2> QED
    BY <1>1, <2>3, <2>5 DEF ReadHeader, Valid, Parsed
<1>2. IInv /\ [Next]_vars =>
        [turn' > turn /\ got'.origin = "camera" /\ new_message.state # "invalid"
           => new_message'.state = "initialized"]_vars
  BY <1>1
<1> QED
  BY <1>2, Inductive, PTL DEF Spec, CameraAccepted

(* No message of send_test_image is accepted.                              *)
THEOREM TestImagesCorrect == Spec => []TestImagesRejected
<1>1. IInv => TestImagesRejected
  BY DEF IInv, WireInv, Honest, ParsedInv, TestImagesRejected
<1> QED
  BY <1>1, Inductive, PTL

(* The receiver uses or frees a pointer to no allocated block exactly when *)
(* it has gone on with a rejected header.                                  *)
THEOREM MisuseCorrect == Spec => []MisuseIsRejection
<1>1. IInv => MisuseIsRejection
  BY DEF IInv, TypeOK, ReceiverTypeOK, MisuseInv, MisuseIsRejection
<1> QED
  BY <1>1, Inductive, PTL

(* The receiver keeps one block of each message, the response, and, up to  *)
(* the first picture, the pixels of the program's start.                   *)
THEOREM KeptByReceiverCorrect == Spec => []KeptByReceiver
<1>1. IInv => KeptByReceiver
  BY DEF IInv, HeapInv, Responses, FirstFrame, KeptByReceiver
<1> QED
  BY <1>1, Inductive, PTL

(* The senders keep each header, the camera each parameter buffer, and     *)
(* none keeps a message object or its buffers.                             *)
THEOREM KeptBySenderCorrect == Spec => []KeptBySender
<1>1. ASSUME IInv PROVE KeptBySender
  <2> SUFFICES ASSUME spc = "idle"
               PROVE  /\ \A n \in 1 .. messages, b \in {"object", "data", "params"} :
                            <<n, b>> \notin sheap
                      /\ \A n \in 1 .. messages : <<n, "header">> \in sheap
                      /\ program = "camera" =>
                           sheap = (1 .. messages) \X {"header", "param_buffer"}
    BY DEF KeptBySender
  <2>1. HeadersMade = messages
    BY DEF HeadersMade
  <2>2. \A x \in sheap : x[2] \notin {"object", "data", "params"}
    BY <1>1 DEF IInv, SenderInv
  <2>3. \A n \in 1 .. messages : <<n, "header">> \in sheap
    BY <1>1, <2>1 DEF IInv, SenderInv
  <2>4. program = "camera" => sheap = (1 .. messages) \X {"header", "param_buffer"}
    BY <1>1, <2>1 DEF IInv, SenderInv
  <2> QED
    BY <2>2, <2>3, <2>4
<1> QED
  BY <1>1, Inductive, PTL

(* The frame's pixels are allocated while the picture is displayed and     *)
(* answered, and only then.                                                *)
THEOREM FrameCorrect == Spec => []FrameAllocated
<1>1. ASSUME IInv PROVE FrameAllocated
  <2> SUFFICES ASSUME turn > 0, ~ rejected, rpc # "ended"
               PROVE  global_test_frame \in rheap
                        <=> rpc \in {"answer", "end"} \/ global_test_frame = Startup
    BY DEF FrameAllocated
  <2>1. /\ turn \in Nat
        /\ rpc \in {"header", "message", "picture", "answer", "end"}
    BY <1>1 DEF IInv, TypeOK, ReceiverTypeOK
  <2>2. global_test_frame = Startup => Startup \in rheap
    BY <1>1 DEF IInv, PointerInv
  <2>3. CASE rpc \in {"answer", "end"}
    BY <1>1, <2>3 DEF IInv, HeapInv, PointerInv, Own, Blocks
  <2>4. CASE rpc \notin {"answer", "end"}
    <3>1. global_test_frame \in {Startup} \union (1 .. turn) \X {"data"}
      BY <1>1 DEF IInv, PointerInv
    <3>2. rpc \in {"message", "picture"} => global_test_frame # <<turn, "data">>
      BY <1>1 DEF IInv, PointerInv
    <3>3. CASE rpc = "header"
      BY <1>1, <2>2, <3>1, <3>3 DEF IInv, HeapInv, Responses, FirstFrame, Startup
    <3>4. CASE rpc \in {"message", "picture"}
      <4>1. rheap = Responses(turn - 1) \union Own(turn) \union FirstFrame(turn - 1)
        BY <1>1, <3>4 DEF IInv, HeapInv
      <4> QED
        BY <2>2, <3>1, <3>2, <3>4, <4>1 DEF Responses, Own, Blocks, FirstFrame, Startup
    <3> QED
      BY <2>1, <2>4, <3>3, <3>4
  <2> QED
    BY <2>3, <2>4
<1> QED
  BY <1>1, Inductive, PTL

(* Once the state is "invalid" it stays so.                                *)
THEOREM InvalidStaysCorrect == Spec => InvalidStays
<1>1. ASSUME IInv, [Next]_vars, new_message.state = "invalid"
      PROVE  new_message'.state = "invalid"
  <2>1. new_message \in Message
    BY <1>1 DEF IInv, TypeOK, ReceiverTypeOK
  <2>2. ASSUME NEW sent, ReadHeader(sent)
        PROVE  new_message'.state = "invalid"
    BY <1>1, <2>1, <2>2 DEF ReadHeader, Valid, Message
  <2>3. CASE ReadSentHeader \/ ReadStrayHeader
    BY <2>2, <2>3 DEF ReadSentHeader, ReadStrayHeader
  <2>4. CASE UNCHANGED new_message
    BY <1>1, <2>4
  <2> QED
    BY <1>1, <2>3, <2>4 DEF Next, Ended, vars, receiverVars, ReceiverStep, ReaderStep, ReadMessage,
       ShowPicture, SendResponse, DestroyMessage, ReceiverEnds
<1>2. IInv /\ [Next]_vars =>
        [new_message.state = "invalid" => new_message'.state = "invalid"]_vars
  BY <1>1
<1> QED
  BY <1>2, Inductive, PTL DEF Spec, InvalidStays

-----------------------------------------------------------------------------
(* The refinement of MessageTransfer.                                      *)

(* The pipe of the transfer, named so that it can be kept folded.          *)
Pipe == [i \in 1 .. Len(wire) |-> OnTheWay(wire[i])]

(* A sequence mapped by OnTheWay is one, and is taken from and added to as *)
(* the sequence itself is.                                                 *)
LEMMA PipeFacts ==
  ASSUME TypeOK, TypeOK'
  PROVE  /\ Pipe = <<>> <=> wire = <<>>
         /\ wire # <<>> => Head(Pipe) = OnTheWay(Head(wire))
         /\ wire # <<>> /\ wire' = Tail(wire) => Pipe' = Tail(Pipe)
         /\ \A sent : wire' = Append(wire, sent) => Pipe' = Append(Pipe, OnTheWay(sent))
         /\ \A lost \in 0 .. Len(wire) :
              wire' = SubSeq(wire, lost + 1, Len(wire)) =>
                lost \in 0 .. Len(Pipe) /\ Pipe' = SubSeq(Pipe, lost + 1, Len(Pipe))
         /\ wire' = wire => Pipe' = Pipe
<1>1. wire \in Seq(Sent) /\ Len(wire) \in Nat /\ wire' \in Seq(Sent) /\ Len(wire') \in Nat
  BY DEF TypeOK, SenderTypeOK
<1> DEFINE S == {OnTheWay(wire[i]) : i \in 1 .. Len(wire)}
           T == {OnTheWay(wire'[i]) : i \in 1 .. Len(wire')}
<1>2. Pipe \in [1 .. Len(wire) -> S] /\ Pipe' \in [1 .. Len(wire') -> T]
  BY DEF Pipe, OnTheWay
<1> HIDE DEF S, T
<1> DEFINE U == S \union T
<1>3. /\ Pipe \in Seq(U) /\ Len(Pipe) = Len(wire)
      /\ Pipe' \in Seq(U) /\ Len(Pipe') = Len(wire')
  <2>1. ASSUME NEW n \in Nat, NEW f \in [1 .. n -> U] PROVE f \in Seq(U) /\ Len(f) = n
    OBVIOUS
  <2>2. Pipe \in [1 .. Len(wire) -> U] /\ Pipe' \in [1 .. Len(wire') -> U]
    BY <1>2
  <2> HIDE DEF U
  <2> QED
    BY <1>1, <2>1, <2>2
<1>4. /\ \A i \in 1 .. Len(wire) : Pipe[i] = OnTheWay(wire[i])
      /\ \A i \in 1 .. Len(wire') : Pipe'[i] = OnTheWay(wire'[i])
  BY DEF Pipe, OnTheWay
<1>5. Pipe = <<>> <=> wire = <<>>
  BY <1>1, <1>3, EmptySeq
<1>6. ASSUME wire # <<>>
      PROVE  Head(Pipe) = OnTheWay(Head(wire))
  <2>1. Len(wire) > 0
    BY <1>1, <1>6
  <2> QED
    BY <1>1, <1>3, <1>4, <1>5, <1>6, <2>1, HeadTailProperties
<1>7. ASSUME wire # <<>>, wire' = Tail(wire)
      PROVE  Pipe' = Tail(Pipe)
  <2>1. /\ Len(wire') = Len(wire) - 1
        /\ \A i \in 1 .. Len(wire') : wire'[i] = wire[i + 1]
    BY <1>1, <1>7, HeadTailProperties
  <2>2. /\ Tail(Pipe) \in Seq(U) /\ Len(Tail(Pipe)) = Len(Pipe) - 1
        /\ \A i \in 1 .. Len(Tail(Pipe)) : Tail(Pipe)[i] = Pipe[i + 1]
    BY <1>3, <1>5, <1>7, HeadTailProperties
  <2>3. \A i \in 1 .. Len(wire') : Pipe'[i] = Tail(Pipe)[i]
    BY <1>1, <1>3, <1>4, <2>1, <2>2
  <2> QED
    BY <1>3, <2>1, <2>2, <2>3, SeqEqual
<1>8. ASSUME NEW sent, wire' = Append(wire, sent)
      PROVE  Pipe' = Append(Pipe, OnTheWay(sent))
  <2> DEFINE W == Sent \union {sent}
             V == U \union {OnTheWay(sent)}
  <2>1. /\ Len(wire') = Len(wire) + 1
        /\ \A i \in 1 .. Len(wire) : wire'[i] = wire[i]
        /\ wire'[Len(wire) + 1] = sent
    BY <1>1, <1>8
  <2>2. Pipe \in Seq(V) /\ Pipe' \in Seq(V)
    BY <1>3, SeqMonotonic
  <2>3. /\ Append(Pipe, OnTheWay(sent)) \in Seq(V)
        /\ Len(Append(Pipe, OnTheWay(sent))) = Len(Pipe) + 1
        /\ \A i \in 1 .. Len(Pipe) : Append(Pipe, OnTheWay(sent))[i] = Pipe[i]
        /\ Append(Pipe, OnTheWay(sent))[Len(Pipe) + 1] = OnTheWay(sent)
    BY <2>2, AppendProperties
  <2>4. \A i \in 1 .. Len(wire') : Pipe'[i] = Append(Pipe, OnTheWay(sent))[i]
    BY <1>1, <1>3, <1>4, <2>1, <2>3
  <2> QED
    BY <1>3, <2>1, <2>2, <2>3, <2>4, SeqEqual
<1>9. wire' = wire => Pipe' = Pipe
  BY DEF Pipe, OnTheWay
<1>10. ASSUME NEW lost \in 0 .. Len(wire), wire' = SubSeq(wire, lost + 1, Len(wire))
       PROVE  lost \in 0 .. Len(Pipe) /\ Pipe' = SubSeq(Pipe, lost + 1, Len(Pipe))
  <2>1. /\ Len(wire') = Len(wire) - lost
        /\ \A i \in 1 .. Len(wire') : wire'[i] = wire[lost + i]
    BY <1>1, <1>10, SubSeqProperties
  <2> DEFINE rest == SubSeq(Pipe, lost + 1, Len(Pipe))
  <2>2. /\ rest \in Seq(U) /\ Len(rest) = Len(Pipe) - lost
        /\ \A i \in 1 .. Len(rest) : rest[i] = Pipe[lost + i]
    <3> HIDE DEF U
    <3> QED
      BY <1>1, <1>3, SubSeqProperties
  <2> HIDE DEF rest, U
  <2>3. \A i \in 1 .. Len(wire') : lost + i \in 1 .. Len(wire)
    BY <1>1, <2>1
  <2>4. \A i \in 1 .. Len(wire') : Pipe'[i] = rest[i]
    BY <1>1, <1>3, <1>4, <2>1, <2>2, <2>3
  <2> QED
    BY <1>3, <2>1, <2>2, <2>4, SeqEqual DEF rest
<1> QED
  BY <1>5, <1>6, <1>7, <1>8, <1>9, <1>10

(* The steps of the sender compose, send or stutter.                       *)
LEMMA SenderTransfers ==
  ASSUME IInv, IInv', SenderStep, UNCHANGED receiverVars
  PROVE  Transfer!Compose \/ Transfer!Send \/ UNCHANGED Transfer!transferVars
<1>1. TypeOK /\ TypeOK'
  BY DEF IInv
<1>2. ReceivedContent' = ReceivedContent /\ Failing' = Failing
  BY DEF receiverVars, ReceivedContent, IsParsed, Overrun, ContentOf, Content, Failing
<1> DEFINE created == create_message \/ read_image
<1>3. CASE created
  <2>1. /\ spc = "idle" /\ spc' = "ready" /\ messages' = messages + 1 /\ wire' = wire
    BY <1>3 DEF create_message, read_image
  <2>2. Pipe' = Pipe
    BY <1>1, <2>1, PipeFacts
  <2> QED
    BY <1>2, <2>1, <2>2 DEF Transfer!Compose, Pipe
<1>4. CASE send_message
  <2>1. /\ spc = "ready" /\ spc' = "sent" /\ UNCHANGED <<program, outgoing, messages>>
    BY <1>4 DEF send_message
  <2>2. \/ wire' = wire
        \/ /\ program = "camera"
           /\ wire' = Append(wire, [bytes |-> create_TCP_header(outgoing),
                                    origin |-> program, message |-> outgoing])
        \/ /\ program = "test"
           /\ \E s \in Followers :
                wire' = Append(wire, [bytes |-> ShortHeader(create_TCP_header(outgoing), s),
                                      origin |-> program, message |-> outgoing])
    BY <1>4 DEF send_message
  <2>3. \/ Pipe' = Pipe
        \/ Pipe' = Append(Pipe, {})
        \/ \E c \in PictureContents[messages] : Pipe' = Append(Pipe, {c})
    <3>1. CASE wire' = wire
      BY <1>1, <3>1, PipeFacts
    <3>2. ASSUME NEW bytes,
                 wire' = Append(wire, [bytes |-> bytes, origin |-> program,
                                       message |-> outgoing])
          PROVE  Pipe' = Append(Pipe, IF program = "camera" THEN {ContentOf(outgoing)}
                                                            ELSE {})
      <4> DEFINE w == [bytes |-> bytes, origin |-> program, message |-> outgoing]
      <4>1. OnTheWay(w) = IF program = "camera" THEN {ContentOf(outgoing)} ELSE {}
        BY DEF OnTheWay
      <4> QED
        BY <1>1, <3>2, <4>1, PipeFacts
    <3>3. program = "camera" => ContentOf(outgoing) \in PictureContents[messages]
      BY <2>1 DEF IInv, WireInv, OutgoingInv
    <3> QED
      BY <2>2, <3>1, <3>2, <3>3
  <2> QED
    BY <1>2, <2>1, <2>3 DEF Transfer!Send, Pipe
<1>5. CASE delete_message
  <2>1. spc = "sent" /\ spc' = "idle" /\ messages' = messages /\ wire' = wire
    BY <1>5 DEF delete_message
  <2>2. Pipe' = Pipe
    BY <1>1, <2>1, PipeFacts
  <2> QED
    BY <1>2, <2>1, <2>2 DEF Transfer!transferVars, Pipe
<1>6. CASE SenderEnds
  <2>1. spc' = "ended" /\ messages' = messages /\ wire' = wire
    BY <1>6 DEF SenderEnds
  <2>2. Pipe' = Pipe
    BY <1>1, <2>1, PipeFacts
  <2> QED
    BY <1>2, <2>1, <2>2 DEF Transfer!Send, Transfer!transferVars, Pipe
<1> QED
  BY <1>3, <1>4, <1>5, <1>6 DEF SenderStep

(* What the receiver has after a header is what was sent, or nothing; and, *)
(* unless it fails, after one of the camera it is what was sent.           *)
LEMMA HeaderReceived ==
  ASSUME IInv, IInv', NEW sent \in Sent, Honest(sent), ReadHeader(sent)
  PROVE  /\ ReceivedContent' \in {OnTheWay(sent), {}}
         /\ ~ Failing /\ OnTheWay(sent) # {} =>
              ReceivedContent' = OnTheWay(sent) /\ ~ Failing'
<1>1. got' = sent /\ turn' = turn + 1 /\ turn \in Nat /\ misused' = misused
  BY DEF ReadHeader, IInv, TypeOK, ReceiverTypeOK
<1>2. ASSUME IsParsed', sent.origin = "camera"
      PROVE  ReceivedContent' = OnTheWay(sent)
  <2>1. create_TCP_header(new_message)' = create_TCP_header(sent.message)
    BY <1>1, <1>2 DEF IInv, ParsedInv, Honest
  <2>2. new_message' \in Message /\ sent.message \in Message
    BY DEF IInv, TypeOK, ReceiverTypeOK, Sent
  <2>3. ContentOf(new_message)' = ContentOf(sent.message)
    BY <2>1, <2>2, HeaderKeepsFields DEF ContentOf
  <2> QED
    BY <1>1, <1>2, <2>3 DEF ReceivedContent, OnTheWay
<1>3. ~ (IsParsed' /\ sent.origin = "camera") => ReceivedContent' = {}
  BY <1>1 DEF ReceivedContent
<1>4. ASSUME ~ Failing, OnTheWay(sent) # {}
      PROVE  ReceivedContent' = OnTheWay(sent) /\ ~ Failing'
  <2>1. sent.origin = "camera" /\ new_message.state # "invalid" /\ ~ Overrun /\ ~ Overrun'
    BY <1>1, <1>4 DEF OnTheWay, Failing, Overrun
  <2>2. Valid(sent.bytes)
    BY <2>1, SegmentsMade DEF Honest, Valid
  <2>3. new_message'.state = "initialized"
    BY <2>2 DEF ReadHeader, Parsed
  <2>4. IsParsed' /\ ~ Failing'
    BY <1>1, <2>1, <2>3 DEF IsParsed, Failing
  <2> QED
    BY <1>2, <2>1, <2>4
<1> QED
  BY <1>2, <1>3, <1>4

(* A message is taken for the data of the one before only behind a message *)
(* of the camera or by a receiver that fails, which then fails.            *)
LEMMA LossMeansFailing ==
  ASSUME IInv, IInv', ReadMessage, wire' # wire
  PROVE  Failing' /\ (Failing \/ ReceivedContent # {})
<1>1. PICK lost \in 0 .. Len(wire), behind \in SUBSET {"overrun"} :
        /\ InFrame => (lost > 0 <=> behind # {})
        /\ wire' = SubSeq(wire, lost + 1, Len(wire))
        /\ misused' = misused \union Misuse(Buffers) \union behind
  BY DEF ReadMessage
<1>2. lost > 0
  <2>1. wire \in Seq(Sent)
    BY DEF IInv, TypeOK, SenderTypeOK
  <2>2. CASE lost = 0
    <3>1. SubSeq(wire, 1, Len(wire)) = wire
      BY <2>1, SubSeqFull
    <3> QED
      BY <1>1, <2>2, <3>1
  <2> QED
    BY <2>2
<1>3. turn > 0 /\ got \in Sent /\ UNCHANGED <<turn, got, new_message>>
  BY DEF ReadMessage, IInv, TypeOK, ReceiverTypeOK, ParsedInv
<1>4. CASE InFrame
  <2>1. Overrun'
    BY <1>1, <1>2, <1>4 DEF Overrun
  <2>2. Failing \/ ReceivedContent # {}
    BY <1>3, <1>4 DEF InFrame, Failing, ReceivedContent, IsParsed
  <2> QED
    BY <2>1, <2>2 DEF Failing
<1>5. CASE ~ InFrame
  <2>1. Overrun => Overrun'
    BY <1>1 DEF Overrun
  <2>2. CASE new_message.state = "invalid"
    BY <1>3, <2>2 DEF Failing
  <2>3. CASE got.origin = "stray"
    BY <1>3, <2>3 DEF Failing
  <2>4. CASE got.origin = "test" /\ new_message.state # "invalid"
    <3>1. ~ IsParsed
      BY <2>4 DEF IInv, WireInv, Honest, ParsedInv
    <3>2. Overrun
      BY <1>3, <2>4, <3>1 DEF IsParsed
    <3> QED
      BY <2>1, <3>2 DEF Failing
  <2> QED
    BY <1>3, <1>5, <2>2, <2>3, <2>4 DEF InFrame, Sent
<1> QED
  BY <1>4, <1>5

(* Reading a header of the programs is receiving; reading other bytes in   *)
(* the place of one, or too much after one, is a mistake.                  *)
LEMMA ReadingTransfers ==
  ASSUME IInv, IInv', ReaderStep, UNCHANGED <<spc, messages>>
  PROVE  Transfer!Receive \/ Transfer!Mistake
<1>1. TypeOK /\ TypeOK'
  BY DEF IInv
<1>0. Failing' \in BOOLEAN
  BY DEF Failing, Overrun
<1>2. CASE ReadSentHeader
  <2>1. wire # <<>> /\ ReadHeader(Head(wire)) /\ wire' = Tail(wire)
    BY <1>2 DEF ReadSentHeader
  <2>2. Head(wire) \in Sent /\ HonestlySent(Head(wire))
    BY <2>1 DEF IInv, TypeOK, SenderTypeOK, WireInv
  <2>3. Pipe # <<>> /\ Head(Pipe) = OnTheWay(Head(wire)) /\ Pipe' = Tail(Pipe)
    BY <1>1, <2>1, PipeFacts
  <2>4. /\ ReceivedContent' \in {Head(Pipe), {}}
        /\ ~ Failing /\ Head(Pipe) # {} => ReceivedContent' = Head(Pipe) /\ ~ Failing'
    BY <2>1, <2>2, <2>3, HeaderReceived DEF HonestlySent
  <2> QED
    BY <1>0, <2>3, <2>4 DEF Transfer!Receive, Pipe
<1>3. CASE ReadStrayHeader
  <2>1. PICK h \in Stray : ReadHeader([bytes |-> h, origin |-> "stray", message |-> Blank])
    BY <1>3 DEF ReadStrayHeader
  <2>2. wire' = wire
    BY <1>3 DEF ReadStrayHeader
  <2> DEFINE sent == [bytes |-> h, origin |-> "stray", message |-> Blank]
  <2>3. sent \in Sent /\ Honest(sent) /\ OnTheWay(sent) = {}
    BY BlankType, ReceiverAssumption DEF Sent, Honest, OnTheWay
  <2>4. ReceivedContent' = {}
    BY <2>1, <2>3, HeaderReceived
  <2>5. PICK lost \in 0 .. Len(Pipe) :
          lost = 0 /\ Pipe' = SubSeq(Pipe, lost + 1, Len(Pipe))
    <3>1. PICK lost \in 0 .. Len(wire) :
            lost = 0 /\ wire' = SubSeq(wire, lost + 1, Len(wire))
      BY <1>1, <2>2, SubSeqFull DEF TypeOK, SenderTypeOK
    <3> QED
      BY <1>1, <3>1, PipeFacts
  <2>6. ~ (lost > 0)
    BY <2>5
  <2>7. ReceivedContent' \in {ReceivedContent, {}}
    BY <2>4
  <2> HIDE DEF sent
  <2> QED
    BY <1>0, <2>5, <2>6, <2>7 DEF Transfer!Mistake, Pipe
<1>4. CASE ReadMessage
  <2>1. PICK lost \in 0 .. Len(wire) : wire' = SubSeq(wire, lost + 1, Len(wire))
    BY <1>4 DEF ReadMessage
  <2>2. lost \in 0 .. Len(Pipe) /\ Pipe' = SubSeq(Pipe, lost + 1, Len(Pipe))
    BY <1>1, <2>1, PipeFacts
  <2>3. lost > 0 => Failing' /\ (Failing \/ ReceivedContent # {})
    <3>1. lost > 0 => wire' # wire
      <4>1. wire \in Seq(Sent)
        BY <1>1 DEF TypeOK, SenderTypeOK
      <4>2. Len(wire') = Len(wire) - lost /\ Len(wire) \in Nat
        BY <2>1, <4>1, SubSeqProperties
      <4> QED
        BY <4>2
    <3> QED
      BY <1>4, <3>1, LossMeansFailing
  <2>4. ReceivedContent' \in {ReceivedContent, {}}
    <3>1. UNCHANGED <<turn, got, new_message>> /\ misused \subseteq misused'
      BY <1>4 DEF ReadMessage
    <3> QED
      BY <3>1 DEF ReceivedContent, ContentOf, Content, IsParsed, Overrun
  <2> QED
    BY <1>0, <2>2, <2>3, <2>4 DEF Transfer!Mistake, Pipe
<1> QED
  BY <1>2, <1>3, <1>4 DEF ReaderStep

(* The messages of the camera arrive with the content they were sent with, *)
(* in their order and each at most once, or not at all: the program is an  *)
(* implementation of MessageTransfer.                                      *)
THEOREM Refinement == Spec => ImplementsTransfer
<1>1. ASSUME Init PROVE Transfer!TransferInit
  <2>1. /\ messages = 0 /\ spc = "idle" /\ wire = <<>> /\ turn = 0
        /\ TypeOK
    BY <1>1, InitInv DEF Init, SenderInit, ReceiverInit, IInv
  <2>2. Pipe = <<>>
    <3>1. wire \in Seq(Sent) /\ Len(wire) = 0
      BY <2>1
    <3> QED
      BY <3>1 DEF Pipe
  <2>3. ReceivedContent = {}
    BY <2>1 DEF ReceivedContent, IsParsed
  <2>4. Failing \in BOOLEAN
    BY DEF Failing, Overrun
  <2> QED
    BY <2>1, <2>2, <2>3, <2>4 DEF Transfer!TransferInit, Pipe
<1>2. ASSUME IInv, [Next]_vars, IInv'
      PROVE  [Transfer!TransferNext]_(Transfer!transferVars)
  <2>1. CASE SenderStep /\ UNCHANGED receiverVars
    BY <1>2, <2>1, SenderTransfers DEF Transfer!TransferNext
  <2>2. CASE ReaderStep /\ UNCHANGED <<program, spc, outgoing, messages, sheap>>
    BY <1>2, <2>2, ReadingTransfers DEF Transfer!TransferNext
  <2>3. CASE (ReceiverStep /\ UNCHANGED senderVars) \/ UNCHANGED vars
    <3>1. UNCHANGED <<spc, messages, wire, turn, got, new_message>> /\ Overrun' = Overrun
      BY <2>3 DEF ReceiverStep, ShowPicture, SendResponse, DestroyMessage,
         ReceiverEnds, senderVars, receiverVars, vars, Overrun, Misuse
    <3>2. Pipe' = Pipe /\ ReceivedContent' = ReceivedContent /\ Failing' = Failing
      BY <3>1 DEF Pipe, OnTheWay, ReceivedContent, IsParsed, ContentOf, Content, Failing
    <3> QED
      BY <3>1, <3>2 DEF Transfer!transferVars, Pipe
  <2> QED
    BY <1>2, <2>1, <2>2, <2>3 DEF Next, Ended
<1> QED
  BY <1>1, <1>2, Inductive, PTL DEF Spec, ImplementsTransfer, Transfer!TransferSpec
=============================================================================

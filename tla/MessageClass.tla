---------------------------- MODULE MessageClass ----------------------------
(***************************************************************************)
(* The class message_class (lib/message_class.cpp): its members, its two   *)
(* constructors and the header it writes, byte by byte.  Members of four   *)
(* bytes are functions from byte positions to bytes, the lowest first, as  *)
(* both machines store them; a memcpy copies a part of such a function.    *)
(***************************************************************************)
EXTENDS Integers

TCP_HEADER_LENGTH == 37

Byte == 0 .. 255
Word == [0 .. 3 -> Byte]      \* unsigned int, time_format, the enums
Long == [0 .. 7 -> Byte]      \* unsigned long
Params == [0 .. 11 -> Byte]   \* the special parameters
Header == [0 .. TCP_HEADER_LENGTH - 1 -> Byte]

(* A conversion to unsigned int drops what does not fit into four bytes.   *)
Weight == <<1, 256, 65536, 16777216>>
WordOf(n) == [k \in 0 .. 3 |-> (n \div Weight[k + 1]) % 256]
Untruncated(long) == long \* mutant
Truncated(long) == [k \in 0 .. 3 |-> long[k]]

con == <<99, 111, 110>>
end == <<101, 110, 100>>
rpi == WordOf(2)
camera1 == WordOf(3)

(* A block of memory is named by the number of the message it was          *)
(* allocated for and the variable that got it.  The pointers with number   *)
(* 0 point to no allocated block.                                          *)
Block == Nat \X {"object", "data", "params", "param_buffer", "header",
                 "image", "response", "null", "wild", "startup"}
NULL == <<0, "null">>
Wild == <<0, "wild">>
Startup == <<0, "startup">>

(* special_params is what is in the block of special_param_buffer.         *)
Message == [state : {"initialized", "complete", "invalid"},
            message_id : Word, sender : Word, sender_time : Word,
            sensor_platform : Word, sensor_type : Word, sensor_time : Word,
            data_length : Word, data_buffer : Block,
            special_param_buffer : Block, special_params : Params]

-----------------------------------------------------------------------------
(* The constructor that is given the members, and set_id.                  *)
NewMessage(n, id, sender_time, sensor_time, data_length) ==
  [state |-> "initialized", message_id |-> id,
   sender |-> rpi, sender_time |-> sender_time,
   sensor_platform |-> rpi, sensor_type |-> camera1, sensor_time |-> sensor_time,
   data_length |-> data_length, data_buffer |-> <<n, "data">>,
   special_param_buffer |-> <<n, "params">>,
   special_params |-> [k \in 0 .. 11 |-> 0]]

(* Copies all of params, which has at most the room there is.              *)
PartOfParams(m, params) == \* mutant
  [m EXCEPT !.special_params = [k \in 0 .. 11 |-> IF k < 8 THEN params[k] ELSE @[k]]]
set_special_params(m, params) == [m EXCEPT !.special_params = params]

(* rows, cols and depth one behind the other.                              *)
ParamsOf(rows, cols, depth) ==
  [k \in 0 .. 11 |-> CASE k \in 0 .. 3  -> WordOf(rows)[k]
                       [] k \in 4 .. 7  -> WordOf(cols)[k - 4]
                       [] k \in 8 .. 11 -> WordOf(depth)[k - 8]]

create_TCP_header(m) ==
  [i \in 0 .. TCP_HEADER_LENGTH - 1 |->
     CASE i \in 0 .. 2   -> con[i + 1]
       [] i = 3          -> m.sender[0]
       [] i \in 4 .. 7   -> m.sender_time[i - 4]
       [] i \in 8 .. 11  -> m.message_id[i - 8]
       [] i = 12         -> m.sensor_platform[0]
       [] i = 13         -> m.sensor_type[0]
       [] i \in 14 .. 17 -> m.sensor_time[i - 14]
       [] i \in 18 .. 21 -> m.data_length[i - 18]
       [] i \in 22 .. 33 -> m.special_params[i - 22]
       [] i \in 34 .. 36 -> end[i - 33]]

-----------------------------------------------------------------------------
(* The constructor that is given a header.  old is what the memory of the  *)
(* object held before: no member is set before it is tested or copied to.  *)

StartMatches(h) == \A i \in 0 .. 2 : h[i] = con[i + 1]
EndMatchesEarly(h) == \A i \in 0 .. 2 : h[33 + i] = end[i + 1] \* mutant
EndMatches(h) == \A i \in 0 .. 2 : h[34 + i] = end[i + 1]
SegmentsMatch(h) == StartMatches(h) /\ EndMatches(h)

FieldHighFirst(h, at) == [k \in 0 .. 3 |-> h[at + 3 - k]] \* mutant
Field(h, at) == [k \in 0 .. 3 |-> h[at + k]]

(* One byte is copied into an enum of four.                                *)
LowByte(old, b) == [old EXCEPT ![0] = b]

ParsedNoParams(old, h, n) == \* mutant
  [old EXCEPT !.state = "initialized", !.message_id = Field(h, 8),
              !.data_length = Field(h, 18), !.data_buffer = <<n, "data">>]
ParsedNoData(old, h, n) == \* mutant
  [old EXCEPT !.state = "initialized", !.message_id = Field(h, 8),
              !.data_length = Field(h, 18), !.special_param_buffer = <<n, "params">>]
Parsed(old, h, n) ==
  [state |-> "initialized", message_id |-> Field(h, 8),
   sender |-> LowByte(old.sender, h[3]), sender_time |-> Field(h, 4),
   sensor_platform |-> LowByte(old.sensor_platform, h[12]),
   sensor_type |-> LowByte(old.sensor_type, h[13]), sensor_time |-> Field(h, 14),
   data_length |-> Field(h, 18), data_buffer |-> <<n, "data">>,
   special_param_buffer |-> <<n, "params">>,
   special_params |-> [k \in 0 .. 11 |-> h[22 + k]]]

-----------------------------------------------------------------------------
(* Another reader of headers, which nothing calls at present.              *)

(* A char of the server's machine becomes an enum.                         *)
SignExtended(b) ==
  [k \in 0 .. 3 |-> IF k = 0 THEN b ELSE IF b > 127 THEN 255 ELSE 0]

(* tcp_server::process_header_message, for matching segments.  It leaves   *)
(* the special parameters zero.                                            *)
ProcessSwapped(h, n) == \* mutant
  [NewMessage(n, Field(h, 8), Field(h, 4), Field(h, 14), Field(h, 18))
     EXCEPT !.sender = SignExtended(h[3]), !.sensor_platform = SignExtended(h[13]),
            !.sensor_type = SignExtended(h[12])]
process_header_message(h, n) ==
  [NewMessage(n, Field(h, 8), Field(h, 4), Field(h, 14), Field(h, 18))
     EXCEPT !.sender = SignExtended(h[3]), !.sensor_platform = SignExtended(h[12]),
            !.sensor_type = SignExtended(h[13])]
=============================================================================

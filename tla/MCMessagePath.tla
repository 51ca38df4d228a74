--------------------------- MODULE MCMessagePath ---------------------------
EXTENDS MessagePathInv

MCPictures == {[rows |-> 1, cols |-> 2, depth |-> 3], [rows |-> 200, cols |-> 2, depth |-> 3]}
MCTimes == {[k \in 0 .. 7 |-> IF k < 4 THEN 200 + k ELSE 1]}
MCFileLengths == {[k \in 0 .. 7 |-> IF k \in {1, 5} THEN 40 ELSE 0]}
JFIF == <<255, 216, 255, 224, 0, 16, 74, 70, 73, 70, 0, 1>>
MCFileStarts == {[k \in 0 .. 11 |-> JFIF[k + 1]]}

(* Memory that held ones: upper bytes of enums that no header sets.        *)
Ones == [k \in 0 .. 3 |-> 255]
GarbageWith(state, pointer, word) ==
  [Blank EXCEPT !.state = state, !.data_buffer = pointer, !.data_length = word,
                !.special_param_buffer = pointer, !.sender = word,
                !.sensor_platform = word, !.sensor_type = word]
MCGarbage ==
  {GarbageWith("initialized", NULL, WordOf(0)), GarbageWith("complete", Wild, Ones),
   GarbageWith("invalid", Wild, Ones), GarbageWith("invalid", NULL, Ones)}

(* Stray bytes: all zero, or by chance a header, of 7 bytes of data and a  *)
(* frame of 7 rows and 7 cols.                                             *)
MCStray ==
  {[i \in 0 .. 36 |-> 0],
   [i \in 0 .. 36 |-> IF i < 3 THEN con[i + 1] ELSE IF i > 33 THEN end[i - 33]
                      ELSE IF i \in {8, 18, 22, 26, 30} THEN 7 ELSE 0]}
=============================================================================

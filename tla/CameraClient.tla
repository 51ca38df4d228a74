---------------------------- MODULE CameraClient ----------------------------
(***************************************************************************)
(* The camera program of the robot (RPI_cockpit_1/dev_tests/               *)
(* camera_tcp_test.cpp) on top of tcp_client: it takes one picture after   *)
(* the other and sends each as a header message of HeaderLength bytes and  *)
(* a data message of rows*cols*depth bytes, with one write() call for      *)
(* each.  It never reads an answer and never looks at the result of        *)
(* send_message.                                                           *)
(***************************************************************************)
EXTENDS TcpConnection

CONSTANTS
  FrameSizes,  \* the data lengths the camera's pictures may have
  MaxImages    \* the loop ends when image_counter > MaxImages

ASSUME ClientAssumption ==
  /\ FrameSizes \subseteq Nat
  /\ MaxImages \in Nat

VARIABLES
  cpc,     \* "capture", in write() of a "header" or of "data", or the process
           \* has ended: "finished" or "killed"
  unsent   \* bytes the current write() call still has to copy

clientVars == <<cpc, unsent>>

ClientTypeOK ==
  /\ cpc \in {"capture", "header", "data", "finished", "killed"}
  /\ unsent \in Nat

ClientInit ==
  /\ cpc = "capture"
  /\ unsent = 0

(* Each picture increments image_counter and is given it as message id, so *)
(* the counter is the number of headers composed so far.                   *)
image_counter == Len(headers)

ClientEnded == cpc \in {"finished", "killed"}
Writing == cpc \in {"header", "data"}

(* The length given to the write() call the client is in.                  *)
CallLength == IF cpc = "header" THEN HeaderLength ELSE headers[image_counter].len

-----------------------------------------------------------------------------
(* The next picture: create_message and create_TCP_header, after which     *)
(* send_message writes the header at the current end of the stream.        *)
CaptureFrame ==
  /\ cpc = "capture"
  /\ image_counter <= MaxImages
  /\ \E len \in FrameSizes :
        headers' = Append(headers, [at |-> written, len |-> len])
  /\ cpc' = "header"
  /\ unsent' = HeaderLength
  /\ UNCHANGED <<written, arrived, taken, clientEnd, serverEnd, replies, delivered>>

(* A write() call of the client returns without error: after the header    *)
(* send_message goes on to the data, after the data main's loop goes on to *)
(* the next picture.  An empty picture's data is a write() of 0 bytes.     *)
WriteReturnsShort == \* mutant
  IF cpc = "header" /\ headers[image_counter].len > 1
    THEN cpc' = "data" /\ unsent' = headers[image_counter].len - 1
    ELSE cpc' = "capture" /\ unsent' = 0
WriteReturnsLong == \* mutant
  IF cpc = "header" /\ headers[image_counter].len > 0
    THEN cpc' = "data" /\ unsent' = headers[image_counter].len + 1
    ELSE cpc' = "capture" /\ unsent' = 0
WriteReturns ==
  IF cpc = "header" /\ headers[image_counter].len > 0
    THEN cpc' = "data" /\ unsent' = headers[image_counter].len
    ELSE cpc' = "capture" /\ unsent' = 0

(* The kernel takes the next n bytes of the current call.                  *)
WriteBytes(n) ==
  /\ Writing
  /\ CopyIn(n)
  /\ IF n = unsent
       THEN WriteReturns
       ELSE unsent' = unsent - n /\ UNCHANGED cpc

(* The server has gone before the call copied a byte: write() returns -1,  *)
(* send_message returns -2 and skips the data, and the loop goes on.       *)
WriteFails ==
  /\ Writing
  /\ serverEnd = "closed"
  /\ unsent = CallLength
  /\ cpc' = "capture"
  /\ unsent' = 0
  /\ UNCHANGED connVars

(* The server goes away in the middle of the call: write() returns the     *)
(* short count, which send_message takes for success.                      *)
WriteCutShortRepeated == \* mutant
  /\ Writing
  /\ serverEnd = "closed"
  /\ unsent < CallLength
  /\ UNCHANGED <<connVars, clientVars>>
WriteCutShort ==
  /\ Writing
  /\ serverEnd = "closed"
  /\ unsent < CallLength
  /\ WriteReturns
  /\ UNCHANGED connVars

(* The same write() may instead raise SIGPIPE, which nobody handles.       *)
BrokenPipe ==
  /\ Writing
  /\ serverEnd = "closed"
  /\ unsent = CallLength
  /\ cpc' = "killed"
  /\ unsent' = 0
  /\ CloseClient

(* The loop ends, by the counter or by a key in the window, and            *)
(* ~tcp_client closes the socket.                                          *)
Finish ==
  /\ cpc = "capture"
  /\ cpc' = "finished"
  /\ CloseClient
  /\ UNCHANGED unsent

(* The process dies at any point and the kernel closes the socket.         *)
Die ==
  /\ ~ClientEnded
  /\ cpc' = "killed"
  /\ unsent' = 0
  /\ CloseClient

ClientStep ==
  \/ CaptureFrame
  \/ \E n \in 1 .. unsent : WriteBytes(n)
  \/ WriteFails
  \/ WriteCutShort
  \/ BrokenPipe
  \/ Finish
=============================================================================

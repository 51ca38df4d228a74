# Seifenkiste: specifications, model checking and proofs

The repository holds the cockpit software of a soapbox car: programs on a
Raspberry Pi take camera pictures and send them over TCP to a server on a PC,
which displays them. This directory holds TLA+ modules of that software, TLC
runs that check them on small instances, and TLAPS proofs about them.
`PROJECT.json` lists components, runs, mutants, hazards and theorems, and maps
every definition that models code to the lines it models.

## The system

| part | code | state it keeps | operations | interacts by |
|---|---|---|---|---|
| camera program | `RPI_cockpit_1/dev_tests/camera_tcp_test.cpp` | `image_counter`, the current message | `create_message`, `prep`, loop of `main` | `tcp_client::send_message` |
| timer test program | `RPI_cockpit_1/dev_tests/tcp_client_test_timer_messages.cpp` | `count1`, `send_indicator`, `image_counter`, image buffer | `start_timer`, `stop_timer`, `timer_callback`, `read_image`, loop of `main` | signals; `tcp_client::send_test_image` |
| `tcp_client` | `RPI_cockpit_1/tcp_client` | `tcp_state`, `sockfd` | construction, `send_message`, `send_test_image`, `send`, `TCP_disconnect`, destruction | one TCP connection; never reads answers |
| server program | `lib/pc_lib/tcp_server.cpp`, `main` in `stream_rpi_camera.cpp`, `tcp_reader.cpp` | `sockfd`, `connectionfd`, its children | `init_socket`, `connect_to_socket`, `connect_and_receive` | `accept()`, `fork()`, inherited descriptors |
| receiver process | `tcp_server::process_messages` and what it calls | `message_class` object, byte counts | `read_TCP_header`, `read_TCP_data`, `send_response` | `read()`, `write()` on the connection |
| single image test program | `RPI_cockpit_1/dev_tests/tcp_client_test_message.cpp` | image buffer | `read_image`, one `send_test_image` | `tcp_client::send_test_image` |
| `message_class` | `lib/message_class.cpp`, types in `lib/defs.h` | header fields, data buffer, parameter buffer, `state` | two constructors, `set_id`, `set_special_params`, `create_TCP_header`, buffer access, destructor | objects of both sides; 37 bytes carry one to the other |
| display | `stream_rpi_camera/display.h` | `global_test_frame` | `display` | the receiver puts the frame on the message's data buffer |
| `message_queue` | `lib/message_queue.cpp` | a queue | `add`, `get` | nobody calls them |
| kickstarters, other tests | | | | |

What is hard in it:

* **Framing.** A header is 37 bytes and announces the length of the data that
  follow; nothing else separates messages. The client is not throttled by
  answers, so several messages may be under way, and TCP cuts the stream
  anywhere. Every `read()` of the data loop asks for the whole length again.
* **Ends.** Either side may end or be killed between any two calls and inside
  a `write()`. The client never reads the answers: one that has arrived turns
  its `close()` into a reset, one that is still in flight causes a reset when
  it arrives after an orderly `close()`, and what of the pictures has not
  arrived by then is lost; and the answers may fill up.
* **Processes.** Server and children share descriptors after `fork()`; the
  parent never waits for its children; the server may be killed and started
  again while children still serve.
* **Errors in construction.** `tcp_client` goes on after each error, and one
  state overwrites another.
* **Signals.** The timer handler changes the variables `main` polls, between
  any two of its accesses and inside its system calls, and nobody handles
  SIGPIPE when the PC has gone.
* **Memory.** The header constructor tests and half overwrites members that
  nothing has set, a rejected message is used and destroyed like a good one,
  the frame shares the data buffer of a message that is destroyed before the
  next picture, the data loop may write behind that buffer, and several blocks
  are never freed.
* **The 37 bytes.** Written and read by `memcpy` at fixed offsets, one byte of
  a four-byte enum among them; `send_test_image` still sends the 25 bytes of
  an earlier header.

What makes the parts correct:

* the receiver reads headers where the client wrote them, shows pictures in
  order, once and complete, and answers each;
* each connection is served by one process, independently of the others, and
  ends with it; the port is released;
* `connection_ready` means a connection, and nobody writes without one;
* the constructor reverses `create_TCP_header`, so that the receiver's message
  is the camera's, and the camera's headers are accepted;
* memory is used while it is allocated and freed once; what a message leaves
  behind is known;
* a tick of the timer gives at most one image, and the loop ends on time.

## Modules

| module | models | lines up with the code |
|---|---|---|
| `TcpConnection` | one established connection as `read`, `write` and `close` show it | kernel (external); bytes are positions: `written`, `arrived`, `taken` count them, `headers` says where the client put its headers; `replies` are the answers sent, `delivered` how many of them have reached the client |
| `CameraClient` | the camera program with `send_message` and `send` | `cpc` is the `write()` it is in, `unsent` what that still has to copy; one action per outcome of `write()` |
| `ServerChild` | one receiver process | `spc`: waiting for a header, in the data loop, about to answer; `count_bytes` and `message` as in the code; `shown` the pictures displayed; `faults` notes how the framing was lost |
| `FrameDelivery` | abstract: an ordered delivery of pictures that may lose its framing | |
| `VideoLink` | client, connection and receiver composed; properties; refinement of `FrameDelivery` | `Next` interleaves their steps |
| `VideoLinkInv`, `VideoLinkProofs` | inductive invariant, proofs | |
| `ListenSocket` | listening socket, accept queue, descriptor tables | kernel (external) |
| `TcpServer` | the server program and the life of its children | `ppc` is the parent's next call; one action per call and outcome; `opened[p]` are the descriptors `fork()` copies |
| `TcpClient` | the `tcp_client` object | `tcp_state` and `sockfd` are its members; one action per step of the constructor and destructor |
| `ConnectionService` | abstract: each connection waits, is taken, served and over, independently | |
| `Sessions` | server, children and clients composed; properties; refinement of `ConnectionService` | |
| `SessionsInv`, `SessionsProofs` | inductive invariant, proofs | |
| `TickService` | abstract: ticks ask for images, calls answer them one at a time | |
| `TimerClient`, `TimerClientProofs` | the timer test program; refinement of `TickService`; proofs | `pc` is the next shared access or system call of `main`; `timer_callback` may run before each; `connection` is what there is of one, and may be lost at any time |
| `MessageClass` | the class `message_class`, no state of its own | objects are records of byte functions; `create_TCP_header`, `Parsed` and the other reader of headers, `process_header_message`, keep their offsets, a `memcpy` of one byte into an enum is `LowByte` |
| `MessageSender` | the messages of the camera program and of the two test programs, and the memory they take | `outgoing` is the message object, `sheap` the blocks malloc and new returned; `wire` the headers sent, as the receiver gets to read them |
| `MessageReceiver` | one receiver process's message object, memory and frame | `rpc` is the place in the loop of `process_messages`, `new_message` its local object, `rheap` the blocks, `misused` the ways memory was misused: a pointer to a block not held was used or freed ("pointer"), data written behind their buffer ("overrun"), a frame larger than its buffer displayed ("frame") |
| `MessageTransfer` | abstract: messages go on their way and arrive with their content; a receiver that fails may pass them over; without bytes | |
| `MessagePath` | both composed; properties; refinement of `MessageTransfer` | |
| `MessagePathInv`, `MessagePathProofs` | inductive invariant, proofs | |
| `MCVideoLink`, `MCSessions`, `MCTimerClient`, `MCMessagePath` | instances for TLC | |

`VideoLink` looks into one connection, `Sessions` at all of them, and
`MessagePath` into the messages: there a header arrives whole, not at all, or
is what else lies in the stream (`Stray`), as `VideoLink` shows it can. In
`Sessions` a child that serves ends some time or never (`ChildEnds`), which is
what `ServerChild` does in detail; a call of `send` is no step unless it ends
the client, because it does not change the object.

Abstractions worth knowing:

* Picture bytes have no content. Bytes that are no header may be accepted or
  rejected when read as one, with any announced length of `WildSizes`.
* `message_class::state` is tested before it is set; `StateResidue` lists what
  it may hold then. The builds use no optimisation, so no outcome is excluded.
* The receiver may be killed between any two calls, and a process whose memory
  was overrun, or that uses members never set, may fail at any later moment;
  both are `Crash`, and `spc` is "killed" then, "crashed" after a SIGPIPE.
* An answer takes any time to arrive (`ReplyArrives`); `ReplySpace` is the room
  for answers on the whole way back. A reset may overtake data: then what has
  not arrived is lost. A `write()` to a connection that is reset may be
  accepted, fail, or raise SIGPIPE.
* In `Sessions` a client connects once. A port in TIME_WAIT shows only as
  `InitFails`.
* Blocks of memory are named by the number of the message and the variable
  that got them. A block freed is never allocated again under its name, so a
  use after free is always seen, whatever `malloc` does with the address.
* In `MessageReceiver` the object of a turn is built where that of the last
  turn was and finds its members there, because the builds do not optimise;
  before the first turn the place holds any of `Garbage`, whose pointers point
  to nothing. `StateResidue` of `ServerChild` admits more than that.
* In `MessageReceiver` data have no bytes. That the data loop writes behind its
  buffer shows as headers lost from `wire`, and "overrun" in `misused`:
  while the reader is in step with a camera message the one goes with the
  other (`InFrame`, as `VideoLink` shows), afterwards headers also get lost as
  data. What an overrun writes over is not followed, so no property says
  anything of the content of messages after one.
* `sender_time` is 0 in the camera's messages and `state` never becomes
  `complete`, although the class has both; the models say the same.
* `tcp_server::process_header_message` has no callers. It is an operator,
  compared with the constructor in use wherever that accepts a header. It has
  the same numbers, but sets all four bytes of an enum by the sign of the one
  that was sent, and has no parameters (`ReadersAgree`).
* Clearing `send_indicator` and testing `count1` are one step each of
  `TimerClient`; a timer has at most one signal waiting, as POSIX says.

Operators marked `\* mutant` are wrong variants of the definition after them,
one plausible bug each (a dropped guard, a swapped order, an omitted close).
Nothing uses them in the specifications; put in place of the definition, each
breaks the property `PROJECT.json` names with it.

## Runs

| run | shows |
|---|---|
| `link_safety` | framing, completeness, answers, bound of the overrun; a waiting receiver has left nothing out; a connection that is not reset displays at most one picture more than there is room for answers (`DisplayBound`); the display lags by no more than there is room for (`LagBounded`); refinement of `FrameDelivery`, which has the order of the pictures in it; and, under fairness, the client ends or is stuck behind its answers, the receiver ends or spins, and a picture that has arrived gets displayed (`ArrivedIsShown`); 152 522 states |
| `link_alternate` (violated) | "alternating between a header message and a data message" is not so: the data loop can swallow the next header |
| `link_confirm` (violated) | an invalid message is confirmed, not requested again, be it a lost header or a good one met with the wrong content of memory |
| `link_ends` (violated) | the child does not terminate when the stream stops inside a picture |
| `sessions_safety` | separate connections that end with their child, no stray listener, no server starts over the remains of an earlier one, honest `tcp_state`, refinement of `ConnectionService`; 64 824 states up to symmetry |
| `sessions_live` | a queued connection gets accepted or reset; a connection ends with its child |
| `sessions_forever` (violated) | "runs forever" is not so: ended children that are never waited for use up the processes |
| `message_safety` | the constructor reverses `create_TCP_header`, and how its unused variant differs; each picture comes with its own dimensions; pointers are misused only after a header was rejected, and then always; exactly what is kept of each message; when the frame's pixels are allocated; the frame of a colour picture lies within its data buffer; refinement of `MessageTransfer`, which has in it that a receiver that does not fail takes every message of the camera; 100 684 states |
| `message_test` (violated) | "length of buffer to be transfered over TCP as header" is not what `send_test_image` sends: the receiver finds its messages invalid |
| `message_good` (violated) | "invalid when during the constructor call invalid parameters are detected" is not so: a good header is rejected for what the memory held |
| `timer_safety` | no tick answered twice, images in turn although files are missing; refinement of `TickService`, which has the bound of one extra image in it; and, under fairness, a tick that comes while no send is under way is served without a further tick, and while the timers run the program ends, even if the PC never makes room; 152 599 states |
| `timer_once` (violated) | "send each image once" is not so: the sixth tick may send the first image again |

Bounds, and why they are enough:

* `VideoLink`: headers of 2 bytes (so that they can be cut), pictures of 0 or
  3 bytes (none, and one that takes several reads and can be overrun by a
  header or more), room for 4 bytes under way (a picture and the
  beginning of the next header), one unread answer (so that answers block),
  3 pictures (`MaxImages = 2`, the loop's test being `<=`): one before, one at and one after a fault.
  All of them are CONSTANTS of the proofs.
* `Sessions`: 3 clients, a queue of two, two processes: a full queue, a
  blocked `connect()`, exhausted processes, and an heir to every descriptor.
  The liveness run has 2 clients and 1 process, without symmetry.
* `TimerClient`: the program's own numbers, 5 images and `count1 <= 5`; the
  first timer stays quiet after `MaxCount = 7` ticks, two past the end of the
  loop. Two files are missing, the first, so that there is a call without an
  image, and the third, so that the second is sent again; `timer_once` has all.
* `MessagePath`: 2 messages sent and 3 headers read: a rejected message between
  two good ones, two good ones in a row, and stray bytes anywhere. The
  values are chosen so that a byte moved or lost shows: the four low bytes of
  a time all differ, its high ones are not zero; lengths take one and two
  bytes, a file's also one that is cut off; garbage is valid or "invalid", with `NULL` or wild
  pointers, zero or all ones. The violated runs have one message and no stray bytes:
  what they show needs neither.

`TypeOK` is the first conjunct of `IInv` and `StrongInv` and is checked with
them; `TimerClient`, whose inductive invariant is small and stays with its
proofs, has it in the run. `ShownInOrder`, `AtMostOneExtra`, `CameraAccepted`,
`TestImagesRejected` and `InvalidStays` are not run: they follow from a
refinement that is, or say of every run what a violated run shows of one
(`TestImagesRejected`, `InvalidStays`). They are proved, each by itself.

Deadlock is checked everywhere; ended programs stutter by an action of their
own (`AllEnded`, `Ended`), and the server can always be started again.
The link and the timer program have one run each for safety and liveness: the
instances that make the one interesting do so for the other.

Fairness:

* `VideoLink!FairSpec`: both programs run on while they can, because they are
  loops that wait only in their own calls; TCP delivers pictures and answers
  while the connection is not reset. Nobody has to die, to crash, to be
  killed, or to get a particular result. `ArrivedIsShown` names what may keep
  a picture from the display: lost framing, a kill, blocked answers, and
  SIGPIPE on an answer, which takes an earlier picture. The end of the client,
  a reset and an orderly end of the receiver are no excuse.
* `Sessions!FairSpec`: the parent and a child's first step. A serving child
  need not end, for `link_ends` shows that it may not. Clients need not move.
* `TimerClient!FairSpec`: signals that wait are delivered, `main` runs on, and
  a `write()` that was interrupted or has lost its connection returns, or ends
  the process. No `write()` needs to succeed. That the timers go on is no part
  of it: only `Terminates` supposes that (`TimersRun`), while `IdleTickServed`
  asks for the send by the tick that came, without another one.

## Proofs

For every value of the constants that satisfies the modules' named
assumptions:

* **`VideoLinkProofs`.** `IInv` (in `VideoLinkInv`) is inductive. It says
  where headers lie in the stream (`LayoutInv`: one behind the other,
  without gaps until the receiver goes away), where the client's
  current call is (`WriterInv`), and, until a fault, where the receiver is
  relative to the headers (`AlignInv`, `DataInv`). `FramingHolds` alone is not
  inductive: that the next header is where the current message ends needs the layout, and the
  layout needs the writer's position. From it follow `FramingHolds`,
  `ShownInOrder`, `ShownHasArrived`, `OverrunBound`, `RepliesMatchShown`,
  `StuckOnlyAfterReplySpace`, `NothingLeftOut`, the action property
  `OverrunNeedsPipelining`, and the refinement of `FrameDelivery`.

  Two properties need more than `IInv`; what they need is `StrongInv`, which
  the run checks. `LagBounded` compares a count of pictures with a count of
  bytes. `RoomInv` bounds the bytes between writer and reader, `SpacingInv`
  says that any two headers are as far apart as that many smallest messages
  are long (its step multiplies distances, `OneMore` and `NoneOrLess` do that
  part), and `AlignInv` ties the reader's byte to the pictures shown.
  "Smallest" is the smallest picture sent: the bound holds for every `f` that
  none of them is below.
  `DisplayBound` needs `BackInv`: while the connection is not reset every
  displayed picture but the one about to be confirmed has sent an answer, and
  answers, in flight or delivered, do not exceed their room. It holds with
  the framing lost too.
* **`SessionsProofs`.** `IInv` (in `SessionsInv`) ties each process's
  descriptors to where it is (`ParentHolds`, `ChildHolds`), a connection to
  its place in queue, parent or child (`Progress`, `QueueNeedsListener`), and
  `tcp_state` to the connection (`StateTells`). From it follow `ConnectionsSeparate`,
  `NoStrayListener`, `ReadyMeansConnected`, `KilledOnlyByLoss`, `ClosedWithChild` (of all processes only the parent between
  `fork()` and its own `close()` can hold a connection whose child is over),
  the action property `CleanStart` (`bind()` needs a port nobody holds, and who
  serves a connection holds it) and the refinement of `ConnectionService`, with one lemma per
  action for the invariant and one case per action for the refinement.
* **`TimerClientProofs`.** `SendsAnswerTicks` with the loop bound carried over
  to the steps inside the loop (`InLoop`); from it `AtMostOneExtra`. For
  `ImagesInTurn`, `TurnInv` says that `image_counter` is the remainder of the
  calls counted so far, and `image` what the last call sent; the lemmas
  `Division`, `Remainder` and `NextRemainder` do the arithmetic for any number
  of images. The refinement of `TickService` maps the sequence of calls with
  the last one marked open until the indicator is cleared, so that what the
  `write()` calls record in between are stutters.
  `OnceWithEnoughImages` complements the violated run `timer_once`: if there
  were an image more than the loop bound, and a file for each,
  `NoImageTwice` would hold.
* **`MessagePathProofs`.** First facts about the class alone: what the header
  keeps (`HeaderFields`, `HeaderKeepsFields`), that it is accepted
  (`SegmentsMade`), that the constructor reverses it whatever the memory held
  (`ParsedHeader`, byte range by byte range), and that 25 bytes of it and what
  follows are never accepted (`ShortHeaderInvalid`, from `FilesArePictures`:
  image files do not have "end" at that place). Then `IInv`: what is on the
  wire is an honest header of one of the programs (`WireInv`), what the blocks and
  pointers are in every place of the loop until the first rejection
  (`HeapInv`, `PointerInv`: the pixels of the program's start are held until
  the first picture, and the frame shows them exactly as long), and that the misuse of
  pointers follows it (`MisuseInv`). Overruns are among the steps; they take
  headers from the wire and change no pointer. None of
  the memory properties is inductive without the pointers. All properties of
  the run are proved from it, for every set of pictures, times, files, garbage
  and stray bytes.

  `FrameFits` needs arithmetic on top: what four bytes keep of a number is
  the number if it fits and never more (`NumberOfWord`), and a product of
  smaller factors is no larger (`ProductMonotonic`), so that cut rows and
  columns do no harm, while a cut length would; `InColour` excludes that, and
  pictures that are not of three channels, for which the frame is too large.
  The refinement of `MessageTransfer` maps the wire element by element
  (`PipeFacts`); a step of the sender composes, sends or stutters
  (`SenderTransfers`), a header that is read is received or a mistake
  (`ReadingTransfers`, from `HeaderReceived`), and so is a data loop that takes
  headers for data. It needs `WireInv` to know that
  whatever is on the wire and not of the camera is refused. The abstract
  module promises nothing of how long a receiver fails: that one rejection is for
  good is a defect (`message_good`), and proved as the fact `InvalidStaysCorrect`,
  as `TestImagesCorrect` is of the one that `message_test` shows.

Only model-checked: the liveness properties (`ClientEndsOrStuck`,
`ReceiverEndsOrSpins`, `ArrivedIsShown`, `QueuedIsSettled`, `EndedIsClosed`,
`IdleTickServed`, `Terminates`), because the prover does neither fairness nor
ENABLED. Every invariant, action property and refinement of every passing run
is proved, and so are the five properties that are not run (`ShownInOrder`,
`AtMostOneExtra`, `CameraAccepted`, `TestImagesRejected`, `InvalidStays`).

## Not modelled

* `message_queue`: `add` and `get` have no callers, and the receiver is a
  process whose memory nobody else sees, so nothing in the system would behave
  differently with it. The comment at `tcp_server.cpp:144` ("the main loop
  picks it up") is wrong for the same reason: the child displays its picture
  itself.
* The windows of OpenCV, debug output and `write_to_file`, which nothing calls.
* `message_class::extract_TCP_header_info1`, which is private and has no caller.
* What `create_TCP_header` writes behind the 26 bytes that `send_test_image`
  allocates for its header, and what an overrun of the receiver's data buffer writes
  over: the first has no effect that the models follow, after the second
  nothing is claimed of the messages.
* The parsing functions of `defs.cpp`, which nothing calls.
* The kickstarters, fragments that no program uses, and the programs that
  print the contents of a queue.
* `TimerClient` and `MessageSender` together with a connection byte by byte.
  What a torn or short header does to a receiver is already in `ServerChild`:
  every cut of the stream, and bytes that are no header read as one; which of
  the test programs' headers are accepted is `TestImagesRejected`.
* The copies of a program that differ in nothing that is modelled
  (`stream_rpi_camera (copy).cpp`; `tcp_reader.cpp` has the server's `main`).

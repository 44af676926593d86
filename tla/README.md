# nanoarq: TLA+ models and proofs

nanoarq (`src/arq.h`) is a selective repeat ARQ: it turns a link that loses and
damages frames into two reliable byte streams. It is one C header with no
threads, no clock and no I/O of its own. The application and the backend of an
integration call it in whatever order they like, and time is an argument of
`arq_backend_poll`. What makes it hard is therefore the order of calls, the
loss of frames and the timers, and that is what the models explore.

## 1. Inventory

Everything below is in `src/arq.h`, except the last row.

| component | state | operations | talks to |
|---|---|---|---|
| send window | `arq__send_wnd_t`: ring buffer, per message length, `cur_ack_vec`, `full_ack_vec`, retransmission timer; tinygram timer; `arq__send_wnd_ptr_t` | `arq__send_wnd_send`, `_ack`, `_flush`, `_step`, `_ptr_next`, `arq__send_poll` | fed by `arq_send`/`arq_flush`; acknowledged by received headers |
| receive window | `arq__recv_wnd_t`: ring buffer, per message vectors and ack flag, one inter-segment timer, copy cursor, slide count | `arq__recv_wnd_frame`, `_pending`, `_recv`, `_ack`, `arq__recv_poll` | filled by received frames, emptied by `arq_recv`, writes acknowledgements into the header being sent |
| connections | `arq__conn_t`: state and a union of counters, timers, flags | `arq_connect`, `arq__conn_poll` and its state callbacks, `arq__conn_next_poll` | same headers as the windows |
| endpoint | `arq_t`: the above, one send frame (free, held, released), one receive frame, `need_poll` | the public API | application and backend |
| frame reception | `arq__recv_frame_t`: a buffer, its fill, whether a frame is in it | `arq__recv_frame_fill`, `_rst`, the reading half of `arq__recv_poll` | backend |
| frame codec | none | header packing, COBS, checksum: `arq__frame_write`, `arq__frame_read` | send frame, receive frame |
| CRC32 | a constant table | `arq_crc32` | frame codec |
| memory layout | `arq__lin_alloc_t`, while it runs | `arq__check_cfg`, `arq__lin_alloc_*`, `arq__alloc`, `arq_required_size` | `arq_init` |
| functional tests (`src/functional_tests`) | `ArqContext` objects, buffers, counters | 22 scenarios of calls with what they CHECK | the public API, and some internals |

`arq_close`, the FIN states, `win_size`, the keepalive and disconnect timers and
the statistics are declared and never used by any code.

Interaction. `arq_backend_poll` is the only place where the parts meet. It reads
the frame that has arrived, hands the header to the receive window, the send
window and the connection in this order, lets each add to the header that is
being built, and writes one frame if the send frame is free. `need_poll`, set
by a released send frame and by a complete received frame, makes `arq_send` and
`arq_recv` fail until the next poll.

Hard behaviours, with what each component must guarantee against them (the full
list, with lines, is `hazards` in `PROJECT.json`):

* the send window: wrap of the ring buffer and of sequence numbers, arbitrary
  acknowledgements, sends while messages are in flight. It must hold exactly
  the unacknowledged bytes, and give up only what is acknowledged;
* the receive window: two cursors, `w.seq` and `copy_seq`, that move at
  different times; slots that `arq_recv` clears while the sender may still
  repeat them. It must deliver each byte once and in order, and never
  acknowledge what it has not got;
* the endpoint: one send frame shared by acknowledgements and data, one
  poll-required flag, one deadline for the next poll. Nothing may be forgotten
  while the frame is busy, and the deadline must not be late;
* connections: loss, damage, simultaneous open, reset. A handshake must end,
  tell the application how, and not leave one end connected alone;
* frames: bytes arrive in pieces, damaged, cut short or run together. The
  decoder must not run off its buffer, damage must cost one frame only, and
  nothing wrong may pass the checksum;
* memory: sizes that wrap an `unsigned`, memory that is misaligned or just too
  small. `arq_required_size` must tell what `arq_init` needs.

## 2. Modules

| module | models | contents |
|---|---|---|
| `ArqBase` | helpers | parameters with their assumptions, acknowledgement vectors as sets of segment numbers, header defaults |
| `SendWnd` | send window | every function on it as an operator on a record |
| `RecvWnd` | receive window | the same |
| `Conn` | connections | the same, one operator per state callback |
| `Endpoint` | `arq_t` | the public functions as operators on the state of one endpoint |
| `ReliableStream` | the promise of `README.md` and `nanoarq.tex` | abstract specification: accept bytes, deliver a prefix, deliver everything eventually |
| `SendWindow` | send window alone | state machine: `Send`, `Flush`, `Poll`, `Reset` with every acknowledgement a header can carry |
| `RecvWindow` | receive window alone | state machine: `Poll`, `NewSegment`, `OldSegment`, `Recv`, fed by a peer whose messages arrive in any order; its `Env` adds what section 3 names |
| `ArqLink` | two endpoints and a link | state machine composing all of the above; refines `ReliableStream` in each direction |
| `FrameSizes` | frame lengths | shared by `Frame` and `Memory` |
| `Frame` | frame codec, receive frame | header packing, COBS, checksum and `arq__recv_frame_fill` as operators on sequences of bytes |
| `Crc32` | `arq_crc32` | the table, the loop, and CRC-32 by its definition, to compare with |
| `FrameChannel` | what the protocol expects of the framing | abstract specification: whole frames, of which damaged ones may be lost |
| `Wire` | frame reception over a serial line | state machine: `Send`, `SendDamaged`, `Stray`, `Fill`, `Poll`; refines `FrameChannel` |
| `Memory` | memory layout | state machine: `RequiredSize`, `ArqInit`, one `Alloc` per allocation, `Sized`, `Placed`, `Refuse` |
| `TestScripts` | functional tests | each test as a sequence of calls with the results it CHECKs |
| `FunctionalTests` | functional tests | state machine that makes these calls on `Endpoint` and `Frame` |
| `MC*` | | values of constants for TLC; `MCWire` also assumes of CRC-32 what the proof of `CarriesFrames` needs of a checksum |
| `NumberLemmas` | | what the proofs share about numbers: remainders, rounding, slots, induction on a set of numbers, least elements, iterated functions, increasing sequences |
| `SendWndLemmas`, `RecvWndLemmas` | | one lemma per operator of `SendWnd` and `RecvWnd`: what it returns, and what it leaves to the next poll; for messages of one segment, what each window holds of the stream |
| `SendWindowProofs`, `RecvWindowProofs`, `ArqLinkProofs`, `WireProofs`, `MemoryProofs` | | theorems, see section 6 |

State and actions follow the code: a record field has the name of the C field,
and an action stands for one public call, done to its end. In `ArqLink`,
`AppSend`, `AppFlush`, `AppRecv`, `AppConnect` and `AppReset` are calls of the
application; `Poll`, `PtrGet`, `Transmit` (with `arq_backend_send_ptr_release`)
and `Fill` (`arq_backend_recv_fill`) calls of the backend; `TransmitLost` and
`Corrupt` what the link does. `PollBoth` is the poll at both ends after the same
time asleep. In `Wire`, `Send` and the noise are the line; `Fill` and `Poll` are
the same two calls of the backend, seen from the receive frame only. `Memory`
goes one step down: an action is one allocation, because what `arq__alloc` does
after a failed one matters. In `FunctionalTests` an action is one call of a
test; `res` is what it returned and `expect` what the test CHECKs. The operators
whose comment begins with "Defect" are mutated forms of the operator that
follows; no specification uses them.

The levels fit together like this: `ArqLink` moves whole frames, and what it
assumes of them (a frame arrives intact, or with a wrong checksum, or not at all)
is `FrameChannel`, which `Wire` implements with the bytes of the real codec.

Abstractions:

* a byte is a number that tells its position in its stream, so that loss, duplication and reordering are visible. In
  `Frame`, `Crc32` and `Wire` bytes are bytes;
* a bit vector is the set of its ones. All full vectors of the code are
  `(1 << n) - 1`, so that the code's numeric `<` between a vector and a full
  one is "proper subset", whatever the vector;
* in `ArqLink` and `FunctionalTests` a frame travels whole, as header, data and
  whether its checksum is right. The code uses the header of a frame whose
  checksum is wrong, and so do the models: `Corrupt` gives such a frame any
  flags and any acknowledgement;
* the memory of the windows starts as zeros in place of unspecified bytes.
  What is compared never depends on them: a slot is read only behind what
  was written to it;
* times are small numbers; only their order matters. Bit widths are left out of
  the windows: configurations are assumed to fit (see the hazards on lines
  1007 and 1035). `Frame` has the widths of the header and `Memory` those of
  `unsigned`;
* a functional test is run at a scale: its sizes are parameters, its loops are
  loops, and its 10 MB are as many messages as use up the sequence numbers of
  the model almost three times, as they do those of the code.

## 3. What the environment may do

`ArqLink` and `RecvWindow` have a constant `Env`: what applications, clocks and link may do beyond
a well-behaved minimum. The models found that the code keeps its promise only
under restrictions that neither the documentation nor the API states; the flags
name them. The passing runs say what holds inside, the violation runs and the
tables below what fails outside.

`ArqLink`:

| flag | what it allows | result |
|---|---|---|
| `lose_data` | data frames and RSTs are lost | holds with one segment per message (`link_segment_loss`, `link_session`). With `MsgSegs = 2` `ExactlyOnceAB` fails: the loss of an earlier segment leaves the inter-segment timer armed behind the last one |
| `lose_last` | last segments are lost | holds with a send window of one message (`link_nak`). With `SendCap = 2` `OnlyFailedResent` fails: the last segment of another message stops the one inter-segment timer (line 1257), no NAK is sent, and the retransmission timer repeats what had arrived |
| `lose_acks` | acknowledgements are lost | duplicate (`find_lost_ack`). With `SendCap = 3`, `RecvCap = 1` also a stall: the receiver drops old segments without an answer, `SendSpaceReturns` fails |
| `skewed_clocks` | time passes at one end only | holds in `link_segment_loss` and `link_session`. In the configuration of `link_nak`, `OnlyFailedResent` fails: a fast sender repeats before the NAK. |
| `early_timeout` | timers run while frames are under way | duplicate: repeat of a message already read |
| `eager_recv` | `arq_recv` before the acknowledgement has been written | duplicate: the acknowledgement carries an empty vector |
| `slow_reader` | frames arrive while messages wait | holds (`link_segment_loss`) |
| `append` | `arq_send` adds to a flushed partial message | duplicate: vectors and length no longer agree |
| `send_behind` | `arq_send` while the window ends in a full message | duplicate (`find_send_behind`) |
| `send_early` | `arq_send` before the connection is established | `NoEmptySegment` fails: the ACK of a RST/ACK is applied to the send window, a message that is not flushed is sent, and `ARQ_ASSERT(psh->seg_len)` stops the program |
| `flush_again` | `arq_flush` for a message in flight | duplicate: its retransmission timer is reset |
| `late_poll` | `arq_backend_recv_fill` before a required poll | with `MsgSegs = 2`, a phantom segment: the send pointer outlives its message |
| `corrupt` | wrong checksums | handshakes still end (`handshake_lossy`). With `slow_reader`, `SendCap = RecvCap = 3`, `SeqMod = 4` `AckedIsReceived` fails: noise acknowledges a message nobody has |

`RecvWindow`, the receive window alone, where `arq__recv_wnd_frame` takes whatever
comes:

| flag | what it allows | result |
|---|---|---|
| `any_order` | the segments of a message arrive in any order, as they do when an earlier one is lost and repeated | `TypeOK`, `StreamInOrder`, `CursorsAgree` and `AckTellsTruth` hold (`recv_window`). The timer may acknowledge a message whose slot `arq_recv` has cleared meanwhile: the vector is empty, as `AckTellsTruth` says of a message that has been taken, and the sender repeats all of it |
| `eager_recv` | `arq_recv` while an acknowledgement is due | the same (`recv_window`). Without both flags no acknowledgement is empty (`AcksListAll`) |
| `late_repeat` | a segment arrives again when `arq_recv` has taken all of its message | only `TypeOK` holds (`RecvWindowProofs!TypeCorrect`; no run). The slot has been cleared (line 1300), so the repeat is stored as new (line 1244): `StreamInOrder` fails, its bytes are returned again, or stand where a later message belongs; `CursorsAgree` fails, `slide` counts more than the window holds; `AckTellsTruth` fails, its segment is counted for the next message of the slot |

`find_lost_ack` is the same repeat over the link, with what leads to it.

Four facts have no flag. With `SeqMod = 4`, `SegLen = 1` and `MaxBytes = 6` in
`LinkSegmentLoss.cfg` the test of line 1097 ignores an acknowledgement when the
window lies across the wrap of the sequence numbers: a duplicate, with clocks that agree;
`SeqMod = 16` passes with the same bounds. With `MaxResets = 1` and `MaxConnects = 2`
`ConnectSucceeds` fails, because an established end ignores a RST (1701-1707)
although `nanoarq.tex:264` draws the edge to RST_RCVD. An end in RST_SENT that
sees a bare RST is connected at once, where `nanoarq.tex:258` sends it to
RST_RCVD. And `arq_backend_poll` may keep silent about bytes that `arq_recv`
would return: `arq__recv_wnd_pending` looks at `w.seq`, which may have been copied
out, and not at `copy_seq`. Nor does it follow from what the poll reports that
`arq_recv` has a byte to return: with two receive slots, the repeat of a message
that has just been read sets the slot of `w.seq` again while `copy_seq` is at the
other one; the poll reports bytes and `arq_recv` returns none. No property is
stated of `arq__recv_wnd_pending` for that reason.

The rows without a run were found with the same modules, by changing the flags
and bounds of `LinkSegmentLoss.cfg`, `LinkNak.cfg` or `LinkSession.cfg` as given.

## 4. Runs

Every run finishes within four minutes with two workers.

| run | checks | shows |
|---|---|---|
| `send_window` | `TypeOK`, `WindowShape`, `ContentContiguous`, `OnlyFrontLeaves` | the send window alone, against every possible acknowledgement |
| `recv_window` | `TypeOK`, `StreamInOrder`, `CursorsAgree`, `AckTellsTruth` | the receive window alone: messages and segments in any order, reads at any time (`any_order`, `eager_recv`), repeats of what has not been read |
| `link_segment_loss` | `TypeOK`, `AckedIsReceived`, `ExactlyOnceAB`, `DeliveredAB` | loss, partial messages that grow until the tinygram timer sends them, and a slow reader, one segment per message |
| `link_nak` | `OnlyFailedResent`, `NextPollNotLate`, `NoEmptySegment`, `ExactlyOnceAB`, `SendSpaceReturns` | partial acknowledgement and selective repeat, partial segments, explicit flush and tinygrams, a sleeping backend |
| `link_session` | `IdleOwesNoAck`, `NoHalfOpen`, `ExactlyOnceBA`, `DeliveredBA`, `ConnectSucceeds` | handshake, then both ends send |
| `handshake_lossy` | `HandshakeEnds`, `EventsTellOutcome` | both connect and reset, loss and noise |
| `wire` | `TypeOK`, `OnlyLastByteZero`, `ChecksumIsCrc32`, `CarriesFrames`, `CleanDelivered` | a noisy line costs at most the frames it hits |
| `functional_tests` | `ChecksHold`, `OutputInPlace`, `TestsFinish` | the tests of the repository pass on the model, so the model does what the code is known to do; and they pass at other scales and with any value in what they leave uninitialised |
| `memory` | `TypeOK`, `RegionsApart`, `RegionsAligned`, `RequiredIsLeast` | sizing and placing agree, in memory of every size from 0 to 127 |
| `find_*` | one property each | the disagreements of section 5 |

`ExactlyOnceAB` and `ExactlyOnceBA` say that `ArqLink` implements the safety part
of `ReliableStream` for the bytes that A, or B, sends; the refinement mapping
takes `sent[e]` and `rcvd[peer]`. `DeliveredAB` and `DeliveredBA` are its
liveness part. `CarriesFrames` says that `Wire` implements `FrameChannel`, with
`sent` and `got` as they are.

Deadlock is checked in the runs of the windows and of the link, where a poll is
always possible. `Wire`, `FindJam`, `FunctionalTests` and `Memory` have
`CHECK_DEADLOCK FALSE`: with `MaxFrames` frames sent and read, a test at its end,
and `arq_init` returned, nothing is left to do. That the first two do not stop
before is what `CleanDelivered` and `TestsFinish` say.

Bounds of the protocol runs. Windows of two messages (a send window of one in
`link_nak`, see section 3), messages of one or two segments: enough for a message before,
at and behind every cursor, for a ring buffer that wraps, and for a segment that
is not the last. `SeqMod` is 4 in `send_window` and 6 in `recv_window`, less
than the messages that `MaxSent = 5` bytes (partial messages can be one byte
long) and `MaxMsgs = 7` allow, so that sequence numbers wrap. `MaxRcvd` bounds the
bytes read and is all there are in these messages. The inter-segment timer is 2 polls,
so that it goes off before, with or after a segment. `SeqMod > 2 * RecvCap` keeps the messages that a
peer may send apart from the one before the window, which has distance 0 (line
1231), as the code's 4096 provides for windows up to 2047. In the data runs
over the link `SeqMod` is 16 and numbers do not wrap (section 3 has a wrap that
goes wrong); `handshake_lossy` sends no data and needs one number only.
`MaxBytes` is more than the send window in `link_segment_loss` and `link_nak`,
so that slots are used again; one window in each direction in `link_session`.
`MaxLoss` is 2 where the repeat of a lost frame is to be lost too. Timers are 1
or 2, which gives each order in which they can go off; `TimeInfinity` is larger
than all. `ChanCap = 2` lets one frame wait behind another. No symmetry is used:
the ends have different parts.

Bounds of the others. `wire` sends three frames, so that there is one before and
one behind a damaged one: a segment of the longest length that contains a zero
and a 255, with header fields at the ends of their ranges, and an acknowledgement,
which is shorter, so that the buffer still holds bytes of a longer frame. One
noise event per behaviour: a changed byte becomes 0, 1 or 255 at any place, a
byte is lost or added at any place, or a zero is put between frames. Bytes arrive
one at a time or all at once (`Chunks`). An inserted byte only hits the shorter
frame and `lost_end` has a run of its own, because the longest frame with one
byte more, and two frames without a zero between them, fill the buffer for good
(`find_jam`). `functional_tests` runs three scales, among them one segment per
message and four, and eight sequence numbers (`SeqMod = 8`, at least twice the
window). `memory` uses an `unsigned` of 7 bits, sizes and alignments in the
proportions of a 16 bit target, windows of zero to three messages, and memory at
an aligned and at an odd address: some configurations fit, some do not, some
wrap.

Fairness. `FairSpec` of `ArqLink` assumes of each end what an event loop does: it keeps
polling while a poll changes something, takes and transmits frames, hands over
frames that have arrived, lets time pass when all is quiet, and reads when it
finds the endpoint idle (strong fairness, as more frames may come in between).
Nothing makes an application send, connect, flush or reset, and nothing makes
the link lose a frame. The code has no scheduling of its own; an integration
that does not poll gets nothing done, as `README.md` says of `arq_backend_poll`.
`FairSpec` of `Wire` assumes the same of the receiving backend: it passes on what
arrives and polls when told to; nothing makes the sender send (`FullyFairSpec` of `MCWire` is the same, with the
first condition as `WF`, for `find_jam`). `FairSpec` of
`FunctionalTests` is that a test takes its next step. Several of these weak
fairness conditions spell out when the action is enabled.

## 5. Disagreements between code and documents

Each is a violation run; quotes and lines are under `findings` in
`PROJECT.json`.

1. `find_lost_ack`: after a lost acknowledgement a message that `arq_recv` has
   already returned is accepted again. Shortest trace: send, receive, read, lose
   the acknowledgement, time out, repeat, read again. The repository's test of the
   lost acknowledgement expects as much: it reads the message (line 64 of
   `lost_ack_payload_retransmitted_already_received.cpp`), repeats it (97-112) and
   CHECKs that the receiver again has bytes to receive (124). It does not go on to read
   them. The script `LostAck` of `TestScripts` does the same, and passes; it is
   `README.md:27`, "No duplication", that the code and this test contradict.
2. `find_send_behind`: `arq_send` resets the retransmission timer of a full last
   message that is in flight. Duplicate without any loss.
3. `find_jam`: the zero that ends a frame is lost, the next frame is accumulated
   behind it and fills the buffer; `arq__recv_frame_fill` takes no byte any more
   and the frame never counts as complete. `nanoarq.tex:118` promises an
   inter-frame timeout for this case; there is none.

## 6. Proofs

The theorems hold for all values of the constants that satisfy the named
assumptions. Every property of `SendWindow`, `RecvWindow` and `Memory` that a run
checks is proved, and of `ArqLink` and `Wire` those named here.

**The send window.** Assumed: sizes at least 1, times natural, no more segments
than the acknowledgement field has bits (`VecBitsAssumption`) and a window size
that divides the sequence number space (`WholeRoundsAssumption`).
`arq__check_cfg` checks the first only. The last is needed: `WindowShape` fails
with `SeqMod = 3` and two slots.

* `SendWindowProofs!TypeCorrect`: `Spec => []TypeOK`. `TypeOK` is inductive. There is one lemma per
  function of the code (`SendType`, `AckType`, `FlushType`, `StepType`,
  `PtrNextType`, `SendPollType`). The substance is arithmetic: the number of
  messages that byte counts round up to never exceeds the slots
  (`AcceptedType`, `RoundUpBounded`), the two copies stay in the buffer and in
  the caller's data (`CopyInType`), the acknowledged prefix is no longer than
  the window (`AckedPrefixType`), and a mask always has a first free bit
  (`FirstUnackedType`).
* `SendWindowProofs!WindowShapeCorrect`: `Spec => []WindowShape`. The
  inductive invariant is
  `TypeOK /\ WindowShape`: each alone does not carry the step, as the slot
  arithmetic needs ranges. `WindowShape` is restated slot by slot (`Shape`), and
  each function is shown to keep it (`SendShape`, `AckShape`, `FlushShape`,
  `StepShape`). The facts behind it: messages of one window have different slots
  (`SlotInjective`), reducing a sequence number keeps its slot
  (`SlotOfReduced`, where the window size must divide the sequence space), and the size
  computed from bytes is the number of full messages plus one for a rest
  (`SizeFromBytes`). `WindowShape` matters because `arq__send_wnd_send` appends to
  the slot behind the window without clearing it.
* `SendWindowProofs!ContentContiguousCorrect`: `Spec => []ContentContiguous`,
  with `TypeOK /\ WindowShape` as the help of induction: the copies begin behind
  the last byte of the window only if all messages before the last are full
  (`TailPosition`). A byte written by the two copies is the byte of the caller it
  should be, and no byte in front of them changes (`CopyInRing`, `CopyInBehind`),
  since what is accepted and what is held are no more than the ring;
  an acknowledgement moves the start of the window by whole messages
  (`MessageStart`, `AckContent`).
* `SendWindowProofs!OnlyFrontLeavesCorrect`: `SendCap < SeqMod /\ Spec =>
  OnlyFrontLeaves`. The step property from the same invariant. The hypothesis is
  needed: how far the window moved is told from sequence numbers, and a window
  as large as their space moves by a full round when all of it is acknowledged.

**The receive window.** Assumed: the sizes and times of `ArqBase`, and
`SeqSpaceAssumption`: the sequence numbers are more than both windows together and a
multiple of the window. `arq__check_cfg` checks neither. Both are needed: with
four numbers and two windows of two, the fourth message, come before the first two
are read, has distance 0 from the window (line 1231) and is stored over the second
(TLC); and with a window that does not divide the numbers two messages share a slot.

* `RecvWindowProofs!TypeCorrect`: `Spec => []TypeOK`, for every `Env`. It has an
  invariant of its own (`TypeInv`) that knows nothing of the stream: a
  message is no longer than the segments in its vector (`MsgFits`), which is
  what keeps the next segment in its slot, since `arq__recv_wnd_frame` does not look.
* `ReadsStream` (`StreamInOrder`), `CursorsStayTogether` (`CursorsAgree`) and
  `AcksTellTruth` (`AckTellsTruth`) assume `"late_repeat" \notin Env`: no
  segment arrives again when `arq_recv` has taken all of its message. Segments come in
  any order otherwise, repeats before that point included, and reads at any time.
  `AcksListAll`, that every acknowledgement lists all that has arrived, assumes
  `Env = {}`. Section 3 has what fails without
  these hypotheses; the first is about the sender and the link, and `find_lost_ack`
  shows that a lost acknowledgement is enough to break it.
  All four come from one invariant, `IInv`: there is a message number `c`, the one
  the copy cursor is at, and everything else is told from it (`AtMsg(c)`). The
  window starts `slide` messages before `c`, the slots are those of the messages
  from `c` on, a slot holds what has arrived of its message and nothing of an older
  one (so that an acknowledgement of a slot that `arq_recv` has cleared lists
  nothing, rather than something else), and what has been returned is the stream
  up to the cursor. If `Env` is empty, moreover, what an acknowledgement is due for,
  or the inter-segment timer waits for, has not been read (`Answers`). None of the
  four properties is inductive alone: that the next byte is the right one needs to
  know whose bytes are in the slot, which needs that no sequence number fits two
  messages the peer may still send.
* `StreamUpTo` and the copy loop of `arq__recv_wnd_recv` are recursive functions. The
  proofs use them through what one more step adds (`Recursion`, `Iterates`), with
  induction as the least element of a set of natural numbers (`InductionOnSet`), and
  the copy loop as an iteration that keeps its invariant.

**Two endpoints.** Assumed: the sizes and times of `ArqBase`, arguments and bounds
that are natural numbers (`ArgumentsAssumption`, `BoundsAssumption`), and what
`arq__check_cfg` checks of RST (`RstAssumption`). `Env` is arbitrary, except for
`NoHalfOpenCorrect` and the five theorems about data: nothing else here depends on what
section 3 restricts. The invariant is `Inv` of `ArqLinkProofs`: every field
of both endpoints has its type (`EndpointType`: windows with their messages,
numbers, cursors and timers, the send pointer, both frames, the connection with its
attempt counter), frames under way are frames, and an endpoint without a required poll owes no
acknowledgement (`OwesNothing`). There is one lemma per function of the code,
named for it, and one per action.

* `ArqLinkProofs!TypeCorrect` and `IdleOwesNoAckCorrect` follow at once. The second needs
  that a poll with a free send frame writes every acknowledgement that is due or
  takes the frame, and that all who make an acknowledgement due require a poll.
* `EventsTellOutcomeCorrect`: a step property. Each state callback tells the
  event that goes with its change of state (`EventTells`), and nothing else leaves
  a handshake than a poll or `arq_reset`.
* `NextPollNotLateCorrect`: `Rtx > 0 /\ Spec => []NextPollNotLate`, by what a poll
  leaves behind. When it has nothing to send, every segment of the send window
  is waiting for a timer or has none to wait for (`Settled`, `SendSettles`), each
  pending acknowledgement has been written or waits for a timer (`TimerRuns`), and
  so does the connection (`Waiting`). `arq__next_poll` is the least of these
  timers, and a poll before it changes no timer to zero, so it again finds nothing
  due (`NothingDue`, `StaysSettled`, `StaysAnswered`). The hypothesis is needed:
  with a retransmission timeout of zero a message is due as soon as it has been
  sent, and `arq__next_poll` does not say so. `arq__check_cfg` does not look at the
  timeout.
* `NoHalfOpenCorrect`: `OneConnects(c)` implies `Spec => []NoHalfOpen`. The
  property is not inductive: that the connector may take a RST/ACK for the answer
  of an end that still waits depends on where every frame of the handshake is. The
  invariant, `Handshakes(c)`, is four stages (`Stage`): the connector has not asked
  or has given up (`NotAsking`), waits (`Asking`), has its answer while its ACK is
  on its way (`Answered`), or both are connected (`BothOpen`). Each says what
  frames are on the way in either direction: RSTs only towards the end that is
  asked, RST/ACKs only back, and, in `Answered`, the ACK with at most RSTs in
  front of it (`AckNext`). Until both are connected the windows are as
  `arq_init` left them (`Fresh`), so that a poll writes what the connection wants
  and nothing else (`FreshPoll`). There is one lemma for each step of either end
  (`StagePollServer`, `StageFillClient`, ...). `OneConnects` names what
  `link_session` has: one end connects, once, and neither resets;
  acknowledgements are not lost and frames not damaged; no timer runs out while
  frames are under way; `arq_send` waits for the connection. None of the
  conditions can be left out: with RSTs and data lost and clocks skewed, TLC finds a
  half-open connection when both ends connect, when one connects twice or
  resets, and when any one of `lose_acks`, `corrupt`, `early_timeout` and `send_early`
  is added to `Env`.

**Two endpoints: data.** `Orderly` implies `Spec => ExactlyOnceAB`, `Spec =>
ExactlyOnceBA`, `Spec => []AckedIsReceived`, `Spec => []NoEmptySegment` and, if
the two windows span at most half of the numbers, `Spec => []OnlyFailedResent`
(`ArqLinkProofs`, each named for its property). `Orderly` says:

* a message is one segment (`MsgSegs = 1`) and the retransmission timeout is not zero.
  With two segments `ExactlyOnceAB` is false if data is lost (section 3), and with a
  timeout of zero a message is resent before its acknowledgement can arrive;
* fewer bytes are sent than there are sequence numbers (`MaxBytes < SeqMod`), so
  that no number comes round. `arq__send_wnd_ack` compares numbers without
  regard to this (line 1097): while the window lies across the wrap it ignores
  acknowledgements of what is behind it, and the messages are sent again. In the
  configuration of `link_segment_loss`, with one byte in a segment, `SeqMod = 4` and
  `MaxBytes = 6`, clocks that agree and `slow_reader` alone, `OnlyFailedResent` fails;
  with `lose_data` too, `ExactlyOnceAB`. A window of one message passes there;
* there are no connections. With them, the ACK of a handshake has the form of an
  acknowledgement of data (`send_early` in section 3);
* none of `lose_acks`, `corrupt`, `early_timeout`, `eager_recv`, `append`,
  `send_behind`, `flush_again` and `late_poll` is in `Env`. Each has a
  counterexample in section 3, though the one of `late_poll` has two segments in a
  message.

What remains is what a link and its users do: segments are lost, at any time and in
any number, the last ones included; clocks differ; readers fall behind; both ends
send, partial messages grow until the tinygram timer goes off or a flush.
`link_segment_loss` is an instance. The theorems hold for every window, segment length,
timeout and channel capacity.

`ExactlyOnceAB` is the safety part of `ReliableStream` with `accepted <-
sent["A"]` and `delivered <- rcvd["B"]`. That each step is a step of it or a stutter
needs an invariant, `Inv /\ Streams`. `Streams` says of each direction that
there are places `st` where the messages of the stream start, such that `Flow` holds:

* `Source`: the send window holds the messages from `w.seq` on, all but the last of
  them full, each with the bytes of the stream from `st[n]` to `st[n + 1]`
  (`OneSegWnd`, `Starts`). `Content` is the ring buffer, as in `SendWindowProofs`;
* `OneSegRecv`: each slot of the receive window holds the whole of its message
  `n`, with the bytes from `st[n]` on, or nothing; the reader is at `copy_ofs` bytes
  behind `st[copy_seq]`, and what it has read is the stream up to there;
* `SegFrames`, `AckFrames`: frames under way carry whole messages, with the bytes
  of their number, or acknowledge whole messages. A frame is under way from the
  moment a poll writes it to the poll at the other end that reads it (`Path`);
* `Once`: no message is under way twice;
* `Knows`, which is `Exchange` of the two ends: what is acknowledged to the sender
  has arrived; what is under way has not; of what has arrived and is not
  acknowledged, the acknowledgement is due or under way; and nothing that has
  arrived or is under way may be sent (`Resendable`);
* `PtrFrame`: the message at the send pointer is in the frame that waits to be sent,
  or that frame has just been given back.

None of the five properties is inductive alone. That a resent segment is not a
duplicate is the last clause of `Exchange`, and it holds because timers run out only when
nothing is under way (`early_timeout` is not in `Env`): then what is not
acknowledged has not arrived. That in turn needs that acknowledgements are
neither lost nor forgotten, which is its third clause and `OwesNothing` of `Inv`.
There is one lemma for each action on `Flow` (`FlowSend`, `FlowRead`, `FlowTransmit`,
`FlowLoseData`, `FlowFill`, ...), one for each on `Streams`, and below them one for
each function of the windows (`OneSend`, `OneFlush`, `OneRead` and so on, in
`SendWndLemmas` and `RecvWndLemmas`). Every action changes one end or one link at a
time, so it is shown to keep `Flow` in both roles, sender of one direction and receiver
of the other. `Starts` is an existential of the invariant: a step that adds bytes
names the new places (`GrownStarts`) and leaves those of messages already sent.

**Frames.** Assumed: the frames that are sent are headers within their widths
with segments no longer than `SegLen`, a checksum is four bytes, pieces and
noise are counted by natural numbers. The checksum itself, the noise on a frame
and the lengths of the pieces are arbitrary.

* `WireProofs!HeaderRoundTrip`: `FrameHdrRead(FrameHdrWrite(h)) = h` for every
  header within its field widths; `DivModFacts` and one lemma per packed pair of
  fields.
* `WireProofs!TypeCorrect` and `OnlyLastByteZeroCorrect`: `Inv == TypeOK /\
  OnlyLastByteZero` is inductive. It needs the third conjunct of `OnlyLastByteZero`: a
  buffer that is still accumulating does not end in a zero, so that the first
  zero that `arq__recv_frame_fill` takes is the first of the frame. This is what
  the loop of `arq__cobs_decode` relies on to end.
* `WireProofs!FrameRoundTrip`: `arq__frame_read` returns the header and the data
  that `arq__frame_write` was given, whatever the receive buffer holds behind the
  frame. Below it is `CobsRoundTrip`: the encoder replaces each zero by the
  distance to the next one (`EncodedBytes`), so that the loop of the decoder
  visits exactly these places (`ChainOfEncoded`) and writes the zeros back. The
  hypothesis `ShortFrames`, that a frame is at most 256 bytes long, is needed
  because a distance is one byte; `arq__check_cfg` accepts longer segments.
* `WireProofs!CarriesFramesCorrect`: `Spec => CarriesFrames`, the safety part of
  `FrameChannel`, for any number of frames, any pieces and any amount of noise.
  It has three hypotheses. `ShortFrames` is as above. `NoiseDetected` says that the
  checksum passes no part of a damaged frame, unless what is read from it is the
  frame that was sent. That is what a checksum is for, and no four bytes do it
  against all noise, so it is stated and not proved; `MCWire` assumes it of
  CRC-32 with its frames and its noise, and TLC evaluates that. The exception is
  needed: noise on the last distance, which points behind the end of the frame,
  may make no difference to the decoder, and TLC finds the hypothesis false without
  it. The third is `"lost_end" \notin Noise`: two frames without the zero between
  them are taken for one that is too long (`find_jam`).
  The inductive invariant is `Inv /\ Orderly`. The bytes still to be read, those
  in the receive buffer and those on the wire, are one sequence (`Upcoming`), and
  every frame ever sent has a place in it, a negative one for what has been
  read. The places are in order and apart (`Placed`); they hold the bytes of the
  frame, or what noise made of them, and there are zeros between (`Matches`); the
  frames found good are, in order, some of those whose place has been passed, and
  no clean one is missing (`Found`). `CarriesFrames` is not inductive
  without the places: that the bytes up to the next zero are part of one frame, the one
  behind the last that was read, is only known from where the frames lie. Filling
  moves bytes from one part of the sequence to the other (`FillMoves`), sending
  puts a place behind all others (`SendAdds`), and a poll takes a zero (`ReadZero`) or the
  front of a frame (`ReadPart`, `FoundOnce`), after which every place is less by the
  length of that.

**Memory.** Assumed: `UMod` is a multiple of every alignment, sizes and
alignments of types are positive, configurations are natural numbers, and memory
is not at address 0 (`UnsignedAssumption`, `TypesAssumption`, `CfgsAssumption`,
`SeatsAssumption`).

* `MemoryProofs!TypeCorrect`, `RegionsDisjoint`, `RegionsWellAligned`, from one
  inductive invariant: the regions so far are stacked one above the other below
  the allocator's size (`Stacked`), and each starts at a multiple of its alignment
  (`AlignedSoFar`). The first holds for exact arithmetic only, the second even
  for sizes that wrap, because a power of two, or any `UMod` that the alignments
  divide, keeps remainders.
* `MemoryProofs!RequiredSizeIsLeast`: the two walks over the allocations compared. In
  `SizesInv`, the walk of `arq_required_size` without a limit has used as much
  as the walk of `arq_init` needs up to the same allocation, so the first
  allocation that fails in the second proves the memory smaller than the size
  told. It holds while no size has wrapped, wherever the memory lies.

Only model-checked:

* everything that happens eventually: `DeliveredAB`, `DeliveredBA`,
  `SendSpaceReturns`, `ConnectSucceeds`, `HandshakeEnds`, `CleanDelivered`,
  `TestsFinish`. Liveness under fairness is out of the prover's reach;
* `AckedIsReceived`, `OnlyFailedResent`, `NoEmptySegment`, `ExactlyOnceAB` and
  `ExactlyOnceBA` outside `Orderly`: with several segments in a message
  (`link_nak`) and with connections (`link_session`);
* `ChecksumIsCrc32`: `Crc32` uses `Bitwise`, and the prover loses its SMT backend
  in a module that does;
* `FunctionalTests`, which is about 22 given scripts.

## 7. Not modelled

* Unit tests, compilation tests, build files and scripts: they were read for what
  they expect of the code, but have no behaviour of the system in them.
* Asserts, mocks and platform macros, which have no protocol state. `Memory` and
  `Wire` follow the build without assertions: `arq__lin_alloc_alloc` asserts what
  it then tests (line 759), so that with assertions memory that is too small stops
  the program in place of making `arq_init` fail; and a lone zero on an idle line
  violates `len >= 3` in `arq__cobs_decode` (line 968).
* `arq_seg_len_from_frame_len`: a subtraction without state that no other function uses.
* Arguments that are null: each function returns an error and changes nothing.
* Truncation of configuration values to 16 and 8 bits when they are stored
  (hazard on line 1007): a misconfiguration that `arq__check_cfg` accepts.
* The unused parts named in section 1. There is no code to translate.
* The performance of the protocol, and integrations: `src/` contains no backend.

## 8. What is left

* The refinement of `ReliableStream` as a theorem beyond `Orderly`. For numbers that
  come round and a send window of one message, the messages of `Flow` need numbers that
  do not, as in `RecvWindowProofs`, and a bound on how far the ends are apart; for several segments, `Exchange` has to
  speak of segments, and to follow the inter-segment timer, which decides when a
  NAK is written; for connections, `Flow` begins when `Handshakes` ends.
* A receive frame that empties an overfull buffer would make `find_jam` a passing
  run; `CleanDelivered` is the property such a change has to satisfy.

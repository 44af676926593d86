---------------------------- MODULE TestScripts -----------------------------
(***************************************************************************)
(* The scenarios of src/functional_tests as scripts: the calls a test      *)
(* makes, in order, with what it CHECKs of their results.                  *)
(*                                                                         *)
(* A script is written for any configuration, so that a test can be run at *)
(* several scales, with a sequence number space small enough to be used up *)
(* several times by the tests that move 10 MB.  Byte k of the test data is *)
(* the number k.                                                           *)
(*                                                                         *)
(* A step names a call, the endpoint it is made on, its argument, and the  *)
(* fields of its result that the test looks at with the values it expects. *)
(***************************************************************************)
EXTENDS Integers, Sequences, TLC

CONSTANTS Scales,   \* configurations the tests are run with
          SeqMod    \* ARQ__FRAME_MAX_SEQ_NUM + 1

ASSUME ScalesAssumption ==
    \A s \in Scales :
        /\ s.SegLen > 1 /\ s.MsgSegs > 0 /\ s.Cap > 0 /\ SeqMod >= 2 * s.Cap
        /\ SeqMod % s.Cap = 0
        /\ (s.SegLen * s.MsgSegs * s.Cap) % s.Chunk = 0

MsgLen(c) == c.SegLen * c.MsgSegs
WndLen(c) == c.Cap * MsgLen(c)

----------------------------------------------------------------------------
(* Configurations *)

(* The tests that set tinygram_send_delay, those that set inter_segment_timeout,
   and those that do not set every header field they send. *)
TinySet == {"connect_times_out", "flush_tinygram", "tiny_sends", "poll_until_tinygram",
            "send_10mb", "retransmission_timers"}
InterSegSet == {"ack_full_window", "ack_one_message", "connect_simultaneous",
                "connect_three_way", "losing_final", "losing_non_final", "lost_ack",
                "retransmission_timers"}
HdrNotSet == {"recv_full_window_in_one_call", "recv_full_window_one_byte",
              "recv_full_window_one_segment"}

(* The sizes and times a test insists on. *)
Sized(t, s) ==
    CASE t = "lost_ack" -> [s EXCEPT !.MsgSegs = 1, !.Cap = 1]
      [] t \in {"losing_final", "losing_non_final"} ->
            [s EXCEPT !.MsgSegs = 2, !.Cap = 1, !.InterSeg = s.Rtx \div 2]
      [] t = "retransmission_timers" -> [s EXCEPT !.MsgSegs = 1, !.Cap = 4]
      [] t = "recv_partial_frame" -> [s EXCEPT !.MsgSegs = 1, !.Cap = 4]
      [] t \in {"flush_tinygram", "tiny_sends"} -> [s EXCEPT !.Tiny = s.SegLen]
      [] OTHER -> s

(* The 10 MB of test data use up the sequence numbers almost three times and
   end inside a segment. *)
LongLen(c) == (3 * SeqMod - 1) * MsgLen(c) + c.SegLen + 1

(* Bytes of test data. *)
InputLen(t, c) ==
    CASE t \in {"recv_10mb", "send_10mb", "transfer_10mb"} -> LongLen(c)
      [] t \in {"ack_one_message", "losing_final", "losing_non_final", "lost_ack"} -> MsgLen(c)
      [] t = "retransmission_timers" -> 3 * MsgLen(c)
      [] t = "recv_partial_frame" -> 2 * c.SegLen + 1
      [] t \in {"flush_tinygram", "poll_until_tinygram"} -> 1
      [] t = "tiny_sends" -> c.SegLen - 1
      [] t \in {"connect_simultaneous", "connect_three_way", "connect_times_out",
                "frame_serialization"} -> 0
      [] OTHER -> WndLen(c)

Input(t, c) == [k \in 1..InputLen(t, c) |-> k]

----------------------------------------------------------------------------
(* Steps *)

Step(call, peer, arg, expect) == [call |-> call, peer |-> peer, arg |-> arg, expect |-> expect]

Ok == [ok |-> TRUE]
Idle == [ok |-> TRUE, send_ready |-> FALSE]
Sends == [ok |-> TRUE, send_ready |-> TRUE]
NoneReady == [ok |-> TRUE, send_ready |-> FALSE, recv_ready |-> FALSE]
SendsOnly == [ok |-> TRUE, send_ready |-> TRUE, recv_ready |-> FALSE]
BothReady == [ok |-> TRUE, send_ready |-> TRUE, recv_ready |-> TRUE]

Connect(p) == Step("connect", p, 0, Ok)
(* The next n bytes of the data, or what is left of them. *)
SendSome(p, n, expect) == Step("send", p, n, expect)
Send(p, n) == SendSome(p, n, [ok |-> TRUE, sent |-> n])
Flush(p) == Step("flush", p, 0, Ok)
Poll(p, dt, expect) == Step("poll", p, dt, expect)
(* Gets the pointer, copies the frame to buffer b (0: nowhere), releases it. *)
Take(p, b, expect) == Step("take", p, b, expect)
Fill(p, b) == Step("fill", p, b, [ok |-> TRUE, filled |-> TRUE])
Recv(p, max, expect) == Step("recv", p, max, expect)
(* The same, but the whole buffer is taken for received data. *)
RecvWhole(p, max, expect) == Step("recv_whole", p, max, expect)
(* arq_recv until it returns nothing. *)
RecvAll(p, max) == Step("recv_all", p, max, Ok)
(* Writes the frame of the next segment of the data; seg is its number. *)
Craft(seg) == Step("craft", 0, seg, [crafted |-> TRUE])
CraftAck(ack) == Step("craft_ack", 0, ack, [crafted |-> TRUE])
(* arq__frame_read of buffer b, its data copied to place at (-1: the end). *)
Read(b, at, expect) == Step("read", b, at, expect)
Look(b, expect) == Step("look", b, 0, expect)
SendWndAck(p, b) == Step("send_wnd_ack", p, b, Ok)
Serialize(len) == Step("serialize", 0, len, [result |-> "SUCCESS", same |-> TRUE])
(* Looks at the endpoint, and at what has been received. *)
Inspect(expect) == Step("inspect", 1, 0, expect)
(* Goes n steps on, or back, if cond has that value. *)
Jump(cond, value, n) == Step("jump", 1, [cond |-> cond, value |-> value, by |-> n], <<>>)

AllReceived == [output |-> TRUE]

SequencesExt == INSTANCE SequencesExt

Repeat(n, F(_)) == SequencesExt!FlattenSeq([i \in 1..n |-> F(i)])

WhileDo(cond, body) ==
    <<Jump(cond, FALSE, Len(body) + 2)>> \o body \o <<Jump(cond, TRUE, -Len(body))>>

----------------------------------------------------------------------------
(* The tests *)

(* A frame from the sender's window to the receiver. *)
PassFrame(ready) ==
    <<Poll(1, 0, ready), Take(1, 1, Ok), Fill(2, 1), Poll(2, 0, Ok)>>

(* The acknowledgement in the receiver's send frame to the sender. *)
PassAck == <<Take(2, 1, Ok), Poll(2, 0, Ok), Fill(1, 1), Poll(1, 0, Ok)>>

AckMessages(c, msgs) ==
    <<Send(1, msgs * MsgLen(c))>>
    \o Repeat(msgs * c.MsgSegs, LAMBDA i : PassFrame(Sends))
    \o Repeat(msgs, LAMBDA i : PassAck)
    \o <<RecvAll(2, c.SegLen), Inspect([size |-> 0, output |-> TRUE])>>

AckOneMessage(c) == AckMessages(c, 1)

AckFullWindow(c) == AckMessages(c, c.Cap)

(* Takes a frame and looks at its flags. *)
TakeFlags(p, b, rst, ack) ==
    <<Take(p, b, Ok), Look(b, [result |-> "SUCCESS", rst |-> rst, ack |-> ack, seg |-> FALSE])>>

Event(ready, e) == [ok |-> TRUE, event |-> e, send_ready |-> ready, recv_ready |-> FALSE]

ConnectSimultaneous ==
    LET connect(p) ==
            <<Connect(p), Poll(p, 0, Event(TRUE, "NONE"))>> \o TakeFlags(p, p, TRUE, FALSE)
        hear(p, b) ==
            <<Fill(p, b), Poll(p, 0, Event(TRUE, "ESTABLISHED"))>> \o TakeFlags(p, 3, FALSE, TRUE)
    IN connect(1) \o connect(2) \o hear(2, 1) \o hear(1, 2)

ConnectThreeWay ==
    LET connected(ready) == [state |-> "ESTABLISHED"] @@ Event(ready, "ESTABLISHED")
    IN <<Connect(1), Poll(1, 0, Event(TRUE, "NONE"))>> \o TakeFlags(1, 1, TRUE, FALSE)
       \o <<Fill(2, 1), Poll(2, 0, Event(TRUE, "NONE"))>> \o TakeFlags(2, 1, TRUE, TRUE)
       \o <<Fill(1, 1), Poll(1, 0, connected(TRUE))>> \o TakeFlags(1, 1, FALSE, TRUE)
       \o <<Fill(2, 1), Poll(2, 0, connected(FALSE))>>

ConnectTimesOut(c) ==
    <<Connect(1)>>
    \o Repeat(c.RstAttempts,
              LAMBDA i : <<Poll(1, c.RstPeriod, Sends), Take(1, 0, [ok |-> TRUE, data |-> 0])>>)
    \o <<Poll(1, c.RstPeriod, [ok |-> TRUE, send_ready |-> TRUE,
                               event |-> "FAILED_NO_RESPONSE", state |-> "CLOSED"])>>

(* How the three tests with partial messages end. *)
ReadTinygram(len) ==
    <<Take(1, 1, [ok |-> TRUE, data |-> len]), Read(1, 0, [result |-> "SUCCESS"]),
      Inspect(AllReceived)>>

FlushTinygram ==
    <<Send(1, 1), Poll(1, 0, Idle), Flush(1), Poll(1, 0, Sends)>> \o ReadTinygram(1)

PollUntilTinygram(c) ==
    <<Send(1, 1)>>
    \o Repeat(c.Tiny - 1, LAMBDA i : <<Poll(1, 1, [next_poll |-> c.Tiny - i] @@ Idle)>>)
    \o <<Poll(1, 1, Sends)>> \o ReadTinygram(1)

TinySends(c) ==
    Repeat(c.Tiny - 1, LAMBDA i : <<Send(1, 1), Poll(1, 1, Idle)>>)
    \o <<Poll(1, 1, Sends)>> \o ReadTinygram(c.SegLen - 1)

(* losing_non_final_segment and losing_final_segment: the first or the second
   segment of a message is lost; wait is how the receiver comes to send the
   NAK, vec what that acknowledges, lost the segment sent again. *)
LosingSegment(c, buf1, buf2, wait, vec, lost, last) ==
    <<Send(1, MsgLen(c)), Poll(1, 0, Sends),
      Take(1, buf1, Ok), Poll(1, 0, Sends), Take(1, buf2, Ok), Poll(1, 0, Idle),
      Fill(2, 1)>> \o wait
    \o <<Take(2, 1, Ok), Poll(2, 0, NoneReady),
         Look(1, [result |-> "SUCCESS", seg |-> FALSE, seg_len |-> 0, msg_len |-> 0,
                  ack |-> TRUE, ack_num |-> 0, cur_ack_vec |-> vec]),
         Fill(1, 1), Poll(1, 0, SendsOnly), Take(1, 1, Ok), Poll(1, 0, Idle),
         Look(1, [result |-> "SUCCESS", seg |-> TRUE, seq_num |-> 0, seg_id |-> lost,
                  msg_len |-> 2, ack |-> FALSE]),
         Fill(2, 1), Poll(2, 0, last), Recv(2, MsgLen(c), [ok |-> TRUE, count |-> MsgLen(c)]),
         Inspect(AllReceived)>>

LosingNonFinal(c) ==
    LosingSegment(c, 0, 1, <<Poll(2, 0, SendsOnly)>>, {1}, 0,
                  [ok |-> TRUE, recv_ready |-> TRUE, send_ready |-> FALSE])

LosingFinal(c) ==
    LosingSegment(c, 1, 0,
                  <<Poll(2, 0, [next_poll |-> c.InterSeg] @@ NoneReady),
                    Poll(2, c.InterSeg, SendsOnly)>>,
                  {0}, 1, BothReady)

LostAck(c) ==
    LET ack == Look(1, [result |-> "SUCCESS", seg |-> FALSE, seg_len |-> 0,
                        ack |-> TRUE, ack_num |-> 0, cur_ack_vec |-> {0}])
    IN <<Send(1, MsgLen(c)), Poll(1, 0, Sends), Take(1, 1, Ok), Poll(1, 0, Idle),
         Fill(2, 1), Poll(2, 0, [ok |-> TRUE, recv_ready |-> TRUE]),
         Recv(2, MsgLen(c), [ok |-> TRUE, count |-> MsgLen(c)]), Inspect(AllReceived),
         Poll(2, 0, Sends), Take(2, 1, Ok), Poll(2, 0, Idle), ack,
         Poll(1, c.Rtx, Sends), Take(1, 1, Ok), Poll(1, 0, Idle),
         Fill(2, 1), Poll(2, 0, BothReady),
         Take(2, 1, [ok |-> TRUE, data |-> 0]), ack>>

RetransmissionTimers(c) ==
    LET drain(dt, seq) ==
            <<Poll(1, dt, Sends), Take(1, 1, [ok |-> TRUE, data |-> c.SegLen]),
              Read(1, seq * c.SegLen, [result |-> "SUCCESS", seq_num |-> seq])>>
        acks(ack) == <<CraftAck(ack), Fill(1, 1), Poll(1, 0, Idle)>>
        waits(left) == Poll(1, IF left = c.Rtx THEN 0 ELSE 1, [next_poll |-> left] @@ Idle)
    IN <<Send(1, 3 * MsgLen(c))>>
       \o drain(0, 0) \o <<Poll(1, 0, Sends), Take(1, 0, Ok)>>
       \o drain(0, 2) \o <<Poll(1, 0, Ok)>>
       \o acks(FALSE) \o acks(TRUE)
       \o Repeat(c.Rtx, LAMBDA i : <<waits(c.Rtx - i + 1)>>)
       \o drain(1, 1) \o <<Poll(1, 0, Ok), Inspect(AllReceived)>>

(* Loads the next segment of the data, which is the seg-th of its message. *)
Load(seg, ready) == <<Craft(seg), Fill(1, 1), Poll(1, 0, ready)>>

RecvPartialFrame(c) ==
    Load(0, BothReady) \o Load(0, BothReady) \o Load(0, BothReady)
    \o <<Recv(1, InputLen("recv_partial_frame", c),
              [ok |-> TRUE, count |-> InputLen("recv_partial_frame", c)]),
         Inspect(AllReceived)>>

LoadWindow(c, pending) ==
    Repeat(c.Cap * c.MsgSegs,
           LAMBDA i : LET seg == (i - 1) % c.MsgSegs
                      IN Load(seg, IF pending /\ seg = c.MsgSegs - 1
                                   THEN [ok |-> TRUE, recv_ready |-> TRUE] ELSE Ok))

RecvFullWindow(c, max, expect) ==
    LoadWindow(c, FALSE) \o WhileDo("more_to_receive", <<Recv(1, max, expect)>>)
    \o <<Inspect(AllReceived)>>

RecvInOneCall(c) == RecvFullWindow(c, WndLen(c), [ok |-> TRUE, count |-> WndLen(c)])

RecvOneByte(c) == RecvFullWindow(c, 1, [ok |-> TRUE, count |-> 1])

RecvOneSegment(c) == RecvFullWindow(c, c.SegLen, [ok |-> TRUE, some |-> TRUE])

Recv10mb(c) ==
    WhileDo("more_to_receive", LoadWindow(c, TRUE) \o <<RecvAll(1, c.SegLen + 1)>>)
    \o <<Inspect(AllReceived)>>

SendFullWindow(c) ==
    <<SendSome(1, WndLen(c), Ok)>>
    \o WhileDo("more_to_receive",
               <<Poll(1, 0, Sends), Take(1, 1, Ok), Read(1, -1, [result |-> "SUCCESS"])>>)
    \o <<Inspect(AllReceived)>>

(* The loop over a message ends early when all data has arrived. *)
Send10mb(c) ==
    LET segment == <<Jump("more_to_receive", FALSE, 5), Poll(1, 0, Ok),
                     Take(1, 1, [ok |-> TRUE, frame |-> TRUE]), Poll(1, 0, Ok),
                     Read(1, -1, [result |-> "SUCCESS"])>>
        message == Repeat(c.MsgSegs, LAMBDA i : segment) \o <<SendWndAck(1, 0)>>
        messages == WhileDo("in_flight", message)
    IN WhileDo("more_to_receive", <<SendSome(1, LongLen(c), Ok), Flush(1)>> \o messages)
       \o <<Inspect(AllReceived)>>

Transfer10mb(c) ==
    LET frames == WhileDo("in_flight",
                          <<Poll(1, 0, Sends), Take(1, 1, [ok |-> TRUE, frame |-> TRUE]),
                            SendWndAck(1, 1), Fill(2, 1), Poll(2, 0, Ok)>>)
    IN WhileDo("more_to_receive",
               <<Poll(1, 0, Ok), SendSome(1, LongLen(c), Ok), Flush(1)>> \o frames
               \o <<Inspect([size |-> 0]), RecvAll(2, MsgLen(c) + 1)>>)
       \o <<Inspect(AllReceived)>>

TransferFullWindow(c) ==
    <<Send(1, WndLen(c))>>
    \o Repeat(c.MsgSegs * c.Cap, LAMBDA i : PassFrame(Sends))
    \o WhileDo("more_to_receive", <<RecvWhole(2, c.Chunk, [ok |-> TRUE, some |-> TRUE])>>)
    \o <<Inspect(AllReceived)>>

(* 238 bytes are the most that fit a COBS block with the header. *)
FrameSerialization == [i \in 1..239 |-> Serialize(i - 1)]

Script(t, c) ==
    CASE t = "ack_full_window"              -> AckFullWindow(c)
      [] t = "ack_one_message"              -> AckOneMessage(c)
      [] t = "connect_simultaneous"         -> ConnectSimultaneous
      [] t = "connect_three_way"            -> ConnectThreeWay
      [] t = "connect_times_out"            -> ConnectTimesOut(c)
      [] t = "flush_tinygram"               -> FlushTinygram
      [] t = "frame_serialization"          -> FrameSerialization
      [] t = "losing_final"                 -> LosingFinal(c)
      [] t = "losing_non_final"             -> LosingNonFinal(c)
      [] t = "lost_ack"                     -> LostAck(c)
      [] t = "poll_until_tinygram"          -> PollUntilTinygram(c)
      [] t = "recv_10mb"                    -> Recv10mb(c)
      [] t = "recv_partial_frame"           -> RecvPartialFrame(c)
      [] t = "recv_full_window_in_one_call" -> RecvInOneCall(c)
      [] t = "recv_full_window_one_byte"    -> RecvOneByte(c)
      [] t = "recv_full_window_one_segment" -> RecvOneSegment(c)
      [] t = "retransmission_timers"        -> RetransmissionTimers(c)
      [] t = "send_10mb"                    -> Send10mb(c)
      [] t = "send_full_window"             -> SendFullWindow(c)
      [] t = "tiny_sends"                   -> TinySends(c)
      [] t = "transfer_10mb"                -> Transfer10mb(c)
      [] t = "transfer_full_window"         -> TransferFullWindow(c)
=============================================================================

--------------------------- MODULE FunctionalTests ---------------------------
(***************************************************************************)
(* Runs the scripts of the functional tests on the model of an endpoint.   *)
(*                                                                         *)
(* Some tests leave fields of arq_cfg_t, or of the header they write, as   *)
(* the stack had them: a run of such a test starts with any value there.   *)
(***************************************************************************)
EXTENDS TestScripts, Crc32

CONSTANTS Tests,         \* names of the tests to run
          TimeInfinity,  \* ARQ_TIME_INFINITY
          AnyTime        \* values of a time that the test has not set

VARIABLES test,     \* name of the test
          cfg,      \* its configuration
          unset,    \* header fields it has not set
          pc,       \* the step of its script that is next
          arq,      \* the endpoints of its ArqContext objects
          frame,    \* its frame buffers
          local,    \* its counters: pos in the data, seq, vec
          out,      \* bytes it has received
          res,      \* what the last call returned
          expect    \* what the test expects of res

vars == <<test, cfg, unset, pc, arq, frame, local, out, res, expect>>

Arq(c) == INSTANCE Endpoint WITH
    SegLen <- c.SegLen, MsgSegs <- c.MsgSegs, VecBits <- 12,
    SendCap <- c.Cap, RecvCap <- c.Cap,
    Tiny <- c.Tiny, Rtx <- c.Rtx, InterSeg <- c.InterSeg,
    UseConnections <- TRUE, RstAttempts <- c.RstAttempts, RstPeriod <- c.RstPeriod

Framing == INSTANCE Frame WITH Checksum <- arq_crc32

HdrInit == Arq(cfg)!FrameHdrInit

NoFrame == [hdr |-> HdrInit, data |-> <<>>, ok |-> TRUE]

(* A test's arq_cfg_t, with any value in the fields it has not set. *)
Cfgs(t) ==
    IF t = "frame_serialization" THEN {CHOOSE s \in Scales : TRUE}
    ELSE {[Sized(t, s) EXCEPT !.Tiny = IF t \in TinySet THEN @ ELSE tiny,
                              !.InterSeg = IF t \in InterSegSet THEN @ ELSE inter] :
             s \in Scales, tiny \in AnyTime, inter \in AnyTime}

(* What the header fields that a test has not set may be. *)
Unset(t, c) ==
    IF t \in HdrNotSet
    THEN [ack : BOOLEAN, rst : BOOLEAN, ack_num : {0, c.Cap - 1, SeqMod - 1}]
    ELSE {[ack |-> FALSE, rst |-> FALSE, ack_num |-> 0]}

(* arq_init has given the ArqContext objects of the test their memory. *)
Init ==
    /\ test \in Tests
    /\ cfg \in Cfgs(test)
    /\ unset \in Unset(test, cfg)
    /\ pc = 1
    /\ arq = [p \in 1..2 |-> Arq(cfg)!ArqInit]
    /\ frame = [b \in 1..3 |-> NoFrame]
    /\ local = [pos |-> 0, seq |-> 0, vec |-> {}]
    /\ out = <<>>
    /\ res = [ok |-> TRUE]
    /\ expect = <<>>

----------------------------------------------------------------------------
(* The calls.  Each is enabled when the script comes to a step s of its kind. *)

Left == InputLen(test, cfg) - local.pos

Call(s, call) ==
    /\ s.call = call
    /\ pc' = pc + 1
    /\ expect' = s.expect
    /\ UNCHANGED <<test, cfg, unset>>

(* arq_connect *)
CallConnect(s) ==
    /\ Call(s, "connect")
    /\ res' = [ok |-> Arq(cfg)!CanConnect(arq[s.peer].conn)]
    /\ arq' = [arq EXCEPT ![s.peer] = Arq(cfg)!ArqConnect(@)]
    /\ UNCHANGED <<frame, local, out>>

(* arq_send of the data from pos on *)
CallSend(s) ==
    LET len == IF s.arg < Left THEN s.arg ELSE Left
        n   == Arq(cfg)!Accepted(arq[s.peer].send_wnd, len)
    IN /\ Call(s, "send")
       /\ res' = [ok |-> ~arq[s.peer].need_poll, sent |-> n]
       /\ arq' = [arq EXCEPT ![s.peer] =
                    Arq(cfg)!ArqSend(@, [k \in 1..len |-> local.pos + k])]
       /\ local' = [local EXCEPT !.pos = @ + n]
       /\ UNCHANGED <<frame, out>>

(* arq_flush *)
CallFlush(s) ==
    /\ Call(s, "flush")
    /\ res' = [ok |-> TRUE]
    /\ arq' = [arq EXCEPT ![s.peer] = Arq(cfg)!ArqFlush(@)]
    /\ UNCHANGED <<frame, local, out>>

(* No frame says that it carries a segment and carries none. *)
SegmentsHaveData(sf) == \A i \in DOMAIN sf.frame : sf.frame[i].hdr.seg => sf.frame[i].data # <<>>

Polled(p, r) ==
    /\ arq' = [arq EXCEPT ![p] = r.arq]
    /\ res' = [ok         |-> SegmentsHaveData(r.arq.send_frame),
               event      |-> r.event,
               state      |-> r.arq.conn.state,
               send_ready |-> r.arq.send_frame.frame # <<>>,
               recv_ready |-> Arq(cfg)!RecvReady(r.arq),
               next_poll  |-> Arq(cfg)!NextPoll(r.arq)]

(* arq_backend_poll *)
CallPoll(s) ==
    /\ Call(s, "poll")
    /\ \E r \in {Arq(cfg)!BackendPoll(arq[s.peer], s.arg)} : Polled(s.peer, r)
    /\ UNCHANGED <<frame, local, out>>

(* arq_backend_send_ptr_get, memcpy and arq_backend_send_ptr_release *)
TakeFrame(s) ==
    LET sent == arq[s.peer].send_frame.frame
    IN /\ Call(s, "take")
       /\ res' = [ok    |-> sent # <<>>,
                  frame |-> sent # <<>>,
                  data  |-> IF sent = <<>> THEN -1 ELSE Len(sent[1].data)]
       /\ arq' = IF sent = <<>> THEN [arq EXCEPT ![s.peer] = Arq(cfg)!SendPtrGet(@)]
                 ELSE [arq EXCEPT ![s.peer] = Arq(cfg)!SendPtrRelease(Arq(cfg)!SendPtrGet(@))]
       /\ frame' = IF sent = <<>> \/ s.arg = 0 THEN frame
                   ELSE [frame EXCEPT ![s.arg] = sent[1]]
       /\ UNCHANGED <<local, out>>

(* arq_backend_recv_fill of frame buffer s.arg *)
FillFrame(s) ==
    LET filled == arq[s.peer].recv_frame = <<>>
    IN /\ Call(s, "fill")
       /\ res' = [ok |-> TRUE, filled |-> filled]
       /\ arq' = IF filled THEN [arq EXCEPT ![s.peer] = Arq(cfg)!RecvFill(@, frame[s.arg])]
                 ELSE arq
       /\ UNCHANGED <<frame, local, out>>

----------------------------------------------------------------------------
(* Receiving, and the loop that receives until nothing more comes. *)

Received(s, data, rest) ==
    /\ res' = [ok    |-> ~arq[s.peer].need_poll,
               count |-> Len(data),
               some  |-> data # <<>>]
    /\ arq' = [arq EXCEPT ![s.peer] = Arq(cfg)!ArqRecv(@, s.arg)]
    /\ out' = out \o data \o rest
    /\ UNCHANGED <<frame, local>>

RecvDataOf(s) == Arq(cfg)!RecvData(arq[s.peer].recv_wnd, s.arg)

(* arq_recv *)
CallRecv(s) ==
    /\ Call(s, "recv")
    /\ \E data \in {RecvDataOf(s)} : Received(s, data, <<>>)

(* arq_recv, of whose buffer the rest is copied as well *)
CallRecvWhole(s) ==
    /\ Call(s, "recv_whole")
    /\ \E data \in {RecvDataOf(s)} :
          Received(s, data, [k \in 1..(s.arg - Len(data)) |-> 0])

CallRecvAll(s) ==
    /\ s.call = "recv_all"
    /\ \E data \in {RecvDataOf(s)} :
          /\ Received(s, data, <<>>)
          /\ pc' = IF data = <<>> THEN pc + 1 ELSE pc
    /\ expect' = s.expect
    /\ UNCHANGED <<test, cfg, unset>>

----------------------------------------------------------------------------
(* What the tests do with frames themselves. *)

(* arq__frame_write of the next segment of the data *)
CraftFrame(s) ==
    LET most == IF test = "recv_partial_frame" /\ local.seq = 1 THEN 1 ELSE cfg.SegLen
        len  == IF most < Left THEN most ELSE Left
    IN /\ Call(s, "craft")
       /\ res' = [crafted |-> TRUE]
       /\ frame' = [frame EXCEPT ![1] =
                      [hdr  |-> unset @@ [HdrInit EXCEPT !.seg = TRUE, !.seq_num = local.seq,
                                                         !.seg_id = s.arg, !.msg_len = cfg.MsgSegs],
                       data |-> [k \in 1..len |-> local.pos + k],
                       ok   |-> TRUE]]
       /\ local' = [local EXCEPT
                      !.pos = @ + len,
                      !.seq = IF s.arg = cfg.MsgSegs - 1 THEN (@ + 1) % SeqMod ELSE @]
       /\ UNCHANGED <<arq, out>>

(* arq__frame_write of an acknowledgement of message 0, flagged so or not *)
CraftAckFrame(s) ==
    /\ Call(s, "craft_ack")
    /\ res' = [crafted |-> TRUE]
    /\ frame' = [frame EXCEPT ![1] =
                   [NoFrame EXCEPT !.hdr.ack = s.arg, !.hdr.cur_ack_vec = {0}]]
    /\ UNCHANGED <<arq, local, out>>

Seen(f) ==
    [seg_len |-> Len(f.data),
     result  |-> IF f.ok THEN "SUCCESS" ELSE "ERR_CHECKSUM"] @@ f.hdr

(* Puts data into out from byte at + 1 on. *)
PutAt(at, data) ==
    [i \in 1..(IF at + Len(data) > Len(out) THEN at + Len(data) ELSE Len(out)) |->
        IF i \in (at + 1)..(at + Len(data)) THEN data[i - at]
        ELSE IF i \in DOMAIN out THEN out[i] ELSE 0]

(* arq__frame_read, whose segment is copied; the tests that acknowledge by hand
   note which it was. *)
ReadFrame(s) ==
    LET f == frame[s.peer]
    IN /\ Call(s, "read")
       /\ res' = Seen(f)
       /\ out' = PutAt(IF s.arg = -1 THEN Len(out) ELSE s.arg, f.data)
       /\ local' = [local EXCEPT !.vec = @ \cup {f.hdr.seg_id}]
       /\ UNCHANGED <<arq, frame>>

(* arq__frame_read of a copy *)
LookAtFrame(s) ==
    /\ Call(s, "look")
    /\ res' = Seen(frame[s.peer])
    /\ UNCHANGED <<arq, frame, local, out>>

(* arq__send_wnd_ack of what the test has counted, or, from a frame it has read,
   of that segment and those before it. *)
AckDirectly(s) ==
    LET h   == frame[1].hdr
        seq == IF s.arg = 0 THEN local.seq ELSE h.seq_num
        vec == IF s.arg = 0 THEN local.vec ELSE Arq(cfg)!AckVec(h.seg_id + 1)
    IN /\ Call(s, "send_wnd_ack")
       /\ res' = [ok |-> TRUE]
       /\ arq' = [arq EXCEPT ![s.peer].send_wnd = Arq(cfg)!SendWndAck(@, seq, vec)]
       /\ local' = [local EXCEPT !.seq = (@ + 1) % SeqMod, !.vec = {}]
       /\ UNCHANGED <<frame, out>>

(* A frame with a segment of s.arg bytes, written to bytes and read back. *)
SerializeFrame(s) ==
    LET seg  == [k \in 1..s.arg |-> k - 1]
        h    == [Framing!HdrInit EXCEPT !.seg_len = s.arg]
    IN /\ Call(s, "serialize")
       /\ \E bytes \in {Framing!FrameWrite(h, seg)} :
             \E r \in {Framing!FrameRead(bytes, Len(bytes))} :
                res' = [result |-> r.result,
                        same   |-> r.hdr.seg_len = s.arg /\ r.seg = seg]
       /\ UNCHANGED <<arq, frame, local, out>>

Inspection(s) ==
    /\ Call(s, "inspect")
    /\ res' = [size |-> arq[1].send_wnd.size, output |-> out = Input(test, cfg)]
    /\ UNCHANGED <<arq, frame, local, out>>

----------------------------------------------------------------------------
Condition(cond) ==
    CASE cond = "more_to_receive" -> Len(out) < InputLen(test, cfg)
      [] cond = "in_flight"       -> arq[1].send_wnd.size > 0

JumpTo(s) ==
    /\ s.call = "jump"
    /\ pc' = IF Condition(s.arg.cond) = s.arg.value THEN pc + s.arg.by ELSE pc + 1
    /\ expect' = <<>>
    /\ UNCHANGED <<test, cfg, unset, arq, frame, local, out, res>>

DoStep(s) ==
    \/ CallConnect(s) \/ CallSend(s) \/ CallFlush(s) \/ CallPoll(s)
    \/ TakeFrame(s) \/ FillFrame(s)
    \/ CallRecv(s) \/ CallRecvWhole(s) \/ CallRecvAll(s)
    \/ CraftFrame(s) \/ CraftAckFrame(s) \/ ReadFrame(s) \/ LookAtFrame(s)
    \/ AckDirectly(s) \/ SerializeFrame(s) \/ Inspection(s) \/ JumpTo(s)

Next ==
    \E script \in {Script(test, cfg)} :
        /\ pc <= Len(script)
        /\ \E s \in {script[pc]} : DoStep(s)

Spec == Init /\ [][Next]_vars

Finished == pc > Len(Script(test, cfg))

(* A test runs until it is through: WF_vars(Next), with what enables Next. *)
FairSpec == Spec /\ ([]<>Finished \/ []<><<Next>>_vars)

----------------------------------------------------------------------------
(* Every result that a test CHECKs is the one it CHECKs for, and no assertion
   fails, whatever is in the fields the test has not set. *)
ChecksHold == \A f \in DOMAIN expect : res[f] = expect[f]

(* A byte that comes out of arq_recv, or out of the segment of a frame, is where
   it was in the data: nothing is reordered, repeated or skipped. *)
OutputInPlace == \A i \in DOMAIN out : out[i] \in {0, i}

(* No loop of a test spins: the windows give space and data back. *)
TestsFinish == <>Finished
=============================================================================

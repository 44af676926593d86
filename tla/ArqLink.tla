------------------------------- MODULE ArqLink -------------------------------
(***************************************************************************)
(* Two endpoints and the serial link between them.  Each end has an        *)
(* application (arq_send, arq_flush, arq_recv, arq_connect) and a backend  *)
(* (arq_backend_poll, arq_backend_send_ptr_get and _release,               *)
(* arq_backend_recv_fill), which run in any order.  The link is a FIFO of  *)
(* frames in each direction that may lose or damage frames.                *)
(*                                                                         *)
(* Env says what applications, clocks and link may do beyond a well        *)
(* behaved minimum, so that a run can state under which conditions a       *)
(* property holds:                                                         *)
(*   "lose_data"     a frame without an acknowledgement may be lost        *)
(*   "lose_last"     a frame with the last segment of its message may be   *)
(*                   lost                                                  *)
(*   "lose_acks"     a frame with an acknowledgement may be lost           *)
(*   "corrupt"       a frame may arrive damaged, its checksum wrong        *)
(*   "skewed_clocks" time may pass at one end only, while no frame is      *)
(*                   under way; without it, it passes at both ends alike   *)
(*   "early_timeout" time may pass, at one end, while frames are under way *)
(*   "eager_recv"    arq_recv is called as soon as it is allowed; without  *)
(*                   it, only once the endpoint has nothing left to send   *)
(*   "slow_reader"   frames arrive while complete messages wait for        *)
(*                   arq_recv                                              *)
(*   "append"        arq_send adds to a partial message already flushed    *)
(*   "send_behind"   arq_send is called while the window ends in a full    *)
(*                   message; without it, the application waits until that *)
(*                   is acknowledged                                       *)
(*   "send_early"    arq_send is called before the endpoint is connected    *)
(*   "flush_again"   arq_flush is called for a message already flushed     *)
(*   "late_poll"     arq_backend_recv_fill is called between               *)
(*                   ARQ_OK_POLL_REQUIRED and the poll it asks for         *)
(***************************************************************************)
EXTENDS Endpoint

CONSTANTS Senders,     \* endpoints whose application sends
          Connectors,  \* endpoints whose application calls arq_connect and arq_reset
          Env,
          UseFlush,    \* whether the sending applications call arq_flush
          SendLens, RecvMaxs, Dts,
          MaxBytes, MaxLoss, MaxConnects, MaxResets, ChanCap   \* bounds

Node == {"A", "B"}

EnvFlags == {"lose_data", "lose_last", "lose_acks", "corrupt", "skewed_clocks", "early_timeout",
             "eager_recv", "slow_reader", "append", "send_behind",
             "send_early", "flush_again", "late_poll"}

ASSUME EnvAssumption == Env \subseteq EnvFlags /\ UseFlush \in BOOLEAN
ASSUME PartiesAssumption == Senders \subseteq Node /\ Connectors \subseteq Node
ASSUME ArgumentsAssumption == SendLens \subseteq Nat /\ RecvMaxs \subseteq Nat /\ Dts \subseteq Nat
ASSUME BoundsAssumption == {MaxBytes, MaxLoss, MaxConnects, MaxResets, ChanCap} \subseteq Nat

VARIABLES arq,     \* the two arq_t
          chan,    \* chan[e]: frames under way to e
          sent,    \* sent[e]: bytes arq_send accepted at e
          rcvd,    \* rcvd[e]: bytes arq_recv returned at e
          event,   \* event[e]: event of the last poll at e
          used     \* how much of each bound a behaviour has used up

vars == <<arq, chan, sent, rcvd, event, used>>

Peer(e) == CHOOSE p \in Node : p # e

Init ==
    /\ arq = [e \in Node |-> ArqInit]
    /\ chan = [e \in Node |-> <<>>]
    /\ sent = [e \in Node |-> 0]
    /\ rcvd = [e \in Node |-> <<>>]
    /\ event = [e \in Node |-> "NONE"]
    /\ used = [loss |-> 0, connects |-> [e \in Node |-> 0], resets |-> 0]

----------------------------------------------------------------------------
(* Application *)

Stream(e, n) == [k \in 1..n |-> sent[e] + k]

(* Whether a well behaved application calls arq_send now: the last message of
   the window is one it is still filling.  It is not flushed yet: until then its
   timer runs along with the tinygram timer. *)
MayAppend(e) ==
    LET sw   == arq[e].send_wnd
        last == TailLen(sw)
    IN CASE last = 0      -> TRUE
         [] last = MsgLen -> "send_behind" \in Env
         [] OTHER         -> \/ "append" \in Env
                             \/ sw.tiny_on /\ sw.rtx[TailSeq(sw) % SendCap] = sw.tiny

AppSend(e, n) ==
    /\ e \in Senders
    /\ "send_early" \in Env \/ arq[e].conn.state = "ESTABLISHED"
    /\ ~arq[e].need_poll
    /\ sent[e] + n <= MaxBytes
    /\ MayAppend(e)
    /\ arq' = [arq EXCEPT ![e] = ArqSend(@, Stream(e, n))]
    /\ sent' = [sent EXCEPT ![e] = @ + Accepted(arq[e].send_wnd, n)]
    /\ UNCHANGED <<chan, rcvd, event, used>>

(* A flush that tells arq__send_wnd_flush something new. *)
MayFlush(e) ==
    LET sw == arq[e].send_wnd
        m  == sw.msg[TailSeq(sw) % SendCap]
    IN "flush_again" \in Env \/ m.full_ack_vec # AckVec(SegCount(m.len))

AppFlush(e) ==
    /\ UseFlush /\ e \in Senders
    /\ MayFlush(e)
    /\ arq' = [arq EXCEPT ![e] = ArqFlush(@)]
    /\ UNCHANGED <<chan, sent, rcvd, event, used>>

AppRecv(e, max) ==
    /\ ~arq[e].need_poll
    /\ "eager_recv" \in Env \/ arq[e].send_frame.frame = <<>>
    /\ RecvCount(arq[e].recv_wnd, max) > 0
    /\ Len(rcvd[e]) <= MaxBytes
    /\ rcvd' = [rcvd EXCEPT ![e] = @ \o RecvData(arq[e].recv_wnd, max)]
    /\ arq' = [arq EXCEPT ![e] = ArqRecv(@, max)]
    /\ UNCHANGED <<chan, sent, event, used>>

AppConnect(e) ==
    /\ e \in Connectors
    /\ used.connects[e] < MaxConnects
    /\ CanConnect(arq[e].conn)
    /\ arq' = [arq EXCEPT ![e] = ArqConnect(@)]
    /\ used' = [used EXCEPT !.connects[e] = @ + 1]
    /\ UNCHANGED <<chan, sent, rcvd, event>>

AppReset(e) ==
    /\ e \in Connectors
    /\ used.resets < MaxResets
    /\ arq' = [arq EXCEPT ![e] = ArqReset(@)]
    /\ used' = [used EXCEPT !.resets = @ + 1]
    /\ UNCHANGED <<chan, sent, rcvd, event>>

----------------------------------------------------------------------------
(* Backend *)

Quiet ==
    \A e \in Node :
        /\ chan[e] = <<>>
        /\ arq[e].recv_frame = <<>>
        /\ arq[e].send_frame.frame = <<>>
        /\ ~arq[e].need_poll

MayTick(e) ==
    \/ "early_timeout" \in Env
    \/ "skewed_clocks" \in Env /\ Quiet

(* arq_backend_poll at one end. *)
Poll(e, dt) ==
    /\ dt > 0 => MayTick(e)
    /\ LET p == BackendPoll(arq[e], dt)
       IN /\ arq' = [arq EXCEPT ![e] = p.arq]
          /\ event' = [event EXCEPT ![e] = p.event]
    /\ UNCHANGED <<chan, sent, rcvd, used>>

(* Both ends slept for dt and are polled. *)
PollBoth(dt) ==
    /\ Quiet
    /\ LET p == [e \in Node |-> BackendPoll(arq[e], dt)]
       IN /\ arq' = [e \in Node |-> p[e].arq]
          /\ event' = [e \in Node |-> p[e].event]
    /\ UNCHANGED <<chan, sent, rcvd, used>>

PtrGet(e) ==
    /\ arq' = [arq EXCEPT ![e] = SendPtrGet(@)]
    /\ UNCHANGED <<chan, sent, rcvd, event, used>>

(* The backend has put the frame it holds on the wire. *)
Transmit(e) ==
    /\ arq[e].send_frame.state = "HELD"
    /\ Len(chan[Peer(e)]) < ChanCap
    /\ chan' = [chan EXCEPT ![Peer(e)] = @ \o arq[e].send_frame.frame]
    /\ arq' = [arq EXCEPT ![e] = SendPtrRelease(@)]
    /\ UNCHANGED <<sent, rcvd, event, used>>

MayLose(hdr) ==
    \/ "lose_acks" \in Env /\ hdr.ack
    \/ "lose_data" \in Env /\ ~hdr.ack
    \/ "lose_last" \in Env /\ ~hdr.ack /\ hdr.seg /\ hdr.seg_id = hdr.msg_len - 1

(* The same, but the frame never arrives. *)
TransmitLost(e) ==
    /\ arq[e].send_frame.state = "HELD"
    /\ used.loss < MaxLoss
    /\ MayLose(arq[e].send_frame.frame[1].hdr)
    /\ used' = [used EXCEPT !.loss = @ + 1]
    /\ arq' = [arq EXCEPT ![e] = SendPtrRelease(@)]
    /\ UNCHANGED <<chan, sent, rcvd, event>>

(* Noise turns the next frame to e into one whose checksum is wrong, whatever
   its flags and its acknowledgement now say. *)
Corrupt(e) ==
    /\ "corrupt" \in Env
    /\ used.loss < MaxLoss
    /\ chan[e] # <<>> /\ chan[e][1].ok
    /\ \E ack, seg, rst \in BOOLEAN, s \in 0..(SeqMod - 1), v \in Vecs :
          chan' = [chan EXCEPT
                     ![e][1].ok = FALSE,
                     ![e][1].hdr = [@ EXCEPT !.ack = ack, !.seg = seg, !.rst = rst,
                                             !.ack_num = s, !.cur_ack_vec = v]]
    /\ used' = [used EXCEPT !.loss = @ + 1]
    /\ UNCHANGED <<arq, sent, rcvd, event>>

Fill(e) ==
    /\ chan[e] # <<>>
    /\ arq[e].recv_frame = <<>>
    /\ "slow_reader" \in Env \/ Deliverable(arq[e].recv_wnd) = 0
    /\ "late_poll" \in Env \/ ~arq[e].need_poll
    /\ arq' = [arq EXCEPT ![e] = RecvFill(@, Head(chan[e]))]
    /\ chan' = [chan EXCEPT ![e] = Tail(@)]
    /\ UNCHANGED <<sent, rcvd, event, used>>

----------------------------------------------------------------------------
Recv(e) == \E max \in RecvMaxs : AppRecv(e, max)

Skew(e) == \E dt \in Dts \ {0} : Poll(e, dt)

Tick == \E dt \in Dts \ {0} : PollBoth(dt)

Next ==
    \/ Tick
    \/ \E e \in Node :
          \/ \E n \in SendLens : AppSend(e, n)
          \/ AppFlush(e)
          \/ Recv(e)
          \/ AppConnect(e)
          \/ AppReset(e)
          \/ Poll(e, 0)
          \/ Skew(e)
          \/ PtrGet(e)
          \/ Transmit(e)
          \/ TransmitLost(e)
          \/ Corrupt(e)
          \/ Fill(e)

(* Whether polling e for dt would change anything. *)
PollDue(e, dt) ==
    LET p == BackendPoll(arq[e], dt)
    IN <<p.arq, p.event>> # <<arq[e], event[e]>>

TickDue == Quiet /\ \E e \in Node, dt \in Dts \ {0} : PollDue(e, dt)

RecvDue(e) ==
    /\ ~arq[e].need_poll
    /\ "eager_recv" \in Env \/ arq[e].send_frame.frame = <<>>
    /\ Deliverable(arq[e].recv_wnd) > 0
    /\ Len(rcvd[e]) <= MaxBytes

(* The event loop of an integration keeps polling, moving frames, letting time
   pass and, when it finds the endpoint idle, reading.  Nothing makes the
   application send.  The first three are WF_vars(Tick), WF_vars(Poll(e, 0))
   and SF_vars(Recv(e)) with what enables the action spelled out: TLC is slow
   to find out whether one of them is enabled. *)
Fairness ==
    /\ []<>~TickDue \/ []<><<Tick>>_vars
    /\ \A e \in Node :
         /\ []<>~PollDue(e, 0) \/ []<><<Poll(e, 0)>>_vars
         /\ <>[]~RecvDue(e) \/ []<><<Recv(e)>>_vars
         /\ WF_vars(PtrGet(e))
         /\ WF_vars(Transmit(e))
         /\ WF_vars(Fill(e))

Spec == Init /\ [][Next]_vars

FairSpec == Spec /\ Fairness
----------------------------------------------------------------------------
(* Every part of the two endpoints and of the link keeps its type: a window never
   holds more messages than it has slots, the send pointer is at a segment that a
   message can have, a message received is no longer than its segments, and no
   timer runs below zero. *)
TypeOK ==
    /\ \A e \in Node :
         /\ arq[e] \in EndpointType
         /\ \A i \in RecvIdx : MsgFits(arq[e].recv_wnd.msg[i])
         /\ arq[e].send_frame.state = "HELD" => arq[e].send_frame.frame # <<>>
         /\ chan[e] \in Seq(FrameType) /\ Len(chan[e]) <= ChanCap
    /\ event \in [Node -> ConnEvents]

AB == INSTANCE ReliableStream WITH sent <- sent["A"], rcvd <- rcvd["B"]
BA == INSTANCE ReliableStream WITH sent <- sent["B"], rcvd <- rcvd["A"]

(* README.md: "No duplication, no dropped data, always in order."  What arq_recv
   has returned is a prefix of what the peer's arq_send took. *)
ExactlyOnceAB == AB!Safe

(* The same for the bytes that B sends. *)
ExactlyOnceBA == BA!Safe

(* Every byte that arq_send took at A is eventually returned by arq_recv at B:
   an event loop that keeps polling gets it there. *)
DeliveredAB == AB!AllDelivered

(* The same for the bytes that B sends. *)
DeliveredBA == BA!AllDelivered

(* Bytes whose slots the sender has given up, and bytes the other side holds. *)
Released(e) == sent[e] - WndSizeInBytes(arq[e].send_wnd)

Held(e) ==
    LET rw == arq[e].recv_wnd
        n  == Deliverable(rw)
    IN IF n = 0 THEN 0 ELSE BytesBefore(rw, n) - rw.copy_ofs

(* arq__send_wnd_ack frees a message only when the peer's application has, or
   can at once be given, every byte of it: an acknowledgement never outruns
   the data. *)
AckedIsReceived == \A e \in Node : Released(e) <= Len(rcvd[Peer(e)]) + Held(Peer(e))

(* Every byte that arq_send took at A is eventually acknowledged and its slot
   given up, so that arq_send can take more: the sender never ends up sending
   a segment for ever that the receiver drops without an answer. *)
SendSpaceReturns == \A n \in 1..MaxBytes : (sent["A"] >= n) ~> (Released("A") >= n)

(* Whether e has, or has had, segment seg of message seq. *)
Has(e, seq, seg) ==
    LET rw == arq[e].recv_wnd
        d  == (seq - rw.seq) % SeqMod
    IN \/ d < rw.slide \/ 2 * d > SeqMod
       \/ d < rw.size /\ seg \in rw.msg[seq % RecvCap].cur_ack_vec

(* nanoarq.tex, Messages: "only failed frames are retransmitted".  A segment that
   is about to be sent is one the other side does not have. *)
OnlyFailedResent ==
    \A e \in Node : \A f \in Range(arq[e].send_frame.frame) :
        f.hdr.seg => ~Has(Peer(e), f.hdr.seq_num, f.hdr.seg_id)

Idle(a) == SendFrameFree(a) /\ a.recv_frame = <<>> /\ ~a.need_poll

(* An endpoint with nothing to send and no poll required owes no
   acknowledgement, so arq_recv may clear messages (arq__recv_wnd_recv zeroes
   the vector that a later acknowledgement would carry). *)
IdleOwesNoAck == \A e \in Node : Idle(arq[e]) => AcksDue(arq[e].recv_wnd) = {}

(* After a poll that leaves nothing to send, a poll before the time that
   arq__next_poll announced sends nothing either: a backend that sleeps that
   long misses no deadline. *)
NextPollNotLate ==
    \A e \in Node :
        LET a == BackendPoll(arq[e], 0).arq
        IN SendFrameFree(a) =>
             \A dt \in {d \in 0..(TimeInfinity - 1) : d < NextPoll(a)} :
                SendFrameFree(BackendPoll(a, dt).arq)

----------------------------------------------------------------------------
(* Connections *)

State(e) == arq[e].conn.state

Connecting(e) == State(e) \in {"RST_SENT", "RST_RECVD"}

Connected == \A e \in Node : State(e) = "ESTABLISHED"

(* No half-open connection: when one end is connected the other is too, or has
   sent its RST/ACK and is waiting for the acknowledgement. *)
NoHalfOpen ==
    \A e \in Node :
        State(e) = "ESTABLISHED" =>
            LET c == arq[Peer(e)].conn
            IN c.state = "ESTABLISHED" \/ (c.state = "RST_RECVD" /\ c.rst_ack)

(* A handshake ends: the retry counters of RST_SENT and RST_RECVD see to it
   that an end gives up when the other never answers. *)
HandshakeEnds == \A e \in Node : Connecting(e) ~> ~Connecting(e)

(* arq_connect at one end connects both, unless an application resets. *)
ConnectSucceeds ==
    \A k \in 0..MaxResets :
        (State("A") = "RST_SENT" /\ used.resets = k) ~> (Connected \/ used.resets > k)

(* The application, which sees events and not the state, learns of every
   handshake that ends, and of its outcome: a poll reports that the connection
   is established when it becomes so and only then, and a failure whenever it
   drops a handshake. *)
EventsTellOutcome ==
    [][ \A e \in Node :
          LET old == State(e)
              new == arq'[e].conn.state
          IN used' = used /\ old # new =>
                /\ (new = "ESTABLISHED") <=> (event'[e] = "ESTABLISHED")
                /\ (old \in {"RST_SENT", "RST_RECVD"} /\ new = "CLOSED") =>
                      event'[e] \in {"FAILED_NO_RESPONSE", "FAILED_DESYNC"} ]_vars

(* arq_backend_poll asserts psh->seg_len: a frame that says it carries a segment
   does carry some of the message. *)
NoEmptySegment ==
    \A e \in Node : \A f \in Range(arq[e].send_frame.frame) :
        f.hdr.seg => f.data # <<>>
=============================================================================

--------------------------- MODULE ArqLinkProofs ---------------------------
(***************************************************************************)
(* Theorems about two endpoints and their link, for every size and every   *)
(* timeout, and whatever applications, clocks and link may do (every Env), *)
(* but for two groups at the end that ask something of them:               *)
(* NoHalfOpenCorrect (see OneConnects) and the theorems about what is      *)
(* delivered (see Orderly).                                                *)
(***************************************************************************)
EXTENDS ArqLink, SendWndLemmas, RecvWndLemmas

----------------------------------------------------------------------------
(* Connections *)

Handshake == {"RST_SENT", "RST_RECVD"}

(* While a handshake lasts its counter has not passed the configured attempts. *)
ConnOK(c) == c \in ConnType /\ (c.state \in Handshake => c.cnt <= RstAttempts)

(* What the state callbacks return: they leave the segment of the header alone. *)
OutcomeOK(o, sh) ==
    /\ ConnOK(o.conn)
    /\ o.sh \in FrameHdrType /\ o.sh.seg = sh.seg
    /\ o.sh.seq_num = sh.seq_num /\ o.sh.seg_id = sh.seg_id
    /\ o.emit \in BOOLEAN /\ o.event \in ConnEvents

(* A change of state and the event that goes with it. *)
EventTells(c, o) ==
    /\ o.event = "ESTABLISHED" => o.conn.state = "ESTABLISHED"
    /\ (o.conn.state = "ESTABLISHED" /\ c.state # "ESTABLISHED") => o.event = "ESTABLISHED"
    /\ (c.state \in Handshake /\ o.conn.state = "CLOSED") =>
          o.event \in {"FAILED_NO_RESPONSE", "FAILED_DESYNC"}

LEMMA HdrFlags ==
    ASSUME NEW sh \in FrameHdrType
    PROVE  LET a == [sh EXCEPT !.rst = TRUE, !.ack = TRUE]
               b == [sh EXCEPT !.rst = TRUE]
               c == [sh EXCEPT !.ack = TRUE]
           IN \A h \in {a, b, c} : /\ h \in FrameHdrType /\ h.seg = sh.seg
                                   /\ h.seq_num = sh.seq_num /\ h.seg_id = sh.seg_id
  BY DEF FrameHdrType

LEMMA AttemptOK ==
    ASSUME NEW c, ConnOK(c), c.state \in Handshake, NEW sh \in FrameHdrType
    PROVE  OutcomeOK(Attempt(c, sh), sh) /\ EventTells(c, Attempt(c, sh))
  <1> DEFINE tried == [c EXCEPT !.cnt = @ + 1, !.tmr = RstPeriod]
             shut  == [tried EXCEPT !.state = "CLOSED"]
             o     == Attempt(c, sh)
  <1>1. c \in ConnType /\ c.cnt \in 0..RstAttempts
    BY RstAssumption DEF ConnOK, ConnType
  <1>2. c.cnt + 1 \in 0..(RstAttempts + 1) /\ RstPeriod \in 0..RstPeriod
    BY <1>1, RstAssumption
  <1>3. tried \in ConnType /\ tried.cnt = c.cnt + 1 /\ tried.state = c.state
    BY <1>1, <1>2 DEF ConnType
  <1> HIDE DEF tried
  <1>4. shut \in ConnType /\ shut.state = "CLOSED"
    BY <1>3 DEF ConnType, ConnStates
  <1> HIDE DEF shut
  <1>5. CASE tried.cnt > RstAttempts
    <2>1. o = [conn |-> shut, sh |-> sh, emit |-> TRUE, event |-> "FAILED_NO_RESPONSE"]
      BY <1>5 DEF Attempt, Outcome, tried, shut
    <2> HIDE DEF o
    <2>2. OutcomeOK(o, sh) /\ EventTells(c, o)
      BY <1>4, <2>1 DEF OutcomeOK, EventTells, ConnOK, ConnEvents, Handshake
    <2> QED
      BY <2>2 DEF o
  <1>6. CASE ~(tried.cnt > RstAttempts)
    <2>1. o = [conn |-> tried, sh |-> sh, emit |-> TRUE, event |-> "NONE"]
      BY <1>6 DEF Attempt, Outcome, tried
    <2>2. ConnOK(tried)
      BY <1>1, <1>3, <1>6, RstAssumption DEF ConnOK
    <2> HIDE DEF o
    <2>3. OutcomeOK(o, sh) /\ EventTells(c, o)
      BY <1>3, <2>1, <2>2 DEF OutcomeOK, EventTells, ConnEvents, Handshake
    <2> QED
      BY <2>3 DEF o
  <1> QED
    BY <1>5, <1>6

(* An outcome in which the connection only changes its state, or its timer. *)
LEMMA PlainOutcome ==
    ASSUME NEW c, ConnOK(c), NEW c2, ConnOK(c2), NEW sh \in FrameHdrType, NEW sh2 \in FrameHdrType,
           sh2.seg = sh.seg, sh2.seq_num = sh.seq_num, sh2.seg_id = sh.seg_id,
           NEW emit \in BOOLEAN, NEW ev \in ConnEvents,
           EventTells(c, [conn |-> c2, event |-> ev])
    PROVE  OutcomeOK(Outcome(c2, sh2, emit, ev), sh)
           /\ EventTells(c, Outcome(c2, sh2, emit, ev))
  BY DEF OutcomeOK, EventTells, Outcome

LEMMA NewState ==
    ASSUME NEW c, ConnOK(c), NEW s \in {"CLOSED", "ESTABLISHED"}
    PROVE  ConnOK([c EXCEPT !.state = s]) /\ [c EXCEPT !.state = s].state = s
  BY DEF ConnOK, ConnType, ConnStates, Handshake

LEMMA Ticked ==
    ASSUME NEW c, ConnOK(c), NEW dt \in Nat
    PROVE  LET t == [c EXCEPT !.tmr = SubSat(@, dt)]
           IN ConnOK(t) /\ t.state = c.state
  <1> DEFINE x == SubSat(c.tmr, dt)
             t == [c EXCEPT !.tmr = x]
  <1>1. c \in ConnType /\ x \in 0..RstPeriod
    BY RstAssumption DEF ConnOK, ConnType, SubSat
  <1> HIDE DEF x
  <1>2. t \in ConnType /\ t.state = c.state /\ t.cnt = c.cnt
    BY <1>1 DEF ConnType
  <1>3. t = [c EXCEPT !.tmr = SubSat(@, dt)]
    BY <1>1 DEF ConnType, x
  <1> HIDE DEF t
  <1>4. ConnOK(t) /\ t.state = c.state
    BY <1>2 DEF ConnOK
  <1> QED
    BY <1>3, <1>4

(* arq__conn_poll_state_rst_recvd *)
LEMMA PollRstRecvdOK ==
    ASSUME NEW c, ConnOK(c), c.state = "RST_RECVD", NEW psh, NEW sh \in FrameHdrType,
           NEW rh, NEW dt \in Nat
    PROVE  LET o == PollRstRecvd(c, psh, sh, rh, dt) IN OutcomeOK(o, sh) /\ EventTells(c, o)
  <1> DEFINE t   == [c EXCEPT !.tmr = SubSat(@, dt)]
             t2  == [t EXCEPT !.rst_ack = TRUE]
             sh2 == [sh EXCEPT !.rst = TRUE, !.ack = TRUE]
             o   == PollRstRecvd(c, psh, sh, rh, dt)
             shut == [c EXCEPT !.state = "CLOSED"]
             up   == [c EXCEPT !.state = "ESTABLISHED"]
  <1>1. ConnOK(t) /\ t.state = "RST_RECVD"
    BY Ticked
  <1>2. ConnOK(shut) /\ shut.state = "CLOSED" /\ ConnOK(up) /\ up.state = "ESTABLISHED"
    BY NewState
  <1>3. CASE rh.seg \/ (rh.ack /\ ~c.rst_ack)
    <2>1. o = Outcome(shut, sh, FALSE, "FAILED_DESYNC")
      BY <1>3 DEF PollRstRecvd, RstRecvdAck
    <2> HIDE DEF o, shut
    <2>2. EventTells(c, [conn |-> shut, event |-> "FAILED_DESYNC"]) /\ "FAILED_DESYNC" \in ConnEvents
      BY <1>2 DEF EventTells, ConnEvents
    <2>3. OutcomeOK(o, sh) /\ EventTells(c, o)
      BY <1>2, <2>1, <2>2, PlainOutcome
    <2> QED
      BY <2>3 DEF o
  <1>4. CASE ~rh.seg /\ rh.ack /\ c.rst_ack
    <2>1. o = Outcome(up, sh, FALSE, "ESTABLISHED")
      BY <1>4 DEF PollRstRecvd, RstRecvdAck
    <2> HIDE DEF o, up
    <2>2. EventTells(c, [conn |-> up, event |-> "ESTABLISHED"]) /\ "ESTABLISHED" \in ConnEvents
      BY <1>2 DEF EventTells, ConnEvents
    <2>3. OutcomeOK(o, sh) /\ EventTells(c, o)
      BY <1>2, <2>1, <2>2, PlainOutcome
    <2> QED
      BY <2>3 DEF o
  <1>5. CASE ~rh.seg /\ ~rh.ack /\ t.tmr = 0 /\ psh
    <2>1. o = Attempt(t2, sh2)
      BY <1>5 DEF PollRstRecvd
    <2> HIDE DEF t, o
    <2>2. ConnOK(t2) /\ t2.state = "RST_RECVD"
      BY <1>1 DEF ConnOK, ConnType
    <2> HIDE DEF t2
    <2>3. sh2 \in FrameHdrType /\ sh2.seg = sh.seg /\ sh2.seq_num = sh.seq_num
          /\ sh2.seg_id = sh.seg_id
      BY HdrFlags
    <2> HIDE DEF sh2
    <2>4. OutcomeOK(o, sh2) /\ EventTells(t2, o)
      BY <2>1, <2>2, <2>3, AttemptOK DEF Handshake
    <2>5. OutcomeOK(o, sh) /\ EventTells(c, o)
      BY <2>2, <2>3, <2>4 DEF OutcomeOK, EventTells
    <2> QED
      BY <2>5 DEF o
  <1>6. CASE ~rh.seg /\ ~rh.ack /\ ~(t.tmr = 0 /\ psh)
    <2>1. o = Outcome(t, sh, FALSE, "NONE")
      BY <1>6 DEF PollRstRecvd
    <2> HIDE DEF o, t
    <2>2. EventTells(c, [conn |-> t, event |-> "NONE"]) /\ "NONE" \in ConnEvents
      BY <1>1 DEF EventTells, ConnEvents
    <2>3. OutcomeOK(o, sh) /\ EventTells(c, o)
      BY <1>1, <2>1, <2>2, PlainOutcome
    <2> QED
      BY <2>3 DEF o
  <1> QED
    BY <1>3, <1>4, <1>5, <1>6

(* arq__conn_poll_state_closed *)
LEMMA PollClosedOK ==
    ASSUME NEW c, ConnOK(c), c.state = "CLOSED", NEW psh, NEW sh \in FrameHdrType,
           NEW rh, NEW dt \in Nat
    PROVE  LET o == PollClosed(c, psh, sh, rh, dt) IN OutcomeOK(o, sh) /\ EventTells(c, o)
  <1> DEFINE c2 == [c EXCEPT !.state = "RST_RECVD", !.tmr = 0, !.cnt = 0, !.rst_ack = FALSE]
             o  == PollClosed(c, psh, sh, rh, dt)
  <1>1. CASE rh.ack \/ rh.seg
    <2>1. o = Outcome(c, sh, FALSE, "FAILED_DESYNC")
      BY <1>1 DEF PollClosed
    <2> HIDE DEF o
    <2>2. EventTells(c, [conn |-> c, event |-> "FAILED_DESYNC"]) /\ "FAILED_DESYNC" \in ConnEvents
      BY DEF EventTells, ConnEvents
    <2>3. OutcomeOK(o, sh) /\ EventTells(c, o)
      BY <2>1, <2>2, PlainOutcome
    <2> QED
      BY <2>3 DEF o
  <1>2. CASE ~(rh.ack \/ rh.seg) /\ rh.rst
    <2>1. o = PollRstRecvd(c2, psh, sh, rh, dt)
      BY <1>2 DEF PollClosed
    <2> HIDE DEF o
    <2>2. c2 \in ConnType /\ c2.cnt = 0 /\ c2.state = "RST_RECVD"
      <3> DEFINE c1 == [c EXCEPT !.state = "RST_RECVD", !.tmr = 0]
      <3>1. 0 \in 0..RstPeriod /\ 0 \in 0..(RstAttempts + 1) /\ c \in ConnType
        BY RstAssumption DEF ConnOK
      <3>2. c1 \in ConnType /\ c1.state = "RST_RECVD"
        BY <3>1 DEF ConnType, ConnStates
      <3>3. c2 = [c1 EXCEPT !.cnt = 0, !.rst_ack = FALSE]
        BY <3>1 DEF ConnType
      <3> HIDE DEF c1, c2
      <3> QED
        BY <3>1, <3>2, <3>3 DEF ConnType
    <2> HIDE DEF c2
    <2>3. ConnOK(c2)
      BY <2>2, RstAssumption DEF ConnOK
    <2>4. OutcomeOK(o, sh) /\ EventTells(c2, o)
      BY <2>1, <2>2, <2>3, PollRstRecvdOK
    <2>5. EventTells(c, o)
      BY <2>2, <2>4 DEF EventTells, Handshake
    <2> QED
      BY <2>4, <2>5 DEF o
  <1>3. CASE ~(rh.ack \/ rh.seg) /\ ~rh.rst
    <2>1. o = Outcome(c, sh, FALSE, "NONE")
      BY <1>3 DEF PollClosed
    <2> HIDE DEF o
    <2>2. EventTells(c, [conn |-> c, event |-> "NONE"]) /\ "NONE" \in ConnEvents
      BY DEF EventTells, ConnEvents, Handshake
    <2>3. OutcomeOK(o, sh) /\ EventTells(c, o)
      BY <2>1, <2>2, PlainOutcome
    <2> QED
      BY <2>3 DEF o
  <1> QED
    BY <1>1, <1>2, <1>3

(* arq__conn_poll_state_rst_sent *)
LEMMA PollRstSentOK ==
    ASSUME NEW c, ConnOK(c), c.state = "RST_SENT", NEW psh, NEW sh \in FrameHdrType,
           NEW rh, NEW dt \in Nat
    PROVE  LET o == PollRstSent(c, psh, sh, rh, dt) IN OutcomeOK(o, sh) /\ EventTells(c, o)
  <1> DEFINE t      == [c EXCEPT !.tmr = SubSat(@, dt)]
             both   == [c EXCEPT !.rst_ack = TRUE]
             simul  == [c EXCEPT !.simultaneous = TRUE]
             heard  == IF rh.rst /\ rh.ack THEN Outcome(both, sh, FALSE, "NONE")
                       ELSE IF rh.rst THEN Outcome(simul, sh, FALSE, "NONE")
                       ELSE IF c.rst_ack THEN Outcome(c, sh, FALSE, "NONE")
                       ELSE IF t.tmr = 0 /\ psh THEN Attempt(t, [sh EXCEPT !.rst = TRUE])
                       ELSE Outcome(t, sh, FALSE, "NONE")
             answer == psh /\ (heard.conn.rst_ack \/ heard.conn.simultaneous)
             shut   == [c EXCEPT !.state = "CLOSED"]
             up     == [heard.conn EXCEPT !.state = "ESTABLISHED"]
             ack    == [heard.sh EXCEPT !.ack = TRUE]
             o      == PollRstSent(c, psh, sh, rh, dt)
  <1>1. ConnOK(t) /\ t.state = "RST_SENT"
    BY Ticked
  <1>2. ConnOK(both) /\ both.state = "RST_SENT" /\ ConnOK(simul) /\ simul.state = "RST_SENT"
    BY DEF ConnOK, ConnType
  <1>3. ConnOK(shut) /\ shut.state = "CLOSED"
    BY NewState
  <1>4. o = IF rh.seg \/ (rh.ack /\ ~rh.rst) THEN Outcome(shut, sh, FALSE, "FAILED_DESYNC")
            ELSE IF answer THEN Outcome(up, ack, TRUE, "ESTABLISHED")
            ELSE heard
    BY DEF PollRstSent
  <1>5. OutcomeOK(heard, sh) /\ EventTells(c, heard)
    <2>0. ASSUME NEW c2, ConnOK(c2), c2.state = "RST_SENT"
          PROVE  LET p == Outcome(c2, sh, FALSE, "NONE") IN OutcomeOK(p, sh) /\ EventTells(c, p)
      <3>1. EventTells(c, [conn |-> c2, event |-> "NONE"]) /\ "NONE" \in ConnEvents
        BY <2>0 DEF EventTells, ConnEvents
      <3> QED
        BY <2>0, <3>1, PlainOutcome
    <2>1. ASSUME heard = Attempt(t, [sh EXCEPT !.rst = TRUE])
          PROVE  OutcomeOK(heard, sh) /\ EventTells(c, heard)
      <3> DEFINE sh2 == [sh EXCEPT !.rst = TRUE]
      <3>1. sh2 \in FrameHdrType /\ sh2.seg = sh.seg /\ sh2.seq_num = sh.seq_num
            /\ sh2.seg_id = sh.seg_id
        BY HdrFlags
      <3>2. heard = Attempt(t, sh2)
        BY <2>1
      <3> HIDE DEF t, heard, sh2
      <3>3. OutcomeOK(heard, sh2) /\ EventTells(t, heard)
        BY <1>1, <3>1, <3>2, AttemptOK DEF Handshake
      <3> QED
        BY <1>1, <3>1, <3>3 DEF OutcomeOK, EventTells
    <2> HIDE DEF t, both, simul
    <2>2. \/ heard = Outcome(both, sh, FALSE, "NONE")
          \/ heard = Outcome(simul, sh, FALSE, "NONE")
          \/ heard = Outcome(c, sh, FALSE, "NONE")
          \/ heard = Attempt(t, [sh EXCEPT !.rst = TRUE])
          \/ heard = Outcome(t, sh, FALSE, "NONE")
      BY DEF heard
    <2> HIDE DEF heard
    <2> QED
      BY <1>1, <1>2, <2>0, <2>1, <2>2
  <1> HIDE DEF heard
  <1>6. CASE rh.seg \/ (rh.ack /\ ~rh.rst)
    <2>1. o = Outcome(shut, sh, FALSE, "FAILED_DESYNC")
      BY <1>4, <1>6
    <2> HIDE DEF o, shut
    <2>2. EventTells(c, [conn |-> shut, event |-> "FAILED_DESYNC"]) /\ "FAILED_DESYNC" \in ConnEvents
      BY <1>3 DEF EventTells, ConnEvents
    <2>3. OutcomeOK(o, sh) /\ EventTells(c, o)
      BY <1>3, <2>1, <2>2, PlainOutcome
    <2> QED
      BY <2>3 DEF o
  <1>7. CASE ~(rh.seg \/ (rh.ack /\ ~rh.rst)) /\ answer
    <2>1. o = Outcome(up, ack, TRUE, "ESTABLISHED")
      BY <1>4, <1>7
    <2>2. ConnOK(up) /\ up.state = "ESTABLISHED"
      <3>1. ConnOK(heard.conn)
        BY <1>5 DEF OutcomeOK
      <3> QED
        BY <3>1, NewState
    <2>3. /\ ack \in FrameHdrType /\ ack.seg = sh.seg
          /\ ack.seq_num = sh.seq_num /\ ack.seg_id = sh.seg_id
      <3>1. /\ heard.sh \in FrameHdrType /\ heard.sh.seg = sh.seg
            /\ heard.sh.seq_num = sh.seq_num /\ heard.sh.seg_id = sh.seg_id
        BY <1>5 DEF OutcomeOK
      <3> QED
        BY <3>1, HdrFlags
    <2> HIDE DEF o, up, ack
    <2>4. EventTells(c, [conn |-> up, event |-> "ESTABLISHED"]) /\ "ESTABLISHED" \in ConnEvents
      BY <2>2 DEF EventTells, ConnEvents
    <2>5. OutcomeOK(o, sh) /\ EventTells(c, o)
      BY <2>1, <2>2, <2>3, <2>4, PlainOutcome
    <2> QED
      BY <2>5 DEF o
  <1>8. CASE ~(rh.seg \/ (rh.ack /\ ~rh.rst)) /\ ~answer
    BY <1>4, <1>5, <1>8
  <1> QED
    BY <1>6, <1>7, <1>8

LEMMA ConnPollOK ==
    ASSUME NEW c, ConnOK(c), NEW psh, NEW sh \in FrameHdrType, NEW rh, NEW dt \in Nat
    PROVE  LET o == ConnPoll(c, psh, sh, rh, dt) IN OutcomeOK(o, sh) /\ EventTells(c, o)
  <1>1. c.state \in ConnStates
    BY DEF ConnOK, ConnType
  <1>2. CASE ~UseConnections \/ c.state = "ESTABLISHED"
    <2>1. ConnPoll(c, psh, sh, rh, dt) = Outcome(c, sh, FALSE, "NONE")
      BY <1>2 DEF ConnPoll
    <2>2. CASE c.state = "CLOSED" \/ c.state \notin Handshake
      <3>1. EventTells(c, [conn |-> c, event |-> "NONE"]) /\ "NONE" \in ConnEvents
        BY <2>2 DEF EventTells, ConnEvents, Handshake
      <3> QED
        BY <2>1, <3>1, PlainOutcome
    <2>3. CASE c.state \in Handshake
      <3>1. EventTells(c, [conn |-> c, event |-> "NONE"]) /\ "NONE" \in ConnEvents
        BY <2>3 DEF EventTells, ConnEvents, Handshake
      <3> QED
        BY <2>1, <3>1, PlainOutcome
    <2> QED
      BY <2>2, <2>3
  <1>3. CASE UseConnections /\ c.state = "CLOSED"
    BY <1>3, PollClosedOK DEF ConnPoll
  <1>4. CASE UseConnections /\ c.state = "RST_RECVD"
    BY <1>4, PollRstRecvdOK DEF ConnPoll
  <1>5. CASE UseConnections /\ c.state = "RST_SENT"
    BY <1>5, PollRstSentOK DEF ConnPoll
  <1> QED
    BY <1>1, <1>2, <1>3, <1>4, <1>5, UseConnectionsAssumption DEF ConnStates

----------------------------------------------------------------------------
(* One endpoint *)

(* When nothing is to be sent and no poll is required, no acknowledgement is due:
   arq_backend_send_ptr_release and arq_backend_recv_fill require a poll, and a poll with
   a free send frame writes what is due. *)
OwesNothing(a) == SendFrameFree(a) /\ ~a.need_poll => AcksDue(a.recv_wnd) = {}

EndpointOK(a) ==
    /\ a \in EndpointType
    /\ RecvWndOK(a.recv_wnd)
    /\ ConnOK(a.conn)
    /\ a.send_frame.state = "HELD" => a.send_frame.frame # <<>>
    /\ OwesNothing(a)

(* The segment that arq__wnd_seg finds lies in the slot of its message. *)
LEMMA WndSegType ==
    ASSUME NEW w \in SendWndType, NEW seq \in 0..(SeqMod - 1), NEW seg \in 0..(MsgSegs - 1)
    PROVE  WndSeg(w, seq, seg) \in Seq(Nat) /\ Len(WndSeg(w, seq, seg)) <= SegLen
  <1> DEFINE i == seq % SendCap
             n == WndSegLen(w, seq, seg)
             at(k) == MsgLen * i + SegLen * seg + k - 1
  <1>1. i \in SendIdx /\ i \in Nat
    <2>1. seq \in Nat
      OBVIOUS
    <2>2. i \in SendIdx
      BY <2>1, SlotType
    <2> QED
      BY <2>2 DEF SendIdx
  <1>2. SegLen \in Nat \ {0} /\ MsgSegs \in Nat \ {0} /\ MsgLen \in Nat
    BY SegLenAssumption, MsgSegsAssumption, MsgLenType
  <1>3. n \in 0..SegLen
    BY <1>2 DEF WndSegLen
  <1>4. w.buf \in [SendBufIdx -> Nat]
    BY DEF SendWndType
  <1> HIDE DEF i, n
  <1>5. ASSUME NEW k \in 1..n PROVE at(k) \in SendBufIdx
    <2>1. (seg + 1) * SegLen <= MsgSegs * SegLen
      BY <1>2, TimesMonotone
    <2> DEFINE x == SegLen * seg
    <2>2. x \in Nat /\ (seg + 1) * SegLen = x + SegLen
      BY <1>2
    <2> HIDE DEF x
    <2>3. x + k \in 0..MsgLen /\ x + k >= 1
      BY <1>2, <1>3, <2>1, <2>2 DEF MsgLen
    <2>4. i * MsgLen + (x + k) \in 0..SendBytes
      BY <1>1, <2>3, FitsInBuffer
    <2>5. i * MsgLen = MsgLen * i /\ MsgLen * i \in Nat
      BY <1>1, <1>2
    <2>6. at(k) = i * MsgLen + (x + k) - 1
      BY <2>2, <2>5 DEF x
    <2> DEFINE y == i * MsgLen
    <2>7. y \in Nat
      BY <2>5
    <2> HIDE DEF y
    <2>8. y + (x + k) - 1 \in 0..(SendBytes - 1)
      BY <2>2, <2>3, <2>4, <2>7, SendBytesType DEF y
    <2> QED
      BY <2>6, <2>8 DEF SendBufIdx, y
  <1>6. WndSeg(w, seq, seg) = [k \in 1..n |-> w.buf[at(k)]]
    BY DEF WndSeg, n, i
  <1> HIDE DEF at
  <1>7. \A k \in 1..n : w.buf[at(k)] \in Nat
    BY <1>4, <1>5
  <1> QED
    BY <1>2, <1>3, <1>6, <1>7

(* The header that goes on to arq__conn_poll names a segment of its message. *)
LEMMA SendPollHdr ==
    ASSUME NEW w \in SendWndType, NEW p \in SendWndPtrType, NEW psh \in BOOLEAN,
           NEW sh \in FrameHdrType, NEW rh, CanAck(rh), NEW dt \in Nat
    PROVE  SendPoll(w, p, psh, sh, rh, dt).sh \in FrameHdrType
  <1> DEFINE w2 == SendPollTimers(w, rh, dt)
             p2 == SendWndPtrNext(p, w2)
             sh2 == [sh EXCEPT !.seg = TRUE, !.seq_num = p2.seq, !.seg_id = p2.seg,
                               !.msg_len = SegCount(w2.msg[p2.seq % SendCap].len)]
  <1>1. w2 \in SendWndType
    BY SendPollTimersType
  <1>2. SendPoll(w, p, psh, sh, rh, dt).sh = IF ~psh \/ ~p2.valid THEN sh ELSE sh2
    BY DEF SendPoll
  <1> HIDE DEF w2
  <1>3. p2 \in SendWndPtrType
    BY <1>1, PtrNextType
  <1>4. ASSUME p2.valid PROVE sh2 \in FrameHdrType
    <2>1. p2.seg \in 0..(MsgSegs - 1)
      BY <1>1, <1>4, PtrNextSeg
    <2> HIDE DEF p2
    <2>2. p2.seq \in 0..(SeqMod - 1)
      BY <1>3 DEF SendWndPtrType
    <2> DEFINE n == SegCount(w2.msg[p2.seq % SendCap].len)
    <2>3. n \in 0..MsgSegs
      <3>1. p2.seq \in Nat
        BY <2>2
      <3>2. w2.msg[p2.seq % SendCap] \in MsgType
        BY <1>1, <3>1, SlotType DEF SendWndType
      <3>3. w2.msg[p2.seq % SendCap].len \in 0..MsgLen
        BY <3>2 DEF MsgType
      <3> QED
        BY <3>3, SegCountType
    <2> HIDE DEF n
    <2> DEFINE sh1 == [sh EXCEPT !.seg = TRUE, !.seq_num = p2.seq]
    <2>4. sh1 \in FrameHdrType
      BY ONLY <2>2, sh \in FrameHdrType DEF FrameHdrType
    <2>5. sh2 = [sh1 EXCEPT !.seg_id = p2.seg, !.msg_len = n]
      BY DEF FrameHdrType, n
    <2> HIDE DEF sh1, sh2
    <2> QED
      BY ONLY <2>1, <2>3, <2>4, <2>5 DEF FrameHdrType
  <1> HIDE DEF sh2, p2
  <1> QED
    BY <1>2, <1>4

LEMMA PollResultOK ==
    ASSUME NEW a, EndpointOK(a), NEW psh, psh = SendFrameFree(a), NEW r, NEW s, NEW c,
           RecvWndOK(r.rw), r.sh.ack \in BOOLEAN, psh /\ ~r.sh.ack => AcksDue(r.rw) = {},
           s.sw \in SendWndType, s.sp \in SendWndPtrType, s.sh \in FrameHdrType,
           OutcomeOK(c, s.sh)
    PROVE  LET p == PollResult(a, psh, r, s, c)
           IN EndpointOK(p.arq) /\ p.event = c.event /\ p.arq.conn = c.conn
  <1> DEFINE p    == PollResult(a, psh, r, s, c)
             emit == psh /\ (r.sh.ack \/ s.sh.seg \/ c.emit)
             data == IF c.sh.seg THEN WndSeg(s.sw, c.sh.seq_num, c.sh.seg_id) ELSE <<>>
             f    == FrameWrite(c.sh, data)
             sf   == IF emit THEN [state |-> "FREE", frame |-> <<f>>] ELSE a.send_frame
             new  == [send_wnd |-> s.sw, send_wnd_ptr |-> s.sp, send_frame |-> sf,
                      recv_wnd |-> r.rw, recv_frame |-> <<>>, need_poll |-> FALSE,
                      conn |-> c.conn]
  <1>1. a \in EndpointType
    BY DEF EndpointOK
  <1>2. p.arq = new /\ p.event = c.event
    BY <1>1 DEF PollResult, EndpointType
  <1>3. f \in FrameType
    <2>1. /\ c.sh \in FrameHdrType /\ c.sh.seq_num \in 0..(SeqMod - 1)
          /\ c.sh.seg_id \in 0..(MsgSegs - 1)
      BY DEF OutcomeOK, FrameHdrType
    <2>2. data \in Seq(Nat) /\ Len(data) <= SegLen
      <3>1. CASE c.sh.seg
        BY <2>1, <3>1, WndSegType
      <3>2. CASE ~c.sh.seg
        BY <3>2, SegLenAssumption
      <3> QED
        BY <3>1, <3>2
    <2> HIDE DEF data
    <2>3. f = [hdr |-> c.sh, data |-> data, ok |-> TRUE]
      BY DEF FrameWrite
    <2> HIDE DEF f
    <2> QED
      BY <2>1, <2>2, <2>3 DEF FrameType
  <1> HIDE DEF f
  <1>4. emit \in BOOLEAN
    OBVIOUS
  <1> HIDE DEF emit
  <1>5. /\ sf \in [state : {"FREE", "HELD", "RELEASED"}, frame : FrameBufType]
        /\ sf.state = "HELD" => sf.frame # <<>>
        /\ emit => sf.frame # <<>>
        /\ ~emit => sf = a.send_frame
    <2>1. CASE emit
      <3>1. sf = [state |-> "FREE", frame |-> <<f>>] /\ <<f>> \in FrameBufType /\ <<f>> # <<>>
        BY <1>3, <2>1, FrameBufIs
      <3> HIDE DEF sf
      <3> QED
        BY <2>1, <3>1
    <2>2. CASE ~emit
      BY <1>1, <2>2 DEF EndpointOK, EndpointType
    <2> QED
      BY <2>1, <2>2
  <1> HIDE DEF sf, p
  <1>6. <<>> \in FrameBufType /\ r.rw \in RecvWndType /\ c.conn \in ConnType
    BY FrameBufIs DEF RecvWndOK, OutcomeOK, ConnOK
  <1>7. new \in EndpointType
    BY <1>5, <1>6 DEF EndpointType
  <1>8. OwesNothing(new)
    <2> SUFFICES ASSUME SendFrameFree(new) PROVE AcksDue(r.rw) = {}
      BY DEF OwesNothing
    <2>1. ~emit
      BY <1>5 DEF SendFrameFree
    <2>2. psh
      BY <1>5, <2>1 DEF SendFrameFree
    <2> QED
      BY <2>1, <2>2 DEF emit
  <1>9. EndpointOK(new)
    BY <1>5, <1>7, <1>8 DEF EndpointOK, OutcomeOK
  <1> HIDE DEF new
  <1>10. p.arq.conn = c.conn
    BY <1>2 DEF new
  <1> QED
    BY <1>2, <1>9, <1>10 DEF p

(* What a poll is given and makes, part by part. *)
LEMMA BackendPollParts ==
    ASSUME NEW a, EndpointOK(a), NEW dt \in Nat
    PROVE  LET psh == SendFrameFree(a)
               r == RecvPoll(a.recv_wnd, a.recv_frame, psh, FrameHdrInit, dt)
               s == SendPoll(a.send_wnd, a.send_wnd_ptr, psh, r.sh, r.rh, dt)
               c == ConnPoll(a.conn, psh, s.sh, r.rh, dt)
           IN /\ BackendPoll(a, dt) = PollResult(a, psh, r, s, c)
              /\ RecvWndOK(r.rw) /\ r.sh \in FrameHdrType /\ r.rh \in FrameHdrType
              /\ r.sh.ack \in BOOLEAN /\ ~r.sh.seg
              /\ psh /\ ~r.sh.ack => AcksDue(r.rw) = {}
              /\ s.sw \in SendWndType /\ s.sp \in SendWndPtrType /\ s.sh \in FrameHdrType
              /\ OutcomeOK(c, s.sh) /\ EventTells(a.conn, c)
  <1> DEFINE psh == SendFrameFree(a)
             r == RecvPoll(a.recv_wnd, a.recv_frame, psh, FrameHdrInit, dt)
             s == SendPoll(a.send_wnd, a.send_wnd_ptr, psh, r.sh, r.rh, dt)
             c == ConnPoll(a.conn, psh, s.sh, r.rh, dt)
  <1>1. /\ a \in EndpointType /\ RecvWndOK(a.recv_wnd) /\ ConnOK(a.conn)
        /\ a.send_wnd \in SendWndType /\ a.send_wnd_ptr \in SendWndPtrType
        /\ a.recv_frame \in FrameBufType
    BY DEF EndpointOK, EndpointType
  <1>2. psh \in BOOLEAN
    BY DEF SendFrameFree
  <1>3. BackendPoll(a, dt) = PollResult(a, psh, r, s, c)
    BY DEF BackendPoll, PollSend, PollConn
  <1> HIDE DEF psh
  <1>4. /\ RecvWndOK(r.rw) /\ r.sh \in FrameHdrType /\ r.rh \in FrameHdrType
        /\ ~r.sh.seg
        /\ psh /\ ~r.sh.ack => AcksDue(r.rw) = {}
    BY <1>1, <1>2, RecvPollOK
  <1> HIDE DEF r
  <1>5. CanAck(r.rh) /\ r.sh.ack \in BOOLEAN
    BY <1>4 DEF CanAck, FrameHdrType
  <1>6. s.sw \in SendWndType /\ s.sp \in SendWndPtrType /\ s.sh \in FrameHdrType
    BY <1>1, <1>2, <1>4, <1>5, SendPollType, SendPollHdr
  <1> HIDE DEF s
  <1>7. OutcomeOK(c, s.sh) /\ EventTells(a.conn, c)
    BY <1>1, <1>6, ConnPollOK
  <1> HIDE DEF c
  <1> QED
    BY <1>3, <1>4, <1>5, <1>6, <1>7 DEF psh, r, s, c

(* arq_backend_poll *)
LEMMA BackendPollOK ==
    ASSUME NEW a, EndpointOK(a), NEW dt \in Nat
    PROVE  LET p == BackendPoll(a, dt)
           IN /\ EndpointOK(p.arq)
              /\ p.event \in ConnEvents
              /\ EventTells(a.conn, [conn |-> p.arq.conn, event |-> p.event])
  <1> DEFINE psh == SendFrameFree(a)
             r == RecvPoll(a.recv_wnd, a.recv_frame, psh, FrameHdrInit, dt)
             s == SendPoll(a.send_wnd, a.send_wnd_ptr, psh, r.sh, r.rh, dt)
             c == ConnPoll(a.conn, psh, s.sh, r.rh, dt)
             p == BackendPoll(a, dt)
  <1>1. /\ p = PollResult(a, psh, r, s, c)
        /\ RecvWndOK(r.rw) /\ r.sh.ack \in BOOLEAN
        /\ psh /\ ~r.sh.ack => AcksDue(r.rw) = {}
        /\ s.sw \in SendWndType /\ s.sp \in SendWndPtrType /\ s.sh \in FrameHdrType
        /\ OutcomeOK(c, s.sh) /\ EventTells(a.conn, c)
    BY BackendPollParts
  <1>2. psh = SendFrameFree(a)
    OBVIOUS
  <1> HIDE DEF psh, r, s, c, p
  <1>3. EndpointOK(p.arq) /\ p.event = c.event /\ p.arq.conn = c.conn
    BY <1>1, <1>2, PollResultOK
  <1> DEFINE o == [conn |-> p.arq.conn, event |-> p.event]
  <1>4. EventTells(a.conn, o) /\ p.event \in ConnEvents
    BY <1>1, <1>3 DEF EventTells, OutcomeOK
  <1> QED
    BY <1>3, <1>4 DEF p

(* The other functions of an endpoint. *)

LEMMA InitOK == EndpointOK(ArqInit)
  <1> DEFINE sbuf == [j \in SendBufIdx |-> 0]
             rbuf == [j \in RecvBufIdx |-> 0]
  <1>1. sbuf \in [SendBufIdx -> Nat] /\ rbuf \in [RecvBufIdx -> Nat]
    OBVIOUS
  <1> HIDE DEF sbuf, rbuf
  <1>2. SendWndRst(sbuf) \in SendWndType /\ SendWndPtrRst \in SendWndPtrType
    BY <1>1, RstType
  <1>3. RecvWndOK(RecvWndRst(rbuf)) /\ RecvWndRst(rbuf).size = 0
    BY <1>1, RecvWndRstOK
  <1>4. ConnOK(ConnInit)
    <2> DEFINE s == IF UseConnections THEN "CLOSED" ELSE "ESTABLISHED"
    <2>1. ConnInit = [state |-> s, cnt |-> 0, tmr |-> 0, rst_ack |-> FALSE,
                      simultaneous |-> FALSE]
      <3>1. ConnInit = ConnRst([state |-> "CLOSED", cnt |-> 0, tmr |-> 0,
                                rst_ack |-> FALSE, simultaneous |-> FALSE])
        BY DEF ConnInit
      <3>2. \A c : ConnRst(c) = [c EXCEPT !.state = s]
        BY DEF ConnRst
      <3> HIDE DEF s
      <3> QED
        BY <3>1, <3>2
    <2>2. s \in ConnStates /\ s \notin Handshake
      BY DEF ConnStates, Handshake
    <2> HIDE DEF s
    <2>3. 0 \in 0..RstPeriod /\ 0 \in 0..(RstAttempts + 1)
      BY RstAssumption
    <2> QED
      BY <2>1, <2>2, <2>3 DEF ConnOK, ConnType
  <1> DEFINE new == [send_wnd |-> SendWndRst(sbuf), send_wnd_ptr |-> SendWndPtrRst,
                     send_frame |-> [state |-> "FREE", frame |-> <<>>],
                     recv_wnd |-> RecvWndRst(rbuf), recv_frame |-> <<>>,
                     need_poll |-> FALSE, conn |-> ConnInit]
  <1>5. ArqInit = new
    BY DEF ArqInit, sbuf, rbuf
  <1>6. AcksDue(RecvWndRst(rbuf)) = {}
    BY <1>3 DEF AcksDue
  <1> HIDE DEF ConnInit
  <1>7. EndpointOK(new)
    BY <1>2, <1>3, <1>4, <1>6, FrameBufIs DEF EndpointOK, EndpointType, OwesNothing, RecvWndOK, ConnOK
  <1> QED
    BY <1>5, <1>7

LEMMA ResetOK ==
    ASSUME NEW a, EndpointOK(a)
    PROVE  EndpointOK(ArqReset(a))
  <1> DEFINE sbuf == a.send_wnd.buf
             rbuf == a.recv_wnd.buf
             c2   == ConnRst(a.conn)
  <1>1. sbuf \in [SendBufIdx -> Nat] /\ rbuf \in [RecvBufIdx -> Nat] /\ ConnOK(a.conn)
    BY DEF EndpointOK, EndpointType, SendWndType, RecvWndType
  <1>2. ConnOK(c2)
    <2>1. c2 = [a.conn EXCEPT !.state = "CLOSED"] \/ c2 = [a.conn EXCEPT !.state = "ESTABLISHED"]
      BY DEF ConnRst
    <2> QED
      BY <1>1, <2>1, NewState
  <1> HIDE DEF sbuf, rbuf, c2
  <1>3. SendWndRst(sbuf) \in SendWndType /\ SendWndPtrRst \in SendWndPtrType
    BY <1>1, RstType
  <1>4. RecvWndOK(RecvWndRst(rbuf)) /\ RecvWndRst(rbuf).size = 0
    BY <1>1, RecvWndRstOK
  <1> DEFINE new == [send_wnd |-> SendWndRst(sbuf), send_wnd_ptr |-> SendWndPtrRst,
                     send_frame |-> [state |-> "FREE", frame |-> <<>>],
                     recv_wnd |-> RecvWndRst(rbuf), recv_frame |-> <<>>,
                     need_poll |-> FALSE, conn |-> c2]
  <1>5. ArqReset(a) = new
    BY DEF ArqReset, sbuf, rbuf, c2
  <1>6. AcksDue(RecvWndRst(rbuf)) = {}
    BY <1>4 DEF AcksDue
  <1>7. EndpointOK(new)
    BY <1>2, <1>3, <1>4, <1>6, FrameBufIs DEF EndpointOK, EndpointType, OwesNothing, RecvWndOK, ConnOK
  <1> QED
    BY <1>5, <1>7

LEMMA ConnectOK ==
    ASSUME NEW a, EndpointOK(a)
    PROVE  EndpointOK(ArqConnect(a))
  <1> DEFINE c == ConnConnect(a.conn)
             b == [a EXCEPT !.conn = c]
  <1>1. ConnOK(c)
    BY RstAssumption DEF ConnOK, ConnType, ConnConnect, ConnStates
  <1>2. ArqConnect(a) = b
    BY DEF ArqConnect
  <1> HIDE DEF c
  <1>3. b \in EndpointType /\ b.conn = c /\ b.recv_wnd = a.recv_wnd
        /\ b.send_frame = a.send_frame /\ b.need_poll = a.need_poll
    BY <1>1 DEF EndpointOK, EndpointType, ConnOK
  <1> HIDE DEF b
  <1>4. EndpointOK(b)
    BY <1>1, <1>3 DEF EndpointOK, OwesNothing, SendFrameFree
  <1> QED
    BY <1>2, <1>4

(* arq_send and arq_flush change nothing but the send window. *)
LEMMA NewSendWnd ==
    ASSUME NEW a, EndpointOK(a), NEW w \in SendWndType
    PROVE  LET b == [a EXCEPT !.send_wnd = w] IN EndpointOK(b) /\ b.conn = a.conn
  <1> DEFINE b == [a EXCEPT !.send_wnd = w]
  <1>1. b \in EndpointType /\ b.conn = a.conn /\ b.recv_wnd = a.recv_wnd
        /\ b.send_frame = a.send_frame /\ b.need_poll = a.need_poll
    BY DEF EndpointOK, EndpointType
  <1> HIDE DEF b
  <1>2. EndpointOK(b)
    BY <1>1 DEF EndpointOK, OwesNothing, SendFrameFree
  <1> QED
    BY <1>1, <1>2 DEF b

LEMMA SendOK ==
    ASSUME NEW a, EndpointOK(a), NEW data \in Seq(Nat)
    PROVE  EndpointOK(ArqSend(a, data)) /\ ArqSend(a, data).conn = a.conn
  <1>1. a.send_wnd \in SendWndType
    BY DEF EndpointOK, EndpointType
  <1>2. SendWndSend(a.send_wnd, data) \in SendWndType
    BY <1>1, SendType
  <1> QED
    BY <1>2, NewSendWnd DEF ArqSend

LEMMA FlushOK ==
    ASSUME NEW a, EndpointOK(a)
    PROVE  EndpointOK(ArqFlush(a)) /\ ArqFlush(a).conn = a.conn
  <1>1. a.send_wnd \in SendWndType
    BY DEF EndpointOK, EndpointType
  <1>2. SendWndFlush(a.send_wnd) \in SendWndType
    BY <1>1, FlushType
  <1> QED
    BY <1>2, NewSendWnd DEF ArqFlush

(* arq_recv frees messages but leaves what is to be acknowledged. *)
LEMMA RecvOK ==
    ASSUME NEW a, EndpointOK(a), NEW max \in Nat
    PROVE  EndpointOK(ArqRecv(a, max)) /\ ArqRecv(a, max).conn = a.conn
  <1> DEFINE w == RecvWndRecv(a.recv_wnd, max)
             b == [a EXCEPT !.recv_wnd = w]
  <1>1. a \in EndpointType /\ RecvWndOK(a.recv_wnd)
    BY DEF EndpointOK
  <1>2. RecvWndOK(w) /\ w.seq = a.recv_wnd.seq /\ w.size = a.recv_wnd.size
        /\ w.ack = a.recv_wnd.ack
    BY <1>1, RecvWndRecvOK
  <1>3. ArqRecv(a, max) = b
    BY DEF ArqRecv
  <1> HIDE DEF w
  <1>4. b \in EndpointType /\ b.conn = a.conn /\ b.recv_wnd = w
        /\ b.send_frame = a.send_frame /\ b.need_poll = a.need_poll
    BY <1>1, <1>2 DEF EndpointType, RecvWndOK
  <1>5. AcksDue(w) = AcksDue(a.recv_wnd)
    BY <1>2 DEF AcksDue
  <1> HIDE DEF b
  <1>6. EndpointOK(b)
    BY <1>2, <1>4, <1>5 DEF EndpointOK, OwesNothing, SendFrameFree
  <1> QED
    BY <1>3, <1>4, <1>6

LEMMA PtrGetOK ==
    ASSUME NEW a, EndpointOK(a)
    PROVE  EndpointOK(SendPtrGet(a)) /\ SendPtrGet(a).conn = a.conn
  <1> DEFINE s == IF a.send_frame.frame # <<>> THEN "HELD" ELSE "FREE"
             f == [state |-> s, frame |-> a.send_frame.frame]
             b == [a EXCEPT !.send_frame = f]
  <1>1. a \in EndpointType
    BY DEF EndpointOK
  <1>2. SendPtrGet(a) = b
    BY <1>1 DEF SendPtrGet, EndpointType
  <1>3. f \in [state : {"FREE", "HELD", "RELEASED"}, frame : FrameBufType]
        /\ (f.state = "HELD" => f.frame # <<>>) /\ f.frame = a.send_frame.frame
    BY <1>1 DEF EndpointType
  <1>4. f.frame = <<>> /\ f.state # "HELD" /\ ~a.need_poll => AcksDue(a.recv_wnd) = {}
    <2>1. a.send_frame.state = "HELD" => a.send_frame.frame # <<>>
      BY DEF EndpointOK
    <2> QED
      BY <1>3, <2>1 DEF EndpointOK, OwesNothing, SendFrameFree
  <1> HIDE DEF f
  <1>5. b \in EndpointType /\ b.conn = a.conn /\ b.recv_wnd = a.recv_wnd
        /\ b.send_frame = f /\ b.need_poll = a.need_poll
    BY <1>1, <1>3 DEF EndpointType
  <1> HIDE DEF b
  <1>6. EndpointOK(b)
    BY <1>3, <1>4, <1>5 DEF EndpointOK, OwesNothing, SendFrameFree
  <1> QED
    BY <1>2, <1>5, <1>6

(* Giving back a frame, or handing one in, requires a poll before anything is owed. *)
LEMMA ReleaseOK ==
    ASSUME NEW a, EndpointOK(a)
    PROVE  EndpointOK(SendPtrRelease(a)) /\ SendPtrRelease(a).conn = a.conn
  <1> DEFINE f == [state |-> "RELEASED", frame |-> <<>>]
             b == [a EXCEPT !.send_frame = f, !.need_poll = TRUE]
  <1>1. SendPtrRelease(a) = b
    BY DEF SendPtrRelease
  <1>2. f \in [state : {"FREE", "HELD", "RELEASED"}, frame : FrameBufType] /\ f.state # "HELD"
    BY FrameBufIs
  <1> HIDE DEF f
  <1>3. b \in EndpointType /\ b.conn = a.conn /\ b.recv_wnd = a.recv_wnd
        /\ b.send_frame = f /\ b.need_poll = TRUE
    BY <1>2 DEF EndpointOK, EndpointType
  <1> HIDE DEF b
  <1>4. EndpointOK(b)
    BY <1>2, <1>3 DEF EndpointOK, OwesNothing
  <1> QED
    BY <1>1, <1>3, <1>4

LEMMA FillOK ==
    ASSUME NEW a, EndpointOK(a), NEW f \in FrameType
    PROVE  EndpointOK(RecvFill(a, f)) /\ RecvFill(a, f).conn = a.conn
  <1> DEFINE rf == <<f>>
             b  == [a EXCEPT !.recv_frame = rf, !.need_poll = TRUE]
  <1>1. RecvFill(a, f) = b
    BY DEF RecvFill
  <1>2. rf \in FrameBufType
    BY FrameBufIs
  <1> HIDE DEF rf
  <1>3. b \in EndpointType /\ b.conn = a.conn /\ b.recv_wnd = a.recv_wnd
        /\ b.send_frame = a.send_frame /\ b.need_poll = TRUE
    BY <1>2 DEF EndpointOK, EndpointType
  <1> HIDE DEF b
  <1>4. EndpointOK(b)
    BY <1>3 DEF EndpointOK, OwesNothing
  <1> QED
    BY <1>1, <1>3, <1>4

----------------------------------------------------------------------------
(* The endpoints and the link *)

UsedType == [loss : Nat, connects : [Node -> Nat], resets : Nat]

ChanOK(c) == c \in Seq(FrameType) /\ Len(c) <= ChanCap

(* Inductive: both endpoints are as they should be, and the frames under way are
   frames one of them could have written, or such frames damaged. *)
Inv ==
    /\ DOMAIN arq = Node /\ arq = [e \in Node |-> arq[e]]
    /\ \A e \in Node : EndpointOK(arq[e])
    /\ DOMAIN chan = Node /\ chan = [e \in Node |-> chan[e]]
    /\ \A e \in Node : ChanOK(chan[e])
    /\ sent \in [Node -> Nat]
    /\ event \in [Node -> ConnEvents]
    /\ used \in UsedType

LEMMA PeerNode ==
    ASSUME NEW e \in Node
    PROVE  Peer(e) \in Node
  BY DEF Node, Peer

(* A step of one endpoint that leaves the link, the streams and the events alone. *)
LEMMA OneArq ==
    ASSUME Inv, NEW e \in Node, NEW b, EndpointOK(b), arq' = [arq EXCEPT ![e] = b]
    PROVE  /\ DOMAIN arq' = Node /\ arq' = [x \in Node |-> arq'[x]]
           /\ \A x \in Node : EndpointOK(arq'[x])
           /\ arq'[e] = b /\ \A x \in Node \ {e} : arq'[x] = arq[x]
  <1>1. /\ DOMAIN arq' = Node /\ arq' = [x \in Node |-> arq'[x]]
        /\ arq'[e] = b /\ \A x \in Node \ {e} : arq'[x] = arq[x]
    BY DEF Inv
  <1>2. ASSUME NEW x \in Node PROVE EndpointOK(arq'[x])
    BY <1>1 DEF Inv
  <1> QED
    BY <1>1, <1>2

LEMMA InitInv ==
    ASSUME Init
    PROVE  Inv
  <1>1. \A e \in Node : EndpointOK(arq[e])
    BY InitOK DEF Init
  <1>2. ASSUME NEW e \in Node PROVE ChanOK(chan[e])
    <2>1. chan[e] = <<>>
      BY DEF Init
    <2>2. <<>> \in Seq(FrameType) /\ Len(<<>>) = 0 /\ ChanCap \in Nat
      BY BoundsAssumption
    <2> QED
      BY <2>1, <2>2 DEF ChanOK
  <1>3. event \in [Node -> ConnEvents] /\ used \in UsedType /\ sent \in [Node -> Nat]
    BY DEF Init, ConnEvents, UsedType
  <1>4. /\ DOMAIN arq = Node /\ arq = [e \in Node |-> arq[e]]
        /\ DOMAIN chan = Node /\ chan = [e \in Node |-> chan[e]]
    BY DEF Init
  <1> QED
    BY <1>1, <1>2, <1>3, <1>4 DEF Inv

LEMMA AppSendInv ==
    ASSUME Inv, NEW e \in Node, NEW n \in SendLens, AppSend(e, n)
    PROVE  Inv' /\ arq'[e].conn = arq[e].conn
  <1> DEFINE b == ArqSend(arq[e], Stream(e, n))
  <1>1. n \in Nat /\ sent[e] \in Nat /\ EndpointOK(arq[e])
    BY ArgumentsAssumption DEF Inv
  <1>2. Stream(e, n) \in Seq(Nat)
    BY <1>1 DEF Stream
  <1>3. EndpointOK(b) /\ b.conn = arq[e].conn
    BY <1>1, <1>2, SendOK
  <1>4. arq' = [arq EXCEPT ![e] = b]
    BY DEF AppSend
  <1> HIDE DEF b
  <1> DEFINE k == Accepted(arq[e].send_wnd, n)
  <1>5. k \in Nat
    <2>1. arq[e].send_wnd \in SendWndType
      BY <1>1 DEF EndpointOK, EndpointType
    <2>2. k \in 0..n
      BY <1>1, <2>1, AcceptedType
    <2> QED
      BY <1>1, <2>2
  <1>6. sent' = [sent EXCEPT ![e] = @ + k]
    BY DEF AppSend
  <1> HIDE DEF k
  <1>7. sent' \in [Node -> Nat]
    BY <1>1, <1>5, <1>6 DEF Inv
  <1>8. chan' = chan /\ event' = event /\ used' = used
    BY DEF AppSend
  <1> QED
    BY <1>3, <1>4, <1>7, <1>8, OneArq DEF Inv

(* The steps of an endpoint that neither send nor touch the link. *)
LEMMA LocalInv ==
    ASSUME Inv, NEW e \in Node, NEW b, EndpointOK(b), arq' = [arq EXCEPT ![e] = b],
           chan' = chan, sent' = sent, event' \in [Node -> ConnEvents], used' \in UsedType
    PROVE  Inv'
  BY OneArq DEF Inv

LEMMA AppFlushInv ==
    ASSUME Inv, NEW e \in Node, AppFlush(e)
    PROVE  Inv' /\ arq'[e].conn = arq[e].conn
  <1>1. EndpointOK(ArqFlush(arq[e])) /\ ArqFlush(arq[e]).conn = arq[e].conn
    BY FlushOK DEF Inv
  <1>2. arq' = [arq EXCEPT ![e] = ArqFlush(arq[e])]
    BY DEF AppFlush
  <1>3. chan' = chan /\ sent' = sent /\ event' \in [Node -> ConnEvents] /\ used' \in UsedType
    BY DEF AppFlush, Inv
  <1> QED
    BY <1>1, <1>2, <1>3, LocalInv, OneArq

LEMMA AppRecvInv ==
    ASSUME Inv, NEW e \in Node, NEW max \in RecvMaxs, AppRecv(e, max)
    PROVE  Inv' /\ arq'[e].conn = arq[e].conn
  <1> DEFINE b == ArqRecv(arq[e], max)
  <1>1. max \in Nat
    BY ArgumentsAssumption
  <1>2. EndpointOK(b) /\ b.conn = arq[e].conn
    BY <1>1, RecvOK DEF Inv
  <1>3. arq' = [arq EXCEPT ![e] = b]
    BY DEF AppRecv
  <1> HIDE DEF b
  <1>4. chan' = chan /\ sent' = sent /\ event' \in [Node -> ConnEvents] /\ used' \in UsedType
    BY DEF AppRecv, Inv
  <1> QED
    BY <1>2, <1>3, <1>4, LocalInv, OneArq

LEMMA AppConnectInv ==
    ASSUME Inv, NEW e \in Node, AppConnect(e)
    PROVE  Inv' /\ used' # used
  <1>1. EndpointOK(ArqConnect(arq[e]))
    BY ConnectOK DEF Inv
  <1>2. arq' = [arq EXCEPT ![e] = ArqConnect(arq[e])]
    BY DEF AppConnect
  <1>3. chan' = chan /\ sent' = sent /\ event' \in [Node -> ConnEvents]
    BY DEF AppConnect, Inv
  <1> DEFINE k == used.connects[e] + 1
             c == [used.connects EXCEPT ![e] = k]
  <1>4. used' = [used EXCEPT !.connects = c]
    BY DEF AppConnect
  <1>5. used.connects \in [Node -> Nat] /\ used.connects[e] \in Nat
    BY DEF Inv, UsedType
  <1>6. k \in Nat /\ k # used.connects[e]
    BY <1>5
  <1> HIDE DEF k
  <1>7. c \in [Node -> Nat] /\ c # used.connects
    BY <1>5, <1>6
  <1> HIDE DEF c
  <1>8. used' \in UsedType /\ used'.connects = c
    BY <1>4, <1>7 DEF Inv, UsedType
  <1>9. used' # used
    BY <1>7, <1>8
  <1> QED
    BY <1>1, <1>2, <1>3, <1>8, <1>9, LocalInv

LEMMA AppResetInv ==
    ASSUME Inv, NEW e \in Node, AppReset(e)
    PROVE  Inv' /\ used' # used
  <1>1. EndpointOK(ArqReset(arq[e]))
    BY ResetOK DEF Inv
  <1>2. arq' = [arq EXCEPT ![e] = ArqReset(arq[e])]
    BY DEF AppReset
  <1>3. chan' = chan /\ sent' = sent /\ event' \in [Node -> ConnEvents]
    BY DEF AppReset, Inv
  <1> DEFINE k == used.resets + 1
  <1>4. used' = [used EXCEPT !.resets = k]
    BY DEF AppReset
  <1>5. k \in Nat /\ k # used.resets
    <2>1. used.resets \in Nat
      BY DEF Inv, UsedType
    <2> QED
      BY <2>1
  <1> HIDE DEF k
  <1>6. used' \in UsedType /\ used'.resets = k
    BY <1>4, <1>5 DEF Inv, UsedType
  <1>7. used' # used
    BY <1>5, <1>6
  <1> QED
    BY <1>1, <1>2, <1>3, <1>6, <1>7, LocalInv

(* arq_backend_poll at one end, or at both. *)
LEMMA PollInv ==
    ASSUME Inv, NEW e \in Node, NEW dt \in Nat, Poll(e, dt)
    PROVE  Inv' /\ EventTells(arq[e].conn, [conn |-> arq'[e].conn, event |-> event'[e]])
  <1> DEFINE p == BackendPoll(arq[e], dt)
  <1>1. /\ EndpointOK(p.arq) /\ p.event \in ConnEvents
        /\ EventTells(arq[e].conn, [conn |-> p.arq.conn, event |-> p.event])
    BY BackendPollOK DEF Inv
  <1>2. arq' = [arq EXCEPT ![e] = p.arq] /\ event' = [event EXCEPT ![e] = p.event]
        /\ chan' = chan /\ sent' = sent /\ used' = used
    BY DEF Poll
  <1> HIDE DEF p
  <1>3. event' \in [Node -> ConnEvents] /\ event'[e] = p.event /\ used' \in UsedType
    BY <1>1, <1>2 DEF Inv
  <1>4. Inv' /\ arq'[e] = p.arq
    BY <1>1, <1>2, <1>3, LocalInv, OneArq
  <1> QED
    BY <1>1, <1>3, <1>4

LEMMA PollBothInv ==
    ASSUME Inv, NEW dt \in Nat, PollBoth(dt)
    PROVE  /\ Inv'
           /\ \A e \in Node :
                 EventTells(arq[e].conn, [conn |-> arq'[e].conn, event |-> event'[e]])
  <1> DEFINE p(e) == BackendPoll(arq[e], dt)
  <1>1. \A e \in Node :
           /\ EndpointOK(p(e).arq) /\ p(e).event \in ConnEvents
           /\ EventTells(arq[e].conn, [conn |-> p(e).arq.conn, event |-> p(e).event])
    BY BackendPollOK DEF Inv
  <1>2. arq' = [e \in Node |-> p(e).arq] /\ event' = [e \in Node |-> p(e).event]
        /\ chan' = chan /\ sent' = sent /\ used' = used
    BY DEF PollBoth
  <1> HIDE DEF p
  <1>3. \A e \in Node : arq'[e] = p(e).arq /\ event'[e] = p(e).event
    BY <1>2
  <1>4. /\ DOMAIN arq' = Node /\ arq' = [e \in Node |-> arq'[e]]
        /\ event' \in [Node -> ConnEvents] /\ \A e \in Node : EndpointOK(arq'[e])
    BY <1>1, <1>2, <1>3
  <1>5. Inv'
    BY <1>2, <1>4 DEF Inv
  <1> QED
    BY <1>1, <1>3, <1>5

LEMMA PtrGetInv ==
    ASSUME Inv, NEW e \in Node, PtrGet(e)
    PROVE  Inv' /\ arq'[e].conn = arq[e].conn
  <1>1. EndpointOK(SendPtrGet(arq[e])) /\ SendPtrGet(arq[e]).conn = arq[e].conn
    BY PtrGetOK DEF Inv
  <1>2. arq' = [arq EXCEPT ![e] = SendPtrGet(arq[e])]
    BY DEF PtrGet
  <1>3. chan' = chan /\ sent' = sent /\ event' \in [Node -> ConnEvents] /\ used' \in UsedType
    BY DEF PtrGet, Inv
  <1> QED
    BY <1>1, <1>2, <1>3, LocalInv, OneArq

LEMMA ReleaseStep ==
    ASSUME Inv, NEW e \in Node
    PROVE  EndpointOK(SendPtrRelease(arq[e])) /\ SendPtrRelease(arq[e]).conn = arq[e].conn
  BY ReleaseOK DEF Inv

(* A channel with other contents. *)
LEMMA OneChan ==
    ASSUME Inv, NEW e \in Node, NEW c, ChanOK(c), chan' = [chan EXCEPT ![e] = c]
    PROVE  /\ DOMAIN chan' = Node /\ chan' = [x \in Node |-> chan'[x]]
           /\ \A x \in Node : ChanOK(chan'[x])
  <1>1. /\ DOMAIN chan' = Node /\ chan' = [x \in Node |-> chan'[x]]
        /\ chan'[e] = c /\ \A x \in Node \ {e} : chan'[x] = chan[x]
    BY DEF Inv
  <1>2. ASSUME NEW x \in Node PROVE ChanOK(chan'[x])
    BY <1>1 DEF Inv
  <1> QED
    BY <1>1, <1>2

LEMMA TransmitInv ==
    ASSUME Inv, NEW e \in Node, Transmit(e)
    PROVE  Inv' /\ arq'[e].conn = arq[e].conn
  <1> DEFINE p == Peer(e)
             b == SendPtrRelease(arq[e])
             c == chan[p] \o arq[e].send_frame.frame
  <1>1. EndpointOK(b) /\ b.conn = arq[e].conn
    BY ReleaseStep
  <1>2. p \in Node
    BY PeerNode
  <1>3. arq' = [arq EXCEPT ![e] = b] /\ chan' = [chan EXCEPT ![p] = c]
        /\ sent' = sent /\ event' = event /\ used' = used
    BY DEF Transmit
  <1>4. ChanOK(c)
    <2>1. chan[p] \in Seq(FrameType) /\ Len(chan[p]) < ChanCap
      BY <1>2 DEF Inv, ChanOK, Transmit
    <2>2. PICK f \in FrameType : arq[e].send_frame.frame = <<f>>
      BY FrameBufIs DEF Inv, EndpointOK, EndpointType, Transmit
    <2>3. c = Append(chan[p], f)
      BY <2>1, <2>2
    <2> HIDE DEF c
    <2>4. ChanCap \in Nat
      BY BoundsAssumption
    <2> DEFINE q == chan[p]
    <2>5. q \in Seq(FrameType) /\ Len(q) < ChanCap /\ c = Append(q, f)
      BY <2>1, <2>3
    <2> HIDE DEF q
    <2>6. c \in Seq(FrameType) /\ Len(c) = Len(q) + 1 /\ Len(q) \in Nat
      BY <2>5
    <2>7. Len(c) <= ChanCap
      BY <2>4, <2>5, <2>6
    <2> QED
      BY <2>6, <2>7 DEF ChanOK
  <1> HIDE DEF b, c, p
  <1>5. arq'[e] = b
    BY <1>1, <1>3, OneArq
  <1> QED
    BY <1>1, <1>2, <1>3, <1>4, <1>5, OneArq, OneChan DEF Inv

LEMMA TransmitLostInv ==
    ASSUME Inv, NEW e \in Node, TransmitLost(e)
    PROVE  Inv' /\ arq'[e].conn = arq[e].conn
  <1> DEFINE b == SendPtrRelease(arq[e])
             k == used.loss + 1
  <1>1. EndpointOK(b) /\ b.conn = arq[e].conn
    BY ReleaseStep
  <1>2. arq' = [arq EXCEPT ![e] = b] /\ used' = [used EXCEPT !.loss = k]
        /\ chan' = chan /\ sent' = sent /\ event' = event
    BY DEF TransmitLost
  <1>3. k \in Nat /\ used \in UsedType
    BY DEF Inv, UsedType
  <1> HIDE DEF b, k
  <1>4. used' \in UsedType /\ event' \in [Node -> ConnEvents]
    BY <1>2, <1>3 DEF Inv, UsedType
  <1> QED
    BY <1>1, <1>2, <1>4, LocalInv, OneArq

(* What noise leaves of a frame is still a frame, its checksum wrong. *)
LEMMA CorruptInv ==
    ASSUME Inv, NEW e \in Node, Corrupt(e)
    PROVE  Inv' /\ arq' = arq
  <1>1. PICK ack \in BOOLEAN, seg \in BOOLEAN, rst \in BOOLEAN, s \in 0..(SeqMod - 1), v \in Vecs :
           chan' = [chan EXCEPT
                     ![e][1].ok = FALSE,
                     ![e][1].hdr = [@ EXCEPT !.ack = ack, !.seg = seg, !.rst = rst,
                                             !.ack_num = s, !.cur_ack_vec = v]]
    BY DEF Corrupt
  <1> DEFINE q == chan[e]
             f == q[1]
             h == [f.hdr EXCEPT !.ack = ack, !.seg = seg, !.rst = rst,
                                !.ack_num = s, !.cur_ack_vec = v]
             g == [f EXCEPT !.ok = FALSE, !.hdr = h]
             c == [q EXCEPT ![1] = g]
  <1>2. q \in Seq(FrameType) /\ Len(q) <= ChanCap /\ q # <<>>
    BY DEF Inv, ChanOK, Corrupt
  <1>3. 1 \in DOMAIN q /\ f \in FrameType
    BY <1>2
  <1>4. chan' = [chan EXCEPT ![e] = c]
    BY <1>1, <1>2, <1>3 DEF Inv, FrameType
  <1>5. h \in FrameHdrType
    <2> DEFINE h1 == [f.hdr EXCEPT !.ack = ack, !.seg = seg]
               h2 == [h1 EXCEPT !.rst = rst, !.ack_num = s]
    <2>1. f.hdr \in FrameHdrType
      BY <1>3 DEF FrameType
    <2>2. h = [h2 EXCEPT !.cur_ack_vec = v]
      BY <2>1 DEF FrameHdrType
    <2> HIDE DEF h
    <2>3. h1 \in FrameHdrType
      BY ONLY <2>1, ack \in BOOLEAN, seg \in BOOLEAN DEF FrameHdrType
    <2> HIDE DEF h1
    <2>4. h2 \in FrameHdrType
      BY ONLY <2>3, rst \in BOOLEAN, s \in 0..(SeqMod - 1) DEF FrameHdrType
    <2> HIDE DEF h2
    <2> QED
      BY ONLY <2>2, <2>4, v \in Vecs DEF FrameHdrType
  <1> HIDE DEF h
  <1>6. g \in FrameType
    BY <1>3, <1>5 DEF FrameType
  <1> HIDE DEF f, g
  <1>7. ChanOK(c)
    BY <1>2, <1>3, <1>6 DEF ChanOK
  <1> HIDE DEF c, q
  <1> DEFINE k == used.loss + 1
  <1>8. arq' = arq /\ sent' = sent /\ event' = event /\ used' = [used EXCEPT !.loss = k]
    BY DEF Corrupt
  <1>9. k \in Nat /\ used \in UsedType
    BY DEF Inv, UsedType
  <1> HIDE DEF k
  <1>10. used' \in UsedType
    BY <1>8, <1>9 DEF UsedType
  <1> QED
    BY <1>4, <1>7, <1>8, <1>10, OneChan DEF Inv

LEMMA FillInv ==
    ASSUME Inv, NEW e \in Node, Fill(e)
    PROVE  Inv' /\ arq'[e].conn = arq[e].conn
  <1> DEFINE q == chan[e]
             f == Head(q)
             c == Tail(q)
             b == RecvFill(arq[e], f)
  <1>1. q \in Seq(FrameType) /\ Len(q) <= ChanCap /\ q # <<>>
    BY DEF Inv, ChanOK, Fill
  <1>2. arq' = [arq EXCEPT ![e] = b] /\ chan' = [chan EXCEPT ![e] = c]
        /\ sent' = sent /\ event' = event /\ used' = used
    BY DEF Fill, Inv
  <1> HIDE DEF q
  <1>3. f \in FrameType /\ c \in Seq(FrameType) /\ Len(c) = Len(q) - 1 /\ Len(q) \in Nat
    BY <1>1
  <1>4. ChanOK(c)
    BY <1>1, <1>3, BoundsAssumption DEF ChanOK
  <1> HIDE DEF f, c
  <1>5. EndpointOK(b) /\ b.conn = arq[e].conn
    BY <1>3, FillOK DEF Inv
  <1> HIDE DEF b
  <1>6. arq'[e] = b
    BY <1>2, <1>5, OneArq
  <1> QED
    BY <1>2, <1>4, <1>5, <1>6, OneArq, OneChan DEF Inv

----------------------------------------------------------------------------
(* A step in which no application connects or resets tells the events; see
   EventsTellOutcome. *)
Told(e) ==
    EventTells(arq[e].conn, [conn |-> arq'[e].conn, event |-> event'[e]])

StepTells ==
    used' = used =>
        \A e \in Node : arq'[e].conn = arq[e].conn \/ Told(e)

(* The other endpoint of a step that changes one. *)
LEMMA OtherConn ==
    ASSUME Inv, NEW e \in Node, NEW b, arq' = [arq EXCEPT ![e] = b],
           arq'[e].conn = arq[e].conn \/ Told(e)
    PROVE  StepTells
  <1>1. \A x \in Node \ {e} : arq'[x] = arq[x]
    BY DEF Inv
  <1> QED
    BY <1>1 DEF StepTells

LEMMA SameConn ==
    ASSUME Inv, NEW e \in Node, NEW b, arq' = [arq EXCEPT ![e] = b],
           arq'[e].conn = arq[e].conn
    PROVE  StepTells
  BY OtherConn

LEMMA NextInv ==
    ASSUME Inv, [Next]_vars
    PROVE  Inv' /\ StepTells
  <1>1. CASE UNCHANGED vars
    BY <1>1 DEF vars, Inv, StepTells
  <1>2. ASSUME NEW dt \in Dts \ {0}, PollBoth(dt) PROVE Inv' /\ StepTells
    <2>1. dt \in Nat
      BY ArgumentsAssumption
    <2> QED
      BY <1>2, <2>1, PollBothInv DEF StepTells, Told
  <1>3. ASSUME NEW e \in Node, NEW dt \in Nat, Poll(e, dt) PROVE Inv' /\ StepTells
    <2>1. Inv' /\ Told(e)
      BY <1>3, PollInv DEF Told
    <2>2. arq' = [arq EXCEPT ![e] = BackendPoll(arq[e], dt).arq]
      BY <1>3 DEF Poll
    <2> QED
      BY <2>1, <2>2, OtherConn
  <1>4. ASSUME NEW e \in Node, NEW n \in SendLens, AppSend(e, n) PROVE Inv' /\ StepTells
    <2>1. Inv' /\ arq'[e].conn = arq[e].conn
      BY <1>4, AppSendInv
    <2>2. arq' = [arq EXCEPT ![e] = ArqSend(arq[e], Stream(e, n))]
      BY <1>4 DEF AppSend
    <2> QED
      BY <2>1, <2>2, SameConn
  <1>5. ASSUME NEW e \in Node, AppFlush(e) PROVE Inv' /\ StepTells
    <2>1. Inv' /\ arq'[e].conn = arq[e].conn
      BY <1>5, AppFlushInv
    <2>2. arq' = [arq EXCEPT ![e] = ArqFlush(arq[e])]
      BY <1>5 DEF AppFlush
    <2> QED
      BY <2>1, <2>2, SameConn
  <1>6. ASSUME NEW e \in Node, NEW max \in RecvMaxs, AppRecv(e, max) PROVE Inv' /\ StepTells
    <2>1. Inv' /\ arq'[e].conn = arq[e].conn
      BY <1>6, AppRecvInv
    <2>2. arq' = [arq EXCEPT ![e] = ArqRecv(arq[e], max)]
      BY <1>6 DEF AppRecv
    <2> QED
      BY <2>1, <2>2, SameConn
  <1>7. ASSUME NEW e \in Node, AppConnect(e) \/ AppReset(e) PROVE Inv' /\ StepTells
    BY <1>7, AppConnectInv, AppResetInv DEF StepTells
  <1>8. ASSUME NEW e \in Node, PtrGet(e) PROVE Inv' /\ StepTells
    <2>1. Inv' /\ arq'[e].conn = arq[e].conn
      BY <1>8, PtrGetInv
    <2>2. arq' = [arq EXCEPT ![e] = SendPtrGet(arq[e])]
      BY <1>8 DEF PtrGet
    <2> QED
      BY <2>1, <2>2, SameConn
  <1>9. ASSUME NEW e \in Node, Transmit(e) PROVE Inv' /\ StepTells
    <2>1. Inv' /\ arq'[e].conn = arq[e].conn
      BY <1>9, TransmitInv
    <2>2. arq' = [arq EXCEPT ![e] = SendPtrRelease(arq[e])]
      BY <1>9 DEF Transmit
    <2> QED
      BY <2>1, <2>2, SameConn
  <1>10. ASSUME NEW e \in Node, TransmitLost(e) PROVE Inv' /\ StepTells
    <2>1. Inv' /\ arq'[e].conn = arq[e].conn
      BY <1>10, TransmitLostInv
    <2>2. arq' = [arq EXCEPT ![e] = SendPtrRelease(arq[e])]
      BY <1>10 DEF TransmitLost
    <2> QED
      BY <2>1, <2>2, SameConn
  <1>11. ASSUME NEW e \in Node, Corrupt(e) PROVE Inv' /\ StepTells
    BY <1>11, CorruptInv DEF StepTells
  <1>12. ASSUME NEW e \in Node, Fill(e) PROVE Inv' /\ StepTells
    <2>1. Inv' /\ arq'[e].conn = arq[e].conn
      BY <1>12, FillInv
    <2>2. arq' = [arq EXCEPT ![e] = RecvFill(arq[e], Head(chan[e]))]
      BY <1>12 DEF Fill
    <2> QED
      BY <2>1, <2>2, SameConn
  <1>13. Dts \subseteq Nat /\ 0 \in Nat
    BY ArgumentsAssumption
  <1> QED
    BY <1>1, <1>2, <1>3, <1>4, <1>5, <1>6, <1>7, <1>8, <1>9, <1>10, <1>11, <1>12, <1>13
       DEF Next, Tick, Recv, Skew

LEMMA InvTypeOK ==
    ASSUME Inv
    PROVE  TypeOK
  <1>1. ASSUME NEW e \in Node
        PROVE  /\ arq[e] \in EndpointType
               /\ \A i \in RecvIdx : MsgFits(arq[e].recv_wnd.msg[i])
               /\ arq[e].send_frame.state = "HELD" => arq[e].send_frame.frame # <<>>
               /\ chan[e] \in Seq(FrameType) /\ Len(chan[e]) <= ChanCap
    <2>1. EndpointOK(arq[e]) /\ ChanOK(chan[e])
      BY DEF Inv
    <2> QED
      BY <2>1 DEF EndpointOK, RecvWndOK, ChanOK
  <1>2. event \in [Node -> ConnEvents]
    BY DEF Inv
  <1> QED
    BY <1>1, <1>2 DEF TypeOK

LEMMA InvIdle ==
    ASSUME Inv
    PROVE  IdleOwesNoAck
  BY DEF Inv, EndpointOK, OwesNothing, IdleOwesNoAck, Idle

LEMMA InvCorrect == Spec => []Inv
  BY InitInv, NextInv, PTL DEF Spec

(* TypeOK: whatever the applications call and in whatever order, and whatever frames are
   lost or damaged, every field of both endpoints keeps its type: the windows with their
   messages, numbers, cursors and timers, the send pointer, both frame buffers, the
   connection, and the frames under way.  arq__send_wnd_send, arq__send_wnd_ack,
   arq__send_wnd_ptr_next, arq__recv_wnd_frame, arq__recv_wnd_recv and the connection
   callbacks never leave it. *)
THEOREM TypeCorrect == Spec => []TypeOK
  BY InvCorrect, InvTypeOK, PTL

(* IdleOwesNoAck: the poll that arq_backend_send_ptr_release and arq_backend_recv_fill
   require is what writes the acknowledgements that are due, so that an endpoint with
   nothing to send and no poll required owes none. *)
THEOREM IdleOwesNoAckCorrect == Spec => []IdleOwesNoAck
  BY InvCorrect, InvIdle, PTL

(* EventsTellOutcome: arq_backend_poll tells the application of every handshake that ends,
   and that it succeeded exactly when it did. *)
THEOREM EventsTellOutcomeCorrect == Spec => EventsTellOutcome
  <1> DEFINE A == \A e \in Node :
                    LET old == State(e)
                        new == arq'[e].conn.state
                    IN used' = used /\ old # new =>
                          /\ (new = "ESTABLISHED") <=> (event'[e] = "ESTABLISHED")
                          /\ (old \in {"RST_SENT", "RST_RECVD"} /\ new = "CLOSED") =>
                                event'[e] \in {"FAILED_NO_RESPONSE", "FAILED_DESYNC"}
  <1>1. ASSUME Inv, [Next]_vars PROVE [A]_vars
    <2>1. StepTells
      BY <1>1, NextInv
    <2>2. ASSUME NEW e \in Node, used' = used, State(e) # arq'[e].conn.state
          PROVE  /\ (arq'[e].conn.state = "ESTABLISHED") <=> (event'[e] = "ESTABLISHED")
                 /\ (State(e) \in {"RST_SENT", "RST_RECVD"} /\ arq'[e].conn.state = "CLOSED") =>
                       event'[e] \in {"FAILED_NO_RESPONSE", "FAILED_DESYNC"}
      <3>1. Told(e)
        BY <2>1, <2>2 DEF StepTells, State
      <3> QED
        BY <2>2, <3>1 DEF Told, EventTells, State, Handshake
    <2> QED
      BY <2>2
  <1> QED
    BY <1>1, InvCorrect, PTL DEF Spec, EventsTellOutcome

----------------------------------------------------------------------------
(* Deadlines *)

(* A handshake that goes on waits for its timer, and has heard nothing it would answer. *)
Waiting(c) ==
    UseConnections /\ c.state \in Handshake =>
        c.tmr > 0 /\ (c.state = "RST_SENT" => ~c.rst_ack /\ ~c.simultaneous)

LEMMA OutcomeParts ==
    ASSUME NEW c, NEW sh, NEW ev
    PROVE  /\ Outcome(c, sh, FALSE, ev).conn = c
           /\ ~Outcome(c, sh, FALSE, ev).emit
           /\ Outcome(c, sh, TRUE, ev).emit
  BY DEF Outcome

LEMMA AttemptEmits ==
    ASSUME NEW c, NEW sh
    PROVE  Attempt(c, sh).emit = TRUE
  BY DEF Attempt, Outcome

LEMMA RstRecvdSettles ==
    ASSUME NEW c, ConnOK(c), c.state = "RST_RECVD", NEW sh, NEW rh, NEW dt \in Nat,
           NEW o, o = PollRstRecvd(c, TRUE, sh, rh, dt), ~o.emit
    PROVE  Waiting(o.conn)
  <1> DEFINE t == [c EXCEPT !.tmr = SubSat(@, dt)]
  <1>1. c \in ConnType
    BY DEF ConnOK
  <1>2. CASE rh.seg \/ rh.ack
    <2>1. \E s \in {"CLOSED", "ESTABLISHED"} : o.conn = [c EXCEPT !.state = s]
      BY <1>2 DEF PollRstRecvd, RstRecvdAck, Outcome
    <2>2. o.conn.state \in {"CLOSED", "ESTABLISHED"}
      BY <1>1, <2>1 DEF ConnType
    <2> QED
      BY <2>2 DEF Waiting, Handshake
  <1>3. CASE ~rh.seg /\ ~rh.ack
    <2>1. t.tmr # 0
      BY <1>3, AttemptEmits DEF PollRstRecvd
    <2>2. o.conn = t
      BY <1>3, <2>1 DEF PollRstRecvd, Outcome
    <2>3. t.state = "RST_RECVD" /\ t.tmr \in Nat
      <3>1. SubSat(c.tmr, dt) \in Nat
        BY <1>1, RstAssumption DEF ConnType, SubSat
      <3> QED
        BY <1>1, <3>1 DEF ConnType
    <2> HIDE DEF t
    <2>4. t.tmr > 0 /\ t.state # "RST_SENT"
      BY <2>1, <2>3
    <2> QED
      BY <2>2, <2>4 DEF Waiting
  <1> QED
    BY <1>2, <1>3

LEMMA RstSentSettles ==
    ASSUME NEW c, ConnOK(c), c.state = "RST_SENT", NEW sh, NEW rh, NEW dt \in Nat,
           NEW o, o = PollRstSent(c, TRUE, sh, rh, dt), ~o.emit
    PROVE  Waiting(o.conn)
  <1> DEFINE t      == [c EXCEPT !.tmr = SubSat(@, dt)]
             both   == [c EXCEPT !.rst_ack = TRUE]
             simul  == [c EXCEPT !.simultaneous = TRUE]
             heard  == IF rh.rst /\ rh.ack THEN Outcome(both, sh, FALSE, "NONE")
                       ELSE IF rh.rst THEN Outcome(simul, sh, FALSE, "NONE")
                       ELSE IF c.rst_ack THEN Outcome(c, sh, FALSE, "NONE")
                       ELSE IF t.tmr = 0 THEN Attempt(t, [sh EXCEPT !.rst = TRUE])
                       ELSE Outcome(t, sh, FALSE, "NONE")
             answer == heard.conn.rst_ack \/ heard.conn.simultaneous
             shut   == [c EXCEPT !.state = "CLOSED"]
             up     == [heard.conn EXCEPT !.state = "ESTABLISHED"]
             ack    == [heard.sh EXCEPT !.ack = TRUE]
  <1>1. c \in ConnType
    BY DEF ConnOK
  <1>2. o = IF rh.seg \/ (rh.ack /\ ~rh.rst) THEN Outcome(shut, sh, FALSE, "FAILED_DESYNC")
            ELSE IF answer THEN Outcome(up, ack, TRUE, "ESTABLISHED")
            ELSE heard
    BY DEF PollRstSent
  <1>3. CASE rh.seg \/ (rh.ack /\ ~rh.rst)
    <2>1. o.conn = shut
      <3>1. o = Outcome(shut, sh, FALSE, "FAILED_DESYNC")
        BY <1>2, <1>3
      <3>2. o = [conn |-> shut, sh |-> sh, emit |-> FALSE, event |-> "FAILED_DESYNC"]
        BY <3>1 DEF Outcome
      <3> HIDE DEF shut
      <3> QED
        BY ONLY <3>2
    <2>2. shut.state = "CLOSED"
      BY <1>1 DEF ConnType
    <2> QED
      BY <2>1, <2>2 DEF Waiting, Handshake
  <1>4. CASE ~(rh.seg \/ (rh.ack /\ ~rh.rst))
    <2> HIDE DEF up, ack, shut
    <2>1. ~answer /\ o = heard
      <3>1. Outcome(up, ack, TRUE, "ESTABLISHED").emit
        BY OutcomeParts
      <3> HIDE DEF heard
      <3> QED
        BY <1>2, <1>4, <3>1
    <2>2. both.rst_ack /\ simul.simultaneous
      BY <1>1 DEF ConnType
    <2> HIDE DEF both, simul, t
    <2>3. ~rh.rst
      <3>1. CASE rh.rst /\ rh.ack
        <4>1. heard.conn = both
          BY <3>1, OutcomeParts, ZenonT(60)
        <4> QED
          BY <2>1, <2>2, <4>1
      <3>2. CASE rh.rst /\ ~rh.ack
        <4>1. heard.conn = simul
          BY <3>2, OutcomeParts, ZenonT(60)
        <4> QED
          BY <2>1, <2>2, <4>1
      <3> QED
        BY <3>1, <3>2
    <2>4. ~c.rst_ack
      <3>1. ASSUME c.rst_ack PROVE heard.conn = c
        BY <2>3, <3>1, OutcomeParts, ZenonT(60)
      <3> QED
        BY <2>1, <3>1
    <2>5. t.tmr # 0
      BY <2>1, <2>3, <2>4, AttemptEmits
    <2>6. heard.conn = t
      BY <2>3, <2>4, <2>5, OutcomeParts, ZenonT(60)
    <2>7. t.tmr \in Nat
      <3>1. SubSat(c.tmr, dt) \in Nat
        BY <1>1, RstAssumption DEF ConnType, SubSat
      <3> QED
        BY <1>1, <3>1 DEF ConnType, t
    <2>8. ~t.rst_ack /\ ~t.simultaneous
      BY <2>1, <2>6
    <2>9. o.conn = t
      BY <2>1, <2>6
    <2> HIDE DEF heard
    <2>10. t.tmr > 0
      BY <2>5, <2>7
    <2> QED
      BY <2>8, <2>9, <2>10 DEF Waiting
  <1> QED
    BY <1>3, <1>4

(* A callback that may send and does not leaves the connection waiting, or at rest. *)
LEMMA ConnSettles ==
    ASSUME NEW c, ConnOK(c), NEW sh, NEW rh, NEW dt \in Nat,
           NEW o, o = ConnPoll(c, TRUE, sh, rh, dt), ~o.emit
    PROVE  Waiting(o.conn)
  <1>1. c \in ConnType /\ c.state \in ConnStates
    BY DEF ConnOK, ConnType
  <1>2. CASE ~UseConnections
    BY <1>2 DEF Waiting
  <1>3. CASE UseConnections /\ c.state = "ESTABLISHED"
    <2>1. o.conn = c
      BY <1>3 DEF ConnPoll, Outcome
    <2> QED
      BY <1>3, <2>1 DEF Waiting, Handshake
  <1>4. CASE UseConnections /\ c.state = "RST_RECVD"
    BY <1>4, RstRecvdSettles DEF ConnPoll
  <1>5. CASE UseConnections /\ c.state = "RST_SENT"
    BY <1>5, RstSentSettles DEF ConnPoll
  <1>6. CASE UseConnections /\ c.state = "CLOSED"
    <2>1. o = PollClosed(c, TRUE, sh, rh, dt)
      BY <1>6 DEF ConnPoll
    <2>2. CASE rh.ack \/ rh.seg \/ ~rh.rst
      <3>1. PICK ev : o = Outcome(c, sh, FALSE, ev)
        BY <2>1, <2>2 DEF PollClosed
      <3>2. o = [conn |-> c, sh |-> sh, emit |-> FALSE, event |-> ev]
        BY <3>1 DEF Outcome
      <3>3. o.conn = c
        BY ONLY <3>2
      <3> QED
        BY <1>6, <3>3 DEF Waiting, Handshake
    <2>3. CASE ~rh.ack /\ ~rh.seg /\ rh.rst
      <3> DEFINE c2 == [c EXCEPT !.state = "RST_RECVD", !.tmr = 0, !.cnt = 0,
                                 !.rst_ack = FALSE]
                 t  == [c2 EXCEPT !.tmr = SubSat(@, dt)]
      <3>1. o = PollRstRecvd(c2, TRUE, sh, rh, dt)
        BY <2>1, <2>3 DEF PollClosed
      <3>2. t.tmr = 0
        <4>1. c2.tmr = 0 /\ DOMAIN c2 = DOMAIN c
          BY <1>1 DEF ConnType
        <4>2. "tmr" \in DOMAIN c
          BY <1>1 DEF ConnType
        <4> HIDE DEF c2
        <4>3. t.tmr = SubSat(c2.tmr, dt)
          BY <4>1, <4>2
        <4> QED
          BY <4>1, <4>3 DEF SubSat
      <3> HIDE DEF c2
      <3>3. o = Attempt([t EXCEPT !.rst_ack = TRUE], [sh EXCEPT !.rst = TRUE, !.ack = TRUE])
        BY <2>3, <3>1, <3>2 DEF PollRstRecvd
      <3> HIDE DEF t
      <3> QED
        BY <3>3, AttemptEmits
    <2> QED
      BY <2>2, <2>3
  <1> QED
    BY <1>1, <1>2, <1>3, <1>4, <1>5, <1>6, UseConnectionsAssumption DEF ConnStates

(* Before its timer runs out, a connection that hears nothing sends nothing. *)
LEMMA StaysWaiting ==
    ASSUME NEW c, ConnOK(c), Waiting(c), NEW sh, NEW dt \in Nat,
           UseConnections => dt < ConnNextPoll(c)
    PROVE  ~ConnPoll(c, TRUE, sh, FrameHdrInit, dt).emit
  <1> DEFINE t == [c EXCEPT !.tmr = SubSat(@, dt)]
             o == ConnPoll(c, TRUE, sh, FrameHdrInit, dt)
  <1>1. c \in ConnType /\ c.state \in ConnStates
    BY DEF ConnOK, ConnType
  <1>2. ~FrameHdrInit.seg /\ ~FrameHdrInit.ack /\ ~FrameHdrInit.rst
    BY DEF FrameHdrInit
  <1> DEFINE rh == FrameHdrInit
  <1>3. ~rh.seg /\ ~rh.ack /\ ~rh.rst
    BY <1>2
  <1> HIDE DEF rh
  <1>4. o = ConnPoll(c, TRUE, sh, rh, dt)
    BY DEF rh
  <1>5. CASE ~UseConnections \/ c.state = "ESTABLISHED"
    <2>1. o = Outcome(c, sh, FALSE, "NONE")
      BY <1>4, <1>5 DEF ConnPoll
    <2> HIDE DEF o
    <2>2. ~o.emit
      BY <2>1, OutcomeParts
    <2> QED
      BY <2>2 DEF o
  <1>6. CASE UseConnections /\ c.state = "CLOSED"
    <2>1. o = PollClosed(c, TRUE, sh, rh, dt)
      BY <1>4, <1>6 DEF ConnPoll
    <2> HIDE DEF o
    <2>2. o = Outcome(c, sh, FALSE, "NONE")
      BY <1>3, <2>1 DEF PollClosed
    <2>3. ~o.emit
      BY <2>2, OutcomeParts
    <2> QED
      BY <2>3 DEF o
  <1>7. CASE UseConnections /\ c.state \in Handshake
    <2>1. c.tmr > 0 /\ (c.state = "RST_SENT" => ~c.rst_ack /\ ~c.simultaneous)
      BY <1>7 DEF Waiting
    <2>2. dt < c.tmr
      BY <1>7, <2>1 DEF ConnNextPoll, Handshake
    <2>3. t.tmr # 0 /\ t.rst_ack = c.rst_ack /\ t.simultaneous = c.simultaneous
      <3>1. SubSat(c.tmr, dt) # 0
        BY <1>1, <2>2, RstAssumption DEF ConnType, SubSat
      <3> QED
        BY <1>1, <3>1 DEF ConnType
    <2>4. CASE c.state = "RST_RECVD"
      <3>1. o = PollRstRecvd(c, TRUE, sh, rh, dt)
        BY <1>4, <1>7, <2>4 DEF ConnPoll
      <3> HIDE DEF o
      <3>2. o = Outcome(t, sh, FALSE, "NONE")
        BY <1>3, <2>3, <3>1 DEF PollRstRecvd
      <3>3. ~o.emit
        BY <3>2, OutcomeParts
      <3> QED
        BY <3>3 DEF o
    <2>5. CASE c.state = "RST_SENT"
      <3>1. o = PollRstSent(c, TRUE, sh, rh, dt)
        BY <1>4, <1>7, <2>5 DEF ConnPoll
      <3> HIDE DEF o
      <3>2. o = Outcome(t, sh, FALSE, "NONE")
        <4> DEFINE heard == Outcome(t, sh, FALSE, "NONE")
        <4>1. heard.conn = t
          BY DEF Outcome
        <4>2. ~heard.conn.rst_ack /\ ~heard.conn.simultaneous
          BY <2>1, <2>3, <2>5, <4>1
        <4>3. ~c.rst_ack
          BY <2>1, <2>5
        <4> QED
          BY <1>3, <2>3, <3>1, <4>2, <4>3 DEF PollRstSent
      <3>3. ~o.emit
        BY <3>2 DEF Outcome
      <3> QED
        BY <3>3 DEF o
    <2> QED
      BY <1>7, <2>4, <2>5 DEF Handshake
  <1> QED
    BY <1>1, <1>5, <1>6, <1>7, UseConnectionsAssumption DEF ConnStates, Handshake

(* Nothing to send, nothing received, and every deadline still ahead. *)
NothingDue(a) ==
    /\ SendFrameFree(a) /\ a.recv_frame = <<>>
    /\ AcksDue(a.recv_wnd) = {} /\ TimerRuns(a.recv_wnd)
    /\ Settled(a.send_wnd_ptr, a.send_wnd)
    /\ Waiting(a.conn)

LEMMA PollSettles ==
    ASSUME NEW a, EndpointOK(a), NEW dt \in Nat, Rtx > 0,
           NEW b, b = BackendPoll(a, dt).arq, SendFrameFree(b)
    PROVE  NothingDue(b)
  <1> DEFINE psh == SendFrameFree(a)
             r == RecvPoll(a.recv_wnd, a.recv_frame, psh, FrameHdrInit, dt)
             s == SendPoll(a.send_wnd, a.send_wnd_ptr, psh, r.sh, r.rh, dt)
             c == ConnPoll(a.conn, psh, s.sh, r.rh, dt)
             emit == psh /\ (r.sh.ack \/ s.sh.seg \/ c.emit)
             data == IF c.sh.seg THEN WndSeg(s.sw, c.sh.seq_num, c.sh.seg_id) ELSE <<>>
             f    == FrameWrite(c.sh, data)
             sf   == IF emit THEN [state |-> "FREE", frame |-> <<f>>] ELSE a.send_frame
  <1>1. /\ BackendPoll(a, dt) = PollResult(a, psh, r, s, c)
        /\ RecvWndOK(r.rw) /\ r.sh \in FrameHdrType /\ r.rh \in FrameHdrType
        /\ OutcomeOK(c, s.sh)
    BY BackendPollParts
  <1>2. /\ a \in EndpointType /\ RecvWndOK(a.recv_wnd) /\ ConnOK(a.conn)
        /\ a.send_wnd \in SendWndType /\ a.send_wnd_ptr \in SendWndPtrType
        /\ a.recv_frame \in FrameBufType
    BY DEF EndpointOK, EndpointType
  <1>3. /\ b.recv_wnd = r.rw /\ b.recv_frame = <<>> /\ b.send_wnd = s.sw
        /\ b.send_wnd_ptr = s.sp /\ b.conn = c.conn /\ b.send_frame = sf
    <2>1. PollResult(a, psh, r, s, c).arq
            = [a EXCEPT !.recv_wnd = r.rw, !.recv_frame = <<>>,
                        !.send_wnd = s.sw, !.send_wnd_ptr = s.sp, !.conn = c.conn,
                        !.send_frame = sf, !.need_poll = FALSE]
      BY DEF PollResult
    <2> HIDE DEF psh, r, s, c, sf
    <2>2. b = [a EXCEPT !.recv_wnd = r.rw, !.recv_frame = <<>>,
                        !.send_wnd = s.sw, !.send_wnd_ptr = s.sp, !.conn = c.conn,
                        !.send_frame = sf, !.need_poll = FALSE]
      BY <1>1, <2>1
    <2> QED
      BY ONLY <1>2, <2>2 DEF EndpointType
  <1>4. psh \in BOOLEAN
    BY DEF SendFrameFree
  <1>5. psh
    <2>1. ASSUME ~psh PROVE sf = a.send_frame
      BY <2>1
    <2> HIDE DEF sf
    <2> QED
      BY <1>3, <2>1 DEF SendFrameFree
  <1>6. ~emit
    <2>1. ASSUME emit PROVE sf.frame = <<f>>
      BY <2>1
    <2> HIDE DEF sf, emit, f
    <2>2. <<f>> # <<>>
      OBVIOUS
    <2> QED
      BY <1>3, <2>1, <2>2 DEF SendFrameFree
  <1>7. psh = TRUE /\ ~r.sh.ack /\ ~s.sh.seg /\ ~c.emit
    BY <1>4, <1>5, <1>6
  <1> HIDE DEF psh, emit, sf, f, data
  <1>8. AcksDue(r.rw) = {} /\ TimerRuns(r.rw) /\ r.sh = FrameHdrInit
    BY <1>2, <1>4, <1>7, RecvPollOK
  <1> HIDE DEF r
  <1>9. Settled(s.sp, s.sw)
    <2>1. ~r.sh.seg /\ "seg" \in DOMAIN r.sh
      BY <1>8 DEF FrameHdrInit
    <2>2. CanAck(r.rh)
      BY <1>1 DEF CanAck, FrameHdrType
    <2>3. s = SendPoll(a.send_wnd, a.send_wnd_ptr, TRUE, r.sh, r.rh, dt)
      BY <1>7
    <2> HIDE DEF s
    <2> QED
      BY <1>2, <1>7, <2>1, <2>2, <2>3, SendSettles
  <1> HIDE DEF s
  <1>10. Waiting(c.conn)
    <2>1. c = ConnPoll(a.conn, TRUE, s.sh, r.rh, dt)
      BY <1>7
    <2> HIDE DEF c
    <2> QED
      BY <1>2, <1>7, <2>1, ConnSettles
  <1> HIDE DEF c
  <1> QED
    BY <1>3, <1>8, <1>9, <1>10 DEF NothingDue

(* Every deadline arq__next_poll looks at is at least what it returns. *)
LEMMA NextPollBounds ==
    ASSUME NEW a, EndpointOK(a), NEW dt \in Nat, dt < NextPoll(a)
    PROVE  /\ \A i \in 0..(a.send_wnd.size - 1) :
                 LET t == a.send_wnd.rtx[(a.send_wnd.seq + i) % SendCap] IN t # 0 => dt < t
           /\ a.send_wnd.tiny_on /\ a.send_wnd.tiny # 0 => dt < a.send_wnd.tiny
           /\ a.recv_wnd.inter_seg_ack_on /\ a.recv_wnd.inter_seg_ack # 0 =>
                 dt < a.recv_wnd.inter_seg_ack
           /\ UseConnections => dt < ConnNextPoll(a.conn)
  <1> DEFINE sw == a.send_wnd
             rw == a.recv_wnd
             slot(i) == (sw.seq + i) % SendCap
             rtx == {sw.rtx[slot(i)] : i \in 0..(sw.size - 1)}
             tiny == IF sw.tiny_on THEN {sw.tiny} ELSE {}
             inter == IF rw.inter_seg_ack_on THEN {rw.inter_seg_ack} ELSE {}
             conn == IF UseConnections THEN {ConnNextPoll(a.conn)} ELSE {}
             S == ((rtx \cup tiny \cup inter) \ {0}) \cup conn \cup {TimeInfinity}
  <1>1. sw \in SendWndType /\ rw \in RecvWndType /\ a.conn \in ConnType
    BY DEF EndpointOK, EndpointType
  <1>2. NextPoll(a) = Min(S)
    BY DEF NextPoll
  <1>3. ASSUME NEW i \in 0..(sw.size - 1) PROVE sw.rtx[slot(i)] \in Nat
    <2>1. sw.seq + i \in Nat
      BY <1>1, SendCapAssumption, SeqModAssumption DEF SendWndType
    <2>2. slot(i) \in SendIdx
      BY <2>1, SlotType
    <2> QED
      BY <1>1, <2>2 DEF SendWndType
  <1>4. sw.tiny \in Nat /\ rw.inter_seg_ack \in Nat
    BY <1>1 DEF SendWndType, RecvWndType
  <1>5. ConnNextPoll(a.conn) \in Nat
    BY <1>1, RstAssumption, TimeAssumption DEF ConnNextPoll, ConnType
  <1> HIDE DEF slot
  <1>6. rtx \subseteq Nat
    BY <1>3
  <1>7. S \subseteq Nat /\ S # {}
    <2> HIDE DEF rtx
    <2> QED
      BY <1>4, <1>5, <1>6, TimeAssumption
  <1>8. \A t \in S : dt < t
    <2> HIDE DEF S
    <2>1. Min(S) \in Nat /\ \A t \in S : Min(S) <= t /\ t \in Nat
      BY <1>7, MinOfNats
    <2>2. dt < Min(S)
      BY <1>2
    <2> DEFINE m == Min(S)
    <2>3. m \in Nat /\ dt < m /\ \A t \in S : m <= t /\ t \in Nat
      BY <2>1, <2>2
    <2> HIDE DEF m
    <2> QED
      BY <2>3
  <1>9. ASSUME NEW i \in 0..(sw.size - 1), sw.rtx[slot(i)] # 0 PROVE dt < sw.rtx[slot(i)]
    BY <1>8, <1>9
  <1>10. sw.tiny_on /\ sw.tiny # 0 => dt < sw.tiny
    BY <1>8
  <1>11. rw.inter_seg_ack_on /\ rw.inter_seg_ack # 0 => dt < rw.inter_seg_ack
    BY <1>8
  <1>12. UseConnections => dt < ConnNextPoll(a.conn)
    BY <1>8
  <1> QED
    BY <1>9, <1>10, <1>11, <1>12 DEF slot

LEMMA NotBeforeDeadline ==
    ASSUME NEW a, EndpointOK(a), NothingDue(a), NEW dt \in Nat, dt < NextPoll(a)
    PROVE  SendFrameFree(BackendPoll(a, dt).arq)
  <1> DEFINE psh == SendFrameFree(a)
             r == RecvPoll(a.recv_wnd, a.recv_frame, psh, FrameHdrInit, dt)
             s == SendPoll(a.send_wnd, a.send_wnd_ptr, psh, r.sh, r.rh, dt)
             c == ConnPoll(a.conn, psh, s.sh, r.rh, dt)
             b == PollResult(a, psh, r, s, c).arq
  <1>1. BackendPoll(a, dt) = PollResult(a, psh, r, s, c)
    BY BackendPollParts
  <1>2. /\ a \in EndpointType /\ RecvWndOK(a.recv_wnd) /\ ConnOK(a.conn)
        /\ a.send_wnd \in SendWndType /\ a.send_wnd_ptr \in SendWndPtrType
        /\ a.recv_wnd \in RecvWndType
    BY DEF EndpointOK, EndpointType
  <1>3. psh = TRUE /\ a.recv_frame = <<>>
    BY DEF NothingDue, SendFrameFree
  <1>4. /\ AcksDue(a.recv_wnd) = {} /\ TimerRuns(a.recv_wnd)
        /\ Settled(a.send_wnd_ptr, a.send_wnd) /\ Waiting(a.conn)
    BY DEF NothingDue
  <1>5. /\ a.send_wnd.tiny_on => dt < a.send_wnd.tiny
        /\ a.recv_wnd.inter_seg_ack_on => dt < a.recv_wnd.inter_seg_ack
    <2>1. a.send_wnd.tiny_on => a.send_wnd.tiny # 0
      BY <1>4 DEF Settled
    <2>2. a.recv_wnd.inter_seg_ack_on => a.recv_wnd.inter_seg_ack # 0
      BY <1>4 DEF TimerRuns
    <2> QED
      BY <2>1, <2>2, NextPollBounds
  <1>6. b.send_frame = IF psh /\ (r.sh.ack \/ s.sh.seg \/ c.emit)
                       THEN b.send_frame ELSE a.send_frame
    <2> HIDE DEF psh, r, s, c
    <2>1. ASSUME ~(psh /\ (r.sh.ack \/ s.sh.seg \/ c.emit))
          PROVE  b = [a EXCEPT !.recv_wnd = r.rw, !.recv_frame = <<>>,
                        !.send_wnd = s.sw, !.send_wnd_ptr = s.sp, !.conn = c.conn,
                        !.send_frame = a.send_frame, !.need_poll = FALSE]
      BY <2>1 DEF PollResult
    <2>2. ASSUME ~(psh /\ (r.sh.ack \/ s.sh.seg \/ c.emit))
          PROVE  b.send_frame = a.send_frame
      <3> HIDE DEF b
      <3>1. b = [a EXCEPT !.recv_wnd = r.rw, !.recv_frame = <<>>,
                        !.send_wnd = s.sw, !.send_wnd_ptr = s.sp, !.conn = c.conn,
                        !.send_frame = a.send_frame, !.need_poll = FALSE]
        BY <2>1, <2>2
      <3> QED
        BY ONLY <1>2, <3>1 DEF EndpointType
    <2> QED
      BY <2>2
  <1> HIDE DEF psh, b
  <1>7. r.sh = FrameHdrInit /\ r.rh = FrameHdrInit
    <2>1. r = RecvPoll(a.recv_wnd, <<>>, TRUE, FrameHdrInit, dt)
      BY <1>3
    <2> HIDE DEF r
    <2> QED
      BY <1>2, <1>4, <1>5, <2>1, StaysAnswered
  <1> HIDE DEF r
  <1>8. ~r.sh.ack /\ ~r.sh.seg /\ ~r.rh.ack
    BY <1>7 DEF FrameHdrInit
  <1>9. ~s.sh.seg
    <2>1. s = SendPoll(a.send_wnd, a.send_wnd_ptr, TRUE, r.sh, r.rh, dt)
      BY <1>3
    <2> HIDE DEF s
    <2>2. \A i \in 0..(a.send_wnd.size - 1) :
             LET t == a.send_wnd.rtx[(a.send_wnd.seq + i) % SendCap] IN t # 0 => dt < t
      BY NextPollBounds
    <2> QED
      BY <1>2, <1>4, <1>5, <1>8, <2>1, <2>2, StaysSettled
  <1> HIDE DEF s
  <1>10. ~c.emit
    <2>1. c = ConnPoll(a.conn, TRUE, s.sh, FrameHdrInit, dt)
      BY <1>3, <1>7
    <2> HIDE DEF c
    <2>2. UseConnections => dt < ConnNextPoll(a.conn)
      BY NextPollBounds
    <2> QED
      BY <1>2, <1>4, <2>1, <2>2, StaysWaiting
  <1> HIDE DEF c
  <1>11. b.send_frame = a.send_frame
    BY <1>6, <1>8, <1>9, <1>10
  <1>12. SendFrameFree(b)
    BY <1>3, <1>11 DEF SendFrameFree, psh
  <1> QED
    BY <1>1, <1>12 DEF b

LEMMA InvNotLate ==
    ASSUME Inv, Rtx > 0
    PROVE  NextPollNotLate
  <1> SUFFICES ASSUME NEW e \in Node, NEW a, a = BackendPoll(arq[e], 0).arq, SendFrameFree(a),
                      NEW dt \in 0..(TimeInfinity - 1), dt < NextPoll(a)
               PROVE  SendFrameFree(BackendPoll(a, dt).arq)
    BY DEF NextPollNotLate
  <1>1. 0 \in Nat /\ dt \in Nat
    BY TimeAssumption
  <1>2. EndpointOK(arq[e])
    BY DEF Inv
  <1>3. EndpointOK(a)
    BY <1>1, <1>2, BackendPollOK
  <1>4. NothingDue(a)
    BY <1>1, <1>2, PollSettles
  <1> QED
    BY <1>1, <1>3, <1>4, NotBeforeDeadline

(* NextPollNotLate: arq_backend_poll never names a time after something is due, so that a
   backend that sleeps until then sends every segment, acknowledgement and RST on time.
   With a retransmission timeout of zero the message just sent is due again at once, which
   arq__next_poll does not tell. *)
THEOREM NextPollNotLateCorrect ==
    ASSUME Rtx > 0
    PROVE  Spec => []NextPollNotLate
  <1>1. Inv => NextPollNotLate
    BY InvNotLate
  <1> QED
    BY <1>1, InvCorrect, PTL

----------------------------------------------------------------------------
(* The handshake: what its frames are, and how far it is. *)

IsRst(f) == f.hdr.rst /\ ~f.hdr.ack /\ ~f.hdr.seg

IsRstAck(f) == f.hdr.rst /\ f.hdr.ack /\ ~f.hdr.seg

IsAck(f) == f.hdr.ack /\ ~f.hdr.rst /\ ~f.hdr.seg

Rsts(s) == \A i \in 1..Len(s) : IsRst(s[i])

RstAcks(s) == \A i \in 1..Len(s) : IsRstAck(s[i])

(* An ACK with nothing but RSTs in front of it. *)
AckIn(s) == \E k \in 1..Len(s) : IsAck(s[k]) /\ \A j \in 1..(k - 1) : IsRst(s[j])

(* Frames on their way from x to y: in the send frame of x, on the link, and in
   the receive frame of y. *)
NoFrames(x, link, y) ==
    x.send_frame.frame = <<>> /\ link = <<>> /\ y.recv_frame = <<>>

AllRsts(x, link, y) == Rsts(x.send_frame.frame) /\ Rsts(link) /\ Rsts(y.recv_frame)

AllRstAcks(x, link, y) ==
    RstAcks(x.send_frame.frame) /\ RstAcks(link) /\ RstAcks(y.recv_frame)

AckNext(x, link, y) ==
    \/ AckIn(y.recv_frame)
    \/ Rsts(y.recv_frame) /\ AckIn(link)
    \/ Rsts(y.recv_frame) /\ Rsts(link) /\ AckIn(x.send_frame.frame)

(* The windows are as arq_init left them. *)
Fresh(a) ==
    /\ a.send_wnd = ArqInit.send_wnd
    /\ a.send_wnd_ptr = ArqInit.send_wnd_ptr
    /\ a.recv_wnd = ArqInit.recv_wnd

(* It has sent its RST/ACK and its timer has not run out. *)
Answering(c) == c.state = "RST_RECVD" /\ c.rst_ack /\ c.tmr > 0

(* It has sent its RST, or is about to. *)
Waits(c) == c.state = "RST_SENT" /\ ~c.simultaneous

(* a calls arq_connect and b does not.  a has not begun, or has given up; n
   says how often it has begun. *)
NotAsking(a, b, up, down, n) ==
    /\ a.conn.state = "CLOSED" /\ Fresh(a)
    /\ b.conn.state \in {"CLOSED", "RST_RECVD"} /\ Fresh(b)
    /\ AllRsts(a, up, b) /\ AllRstAcks(b, down, a)
    /\ n = 0 => NoFrames(a, up, b) /\ NoFrames(b, down, a) /\ b.conn.state = "CLOSED"

(* a waits for an answer.  b has not got its RST, or has and answered: then the answer
   is on its way, or a has it and waits for its send frame to reply. *)
Asking(a, b, up, down, n) ==
    /\ Waits(a.conn) /\ Fresh(a)
    /\ n # 0
    /\ Fresh(b)
    /\ AllRsts(a, up, b) /\ AllRstAcks(b, down, a)
    /\ \/ b.conn.state = "CLOSED" /\ NoFrames(b, down, a) /\ ~a.conn.rst_ack
       \/ /\ Answering(b.conn)
          /\ \/ ~NoFrames(b, down, a)
             \/ a.conn.rst_ack /\ (a.send_frame.frame # <<>> \/ a.need_poll)

(* a is connected, and b gets to know before it gets anything else. *)
Answered(a, b, up) ==
    /\ a.conn.state = "ESTABLISHED"
    /\ Answering(b.conn) /\ Fresh(b)
    /\ AckNext(a, up, b)

BothOpen(a, b) == a.conn.state = "ESTABLISHED" /\ b.conn.state = "ESTABLISHED"

Stage(a, b, up, down, n) ==
    \/ BothOpen(a, b)
    \/ /\ UseConnections
       /\ \/ NotAsking(a, b, up, down, n)
          \/ Asking(a, b, up, down, n)
          \/ Answered(a, b, up)

(* Frames come and go one at a time. *)
LEMMA NoFrame == Rsts(<<>>) /\ RstAcks(<<>>) /\ ~AckIn(<<>>)
  BY DEF Rsts, RstAcks, AckIn

LEMMA OneFrame ==
    ASSUME NEW f
    PROVE  /\ Rsts(<<f>>) <=> IsRst(f)
           /\ RstAcks(<<f>>) <=> IsRstAck(f)
           /\ AckIn(<<f>>) <=> IsAck(f)
  <1>1. Len(<<f>>) = 1 /\ <<f>>[1] = f /\ 1 \in 1..1 /\ 1..(1 - 1) = {}
    OBVIOUS
  <1> QED
    BY <1>1 DEF Rsts, RstAcks, AckIn

LEMMA FrameAdded ==
    ASSUME NEW S, NEW s \in Seq(S), NEW f \in S
    PROVE  /\ Rsts(s) /\ IsRst(f) => Rsts(Append(s, f))
           /\ RstAcks(s) /\ IsRstAck(f) => RstAcks(Append(s, f))
           /\ AckIn(s) => AckIn(Append(s, f))
           /\ Rsts(s) /\ IsAck(f) => AckIn(Append(s, f))
  <1> DEFINE t == Append(s, f)
             n == Len(s)
  <1>1. n \in Nat /\ Len(t) = n + 1 /\ t[n + 1] = f /\ \A i \in 1..n : t[i] = s[i]
    OBVIOUS
  <1> HIDE DEF t
  <1>2. \A i \in 1..(n + 1) : i \in 1..n \/ i = n + 1
    BY <1>1
  <1> HIDE DEF n
  <1>3. Rsts(s) /\ IsRst(f) => Rsts(t)
    BY <1>1, <1>2 DEF Rsts, n
  <1>4. RstAcks(s) /\ IsRstAck(f) => RstAcks(t)
    BY <1>1, <1>2 DEF RstAcks, n
  <1>5. AckIn(s) => AckIn(t)
    <2> SUFFICES ASSUME AckIn(s) PROVE AckIn(t)
      OBVIOUS
    <2>1. PICK k \in 1..n : IsAck(s[k]) /\ \A j \in 1..(k - 1) : IsRst(s[j])
      BY DEF AckIn, n
    <2>2. k \in 1..(n + 1) /\ t[k] = s[k]
      BY <1>1
    <2>3. ASSUME NEW j \in 1..(k - 1) PROVE IsRst(t[j])
      <3>1. j \in 1..n
        BY <1>1
      <3> QED
        BY <1>1, <2>1, <3>1
    <2> QED
      BY <1>1, <2>1, <2>2, <2>3 DEF AckIn
  <1>6. Rsts(s) /\ IsAck(f) => AckIn(t)
    <2> SUFFICES ASSUME Rsts(s), IsAck(f) PROVE AckIn(t)
      OBVIOUS
    <2>1. n + 1 \in 1..(n + 1) /\ IsAck(t[n + 1])
      BY <1>1
    <2>2. ASSUME NEW j \in 1..(n + 1 - 1) PROVE IsRst(t[j])
      <3>1. j \in 1..n
        BY <1>1
      <3> QED
        BY <1>1, <3>1 DEF Rsts, n
    <2> QED
      BY <1>1, <2>1, <2>2 DEF AckIn
  <1> QED
    BY <1>3, <1>4, <1>5, <1>6 DEF t

LEMMA FrameTaken ==
    ASSUME NEW S, NEW s \in Seq(S), s # <<>>
    PROVE  /\ Rsts(s) => IsRst(Head(s)) /\ Rsts(Tail(s))
           /\ RstAcks(s) => IsRstAck(Head(s)) /\ RstAcks(Tail(s))
           /\ AckIn(s) => IsAck(Head(s)) \/ (IsRst(Head(s)) /\ AckIn(Tail(s)))
  <1> DEFINE t == Tail(s)
             n == Len(s)
  <1>1. /\ n \in Nat /\ n > 0 /\ Len(t) = n - 1 /\ Head(s) = s[1]
        /\ \A i \in 1..(n - 1) : t[i] = s[i + 1]
    OBVIOUS
  <1> HIDE DEF t, n
  <1>2. \A i \in 1..(n - 1) : i + 1 \in 1..n
    BY <1>1
  <1>3. 1 \in 1..n
    BY <1>1
  <1>4. Rsts(s) => IsRst(Head(s)) /\ Rsts(t)
    BY <1>1, <1>2, <1>3 DEF Rsts, n
  <1>5. RstAcks(s) => IsRstAck(Head(s)) /\ RstAcks(t)
    BY <1>1, <1>2, <1>3 DEF RstAcks, n
  <1>6. ASSUME AckIn(s), ~IsAck(Head(s)) PROVE IsRst(Head(s)) /\ AckIn(t)
    <2>1. PICK k \in 1..n : IsAck(s[k]) /\ \A j \in 1..(k - 1) : IsRst(s[j])
      BY <1>6 DEF AckIn, n
    <2>2. k # 1
      BY <1>1, <1>6, <2>1
    <2>3. 1 \in 1..(k - 1) /\ k - 1 \in 1..(n - 1) /\ k - 1 + 1 = k
      BY <1>1, <2>2
    <2>4. IsAck(t[k - 1])
      BY <1>1, <2>1, <2>3
    <2>5. ASSUME NEW j \in 1..(k - 1 - 1) PROVE IsRst(t[j])
      <3>1. j \in 1..(n - 1) /\ j + 1 \in 1..(k - 1)
        BY <1>1
      <3> QED
        BY <1>1, <2>1, <3>1
    <2>6. AckIn(t)
      BY <1>1, <2>3, <2>4, <2>5 DEF AckIn
    <2> QED
      BY <1>1, <2>1, <2>3, <2>6
  <1> QED
    BY <1>4, <1>5, <1>6 DEF t

(* What the connection does with the frames of a handshake. *)
SendsNothing(o) == ~o.emit

SendsRst(o) == o.emit /\ o.sh.rst /\ ~o.sh.ack

SendsRstAck(o) == o.emit /\ o.sh.rst /\ o.sh.ack

SendsAck(o) == o.emit /\ o.sh.ack /\ ~o.sh.rst

LEMMA HdrInitFlags ==
    /\ FrameHdrInit \in FrameHdrType
    /\ ~FrameHdrInit.seg /\ ~FrameHdrInit.ack /\ ~FrameHdrInit.rst
    /\ LET a == [FrameHdrInit EXCEPT !.rst = TRUE, !.ack = TRUE]
           b == [FrameHdrInit EXCEPT !.rst = TRUE]
           c == [FrameHdrInit EXCEPT !.ack = TRUE]
       IN /\ ~a.seg /\ a.ack /\ a.rst
          /\ ~b.seg /\ ~b.ack /\ b.rst
          /\ ~c.seg /\ c.ack /\ ~c.rst
  <1>1. FrameHdrInit \in FrameHdrType
    BY RecvSizes DEF FrameHdrInit, FrameHdrType, Vecs
  <1> QED
    BY <1>1 DEF FrameHdrInit

LEMMA OutcomeSilent ==
    ASSUME NEW c, NEW sh, NEW ev
    PROVE  /\ Outcome(c, sh, FALSE, ev).conn = c
           /\ SendsNothing(Outcome(c, sh, FALSE, ev))
  BY DEF Outcome, SendsNothing

LEMMA OutcomeAck ==
    ASSUME NEW c, NEW ev
    PROVE  LET o == Outcome(c, [FrameHdrInit EXCEPT !.ack = TRUE], TRUE, ev)
           IN o.conn = c /\ SendsAck(o)
  <1> DEFINE ack == [FrameHdrInit EXCEPT !.ack = TRUE]
  <1>1. ack.ack /\ ~ack.rst
    BY HdrInitFlags
  <1> HIDE DEF ack
  <1>2. Outcome(c, ack, TRUE, ev).conn = c /\ SendsAck(Outcome(c, ack, TRUE, ev))
    BY <1>1 DEF Outcome, SendsAck
  <1> QED
    BY <1>2 DEF ack

LEMMA AttemptSends ==
    ASSUME NEW c
    PROVE  /\ SendsRst(Attempt(c, [FrameHdrInit EXCEPT !.rst = TRUE]))
           /\ SendsRstAck(Attempt(c, [FrameHdrInit EXCEPT !.rst = TRUE, !.ack = TRUE]))
  <1>1. ASSUME NEW sh PROVE Attempt(c, sh).sh = sh /\ Attempt(c, sh).emit = TRUE
    BY DEF Attempt, Outcome
  <1> QED
    BY <1>1, HdrInitFlags DEF SendsRst, SendsRstAck

LEMMA AttemptConn ==
    ASSUME NEW c, c \in ConnType, NEW sh
    PROVE  LET d == Attempt(c, sh).conn
           IN /\ d.state \in {c.state, "CLOSED"}
              /\ c.cnt = 0 => d.state = c.state
              /\ d.tmr > 0
              /\ d.rst_ack = c.rst_ack /\ d.simultaneous = c.simultaneous
  <1> DEFINE tried == [c EXCEPT !.cnt = @ + 1, !.tmr = RstPeriod]
             shut == [tried EXCEPT !.state = "CLOSED"]
             d == Attempt(c, sh).conn
  <1>1. /\ tried.cnt = c.cnt + 1 /\ tried.tmr = RstPeriod /\ tried.state = c.state
        /\ tried.rst_ack = c.rst_ack /\ tried.simultaneous = c.simultaneous
        /\ DOMAIN tried = DOMAIN c
    BY DEF ConnType
  <1>2. /\ shut.tmr = RstPeriod /\ shut.state = "CLOSED"
        /\ shut.rst_ack = c.rst_ack /\ shut.simultaneous = c.simultaneous
    <2> HIDE DEF tried
    <2>1. DOMAIN c = {"state", "cnt", "tmr", "rst_ack", "simultaneous"}
      BY DEF ConnType
    <2> QED
      BY <1>1, <2>1
  <1>3. d = IF tried.cnt > RstAttempts THEN shut ELSE tried
    BY DEF Attempt, Outcome
  <1>4. c.cnt = 0 => ~(tried.cnt > RstAttempts)
    BY <1>1, RstAssumption
  <1>5. RstPeriod > 0
    BY RstAssumption
  <1> HIDE DEF tried, shut, d
  <1>6. CASE tried.cnt > RstAttempts
    BY <1>2, <1>3, <1>4, <1>5, <1>6 DEF d
  <1>7. CASE ~(tried.cnt > RstAttempts)
    BY <1>1, <1>3, <1>5, <1>7 DEF d
  <1> QED
    BY <1>6, <1>7

(* A connection that has not begun, or has given up, sends nothing unless it gets a RST. *)
LEMMA ClosedIgnores ==
    ASSUME UseConnections, NEW c, c.state = "CLOSED", NEW psh, NEW sh, NEW rh, NEW dt,
           rh.ack \/ (~rh.rst /\ ~rh.seg)
    PROVE  LET o == ConnPoll(c, psh, sh, rh, dt) IN o.conn = c /\ SendsNothing(o)
  <1> DEFINE o == ConnPoll(c, psh, sh, rh, dt)
  <1>1. o = PollClosed(c, psh, sh, rh, dt)
    BY DEF ConnPoll
  <1> HIDE DEF o
  <1>2. \/ o = Outcome(c, sh, FALSE, "FAILED_DESYNC")
        \/ o = Outcome(c, sh, FALSE, "NONE")
    BY <1>1 DEF PollClosed
  <1>3. o.conn = c /\ SendsNothing(o)
    <2>1. ASSUME NEW ev, o = Outcome(c, sh, FALSE, ev)
          PROVE  o.conn = c /\ SendsNothing(o)
      BY <2>1, OutcomeSilent
    <2> QED
      BY <1>2, <2>1
  <1> QED
    BY <1>3 DEF o

LEMMA RstRecvdSends ==
    ASSUME NEW c, c \in ConnType, c.state = "RST_RECVD", NEW psh,
           NEW rh, ~rh.seg, ~rh.ack, NEW dt \in Nat
    PROVE  LET o == PollRstRecvd(c, psh, FrameHdrInit, rh, dt)
           IN /\ o.conn.state \in {"CLOSED", "RST_RECVD"}
              /\ SendsNothing(o) \/ (psh /\ SendsRstAck(o))
              /\ c.cnt = 0 /\ c.tmr = 0 /\ psh => Answering(o.conn) /\ SendsRstAck(o)
              /\ c.tmr > 0 /\ dt = 0 => o.conn = c /\ SendsNothing(o)
  <1> DEFINE x == SubSat(c.tmr, dt)
             t == [c EXCEPT !.tmr = x]
             t2 == [t EXCEPT !.rst_ack = TRUE]
             o == PollRstRecvd(c, psh, FrameHdrInit, rh, dt)
             try == t.tmr = 0 /\ psh
  <1>1. x \in 0..RstPeriod /\ (c.tmr = 0 => x = 0) /\ (dt = 0 => x = c.tmr)
    BY RstAssumption DEF ConnType, SubSat
  <1>2. t = [c EXCEPT !.tmr = SubSat(@, dt)]
    BY DEF ConnType
  <1>3. /\ try => o = Attempt(t2, [FrameHdrInit EXCEPT !.rst = TRUE, !.ack = TRUE])
        /\ ~try => o = Outcome(t, FrameHdrInit, FALSE, "NONE")
    BY <1>2 DEF PollRstRecvd
  <1> HIDE DEF o, x
  <1>4. t \in ConnType /\ t.state = "RST_RECVD" /\ t.tmr = x /\ t.cnt = c.cnt
    BY <1>1 DEF ConnType
  <1>5. x = c.tmr => t = c
    BY DEF ConnType
  <1> HIDE DEF t
  <1>6. t2 \in ConnType /\ t2.state = "RST_RECVD" /\ t2.rst_ack /\ t2.cnt = c.cnt
    BY <1>4 DEF ConnType
  <1> HIDE DEF t2
  <1>7. CASE try
    <2>1. SendsRstAck(o)
      BY <1>3, <1>7, AttemptSends
    <2>2. /\ o.conn.state \in {"RST_RECVD", "CLOSED"}
          /\ c.cnt = 0 => o.conn.state = "RST_RECVD"
          /\ o.conn.tmr > 0 /\ o.conn.rst_ack
      BY <1>3, <1>6, <1>7, AttemptConn
    <2>3. ~(c.tmr > 0 /\ dt = 0)
      BY <1>1, <1>4, <1>7
    <2> QED
      BY <1>7, <2>1, <2>2, <2>3 DEF o, Answering
  <1>8. CASE ~try
    <2>1. o.conn = t /\ SendsNothing(o)
      <3>1. o = Outcome(t, FrameHdrInit, FALSE, "NONE")
        BY <1>3, <1>8
      <3> QED
        BY <3>1, OutcomeSilent
    <2>2. ~(c.cnt = 0 /\ c.tmr = 0 /\ psh)
      BY <1>1, <1>4, <1>8
    <2>3. dt = 0 => t = c
      BY <1>1, <1>5
    <2> QED
      BY <1>4, <2>1, <2>2, <2>3 DEF o
  <1> QED
    BY <1>7, <1>8

(* The end that is asked. *)
LEMMA ServerSends ==
    ASSUME UseConnections, NEW c, ConnOK(c), c.state \in {"CLOSED", "RST_RECVD"},
           NEW psh, NEW rh, ~rh.seg, ~rh.ack, NEW dt \in Nat
    PROVE  LET o == ConnPoll(c, psh, FrameHdrInit, rh, dt)
           IN /\ o.conn.state \in {"CLOSED", "RST_RECVD"}
              /\ SendsNothing(o) \/ (psh /\ SendsRstAck(o))
              /\ c.state = "CLOSED" /\ ~rh.rst => o.conn = c /\ SendsNothing(o)
              /\ c.state = "CLOSED" /\ rh.rst /\ psh => Answering(o.conn) /\ SendsRstAck(o)
              /\ Answering(c) /\ dt = 0 => o.conn = c /\ SendsNothing(o)
  <1> DEFINE o == ConnPoll(c, psh, FrameHdrInit, rh, dt)
             c2 == [c EXCEPT !.state = "RST_RECVD", !.tmr = 0, !.cnt = 0, !.rst_ack = FALSE]
  <1>0. c \in ConnType
    BY DEF ConnOK
  <1>1. CASE c.state = "RST_RECVD"
    <2>1. o = PollRstRecvd(c, psh, FrameHdrInit, rh, dt)
      BY <1>1 DEF ConnPoll
    <2> HIDE DEF o
    <2>2. /\ o.conn.state \in {"CLOSED", "RST_RECVD"}
          /\ SendsNothing(o) \/ (psh /\ SendsRstAck(o))
          /\ c.tmr > 0 /\ dt = 0 => o.conn = c /\ SendsNothing(o)
      <3> DEFINE p == PollRstRecvd(c, psh, FrameHdrInit, rh, dt)
      <3>1. /\ p.conn.state \in {"CLOSED", "RST_RECVD"}
            /\ SendsNothing(p) \/ (psh /\ SendsRstAck(p))
            /\ c.tmr > 0 /\ dt = 0 => p.conn = c /\ SendsNothing(p)
        BY <1>0, <1>1, RstRecvdSends
      <3> HIDE DEF p
      <3> QED
        BY <2>1, <3>1 DEF p
    <2> QED
      BY <1>1, <2>2 DEF o, Answering
  <1>2. CASE c.state = "CLOSED" /\ ~rh.rst
    <2>1. o.conn = c /\ SendsNothing(o)
      BY <1>2, ClosedIgnores
    <2> HIDE DEF o
    <2> QED
      BY <1>2, <2>1 DEF o, Answering
  <1>3. CASE c.state = "CLOSED" /\ rh.rst
    <2>1. o = PollRstRecvd(c2, psh, FrameHdrInit, rh, dt)
      BY <1>3 DEF ConnPoll, PollClosed
    <2> HIDE DEF o
    <2>2. c2 \in ConnType /\ c2.cnt = 0 /\ c2.tmr = 0 /\ c2.state = "RST_RECVD"
      <3> DEFINE c1 == [c EXCEPT !.state = "RST_RECVD", !.tmr = 0]
      <3>1. 0 \in 0..RstPeriod /\ 0 \in 0..(RstAttempts + 1)
        BY RstAssumption
      <3>2. c1 \in ConnType /\ c1.state = "RST_RECVD" /\ c1.tmr = 0
        BY <1>0, <3>1 DEF ConnType, ConnStates
      <3>3. c2 = [c1 EXCEPT !.cnt = 0, !.rst_ack = FALSE]
        BY <1>0 DEF ConnType
      <3> HIDE DEF c1, c2
      <3> QED
        BY <3>1, <3>2, <3>3 DEF ConnType
    <2> HIDE DEF c2
    <2>3. /\ o.conn.state \in {"CLOSED", "RST_RECVD"}
          /\ SendsNothing(o) \/ (psh /\ SendsRstAck(o))
          /\ psh => Answering(o.conn) /\ SendsRstAck(o)
      BY <2>1, <2>2, RstRecvdSends
    <2> QED
      BY <1>3, <2>3 DEF o, Answering
  <1> QED
    BY <1>1, <1>2, <1>3

LEMMA ServerConnects ==
    ASSUME UseConnections, NEW c, ConnOK(c), Answering(c),
           NEW psh, NEW sh, NEW rh, ~rh.seg, rh.ack, NEW dt
    PROVE  ConnPoll(c, psh, sh, rh, dt).conn.state = "ESTABLISHED"
  <1> DEFINE up == [c EXCEPT !.state = "ESTABLISHED"]
  <1>1. ConnPoll(c, psh, sh, rh, dt) = Outcome(up, sh, FALSE, "ESTABLISHED")
    BY DEF ConnPoll, PollRstRecvd, RstRecvdAck, Answering
  <1>2. up.state = "ESTABLISHED"
    BY NewState
  <1> HIDE DEF up
  <1> QED
    BY <1>1, <1>2 DEF Outcome

(* The end that asks, of one that never does. *)
LEMMA ClientHeard ==
    ASSUME UseConnections, NEW c, ConnOK(c), Waits(c), NEW psh, NEW rh, ~rh.seg,
           c.rst_ack \/ rh.rst, rh.ack <=> rh.rst, NEW dt \in Nat
    PROVE  LET o == ConnPoll(c, psh, FrameHdrInit, rh, dt)
           IN /\ psh => o.conn.state = "ESTABLISHED" /\ SendsAck(o)
              /\ ~psh => Waits(o.conn) /\ o.conn.rst_ack /\ SendsNothing(o)
  <1> DEFINE both == [c EXCEPT !.rst_ack = TRUE]
             up == [both EXCEPT !.state = "ESTABLISHED"]
             ack == [FrameHdrInit EXCEPT !.ack = TRUE]
             heard == Outcome(both, FrameHdrInit, FALSE, "NONE")
             o == ConnPoll(c, psh, FrameHdrInit, rh, dt)
             done(h) == IF psh /\ (h.conn.rst_ack \/ h.conn.simultaneous)
                        THEN Outcome([h.conn EXCEPT !.state = "ESTABLISHED"],
                                     [h.sh EXCEPT !.ack = TRUE], TRUE, "ESTABLISHED")
                        ELSE h
  <1>0. c \in ConnType
    BY DEF ConnOK
  <1>1. o = PollRstSent(c, psh, FrameHdrInit, rh, dt)
    BY DEF ConnPoll, Waits
  <1> HIDE DEF o
  <1>2. o = done(heard)
    <2>1. CASE rh.rst
      BY <1>1, <2>1 DEF PollRstSent
    <2>2. CASE ~rh.rst
      <3>1. c.rst_ack /\ ~rh.ack /\ both = c
        BY <1>0, <2>2 DEF ConnType
      <3>2. o = done(Outcome(c, FrameHdrInit, FALSE, "NONE"))
        <4> HIDE DEF both, heard
        <4> QED
          BY <1>1, <2>2, <3>1 DEF PollRstSent
      <3> QED
        BY <3>1, <3>2
    <2> QED
      BY <2>1, <2>2
  <1>3. Waits(both) /\ both.rst_ack /\ up.state = "ESTABLISHED"
    BY <1>0 DEF ConnType, Waits
  <1> HIDE DEF both
  <1>4. heard.conn = both /\ heard.sh = FrameHdrInit /\ SendsNothing(heard)
    BY DEF Outcome, SendsNothing
  <1> HIDE DEF heard
  <1>5. CASE psh
    <2>1. o = Outcome(up, ack, TRUE, "ESTABLISHED")
      BY <1>2, <1>3, <1>4, <1>5
    <2> HIDE DEF up
    <2>2. o.conn = up /\ SendsAck(o)
      BY <2>1, OutcomeAck
    <2> QED
      BY <1>3, <1>5, <2>2 DEF o
  <1>6. CASE ~psh
    <2>1. o = heard
      BY <1>2, <1>6
    <2> QED
      BY <1>3, <1>4, <1>6, <2>1 DEF o
  <1> QED
    BY <1>5, <1>6

LEMMA ClientAsks ==
    ASSUME UseConnections, NEW c, ConnOK(c), Waits(c), ~c.rst_ack, NEW psh,
           NEW rh, ~rh.seg, ~rh.ack, ~rh.rst, NEW dt \in Nat
    PROVE  LET o == ConnPoll(c, psh, FrameHdrInit, rh, dt)
           IN /\ o.conn.state = "CLOSED" \/ (Waits(o.conn) /\ ~o.conn.rst_ack)
              /\ SendsNothing(o) \/ (psh /\ SendsRst(o))
  <1> DEFINE x == SubSat(c.tmr, dt)
             t == [c EXCEPT !.tmr = x]
             try == t.tmr = 0 /\ psh
             heard == IF try THEN Attempt(t, [FrameHdrInit EXCEPT !.rst = TRUE])
                      ELSE Outcome(t, FrameHdrInit, FALSE, "NONE")
             o == ConnPoll(c, psh, FrameHdrInit, rh, dt)
  <1>0. c \in ConnType /\ c.state = "RST_SENT" /\ ~c.simultaneous
    BY DEF ConnOK, Waits
  <1>1. o = PollRstSent(c, psh, FrameHdrInit, rh, dt)
    BY <1>0 DEF ConnPoll
  <1>2. t = [c EXCEPT !.tmr = SubSat(@, dt)]
    BY <1>0 DEF ConnType
  <1> HIDE DEF o
  <1>3. o = IF psh /\ (heard.conn.rst_ack \/ heard.conn.simultaneous)
            THEN Outcome([heard.conn EXCEPT !.state = "ESTABLISHED"],
                         [heard.sh EXCEPT !.ack = TRUE], TRUE, "ESTABLISHED")
            ELSE heard
    BY <1>1, <1>2 DEF PollRstSent
  <1>4. x \in 0..RstPeriod
    BY <1>0, RstAssumption DEF ConnType, SubSat
  <1> HIDE DEF x
  <1>5. /\ t \in ConnType /\ t.state = "RST_SENT"
        /\ ~t.rst_ack /\ ~t.simultaneous
    BY <1>0, <1>4 DEF ConnType
  <1> HIDE DEF t
  <1>6. /\ heard.conn.state \in {"CLOSED", "RST_SENT"}
        /\ ~heard.conn.rst_ack /\ ~heard.conn.simultaneous
        /\ SendsNothing(heard) \/ (psh /\ SendsRst(heard))
    <2>1. CASE try
      <3>1. heard = Attempt(t, [FrameHdrInit EXCEPT !.rst = TRUE])
        BY <2>1
      <3> HIDE DEF heard
      <3>2. SendsRst(heard)
        BY <3>1, AttemptSends
      <3>3. /\ heard.conn.state \in {"CLOSED", "RST_SENT"}
            /\ ~heard.conn.rst_ack /\ ~heard.conn.simultaneous
        BY <1>5, <3>1, AttemptConn
      <3> QED
        BY <2>1, <3>2, <3>3
    <2>2. CASE ~try
      <3>1. heard = Outcome(t, FrameHdrInit, FALSE, "NONE")
        BY <2>2
      <3> HIDE DEF heard
      <3>2. heard.conn = t /\ SendsNothing(heard)
        BY <3>1, OutcomeSilent
      <3> QED
        BY <1>5, <3>2
    <2> QED
      BY <2>1, <2>2
  <1> HIDE DEF heard
  <1>7. o = heard
    BY <1>3, <1>6
  <1> QED
    BY <1>6, <1>7 DEF o, Waits

----------------------------------------------------------------------------
(* What a poll does with an endpoint that has no data yet. *)

(* The header of the frame that was received. *)
Heard(rf) == IF rf = <<>> THEN FrameHdrInit ELSE Head(rf).hdr

LEMMA RecvFresh ==
    ASSUME NEW w, w.size = 0, w.inter_seg_ack_on = FALSE, NEW rf, ~Heard(rf).seg,
           NEW psh, NEW sh, NEW dt
    PROVE  RecvPoll(w, rf, psh, sh, dt) = [rw |-> w, sh |-> sh, rh |-> Heard(rf)]
  <1> DEFINE rh == Heard(rf)
  <1>1. RecvPoll(w, rf, psh, sh, dt) = RecvAckPoll(RecvTimer(w, dt), psh, sh, rh)
    BY DEF RecvPoll, Heard
  <1>2. RecvTimer(w, dt) = w
    BY DEF RecvTimer
  <1>3. AcksDue(w) = {}
    BY DEF AcksDue
  <1> QED
    BY <1>1, <1>2, <1>3 DEF RecvAckPoll

LEMMA SendFresh ==
    ASSUME NEW buf \in [SendBufIdx -> Nat], NEW w, w = SendWndRst(buf), NEW p, p = SendWndPtrRst,
           NEW psh, NEW sh, NEW rh, NEW dt
    PROVE  SendPoll(w, p, psh, sh, rh, dt) = [sw |-> w, sp |-> p, sh |-> sh]
  <1>1. /\ w.size = 0 /\ w.tiny_on = FALSE
        /\ p.valid = FALSE /\ p.seq = 0 /\ p.seg = 0 /\ p = [valid |-> FALSE, seq |-> 0, seg |-> 0]
    BY DEF SendWndRst, SendWndPtrRst
  <1>2. w \in SendWndType
    BY RstType
  <1>3. \A seq, vec : SendWndAck(w, seq, vec) = w
    BY <1>1 DEF SendWndAck, AckInWnd
  <1>4. SendWndStep(w, dt) = w
    <2>1. {(w.seq + i) % SendCap : i \in 0..(w.size - 1)} = {}
      BY <1>1
    <2>2. w.rtx = [i \in SendIdx |-> w.rtx[i]]
      BY <1>2 DEF SendWndType
    <2>3. SendWndStep(w, dt) = [w EXCEPT !.rtx = [i \in SendIdx |-> w.rtx[i]], !.tiny = w.tiny]
      BY <1>1, <2>1 DEF SendWndStep
    <2> QED
      BY <1>2, <2>2, <2>3, ZenonT(60) DEF SendWndType
  <1>5. SendPollTimers(w, rh, dt) = w
    BY <1>1, <1>3, <1>4 DEF SendPollTimers
  <1>6. ~StaysInMsg(p, w) /\ ~CompletesMsg(p, w)
    BY <1>1 DEF StaysInMsg, CompletesMsg
  <1>7. Sendable(p, w) = {}
    BY <1>1 DEF Sendable
  <1>8. SendWndPtrNext(p, w) = p
    BY <1>1, <1>6, <1>7, SMTT(30) DEF SendWndPtrNext
  <1> QED
    BY <1>1, <1>5, <1>6, <1>8 DEF SendPoll

(* The fields of an endpoint after a poll. *)
LEMMA PollFields ==
    ASSUME NEW a, EndpointOK(a), NEW dt \in Nat
    PROVE  LET psh == SendFrameFree(a)
               r == RecvPoll(a.recv_wnd, a.recv_frame, psh, FrameHdrInit, dt)
               s == SendPoll(a.send_wnd, a.send_wnd_ptr, psh, r.sh, r.rh, dt)
               c == ConnPoll(a.conn, psh, s.sh, r.rh, dt)
               emit == psh /\ (r.sh.ack \/ s.sh.seg \/ c.emit)
               data == IF c.sh.seg THEN WndSeg(s.sw, c.sh.seq_num, c.sh.seg_id) ELSE <<>>
               b == BackendPoll(a, dt).arq
           IN /\ b.recv_wnd = r.rw /\ b.recv_frame = <<>> /\ b.send_wnd = s.sw
              /\ b.send_wnd_ptr = s.sp /\ b.conn = c.conn /\ b.need_poll = FALSE
              /\ b.send_frame.frame = IF emit THEN <<FrameWrite(c.sh, data)>>
                                      ELSE a.send_frame.frame
  <1> DEFINE psh == SendFrameFree(a)
             r == RecvPoll(a.recv_wnd, a.recv_frame, psh, FrameHdrInit, dt)
             s == SendPoll(a.send_wnd, a.send_wnd_ptr, psh, r.sh, r.rh, dt)
             c == ConnPoll(a.conn, psh, s.sh, r.rh, dt)
             emit == psh /\ (r.sh.ack \/ s.sh.seg \/ c.emit)
             data == IF c.sh.seg THEN WndSeg(s.sw, c.sh.seq_num, c.sh.seg_id) ELSE <<>>
             f    == FrameWrite(c.sh, data)
             sf   == IF emit THEN [state |-> "FREE", frame |-> <<f>>] ELSE a.send_frame
             b    == BackendPoll(a, dt).arq
  <1>1. BackendPoll(a, dt) = PollResult(a, psh, r, s, c)
    BY BackendPollParts
  <1>2. a \in EndpointType
    BY DEF EndpointOK
  <1>3. PollResult(a, psh, r, s, c).arq
          = [a EXCEPT !.recv_wnd = r.rw, !.recv_frame = <<>>,
                      !.send_wnd = s.sw, !.send_wnd_ptr = s.sp, !.conn = c.conn,
                      !.send_frame = sf, !.need_poll = FALSE]
    BY DEF PollResult
  <1>4. sf.frame = IF emit THEN <<f>> ELSE a.send_frame.frame
    OBVIOUS
  <1> HIDE DEF psh, r, s, c, sf
  <1>5. b = [a EXCEPT !.recv_wnd = r.rw, !.recv_frame = <<>>,
                      !.send_wnd = s.sw, !.send_wnd_ptr = s.sp, !.conn = c.conn,
                      !.send_frame = sf, !.need_poll = FALSE]
    BY <1>1, <1>3
  <1> HIDE DEF b, emit, f
  <1>6. /\ b.recv_wnd = r.rw /\ b.recv_frame = <<>> /\ b.send_wnd = s.sw
        /\ b.send_wnd_ptr = s.sp /\ b.conn = c.conn /\ b.send_frame = sf
        /\ b.need_poll = FALSE
    BY ONLY <1>2, <1>5 DEF EndpointType
  <1>7. b.send_frame.frame = IF emit THEN <<f>> ELSE a.send_frame.frame
    BY <1>4, <1>6
  <1> QED
    BY <1>6, <1>7 DEF b, emit, f, data, psh, r, s, c

LEMMA FreeOrWaiting ==
    ASSUME NEW a, EndpointOK(a)
    PROVE  SendFrameFree(a) <=> a.send_frame.frame = <<>>
  BY DEF EndpointOK, SendFrameFree

(* The send frame after a poll that has only the connection's frame o to send. *)
Sent(o, old) == IF old = <<>> /\ o.emit THEN <<FrameWrite(o.sh, <<>>)>> ELSE old

LEMMA FreshPoll ==
    ASSUME NEW a, EndpointOK(a), Fresh(a), ~Heard(a.recv_frame).seg, NEW dt \in Nat
    PROVE  LET psh == SendFrameFree(a)
               c == ConnPoll(a.conn, psh, FrameHdrInit, Heard(a.recv_frame), dt)
               b == BackendPoll(a, dt).arq
           IN /\ Fresh(b) /\ b.recv_frame = <<>> /\ b.conn = c.conn /\ b.need_poll = FALSE
              /\ b.send_frame.frame = Sent(c, a.send_frame.frame)
              /\ c.sh.seg = FALSE
  <1> DEFINE psh == SendFrameFree(a)
             r == RecvPoll(a.recv_wnd, a.recv_frame, psh, FrameHdrInit, dt)
             s == SendPoll(a.send_wnd, a.send_wnd_ptr, psh, r.sh, r.rh, dt)
             c0 == ConnPoll(a.conn, psh, s.sh, r.rh, dt)
             c == ConnPoll(a.conn, psh, FrameHdrInit, Heard(a.recv_frame), dt)
             emit == psh /\ (r.sh.ack \/ s.sh.seg \/ c0.emit)
             data == IF c0.sh.seg THEN WndSeg(s.sw, c0.sh.seq_num, c0.sh.seg_id) ELSE <<>>
             b == BackendPoll(a, dt).arq
             sbuf == [j \in SendBufIdx |-> 0]
             rbuf == [j \in RecvBufIdx |-> 0]
  <1>1. /\ b.recv_wnd = r.rw /\ b.recv_frame = <<>> /\ b.send_wnd = s.sw
        /\ b.send_wnd_ptr = s.sp /\ b.conn = c0.conn /\ b.need_poll = FALSE
        /\ b.send_frame.frame = IF emit THEN <<FrameWrite(c0.sh, data)>>
                                ELSE a.send_frame.frame
    BY PollFields, Zenon
  <1>2. /\ a.send_wnd = SendWndRst(sbuf) /\ a.send_wnd_ptr = SendWndPtrRst
        /\ a.recv_wnd = RecvWndRst(rbuf) /\ sbuf \in [SendBufIdx -> Nat]
    <2>1. /\ ArqInit.send_wnd = SendWndRst(sbuf) /\ ArqInit.send_wnd_ptr = SendWndPtrRst
          /\ ArqInit.recv_wnd = RecvWndRst(rbuf)
      BY DEF ArqInit
    <2>2. sbuf \in [SendBufIdx -> Nat]
      OBVIOUS
    <2> HIDE DEF sbuf, rbuf
    <2> QED
      BY <2>1, <2>2 DEF Fresh
  <1> HIDE DEF sbuf, b
  <1>3. a.recv_wnd.size = 0 /\ a.recv_wnd.inter_seg_ack_on = FALSE
    BY <1>2 DEF RecvWndRst
  <1> HIDE DEF rbuf, psh
  <1>4. r = [rw |-> a.recv_wnd, sh |-> FrameHdrInit, rh |-> Heard(a.recv_frame)]
    BY <1>3, RecvFresh, ZenonT(60)
  <1> HIDE DEF r
  <1>5. r.rw = a.recv_wnd /\ r.sh = FrameHdrInit /\ r.rh = Heard(a.recv_frame)
    BY <1>4
  <1>6. s = [sw |-> a.send_wnd, sp |-> a.send_wnd_ptr, sh |-> FrameHdrInit]
    BY <1>2, <1>5, SendFresh
  <1> HIDE DEF s
  <1>7. s.sw = a.send_wnd /\ s.sp = a.send_wnd_ptr /\ s.sh = FrameHdrInit
    BY <1>6
  <1>8. c0 = c
    BY <1>5, <1>7
  <1>9. c.sh.seg = FALSE
    <2>1. ConnOK(a.conn) /\ FrameHdrInit \in FrameHdrType /\ FrameHdrInit.seg = FALSE
      BY HdrInitFlags DEF EndpointOK
    <2>2. OutcomeOK(c, FrameHdrInit)
      BY <2>1, ConnPollOK
    <2> HIDE DEF c
    <2> QED
      BY <2>1, <2>2 DEF OutcomeOK
  <1> HIDE DEF c, c0
  <1>10. emit <=> psh /\ c.emit
    BY <1>5, <1>7, <1>8, HdrInitFlags
  <1>11. data = <<>>
    BY <1>8, <1>9
  <1> HIDE DEF emit, data
  <1>12. b.send_frame.frame = IF psh /\ c.emit THEN <<FrameWrite(c.sh, <<>>)>>
                              ELSE a.send_frame.frame
    BY <1>1, <1>8, <1>10, <1>11
  <1>13. Fresh(b)
    BY <1>1, <1>5, <1>7 DEF Fresh
  <1>14. b.send_frame.frame = Sent(c, a.send_frame.frame)
    <2>1. psh <=> a.send_frame.frame = <<>>
      BY FreeOrWaiting DEF psh
    <2> QED
      BY <1>12, <2>1 DEF Sent
  <1> QED
    BY <1>1, <1>8, <1>9, <1>13, <1>14, Zenon DEF c, b, psh

(* A poll of an endpoint that is connected: the connection stays as it is, and a frame that
   waits to be sent too. *)
LEMMA OpenPoll ==
    ASSUME NEW a, EndpointOK(a), a.conn.state = "ESTABLISHED", NEW dt \in Nat
    PROVE  LET b == BackendPoll(a, dt).arq
           IN /\ b.conn = a.conn /\ b.recv_frame = <<>>
              /\ a.send_frame.frame # <<>> => b.send_frame.frame = a.send_frame.frame
  <1> DEFINE psh == SendFrameFree(a)
             r == RecvPoll(a.recv_wnd, a.recv_frame, psh, FrameHdrInit, dt)
             s == SendPoll(a.send_wnd, a.send_wnd_ptr, psh, r.sh, r.rh, dt)
             c == ConnPoll(a.conn, psh, s.sh, r.rh, dt)
             emit == psh /\ (r.sh.ack \/ s.sh.seg \/ c.emit)
             data == IF c.sh.seg THEN WndSeg(s.sw, c.sh.seq_num, c.sh.seg_id) ELSE <<>>
             b == BackendPoll(a, dt).arq
  <1>1. /\ b.recv_frame = <<>> /\ b.conn = c.conn
        /\ b.send_frame.frame = IF emit THEN <<FrameWrite(c.sh, data)>>
                                ELSE a.send_frame.frame
    BY PollFields, Zenon
  <1> HIDE DEF b, r, s, data
  <1>2. c = Outcome(a.conn, s.sh, FALSE, "NONE")
    BY DEF ConnPoll
  <1> HIDE DEF c
  <1>3. c.conn = a.conn
    BY <1>2 DEF Outcome
  <1>4. a.send_frame.frame # <<>> => ~psh
    BY DEF SendFrameFree
  <1> HIDE DEF psh
  <1>5. a.send_frame.frame # <<>> => ~emit
    BY <1>4
  <1> HIDE DEF emit
  <1>6. b.conn = a.conn /\ b.recv_frame = <<>>
    BY <1>1, <1>3
  <1>7. a.send_frame.frame # <<>> => b.send_frame.frame = a.send_frame.frame
    BY <1>1, <1>5
  <1> QED
    BY <1>6, <1>7, Zenon DEF b

LEMMA HeardFlags ==
    ASSUME NEW rf \in FrameBufType
    PROVE  LET h == Heard(rf)
           IN /\ Rsts(rf) => ~h.seg /\ ~h.ack /\ (h.rst <=> rf # <<>>)
              /\ RstAcks(rf) => ~h.seg /\ (h.ack <=> rf # <<>>) /\ (h.rst <=> rf # <<>>)
              /\ AckIn(rf) => ~h.seg /\ h.ack
  <1> DEFINE h == Heard(rf)
  <1>1. rf = <<>> \/ \E f : rf = <<f>>
    BY FrameBufIs
  <1>2. CASE rf = <<>>
    <2>1. h = FrameHdrInit
      BY <1>2 DEF Heard
    <2> HIDE DEF h
    <2>2. ~h.seg /\ ~h.ack /\ ~h.rst
      BY <2>1, HdrInitFlags
    <2>3. ~AckIn(rf)
      BY <1>2, NoFrame
    <2> QED
      BY <1>2, <2>2, <2>3 DEF h
  <1>3. ASSUME NEW f, rf = <<f>> PROVE \A x : x = h =>
              /\ Rsts(rf) => ~x.seg /\ ~x.ack /\ (x.rst <=> rf # <<>>)
              /\ RstAcks(rf) => ~x.seg /\ (x.ack <=> rf # <<>>) /\ (x.rst <=> rf # <<>>)
              /\ AckIn(rf) => ~x.seg /\ x.ack
    <2>1. h = f.hdr /\ rf # <<>>
      BY <1>3 DEF Heard
    <2> HIDE DEF h
    <2>2. /\ Rsts(rf) => IsRst(f)
          /\ RstAcks(rf) => IsRstAck(f)
          /\ AckIn(rf) => IsAck(f)
      BY <1>3, OneFrame
    <2> QED
      BY <2>1, <2>2 DEF IsRst, IsRstAck, IsAck
  <1> QED
    BY <1>1, <1>2, <1>3

LEMMA SentFrame ==
    ASSUME NEW o, o.sh.seg = FALSE, NEW old
    PROVE  LET new == Sent(o, old)
           IN /\ SendsNothing(o) \/ old # <<>> => new = old
              /\ old = <<>> /\ SendsRst(o) => new # <<>> /\ Rsts(new)
              /\ old = <<>> /\ SendsRstAck(o) => new # <<>> /\ RstAcks(new)
              /\ old = <<>> /\ SendsAck(o) => AckIn(new)
  <1> DEFINE f == FrameWrite(o.sh, <<>>)
             new == Sent(o, old)
  <1>1. f.hdr = o.sh
    BY DEF FrameWrite
  <1>2. /\ new = IF old = <<>> /\ o.emit THEN <<f>> ELSE old
        /\ <<f>> # <<>>
    BY DEF Sent
  <1> HIDE DEF f, new
  <1>3. /\ SendsRst(o) => IsRst(f) /\ o.emit
        /\ SendsRstAck(o) => IsRstAck(f) /\ o.emit
        /\ SendsAck(o) => IsAck(f) /\ o.emit
        /\ SendsNothing(o) => ~o.emit
    BY <1>1 DEF SendsRst, SendsRstAck, SendsAck, SendsNothing, IsRst, IsRstAck, IsAck
  <1>4. SendsNothing(o) \/ old # <<>> => new = old
    BY <1>2, <1>3
  <1>5. ASSUME old = <<>>, o.emit PROVE new = <<f>> /\ new # <<>>
    BY <1>2, <1>5
  <1>6. /\ Rsts(<<f>>) <=> IsRst(f)
        /\ RstAcks(<<f>>) <=> IsRstAck(f)
        /\ AckIn(<<f>>) <=> IsAck(f)
    BY OneFrame
  <1> QED
    BY <1>3, <1>4, <1>5, <1>6 DEF new

(* The server is polled before it is connected. *)
LEMMA ServerPolled ==
    ASSUME UseConnections, NEW b, EndpointOK(b), Fresh(b), b.conn.state \in {"CLOSED", "RST_RECVD"},
           Rsts(b.recv_frame), NEW dt \in Nat, NEW b2, b2 = BackendPoll(b, dt).arq
    PROVE  /\ Fresh(b2) /\ b2.recv_frame = <<>> /\ b2.conn.state \in {"CLOSED", "RST_RECVD"}
           /\ RstAcks(b.send_frame.frame) => RstAcks(b2.send_frame.frame)
           /\ \/ b.conn.state = "CLOSED" /\ b.recv_frame = <<>>
              \/ Answering(b.conn) /\ dt = 0
              => b2.conn = b.conn /\ b2.send_frame.frame = b.send_frame.frame
           /\ b.conn.state = "CLOSED" /\ b.recv_frame # <<>> /\ b.send_frame.frame = <<>> =>
                 Answering(b2.conn) /\ b2.send_frame.frame # <<>>
  <1> DEFINE psh == SendFrameFree(b)
             h == Heard(b.recv_frame)
             o == ConnPoll(b.conn, psh, FrameHdrInit, h, dt)
  <1>1. ConnOK(b.conn) /\ b.recv_frame \in FrameBufType
    BY DEF EndpointOK, EndpointType
  <1>2. ~h.seg /\ ~h.ack /\ (h.rst <=> b.recv_frame # <<>>)
    BY <1>1, HeardFlags
  <1>3. psh <=> b.send_frame.frame = <<>>
    BY FreeOrWaiting
  <1>4. /\ Fresh(b2) /\ b2.recv_frame = <<>> /\ b2.conn = o.conn
        /\ b2.send_frame.frame = Sent(o, b.send_frame.frame)
        /\ o.sh.seg = FALSE
    BY <1>2, FreshPoll
  <1> HIDE DEF psh, h
  <1>5. /\ o.conn.state \in {"CLOSED", "RST_RECVD"}
        /\ SendsNothing(o) \/ (psh /\ SendsRstAck(o))
        /\ b.conn.state = "CLOSED" /\ ~h.rst => o.conn = b.conn /\ SendsNothing(o)
        /\ b.conn.state = "CLOSED" /\ h.rst /\ psh => Answering(o.conn) /\ SendsRstAck(o)
        /\ Answering(b.conn) /\ dt = 0 => o.conn = b.conn /\ SendsNothing(o)
    BY <1>1, <1>2, ServerSends
  <1> HIDE DEF o
  <1>6. /\ SendsNothing(o) => b2.send_frame.frame = b.send_frame.frame
        /\ psh /\ SendsRstAck(o) => b2.send_frame.frame # <<>> /\ RstAcks(b2.send_frame.frame)
    BY <1>3, <1>4, SentFrame
  <1>7. RstAcks(b.send_frame.frame) => RstAcks(b2.send_frame.frame)
    BY <1>5, <1>6
  <1> QED
    BY <1>2, <1>3, <1>4, <1>5, <1>6, <1>7

LEMMA ServerGetsAck ==
    ASSUME UseConnections, NEW b, EndpointOK(b), Fresh(b), Answering(b.conn),
           AckIn(b.recv_frame), NEW dt \in Nat, NEW b2, b2 = BackendPoll(b, dt).arq
    PROVE  b2.conn.state = "ESTABLISHED"
  <1> DEFINE psh == SendFrameFree(b)
             h == Heard(b.recv_frame)
             o == ConnPoll(b.conn, psh, FrameHdrInit, h, dt)
  <1>1. ConnOK(b.conn) /\ b.recv_frame \in FrameBufType
    BY DEF EndpointOK, EndpointType
  <1>2. ~h.seg /\ h.ack
    BY <1>1, HeardFlags
  <1>3. b2.conn = o.conn
    BY <1>2, FreshPoll
  <1> HIDE DEF psh, h
  <1>4. o.conn.state = "ESTABLISHED"
    BY <1>1, <1>2, ServerConnects
  <1> QED
    BY <1>3, <1>4

(* The client is polled before it is connected. *)
LEMMA ClientPolled ==
    ASSUME UseConnections, NEW a, EndpointOK(a), Fresh(a), RstAcks(a.recv_frame),
           NEW dt \in Nat, NEW a2, a2 = BackendPoll(a, dt).arq
    PROVE  /\ Fresh(a2) /\ a2.recv_frame = <<>>
           /\ a.conn.state = "CLOSED" =>
                 a2.conn = a.conn /\ a2.send_frame.frame = a.send_frame.frame
           /\ Waits(a.conn) /\ (a.conn.rst_ack \/ a.recv_frame # <<>>) =>
                 \/ a2.conn.state = "ESTABLISHED" /\ AckIn(a2.send_frame.frame)
                 \/ /\ Waits(a2.conn) /\ a2.conn.rst_ack
                    /\ a2.send_frame.frame = a.send_frame.frame /\ a.send_frame.frame # <<>>
           /\ Waits(a.conn) /\ ~(a.conn.rst_ack \/ a.recv_frame # <<>>) =>
                 /\ a2.conn.state = "CLOSED" \/ (Waits(a2.conn) /\ ~a2.conn.rst_ack)
                 /\ Rsts(a.send_frame.frame) => Rsts(a2.send_frame.frame)
  <1> DEFINE psh == SendFrameFree(a)
             h == Heard(a.recv_frame)
             o == ConnPoll(a.conn, psh, FrameHdrInit, h, dt)
             new == a2.send_frame.frame
             old == a.send_frame.frame
  <1>1. ConnOK(a.conn) /\ a.recv_frame \in FrameBufType
    BY DEF EndpointOK, EndpointType
  <1>2. ~h.seg /\ (h.ack <=> a.recv_frame # <<>>) /\ (h.rst <=> a.recv_frame # <<>>)
    BY <1>1, HeardFlags
  <1>3. psh <=> old = <<>>
    BY FreeOrWaiting
  <1>4. /\ Fresh(a2) /\ a2.recv_frame = <<>> /\ a2.conn = o.conn
        /\ new = Sent(o, old) /\ o.sh.seg = FALSE
    BY <1>2, FreshPoll
  <1> HIDE DEF psh, h, new, old
  <1>5. CASE a.conn.state = "CLOSED"
    <2>1. h.ack \/ (~h.rst /\ ~h.seg)
      BY <1>2
    <2>2. o.conn = a.conn /\ SendsNothing(o)
      BY <1>5, <2>1, ClosedIgnores
    <2> HIDE DEF o
    <2>3. new = old
      BY <1>3, <1>4, <2>2, SentFrame
    <2> QED
      BY <1>4, <1>5, <2>2, <2>3 DEF new, old, Waits
  <1>6. CASE Waits(a.conn) /\ (a.conn.rst_ack \/ a.recv_frame # <<>>)
    <2>1. (a.conn.rst_ack \/ h.rst) /\ (h.ack <=> h.rst)
      BY <1>2, <1>6
    <2>2. /\ psh => o.conn.state = "ESTABLISHED" /\ SendsAck(o)
          /\ ~psh => Waits(o.conn) /\ o.conn.rst_ack /\ SendsNothing(o)
      BY <1>1, <1>2, <1>6, <2>1, ClientHeard
    <2> HIDE DEF o
    <2>3. (psh => AckIn(new)) /\ (~psh => new = old)
      BY <1>3, <1>4, <2>2, SentFrame
    <2> QED
      BY <1>3, <1>4, <1>6, <2>2, <2>3 DEF new, old, Waits
  <1>7. CASE Waits(a.conn) /\ ~(a.conn.rst_ack \/ a.recv_frame # <<>>)
    <2>1. ~h.ack /\ ~h.rst /\ ~a.conn.rst_ack
      BY <1>2, <1>7
    <2>2. /\ o.conn.state = "CLOSED" \/ (Waits(o.conn) /\ ~o.conn.rst_ack)
          /\ SendsNothing(o) \/ (psh /\ SendsRst(o))
      BY <1>1, <1>2, <1>7, <2>1, ClientAsks
    <2> HIDE DEF o
    <2>3. Rsts(old) => Rsts(new)
      <3>1. /\ SendsNothing(o) => new = old
            /\ psh /\ SendsRst(o) => Rsts(new)
        BY <1>3, <1>4, SentFrame
      <3> QED
        BY <2>2, <3>1
    <2> QED
      BY <1>4, <1>7, <2>2, <2>3 DEF new, old, Waits
  <1>8. CASE a.conn.state # "CLOSED" /\ ~Waits(a.conn)
    BY <1>4, <1>8
  <1> QED
    BY <1>5, <1>6, <1>7, <1>8

----------------------------------------------------------------------------
(* No step leaves the stages of the handshake. *)

LEMMA ReleaseFields ==
    ASSUME NEW x, EndpointOK(x), NEW y, y = SendPtrRelease(x)
    PROVE  /\ y.conn = x.conn /\ y.recv_frame = x.recv_frame
           /\ y.send_frame.frame = <<>> /\ y.need_poll = TRUE
           /\ Fresh(x) => Fresh(y)
  BY DEF SendPtrRelease, EndpointOK, EndpointType, Fresh

LEMMA FillFields ==
    ASSUME NEW x, EndpointOK(x), NEW f, NEW y, y = RecvFill(x, f)
    PROVE  /\ y.conn = x.conn /\ y.send_frame = x.send_frame
           /\ y.recv_frame = <<f>> /\ y.recv_frame # <<>> /\ y.need_poll = TRUE
           /\ Fresh(x) => Fresh(y)
  BY DEF RecvFill, EndpointOK, EndpointType, Fresh

LEMMA StageTransmitClient ==
    ASSUME NEW a, NEW b, NEW up \in Seq(FrameType), NEW down, NEW n, Stage(a, b, up, down, n),
           EndpointOK(a), a.send_frame.frame # <<>>, NEW a2, a2 = SendPtrRelease(a)
    PROVE  Stage(a2, b, up \o a.send_frame.frame, down, n)
  <1> DEFINE up2 == up \o a.send_frame.frame
  <1>1. /\ a2.conn = a.conn /\ a2.recv_frame = a.recv_frame
        /\ a2.send_frame.frame = <<>> /\ a2.need_poll = TRUE
        /\ Fresh(a) => Fresh(a2)
    BY ReleaseFields
  <1>2. PICK f \in FrameType : a.send_frame.frame = <<f>>
    BY FrameBufIs DEF EndpointOK, EndpointType
  <1>3. up2 = Append(up, f)
    BY <1>2
  <1> HIDE DEF up2
  <1>4. /\ Rsts(up) /\ IsRst(f) => Rsts(up2)
        /\ AckIn(up) => AckIn(up2)
        /\ Rsts(up) /\ IsAck(f) => AckIn(up2)
    BY <1>3, FrameAdded
  <1>5. /\ Rsts(a.send_frame.frame) => IsRst(f)
        /\ AckIn(a.send_frame.frame) => IsAck(f)
    BY <1>2, OneFrame
  <1>6. AllRsts(a, up, b) => AllRsts(a2, up2, b)
    BY <1>1, <1>4, <1>5, NoFrame DEF AllRsts
  <1>7. /\ AllRstAcks(b, down, a) => AllRstAcks(b, down, a2)
        /\ NoFrames(b, down, a2) <=> NoFrames(b, down, a)
        /\ ~NoFrames(a, up, b)
    BY <1>1 DEF AllRstAcks, NoFrames
  <1>8. AckNext(a, up, b) => AckNext(a2, up2, b)
    BY <1>4, <1>5 DEF AckNext
  <1>9. NotAsking(a, b, up, down, n) => NotAsking(a2, b, up2, down, n)
    BY <1>1, <1>6, <1>7 DEF NotAsking
  <1>10. Asking(a, b, up, down, n) => Asking(a2, b, up2, down, n)
    BY <1>1, <1>6, <1>7 DEF Asking
  <1>11. Answered(a, b, up) => Answered(a2, b, up2)
    BY <1>1, <1>8 DEF Answered
  <1>12. BothOpen(a, b) => BothOpen(a2, b)
    BY <1>1 DEF BothOpen
  <1>13. Stage(a2, b, up2, down, n)
    BY <1>9, <1>10, <1>11, <1>12 DEF Stage
  <1> QED
    BY <1>13 DEF up2

LEMMA StageLoseClient ==
    ASSUME NEW a, NEW b, NEW up, NEW down, NEW n, Stage(a, b, up, down, n),
           EndpointOK(a), NEW f, a.send_frame.frame = <<f>>, ~f.hdr.ack,
           NEW a2, a2 = SendPtrRelease(a)
    PROVE  Stage(a2, b, up, down, n)
  <1>1. /\ a2.conn = a.conn /\ a2.recv_frame = a.recv_frame
        /\ a2.send_frame.frame = <<>> /\ a2.need_poll = TRUE
        /\ Fresh(a) => Fresh(a2)
    BY ReleaseFields
  <1>2. <<f>> # <<>>
    OBVIOUS
  <1>3. ~AckIn(a.send_frame.frame)
    BY OneFrame DEF IsAck
  <1>4. AllRsts(a, up, b) => AllRsts(a2, up, b)
    BY <1>1, NoFrame DEF AllRsts
  <1>5. /\ AllRstAcks(b, down, a) => AllRstAcks(b, down, a2)
        /\ NoFrames(b, down, a2) <=> NoFrames(b, down, a)
        /\ ~NoFrames(a, up, b)
    BY <1>1, <1>2 DEF AllRstAcks, NoFrames
  <1>6. AckNext(a, up, b) => AckNext(a2, up, b)
    BY <1>3 DEF AckNext
  <1>7. NotAsking(a, b, up, down, n) => NotAsking(a2, b, up, down, n)
    BY <1>1, <1>4, <1>5 DEF NotAsking
  <1>8. Asking(a, b, up, down, n) => Asking(a2, b, up, down, n)
    BY <1>1, <1>4, <1>5 DEF Asking
  <1>9. Answered(a, b, up) => Answered(a2, b, up)
    BY <1>1, <1>6 DEF Answered
  <1>10. BothOpen(a, b) => BothOpen(a2, b)
    BY <1>1 DEF BothOpen
  <1> QED
    BY <1>7, <1>8, <1>9, <1>10 DEF Stage

LEMMA StageTransmitServer ==
    ASSUME NEW a, NEW b, NEW up, NEW down \in Seq(FrameType), NEW n, Stage(a, b, up, down, n),
           EndpointOK(b), b.send_frame.frame # <<>>, NEW b2, b2 = SendPtrRelease(b)
    PROVE  Stage(a, b2, up, down \o b.send_frame.frame, n)
  <1> DEFINE down2 == down \o b.send_frame.frame
  <1>1. /\ b2.conn = b.conn /\ b2.recv_frame = b.recv_frame
        /\ b2.send_frame.frame = <<>>
        /\ Fresh(b) => Fresh(b2)
    BY ReleaseFields
  <1>2. PICK f \in FrameType : b.send_frame.frame = <<f>>
    BY FrameBufIs DEF EndpointOK, EndpointType
  <1>3. down2 = Append(down, f) /\ down2 # <<>>
    BY <1>2
  <1> HIDE DEF down2
  <1>4. RstAcks(down) /\ IsRstAck(f) => RstAcks(down2)
    BY <1>3, FrameAdded
  <1>5. RstAcks(b.send_frame.frame) => IsRstAck(f)
    BY <1>2, OneFrame
  <1>6. AllRstAcks(b, down, a) => AllRstAcks(b2, down2, a)
    BY <1>1, <1>4, <1>5, NoFrame DEF AllRstAcks
  <1>7. /\ AllRsts(a, up, b) => AllRsts(a, up, b2)
        /\ AckNext(a, up, b) => AckNext(a, up, b2)
        /\ ~NoFrames(b, down, a) /\ ~NoFrames(b2, down2, a)
    BY <1>1, <1>3 DEF AllRsts, AckNext, NoFrames
  <1>8. NotAsking(a, b, up, down, n) => NotAsking(a, b2, up, down2, n)
    BY <1>1, <1>6, <1>7 DEF NotAsking
  <1>9. Asking(a, b, up, down, n) => Asking(a, b2, up, down2, n)
    BY <1>1, <1>6, <1>7 DEF Asking
  <1>10. Answered(a, b, up) => Answered(a, b2, up)
    BY <1>1, <1>7 DEF Answered
  <1>11. BothOpen(a, b) => BothOpen(a, b2)
    BY <1>1 DEF BothOpen
  <1>12. Stage(a, b2, up, down2, n)
    BY <1>8, <1>9, <1>10, <1>11 DEF Stage
  <1> QED
    BY <1>12 DEF down2

(* The server's RST/ACK is an acknowledgement, and not lost. *)
LEMMA StageLoseServer ==
    ASSUME NEW a, NEW b, NEW up, NEW down, NEW n, Stage(a, b, up, down, n),
           EndpointOK(b), NEW f, b.send_frame.frame = <<f>>, ~f.hdr.ack,
           NEW b2, b2 = SendPtrRelease(b)
    PROVE  Stage(a, b2, up, down, n)
  <1>1. /\ b2.conn = b.conn /\ b2.recv_frame = b.recv_frame
        /\ Fresh(b) => Fresh(b2)
    BY ReleaseFields
  <1>2. ~RstAcks(b.send_frame.frame)
    BY OneFrame DEF IsRstAck
  <1>3. ~AllRstAcks(b, down, a)
    BY <1>2 DEF AllRstAcks
  <1>4. ~NotAsking(a, b, up, down, n) /\ ~Asking(a, b, up, down, n)
    BY <1>3 DEF NotAsking, Asking
  <1>5. AckNext(a, up, b) => AckNext(a, up, b2)
    BY <1>1 DEF AckNext
  <1>6. Answered(a, b, up) => Answered(a, b2, up)
    BY <1>1, <1>5 DEF Answered
  <1>7. BothOpen(a, b) => BothOpen(a, b2)
    BY <1>1 DEF BothOpen
  <1> QED
    BY <1>4, <1>6, <1>7 DEF Stage

LEMMA StageFillServer ==
    ASSUME NEW a, NEW b, NEW up \in Seq(FrameType), NEW down, NEW n, Stage(a, b, up, down, n),
           EndpointOK(b), b.recv_frame = <<>>, up # <<>>, NEW b2, b2 = RecvFill(b, Head(up))
    PROVE  Stage(a, b2, Tail(up), down, n)
  <1> DEFINE f == Head(up)
             up2 == Tail(up)
  <1>1. /\ b2.conn = b.conn /\ b2.send_frame = b.send_frame /\ b2.recv_frame = <<f>>
        /\ Fresh(b) => Fresh(b2)
    BY FillFields
  <1>2. /\ Rsts(up) => IsRst(f) /\ Rsts(up2)
        /\ AckIn(up) => IsAck(f) \/ (IsRst(f) /\ AckIn(up2))
    BY FrameTaken
  <1> HIDE DEF f, up2
  <1>3. /\ Rsts(b2.recv_frame) <=> IsRst(f)
        /\ AckIn(b2.recv_frame) <=> IsAck(f)
    BY <1>1, OneFrame
  <1>4. AllRsts(a, up, b) => AllRsts(a, up2, b2)
    BY <1>2, <1>3 DEF AllRsts
  <1>5. /\ AllRstAcks(b, down, a) => AllRstAcks(b2, down, a)
        /\ NoFrames(b2, down, a) <=> NoFrames(b, down, a)
        /\ ~NoFrames(a, up, b)
    BY <1>1 DEF AllRstAcks, NoFrames
  <1>6. AckNext(a, up, b) => AckNext(a, up2, b2)
    BY <1>2, <1>3, NoFrame DEF AckNext
  <1>7. NotAsking(a, b, up, down, n) => NotAsking(a, b2, up2, down, n)
    BY <1>1, <1>4, <1>5 DEF NotAsking
  <1>8. Asking(a, b, up, down, n) => Asking(a, b2, up2, down, n)
    BY <1>1, <1>4, <1>5 DEF Asking
  <1>9. Answered(a, b, up) => Answered(a, b2, up2)
    BY <1>1, <1>6 DEF Answered
  <1>10. BothOpen(a, b) => BothOpen(a, b2)
    BY <1>1 DEF BothOpen
  <1>11. Stage(a, b2, up2, down, n)
    BY <1>7, <1>8, <1>9, <1>10 DEF Stage
  <1> QED
    BY <1>11 DEF up2

LEMMA StageFillClient ==
    ASSUME NEW a, NEW b, NEW up, NEW down \in Seq(FrameType), NEW n, Stage(a, b, up, down, n),
           EndpointOK(a), a.recv_frame = <<>>, down # <<>>, NEW a2, a2 = RecvFill(a, Head(down))
    PROVE  Stage(a2, b, up, Tail(down), n)
  <1> DEFINE f == Head(down)
             down2 == Tail(down)
  <1>1. /\ a2.conn = a.conn /\ a2.send_frame = a.send_frame /\ a2.recv_frame = <<f>>
        /\ a2.recv_frame # <<>>
        /\ Fresh(a) => Fresh(a2)
    BY FillFields
  <1>2. RstAcks(down) => IsRstAck(f) /\ RstAcks(down2)
    BY FrameTaken
  <1> HIDE DEF f, down2
  <1>3. RstAcks(a2.recv_frame) <=> IsRstAck(f)
    BY <1>1, OneFrame
  <1>4. AllRstAcks(b, down, a) => AllRstAcks(b, down2, a2)
    BY <1>2, <1>3 DEF AllRstAcks
  <1>5. /\ AllRsts(a, up, b) => AllRsts(a2, up, b)
        /\ AckNext(a, up, b) => AckNext(a2, up, b)
        /\ ~NoFrames(b, down, a) /\ ~NoFrames(b, down2, a2)
    BY <1>1 DEF AllRsts, AckNext, NoFrames
  <1>6. NotAsking(a, b, up, down, n) => NotAsking(a2, b, up, down2, n)
    BY <1>1, <1>4, <1>5 DEF NotAsking
  <1>7. Asking(a, b, up, down, n) => Asking(a2, b, up, down2, n)
    BY <1>1, <1>4, <1>5 DEF Asking
  <1>8. Answered(a, b, up) => Answered(a2, b, up)
    BY <1>1, <1>5 DEF Answered
  <1>9. BothOpen(a, b) => BothOpen(a2, b)
    BY <1>1 DEF BothOpen
  <1>10. Stage(a2, b, up, down2, n)
    BY <1>6, <1>7, <1>8, <1>9 DEF Stage
  <1> QED
    BY <1>10 DEF down2

(* What arq_send, arq_flush, arq_recv and arq_backend_send_ptr_get leave alone: the first
   needs a connection here, and the others find nothing to do without data. *)
Unmoved(x, y) ==
    /\ y.conn = x.conn /\ y.recv_frame = x.recv_frame
    /\ y.send_frame.frame = x.send_frame.frame
    /\ y.need_poll = x.need_poll
    /\ Fresh(x) /\ x.conn.state # "ESTABLISHED" => Fresh(y)

LEMMA UnmovedSelf == \A x : Unmoved(x, x)
  BY DEF Unmoved

LEMMA StageUnmoved ==
    ASSUME NEW a, NEW b, NEW up, NEW down, NEW n, Stage(a, b, up, down, n),
           NEW a2, NEW b2, Unmoved(a, a2), Unmoved(b, b2)
    PROVE  Stage(a2, b2, up, down, n)
  <1>1. /\ a2.conn = a.conn /\ a2.recv_frame = a.recv_frame
        /\ a2.send_frame.frame = a.send_frame.frame
        /\ a2.need_poll = a.need_poll
        /\ Fresh(a) /\ a.conn.state # "ESTABLISHED" => Fresh(a2)
        /\ b2.conn = b.conn /\ b2.recv_frame = b.recv_frame
        /\ b2.send_frame.frame = b.send_frame.frame
        /\ Fresh(b) /\ b.conn.state # "ESTABLISHED" => Fresh(b2)
    BY DEF Unmoved
  <1>2. /\ AllRsts(a, up, b) => AllRsts(a2, up, b2)
        /\ AllRstAcks(b, down, a) => AllRstAcks(b2, down, a2)
        /\ NoFrames(a, up, b) <=> NoFrames(a2, up, b2)
        /\ NoFrames(b, down, a) <=> NoFrames(b2, down, a2)
        /\ AckNext(a, up, b) => AckNext(a2, up, b2)
    BY <1>1 DEF AllRsts, AllRstAcks, NoFrames, AckNext
  <1>3. NotAsking(a, b, up, down, n) => NotAsking(a2, b2, up, down, n)
    BY <1>1, <1>2 DEF NotAsking
  <1>4. Asking(a, b, up, down, n) => Asking(a2, b2, up, down, n)
    BY <1>1, <1>2 DEF Asking, Waits, Answering
  <1>5. Answered(a, b, up) => Answered(a2, b2, up)
    BY <1>1, <1>2 DEF Answered, Answering
  <1>6. BothOpen(a, b) => BothOpen(a2, b2)
    BY <1>1 DEF BothOpen
  <1> QED
    BY <1>3, <1>4, <1>5, <1>6 DEF Stage

(* arq_connect *)
LEMMA StageConnect ==
    ASSUME NEW a, NEW b, NEW up, NEW down, NEW n, Stage(a, b, up, down, n), EndpointOK(a),
           n = 0, CanConnect(a.conn), NEW a2, a2 = ArqConnect(a), NEW n2, n2 # 0
    PROVE  Stage(a2, b, up, down, n2)
  <1>1. UseConnections /\ a.conn.state = "CLOSED"
    BY DEF CanConnect
  <1>2. NotAsking(a, b, up, down, n)
    BY <1>1 DEF Stage, BothOpen, Asking, Answered, Waits
  <1>3. a2.conn = ConnConnect(a.conn) /\ a2.send_frame = a.send_frame
        /\ a2.recv_frame = a.recv_frame /\ (Fresh(a) => Fresh(a2))
    BY DEF ArqConnect, EndpointOK, EndpointType, Fresh
  <1>4. Waits(a2.conn) /\ ~a2.conn.rst_ack
    BY <1>3 DEF ConnConnect, Waits
  <1>5. /\ Fresh(a2) /\ Fresh(b) /\ b.conn.state = "CLOSED"
        /\ NoFrames(b, down, a2) /\ NoFrames(a2, up, b)
    BY <1>2, <1>3 DEF NotAsking, NoFrames
  <1>6. AllRsts(a2, up, b) /\ AllRstAcks(b, down, a2)
    BY <1>5, NoFrame DEF NoFrames, AllRsts, AllRstAcks
  <1>7. Asking(a2, b, up, down, n2)
    BY <1>4, <1>5, <1>6 DEF Asking
  <1> QED
    BY <1>1, <1>7 DEF Stage

(* Time passes only while nothing is under way. *)
Still(a, b, up, down) == NoFrames(a, up, b) /\ NoFrames(b, down, a) /\ ~a.need_poll

LEMMA StagePollServer ==
    ASSUME NEW a, NEW b, NEW up, NEW down, NEW n, Stage(a, b, up, down, n), EndpointOK(b),
           NEW dt \in Nat, dt = 0 \/ Still(a, b, up, down), NEW b2, b2 = BackendPoll(b, dt).arq
    PROVE  Stage(a, b2, up, down, n)
  <1>1. CASE BothOpen(a, b)
    <2>1. b2.conn = b.conn
      BY <1>1, OpenPoll DEF BothOpen
    <2> QED
      BY <1>1, <2>1 DEF BothOpen, Stage
  <1>2. CASE UseConnections /\ NotAsking(a, b, up, down, n)
    <2>1. /\ Fresh(b) /\ b.conn.state \in {"CLOSED", "RST_RECVD"} /\ Rsts(b.recv_frame)
          /\ RstAcks(b.send_frame.frame)
      BY <1>2 DEF NotAsking, AllRsts, AllRstAcks
    <2>2. /\ Fresh(b2) /\ b2.recv_frame = <<>> /\ b2.conn.state \in {"CLOSED", "RST_RECVD"}
          /\ RstAcks(b2.send_frame.frame)
          /\ b.conn.state = "CLOSED" /\ b.recv_frame = <<>>
             => b2.conn = b.conn /\ b2.send_frame.frame = b.send_frame.frame
      BY <1>2, <2>1, ServerPolled
    <2>3. AllRsts(a, up, b2) /\ AllRstAcks(b2, down, a)
      BY <1>2, <2>2, NoFrame DEF NotAsking, AllRsts, AllRstAcks
    <2>4. n = 0 => NoFrames(a, up, b2) /\ NoFrames(b2, down, a) /\ b2.conn.state = "CLOSED"
      BY <1>2, <2>2 DEF NotAsking, NoFrames
    <2>5. NotAsking(a, b2, up, down, n)
      BY <1>2, <2>2, <2>3, <2>4 DEF NotAsking
    <2> QED
      BY <1>2, <2>5 DEF Stage
  <1>3. CASE UseConnections /\ Asking(a, b, up, down, n)
    <2>1. /\ Waits(a.conn) /\ Fresh(a) /\ n # 0 /\ Fresh(b)
          /\ Rsts(a.send_frame.frame) /\ Rsts(up) /\ Rsts(b.recv_frame)
          /\ RstAcks(b.send_frame.frame) /\ RstAcks(down) /\ RstAcks(a.recv_frame)
          /\ b.conn.state \in {"CLOSED", "RST_RECVD"}
      BY <1>3 DEF Asking, AllRsts, AllRstAcks, Answering
    <2>2. /\ Fresh(b2) /\ b2.recv_frame = <<>>
          /\ RstAcks(b2.send_frame.frame)
          /\ \/ b.conn.state = "CLOSED" /\ b.recv_frame = <<>>
             \/ Answering(b.conn) /\ dt = 0
             => b2.conn = b.conn /\ b2.send_frame.frame = b.send_frame.frame
          /\ b.conn.state = "CLOSED" /\ b.recv_frame # <<>> /\ b.send_frame.frame = <<>> =>
                Answering(b2.conn) /\ b2.send_frame.frame # <<>>
      BY <1>3, <2>1, ServerPolled
    <2>3. AllRsts(a, up, b2) /\ AllRstAcks(b2, down, a)
      BY <2>1, <2>2, NoFrame DEF AllRsts, AllRstAcks
    <2>4. \/ b2.conn.state = "CLOSED" /\ NoFrames(b2, down, a) /\ ~a.conn.rst_ack
          \/ /\ Answering(b2.conn)
             /\ \/ ~NoFrames(b2, down, a)
                \/ a.conn.rst_ack /\ (a.send_frame.frame # <<>> \/ a.need_poll)
      <3>1. CASE b.conn.state = "CLOSED" /\ NoFrames(b, down, a) /\ ~a.conn.rst_ack
        BY <2>2, <3>1 DEF NoFrames
      <3>2. CASE Answering(b.conn) /\ ~NoFrames(b, down, a)
        <4>1. dt = 0
          BY <3>2 DEF Still
        <4> QED
          BY <2>2, <3>2, <4>1 DEF NoFrames
      <3>3. CASE /\ Answering(b.conn)
                 /\ a.conn.rst_ack /\ (a.send_frame.frame # <<>> \/ a.need_poll)
        <4>1. dt = 0
          BY <3>3 DEF Still, NoFrames
        <4> QED
          BY <2>2, <3>3, <4>1
      <3> QED
        BY <1>3, <3>1, <3>2, <3>3 DEF Asking
    <2>5. Asking(a, b2, up, down, n)
      BY <2>1, <2>2, <2>3, <2>4 DEF Asking
    <2> QED
      BY <1>3, <2>5 DEF Stage
  <1>4. CASE UseConnections /\ Answered(a, b, up)
    <2>1. a.conn.state = "ESTABLISHED" /\ Answering(b.conn) /\ Fresh(b) /\ AckNext(a, up, b)
      BY <1>4 DEF Answered
    <2>2. dt = 0
      BY <2>1, NoFrame DEF Still, NoFrames, AckNext
    <2>3. CASE AckIn(b.recv_frame)
      <3>1. b2.conn.state = "ESTABLISHED"
        BY <1>4, <2>1, <2>3, ServerGetsAck
      <3> QED
        BY <2>1, <3>1 DEF Stage, BothOpen
    <2>4. CASE ~AckIn(b.recv_frame)
      <3>1. Rsts(b.recv_frame) /\ b.conn.state = "RST_RECVD"
        BY <2>1, <2>4 DEF AckNext, Answering
      <3>2. Fresh(b2) /\ b2.recv_frame = <<>> /\ b2.conn = b.conn
        BY <1>4, <2>1, <2>2, <3>1, ServerPolled
      <3>3. AckNext(a, up, b2)
        BY <2>1, <2>4, <3>2, NoFrame DEF AckNext
      <3> QED
        BY <1>4, <2>1, <3>2, <3>3 DEF Answered, Stage
    <2> QED
      BY <2>3, <2>4
  <1> QED
    BY <1>1, <1>2, <1>3, <1>4 DEF Stage

LEMMA StagePollClient ==
    ASSUME NEW a, NEW b, NEW up, NEW down, NEW n, Stage(a, b, up, down, n), EndpointOK(a),
           NEW dt \in Nat, NEW a2, a2 = BackendPoll(a, dt).arq
    PROVE  Stage(a2, b, up, down, n)
  <1>1. CASE BothOpen(a, b)
    <2>1. a2.conn = a.conn
      BY <1>1, OpenPoll DEF BothOpen
    <2> QED
      BY <1>1, <2>1 DEF BothOpen, Stage
  <1>2. CASE UseConnections /\ NotAsking(a, b, up, down, n)
    <2>1. /\ a.conn.state = "CLOSED" /\ Fresh(a) /\ RstAcks(a.recv_frame)
          /\ b.conn.state \in {"CLOSED", "RST_RECVD"} /\ Fresh(b)
          /\ AllRsts(a, up, b) /\ AllRstAcks(b, down, a)
      BY <1>2 DEF NotAsking, AllRstAcks
    <2>2. /\ Fresh(a2) /\ a2.recv_frame = <<>>
          /\ a2.conn = a.conn /\ a2.send_frame.frame = a.send_frame.frame
      BY <1>2, <2>1, ClientPolled
    <2>3. AllRsts(a2, up, b) /\ AllRstAcks(b, down, a2)
      BY <2>1, <2>2, NoFrame DEF AllRsts, AllRstAcks
    <2>4. /\ NoFrames(a, up, b) => NoFrames(a2, up, b)
          /\ NoFrames(b, down, a) => NoFrames(b, down, a2)
      BY <2>2 DEF NoFrames
    <2>5. NotAsking(a2, b, up, down, n)
      BY <1>2, <2>1, <2>2, <2>3, <2>4 DEF NotAsking
    <2> QED
      BY <1>2, <2>5 DEF Stage
  <1>3. CASE UseConnections /\ Asking(a, b, up, down, n)
    <2>1. /\ Waits(a.conn) /\ Fresh(a) /\ n # 0 /\ Fresh(b) /\ RstAcks(a.recv_frame)
          /\ AllRsts(a, up, b) /\ AllRstAcks(b, down, a)
      BY <1>3 DEF Asking, AllRstAcks
    <2>2. /\ Fresh(a2) /\ a2.recv_frame = <<>>
          /\ (a.conn.rst_ack \/ a.recv_frame # <<>>) =>
                \/ a2.conn.state = "ESTABLISHED" /\ AckIn(a2.send_frame.frame)
                \/ /\ Waits(a2.conn) /\ a2.conn.rst_ack
                   /\ a2.send_frame.frame = a.send_frame.frame /\ a.send_frame.frame # <<>>
          /\ ~(a.conn.rst_ack \/ a.recv_frame # <<>>) =>
                /\ a2.conn.state = "CLOSED" \/ (Waits(a2.conn) /\ ~a2.conn.rst_ack)
                /\ Rsts(a.send_frame.frame) => Rsts(a2.send_frame.frame)
      BY <1>3, <2>1, ClientPolled
    <2>3. AllRstAcks(b, down, a2)
      BY <2>1, <2>2, NoFrame DEF AllRstAcks
    <2>4. ASSUME a.conn.rst_ack \/ a.recv_frame # <<>>
          PROVE  Answered(a2, b, up) \/ Asking(a2, b, up, down, n)
      <3>1. Answering(b.conn)
        BY <1>3, <2>4 DEF Asking, NoFrames
      <3>2. CASE a2.conn.state = "ESTABLISHED" /\ AckIn(a2.send_frame.frame)
        <4>1. AckNext(a2, up, b)
          BY <2>1, <3>2 DEF AllRsts, AckNext
        <4> QED
          BY <2>1, <3>1, <3>2, <4>1 DEF Answered
      <3>3. CASE /\ Waits(a2.conn) /\ a2.conn.rst_ack
                 /\ a2.send_frame.frame = a.send_frame.frame /\ a.send_frame.frame # <<>>
        <4>1. AllRsts(a2, up, b)
          BY <2>1, <3>3 DEF AllRsts
        <4> QED
          BY <2>1, <2>2, <2>3, <3>1, <3>3, <4>1 DEF Asking
      <3> QED
        BY <2>2, <2>4, <3>2, <3>3
    <2>5. ASSUME ~(a.conn.rst_ack \/ a.recv_frame # <<>>)
          PROVE  NotAsking(a2, b, up, down, n) \/ Asking(a2, b, up, down, n)
      <3>1. AllRsts(a2, up, b)
        BY <2>1, <2>2, <2>5 DEF AllRsts
      <3>2. NoFrames(b, down, a2) <=> NoFrames(b, down, a)
        BY <2>2, <2>5 DEF NoFrames
      <3>3. \/ b.conn.state = "CLOSED" /\ NoFrames(b, down, a)
            \/ Answering(b.conn) /\ ~NoFrames(b, down, a)
        BY <1>3, <2>5 DEF Asking
      <3>4. CASE a2.conn.state = "CLOSED"
        <4>1. b.conn.state \in {"CLOSED", "RST_RECVD"}
          BY <3>3 DEF Answering
        <4> QED
          BY <2>1, <2>2, <2>3, <3>1, <3>4, <4>1 DEF NotAsking
      <3>5. CASE Waits(a2.conn) /\ ~a2.conn.rst_ack
        BY <2>1, <2>2, <2>3, <3>1, <3>2, <3>3, <3>5 DEF Asking
      <3> QED
        BY <2>2, <2>5, <3>4, <3>5
    <2> QED
      BY <1>3, <2>4, <2>5 DEF Stage
  <1>4. CASE UseConnections /\ Answered(a, b, up)
    <2>1. a.conn.state = "ESTABLISHED" /\ Answering(b.conn) /\ Fresh(b) /\ AckNext(a, up, b)
      BY <1>4 DEF Answered
    <2>2. /\ a2.conn = a.conn
          /\ a.send_frame.frame # <<>> => a2.send_frame.frame = a.send_frame.frame
      BY <2>1, OpenPoll
    <2>3. AckNext(a2, up, b)
      BY <2>1, <2>2, NoFrame DEF AckNext
    <2> QED
      BY <1>4, <2>1, <2>2, <2>3 DEF Answered, Stage
  <1> QED
    BY <1>1, <1>2, <1>3, <1>4 DEF Stage

LEMMA SendUnmoved ==
    ASSUME NEW x, EndpointOK(x), x.conn.state = "ESTABLISHED", NEW data,
           NEW y, y = ArqSend(x, data)
    PROVE  Unmoved(x, y)
  <1> DEFINE w == SendWndSend(x.send_wnd, data)
  <1>1. y = [x EXCEPT !.send_wnd = w]
    BY DEF ArqSend
  <1> HIDE DEF w
  <1> QED
    BY <1>1 DEF Unmoved, EndpointOK, EndpointType

LEMMA FreshWindows ==
    ASSUME NEW x, Fresh(x)
    PROVE  x.send_wnd.size = 0 /\ x.recv_wnd.size = 0
  BY DEF Fresh, ArqInit, SendWndRst, RecvWndRst

LEMMA FlushUnmoved ==
    ASSUME NEW x, EndpointOK(x), NEW y, y = ArqFlush(x)
    PROVE  Unmoved(x, y)
  <1> DEFINE w == SendWndFlush(x.send_wnd)
  <1>1. y = [x EXCEPT !.send_wnd = w]
    BY DEF ArqFlush
  <1>2. Fresh(x) => w = x.send_wnd
    BY FreshWindows DEF SendWndFlush
  <1> HIDE DEF w
  <1> QED
    BY <1>1, <1>2 DEF Unmoved, EndpointOK, EndpointType, Fresh

LEMMA RecvUnmoved ==
    ASSUME NEW x, EndpointOK(x), NEW max, RecvCount(x.recv_wnd, max) > 0,
           NEW y, y = ArqRecv(x, max)
    PROVE  Unmoved(x, y)
  <1> DEFINE w == RecvWndRecv(x.recv_wnd, max)
  <1>1. y = [x EXCEPT !.recv_wnd = w]
    BY DEF ArqRecv
  <1>2. ~Fresh(x)
    <2> SUFFICES ASSUME x.recv_wnd.size = 0 PROVE FALSE
      BY FreshWindows
    <2> DEFINE v == x.recv_wnd
               S == {i \in 0..(v.size - 1) :
                        LET m == v.msg[CopySlot(v, i)] IN m.len = 0 \/ ~Complete(m)}
    <2>1. S = {}
      OBVIOUS
    <2>2. Deliverable(v) = Min({v.size} \cup S)
      BY DEF Deliverable
    <2> HIDE DEF S
    <2>3. {v.size} \cup S = {0}
      BY <2>1
    <2>4. Min({0}) \in {0}
      BY MinOfNats
    <2>5. RecvCount(v, max) = 0
      BY <2>2, <2>3, <2>4 DEF RecvCount
    <2> QED
      BY <2>5
  <1> HIDE DEF w
  <1> QED
    BY <1>1, <1>2 DEF Unmoved, EndpointOK, EndpointType

LEMMA PtrGetUnmoved ==
    ASSUME NEW x, EndpointOK(x), NEW y, y = SendPtrGet(x)
    PROVE  Unmoved(x, y)
  <1> DEFINE s == IF x.send_frame.frame # <<>> THEN "HELD" ELSE "FREE"
  <1>1. y = [x EXCEPT !.send_frame.state = s]
    BY DEF SendPtrGet
  <1> HIDE DEF s
  <1> QED
    BY <1>1 DEF Unmoved, EndpointOK, EndpointType, Fresh

(* c is the end that calls arq_connect. *)
Handshakes(c) ==
    Stage(arq[c], arq[Peer(c)], chan[Peer(c)], chan[c], used.connects[c])

LEMMA Ends ==
    ASSUME NEW c \in Node
    PROVE  /\ Peer(c) \in Node /\ Peer(c) # c /\ Peer(Peer(c)) = c
           /\ \A e \in Node : e = c \/ e = Peer(c)
  BY DEF Node, Peer

LEMMA ArqFields ==
    ASSUME Inv, NEW e \in Node, NEW y, arq' = [arq EXCEPT ![e] = y]
    PROVE  arq'[e] = y /\ arq'[Peer(e)] = arq[Peer(e)]
  <1>1. e \in DOMAIN arq /\ Peer(e) # e
    BY Ends DEF Inv
  <1>2. DOMAIN arq = Node /\ Peer(e) \in Node
    BY Ends DEF Inv
  <1> QED
    BY <1>1, <1>2

LEMMA ChanFields ==
    ASSUME Inv, NEW e \in Node, NEW y, chan' = [chan EXCEPT ![e] = y]
    PROVE  chan'[e] = y /\ chan'[Peer(e)] = chan[Peer(e)]
  <1>1. e \in DOMAIN chan /\ Peer(e) # e
    BY Ends DEF Inv
  <1>2. DOMAIN chan = Node /\ Peer(e) \in Node
    BY Ends DEF Inv
  <1> QED
    BY <1>1, <1>2

LEMMA UnmovedStep ==
    ASSUME Inv, NEW c \in Node, Handshakes(c), NEW e \in Node, NEW y, Unmoved(arq[e], y),
           arq' = [arq EXCEPT ![e] = y], chan' = chan, used' = used
    PROVE  Handshakes(c)'
  <1>1. Unmoved(arq[c], arq'[c]) /\ Unmoved(arq[Peer(c)], arq'[Peer(c)])
    BY Ends, ArqFields, UnmovedSelf
  <1> QED
    BY <1>1, StageUnmoved DEF Handshakes

LEMMA UnmovedSteps ==
    ASSUME Inv, NEW c \in Node, Handshakes(c), NEW e \in Node, "send_early" \notin Env,
           \/ \E n \in SendLens : AppSend(e, n)
           \/ AppFlush(e) \/ Recv(e) \/ PtrGet(e)
    PROVE  Handshakes(c)'
  <1>1. EndpointOK(arq[e])
    BY DEF Inv
  <1>2. ASSUME NEW n \in SendLens, AppSend(e, n) PROVE Handshakes(c)'
    <2> DEFINE y == ArqSend(arq[e], Stream(e, n))
    <2>1. Unmoved(arq[e], y)
      BY <1>1, <1>2, SendUnmoved DEF AppSend
    <2>2. arq' = [arq EXCEPT ![e] = y] /\ chan' = chan /\ used' = used
      BY <1>2 DEF AppSend
    <2> QED
      BY <2>1, <2>2, UnmovedStep
  <1>3. CASE AppFlush(e)
    <2> DEFINE y == ArqFlush(arq[e])
    <2>1. Unmoved(arq[e], y)
      BY <1>1, FlushUnmoved
    <2>2. arq' = [arq EXCEPT ![e] = y] /\ chan' = chan /\ used' = used
      BY <1>3 DEF AppFlush
    <2> QED
      BY <2>1, <2>2, UnmovedStep
  <1>4. ASSUME NEW max \in RecvMaxs, AppRecv(e, max) PROVE Handshakes(c)'
    <2> DEFINE y == ArqRecv(arq[e], max)
    <2>1. Unmoved(arq[e], y)
      BY <1>1, <1>4, RecvUnmoved DEF AppRecv
    <2>2. arq' = [arq EXCEPT ![e] = y] /\ chan' = chan /\ used' = used
      BY <1>4 DEF AppRecv
    <2> QED
      BY <2>1, <2>2, UnmovedStep
  <1>5. CASE PtrGet(e)
    <2> DEFINE y == SendPtrGet(arq[e])
    <2>1. Unmoved(arq[e], y)
      BY <1>1, PtrGetUnmoved
    <2>2. arq' = [arq EXCEPT ![e] = y] /\ chan' = chan /\ used' = used
      BY <1>5 DEF PtrGet
    <2> QED
      BY <2>1, <2>2, UnmovedStep
  <1> QED
    BY <1>2, <1>3, <1>4, <1>5 DEF Recv

LEMMA ConnectStep ==
    ASSUME Inv, NEW c \in Node, Handshakes(c), NEW e \in Node, Connectors \subseteq {c},
           MaxConnects <= 1, AppConnect(e)
    PROVE  Handshakes(c)'
  <1> DEFINE n == used.connects[c]
             y == ArqConnect(arq[c])
  <1>1. e = c
    BY DEF AppConnect
  <1>2. n \in Nat /\ n < MaxConnects /\ MaxConnects \in Nat
    BY <1>1, BoundsAssumption DEF Inv, UsedType, AppConnect
  <1>3. n = 0
    BY <1>2
  <1>4. used'.connects[c] = n + 1
    BY <1>1 DEF AppConnect, Inv, UsedType
  <1>5. used'.connects[c] # 0
    BY <1>2, <1>4
  <1>6. arq'[c] = y /\ arq'[Peer(c)] = arq[Peer(c)] /\ chan' = chan
    BY <1>1, Ends, ArqFields DEF AppConnect
  <1>7. EndpointOK(arq[c]) /\ CanConnect(arq[c].conn)
    BY <1>1 DEF Inv, AppConnect
  <1> DEFINE n2 == used'.connects[c]
  <1>8. n2 # 0
    BY <1>5
  <1>9. Stage(arq[c], arq[Peer(c)], chan[Peer(c)], chan[c], n)
    BY DEF Handshakes
  <1> HIDE DEF n, y, n2
  <1>10. Stage(y, arq[Peer(c)], chan[Peer(c)], chan[c], n2)
    BY <1>3, <1>7, <1>8, <1>9, StageConnect DEF y
  <1> QED
    BY <1>6, <1>10 DEF Handshakes, n2

LEMMA TransmitStep ==
    ASSUME Inv, NEW c \in Node, Handshakes(c), NEW e \in Node, Transmit(e)
    PROVE  Handshakes(c)'
  <1> DEFINE y == SendPtrRelease(arq[e])
             q == chan[Peer(e)] \o arq[e].send_frame.frame
  <1>1. /\ arq' = [arq EXCEPT ![e] = y] /\ chan' = [chan EXCEPT ![Peer(e)] = q]
        /\ used' = used
    BY DEF Transmit
  <1>2. /\ EndpointOK(arq[e]) /\ arq[e].send_frame.frame # <<>>
        /\ chan[Peer(e)] \in Seq(FrameType)
    BY Ends DEF Inv, EndpointOK, ChanOK, Transmit
  <1>3. /\ arq'[e] = y /\ arq'[Peer(e)] = arq[Peer(e)]
        /\ chan'[Peer(e)] = q /\ chan'[e] = chan[e]
    <2>1. Peer(e) \in Node /\ Peer(Peer(e)) = e
      BY Ends
    <2> HIDE DEF y, q
    <2> QED
      BY <1>1, <2>1, ArqFields, ChanFields
  <1>4. CASE e = c
    <2>1. Stage(y, arq[Peer(c)], q, chan[c], used.connects[c])
      BY <1>2, <1>4, StageTransmitClient DEF Handshakes
    <2> QED
      BY <1>1, <1>3, <1>4, <2>1 DEF Handshakes
  <1>5. CASE e = Peer(c)
    <2>0. Peer(e) = c
      BY <1>5, Ends
    <2>1. Stage(arq[c], y, chan[e], q, used.connects[c])
      BY <1>2, <1>5, <2>0, StageTransmitServer DEF Handshakes
    <2> QED
      BY <1>1, <1>3, <1>5, <2>0, <2>1 DEF Handshakes
  <1> QED
    BY <1>4, <1>5, Ends

LEMMA LoseStep ==
    ASSUME Inv, NEW c \in Node, Handshakes(c), NEW e \in Node, "lose_acks" \notin Env,
           TransmitLost(e)
    PROVE  Handshakes(c)'
  <1> DEFINE y == SendPtrRelease(arq[e])
  <1>1. arq' = [arq EXCEPT ![e] = y] /\ chan' = chan
    BY DEF TransmitLost
  <1>2. EndpointOK(arq[e]) /\ arq[e].send_frame.frame # <<>>
    BY DEF Inv, EndpointOK, TransmitLost
  <1>3. PICK f \in FrameType : arq[e].send_frame.frame = <<f>>
    BY <1>2, FrameBufIs DEF EndpointOK, EndpointType
  <1>4. ~f.hdr.ack
    <2>1. MayLose(f.hdr)
      BY <1>3 DEF TransmitLost
    <2> QED
      BY <2>1 DEF MayLose
  <1>5. used'.connects[c] = used.connects[c]
    BY DEF TransmitLost, Inv, UsedType
  <1>6. arq'[e] = y /\ arq'[Peer(e)] = arq[Peer(e)]
    <2> HIDE DEF y
    <2> QED
      BY <1>1, ArqFields
  <1>7. CASE e = c
    <2>1. Stage(y, arq[Peer(c)], chan[Peer(c)], chan[c], used.connects[c])
      BY <1>2, <1>3, <1>4, <1>7, StageLoseClient DEF Handshakes
    <2> QED
      BY <1>1, <1>5, <1>6, <1>7, <2>1 DEF Handshakes
  <1>8. CASE e = Peer(c)
    <2>0. Peer(e) = c
      BY <1>8, Ends
    <2>1. Stage(arq[c], y, chan[e], chan[c], used.connects[c])
      BY <1>2, <1>3, <1>4, <1>8, StageLoseServer DEF Handshakes
    <2> QED
      BY <1>1, <1>5, <1>6, <1>8, <2>0, <2>1 DEF Handshakes
  <1> QED
    BY <1>7, <1>8, Ends

LEMMA FillStep ==
    ASSUME Inv, NEW c \in Node, Handshakes(c), NEW e \in Node, Fill(e)
    PROVE  Handshakes(c)'
  <1> DEFINE y == RecvFill(arq[e], Head(chan[e]))
             q == Tail(chan[e])
  <1>1. /\ arq' = [arq EXCEPT ![e] = y] /\ chan' = [chan EXCEPT ![e] = q]
        /\ used' = used
    BY DEF Fill, Inv
  <1>2. /\ EndpointOK(arq[e]) /\ arq[e].recv_frame = <<>> /\ chan[e] # <<>>
        /\ chan[e] \in Seq(FrameType)
    BY DEF Inv, ChanOK, Fill
  <1>3. /\ arq'[e] = y /\ arq'[Peer(e)] = arq[Peer(e)]
        /\ chan'[e] = q /\ chan'[Peer(e)] = chan[Peer(e)]
    <2>1. Peer(e) \in Node /\ Peer(Peer(e)) = e
      BY Ends
    <2> HIDE DEF y, q
    <2> QED
      BY <1>1, <2>1, ArqFields, ChanFields
  <1>4. CASE e = c
    <2>1. Stage(y, arq[Peer(c)], chan[Peer(c)], q, used.connects[c])
      BY <1>2, <1>4, StageFillClient DEF Handshakes
    <2> QED
      BY <1>1, <1>3, <1>4, <2>1 DEF Handshakes
  <1>5. CASE e = Peer(c)
    <2>0. Peer(e) = c
      BY <1>5, Ends
    <2>1. Stage(arq[c], y, q, chan[c], used.connects[c])
      BY <1>2, <1>5, StageFillServer DEF Handshakes
    <2> QED
      BY <1>1, <1>3, <1>5, <2>0, <2>1 DEF Handshakes
  <1> QED
    BY <1>4, <1>5, Ends

LEMMA QuietStill ==
    ASSUME NEW c \in Node, Quiet
    PROVE  Still(arq[c], arq[Peer(c)], chan[Peer(c)], chan[c])
  BY Ends DEF Quiet, Still, NoFrames

LEMMA PollStep ==
    ASSUME Inv, NEW c \in Node, Handshakes(c), NEW e \in Node, "early_timeout" \notin Env,
           NEW dt \in Nat, Poll(e, dt)
    PROVE  Handshakes(c)'
  <1> DEFINE y == BackendPoll(arq[e], dt).arq
  <1>1. /\ arq' = [arq EXCEPT ![e] = y] /\ chan' = chan /\ used' = used
        /\ dt = 0 \/ Quiet
    BY DEF Poll, MayTick
  <1>2. EndpointOK(arq[e])
    BY DEF Inv
  <1>3. dt = 0 \/ Still(arq[c], arq[Peer(c)], chan[Peer(c)], chan[c])
    BY <1>1, QuietStill
  <1>4. arq'[e] = y /\ arq'[Peer(e)] = arq[Peer(e)]
    <2> HIDE DEF y
    <2> QED
      BY <1>1, ArqFields
  <1>5. CASE e = c
    <2>1. Stage(y, arq[Peer(c)], chan[Peer(c)], chan[c], used.connects[c])
      BY <1>2, <1>5, StagePollClient DEF Handshakes
    <2> QED
      BY <1>1, <1>4, <1>5, <2>1 DEF Handshakes
  <1>6. CASE e = Peer(c)
    <2>0. Peer(e) = c
      BY <1>6, Ends
    <2>1. Stage(arq[c], y, chan[e], chan[c], used.connects[c])
      BY <1>2, <1>3, <1>6, StagePollServer DEF Handshakes
    <2> QED
      BY <1>1, <1>4, <1>6, <2>0, <2>1 DEF Handshakes
  <1> QED
    BY <1>5, <1>6, Ends

LEMMA PollBothStep ==
    ASSUME Inv, NEW c \in Node, Handshakes(c), NEW dt \in Nat, PollBoth(dt)
    PROVE  Handshakes(c)'
  <1> DEFINE y(e) == BackendPoll(arq[e], dt).arq
  <1>1. /\ arq'[c] = y(c) /\ arq'[Peer(c)] = y(Peer(c))
        /\ chan' = chan /\ used' = used
    BY Ends DEF PollBoth
  <1>2. EndpointOK(arq[c]) /\ EndpointOK(arq[Peer(c)])
    BY Ends DEF Inv
  <1>3. Still(arq[c], arq[Peer(c)], chan[Peer(c)], chan[c])
    BY QuietStill DEF PollBoth
  <1>4. Stage(arq[c], y(Peer(c)), chan[Peer(c)], chan[c], used.connects[c])
    BY <1>2, <1>3, StagePollServer DEF Handshakes
  <1>5. Stage(y(c), y(Peer(c)), chan[Peer(c)], chan[c], used.connects[c])
    BY <1>2, <1>4, StagePollClient
  <1> QED
    BY <1>1, <1>5 DEF Handshakes

LEMMA InitHandshakes ==
    ASSUME Init, NEW c \in Node
    PROVE  Handshakes(c)
  <1> DEFINE a == ArqInit
             b == ArqInit
  <1>1. /\ arq[c] = a /\ arq[Peer(c)] = b /\ chan[c] = <<>> /\ chan[Peer(c)] = <<>>
        /\ used.connects[c] = 0
    BY Ends DEF Init
  <1>2. /\ a.conn = ConnInit /\ a.send_frame.frame = <<>> /\ a.recv_frame = <<>>
        /\ Fresh(a)
    BY DEF ArqInit, Fresh
  <1>3. ConnInit.state = IF UseConnections THEN "CLOSED" ELSE "ESTABLISHED"
    BY DEF ConnInit, ConnRst
  <1>4. NoFrames(a, <<>>, b) /\ NoFrames(b, <<>>, a)
    BY <1>2 DEF NoFrames
  <1>5. AllRsts(a, <<>>, b) /\ AllRstAcks(b, <<>>, a)
    BY <1>2, NoFrame DEF AllRsts, AllRstAcks
  <1>6. Stage(a, b, <<>>, <<>>, 0)
    <2>1. CASE UseConnections
      <3>1. NotAsking(a, b, <<>>, <<>>, 0)
        BY <1>2, <1>3, <1>4, <1>5, <2>1 DEF NotAsking
      <3> QED
        BY <2>1, <3>1 DEF Stage
    <2>2. CASE ~UseConnections
      BY <1>2, <1>3, <2>2 DEF Stage, BothOpen
    <2> QED
      BY <2>1, <2>2
  <1> HIDE DEF a, b
  <1> QED
    BY <1>1, <1>6 DEF Handshakes

(* What the connection needs of the applications, the clocks and the link: one
   end calls arq_connect, once, and neither resets; no acknowledgement is lost
   and no frame damaged; no timer runs out while frames are under way; and
   arq_send waits for the connection. *)
OneConnects(c) ==
    /\ Connectors \subseteq {c}
    /\ MaxConnects <= 1 /\ MaxResets = 0
    /\ Env \cap {"lose_acks", "corrupt", "early_timeout", "send_early"} = {}

LEMMA NextHandshakes ==
    ASSUME NEW c \in Node, OneConnects(c), Inv, Handshakes(c), [Next]_vars
    PROVE  Handshakes(c)'
  <1>1. /\ Connectors \subseteq {c} /\ MaxConnects <= 1 /\ MaxResets = 0
        /\ "lose_acks" \notin Env /\ "corrupt" \notin Env
        /\ "early_timeout" \notin Env /\ "send_early" \notin Env
    BY DEF OneConnects
  <1>2. CASE UNCHANGED vars
    BY <1>2 DEF vars, Handshakes
  <1>3. ASSUME NEW dt \in Dts \ {0}, PollBoth(dt) PROVE Handshakes(c)'
    <2>1. dt \in Nat
      BY ArgumentsAssumption
    <2> QED
      BY <1>3, <2>1, PollBothStep
  <1>4. ASSUME NEW e \in Node, NEW n \in SendLens, AppSend(e, n) PROVE Handshakes(c)'
    BY <1>1, <1>4, UnmovedSteps
  <1>5. ASSUME NEW e \in Node, AppFlush(e) \/ Recv(e) \/ PtrGet(e) PROVE Handshakes(c)'
    BY <1>1, <1>5, UnmovedSteps
  <1>6. ASSUME NEW e \in Node, AppConnect(e) PROVE Handshakes(c)'
    BY <1>1, <1>6, ConnectStep
  <1>7. ASSUME NEW e \in Node PROVE ~AppReset(e)
    <2>1. used.resets \in Nat
      BY DEF Inv, UsedType
    <2> QED
      BY <1>1, <2>1 DEF AppReset
  <1>8. ASSUME NEW e \in Node, NEW dt \in (Dts \ {0}) \cup {0}, Poll(e, dt)
        PROVE  Handshakes(c)'
    <2>1. dt \in Nat
      BY ArgumentsAssumption
    <2> QED
      BY <1>1, <1>8, <2>1, PollStep
  <1>9. ASSUME NEW e \in Node, Transmit(e) PROVE Handshakes(c)'
    BY <1>9, TransmitStep
  <1>10. ASSUME NEW e \in Node, TransmitLost(e) PROVE Handshakes(c)'
    BY <1>1, <1>10, LoseStep
  <1>11. ASSUME NEW e \in Node PROVE ~Corrupt(e)
    BY <1>1 DEF Corrupt
  <1>12. ASSUME NEW e \in Node, Fill(e) PROVE Handshakes(c)'
    BY <1>12, FillStep
  <1>13. ASSUME Tick PROVE Handshakes(c)'
    BY <1>3, <1>13 DEF Tick
  <1>14. ASSUME NEW e \in Node, Skew(e) \/ Poll(e, 0) PROVE Handshakes(c)'
    BY <1>8, <1>14 DEF Skew
  <1> QED
    BY <1>2, <1>4, <1>5, <1>6, <1>7, <1>9, <1>10, <1>11, <1>12, <1>13, <1>14 DEF Next

LEMMA HandshakesOpen ==
    ASSUME NEW c \in Node, Handshakes(c)
    PROVE  NoHalfOpen
  <1> DEFINE a == arq[c].conn
             b == arq[Peer(c)].conn
  <1>1. \/ a.state = "ESTABLISHED" /\ b.state = "ESTABLISHED"
        \/ a.state # "ESTABLISHED" /\ b.state # "ESTABLISHED"
        \/ a.state = "ESTABLISHED" /\ b.state = "RST_RECVD" /\ b.rst_ack
    BY DEF Handshakes, Stage, BothOpen, NotAsking, Asking, Answered, Answering, Waits
  <1>2. /\ Peer(c) \in Node /\ Peer(Peer(c)) = c
        /\ \A e \in Node : e = c \/ e = Peer(c)
    BY Ends
  <1>3. ASSUME NEW e \in Node, State(e) = "ESTABLISHED"
        PROVE  LET d == arq[Peer(e)].conn
               IN d.state = "ESTABLISHED" \/ (d.state = "RST_RECVD" /\ d.rst_ack)
    BY <1>1, <1>2, <1>3 DEF State
  <1> QED
    BY <1>3 DEF NoHalfOpen

(* NoHalfOpen: the state callbacks never leave an end connected to one that is
   not and will not be.  arq__conn_poll_state_rst_sent connects only on the
   RST/ACK of an end that still waits, and its ACK gets there before that end's
   timer runs out, with nothing but repeated RSTs in front of it.  RSTs and data
   may be lost, time may pass at one end alone while nothing is under way, and
   polls, sends, reads and frames may come in any order. *)
THEOREM NoHalfOpenCorrect ==
    ASSUME NEW c \in Node, OneConnects(c)
    PROVE  Spec => []NoHalfOpen
  <1>1. Init => Handshakes(c)
    BY InitHandshakes
  <1>2. Inv /\ Handshakes(c) /\ [Next]_vars => Handshakes(c)'
    BY NextHandshakes
  <1>3. Handshakes(c) => NoHalfOpen
    BY HandshakesOpen
  <1> QED
    BY <1>1, <1>2, <1>3, InvCorrect, PTL DEF Spec
----------------------------------------------------------------------------
(* Data: frames under way *)

(* The frames on their way from x to y, the next one to arrive first. *)
Path(x, link, y) == y.recv_frame \o link \o x.send_frame.frame

(* The message that a frame carries, and the one it acknowledges. *)
SegOf(f) == IF f.hdr.seg THEN {f.hdr.seq_num} ELSE {}

AcksOf(f) == HeardNos(f.hdr)

SegNos(p) == UNION {SegOf(f) : f \in Range(p)}

AckNos(p) == UNION {AcksOf(f) : f \in Range(p)}

(* No segment is under way twice. *)
Once(p) == \A i, j \in 1..Len(p) : SegOf(p[i]) \cap SegOf(p[j]) # {} => i = j

(* The bytes of message n. *)
MsgBytes(st, n) == [k \in 1..LenOf(st, n) |-> st[n] + k]

(* A frame with a segment has all of its message, one with an acknowledgement
   acknowledges all of a message. *)
SegFrame(st, f) ==
    /\ f.ok
    /\ f.hdr.seg => /\ f.hdr.seg_id = 0 /\ f.hdr.msg_len = 1
                    /\ f.data = MsgBytes(st, f.hdr.seq_num)

AckFrame(f) == f.hdr.ack => f.hdr.cur_ack_vec = {0}

SegFrames(st, p) == \A f \in Range(p) : SegFrame(st, f)

AckFrames(p) == \A f \in Range(p) : AckFrame(f)

LEMMA NoPath ==
    /\ SegNos(<<>>) = {} /\ AckNos(<<>>) = {} /\ Once(<<>>)
    /\ AckFrames(<<>>) /\ \A st : SegFrames(st, <<>>)
  <1>1. Range(<<>>) = {} /\ 1..Len(<<>>) = {}
    BY DEF Range
  <1> QED
    BY <1>1 DEF SegNos, AckNos, Once, SegFrames, AckFrames

(* A path q with the frames of p and one more, f. *)
OneMore(p, f, q) ==
    /\ SegNos(q) = SegNos(p) \cup SegOf(f)
    /\ AckNos(q) = AckNos(p) \cup AcksOf(f)
    /\ Once(q) <=> Once(p) /\ SegOf(f) \cap SegNos(p) = {}
    /\ \A st : SegFrames(st, q) <=> SegFrames(st, p) /\ SegFrame(st, f)
    /\ AckFrames(q) <=> AckFrames(p) /\ AckFrame(f)

(* Frame i of p is frame pos[i] of q, and f is the one at at. *)
Inserts(p, f, q, m, at, pos) ==
    /\ m \in Nat /\ m = Len(p) /\ Len(q) = m + 1
    /\ Range(p) = {p[i] : i \in 1..m} /\ Range(q) = Range(p) \cup {f}
    /\ at \in 1..(m + 1) /\ q[at] = f
    /\ \A i \in 1..m : pos[i] \in 1..(m + 1) /\ q[pos[i]] = p[i] /\ pos[i] # at
    /\ \A i, j \in 1..m : pos[i] = pos[j] => i = j
    /\ \A k \in 1..(m + 1) : k = at \/ \E i \in 1..m : pos[i] = k

LEMMA OneMoreFrame ==
    ASSUME NEW p, NEW f, NEW q, NEW m, NEW at, NEW pos, Inserts(p, f, q, m, at, pos)
    PROVE  OneMore(p, f, q)
  <1>0. /\ m \in Nat /\ m = Len(p) /\ Len(q) = m + 1
        /\ Range(p) = {p[i] : i \in 1..m} /\ Range(q) = Range(p) \cup {f}
        /\ at \in 1..(m + 1) /\ q[at] = f
        /\ \A i \in 1..m : pos[i] \in 1..(m + 1) /\ q[pos[i]] = p[i] /\ pos[i] # at
        /\ \A i, j \in 1..m : pos[i] = pos[j] => i = j
        /\ \A k \in 1..(m + 1) : k = at \/ \E i \in 1..m : pos[i] = k
    BY DEF Inserts
  <1>1. SegNos(q) = SegNos(p) \cup SegOf(f)
    BY <1>0 DEF SegNos
  <1>2. AckNos(q) = AckNos(p) \cup AcksOf(f)
    BY <1>0 DEF AckNos
  <1>3. \A st : SegFrames(st, q) <=> SegFrames(st, p) /\ SegFrame(st, f)
    BY <1>0 DEF SegFrames
  <1>4. AckFrames(q) <=> AckFrames(p) /\ AckFrame(f)
    BY <1>0 DEF AckFrames
  <1>5. SegOf(f) \cap SegNos(p) = {} <=> \A i \in 1..m : SegOf(p[i]) \cap SegOf(f) = {}
    BY <1>0 DEF SegNos
  <1>6. Once(p) <=> \A i, j \in 1..m : SegOf(p[i]) \cap SegOf(p[j]) # {} => i = j
    BY <1>0 DEF Once
  <1>7. Once(q) <=> \A i, j \in 1..(m + 1) : SegOf(q[i]) \cap SegOf(q[j]) # {} => i = j
    BY <1>0 DEF Once
  <1>8. ASSUME Once(q) PROVE Once(p) /\ \A i \in 1..m : SegOf(p[i]) \cap SegOf(f) = {}
    <2>1. \A i, j \in 1..(m + 1) : SegOf(q[i]) \cap SegOf(q[j]) # {} => i = j
      BY <1>7, <1>8
    <2>2. \A i \in 1..m : pos[i] \in 1..(m + 1)
      BY <1>0
    <2>3. ASSUME NEW i \in 1..m, NEW j \in 1..m, SegOf(p[i]) \cap SegOf(p[j]) # {}
          PROVE  i = j
      <3>1. SegOf(q[pos[i]]) \cap SegOf(q[pos[j]]) # {}
        BY <1>0, <2>3
      <3>2. pos[i] = pos[j]
        BY <2>1, <2>2, <3>1
      <3> QED
        BY <1>0, <3>2
    <2>4. ASSUME NEW i \in 1..m PROVE SegOf(p[i]) \cap SegOf(f) = {}
      <3>1. pos[i] # at /\ q[pos[i]] = p[i]
        BY <1>0
      <3>2. SegOf(q[pos[i]]) \cap SegOf(q[at]) = {}
        BY <1>0, <2>1, <2>2, <3>1
      <3> QED
        BY <1>0, <3>1, <3>2
    <2> QED
      BY <1>6, <2>3, <2>4
  <1>9. ASSUME Once(p), \A i \in 1..m : SegOf(p[i]) \cap SegOf(f) = {} PROVE Once(q)
    <2> SUFFICES ASSUME NEW k \in 1..(m + 1), NEW l \in 1..(m + 1),
                        SegOf(q[k]) \cap SegOf(q[l]) # {}
                 PROVE  k = l
      BY <1>7
    <2>1. CASE k = at /\ l = at
      BY <2>1
    <2>2. CASE k = at /\ l # at
      <3>1. PICK i \in 1..m : pos[i] = l
        BY <1>0, <2>2
      <3>2. q[l] = p[i] /\ q[k] = f
        BY <1>0, <2>2, <3>1
      <3> QED
        BY <1>9, <3>2
    <2>3. CASE k # at /\ l = at
      <3>1. PICK i \in 1..m : pos[i] = k
        BY <1>0, <2>3
      <3>2. q[k] = p[i] /\ q[l] = f
        BY <1>0, <2>3, <3>1
      <3> QED
        BY <1>9, <3>2
    <2>4. CASE k # at /\ l # at
      <3>1. PICK i \in 1..m : pos[i] = k
        BY <1>0, <2>4
      <3>2. PICK j \in 1..m : pos[j] = l
        BY <1>0, <2>4
      <3>3. SegOf(p[i]) \cap SegOf(p[j]) # {}
        BY <1>0, <3>1, <3>2
      <3>4. i = j
        BY <1>6, <1>9, <3>3
      <3> QED
        BY <3>1, <3>2, <3>4
    <2> QED
      BY <2>1, <2>2, <2>3, <2>4
  <1> QED
    BY <1>1, <1>2, <1>3, <1>4, <1>5, <1>8, <1>9 DEF OneMore

(* A frame joins a path at its end, or is the first of it. *)
LEMMA LastFrame ==
    ASSUME NEW p \in Seq(FrameType), NEW f \in FrameType
    PROVE  OneMore(p, f, p \o <<f>>) /\ p \o <<f>> \in Seq(FrameType)
  <1> DEFINE m   == Len(p)
             q   == p \o <<f>>
             pos == [i \in 1..m |-> i]
  <1>1. /\ q \in Seq(FrameType) /\ Len(q) = m + 1 /\ m \in Nat
        /\ q[m + 1] = f /\ \A i \in 1..m : q[i] = p[i]
    OBVIOUS
  <1>2. Range(p) = {p[i] : i \in 1..m}
    BY DEF Range
  <1>3. Range(q) = {q[i] : i \in 1..(m + 1)}
    BY <1>1 DEF Range
  <1> HIDE DEF m, q
  <1>4. 1..(m + 1) = 1..m \cup {m + 1} /\ m + 1 \notin 1..m /\ m + 1 \in 1..(m + 1)
    BY <1>1
  <1>5. Range(q) = Range(p) \cup {f}
    BY <1>1, <1>2, <1>3, <1>4
  <1>6. /\ pos \in [1..m -> 1..(m + 1)]
        /\ \A i \in 1..m : pos[i] = i
    BY <1>4
  <1> HIDE DEF pos
  <1>7. /\ \A i \in 1..m : q[pos[i]] = p[i] /\ pos[i] # m + 1
        /\ \A i, j \in 1..m : pos[i] = pos[j] => i = j
        /\ \A k \in 1..(m + 1) : k = m + 1 \/ \E i \in 1..m : pos[i] = k
    BY <1>1, <1>4, <1>6
  <1>8. m = Len(p) /\ m \in Nat /\ Len(q) = m + 1 /\ q[m + 1] = f
    BY <1>1 DEF m
  <1>9. OneMore(p, f, q)
    <2>1. Inserts(p, f, q, m, m + 1, pos)
      BY ONLY <1>2, <1>4, <1>5, <1>6, <1>7, <1>8 DEF Inserts
    <2> QED
      BY <2>1, OneMoreFrame
  <1> QED
    BY <1>1, <1>9 DEF q

LEMMA FirstFrame ==
    ASSUME NEW p \in Seq(FrameType), NEW f \in FrameType
    PROVE  OneMore(p, f, <<f>> \o p)
  <1> DEFINE m   == Len(p)
             q   == <<f>> \o p
             pos == [i \in 1..m |-> i + 1]
  <1>1. /\ q \in Seq(FrameType) /\ Len(q) = m + 1 /\ m \in Nat
        /\ q[1] = f /\ \A i \in 1..m : q[i + 1] = p[i]
    OBVIOUS
  <1>2. Range(p) = {p[i] : i \in 1..m}
    BY DEF Range
  <1>3. Range(q) = {q[i] : i \in 1..(m + 1)}
    BY <1>1 DEF Range
  <1> HIDE DEF m, q
  <1>4. /\ \A i \in 1..m : i + 1 \in 1..(m + 1) /\ i + 1 # 1
        /\ 1 \in 1..(m + 1) /\ \A i, j \in 1..m : i + 1 = j + 1 => i = j
    BY <1>1
  <1>5. ASSUME NEW k \in 1..(m + 1), k # 1 PROVE \E i \in 1..m : i + 1 = k
    <2>1. k - 1 \in 1..m /\ (k - 1) + 1 = k
      BY <1>1, <1>5
    <2> QED
      BY <2>1
  <1>6. Range(q) = Range(p) \cup {f}
    <2>1. \A x : x \in Range(q) <=> \E k \in 1..(m + 1) : x = q[k]
      BY <1>3
    <2>2. \A x : x \in Range(p) <=> \E i \in 1..m : x = p[i]
      BY <1>2
    <2>3. ASSUME NEW x \in Range(q) PROVE x \in Range(p) \cup {f}
      <3>1. PICK k \in 1..(m + 1) : x = q[k]
        BY <2>1
      <3>2. CASE k = 1
        BY <1>1, <3>1, <3>2
      <3>3. CASE k # 1
        <4>1. PICK i \in 1..m : i + 1 = k
          BY <1>5, <3>3
        <4> QED
          BY <1>1, <2>2, <3>1, <4>1
      <3> QED
        BY <3>2, <3>3
    <2>4. ASSUME NEW x \in Range(p) PROVE x \in Range(q)
      <3>1. PICK i \in 1..m : x = p[i]
        BY <2>2
      <3>2. x = q[i + 1] /\ i + 1 \in 1..(m + 1)
        BY <1>1, <1>4, <3>1
      <3> QED
        BY <2>1, <3>2
    <2>5. f \in Range(q)
      BY <1>1, <1>4, <2>1
    <2> QED
      BY <2>3, <2>4, <2>5
  <1>7. /\ pos \in [1..m -> 1..(m + 1)]
        /\ \A i \in 1..m : pos[i] = i + 1
    BY <1>4
  <1> HIDE DEF pos
  <1>8. /\ \A i \in 1..m : q[pos[i]] = p[i] /\ pos[i] # 1
        /\ \A i, j \in 1..m : pos[i] = pos[j] => i = j
        /\ \A k \in 1..(m + 1) : k = 1 \/ \E i \in 1..m : pos[i] = k
    <2>1. \A i \in 1..m : q[pos[i]] = p[i] /\ pos[i] # 1
      BY <1>1, <1>4, <1>7
    <2>2. \A i, j \in 1..m : pos[i] = pos[j] => i = j
      BY <1>4, <1>7
    <2>3. \A k \in 1..(m + 1) : k = 1 \/ \E i \in 1..m : pos[i] = k
      BY <1>5, <1>7
    <2> QED
      BY <2>1, <2>2, <2>3
  <1>9. m = Len(p) /\ m \in Nat /\ Len(q) = m + 1 /\ q[1] = f
    BY <1>1 DEF m
  <1>10. Inserts(p, f, q, m, 1, pos)
    BY ONLY <1>2, <1>4, <1>6, <1>7, <1>8, <1>9 DEF Inserts
  <1>11. OneMore(p, f, q)
    BY <1>10, OneMoreFrame
  <1> QED
    BY <1>11 DEF q

LEMMA FrameBufs ==
    ASSUME NEW x, EndpointOK(x)
    PROVE  /\ x.send_frame.frame \in FrameBufType /\ x.recv_frame \in FrameBufType
           /\ x.send_frame.frame \in Seq(FrameType) /\ x.recv_frame \in Seq(FrameType)
           /\ \A b \in {x.send_frame.frame, x.recv_frame} :
                 b # <<>> => Head(b) \in FrameType /\ b = <<Head(b)>>
  <1>1. x.send_frame.frame \in FrameBufType /\ x.recv_frame \in FrameBufType
    BY DEF EndpointOK, EndpointType
  <1>2. \A b \in FrameBufType : /\ b \in Seq(FrameType)
                                /\ b # <<>> => Head(b) \in FrameType /\ b = <<Head(b)>>
    <2> SUFFICES ASSUME NEW b \in FrameBufType
                 PROVE  /\ b \in Seq(FrameType)
                        /\ b # <<>> => Head(b) \in FrameType /\ b = <<Head(b)>>
      OBVIOUS
    <2>1. CASE b = <<>>
      BY <2>1
    <2>2. ASSUME NEW f \in FrameType, b = <<f>>
          PROVE  b \in Seq(FrameType) /\ Head(b) \in FrameType /\ b = <<Head(b)>>
      BY <2>2
    <2> QED
      BY <2>1, <2>2, FrameBufIs
  <1> QED
    BY <1>1, <1>2

LEMMA PathType ==
    ASSUME NEW x, EndpointOK(x), NEW y, EndpointOK(y), NEW link \in Seq(FrameType)
    PROVE  Path(x, link, y) \in Seq(FrameType)
  BY FrameBufs DEF Path

LEMMA ThreeParts ==
    ASSUME NEW a \in Seq(FrameType), NEW b \in Seq(FrameType), NEW c \in Seq(FrameType)
    PROVE  /\ a \o (b \o c) \o <<>> = (a \o b) \o c
           /\ a \o b \o <<>> = a \o b
           /\ b # <<>> => (<<>> \o b) \o c = (<<Head(b)>> \o Tail(b)) \o c
           /\ (a \o b) \o c = a \o (b \o c)
           /\ <<>> \o a = a
  OBVIOUS

(* A frame that is put on the link is still on its way, and so is one taken from it. *)
LEMMA PathTransmit ==
    ASSUME NEW x, EndpointOK(x), NEW y, EndpointOK(y), NEW link \in Seq(FrameType),
           NEW x2, x2.send_frame.frame = <<>>
    PROVE  Path(x2, link \o x.send_frame.frame, y) = Path(x, link, y)
  <1> DEFINE a == y.recv_frame
             c == x.send_frame.frame
  <1>1. a \in Seq(FrameType) /\ c \in Seq(FrameType)
    BY FrameBufs
  <1> HIDE DEF a, c
  <1>2. a \o (link \o c) \o <<>> = (a \o link) \o c
    BY <1>1, ThreeParts
  <1> QED
    BY <1>2 DEF Path, a, c

LEMMA PathFill ==
    ASSUME NEW x, EndpointOK(x), NEW y, EndpointOK(y), NEW link \in Seq(FrameType),
           link # <<>>, y.recv_frame = <<>>, NEW y2, y2.recv_frame = <<Head(link)>>
    PROVE  Path(x, Tail(link), y2) = Path(x, link, y)
  <1> DEFINE c == x.send_frame.frame
  <1>1. c \in Seq(FrameType)
    BY FrameBufs
  <1> HIDE DEF c
  <1>2. (<<>> \o link) \o c = (<<Head(link)>> \o Tail(link)) \o c
    BY <1>1, ThreeParts
  <1> QED
    BY <1>2 DEF Path, c

(* The path ends with the frame that waits to be sent and begins with the one received. *)
LEMMA PathEnds ==
    ASSUME NEW x, EndpointOK(x), NEW y, EndpointOK(y), NEW link \in Seq(FrameType)
    PROVE  /\ \A x2 : x2.send_frame.frame = <<>> =>
                  Path(x, link, y) = Path(x2, link, y) \o x.send_frame.frame
           /\ \A y2 : y2.recv_frame = <<>> =>
                  Path(x, link, y) = y.recv_frame \o Path(x, link, y2)
  <1> DEFINE a == y.recv_frame
             c == x.send_frame.frame
  <1>1. a \in Seq(FrameType) /\ c \in Seq(FrameType)
    BY FrameBufs
  <1> HIDE DEF a, c
  <1>2. (a \o link) \o c = ((a \o link) \o <<>>) \o c
    BY <1>1
  <1>3. (a \o link) \o c = a \o ((<<>> \o link) \o c)
    BY <1>1
  <1> QED
    BY <1>2, <1>3 DEF Path, a, c
----------------------------------------------------------------------------
(* Data: one direction of the link *)

(* What sender and receiver know of each other: A are the messages acknowledged
   to the sender, G those that the receiver has, D those it owes an
   acknowledgement for, C the first that may not be sent yet, F the messages and K
   the acknowledgements under way, and Z what the sender may send next: nothing
   that the receiver has or that is under way. *)
Exchange(A, G, D, C, F, K, Z) ==
    /\ A \subseteq G /\ G \subseteq 0..(C - 1) /\ F \subseteq 0..(C - 1)
    /\ F \cap G = {}
    /\ G \ A \subseteq D \cup K /\ K \subseteq G
    /\ Z \cap (F \cup G) = {}

(* The message that the pointer stands at is in the frame that waits to be sent,
   or that frame was just given back and its acknowledgement is not here. *)
PtrFrame(x) ==
    x.send_wnd_ptr.valid =>
        \/ /\ x.send_frame.frame # <<>>
           /\ x.send_wnd_ptr.seq \in SegOf(Head(x.send_frame.frame))
        \/ /\ x.send_frame.frame = <<>> /\ x.need_poll
           /\ x.send_wnd_ptr.seq \notin AckNos(x.recv_frame)

Knows(x, up, y, down) ==
    Exchange(AckedNos(x.send_wnd), GotNos(y.recv_wnd), DueNos(y.recv_wnd), Closed(x.send_wnd),
             SegNos(Path(x, up, y)), AckNos(Path(y, down, x)),
             Resendable(x.send_wnd, x.send_wnd_ptr))

(* What may send, and what was sent. *)
Source(st, x, s) ==
    /\ OneSegWnd(x.send_wnd) /\ Starts(st, x.send_wnd, s) /\ Content(x.send_wnd, s)
    /\ PtrOK(x.send_wnd, x.send_wnd_ptr)

(* x has taken s bytes, which start a message at each st[n]; y was read up to r;
   up is the link from x to y and down the one back. *)
Flow(st, x, up, y, down, s, r) ==
    /\ Source(st, x, s) /\ PtrFrame(x)
    /\ OneSegRecv(st, y.recv_wnd, r)
    /\ SegFrames(st, Path(x, up, y)) /\ Once(Path(x, up, y)) /\ AckFrames(Path(y, down, x))
    /\ Knows(x, up, y, down)

LEMMA SourceType ==
    ASSUME NEW st, NEW x, NEW s, Source(st, x, s)
    PROVE  st \in [Nat -> Nat]
  BY DEF Source, Starts

(* What a poll makes of an endpoint without connections: r and z are what
   arq__recv_poll and arq__send_poll return. *)
DataPolled(x, x2, psh, r, z) ==
    /\ x2.recv_wnd = r.rw /\ x2.recv_frame = <<>> /\ x2.send_wnd = z.sw
    /\ x2.send_wnd_ptr = z.sp /\ x2.need_poll = FALSE
    /\ x2.send_frame.frame =
          IF psh /\ (r.sh.ack \/ z.sh.seg)
          THEN <<FrameWrite(z.sh, IF z.sh.seg THEN WndSeg(z.sw, z.sh.seq_num, z.sh.seg_id)
                                  ELSE <<>>)>>
          ELSE x.send_frame.frame
    /\ r.rh = Heard(x.recv_frame) /\ CanAck(r.rh)
    /\ ~r.sh.seg /\ r.sh \in FrameHdrType /\ z.sh \in FrameHdrType

LEMMA DataPoll ==
    ASSUME ~UseConnections, NEW x, EndpointOK(x), NEW dt \in Nat
    PROVE  LET psh == SendFrameFree(x)
               r   == RecvPoll(x.recv_wnd, x.recv_frame, psh, FrameHdrInit, dt)
               z   == SendPoll(x.send_wnd, x.send_wnd_ptr, psh, r.sh, r.rh, dt)
           IN DataPolled(x, BackendPoll(x, dt).arq, psh, r, z)
  <1> DEFINE psh == SendFrameFree(x)
             r0 == RecvPoll(x.recv_wnd, x.recv_frame, psh, FrameHdrInit, dt)
             z0 == SendPoll(x.send_wnd, x.send_wnd_ptr, psh, r0.sh, r0.rh, dt)
             c == ConnPoll(x.conn, psh, z0.sh, r0.rh, dt)
             emit == psh /\ (r0.sh.ack \/ z0.sh.seg \/ c.emit)
             data == IF c.sh.seg THEN WndSeg(z0.sw, c.sh.seq_num, c.sh.seg_id) ELSE <<>>
             b == BackendPoll(x, dt).arq
  <1>1. c.sh = z0.sh /\ c.emit = FALSE
    BY SMTT(30) DEF ConnPoll, Outcome
  <1>2. /\ b.recv_wnd = r0.rw /\ b.recv_frame = <<>> /\ b.send_wnd = z0.sw
        /\ b.send_wnd_ptr = z0.sp /\ b.need_poll = FALSE
        /\ b.send_frame.frame = IF emit THEN <<FrameWrite(c.sh, data)>> ELSE x.send_frame.frame
    BY PollFields
  <1>3. ~r0.sh.seg /\ r0.rh \in FrameHdrType /\ r0.sh \in FrameHdrType /\ z0.sh \in FrameHdrType
    BY BackendPollParts
  <1>4. r0.rh = Heard(x.recv_frame)
    <2>1. \A w, p, sh, rh : RecvAckPoll(w, p, sh, rh).rh = rh
      BY DEF RecvAckPoll
    <2> DEFINE rf    == x.recv_frame
               rh    == Heard(rf)
               taken == IF rh.seg /\ Head(rf).ok
                        THEN RecvWndFrame(x.recv_wnd, rh.seq_num, rh.seg_id, rh.msg_len, Head(rf).data)
                        ELSE x.recv_wnd
    <2>2. r0 = RecvAckPoll(RecvTimer(taken, dt), psh, FrameHdrInit, rh)
      BY DEF RecvPoll, Heard
    <2> HIDE DEF r0, taken
    <2> QED
      BY <2>1, <2>2
  <1> HIDE DEF psh, r0, z0, c, b
  <1>6. emit <=> psh /\ (r0.sh.ack \/ z0.sh.seg)
    BY <1>1
  <1>7. data = IF z0.sh.seg THEN WndSeg(z0.sw, z0.sh.seq_num, z0.sh.seg_id) ELSE <<>>
    BY <1>1
  <1>8. CanAck(r0.rh)
    BY <1>3 DEF CanAck, FrameHdrType
  <1> HIDE DEF emit, data
  <1>9. DataPolled(x, b, psh, r0, z0)
    BY <1>1, <1>2, <1>3, <1>4, <1>6, <1>7, <1>8 DEF DataPolled
  <1> QED
    BY <1>9 DEF b, psh, r0, z0

(* The frame that a poll takes leaves the path, its acknowledgement is heard. *)
LEMMA FrameHeard ==
    ASSUME NEW x, EndpointOK(x), NEW y, EndpointOK(y), NEW link \in Seq(FrameType),
           NEW y2, EndpointOK(y2), y2.recv_frame = <<>>
    PROVE  /\ AckNos(Path(x, link, y)) = AckNos(Path(x, link, y2)) \cup HeardNos(Heard(y.recv_frame))
           /\ SegNos(Path(x, link, y)) = SegNos(Path(x, link, y2)) \cup Brought(y.recv_frame)
           /\ Once(Path(x, link, y)) =>
                 /\ Once(Path(x, link, y2))
                 /\ Brought(y.recv_frame) \cap SegNos(Path(x, link, y2)) = {}
           /\ AckFrames(Path(x, link, y)) =>
                 /\ AckFrames(Path(x, link, y2))
                 /\ Heard(y.recv_frame).ack => Heard(y.recv_frame).cur_ack_vec = {0}
           /\ \A st : SegFrames(st, Path(x, link, y)) =>
                 /\ SegFrames(st, Path(x, link, y2))
                 /\ y.recv_frame # <<>> => SegFrame(st, Head(y.recv_frame))
  <1> DEFINE rf == y.recv_frame
             p  == Path(x, link, y2)
             q  == Path(x, link, y)
  <1>1. q = rf \o p
    BY PathEnds
  <1>2. p \in Seq(FrameType)
    BY PathType
  <1>3. rf # <<>> => Head(rf) \in FrameType /\ rf = <<Head(rf)>>
    BY FrameBufs
  <1> HIDE DEF p, q, rf
  <1>4. CASE rf = <<>>
    <2>1. q = p
      BY <1>1, <1>2, <1>4
    <2>2. HeardNos(Heard(rf)) = {} /\ Brought(rf) = {} /\ ~Heard(rf).ack
      BY <1>4 DEF HeardNos, Heard, Brought, FrameHdrInit
    <2> QED
      BY <1>4, <2>1, <2>2 DEF p, q, rf
  <1>5. CASE rf # <<>>
    <2> DEFINE f == Head(rf)
    <2>1. OneMore(p, f, q)
      BY <1>1, <1>2, <1>3, <1>5, FirstFrame
    <2>2. AcksOf(f) = HeardNos(Heard(rf)) /\ SegOf(f) = Brought(rf)
      BY <1>5 DEF AcksOf, SegOf, Brought, Heard
    <2>3. Heard(rf) = f.hdr
      BY <1>5 DEF Heard
    <2>4. AckFrame(f) => (Heard(rf).ack => Heard(rf).cur_ack_vec = {0})
      BY <2>3 DEF AckFrame
    <2> HIDE DEF f
    <2>5. f = Head(rf)
      BY DEF f
    <2> QED
      BY <2>1, <2>2, <2>4, <2>5 DEF OneMore, p, q, rf
  <1> QED
    BY <1>4, <1>5

(* The segment that arq__frame_write takes from the window is the message. *)
LEMMA SegmentData ==
    ASSUME OneSegment, NEW w, OneSegWnd(w), NEW st, NEW s, Starts(st, w, s), Content(w, s),
           NEW n \in w.seq..(SendEnd(w) - 1)
    PROVE  WndSeg(w, n, 0) = MsgBytes(st, n)
  <1> DEFINE l == LenOf(st, n)
  <1>0. MsgLen = SegLen /\ MsgLen \in Nat \ {0} /\ SegLen * 0 = 0
    BY OneSegFacts, SegLenAssumption
  <1>1. l = MsgNo(w, n).len /\ n \in 0..(SendEnd(w) - 1) /\ n \in Nat
    BY EndFacts DEF Starts
  <1>2. l \in 1..MsgLen /\ l \in Nat
    BY <1>0, <1>1 DEF Starts
  <1>3. \A j \in 0..(l - 1) : w.buf[MsgLen * SendSlot(n) + j] = st[n] + j + 1
    BY BytesInSlot
  <1>4. SendSlot(n) \in Nat /\ MsgLen * SendSlot(n) \in Nat
    <2>1. SendSlot(n) \in SendIdx
      BY <1>1, SendSlotType
    <2>2. SendSlot(n) \in Nat
      BY <2>1, SendCapAssumption DEF SendIdx
    <2> QED
      BY <1>0, <2>2
  <1>5. st[n] \in Nat
    BY <1>1 DEF Starts
  <1> HIDE DEF l
  <1>6. WndSegLen(w, n, 0) = l
    <2>1. w.msg[n % SendCap].len - SegLen * 0 = l
      BY <1>0, <1>1, <1>2 DEF MsgNo, SendSlot
    <2> QED
      BY <1>0, <1>2, <2>1 DEF WndSegLen
  <1>7. WndSeg(w, n, 0) = [k \in 1..l |-> w.buf[MsgLen * SendSlot(n) + SegLen * 0 + k - 1]]
    BY <1>6 DEF WndSeg, SendSlot
  <1>8. ASSUME NEW k \in 1..l
        PROVE  w.buf[MsgLen * SendSlot(n) + SegLen * 0 + k - 1] = st[n] + k
    <2>1. k - 1 \in 0..(l - 1) /\ k \in Nat
      BY <1>2
    <2>2. w.buf[MsgLen * SendSlot(n) + (k - 1)] = st[n] + (k - 1) + 1
      BY <1>3, <2>1
    <2>3. MsgLen * SendSlot(n) + (k - 1) = MsgLen * SendSlot(n) + SegLen * 0 + k - 1
      BY <1>0, <1>4, <2>1
    <2>4. st[n] + (k - 1) + 1 = st[n] + k
      BY <1>5, <2>1
    <2> QED
      BY <2>2, <2>3, <2>4
  <1> QED
    BY <1>7, <1>8 DEF l, MsgBytes

(* What a poll may send is nothing that the receiver has or that is under way. *)
LEMMA NextIsNew ==
    ASSUME NEW w, OneSegWnd(w), NEW p, NEW w2, OneSegWnd(w2), NEW dt \in Nat,
           NEW G, NEW D, NEW F, NEW K,
           Exchange(AckedNos(w), G, D, Closed(w), F, K, Resendable(w, p)),
           AckedNos(w) \subseteq AckedNos(w2),
           dt > 0 => F = {} /\ D = {} /\ K = {}
    PROVE  /\ NextToSend(w, p, w2, dt) \cap (F \cup G) = {}
           /\ NextToSend(w, p, w2, dt) \subseteq 0..(Closed(w2) - 1)
  <1> DEFINE N == NextToSend(w, p, w2, dt)
  <1>1. ASSUME NEW n \in N PROVE n \notin F \cup G /\ n \in 0..(Closed(w2) - 1)
    <2>1. n \in OpenNos(w2) /\ (dt = 0 /\ n < Closed(w) => n \in Resendable(w, p))
      BY DEF NextToSend
    <2>2. n \in 0..(Closed(w2) - 1) /\ n \notin AckedNos(w2) /\ n \in Nat
      BY <2>1, EndFacts DEF OpenNos
    <2>3. CASE dt > 0
      BY <2>2, <2>3 DEF Exchange
    <2>4. CASE dt = 0 /\ n < Closed(w)
      BY <2>1, <2>2, <2>4 DEF Exchange
    <2>5. CASE ~(n < Closed(w))
      <3>1. n \notin 0..(Closed(w) - 1)
        BY <2>2, <2>5, EndFacts
      <3> QED
        BY <2>2, <3>1 DEF Exchange
    <2> QED
      BY <2>3, <2>4, <2>5
  <1> QED
    BY <1>1

LEMMA ExchangeSends ==
    ASSUME NEW A, NEW G, NEW D, NEW C \in Nat, NEW F, NEW K, NEW Z, Exchange(A, G, D, C, F, K, Z),
           NEW H, NEW K2, K = K2 \cup H, NEW C2 \in Nat, C <= C2,
           NEW S, S \cap (F \cup G) = {}, S \subseteq 0..(C2 - 1),
           NEW Z2, Z2 \cap (F \cup G) = {}, Z2 \cap S = {}
    PROVE  Exchange(A \cup H, G, D, C2, F \cup S, K2, Z2)
  <1>1. 0..(C - 1) \subseteq 0..(C2 - 1)
    OBVIOUS
  <1> QED
    BY <1>1 DEF Exchange

(* The frame that waits to be sent is the last of the path. *)
LEMMA PathLast ==
    ASSUME NEW x, EndpointOK(x), NEW y, EndpointOK(y), NEW link \in Seq(FrameType)
    PROVE  LET rest == y.recv_frame \o link
           IN /\ rest \in Seq(FrameType)
              /\ \A x2 : x2.send_frame.frame = <<>> => Path(x2, link, y) = rest
              /\ x.send_frame.frame # <<>> =>
                    /\ Head(x.send_frame.frame) \in FrameType
                    /\ OneMore(rest, Head(x.send_frame.frame), Path(x, link, y))
  <1> DEFINE rest == y.recv_frame \o link
             c    == x.send_frame.frame
  <1>1. y.recv_frame \in Seq(FrameType) /\ c # <<>> => Head(c) \in FrameType /\ c = <<Head(c)>>
    BY FrameBufs
  <1>2. rest \in Seq(FrameType)
    BY FrameBufs
  <1> HIDE DEF rest, c
  <1>3. \A x2 : x2.send_frame.frame = <<>> => Path(x2, link, y) = rest
    BY <1>2, ThreeParts DEF Path, rest
  <1>4. ASSUME c # <<>> PROVE Head(c) \in FrameType /\ OneMore(rest, Head(c), Path(x, link, y))
    <2>1. Head(c) \in FrameType /\ c = <<Head(c)>>
      BY <1>4, FrameBufs DEF c
    <2>2. Path(x, link, y) = rest \o <<Head(c)>>
      BY <2>1 DEF Path, rest, c
    <2>3. OneMore(rest, Head(c), rest \o <<Head(c)>>)
      BY <1>2, <2>1, LastFrame
    <2> QED
      BY <2>1, <2>2, <2>3
  <1> QED
    BY <1>2, <1>3, <1>4 DEF rest, c

(* An acknowledgement is of a message that was sent and is not in the frame that waits. *)
LEMMA FlowAckFits ==
    ASSUME NEW st, NEW x, EndpointOK(x), NEW y, EndpointOK(y),
           NEW up \in Seq(FrameType), NEW down \in Seq(FrameType), NEW s, NEW r,
           Flow(st, x, up, y, down, s, r), NEW x2, EndpointOK(x2), x2.recv_frame = <<>>
    PROVE  LET rh == Heard(x.recv_frame)
           IN /\ AckFits(x.send_wnd, rh)
              /\ x.send_wnd_ptr.valid /\ rh.ack => x.send_wnd_ptr.seq # rh.ack_num
  <1> DEFINE rh == Heard(x.recv_frame)
             P  == Path(x, up, y)
             Q  == Path(y, down, x)
             G  == GotNos(y.recv_wnd)
             p  == x.send_wnd_ptr
             c  == x.send_frame.frame
             f  == Head(x.recv_frame)
  <1> SUFFICES ASSUME rh.ack
               PROVE  /\ AckFits(x.send_wnd, rh)
                      /\ p.valid => p.seq # rh.ack_num
    BY DEF AckFits
  <1>1. AckNos(Q) = AckNos(Path(y, down, x2)) \cup HeardNos(rh) /\ rh.cur_ack_vec = {0}
    <2>1. AckFrames(Q)
      BY DEF Flow
    <2>2. AckNos(Q) = AckNos(Path(y, down, x2)) \cup HeardNos(rh)
      BY FrameHeard
    <2>3. AckFrames(Q) => (rh.ack => rh.cur_ack_vec = {0})
      BY FrameHeard
    <2> QED
      BY <2>1, <2>2, <2>3
  <1>2. rh.ack_num \in AckNos(Q)
    BY <1>1 DEF HeardNos
  <1>3. AckNos(Q) \subseteq G /\ G \subseteq 0..(Closed(x.send_wnd) - 1) /\ SegNos(P) \cap G = {}
    BY DEF Flow, Knows, Exchange
  <1>4. AckFits(x.send_wnd, rh)
    BY <1>1, <1>2, <1>3 DEF AckFits
  <1>5. ASSUME p.valid, c # <<>> PROVE p.seq # rh.ack_num
    <2>1. p.seq \in SegOf(Head(c))
      BY <1>5 DEF Flow, PtrFrame
    <2>2. OneMore(y.recv_frame \o up, Head(c), P)
      BY <1>5, PathLast
    <2>3. p.seq \in SegNos(P)
      BY <2>1, <2>2 DEF OneMore
    <2> QED
      BY <1>2, <1>3, <2>3
  <1>6. ASSUME p.valid, c = <<>> PROVE p.seq # rh.ack_num
    <2>1. p.seq \notin AckNos(x.recv_frame)
      BY <1>6 DEF Flow, PtrFrame
    <2>2. x.recv_frame # <<>>
      BY DEF Heard, FrameHdrInit
    <2>3. x.recv_frame = <<f>> /\ rh = f.hdr
      BY <2>2, FrameBufs DEF Heard
    <2>4. Range(x.recv_frame) = {f}
      BY <2>3 DEF Range
    <2>5. rh.ack_num \in AcksOf(f)
      BY <2>3 DEF AcksOf, HeardNos
    <2>6. rh.ack_num \in AckNos(x.recv_frame)
      BY <2>4, <2>5 DEF AckNos
    <2> QED
      BY <2>1, <2>6
  <1> QED
    BY <1>4, <1>5, <1>6

(* x is polled: in this direction its pointer moves and a message may join the path. *)
LEMMA FlowSenderPoll ==
    ASSUME OneSegment, ~UseConnections, NEW st, NEW x, EndpointOK(x), NEW y, EndpointOK(y),
           NEW up \in Seq(FrameType), NEW down \in Seq(FrameType), NEW s \in Nat, NEW r,
           Flow(st, x, up, y, down, s, r), NEW dt \in Nat, NEW x2, x2 = BackendPoll(x, dt).arq,
           dt > 0 => /\ SegNos(Path(x, up, y)) = {} /\ AckNos(Path(y, down, x)) = {}
                     /\ DueNos(y.recv_wnd) = {}
    PROVE  Flow(st, x2, up, y, down, s, r)
  <1> DEFINE psh  == SendFrameFree(x)
             rr   == RecvPoll(x.recv_wnd, x.recv_frame, psh, FrameHdrInit, dt)
             z    == SendPoll(x.send_wnd, x.send_wnd_ptr, psh, rr.sh, rr.rh, dt)
             w    == x.send_wnd
             p    == x.send_wnd_ptr
             G    == GotNos(y.recv_wnd)
             D    == DueNos(y.recv_wnd)
             P    == Path(x, up, y)
             P2   == Path(x2, up, y)
             Q    == Path(y, down, x)
             Q2   == Path(y, down, x2)
             rest == y.recv_frame \o up
             data == IF z.sh.seg THEN WndSeg(z.sw, z.sh.seq_num, z.sh.seg_id) ELSE <<>>
             f    == FrameWrite(z.sh, data)
             rh   == Heard(x.recv_frame)
             N    == NextToSend(w, p, z.sw, dt)
             S    == IF psh /\ z.sp.valid THEN {z.sp.seq} ELSE {}
  <1>0. /\ psh = SendFrameFree(x) /\ psh \in BOOLEAN
        /\ rr = RecvPoll(x.recv_wnd, x.recv_frame, psh, FrameHdrInit, dt)
        /\ z = SendPoll(w, p, psh, rr.sh, rr.rh, dt)
        /\ DataPolled(x, x2, psh, rr, z)
    BY DataPoll DEF SendFrameFree
  <1> HIDE DEF psh, rr, z
  <1>1. /\ x2.recv_wnd = rr.rw /\ x2.recv_frame = <<>> /\ x2.send_wnd = z.sw
        /\ x2.send_wnd_ptr = z.sp /\ x2.need_poll = FALSE
        /\ x2.send_frame.frame = IF psh /\ (rr.sh.ack \/ z.sh.seg) THEN <<f>> ELSE x.send_frame.frame
        /\ rr.rh = rh /\ CanAck(rr.rh) /\ ~rr.sh.seg /\ rr.sh \in FrameHdrType /\ z.sh \in FrameHdrType
    BY <1>0 DEF DataPolled
  <1>2. EndpointOK(x2) /\ p \in SendWndPtrType /\ w \in SendWndType
    <2>1. EndpointOK(BackendPoll(x, dt).arq)
      BY BackendPollOK
    <2> QED
      BY <2>1 DEF EndpointOK, EndpointType
  <1>3. /\ OneSegWnd(w) /\ Starts(st, w, s) /\ Content(w, s) /\ PtrOK(w, p)
        /\ PtrFrame(x) /\ OneSegRecv(st, y.recv_wnd, r) /\ SegFrames(st, P) /\ Once(P)
        /\ AckFrames(Q) /\ st \in [Nat -> Nat]
        /\ Exchange(AckedNos(w), G, D, Closed(w), SegNos(P), AckNos(Q), Resendable(w, p))
    BY SourceType DEF Flow, Knows, Source
  <1>4. AckFits(w, rh) /\ (p.valid /\ rh.ack => p.seq # rh.ack_num)
    BY <1>1, <1>2, FlowAckFits
  <1>5. AckNos(Q) = AckNos(Q2) \cup HeardNos(rh) /\ AckFrames(Q2)
    <2>1. AckNos(Q) = AckNos(Q2) \cup HeardNos(rh)
      BY <1>1, <1>2, FrameHeard
    <2>2. AckFrames(Q) => AckFrames(Q2)
      BY <1>1, <1>2, FrameHeard
    <2> QED
      BY <1>3, <2>1, <2>2
  <1>6. OneSent(w, p, rh, dt, psh, rr.sh, z)
    BY <1>0, <1>1, <1>2, <1>3, <1>4, OneSendPoll
  <1>7. Content(z.sw, s)
    BY <1>0, <1>1, <1>2, <1>3, NoWrap, SendPollContent DEF OneSegWnd
  <1>8. psh <=> x.send_frame.frame = <<>>
    BY <1>0, FreeOrWaiting
  <1>10. /\ OneSegWnd(z.sw) /\ PollEffect(w, z.sw, rh) /\ PtrOK(z.sw, z.sp)
         /\ Resendable(z.sw, z.sp) \subseteq N
         /\ ~psh => z.sp = p /\ z.sh = rr.sh
         /\ psh => /\ z.sp.valid => z.sp.seq \in N
                   /\ z.sh = IF z.sp.valid
                             THEN [rr.sh EXCEPT !.seg = TRUE, !.seq_num = z.sp.seq, !.seg_id = 0,
                                                !.msg_len = 1]
                             ELSE rr.sh
    BY <1>6 DEF OneSent
  <1>11. Starts(st, z.sw, s)
    BY <1>3, <1>10, StartsAfterPoll
  <1>12. /\ AckedNos(z.sw) = AckedNos(w) \cup HeardNos(rh)
         /\ Closed(w) \in Nat /\ Closed(z.sw) \in Nat /\ Closed(w) <= Closed(z.sw)
    BY <1>3, <1>10, EndFacts DEF PollEffect
  <1>13. N \cap (SegNos(P) \cup G) = {} /\ N \subseteq 0..(Closed(z.sw) - 1)
    <2>1. AckedNos(w) \subseteq AckedNos(z.sw)
      BY <1>12
    <2>2. dt > 0 => SegNos(P) = {} /\ D = {} /\ AckNos(Q) = {}
      OBVIOUS
    <2>3. OneSegWnd(w) /\ OneSegWnd(z.sw)
          /\ Exchange(AckedNos(w), G, D, Closed(w), SegNos(P), AckNos(Q), Resendable(w, p))
      BY <1>3, <1>10
    <2>4. N = NextToSend(w, p, z.sw, dt)
      OBVIOUS
    <2> HIDE DEF P, Q, G, D, w, p, N
    <2> QED
      BY ONLY <2>1, <2>2, <2>3, <2>4, dt \in Nat, NextIsNew
  <1>14. Exchange(AckedNos(z.sw), G, D, Closed(z.sw), SegNos(P) \cup S, AckNos(Q2),
                  Resendable(z.sw, z.sp))
    <2>1. S \subseteq N
      BY <1>10
    <2>2. S \cap (SegNos(P) \cup G) = {} /\ S \subseteq 0..(Closed(z.sw) - 1)
      BY <1>13, <2>1
    <2>3. Resendable(z.sw, z.sp) \cap (SegNos(P) \cup G) = {}
      BY <1>10, <1>13
    <2>4. Resendable(z.sw, z.sp) \cap S = {}
      BY DEF Resendable, PointsAt
    <2>5. /\ Exchange(AckedNos(w), G, D, Closed(w), SegNos(P), AckNos(Q), Resendable(w, p))
          /\ AckNos(Q) = AckNos(Q2) \cup HeardNos(rh)
          /\ AckedNos(z.sw) = AckedNos(w) \cup HeardNos(rh)
          /\ Closed(w) \in Nat /\ Closed(z.sw) \in Nat /\ Closed(w) <= Closed(z.sw)
      BY <1>3, <1>5, <1>12
    <2> DEFINE Z2 == Resendable(z.sw, z.sp)
               H  == HeardNos(rh)
    <2>6. Z2 \cap (SegNos(P) \cup G) = {} /\ Z2 \cap S = {}
      BY <2>3, <2>4
    <2> HIDE DEF S, P, Q, G, D, N, Q2, w, p, rh, Z2
    <2>7. Exchange(AckedNos(w) \cup H, G, D, Closed(z.sw), SegNos(P) \cup S, AckNos(Q2), Z2)
      BY ONLY <2>2, <2>5, <2>6, ExchangeSends
    <2> QED
      BY <2>5, <2>7 DEF Z2
  <1>15. psh => /\ z.sh.seg <=> z.sp.valid
                /\ z.sp.valid => z.sh.seq_num = z.sp.seq /\ z.sh.seg_id = 0 /\ z.sh.msg_len = 1
    BY <1>1, <1>10 DEF FrameHdrType
  <1>16. ASSUME psh, z.sp.valid PROVE data = MsgBytes(st, z.sp.seq)
    <2>1. z.sp.seq \in z.sw.seq..(SendEnd(z.sw) - 1)
      <3>1. z.sp.seq \in OpenNos(z.sw)
        BY <1>10, <1>16 DEF PtrOK
      <3>2. z.sp.seq \in z.sw.seq..(Closed(z.sw) - 1)
        BY <1>10, <3>1, OpenFacts
      <3> QED
        BY <1>10, <3>2, EndFacts
    <2>2. data = WndSeg(z.sw, z.sp.seq, 0)
      BY <1>15, <1>16
    <2> DEFINE n == z.sp.seq
    <2>3. /\ n \in z.sw.seq..(SendEnd(z.sw) - 1) /\ OneSegWnd(z.sw) /\ Starts(st, z.sw, s)
          /\ Content(z.sw, s) /\ data = WndSeg(z.sw, n, 0)
      BY <1>7, <1>10, <1>11, <2>1, <2>2
    <2> HIDE DEF n, data
    <2>4. WndSeg(z.sw, n, 0) = MsgBytes(st, n)
      BY <2>3, SegmentData
    <2> QED
      BY <2>3, <2>4 DEF n
  <1>17. /\ rest \in Seq(FrameType)
         /\ x.send_frame.frame = <<>> => P = rest
         /\ x2.send_frame.frame = <<>> => P2 = rest
         /\ x2.send_frame.frame # <<>> => OneMore(rest, Head(x2.send_frame.frame), P2)
    BY <1>2, PathLast
  <1>18. /\ SegNos(P2) = SegNos(P) \cup S
         /\ SegFrames(st, P2) /\ Once(P2) /\ PtrFrame(x2)
    <2>1. CASE ~psh
      <3>1. x2.send_frame.frame = x.send_frame.frame /\ x.send_frame.frame # <<>> /\ S = {}
        BY <1>1, <1>8, <2>1
      <3>2. P2 = P
        BY <3>1 DEF Path
      <3>3. PtrFrame(x2)
        BY <1>1, <1>3, <1>10, <2>1, <3>1 DEF PtrFrame
      <3> HIDE DEF P, P2, S
      <3> QED
        BY <1>3, <3>1, <3>2, <3>3
    <2>2. CASE psh /\ ~(rr.sh.ack \/ z.sh.seg)
      <3>1. x2.send_frame.frame = <<>> /\ x.send_frame.frame = <<>>
        BY <1>1, <1>8, <2>2
      <3>2. P2 = P
        BY <1>17, <3>1
      <3>3. ~z.sp.valid /\ S = {}
        BY <1>15, <2>2
      <3>4. PtrFrame(x2)
        BY <1>1, <3>3 DEF PtrFrame
      <3> HIDE DEF P, P2, S
      <3> QED
        BY <1>3, <3>2, <3>3, <3>4
    <2>3. CASE psh /\ (rr.sh.ack \/ z.sh.seg)
      <3>1. x2.send_frame.frame = <<f>> /\ x.send_frame.frame = <<>>
        BY <1>1, <1>8, <2>3
      <3>2. Head(x2.send_frame.frame) = f /\ x2.send_frame.frame # <<>>
        BY <3>1
      <3>3. OneMore(P, f, P2)
        BY <1>17, <3>1, <3>2
      <3>4. f.ok /\ f.hdr = z.sh /\ f.data = data
        BY DEF FrameWrite
      <3>5. SegOf(f) = S
        BY <1>15, <2>3, <3>4 DEF SegOf
      <3>6. SegFrame(st, f)
        BY <1>15, <1>16, <2>3, <3>4 DEF SegFrame
      <3>7. S \cap SegNos(P) = {}
        <4>1. S \subseteq N
          BY <1>10
        <4> QED
          BY <1>13, <4>1
      <3>8. PtrFrame(x2)
        <4>1. z.sp.valid => z.sp.seq \in S
          BY <2>3
        <4> HIDE DEF S, f
        <4> QED
          BY <1>1, <3>2, <3>5, <4>1 DEF PtrFrame
      <3> HIDE DEF P, P2, S, f
      <3> QED
        BY <1>3, <3>3, <3>5, <3>6, <3>7, <3>8 DEF OneMore
    <2> QED
      BY <2>1, <2>2, <2>3
  <1>19. Knows(x2, up, y, down)
    BY <1>1, <1>14, <1>18 DEF Knows
  <1>20. Source(st, x2, s)
    BY <1>1, <1>7, <1>10, <1>11 DEF Source
  <1> QED
    BY <1>3, <1>5, <1>18, <1>19, <1>20 DEF Flow

LEMMA ExchangeReceives ==
    ASSUME NEW A, NEW G, NEW D, NEW C, NEW F, NEW K, NEW Z, Exchange(A, G, D, C, F, K, Z),
           NEW F2, NEW B, F = F2 \cup B, B \cap F2 = {}, NEW got \in SUBSET B,
           NEW D2, NEW H, D2 \cup H = D \cup got, H \subseteq G \cup got
    PROVE  Exchange(A, G \cup got, D2, C, F2, K \cup H, Z)
  BY DEF Exchange

(* arq__send_poll adds a segment to a header and leaves the acknowledgement in it alone. *)
LEMMA SendPollAck ==
    ASSUME NEW w, NEW p, NEW psh, NEW sh \in FrameHdrType, NEW rh, NEW dt
    PROVE  LET h == SendPoll(w, p, psh, sh, rh, dt).sh
           IN h.ack = sh.ack /\ h.ack_num = sh.ack_num /\ h.cur_ack_vec = sh.cur_ack_vec
  <1> DEFINE v == SendPollTimers(w, rh, dt)
             q == SendWndPtrNext(p, v)
             n == SegCount(v.msg[q.seq % SendCap].len)
             h == SendPoll(w, p, psh, sh, rh, dt).sh
  <1>1. h = IF ~psh \/ ~q.valid THEN sh
            ELSE [sh EXCEPT !.seg = TRUE, !.seq_num = q.seq, !.seg_id = q.seg, !.msg_len = n]
    BY DEF SendPoll
  <1> HIDE DEF v, q, n, h
  <1>2. h.ack = sh.ack /\ h.ack_num = sh.ack_num /\ h.cur_ack_vec = sh.cur_ack_vec
    BY <1>1 DEF FrameHdrType
  <1> QED
    BY <1>2 DEF h

(* A segment that arrives is of a message that is not here, and has all of it. *)
LEMMA FlowNewFrame ==
    ASSUME OneSegment, NEW st, NEW x, EndpointOK(x), NEW y, EndpointOK(y),
           NEW up \in Seq(FrameType), NEW down \in Seq(FrameType), NEW s, NEW r,
           Flow(st, x, up, y, down, s, r), NEW y2, EndpointOK(y2), y2.recv_frame = <<>>
    PROVE  LET rf == y.recv_frame
           IN rf = <<>> \/ \E f : rf = <<f>> /\ NewFrame(st, y.recv_wnd, f)
  <1> DEFINE v == y.recv_wnd
             f == Head(y.recv_frame)
             n == f.hdr.seq_num
             P == Path(x, up, y)
  <1> SUFFICES ASSUME y.recv_frame # <<>>
               PROVE  y.recv_frame = <<f>> /\ NewFrame(st, v, f)
    OBVIOUS
  <1>1. y.recv_frame = <<f>> /\ f \in FrameType
    BY FrameBufs
  <1>2. /\ OneSegWnd(x.send_wnd) /\ Starts(st, x.send_wnd, s) /\ OneSegRecv(st, v, r)
        /\ SegFrames(st, P) /\ SegNos(P) \cap GotNos(v) = {}
        /\ SegNos(P) \subseteq 0..(Closed(x.send_wnd) - 1)
    BY DEF Flow, Source, Knows, Exchange
  <1>3. SegFrame(st, f)
    BY <1>2, FrameHeard
  <1>4. SegNos(P) = SegNos(Path(x, up, y2)) \cup Brought(y.recv_frame)
    BY FrameHeard
  <1>5. ASSUME f.hdr.seg PROVE NewMsg(st, v, n, f.data) /\ f.data \in Seq(Nat)
    <2>1. n \in SegNos(P)
      BY <1>4, <1>5 DEF Brought
    <2> HIDE DEF P
    <2>2. n \in 0..(Closed(x.send_wnd) - 1) /\ n \notin GotNos(v)
      BY <1>2, <2>1
    <2>3. n \in Nat /\ n < SendEnd(x.send_wnd) /\ n + 1 < SeqMod /\ SendEnd(x.send_wnd) \in Nat
      BY <1>2, <2>2, EndFacts
    <2>4. LenOf(st, n) \in 1..MsgLen
      <3>1. \A k \in 0..(SendEnd(x.send_wnd) - 1) : LenOf(st, k) \in 1..MsgLen
        BY <1>2 DEF Starts
      <3>2. n \in 0..(SendEnd(x.send_wnd) - 1)
        BY <2>3
      <3> QED
        BY <3>1, <3>2
    <2>5. f.data = MsgBytes(st, n)
      BY <1>3, <1>5 DEF SegFrame
    <2>6. v.copy_seq <= n
      <3>1. v.copy_seq \in Nat /\ RecvCap \in Nat \ {0}
        BY <1>2, RecvNumbers DEF OneSegRecv
      <3> SUFFICES ASSUME n < v.copy_seq PROVE FALSE
        BY <2>3, <3>1
      <3>2. n \in 0..(v.copy_seq + RecvCap - 1)
        BY <2>3, <3>1
      <3> QED
        BY <2>2, <3>2 DEF GotNos
    <2>7. f.data \in Seq(Nat)
      BY <1>1 DEF FrameType
    <2> QED
      BY <2>2, <2>3, <2>4, <2>5, <2>6, <2>7 DEF NewMsg, MsgBytes
  <1>6. NewFrame(st, v, f)
    BY <1>3, <1>5 DEF NewFrame, SegFrame
  <1> QED
    BY <1>1, <1>6

(* y is polled: in this direction a message arrives, and an acknowledgement leaves. *)
LEMMA FlowReceiverPoll ==
    ASSUME OneSegment, ~UseConnections, NEW st, NEW x, EndpointOK(x), NEW y, EndpointOK(y),
           NEW up \in Seq(FrameType), NEW down \in Seq(FrameType), NEW s, NEW r,
           Flow(st, x, up, y, down, s, r), NEW dt \in Nat, NEW y2, y2 = BackendPoll(y, dt).arq
    PROVE  Flow(st, x, up, y2, down, s, r)
  <1> DEFINE psh  == SendFrameFree(y)
             rr   == RecvPoll(y.recv_wnd, y.recv_frame, psh, FrameHdrInit, dt)
             z    == SendPoll(y.send_wnd, y.send_wnd_ptr, psh, rr.sh, rr.rh, dt)
             v    == y.recv_wnd
             A    == AckedNos(x.send_wnd)
             C    == Closed(x.send_wnd)
             Z    == Resendable(x.send_wnd, x.send_wnd_ptr)
             G    == GotNos(v)
             D    == DueNos(v)
             P    == Path(x, up, y)
             P2   == Path(x, up, y2)
             Q    == Path(y, down, x)
             Q2   == Path(y2, down, x)
             B    == Brought(y.recv_frame)
             H    == AckOf(rr.sh)
             f    == FrameWrite(z.sh, IF z.sh.seg THEN WndSeg(z.sw, z.sh.seq_num, z.sh.seg_id)
                                      ELSE <<>>)
  <1>0. /\ psh = SendFrameFree(y) /\ psh \in BOOLEAN
        /\ rr = RecvPoll(v, y.recv_frame, psh, FrameHdrInit, dt)
        /\ z = SendPoll(y.send_wnd, y.send_wnd_ptr, psh, rr.sh, rr.rh, dt)
        /\ DataPolled(y, y2, psh, rr, z)
    BY DataPoll DEF SendFrameFree
  <1> HIDE DEF psh, rr, z
  <1>1. /\ y2.recv_wnd = rr.rw /\ y2.recv_frame = <<>>
        /\ y2.send_frame.frame = IF psh /\ (rr.sh.ack \/ z.sh.seg) THEN <<f>> ELSE y.send_frame.frame
        /\ rr.sh \in FrameHdrType
    BY <1>0 DEF DataPolled
  <1>2. EndpointOK(y2)
    <2>1. EndpointOK(BackendPoll(y, dt).arq)
      BY BackendPollOK
    <2> QED
      BY <2>1
  <1>3. /\ Source(st, x, s) /\ PtrFrame(x) /\ OneSegRecv(st, v, r) /\ SegFrames(st, P) /\ Once(P)
        /\ AckFrames(Q) /\ st \in [Nat -> Nat]
        /\ Exchange(A, G, D, C, SegNos(P), AckNos(Q), Z)
    BY SourceType DEF Flow, Knows
  <1>4. z.sh.ack = rr.sh.ack /\ z.sh.ack_num = rr.sh.ack_num /\ z.sh.cur_ack_vec = rr.sh.cur_ack_vec
    BY <1>0, <1>1, SendPollAck
  <1>5. psh <=> y.send_frame.frame = <<>>
    BY <1>0, FreeOrWaiting
  <1>6. SegNos(P) = SegNos(P2) \cup B /\ Once(P2) /\ B \cap SegNos(P2) = {} /\ SegFrames(st, P2)
    <2>1. SegNos(P) = SegNos(P2) \cup B
      BY <1>1, <1>2, FrameHeard
    <2>2. Once(P) => Once(P2) /\ B \cap SegNos(P2) = {}
      BY <1>1, <1>2, FrameHeard
    <2>3. SegFrames(st, P) => SegFrames(st, P2)
      BY <1>1, <1>2, FrameHeard
    <2> HIDE DEF P, P2, B
    <2> QED
      BY <1>3, <2>1, <2>2, <2>3
  <1>7. /\ OneSegRecv(st, rr.rw, r)
        /\ \E got \in SUBSET B : Polled(v, rr.rw, got, psh, rr.sh)
    <2>1. y.recv_frame = <<>> \/ \E g : y.recv_frame = <<g>> /\ NewFrame(st, v, g)
      BY <1>1, <1>2, FlowNewFrame
    <2>2. MsgSegs = 1
      BY DEF OneSegment
    <2> QED
      BY <1>0, <1>3, <2>1, <2>2, OneRecvPoll
  <1>8. PICK got \in SUBSET B : Polled(v, rr.rw, got, psh, rr.sh)
    BY <1>7
  <1>9. /\ GotNos(rr.rw) = G \cup got /\ DueNos(rr.rw) \cup H = D \cup got
        /\ rr.sh.ack => rr.sh.ack_num \in G \cup got /\ rr.sh.cur_ack_vec = {0}
        /\ ~psh => ~rr.sh.ack
    BY <1>8 DEF Polled, FrameHdrInit
  <1>10. /\ y.send_frame.frame = <<>> => Q = x.recv_frame \o down
         /\ y2.send_frame.frame = <<>> => Q2 = x.recv_frame \o down
         /\ y2.send_frame.frame # <<>> =>
               OneMore(x.recv_frame \o down, Head(y2.send_frame.frame), Q2)
    BY <1>2, PathLast
  <1>11. AckNos(Q2) = AckNos(Q) \cup H /\ AckFrames(Q2)
    <2>1. CASE psh /\ (rr.sh.ack \/ z.sh.seg)
      <3>1. y2.send_frame.frame = <<f>> /\ y.send_frame.frame = <<>>
        BY <1>1, <1>5, <2>1
      <3>2. Head(y2.send_frame.frame) = f /\ y2.send_frame.frame # <<>>
        BY <3>1
      <3>3. OneMore(Q, f, Q2)
        BY <1>10, <3>1, <3>2
      <3>4. f.hdr = z.sh
        BY DEF FrameWrite
      <3>5. AcksOf(f) = H /\ AckFrame(f)
        BY <1>4, <1>9, <3>4 DEF AcksOf, HeardNos, AckOf, AckFrame
      <3> HIDE DEF Q, Q2, f, H
      <3> QED
        BY <1>3, <3>3, <3>5 DEF OneMore
    <2>2. CASE ~(psh /\ (rr.sh.ack \/ z.sh.seg))
      <3>1. y2.send_frame.frame = y.send_frame.frame
        BY <1>1, <2>2
      <3>2. Q2 = Q
        BY <3>1 DEF Path
      <3>3. H = {}
        BY <1>9, <2>2 DEF AckOf
      <3> HIDE DEF Q, Q2, H
      <3> QED
        BY <1>3, <3>2, <3>3
    <2> QED
      BY <2>1, <2>2
  <1>12. Exchange(A, GotNos(rr.rw), DueNos(rr.rw), C, SegNos(P2), AckNos(Q2), Z)
    <2>1. H \subseteq G \cup got
      BY <1>9 DEF AckOf
    <2> DEFINE F == SegNos(P)
               F2 == SegNos(P2)
               K == AckNos(Q)
               D2 == DueNos(rr.rw)
    <2>2. /\ Exchange(A, G, D, C, F, K, Z) /\ F = F2 \cup B /\ B \cap F2 = {}
          /\ got \in SUBSET B /\ D2 \cup H = D \cup got
      BY <1>3, <1>6, <1>8, <1>9
    <2> HIDE DEF A, G, D, C, F, K, Z, F2, B, H, D2
    <2>3. Exchange(A, G \cup got, D2, C, F2, K \cup H, Z)
      BY ONLY <2>1, <2>2, ExchangeReceives
    <2> QED
      BY <1>9, <1>11, <2>3 DEF F2, K, D2
  <1>13. Knows(x, up, y2, down)
    BY <1>1, <1>12 DEF Knows
  <1> QED
    BY <1>1, <1>3, <1>6, <1>7, <1>11, <1>13 DEF Flow
----------------------------------------------------------------------------
(* Data: the other steps of one direction *)

(* The acknowledgement in the frame that was received is one under way. *)
LEMMA AcksHere ==
    ASSUME NEW x, EndpointOK(x), NEW y, EndpointOK(y), NEW down \in Seq(FrameType)
    PROVE  AckNos(x.recv_frame) \subseteq AckNos(Path(y, down, x))
  <1> DEFINE rf == x.recv_frame
             f  == Head(rf)
             Q  == Path(y, down, x)
  <1>1. AckNos(Q) = AckNos(Path(y, down, ArqInit)) \cup HeardNos(Heard(rf))
    <2>1. EndpointOK(ArqInit) /\ ArqInit.recv_frame = <<>>
      BY InitOK DEF ArqInit
    <2> QED
      BY <2>1, FrameHeard
  <1>2. CASE rf = <<>>
    BY <1>2, NoPath
  <1>3. CASE rf # <<>>
    <2>1. rf = <<f>>
      BY <1>3, FrameBufs
    <2>2. Range(rf) = {f} /\ Heard(rf) = f.hdr
      BY <2>1, <1>3 DEF Range, Heard
    <2>3. AckNos(rf) = HeardNos(Heard(rf))
      BY <2>2 DEF AckNos, AcksOf
    <2> QED
      BY <1>1, <2>3
  <1> QED
    BY <1>2, <1>3

(* A message in the frame that waits is not acknowledged by the one received. *)
LEMMA PtrSent ==
    ASSUME NEW st, NEW x, EndpointOK(x), NEW y, EndpointOK(y),
           NEW up \in Seq(FrameType), NEW down \in Seq(FrameType), NEW s, NEW r,
           Flow(st, x, up, y, down, s, r), x.send_frame.frame # <<>>,
           NEW x2, x2 = SendPtrRelease(x)
    PROVE  /\ PtrFrame(x2) /\ x2.send_frame.frame = <<>>
           /\ x2.send_wnd = x.send_wnd /\ x2.send_wnd_ptr = x.send_wnd_ptr
           /\ x2.recv_frame = x.recv_frame /\ x2.recv_wnd = x.recv_wnd
  <1> DEFINE p == x.send_wnd_ptr
             c == x.send_frame.frame
             P == Path(x, up, y)
  <1>1. /\ x2.send_wnd_ptr = p /\ x2.recv_frame = x.recv_frame
        /\ x2.send_wnd = x.send_wnd /\ x2.recv_wnd = x.recv_wnd
        /\ x2.send_frame.frame = <<>> /\ x2.need_poll = TRUE
    BY DEF SendPtrRelease, EndpointOK, EndpointType
  <1>2. ASSUME p.valid PROVE p.seq \notin AckNos(x.recv_frame)
    <2>1. p.seq \in SegOf(Head(c))
      BY <1>2 DEF Flow, PtrFrame
    <2>2. OneMore(y.recv_frame \o up, Head(c), P)
      BY PathLast
    <2>3. p.seq \in SegNos(P)
      BY <2>1, <2>2 DEF OneMore
    <2>4. SegNos(P) \cap AckNos(Path(y, down, x)) = {}
      BY DEF Flow, Knows, Exchange
    <2> QED
      BY <2>3, <2>4, AcksHere
  <1> QED
    BY <1>1, <1>2 DEF PtrFrame

(* Nothing but the place of the frames under way changes. *)
LEMMA FlowMoved ==
    ASSUME NEW st, NEW x, NEW y, NEW up, NEW down, NEW s, NEW r, Flow(st, x, up, y, down, s, r),
           NEW x2, NEW y2, NEW up2, NEW down2,
           x2.send_wnd = x.send_wnd, x2.send_wnd_ptr = x.send_wnd_ptr,
           y2.recv_wnd = y.recv_wnd, PtrFrame(x2),
           Path(x2, up2, y2) = Path(x, up, y), Path(y2, down2, x2) = Path(y, down, x)
    PROVE  Flow(st, x2, up2, y2, down2, s, r)
  BY DEF Flow, Source, Knows

(* What arq_flush and arq_backend_send_ptr_get leave alone, and arq_send and arq_recv in
   the other direction. *)
Unsent(x, x2) ==
    /\ x2.send_wnd = x.send_wnd /\ x2.send_wnd_ptr = x.send_wnd_ptr
    /\ x2.need_poll = x.need_poll
    /\ x2.send_frame.frame = x.send_frame.frame /\ x2.recv_frame = x.recv_frame
Unread(y, y2) ==
    /\ y2.recv_wnd = y.recv_wnd
    /\ y2.send_frame.frame = y.send_frame.frame /\ y2.recv_frame = y.recv_frame

LEMMA FlowUnsent ==
    ASSUME NEW st, NEW x, NEW y, NEW up, NEW down, NEW s, NEW r, Flow(st, x, up, y, down, s, r),
           NEW x2, Unsent(x, x2), NEW y2, Unread(y, y2)
    PROVE  Flow(st, x2, up, y2, down, s, r)
  <1>1. PtrFrame(x2)
    BY DEF Flow, PtrFrame, Unsent
  <1>2. Path(x2, up, y2) = Path(x, up, y) /\ Path(y2, down, x2) = Path(y, down, x)
    BY DEF Path, Unsent, Unread
  <1>3. /\ x2.send_wnd = x.send_wnd /\ x2.send_wnd_ptr = x.send_wnd_ptr
        /\ y2.recv_wnd = y.recv_wnd
    BY DEF Unsent, Unread
  <1> QED
    BY <1>1, <1>2, <1>3, FlowMoved

LEMMA FlowTransmit ==
    ASSUME NEW st, NEW x, EndpointOK(x), NEW y, EndpointOK(y),
           NEW up \in Seq(FrameType), NEW down \in Seq(FrameType), NEW s, NEW r,
           Flow(st, x, up, y, down, s, r)
    PROVE  /\ \A x2 : x2 = SendPtrRelease(x) /\ x.send_frame.frame # <<>> =>
                 Flow(st, x2, up \o x.send_frame.frame, y, down, s, r)
           /\ \A y2 : y2 = SendPtrRelease(y) =>
                 Flow(st, x, up, y2, down \o y.send_frame.frame, s, r)
  <1>1. ASSUME NEW x2, x2 = SendPtrRelease(x), x.send_frame.frame # <<>>
        PROVE  Flow(st, x2, up \o x.send_frame.frame, y, down, s, r)
    <2>1. /\ PtrFrame(x2) /\ x2.send_frame.frame = <<>>
          /\ x2.send_wnd = x.send_wnd /\ x2.send_wnd_ptr = x.send_wnd_ptr
          /\ x2.recv_frame = x.recv_frame
      BY <1>1, PtrSent
    <2>2. Path(x2, up \o x.send_frame.frame, y) = Path(x, up, y)
      BY <2>1, PathTransmit
    <2>3. Path(y, down, x2) = Path(y, down, x)
      BY <2>1 DEF Path
    <2> QED
      BY <2>1, <2>2, <2>3, FlowMoved
  <1>2. ASSUME NEW y2, y2 = SendPtrRelease(y)
        PROVE  Flow(st, x, up, y2, down \o y.send_frame.frame, s, r)
    <2>1. /\ y2.send_frame.frame = <<>> /\ y2.recv_wnd = y.recv_wnd
          /\ y2.recv_frame = y.recv_frame
      BY <1>2 DEF SendPtrRelease, EndpointOK, EndpointType
    <2>2. Path(y2, down \o y.send_frame.frame, x) = Path(y, down, x)
      BY <2>1, PathTransmit
    <2>3. Path(x, up, y2) = Path(x, up, y)
      BY <2>1 DEF Path
    <2>4. PtrFrame(x)
      BY DEF Flow
    <2> QED
      BY <2>1, <2>2, <2>3, <2>4, FlowMoved
  <1> QED
    BY <1>1, <1>2

(* A frame without an acknowledgement is lost. *)
LEMMA FlowLoseData ==
    ASSUME NEW st, NEW x, EndpointOK(x), NEW y, EndpointOK(y),
           NEW up \in Seq(FrameType), NEW down \in Seq(FrameType), NEW s, NEW r,
           Flow(st, x, up, y, down, s, r), x.send_frame.frame # <<>>,
           NEW x2, x2 = SendPtrRelease(x)
    PROVE  Flow(st, x2, up, y, down, s, r)
  <1> DEFINE P  == Path(x, up, y)
             P2 == Path(x2, up, y)
             Q  == Path(y, down, x)
             f  == Head(x.send_frame.frame)
             A  == AckedNos(x.send_wnd)
             C  == Closed(x.send_wnd)
             Z  == Resendable(x.send_wnd, x.send_wnd_ptr)
             G  == GotNos(y.recv_wnd)
             D  == DueNos(y.recv_wnd)
  <1>1. /\ PtrFrame(x2) /\ x2.send_frame.frame = <<>>
        /\ x2.send_wnd = x.send_wnd /\ x2.send_wnd_ptr = x.send_wnd_ptr
        /\ x2.recv_frame = x.recv_frame
    BY PtrSent
  <1>2. OneMore(P2, f, P)
    BY <1>1, PathLast
  <1>3. Path(y, down, x2) = Q
    BY <1>1 DEF Path
  <1>4. /\ Source(st, x, s) /\ OneSegRecv(st, y.recv_wnd, r) /\ SegFrames(st, P) /\ Once(P)
        /\ AckFrames(Q) /\ Exchange(A, G, D, C, SegNos(P), AckNos(Q), Z)
    BY DEF Flow, Knows
  <1>5. SegFrames(st, P2) /\ Once(P2) /\ SegNos(P2) \subseteq SegNos(P)
    <2> HIDE DEF P, P2, f
    <2> QED
      BY <1>2, <1>4 DEF OneMore
  <1>6. Exchange(A, G, D, C, SegNos(P2), AckNos(Q), Z)
    <2> HIDE DEF A, G, D, C, P, P2, Q, Z
    <2> QED
      BY <1>4, <1>5 DEF Exchange
  <1>7. Source(st, x2, s)
    BY <1>1, <1>4 DEF Source
  <1>8. Knows(x2, up, y, down)
    BY <1>1, <1>3, <1>6 DEF Knows
  <1> QED
    BY <1>1, <1>3, <1>4, <1>5, <1>7, <1>8 DEF Flow

LEMMA FlowLoseAnswer ==
    ASSUME NEW st, NEW x, EndpointOK(x), NEW y, EndpointOK(y),
           NEW up \in Seq(FrameType), NEW down \in Seq(FrameType), NEW s, NEW r,
           Flow(st, x, up, y, down, s, r),
           y.send_frame.frame # <<>>, ~Head(y.send_frame.frame).hdr.ack,
           NEW y2, y2 = SendPtrRelease(y)
    PROVE  Flow(st, x, up, y2, down, s, r)
  <1> DEFINE P  == Path(x, up, y)
             Q  == Path(y, down, x)
             Q2 == Path(y2, down, x)
             f  == Head(y.send_frame.frame)
  <1>1. /\ y2.send_frame.frame = <<>> /\ y2.recv_wnd = y.recv_wnd
        /\ y2.recv_frame = y.recv_frame
    BY DEF SendPtrRelease, EndpointOK, EndpointType
  <1>2. OneMore(Q2, f, Q)
    <2>1. OneMore(x.recv_frame \o down, f, Q)
      BY PathLast
    <2>2. Q2 = x.recv_frame \o down
      BY <1>1, PathLast
    <2> QED
      BY <2>1, <2>2
  <1>3. Path(x, up, y2) = P
    BY <1>1 DEF Path
  <1>4. AcksOf(f) = {}
    BY DEF AcksOf, HeardNos
  <1>5. AckNos(Q2) = AckNos(Q) /\ AckFrames(Q2)
    <2>1. AckFrames(Q)
      BY DEF Flow
    <2> HIDE DEF Q, Q2, f
    <2> QED
      BY <1>2, <1>4, <2>1 DEF OneMore
  <1> QED
    BY <1>1, <1>3, <1>5 DEF Flow, Knows

(* A frame is taken from the link. *)
LEMMA FlowFill ==
    ASSUME NEW st, NEW x, EndpointOK(x), NEW y, EndpointOK(y),
           NEW up \in Seq(FrameType), NEW down \in Seq(FrameType), NEW s, NEW r,
           Flow(st, x, up, y, down, s, r)
    PROVE  /\ \A x2 : /\ x2 = RecvFill(x, Head(down)) /\ down # <<>> /\ x.recv_frame = <<>>
                      /\ ~x.need_poll
                      => Flow(st, x2, up, y, Tail(down), s, r)
           /\ \A y2 : y2 = RecvFill(y, Head(up)) /\ up # <<>> /\ y.recv_frame = <<>> =>
                 Flow(st, x, Tail(up), y2, down, s, r)
  <1>1. ASSUME NEW x2, x2 = RecvFill(x, Head(down)), down # <<>>, x.recv_frame = <<>>,
               ~x.need_poll
        PROVE  Flow(st, x2, up, y, Tail(down), s, r)
    <2>1. /\ x2.send_frame = x.send_frame /\ x2.recv_frame = <<Head(down)>>
          /\ x2.send_wnd = x.send_wnd /\ x2.send_wnd_ptr = x.send_wnd_ptr
      BY <1>1 DEF RecvFill, EndpointOK, EndpointType
    <2>2. Path(y, Tail(down), x2) = Path(y, down, x)
      BY <1>1, <2>1, PathFill
    <2>3. Path(x2, up, y) = Path(x, up, y)
      BY <2>1 DEF Path
    <2>4. PtrFrame(x2)
      BY <1>1, <2>1 DEF Flow, PtrFrame
    <2> QED
      BY <2>1, <2>2, <2>3, <2>4, FlowMoved
  <1>2. ASSUME NEW y2, y2 = RecvFill(y, Head(up)), up # <<>>, y.recv_frame = <<>>
        PROVE  Flow(st, x, Tail(up), y2, down, s, r)
    <2>1. /\ y2.send_frame = y.send_frame /\ y2.recv_frame = <<Head(up)>>
          /\ y2.recv_wnd = y.recv_wnd
      BY <1>2 DEF RecvFill, EndpointOK, EndpointType
    <2>2. Path(x, Tail(up), y2) = Path(x, up, y)
      BY <1>2, <2>1, PathFill
    <2>3. Path(y2, down, x) = Path(y, down, x)
      BY <2>1 DEF Path
    <2>4. PtrFrame(x)
      BY DEF Flow
    <2> QED
      BY <2>1, <2>2, <2>3, <2>4, FlowMoved
  <1> QED
    BY <1>1, <1>2

(* arq_send: messages that were closed keep their bytes. *)
LEMMA SameSegFrames ==
    ASSUME NEW st, NEW st2, NEW p, SegFrames(st, p), NEW m \in Nat, SegNos(p) \subseteq 0..(m - 1),
           \A n \in 0..m : st2[n] = st[n]
    PROVE  SegFrames(st2, p)
  <1> SUFFICES ASSUME NEW f \in Range(p) PROVE SegFrame(st2, f)
    BY DEF SegFrames
  <1>1. SegFrame(st, f)
    BY DEF SegFrames
  <1>2. ASSUME f.hdr.seg PROVE MsgBytes(st2, f.hdr.seq_num) = MsgBytes(st, f.hdr.seq_num)
    <2> DEFINE n == f.hdr.seq_num
    <2>1. n \in SegNos(p)
      BY <1>2 DEF SegNos, SegOf
    <2> HIDE DEF n
    <2>2. n \in 0..m /\ n + 1 \in 0..m
      BY <2>1
    <2>3. st2[n] = st[n] /\ st2[n + 1] = st[n + 1]
      BY <2>2
    <2>4. MsgBytes(st2, n) = MsgBytes(st, n)
      BY <2>3 DEF MsgBytes, LenOf
    <2> QED
      BY <2>4 DEF n
  <1> QED
    BY <1>1, <1>2 DEF SegFrame

LEMMA FlowSend ==
    ASSUME OneSegment, NEW st, NEW x, EndpointOK(x), NEW y, EndpointOK(y),
           NEW up \in Seq(FrameType), NEW down \in Seq(FrameType), NEW s, NEW r,
           Flow(st, x, up, y, down, s, r), MayGrow(x.send_wnd), NEW data \in Seq(Nat),
           Follows(data, s), s + Accepted(x.send_wnd, Len(data)) < SeqMod
    PROVE  \E st2 : Flow(st2, ArqSend(x, data), up, y, down,
                         s + Accepted(x.send_wnd, Len(data)), r)
  <1> DEFINE w  == x.send_wnd
             w2 == SendWndSend(w, data)
             s2 == s + Accepted(w, Len(data))
             x2 == ArqSend(x, data)
             p  == x.send_wnd_ptr
             v  == y.recv_wnd
             G  == GotNos(v)
             D  == DueNos(v)
             P  == Path(x, up, y)
             Q  == Path(y, down, x)
             F  == SegNos(P)
             K  == AckNos(Q)
  <1>1. /\ OneSegWnd(w) /\ Starts(st, w, s) /\ Content(w, s) /\ PtrOK(w, p)
        /\ PtrFrame(x) /\ OneSegRecv(st, v, r) /\ SegFrames(st, P) /\ Once(P)
        /\ AckFrames(Q) /\ st \in [Nat -> Nat]
        /\ Exchange(AckedNos(w), G, D, Closed(w), F, K, Resendable(w, p))
    BY SourceType DEF Flow, Knows, Source
  <1>2. /\ OneSegWnd(w2) /\ Grown(w, w2) /\ Content(w2, s2)
        /\ \E st2 : Starts(st2, w2, s2) /\ \A n \in 0..Closed(w) : st2[n] = st[n]
    <2>1. /\ MayGrow(w) /\ data \in Seq(Nat) /\ Follows(data, s)
          /\ s + Accepted(w, Len(data)) < SeqMod
          /\ OneSegWnd(w) /\ Starts(st, w, s) /\ Content(w, s)
      BY <1>1
    <2> HIDE DEF w
    <2> QED
      BY ONLY OneSegment, <2>1, OneSend
  <1>3. PICK st2 : Starts(st2, w2, s2) /\ \A n \in 0..Closed(w) : st2[n] = st[n]
    BY <1>2
  <1>4. /\ x2.send_wnd = w2 /\ x2.send_wnd_ptr = p /\ x2.send_frame = x.send_frame
        /\ x2.recv_frame = x.recv_frame /\ x2.need_poll = x.need_poll
    BY DEF ArqSend, EndpointOK, EndpointType
  <1> HIDE DEF w2, x2
  <1>5. Path(x2, up, y) = P /\ Path(y, down, x2) = Q /\ PtrFrame(x2)
    BY <1>1, <1>4 DEF Path, PtrFrame
  <1>6. /\ PtrOK(w2, p) /\ Resendable(w2, p) \subseteq NextToSend(w, p, w2, 0)
        /\ AckedNos(w2) = AckedNos(w) /\ Closed(w) <= Closed(w2)
        /\ Closed(w) \in Nat /\ Closed(w2) \in Nat
    <2>1. Closed(w) \in Nat /\ Closed(w2) \in Nat
      BY <1>1, <1>2, EndFacts
    <2>2. PtrOK(w2, p) /\ Resendable(w2, p) \subseteq NextToSend(w, p, w2, 0)
      BY <1>1, <1>2, GrownSends
    <2> QED
      BY <1>2, <2>1, <2>2 DEF Grown
  <1>7. Source(st2, x2, s2)
    BY <1>2, <1>3, <1>4, <1>6 DEF Source
  <1>8. G \subseteq 0..(Closed(w) - 1) /\ F \subseteq 0..(Closed(w) - 1)
    BY <1>1 DEF Exchange
  <1>9. OneSegRecv(st2, v, r)
    <2>1. st2 \in [Nat -> Nat]
      BY <1>3 DEF Starts
    <2> QED
      BY <1>1, <1>3, <1>6, <1>8, <2>1, OneRecvGrows
  <1>10. SegFrames(st2, P)
    BY <1>1, <1>3, <1>6, <1>8, SameSegFrames
  <1>11. Exchange(AckedNos(w2), G, D, Closed(w2), F, K, Resendable(w2, p))
    <2> DEFINE N  == NextToSend(w, p, w2, 0)
               Z2 == Resendable(w2, p)
    <2>1. N \cap (F \cup G) = {}
      <3>1. AckedNos(w) \subseteq AckedNos(w2)
        BY <1>6
      <3>2. N = NextToSend(w, p, w2, 0) /\ 0 \in Nat /\ ~(0 > 0)
        OBVIOUS
      <3>3. /\ OneSegWnd(w) /\ OneSegWnd(w2)
            /\ Exchange(AckedNos(w), G, D, Closed(w), F, K, Resendable(w, p))
        BY <1>1, <1>2
      <3> HIDE DEF G, D, F, K, w, p, N
      <3> QED
        BY ONLY <3>1, <3>2, <3>3, NextIsNew
    <2>2. Z2 \cap (F \cup G) = {}
      BY <1>6, <2>1
    <2> HIDE DEF G, D, F, K, w, p, N, Z2
    <2>3. /\ Exchange(AckedNos(w), G, D, Closed(w), F, K, Resendable(w, p))
          /\ AckedNos(w2) = AckedNos(w) /\ Closed(w) \in Nat /\ Closed(w2) \in Nat
          /\ Closed(w) <= Closed(w2)
      BY <1>1, <1>6
    <2>4. Exchange(AckedNos(w2), G, D, Closed(w2), F, K, Z2)
      BY ONLY <2>2, <2>3 DEF Exchange
    <2> QED
      BY <2>4 DEF Z2
  <1>12. Knows(x2, up, y, down)
    BY <1>4, <1>5, <1>11 DEF Knows
  <1>13. Flow(st2, x2, up, y, down, s2, r)
    BY <1>1, <1>5, <1>7, <1>9, <1>10, <1>12 DEF Flow
  <1> QED
    BY <1>13 DEF x2

(* arq_recv, once no acknowledgement is due *)
LEMMA FlowRead ==
    ASSUME OneSegment, NEW st, NEW x, NEW y, EndpointOK(y), NEW up, NEW down, NEW s, NEW r,
           Flow(st, x, up, y, down, s, r), AcksDue(y.recv_wnd) = {}, NEW max \in Nat
    PROVE  Flow(st, x, up, ArqRecv(y, max), down, s, r \o RecvData(y.recv_wnd, max))
  <1> DEFINE v  == y.recv_wnd
             v2 == RecvWndRecv(v, max)
             y2 == ArqRecv(y, max)
             r2 == r \o RecvData(v, max)
  <1>1. OneSegRecv(st, v, r) /\ st \in [Nat -> Nat] /\ MsgSegs = 1
    BY SourceType DEF Flow, OneSegment
  <1>2. /\ y2.recv_wnd = v2 /\ y2.send_frame = y.send_frame /\ y2.recv_frame = y.recv_frame
    BY DEF ArqRecv, EndpointOK, EndpointType
  <1>3. OneSegRecv(st, v2, r2) /\ GotNos(v2) = GotNos(v) /\ DueNos(v2) = {}
    BY <1>1, OneRead
  <1>4. DueNos(v) = {}
    BY <1>1, NoAcksDue
  <1> HIDE DEF v2, y2, r2
  <1>5. Path(x, up, y2) = Path(x, up, y) /\ Path(y2, down, x) = Path(y, down, x)
    BY <1>2 DEF Path
  <1>6. Knows(x, up, y2, down)
    BY <1>2, <1>3, <1>4, <1>5 DEF Flow, Knows
  <1> QED
    BY <1>2, <1>3, <1>5, <1>6 DEF Flow, y2, r2
----------------------------------------------------------------------------
(* Data: no step leaves the two streams in disorder *)

(* Under what conditions messages arrive once and in order: each is one segment
   and is sent again only after a while, its number is not used twice, there
   are no connections, acknowledgements are not lost, nothing is damaged, timers
   run out only while no frame is under way, and the applications wait as they should.
   Data may be lost, clocks may differ, and readers may be slow. *)
Orderly ==
    /\ OneSegment /\ MaxBytes < SeqMod
    /\ ~UseConnections /\ Connectors = {}
    /\ Env \cap {"lose_acks", "corrupt", "early_timeout", "eager_recv", "append", "send_behind",
                 "flush_again", "late_poll"} = {}

Direction(x, up, y, down, s, r) == \E st : Flow(st, x, up, y, down, s, r)

(* The messages from e to the other end. *)
InOrder(e) ==
    Direction(arq[e], chan[Peer(e)], arq[Peer(e)], chan[e], sent[e], rcvd[Peer(e)])

Streams == DOMAIN rcvd = Node /\ \A e \in Node : InOrder(e)

LEMMA StreamsHere ==
    ASSUME Inv, Streams, NEW e \in Node
    PROVE  /\ EndpointOK(arq[e]) /\ EndpointOK(arq[Peer(e)])
           /\ chan[e] \in Seq(FrameType) /\ chan[Peer(e)] \in Seq(FrameType)
           /\ sent[e] \in Nat /\ sent[Peer(e)] \in Nat
           /\ Direction(arq[e], chan[Peer(e)], arq[Peer(e)], chan[e], sent[e], rcvd[Peer(e)])
           /\ Direction(arq[Peer(e)], chan[e], arq[e], chan[Peer(e)], sent[Peer(e)], rcvd[e])
           /\ Peer(e) \in Node /\ Peer(Peer(e)) = e /\ Peer(e) # e
           /\ e \in DOMAIN rcvd /\ Peer(e) \in DOMAIN rcvd
  <1>1. Peer(e) \in Node /\ Peer(Peer(e)) = e /\ Peer(e) # e
    BY Ends
  <1>2. InOrder(e) /\ InOrder(Peer(e))
    BY <1>1 DEF Streams
  <1>3. /\ Direction(arq[e], chan[Peer(e)], arq[Peer(e)], chan[e], sent[e], rcvd[Peer(e)])
        /\ Direction(arq[Peer(e)], chan[e], arq[e], chan[Peer(e)], sent[Peer(e)], rcvd[e])
    BY <1>1, <1>2 DEF InOrder
  <1> QED
    BY <1>1, <1>3 DEF Inv, ChanOK, Streams

(* A step in which one endpoint becomes y. *)
LEMMA StreamsStep ==
    ASSUME Inv, Streams, NEW e \in Node, NEW y, arq' = [arq EXCEPT ![e] = y],
           NEW u, NEW d, NEW s, NEW r, NEW s2, NEW r2,
           chan'[Peer(e)] = u, chan'[e] = d, sent'[e] = s, rcvd'[Peer(e)] = r,
           sent'[Peer(e)] = s2, rcvd'[e] = r2, DOMAIN rcvd' = Node,
           Direction(y, u, arq[Peer(e)], d, s, r), Direction(arq[Peer(e)], d, y, u, s2, r2)
    PROVE  Streams'
  <1>1. arq'[e] = y /\ arq'[Peer(e)] = arq[Peer(e)]
    BY ArqFields
  <1>2. Peer(e) \in Node /\ Peer(Peer(e)) = e /\ \A x \in Node : x = e \/ x = Peer(e)
    BY Ends
  <1>3. InOrder(e)'
    BY <1>1 DEF InOrder
  <1>4. InOrder(Peer(e))'
    BY <1>1, <1>2 DEF InOrder
  <1> QED
    BY <1>2, <1>3, <1>4 DEF Streams

(* Where nothing is said or read, only the endpoint and the link change. *)
LEMMA StreamsQuietStep ==
    ASSUME Inv, Streams, NEW e \in Node, NEW y, arq' = [arq EXCEPT ![e] = y],
           sent' = sent, rcvd' = rcvd,
           Direction(y, chan'[Peer(e)], arq[Peer(e)], chan'[e], sent[e], rcvd[Peer(e)]),
           Direction(arq[Peer(e)], chan'[e], y, chan'[Peer(e)], sent[Peer(e)], rcvd[e])
    PROVE  Streams'
  <1>1. sent' = sent /\ rcvd' = rcvd /\ DOMAIN rcvd' = Node
    BY DEF Streams
  <1> QED
    BY <1>1, StreamsStep

LEMMA UnsentSelf == \A x : Unsent(x, x) /\ Unread(x, x)
  BY DEF Unsent, Unread

(* A step of an endpoint that neither sends nor reads. *)
LEMMA StreamsIdleStep ==
    ASSUME Inv, Streams, NEW e \in Node, NEW y, Unsent(arq[e], y), Unread(arq[e], y),
           arq' = [arq EXCEPT ![e] = y], chan' = chan, sent' = sent, rcvd' = rcvd
    PROVE  Streams'
  <1>1. Direction(y, chan[Peer(e)], arq[Peer(e)], chan[e], sent[e], rcvd[Peer(e)])
    BY StreamsHere, FlowUnsent, UnsentSelf DEF Direction
  <1>2. Direction(arq[Peer(e)], chan[e], y, chan[Peer(e)], sent[Peer(e)], rcvd[e])
    BY StreamsHere, FlowUnsent, UnsentSelf DEF Direction
  <1> QED
    BY <1>1, <1>2, StreamsQuietStep

LEMMA StreamsPtrGet ==
    ASSUME Inv, Streams, NEW e \in Node, PtrGet(e)
    PROVE  Streams'
  <1> DEFINE y == SendPtrGet(arq[e])
  <1>1. EndpointOK(arq[e])
    BY DEF Inv
  <1>2. Unsent(arq[e], y) /\ Unread(arq[e], y)
    BY <1>1 DEF SendPtrGet, Unsent, Unread, EndpointOK, EndpointType
  <1>3. arq' = [arq EXCEPT ![e] = y] /\ chan' = chan /\ sent' = sent /\ rcvd' = rcvd
    BY DEF PtrGet
  <1> QED
    BY <1>2, <1>3, StreamsIdleStep

(* A whole message of one segment needs no flush. *)
LEMMA StreamsFlush ==
    ASSUME Orderly, Inv, Streams, NEW e \in Node, AppFlush(e)
    PROVE  Streams'
  <1> DEFINE y == ArqFlush(arq[e])
             w == arq[e].send_wnd
  <1>1. EndpointOK(arq[e])
    BY DEF Inv
  <1>2. OneSegWnd(w)
    BY StreamsHere DEF Direction, Flow, Source
  <1>3. LET m == w.msg[TailSeq(w) % SendCap] IN m.full_ack_vec # AckVec(SegCount(m.len))
    BY DEF AppFlush, MayFlush, Orderly
  <1>4. SendWndFlush(w) = w
    BY <1>2, <1>3, OneFlush DEF Orderly
  <1>5. Unsent(arq[e], y) /\ Unread(arq[e], y)
    BY <1>1, <1>4 DEF ArqFlush, Unsent, Unread, EndpointOK, EndpointType
  <1>6. arq' = [arq EXCEPT ![e] = y] /\ chan' = chan /\ sent' = sent /\ rcvd' = rcvd
    BY DEF AppFlush
  <1> QED
    BY <1>5, <1>6, StreamsIdleStep

LEMMA StreamsTransmit ==
    ASSUME Inv, Streams, NEW e \in Node, Transmit(e)
    PROVE  Streams'
  <1> DEFINE y == SendPtrRelease(arq[e])
             q == chan[Peer(e)] \o arq[e].send_frame.frame
  <1>1. /\ arq' = [arq EXCEPT ![e] = y] /\ chan' = [chan EXCEPT ![Peer(e)] = q]
        /\ sent' = sent /\ rcvd' = rcvd
    BY DEF Transmit
  <1>2. arq[e].send_frame.frame # <<>>
    BY DEF Inv, EndpointOK, Transmit
  <1>3. Direction(y, q, arq[Peer(e)], chan[e], sent[e], rcvd[Peer(e)])
    BY <1>2, StreamsHere, FlowTransmit DEF Direction
  <1>4. Direction(arq[Peer(e)], chan[e], y, q, sent[Peer(e)], rcvd[e])
    BY StreamsHere, FlowTransmit DEF Direction
  <1> HIDE DEF y, q
  <1>5. chan'[Peer(e)] = q /\ chan'[e] = chan[e]
    <2>1. Peer(e) \in Node /\ Peer(Peer(e)) = e
      BY Ends
    <2> QED
      BY <1>1, <2>1, ChanFields
  <1> QED
    BY <1>1, <1>3, <1>4, <1>5, StreamsQuietStep

LEMMA StreamsLose ==
    ASSUME Orderly, Inv, Streams, NEW e \in Node, TransmitLost(e)
    PROVE  Streams'
  <1> DEFINE y == SendPtrRelease(arq[e])
             c == arq[e].send_frame.frame
  <1>1. /\ arq' = [arq EXCEPT ![e] = y] /\ chan' = chan
        /\ sent' = sent /\ rcvd' = rcvd
    BY DEF TransmitLost
  <1>2. c # <<>>
    BY DEF Inv, EndpointOK, TransmitLost
  <1>3. ~Head(c).hdr.ack
    <2>1. MayLose(c[1].hdr)
      BY DEF TransmitLost
    <2>2. c = <<Head(c)>>
      BY <1>2, FrameBufs DEF Inv
    <2>3. MayLose(Head(c).hdr)
      BY <2>1, <2>2
    <2> QED
      BY <2>3 DEF MayLose, Orderly
  <1>4. Direction(y, chan[Peer(e)], arq[Peer(e)], chan[e], sent[e], rcvd[Peer(e)])
    BY <1>2, StreamsHere, FlowLoseData DEF Direction
  <1>5. Direction(arq[Peer(e)], chan[e], y, chan[Peer(e)], sent[Peer(e)], rcvd[e])
    BY <1>2, <1>3, StreamsHere, FlowLoseAnswer DEF Direction
  <1> HIDE DEF y
  <1> QED
    BY <1>1, <1>4, <1>5, StreamsQuietStep

LEMMA StreamsFill ==
    ASSUME Orderly, Inv, Streams, NEW e \in Node, Fill(e)
    PROVE  Streams'
  <1> DEFINE y == RecvFill(arq[e], Head(chan[e]))
             q == Tail(chan[e])
  <1>1. /\ arq' = [arq EXCEPT ![e] = y] /\ chan' = [chan EXCEPT ![e] = q]
        /\ sent' = sent /\ rcvd' = rcvd
    BY DEF Fill, Inv
  <1>2. chan[e] # <<>> /\ arq[e].recv_frame = <<>> /\ ~arq[e].need_poll
    BY DEF Fill, Orderly
  <1>3. Direction(y, chan[Peer(e)], arq[Peer(e)], q, sent[e], rcvd[Peer(e)])
    BY <1>2, StreamsHere, FlowFill DEF Direction
  <1>4. Direction(arq[Peer(e)], q, y, chan[Peer(e)], sent[Peer(e)], rcvd[e])
    BY <1>2, StreamsHere, FlowFill DEF Direction
  <1> HIDE DEF y, q
  <1>5. chan'[e] = q /\ chan'[Peer(e)] = chan[Peer(e)]
    BY <1>1, ChanFields
  <1> QED
    BY <1>1, <1>3, <1>4, <1>5, StreamsQuietStep

LEMMA StreamsSend ==
    ASSUME Orderly, Inv, Streams, NEW e \in Node, NEW n \in SendLens, AppSend(e, n)
    PROVE  Streams'
  <1> DEFINE a    == arq[e]
             w    == a.send_wnd
             data == Stream(e, n)
             k    == Accepted(w, n)
             y    == ArqSend(a, data)
  <1>1. /\ arq' = [arq EXCEPT ![e] = y] /\ chan' = chan /\ rcvd' = rcvd
        /\ sent' = [sent EXCEPT ![e] = @ + k] /\ sent[e] + n <= MaxBytes /\ MayAppend(e)
    BY DEF AppSend
  <1>2. n \in Nat /\ MaxBytes \in Nat /\ SeqMod \in Nat /\ sent \in [Node -> Nat]
    BY ArgumentsAssumption, BoundsAssumption, SeqModAssumption DEF Inv
  <1>3. EndpointOK(a) /\ w \in SendWndType /\ k \in 0..n
    <2>1. EndpointOK(a) /\ w \in SendWndType
      BY DEF Inv, EndpointOK, EndpointType
    <2> QED
      BY <1>2, <2>1, AcceptedType
  <1>4. data \in Seq(Nat) /\ Len(data) = n /\ Follows(data, sent[e])
    BY <1>2 DEF Stream, Follows
  <1>5. MayGrow(w)
    BY <1>1 DEF MayAppend, MayGrow, Orderly
  <1>6. /\ EndpointOK(arq[Peer(e)]) /\ chan[e] \in Seq(FrameType) /\ chan[Peer(e)] \in Seq(FrameType)
        /\ Peer(e) \in Node /\ Peer(e) # e
    BY StreamsHere
  <1>7. sent[e] + k < SeqMod /\ OneSegment
    BY <1>1, <1>2, <1>3 DEF Orderly
  <1>8. Direction(y, chan[Peer(e)], arq[Peer(e)], chan[e], sent[e] + k, rcvd[Peer(e)])
    <2>1. PICK st : Flow(st, a, chan[Peer(e)], arq[Peer(e)], chan[e], sent[e], rcvd[Peer(e)])
      BY StreamsHere DEF Direction
    <2> HIDE DEF a, data
    <2>2. \E st2 : Flow(st2, y, chan[Peer(e)], arq[Peer(e)], chan[e], sent[e] + k, rcvd[Peer(e)])
      BY <1>3, <1>4, <1>5, <1>6, <1>7, <2>1, FlowSend
    <2> QED
      BY <2>2 DEF Direction
  <1>9. Direction(arq[Peer(e)], chan[e], y, chan[Peer(e)], sent[Peer(e)], rcvd[e])
    <2>1. Unread(a, y)
      BY <1>3 DEF ArqSend, Unread, EndpointOK, EndpointType
    <2> QED
      BY <2>1, StreamsHere, FlowUnsent, UnsentSelf DEF Direction
  <1>10. sent'[e] = sent[e] + k /\ sent'[Peer(e)] = sent[Peer(e)]
    <2> HIDE DEF k
    <2> QED
      BY <1>1, <1>2, <1>6
  <1>11. chan' = chan /\ rcvd' = rcvd /\ DOMAIN rcvd' = Node
    BY <1>1 DEF Streams
  <1> HIDE DEF y, k
  <1> QED
    BY <1>1, <1>8, <1>9, <1>10, <1>11, StreamsStep

LEMMA StreamsRecv ==
    ASSUME Orderly, Inv, Streams, NEW e \in Node, NEW max \in RecvMaxs, AppRecv(e, max)
    PROVE  Streams'
  <1> DEFINE a  == arq[e]
             y  == ArqRecv(a, max)
             rd == RecvData(a.recv_wnd, max)
  <1>1. /\ arq' = [arq EXCEPT ![e] = y] /\ chan' = chan /\ sent' = sent
        /\ rcvd' = [rcvd EXCEPT ![e] = @ \o rd]
        /\ ~a.need_poll /\ a.send_frame.frame = <<>>
    BY DEF AppRecv, Orderly
  <1>2. EndpointOK(a) /\ max \in Nat /\ OneSegment
    BY ArgumentsAssumption DEF Inv, Orderly
  <1>3. AcksDue(a.recv_wnd) = {}
    BY <1>1, <1>2, FreeOrWaiting DEF EndpointOK, OwesNothing
  <1>4. Direction(arq[Peer(e)], chan[e], y, chan[Peer(e)], sent[Peer(e)], rcvd[e] \o rd)
    <2>1. PICK st : Flow(st, arq[Peer(e)], chan[e], a, chan[Peer(e)], sent[Peer(e)], rcvd[e])
      BY StreamsHere DEF Direction
    <2> HIDE DEF a
    <2>2. Flow(st, arq[Peer(e)], chan[e], y, chan[Peer(e)], sent[Peer(e)], rcvd[e] \o rd)
      BY <1>2, <1>3, <2>1, FlowRead
    <2> QED
      BY <2>2 DEF Direction
  <1>5. Direction(y, chan[Peer(e)], arq[Peer(e)], chan[e], sent[e], rcvd[Peer(e)])
    <2>1. Unsent(a, y)
      BY <1>2 DEF ArqRecv, Unsent, EndpointOK, EndpointType
    <2> QED
      BY <2>1, StreamsHere, FlowUnsent, UnsentSelf DEF Direction
  <1>6. rcvd'[e] = rcvd[e] \o rd /\ rcvd'[Peer(e)] = rcvd[Peer(e)] /\ DOMAIN rcvd' = Node
    <2>1. e \in DOMAIN rcvd /\ Peer(e) \in DOMAIN rcvd /\ Peer(e) # e
      BY StreamsHere
    <2> HIDE DEF rd
    <2> QED
      BY <1>1, <2>1 DEF Streams
  <1> HIDE DEF y, rd
  <1> QED
    BY <1>1, <1>4, <1>5, <1>6, StreamsStep

(* While nothing is under way no message is, and no acknowledgement is due. *)
LEMMA QuietFlow ==
    ASSUME Inv, Quiet, NEW e \in Node,
           NEW st, NEW s, NEW r, Flow(st, arq[e], chan[Peer(e)], arq[Peer(e)], chan[e], s, r)
    PROVE  /\ SegNos(Path(arq[e], chan[Peer(e)], arq[Peer(e)])) = {}
           /\ AckNos(Path(arq[Peer(e)], chan[e], arq[e])) = {}
           /\ DueNos(arq[Peer(e)].recv_wnd) = {}
  <1>1. Peer(e) \in Node
    BY Ends
  <1>2. /\ Path(arq[e], chan[Peer(e)], arq[Peer(e)]) = <<>>
        /\ Path(arq[Peer(e)], chan[e], arq[e]) = <<>>
    BY <1>1 DEF Quiet, Path
  <1>3. AcksDue(arq[Peer(e)].recv_wnd) = {}
    <2>1. EndpointOK(arq[Peer(e)])
      BY <1>1 DEF Inv
    <2>2. arq[Peer(e)].send_frame.frame = <<>> /\ ~arq[Peer(e)].need_poll
      BY <1>1 DEF Quiet
    <2> QED
      BY <2>1, <2>2, FreeOrWaiting DEF EndpointOK, OwesNothing
  <1>4. OneSegRecv(st, arq[Peer(e)].recv_wnd, r) /\ st \in [Nat -> Nat]
    BY SourceType DEF Flow
  <1>5. DueNos(arq[Peer(e)].recv_wnd) = {}
    BY <1>3, <1>4, NoAcksDue
  <1> QED
    BY <1>2, <1>5, NoPath

LEMMA StreamsPoll ==
    ASSUME Orderly, Inv, Streams, NEW e \in Node, NEW dt \in Nat, Poll(e, dt)
    PROVE  Streams'
  <1> DEFINE a == arq[e]
             b == arq[Peer(e)]
             y == BackendPoll(a, dt).arq
  <1>1. /\ arq' = [arq EXCEPT ![e] = y] /\ chan' = chan /\ sent' = sent /\ rcvd' = rcvd
        /\ dt > 0 => Quiet
    BY DEF Poll, MayTick, Orderly
  <1>2. /\ EndpointOK(a) /\ EndpointOK(b) /\ chan[e] \in Seq(FrameType)
        /\ chan[Peer(e)] \in Seq(FrameType) /\ sent[e] \in Nat
        /\ OneSegment /\ ~UseConnections
    BY StreamsHere DEF Orderly
  <1>3. Direction(y, chan[Peer(e)], b, chan[e], sent[e], rcvd[Peer(e)])
    <2>1. PICK st : Flow(st, a, chan[Peer(e)], b, chan[e], sent[e], rcvd[Peer(e)])
      BY StreamsHere DEF Direction
    <2>2. dt > 0 => /\ SegNos(Path(a, chan[Peer(e)], b)) = {}
                    /\ AckNos(Path(b, chan[e], a)) = {}
                    /\ DueNos(b.recv_wnd) = {}
      BY <1>1, <2>1, QuietFlow
    <2> HIDE DEF a, b
    <2>3. Flow(st, y, chan[Peer(e)], b, chan[e], sent[e], rcvd[Peer(e)])
      BY <1>2, <2>1, <2>2, FlowSenderPoll
    <2> QED
      BY <2>3 DEF Direction
  <1>4. Direction(b, chan[e], y, chan[Peer(e)], sent[Peer(e)], rcvd[e])
    <2>1. PICK st : Flow(st, b, chan[e], a, chan[Peer(e)], sent[Peer(e)], rcvd[e])
      BY StreamsHere DEF Direction
    <2> HIDE DEF a, b
    <2>2. Flow(st, b, chan[e], y, chan[Peer(e)], sent[Peer(e)], rcvd[e])
      BY <1>2, <2>1, FlowReceiverPoll
    <2> QED
      BY <2>2 DEF Direction
  <1> HIDE DEF y
  <1> QED
    BY <1>1, <1>3, <1>4, StreamsQuietStep

LEMMA StreamsPollBoth ==
    ASSUME Orderly, Inv, Streams, NEW dt \in Nat, PollBoth(dt)
    PROVE  Streams'
  <1> SUFFICES ASSUME NEW e \in Node PROVE InOrder(e)'
    BY DEF Streams, PollBoth
  <1> DEFINE a  == arq[e]
             b  == arq[Peer(e)]
             a2 == BackendPoll(a, dt).arq
             b2 == BackendPoll(b, dt).arq
  <1>1. /\ arq'[e] = a2 /\ arq'[Peer(e)] = b2
        /\ chan' = chan /\ sent' = sent /\ rcvd' = rcvd /\ Quiet
    BY Ends DEF PollBoth
  <1>2. /\ EndpointOK(a) /\ EndpointOK(b) /\ chan[e] \in Seq(FrameType)
        /\ chan[Peer(e)] \in Seq(FrameType) /\ sent[e] \in Nat
        /\ OneSegment /\ ~UseConnections
    BY StreamsHere DEF Orderly
  <1>3. PICK st : Flow(st, a, chan[Peer(e)], b, chan[e], sent[e], rcvd[Peer(e)])
    BY StreamsHere DEF Direction
  <1>4. /\ SegNos(Path(a, chan[Peer(e)], b)) = {} /\ AckNos(Path(b, chan[e], a)) = {}
        /\ DueNos(b.recv_wnd) = {}
    BY <1>1, <1>3, QuietFlow
  <1> HIDE DEF a, b
  <1>5. Flow(st, a2, chan[Peer(e)], b, chan[e], sent[e], rcvd[Peer(e)])
    BY <1>2, <1>3, <1>4, FlowSenderPoll
  <1>6. EndpointOK(a2)
    BY <1>2, BackendPollOK
  <1> HIDE DEF a2
  <1>7. Flow(st, a2, chan[Peer(e)], b2, chan[e], sent[e], rcvd[Peer(e)])
    BY <1>2, <1>5, <1>6, FlowReceiverPoll
  <1> QED
    BY <1>1, <1>7 DEF InOrder, Direction

LEMMA InitStreams ==
    ASSUME Orderly, Init
    PROVE  Streams
  <1> DEFINE a  == ArqInit
             st == [n \in Nat |-> 0]
             sb == [j \in SendBufIdx |-> 0]
             rb == [j \in RecvBufIdx |-> 0]
             w  == SendWndRst(sb)
             v  == RecvWndRst(rb)
  <1>1. /\ a.send_wnd = w /\ a.recv_wnd = v /\ a.send_wnd_ptr = SendWndPtrRst
        /\ a.send_frame.frame = <<>> /\ a.recv_frame = <<>>
    BY DEF ArqInit
  <1>2. /\ OneSegWnd(w) /\ Content(w, 0) /\ Starts(st, w, 0)
        /\ Closed(w) = 0 /\ AckedNos(w) = {} /\ PtrOK(w, SendWndPtrRst)
    <2>1. sb \in [SendBufIdx -> Nat] /\ OneSegment
      BY DEF Orderly
    <2> HIDE DEF sb
    <2> QED
      BY <2>1, OneReset
  <1>3. OneSegRecv(st, v, <<>>) /\ GotNos(v) = {} /\ DueNos(v) = {}
    <2>1. rb \in [RecvBufIdx -> Nat] /\ st \in [Nat -> Nat] /\ st[0] = 0
      OBVIOUS
    <2> HIDE DEF rb, st
    <2> QED
      BY <2>1, OneRecvRst
  <1>4. Resendable(w, SendWndPtrRst) = {}
    BY <1>2 DEF Resendable, OpenNos
  <1>5. ~SendWndPtrRst.valid
    BY DEF SendWndPtrRst
  <1> HIDE DEF a, st, w, v
  <1>6. Path(a, <<>>, a) = <<>>
    BY <1>1 DEF Path
  <1>7. Knows(a, <<>>, a, <<>>)
    BY <1>1, <1>2, <1>3, <1>4, <1>6, NoPath DEF Knows, Exchange
  <1>8. Source(st, a, 0) /\ PtrFrame(a)
    BY <1>1, <1>2, <1>5 DEF Source, PtrFrame
  <1>9. Flow(st, a, <<>>, a, <<>>, 0, <<>>)
    BY <1>1, <1>3, <1>6, <1>7, <1>8, NoPath DEF Flow
  <1>10. ASSUME NEW e \in Node PROVE InOrder(e)
    <2>1. /\ arq[e] = a /\ arq[Peer(e)] = a /\ chan[e] = <<>> /\ chan[Peer(e)] = <<>>
          /\ sent[e] = 0 /\ rcvd[Peer(e)] = <<>>
      BY Ends DEF Init, a
    <2> QED
      BY <1>9, <2>1 DEF InOrder, Direction
  <1> QED
    BY <1>10 DEF Streams, Init

LEMMA NextStreams ==
    ASSUME Orderly, Inv, Streams, [Next]_vars
    PROVE  Streams'
  <1>1. Connectors = {} /\ "corrupt" \notin Env
    BY DEF Orderly
  <1>2. CASE UNCHANGED vars
    BY <1>2 DEF vars, Streams, InOrder
  <1>3. ASSUME Tick PROVE Streams'
    <2>1. PICK dt \in Dts \ {0} : PollBoth(dt)
      BY <1>3 DEF Tick
    <2> QED
      BY <2>1, StreamsPollBoth, ArgumentsAssumption
  <1>4. ASSUME NEW e \in Node, NEW n \in SendLens, AppSend(e, n) PROVE Streams'
    BY <1>4, StreamsSend
  <1>5. ASSUME NEW e \in Node, AppFlush(e) PROVE Streams'
    BY <1>5, StreamsFlush
  <1>6. ASSUME NEW e \in Node, Recv(e) PROVE Streams'
    BY <1>6, StreamsRecv DEF Recv
  <1>7. ASSUME NEW e \in Node PROVE ~AppConnect(e) /\ ~AppReset(e) /\ ~Corrupt(e)
    BY <1>1 DEF AppConnect, AppReset, Corrupt
  <1>8. ASSUME NEW e \in Node, Skew(e) \/ Poll(e, 0) PROVE Streams'
    <2>1. PICK dt \in (Dts \ {0}) \cup {0} : Poll(e, dt)
      BY <1>8 DEF Skew
    <2> QED
      BY <2>1, StreamsPoll, ArgumentsAssumption
  <1>9. ASSUME NEW e \in Node, PtrGet(e) PROVE Streams'
    BY <1>9, StreamsPtrGet
  <1>10. ASSUME NEW e \in Node, Transmit(e) PROVE Streams'
    BY <1>10, StreamsTransmit
  <1>11. ASSUME NEW e \in Node, TransmitLost(e) PROVE Streams'
    BY <1>11, StreamsLose
  <1>12. ASSUME NEW e \in Node, Fill(e) PROVE Streams'
    BY <1>12, StreamsFill
  <1> QED
    BY <1>2, <1>3, <1>4, <1>5, <1>6, <1>7, <1>8, <1>9, <1>10, <1>11, <1>12 DEF Next

LEMMA StreamsCorrect ==
    ASSUME Orderly
    PROVE  Spec => []Streams
  <1>1. Init => Streams
    BY InitStreams
  <1>2. Inv /\ Streams /\ [Next]_vars => Streams'
    BY NextStreams
  <1> QED
    BY <1>1, <1>2, InvCorrect, PTL DEF Spec
----------------------------------------------------------------------------
(* Data: what the order of the streams means *)

(* What was read of the stream is a prefix of what was sent. *)
LEMMA FlowReadBound ==
    ASSUME NEW st, NEW x, NEW up, NEW y, NEW down, NEW s, NEW r,
           Flow(st, x, up, y, down, s, r)
    PROVE  r = [k \in 1..Len(r) |-> k] /\ Len(r) \in Nat /\ Len(r) <= s /\ s \in Nat
  <1> DEFINE w == x.send_wnd
             m == Closed(w)
             v == y.recv_wnd
  <1>1. /\ OneSegWnd(w) /\ Starts(st, w, s) /\ OneSegRecv(st, v, r) /\ st \in [Nat -> Nat]
        /\ GotNos(v) \subseteq 0..(m - 1)
    BY SourceType DEF Flow, Source, Knows, Exchange
  <1>2. m \in Nat /\ SendEnd(w) \in Nat /\ m <= SendEnd(w)
    BY <1>1, EndFacts
  <1>3. st[SendEnd(w)] = s /\ s \in Nat
    BY <1>1, StartsInWindow DEF Starts
  <1> HIDE DEF w, m, v
  <1>4. \A b \in 0..SendEnd(w) : \A a \in 0..b : st[a] <= st[b]
    <2> SUFFICES ASSUME NEW b \in 0..SendEnd(w), NEW a \in 0..b PROVE st[a] <= st[b]
      OBVIOUS
    <2>1. st[a] \in Nat /\ st[b] \in Nat /\ st[a] + (b - a) <= st[b]
      BY <1>1, <1>2, StartsGrow
    <2>2. b - a \in Nat
      BY <1>2
    <2> QED
      BY <2>1, <2>2
  <1>5. m \in 0..SendEnd(w) /\ SendEnd(w) \in 0..SendEnd(w) /\ m \in 0..SendEnd(w)
    BY <1>2
  <1>6. \A n \in 0..m : st[n] <= st[m]
    BY <1>4, <1>5
  <1>7. st[m] <= s
    BY <1>3, <1>4, <1>5
  <1>8. Len(r) <= st[m] /\ Len(r) \in Nat /\ r = [k \in 1..Len(r) |-> k]
    BY <1>1, <1>2, <1>6, OneReadBound
  <1> HIDE DEF m
  <1>9. st[m] \in Nat
    BY <1>1, <1>2
  <1> DEFINE l == Len(r)
             e == st[m]
  <1>10. l <= e /\ e <= s /\ l \in Nat /\ e \in Nat /\ s \in Nat
    BY <1>3, <1>7, <1>8, <1>9
  <1> HIDE DEF l, e
  <1>11. l <= s
    BY <1>10
  <1> QED
    BY <1>3, <1>8, <1>11 DEF l

(* All that e's window has given up is there. *)
LEMMA FlowReleased ==
    ASSUME OneSegment, NEW st, NEW x, NEW up, NEW y, NEW down, NEW s \in Nat, NEW r,
           Flow(st, x, up, y, down, s, r)
    PROVE  LET rw == y.recv_wnd
               d  == Deliverable(rw)
           IN s - WndSizeInBytes(x.send_wnd)
                <= Len(r) + (IF d = 0 THEN 0 ELSE BytesBefore(rw, d) - rw.copy_ofs)
  <1> DEFINE w  == x.send_wnd
             rw == y.recv_wnd
             d  == Deliverable(rw)
             c  == rw.copy_seq + d
             h  == Len(r) + (IF d = 0 THEN 0 ELSE BytesBefore(rw, d) - rw.copy_ofs)
             G  == GotNos(rw)
  <1>1. /\ OneSegWnd(w) /\ Starts(st, w, s) /\ OneSegRecv(st, rw, r) /\ st \in [Nat -> Nat]
        /\ AckedNos(w) \subseteq G /\ G \subseteq 0..(Closed(w) - 1) /\ MsgSegs = 1
    BY SourceType DEF Flow, Source, Knows, Exchange, OneSegment
  <1>2. /\ w.seq \in Nat /\ Closed(w) \in Nat /\ w.seq <= Closed(w) /\ Closed(w) <= SendEnd(w)
        /\ SendEnd(w) \in Nat
    BY <1>1, EndFacts
  <1>3. 0..(w.seq - 1) \subseteq G
    BY <1>1, <1>2 DEF AckedNos
  <1>4. c \in Nat /\ 0..(c - 1) \subseteq G /\ w.seq <= c /\ st[c] <= h
    BY <1>1, <1>2, <1>3, OneHeld
  <1>5. s = st[w.seq] + WndSizeInBytes(w) /\ s \in Nat
    BY <1>1, StartsInWindow
  <1> HIDE DEF w, rw, c, h, G, d
  <1>6. c <= Closed(w)
    <2> SUFFICES ASSUME c > 0 PROVE c <= Closed(w)
      BY <1>2, <1>4
    <2>1. c - 1 \in 0..(c - 1)
      BY <1>4
    <2>2. c - 1 \in 0..(Closed(w) - 1)
      BY <1>1, <1>4, <2>1
    <2> QED
      BY <1>2, <1>4, <2>2
  <1>7. st[w.seq] <= st[c]
    <2>1. c \in 0..SendEnd(w) /\ w.seq \in 0..c
      BY <1>2, <1>4, <1>6
    <2>2. st[w.seq] \in Nat /\ st[c] \in Nat /\ st[w.seq] + (c - w.seq) <= st[c]
      BY <1>1, <1>2, <2>1, StartsGrow
    <2> QED
      BY <1>2, <1>4, <2>2
  <1>8. h \in Int /\ WndSizeInBytes(w) \in Int /\ st[w.seq] \in Nat /\ st[c] \in Nat
    <2>1. WndSizeInBytes(w) \in Int
      <3>1. w \in SendWndType
        BY <1>1 DEF OneSegWnd
      <3> QED
        BY <3>1, TailType
    <2>2. h \in Int
      <3>1. Len(r) \in Nat
        BY FlowReadBound
      <3>2. rw.copy_ofs \in Nat
        BY <1>1, RecvNumbers DEF OneSegRecv
      <3>3. BytesBefore(rw, d) \in Nat
        <4>1. d \in Nat
          BY <1>1, OneDeliverable DEF d
        <4> QED
          BY <1>1, <4>1, OneBytesBefore
      <3> QED
        BY <3>1, <3>2, <3>3 DEF h
    <2> QED
      BY <1>1, <1>2, <1>4, <2>1, <2>2
  <1>9. s - WndSizeInBytes(w) <= h
    BY <1>4, <1>5, <1>7, <1>8
  <1> QED
    BY <1>9 DEF w, h, d, rw

(* The message in the frame that x is about to send: all of it is there, and the other
   end has nothing of it. *)
LEMMA FlowFrame ==
    ASSUME NEW st, NEW x, EndpointOK(x), NEW y, EndpointOK(y), NEW up \in Seq(FrameType),
           NEW down, NEW s, NEW r, Flow(st, x, up, y, down, s, r),
           NEW f \in Range(x.send_frame.frame), f.hdr.seg
    PROVE  LET n == f.hdr.seq_num
           IN /\ n \in 0..(Closed(x.send_wnd) - 1) /\ n \notin GotNos(y.recv_wnd)
              /\ f.hdr.seg_id = 0 /\ f.data = MsgBytes(st, n) /\ LenOf(st, n) \in 1..MsgLen
  <1> DEFINE n == f.hdr.seq_num
             w == x.send_wnd
             P == Path(x, up, y)
             c == x.send_frame.frame
  <1>1. c = <<f>> /\ c # <<>>
    <2>1. c # <<>> => c = <<Head(c)>>
      BY FrameBufs
    <2>2. f \in Range(c)
      OBVIOUS
    <2> HIDE DEF c
    <2>3. c # <<>>
      BY <2>2 DEF Range
    <2> QED
      BY <2>1, <2>2, <2>3 DEF Range
  <1>2. OneMore(y.recv_frame \o up, f, P)
    <2>1. Head(c) = f
      BY <1>1
    <2> QED
      BY <1>1, <2>1, PathLast
  <1>3. /\ SegFrames(st, P) /\ OneSegWnd(w) /\ Starts(st, w, s)
        /\ SegNos(P) \subseteq 0..(Closed(w) - 1) /\ SegNos(P) \cap GotNos(y.recv_wnd) = {}
    BY DEF Flow, Source, Knows, Exchange
  <1>4. SegFrame(st, f) /\ n \in SegNos(P)
    BY <1>2, <1>3 DEF OneMore, SegOf
  <1>5. n \in 0..(Closed(w) - 1) /\ n \notin GotNos(y.recv_wnd)
    BY <1>3, <1>4
  <1>6. LenOf(st, n) \in 1..MsgLen
    <2>1. \A k \in 0..(SendEnd(w) - 1) : LenOf(st, k) \in 1..MsgLen
      BY <1>3 DEF Starts
    <2>2. n \in 0..(SendEnd(w) - 1)
      BY <1>3, <1>5, EndFacts
    <2> QED
      BY <2>1, <2>2
  <1> QED
    BY <1>4, <1>5, <1>6 DEF SegFrame

(* How far the sender is ahead of the start of the receive window. *)
LEMMA FlowAhead ==
    ASSUME NEW st, NEW x, NEW up, NEW y, NEW down, NEW s, NEW r,
           Flow(st, x, up, y, down, s, r)
    PROVE  SendEnd(x.send_wnd) <= y.recv_wnd.seq + RecvCap + SendCap
  <1> DEFINE w == x.send_wnd
             v == y.recv_wnd
  <1>1. /\ OneSegWnd(w) /\ OneSegRecv(st, v, r) /\ AckedNos(w) \subseteq GotNos(v)
    BY DEF Flow, Source, Knows, Exchange
  <1>2. /\ w.seq \in Nat /\ w.size \in Nat /\ w.size <= SendCap /\ SendCap \in Nat
        /\ SendEnd(w) = w.seq + w.size /\ Closed(w) \in Nat /\ w.seq <= Closed(w)
    BY <1>1, EndFacts
  <1>3. Upright(v)
    BY <1>1 DEF OneSegRecv
  <1>4. /\ v.seq \in Nat /\ v.size \in Nat /\ v.slide \in Nat /\ v.copy_seq = v.seq + v.slide
        /\ v.slide <= v.size /\ v.size <= RecvCap /\ RecvCap \in Nat \ {0}
    BY <1>3, RecvNumbers
  <1>5. w.seq <= v.seq + v.size
    <2> SUFFICES ASSUME w.seq > 0 PROVE w.seq <= v.seq + v.size
      BY <1>2, <1>4
    <2> DEFINE k == w.seq - 1
    <2>1. k \in 0..(Closed(w) - 1) /\ k < w.seq /\ k \in Nat
      BY <1>2
    <2>2. k \in GotNos(v)
      BY <1>1, <2>1 DEF AckedNos
    <2>3. CASE k < v.copy_seq
      BY <1>2, <1>4, <2>3
    <2>4. CASE ~(k < v.copy_seq)
      <3>1. k \in Ahead(v)
        BY <1>4, <2>1, <2>2, <2>4 DEF GotNos, Ahead
      <3>2. Holds(st, v, k)
        BY <1>1, <2>2, <3>1 DEF OneSegRecv
      <3>3. k < v.seq + v.size
        BY <3>2 DEF Holds
      <3> QED
        BY <1>2, <1>4, <3>3
    <2> QED
      BY <2>3, <2>4
  <1> QED
    BY <1>2, <1>4, <1>5

(* A message that the receiver does not have is one that it has nothing of. *)
LEMMA FlowHasNot ==
    ASSUME 2 * (SendCap + RecvCap) <= SeqMod,
           NEW st, NEW x, NEW up, NEW y, NEW down, NEW s, NEW r,
           Flow(st, x, up, y, down, s, r),
           NEW n \in 0..(Closed(x.send_wnd) - 1), n \notin GotNos(y.recv_wnd)
    PROVE  LET rw == y.recv_wnd
               d  == (n - rw.seq) % SeqMod
           IN ~(\/ d < rw.slide \/ 2 * d > SeqMod
                \/ d < rw.size /\ 0 \in rw.msg[n % RecvCap].cur_ack_vec)
  <1> DEFINE w == x.send_wnd
             v == y.recv_wnd
             d == (n - v.seq) % SeqMod
  <1>1. /\ OneSegWnd(w) /\ OneSegRecv(st, v, r) /\ Upright(v)
    BY DEF Flow, Source, OneSegRecv
  <1>2. /\ SendEnd(w) \in Nat /\ Closed(w) <= SendEnd(w) /\ Closed(w) \in Nat /\ SendCap \in Nat
        /\ SendEnd(w) < SeqMod /\ SeqMod \in Nat \ {0}
    BY <1>1, EndFacts
  <1>3. /\ v.seq \in Nat /\ v.size \in Nat /\ v.slide \in Nat /\ v.copy_seq = v.seq + v.slide
        /\ v.slide <= v.size /\ v.size <= RecvCap /\ RecvCap \in Nat \ {0} /\ v.copy_seq \in Nat
    BY <1>1, RecvNumbers
  <1>4. n \in Nat /\ n < SendEnd(w) /\ n < SeqMod
    BY <1>2
  <1>5. v.copy_seq <= n
    <2> SUFFICES ASSUME n < v.copy_seq PROVE FALSE
      BY <1>3, <1>4
    <2>1. n \in 0..(v.copy_seq + RecvCap - 1)
      BY <1>3, <1>4
    <2> QED
      BY <2>1 DEF GotNos
  <1>6. d = n - v.seq
    <2>1. n - v.seq \in 0..(SeqMod - 1)
      BY <1>2, <1>3, <1>4, <1>5
    <2> DEFINE e == n - v.seq
    <2>2. e \in 0..(SeqMod - 1)
      BY <2>1
    <2> HIDE DEF e
    <2>3. e % SeqMod = e
      BY <1>2, <2>2, ModSmall
    <2> QED
      BY <2>3 DEF e
  <1>7. ~(d < v.slide)
    BY <1>3, <1>4, <1>5, <1>6
  <1>8. ~(2 * d > SeqMod)
    <2>1. SendEnd(w) <= v.seq + RecvCap + SendCap
      BY FlowAhead
    <2> HIDE DEF d, w, v
    <2> QED
      BY <1>2, <1>3, <1>4, <1>5, <1>6, <2>1
  <1>9. ASSUME d < v.size PROVE 0 \notin v.msg[n % RecvCap].cur_ack_vec
    <2>1. n \in Ahead(v)
      BY <1>3, <1>4, <1>5, <1>6, <1>9 DEF Ahead
    <2>2. Lacks(v, n)
      BY <1>1, <2>1 DEF OneSegRecv
    <2>3. v.msg[n % RecvCap] = EmptyMsg
      BY <2>2 DEF Lacks, ArrivedMsg, RecvSlot
    <2> QED
      BY <2>3 DEF EmptyMsg
  <1> QED
    BY <1>7, <1>8, <1>9

(* A step seen from the two ends of one stream: nothing is said or read, arq_send
   takes more bytes, or arq_recv returns more of those that were sent. *)
StreamStep(e) ==
    LET s == sent[e]
        r == rcvd[Peer(e)]
    IN \/ sent'[e] = s /\ rcvd'[Peer(e)] = r
       \/ (\E n \in (s + 1)..MaxBytes : sent'[e] = n) /\ rcvd'[Peer(e)] = r
       \/ (\E n \in (Len(r) + 1)..s : rcvd'[Peer(e)] = [k \in 1..n |-> k]) /\ sent'[e] = s

LEMMA SendStreamStep ==
    ASSUME Inv, NEW c \in Node, NEW e \in Node, NEW n \in SendLens, AppSend(c, n)
    PROVE  StreamStep(e)
  <1> DEFINE k == Accepted(arq[c].send_wnd, n)
  <1>1. sent' = [sent EXCEPT ![c] = @ + k] /\ rcvd' = rcvd /\ sent[c] + n <= MaxBytes
    BY DEF AppSend
  <1>2. n \in Nat /\ MaxBytes \in Nat /\ sent \in [Node -> Nat]
    BY ArgumentsAssumption, BoundsAssumption DEF Inv
  <1>3. k \in 0..n
    <2>1. arq[c].send_wnd \in SendWndType
      BY DEF Inv, EndpointOK, EndpointType
    <2> QED
      BY <1>2, <2>1, AcceptedType
  <1> HIDE DEF k
  <1>4. CASE e # c
    <2>1. sent'[e] = sent[e]
      BY <1>1, <1>2, <1>4
    <2> QED
      BY <1>1, <2>1 DEF StreamStep
  <1>5. CASE e = c
    <2>1. sent'[e] = sent[e] + k
      BY <1>1, <1>2, <1>5
    <2>2. k = 0 \/ sent[e] + k \in (sent[e] + 1)..MaxBytes
      BY <1>1, <1>2, <1>3, <1>5
    <2>3. k = 0 => sent'[e] = sent[e]
      BY <1>2, <2>1
    <2> QED
      BY <1>1, <2>1, <2>2, <2>3 DEF StreamStep
  <1> QED
    BY <1>4, <1>5

LEMMA RecvStreamStep ==
    ASSUME Orderly, Inv, Streams, Streams', NEW c \in Node, NEW e \in Node, NEW max \in RecvMaxs,
           AppRecv(c, max)
    PROVE  StreamStep(e)
  <1> DEFINE p  == Peer(e)
             rd == RecvData(arq[c].recv_wnd, max)
             r  == rcvd[p]
  <1>1. /\ sent' = sent /\ rcvd' = [rcvd EXCEPT ![c] = @ \o rd]
        /\ RecvCount(arq[c].recv_wnd, max) > 0
    BY DEF AppRecv
  <1>2. p \in Node /\ DOMAIN rcvd = Node
    BY Ends DEF Streams
  <1>3. CASE p # c
    <2>1. rcvd'[p] = r
      BY <1>1, <1>2, <1>3
    <2> QED
      BY <1>1, <2>1 DEF StreamStep
  <1>4. CASE p = c
    <2>1. rcvd'[p] = r \o rd
      <3> HIDE DEF rd
      <3> QED
        BY <1>1, <1>2, <1>4
    <2>2. r = [k \in 1..Len(r) |-> k] /\ Len(r) \in Nat
      <3>1. InOrder(e)
        BY DEF Streams
      <3> QED
        BY <3>1, FlowReadBound DEF InOrder, Direction
    <2> DEFINE r2 == rcvd'[p]
    <2>3. r2 = [k \in 1..Len(r2) |-> k] /\ Len(r2) \in Nat /\ Len(r2) <= sent[e] /\ sent[e] \in Nat
      <3>1. InOrder(e)'
        BY DEF Streams
      <3>2. \E st : Flow(st, arq'[e], chan'[p], arq'[p], chan'[e], sent'[e], r2)
        BY <3>1 DEF InOrder, Direction
      <3>3. r2 = [k \in 1..Len(r2) |-> k] /\ Len(r2) \in Nat /\ Len(r2) <= sent'[e] /\ sent'[e] \in Nat
        <4> HIDE DEF r2
        <4> QED
          BY <3>2, FlowReadBound
      <3> QED
        BY <1>1, <3>3
    <2> DEFINE rw  == arq[c].recv_wnd
               k   == RecvCount(rw, max)
               b   == [i \in 1..k |-> CopyByte(rw, rw.copy_ofs + i - 1)]
               all == Int \cup {b[i] : i \in 1..k}
    <2>4. Len(rd) \in Nat \ {0} /\ rd \in Seq(all)
      <3>1. k \in Nat
        <4>1. InOrder(e) /\ max \in Nat /\ MsgSegs = 1
          BY ArgumentsAssumption DEF Streams, Orderly, OneSegment
        <4>2. PICK st : Flow(st, arq[e], chan[p], arq[p], chan[e], sent[e], r)
          BY <4>1 DEF InOrder, Direction
        <4>3. OneSegRecv(st, rw, r) /\ st \in [Nat -> Nat]
          BY <1>4, <4>2, SourceType DEF Flow
        <4> HIDE DEF rw, r
        <4> QED
          BY <4>1, <4>3, OneCount
      <3>2. k > 0
        BY <1>1
      <3>3. rd = b
        BY DEF RecvData
      <3> HIDE DEF k, rd
      <3>4. b \in [1..k -> all]
        OBVIOUS
      <3> HIDE DEF b, all
      <3> QED
        BY <3>1, <3>2, <3>3, <3>4
    <2>5. Len(r2) = Len(r) + Len(rd)
      <3>1. r \in Seq(all)
        <4>1. [i \in 1..Len(r) |-> i] \in Seq(all)
          BY <2>2
        <4> QED
          BY <2>2, <4>1
      <3> HIDE DEF r, rd, r2
      <3> QED
        BY <2>1, <2>4, <3>1 DEF r2
    <2>6. Len(r2) \in (Len(r) + 1)..sent[e]
      <3> HIDE DEF r, rd, r2
      <3> QED
        BY <2>2, <2>3, <2>4, <2>5
    <2> QED
      BY <1>1, <2>3, <2>6 DEF StreamStep
  <1> QED
    BY <1>3, <1>4

LEMMA NextStreamStep ==
    ASSUME Orderly, Inv, Streams, Streams', [Next]_vars, NEW e \in Node
    PROVE  StreamStep(e)
  <1>1. CASE sent' = sent /\ rcvd' = rcvd
    BY <1>1 DEF StreamStep
  <1>2. ASSUME NEW c \in Node, NEW n \in SendLens, AppSend(c, n) PROVE StreamStep(e)
    BY <1>2, SendStreamStep
  <1>3. ASSUME NEW c \in Node, Recv(c) PROVE StreamStep(e)
    BY <1>3, RecvStreamStep DEF Recv
  <1>4. CASE UNCHANGED vars
    BY <1>1, <1>4 DEF vars
  <1>5. CASE Tick
    <2>1. sent' = sent /\ rcvd' = rcvd
      BY <1>5 DEF Tick, PollBoth
    <2> QED
      BY <1>1, <2>1
  <1>6. ASSUME NEW c \in Node,
               \/ AppFlush(c) \/ AppConnect(c) \/ AppReset(c) \/ Poll(c, 0) \/ Skew(c)
               \/ PtrGet(c) \/ Transmit(c) \/ TransmitLost(c) \/ Corrupt(c) \/ Fill(c)
        PROVE  StreamStep(e)
    <2>1. sent' = sent /\ rcvd' = rcvd
      BY <1>6 DEF AppFlush, AppConnect, AppReset, Poll, Skew, PtrGet, Transmit, TransmitLost,
                  Corrupt, Fill
    <2> QED
      BY SMTT(30), <1>1, <2>1
  <1> QED
    BY <1>2, <1>3, <1>4, <1>5, <1>6 DEF Next

(* ExactlyOnceAB: what arq_recv has returned at B is at all times a prefix of what
   arq_send took at A, each byte once and in order, and no step takes any of it back.
   arq__recv_wnd_frame stores a message only once, arq__send_wnd_ptr_next sends one
   again only if the other end has nothing of it, and arq__recv_wnd_recv copies out
   what is complete, whatever data is lost. *)
THEOREM ExactlyOnceABCorrect ==
    ASSUME Orderly
    PROVE  Spec => ExactlyOnceAB
  <1>0. "A" \in Node /\ Peer("A") = "B"
    BY Ends DEF Node
  <1>1. Init => AB!Init
    BY DEF Init, AB!Init, Node
  <1>2. Inv /\ Streams /\ Streams' /\ [Next]_vars => [AB!Next]_AB!vars
    <2> SUFFICES ASSUME Inv, Streams, Streams', [Next]_vars
                 PROVE  [AB!Next]_AB!vars
      OBVIOUS
    <2>1. StreamStep("A")
      BY <1>0, NextStreamStep
    <2> QED
      BY <1>0, <2>1 DEF StreamStep, AB!Next, AB!Accept, AB!Deliver, AB!vars
  <1> QED
    BY <1>1, <1>2, InvCorrect, StreamsCorrect, PTL DEF Spec, ExactlyOnceAB, AB!Safe

(* ExactlyOnceBA: the same for the bytes that arq_send took at B; the acknowledgements of
   one direction travel in the frames of the other. *)
THEOREM ExactlyOnceBACorrect ==
    ASSUME Orderly
    PROVE  Spec => ExactlyOnceBA
  <1>0. "B" \in Node /\ Peer("B") = "A"
    BY Ends DEF Node
  <1>1. Init => BA!Init
    BY DEF Init, BA!Init, Node
  <1>2. Inv /\ Streams /\ Streams' /\ [Next]_vars => [BA!Next]_BA!vars
    <2> SUFFICES ASSUME Inv, Streams, Streams', [Next]_vars
                 PROVE  [BA!Next]_BA!vars
      OBVIOUS
    <2>1. StreamStep("B")
      BY <1>0, NextStreamStep
    <2> QED
      BY <1>0, <2>1 DEF StreamStep, BA!Next, BA!Accept, BA!Deliver, BA!vars
  <1> QED
    BY <1>1, <1>2, InvCorrect, StreamsCorrect, PTL DEF Spec, ExactlyOnceBA, BA!Safe

(* AckedIsReceived: arq__send_wnd_ack gives up the slot of a message only when the other
   application was given, or can at once be given, all of its bytes: an acknowledgement
   never outruns the data. *)
THEOREM AckedIsReceivedCorrect ==
    ASSUME Orderly
    PROVE  Spec => []AckedIsReceived
  <1>1. Inv /\ Streams => AckedIsReceived
    <2> SUFFICES ASSUME Inv, Streams, NEW e \in Node
                 PROVE  Released(e) <= Len(rcvd[Peer(e)]) + Held(Peer(e))
      BY DEF AckedIsReceived
    <2>1. PICK st : Flow(st, arq[e], chan[Peer(e)], arq[Peer(e)], chan[e],
                         sent[e], rcvd[Peer(e)])
      BY DEF Streams, InOrder, Direction
    <2>2. sent[e] \in Nat /\ OneSegment
      BY DEF Inv, Orderly
    <2> QED
      BY <2>1, <2>2, FlowReleased DEF Released, Held
  <1> QED
    BY <1>1, InvCorrect, StreamsCorrect, PTL

(* NoEmptySegment: the segment that arq__frame_write takes from the window for
   arq_backend_poll is never empty, as arq_backend_poll asserts. *)
THEOREM NoEmptySegmentCorrect ==
    ASSUME Orderly
    PROVE  Spec => []NoEmptySegment
  <1>1. Inv /\ Streams => NoEmptySegment
    <2> SUFFICES ASSUME Inv, Streams, NEW e \in Node,
                        NEW f \in Range(arq[e].send_frame.frame), f.hdr.seg
                 PROVE  f.data # <<>>
      BY DEF NoEmptySegment
    <2>1. PICK st : Flow(st, arq[e], chan[Peer(e)], arq[Peer(e)], chan[e],
                         sent[e], rcvd[Peer(e)])
      BY DEF Streams, InOrder, Direction
    <2> DEFINE l == LenOf(st, f.hdr.seq_num)
    <2>2. f.data = MsgBytes(st, f.hdr.seq_num) /\ l \in 1..MsgLen
      BY <2>1, StreamsHere, FlowFrame
    <2>3. f.data = [k \in 1..l |-> st[f.hdr.seq_num] + k]
      BY <2>2 DEF MsgBytes
    <2> HIDE DEF l
    <2>4. 1 \in DOMAIN f.data
      BY <2>2, <2>3, MsgLenType
    <2> QED
      BY <2>4
  <1> QED
    BY <1>1, InvCorrect, StreamsCorrect, PTL

(* OnlyFailedResent: a segment that arq__send_wnd_ptr_next picks is one that the other end
   does not have: it was lost, or never sent.  The two windows together must span no more
   than half of the numbers: that is how Has tells what is behind the receive window from
   what is ahead of it. *)
THEOREM OnlyFailedResentCorrect ==
    ASSUME Orderly, 2 * (SendCap + RecvCap) <= SeqMod
    PROVE  Spec => []OnlyFailedResent
  <1>1. Inv /\ Streams => OnlyFailedResent
    <2> SUFFICES ASSUME Inv, Streams, NEW e \in Node,
                        NEW f \in Range(arq[e].send_frame.frame), f.hdr.seg
                 PROVE  ~Has(Peer(e), f.hdr.seq_num, f.hdr.seg_id)
      BY DEF OnlyFailedResent
    <2>1. PICK st : Flow(st, arq[e], chan[Peer(e)], arq[Peer(e)], chan[e],
                         sent[e], rcvd[Peer(e)])
      BY DEF Streams, InOrder, Direction
    <2> DEFINE n == f.hdr.seq_num
    <2>2. /\ n \in 0..(Closed(arq[e].send_wnd) - 1) /\ n \notin GotNos(arq[Peer(e)].recv_wnd)
          /\ f.hdr.seg_id = 0
      BY <2>1, StreamsHere, FlowFrame
    <2> HIDE DEF n
    <2>3. ~Has(Peer(e), n, 0)
      BY <2>1, <2>2, FlowHasNot DEF Has
    <2> QED
      BY <2>2, <2>3 DEF n
  <1> QED
    BY <1>1, InvCorrect, StreamsCorrect, PTL
=============================================================================

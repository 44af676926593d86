-------------------------------- MODULE Conn --------------------------------
(***************************************************************************)
(* The connection state machine of arq.h (ARQ_USE_CONNECTIONS == 1):       *)
(* arq__conn_poll, its state callbacks and arq__conn_next_poll.            *)
(*                                                                         *)
(* The C union of the two handshake states is one record: rst_ack is       *)
(* sent_rst_ack in RST_RECVD and recvd_rst_ack in RST_SENT.  A callback    *)
(* returns the connection, the header being built, whether it wants the    *)
(* header sent, and the event for the application.                         *)
(***************************************************************************)
EXTENDS ArqBase

CONSTANTS UseConnections,  \* ARQ_USE_CONNECTIONS == 1
          RstAttempts,     \* cfg.connection_rst_attempts
          RstPeriod        \* cfg.connection_rst_period

ASSUME UseConnectionsAssumption == UseConnections \in BOOLEAN
(* arq__check_cfg *)
ASSUME RstAssumption == RstAttempts \in Nat \ {0, 1} /\ RstPeriod \in Nat \ {0}

ConnStates == {"CLOSED", "RST_RECVD", "RST_SENT", "ESTABLISHED"}
ConnEvents == {"NONE", "ESTABLISHED", "FAILED_NO_RESPONSE", "FAILED_DESYNC"}

ConnType == [state : ConnStates, cnt : 0..(RstAttempts + 1), tmr : 0..RstPeriod,
             rst_ack : BOOLEAN, simultaneous : BOOLEAN]

(* What arq__rst leaves; it does not touch the union. *)
ConnRst(c) == [c EXCEPT !.state = IF UseConnections THEN "CLOSED" ELSE "ESTABLISHED"]

ConnInit ==
    ConnRst([state |-> "CLOSED", cnt |-> 0, tmr |-> 0,
             rst_ack |-> FALSE, simultaneous |-> FALSE])

(* arq_connect *)
CanConnect(c) == UseConnections /\ c.state = "CLOSED"

ConnConnect(c) ==
    [state |-> "RST_SENT", cnt |-> 0, tmr |-> 0,
     rst_ack |-> FALSE, simultaneous |-> FALSE]

Outcome(c, sh, emit, event) == [conn |-> c, sh |-> sh, emit |-> emit, event |-> event]

(* Defect: never gives up. *)
AttemptForEver(c, sh) == Outcome([c EXCEPT !.tmr = RstPeriod], sh, TRUE, "NONE")

(* Defect: the timer is not armed again. *)
AttemptNoTimer(c, sh) ==
    IF c.cnt = RstAttempts
    THEN Outcome([c EXCEPT !.state = "CLOSED"], sh, TRUE, "FAILED_NO_RESPONSE")
    ELSE Outcome([c EXCEPT !.cnt = @ + 1], sh, TRUE, "NONE")

(* Both handshake states send on a timer and give up after RstAttempts. *)
Attempt(c, sh) ==
    LET tried == [c EXCEPT !.cnt = @ + 1, !.tmr = RstPeriod]
    IN IF tried.cnt > RstAttempts
       THEN Outcome([tried EXCEPT !.state = "CLOSED"], sh, TRUE, "FAILED_NO_RESPONSE")
       ELSE Outcome(tried, sh, TRUE, "NONE")

(* Defect: the application is not told. *)
RstRecvdAckSilent(c, sh) ==
    Outcome([c EXCEPT !.state = IF c.rst_ack THEN "ESTABLISHED" ELSE "CLOSED"],
            sh, FALSE, "NONE")

(* An ACK is one of the RST/ACK, if that has been sent. *)
RstRecvdAck(c, sh) ==
    IF c.rst_ack
    THEN Outcome([c EXCEPT !.state = "ESTABLISHED"], sh, FALSE, "ESTABLISHED")
    ELSE Outcome([c EXCEPT !.state = "CLOSED"], sh, FALSE, "FAILED_DESYNC")

(* arq__conn_poll_state_rst_recvd *)
PollRstRecvd(c, psh, sh, rh, dt) ==
    LET ticked == [c EXCEPT !.tmr = SubSat(@, dt)]
    IN IF rh.seg
       THEN Outcome([c EXCEPT !.state = "CLOSED"], sh, FALSE, "FAILED_DESYNC")
       ELSE IF rh.ack THEN RstRecvdAck(c, sh)
       ELSE IF ticked.tmr = 0 /\ psh
       THEN Attempt([ticked EXCEPT !.rst_ack = TRUE],
                    [sh EXCEPT !.rst = TRUE, !.ack = TRUE])
       ELSE Outcome(ticked, sh, FALSE, "NONE")

(* Defect: a RST is answered, and the answer not waited for. *)
PollClosedNoWait(c, psh, sh, rh, dt) ==
    IF psh /\ rh.rst
    THEN Outcome([c EXCEPT !.state = "ESTABLISHED"],
                 [sh EXCEPT !.rst = TRUE, !.ack = TRUE], TRUE, "ESTABLISHED")
    ELSE Outcome(c, sh, FALSE, "NONE")

(* arq__conn_poll_state_closed; a RST falls through to RST_RECVD. *)
PollClosed(c, psh, sh, rh, dt) ==
    IF rh.ack \/ rh.seg THEN Outcome(c, sh, FALSE, "FAILED_DESYNC")
    ELSE IF rh.rst
    THEN PollRstRecvd([c EXCEPT !.state = "RST_RECVD", !.tmr = 0, !.cnt = 0,
                                !.rst_ack = FALSE],
                      psh, sh, rh, dt)
    ELSE Outcome(c, sh, FALSE, "NONE")

(* arq__conn_poll_state_rst_sent *)
PollRstSent(c, psh, sh, rh, dt) ==
    LET ticked == [c EXCEPT !.tmr = SubSat(@, dt)]
        heard  == IF rh.rst /\ rh.ack
                  THEN Outcome([c EXCEPT !.rst_ack = TRUE], sh, FALSE, "NONE")
                  ELSE IF rh.rst
                  THEN Outcome([c EXCEPT !.simultaneous = TRUE], sh, FALSE, "NONE")
                  ELSE IF c.rst_ack
                  THEN Outcome(c, sh, FALSE, "NONE")
                  ELSE IF ticked.tmr = 0 /\ psh
                  THEN Attempt(ticked, [sh EXCEPT !.rst = TRUE])
                  ELSE Outcome(ticked, sh, FALSE, "NONE")
        answer == psh /\ (heard.conn.rst_ack \/ heard.conn.simultaneous)
    IN IF rh.seg \/ (rh.ack /\ ~rh.rst)
       THEN Outcome([c EXCEPT !.state = "CLOSED"], sh, FALSE, "FAILED_DESYNC")
       ELSE IF answer
       THEN Outcome([heard.conn EXCEPT !.state = "ESTABLISHED"],
                    [heard.sh EXCEPT !.ack = TRUE], TRUE, "ESTABLISHED")
       ELSE heard

(* arq__conn_poll and arq__conn_poll_state_cb_get *)
ConnPoll(c, psh, sh, rh, dt) ==
    IF ~UseConnections THEN Outcome(c, sh, FALSE, "NONE")
    ELSE CASE c.state = "CLOSED"       -> PollClosed(c, psh, sh, rh, dt)
           [] c.state = "RST_RECVD"    -> PollRstRecvd(c, psh, sh, rh, dt)
           [] c.state = "RST_SENT"     -> PollRstSent(c, psh, sh, rh, dt)
           [] c.state = "ESTABLISHED"  -> Outcome(c, sh, FALSE, "NONE")

(* arq__conn_next_poll *)
ConnNextPoll(c) ==
    IF \/ c.state = "RST_RECVD"
       \/ c.state = "RST_SENT" /\ ~c.rst_ack /\ ~c.simultaneous
    THEN c.tmr ELSE TimeInfinity
=============================================================================

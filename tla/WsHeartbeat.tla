----------------------------- MODULE WsHeartbeat ----------------------------
(***************************************************************************)
(* The heartbeat of a uws connection over time: one wake timer on the      *)
(* transport, a tick on every turn, the Ping's queue and Pong deadlines,   *)
(* the stall of a refused Ping, and the expiry put off while input that    *)
(* may hold the Pong waits.  Time is discrete; the timer fires before the  *)
(* clock passes it (the transport's granularity is one step of the clock). *)
(***************************************************************************)
EXTENDS Naturals, Sequences, FiniteSetsExt

CONSTANTS Settings,  \* records of HeartbeatInterval and HeartbeatTimeout
          Budget,    \* frames a read round parses
          MaxNow, MaxMsgs, MaxPauses, MaxFull  \* bounds on the environment

VARIABLES
    opt,
    now,
    hb,    \* heartbeatState
    tmr,   \* the transport's one-shot wake timer, 0 when it is not set
    net,   \* input not parsed, Pings queued and on the wire, the outbound limit reached
    c,     \* paused, closing and why, the turn's callbacks to come, and whether
           \* reads were paused during it
    left   \* what the environment may still do

vars == <<opt, now, hb, tmr, net, c, left>>

Interval == opt.interval
Timeout == opt.timeout

\* beginHeartbeat, at the connection's opening.
Init ==
    /\ opt \in Settings
    /\ now = 1
    /\ hb = [out |-> FALSE, queuedAt |-> 0, sentAt |-> 0, nonce |-> 0, stalledAt |-> 0,
             nextPingAt |-> 1 + Interval, armedAt |-> 1 + Interval, parsed |-> 0, deferredAt |-> 0]
    /\ tmr = 1 + Interval
    /\ net = [in |-> <<>>, queued |-> {}, wire |-> {}, pings |-> 0, full |-> FALSE]
    /\ c = [paused |-> FALSE, closing |-> FALSE, missed |-> FALSE, turn |-> <<>>, held |-> FALSE]
    /\ left = [msgs |-> MaxMsgs, pauses |-> MaxPauses, full |-> MaxFull]

Pongs(s) == {i \in DOMAIN s : s[i] # 0}

-----------------------------------------------------------------------------
(* heartbeatState.                                                         *)

expiry(h) ==
    LET started == IF h.out THEN (IF h.sentAt # 0 THEN h.sentAt ELSE h.queuedAt) ELSE h.stalledAt
    IN  IF started = 0 THEN 0 ELSE started + Timeout

clearPing(h) == [h EXCEPT !.out = FALSE, !.queuedAt = 0, !.sentAt = 0, !.nonce = 0]

\* beginPing: a Ping that follows refused ones keeps their deadline.
beginPing(h, n) ==
    [h EXCEPT !.out = TRUE, !.queuedAt = IF h.stalledAt # 0 THEN h.stalledAt ELSE now,
              !.sentAt = 0, !.nonce = n, !.deferredAt = h.parsed]

\* deferExpiry: one further timeout, with input waiting or progress made.
Defers(h, waiting) ==
    /\ h.out /\ h.sentAt # 0
    /\ now >= expiry(h) /\ now < expiry(h) + Timeout
    /\ waiting \/ h.parsed # h.deferredAt

expirePing(h) == expiry(h) # 0 /\ now >= expiry(h)

\* acknowledgePing: only the outstanding Ping's Pong.
acknowledgePing(h, n) == IF h.out /\ h.nonce = n THEN [clearPing(h) EXCEPT !.stalledAt = 0] ELSE h

\* armHeartbeatWake.
Arm(h, at) == hb' = [h EXCEPT !.armedAt = at] /\ tmr' = at

-----------------------------------------------------------------------------
(* The tick.                                                               *)

Steady(h) ==
    now < h.nextPingAt /\ h.armedAt = h.nextPingAt /\ h.stalledAt = 0 /\ ~h.out

\* expireHeartbeat: the close handshake starts; missed notes a Pong that had
\* arrived, could be parsed, and was not waited for.
expireHeartbeat(h) ==
    /\ hb' = [clearPing(h) EXCEPT !.stalledAt = 0]
    /\ c' = [c EXCEPT !.closing = TRUE, !.turn = <<>>,
                      !.missed = ~c.held /\ h.sentAt # 0 /\ now < expiry(h) + Timeout
                                 /\ \E i \in Pongs(net.in) : net.in[i] = h.nonce]
    /\ UNCHANGED <<tmr, net>>

\* The wake is aimed at whichever moment comes next.
NextWake(h) ==
    IF h.out THEN expiry(h)
    ELSE IF expiry(h) # 0 /\ expiry(h) < h.nextPingAt THEN expiry(h) ELSE h.nextPingAt

\* The interval has passed: a Ping is queued, or refused at the limit and the
\* stall noted.
pingAndAim(h, turn) ==
    LET due == ~h.out /\ now >= h.nextPingAt
        n == net.pings + 1
        h1 == IF ~due THEN h
              ELSE [(IF net.full THEN [h EXCEPT !.stalledAt = IF @ = 0 THEN now ELSE @] ELSE beginPing(h, n))
                    EXCEPT !.nextPingAt = now + Interval]
        next == NextWake(h1)
    IN  /\ net' = IF due /\ ~net.full THEN [net EXCEPT !.pings = n, !.queued = @ \cup {n}] ELSE net
        /\ c' = [c EXCEPT !.turn = turn]
        /\ IF next # h.armedAt \/ next <= now THEN Arm(h1, next) ELSE hb' = h1 /\ UNCHANGED tmr

heartbeatTick(h, turn) ==
    IF c.closing \/ Steady(h) THEN hb' = h /\ c' = [c EXCEPT !.turn = turn] /\ UNCHANGED <<tmr, net>>
    ELSE IF Defers(h, FALSE)
         THEN Arm([h EXCEPT !.deferredAt = h.parsed], now) /\ c' = [c EXCEPT !.turn = turn] /\ UNCHANGED net
    ELSE IF expirePing(h) THEN expireHeartbeat(h)
    ELSE pingAndAim(h, turn)

\* The timer's callback, before the turn parses what it read.
OnTimer ==
    /\ tmr # 0 /\ tmr <= now /\ c.turn = <<>> /\ ~c.closing
    /\ c' = [c EXCEPT !.turn = <<"timer">> \o (IF net.in = <<>> THEN <<>> ELSE <<"read">>), !.held = c.paused]
    /\ tmr' = 0 /\ UNCHANGED <<opt, now, hb, net, left>>

timerTick ==
    /\ c.turn # <<>> /\ Head(c.turn) = "timer"
    /\ IF net.in # <<>> /\ ~c.paused /\ ~c.closing /\ Defers(hb, TRUE)
       THEN Arm([hb EXCEPT !.deferredAt = hb.parsed], now) /\ c' = [c EXCEPT !.turn = Tail(@)] /\ UNCHANGED net
       ELSE heartbeatTick(hb, Tail(c.turn))
    /\ UNCHANGED <<opt, now, left>>

\* A data turn, and its read round: frames up to the budget, then the tick.
OnRead ==
    /\ c.turn = <<>> /\ net.in # <<>> /\ ~c.paused /\ ~c.closing
    /\ c' = [c EXCEPT !.turn = <<"read">>, !.held = FALSE]
    /\ UNCHANGED <<opt, now, hb, tmr, net, left>>

readRound ==
    /\ c.turn # <<>> /\ Head(c.turn) = "read"
    /\ LET n == IF c.paused \/ c.closing THEN 0 ELSE Min({Budget, Len(net.in)})
           acked == {net.in[i] : i \in 1..n} \cap {hb.nonce}
           h == [hb EXCEPT !.parsed = @ + n]
       IN  /\ hb' = IF hb.out /\ acked # {} THEN acknowledgePing(h, hb.nonce) ELSE h
           /\ net' = [net EXCEPT !.in = SubSeq(@, n + 1, Len(@))]
    /\ c' = [c EXCEPT !.turn = <<"tick">>]
    /\ UNCHANGED <<opt, now, tmr, left>>

readTick ==
    /\ c.turn = <<"tick">> /\ heartbeatTick(hb, <<>>)
    /\ UNCHANGED <<opt, now, left>>

-----------------------------------------------------------------------------
(* The transport, the peer and the application.                            *)

\* markPingSent: the complete Ping left the queue.
Sent ==
    /\ \E n \in net.queued :
        /\ net' = [net EXCEPT !.queued = @ \ {n}, !.wire = @ \cup {n}]
        /\ hb' = IF hb.out /\ hb.nonce = n /\ hb.sentAt = 0 THEN [hb EXCEPT !.sentAt = now, !.stalledAt = 0] ELSE hb
    /\ UNCHANGED <<opt, now, tmr, c, left>>

\* What arrives during a turn waits in the socket for the next one.
PeerPong ==
    /\ c.turn = <<>>
    /\ \E n \in net.wire : net' = [net EXCEPT !.wire = @ \ {n}, !.in = Append(@, n)]
    /\ UNCHANGED <<opt, now, hb, tmr, c, left>>

PeerMessage ==
    /\ left.msgs > 0 /\ c.turn = <<>> /\ left' = [left EXCEPT !.msgs = @ - 1]
    /\ net' = [net EXCEPT !.in = Append(@, 0)]
    /\ UNCHANGED <<opt, now, hb, tmr, c>>

PauseReads ==
    /\ left.pauses > 0 /\ ~c.closing
    /\ left' = [left EXCEPT !.pauses = @ - 1] /\ c' = [c EXCEPT !.paused = ~@, !.held = TRUE]
    /\ UNCHANGED <<opt, now, hb, tmr, net>>

Fill ==
    /\ left.full > 0 /\ left' = [left EXCEPT !.full = @ - 1]
    /\ net' = [net EXCEPT !.full = ~@] /\ UNCHANGED <<opt, now, hb, tmr, c>>

\* The clock waits for the timer and for the turn.
Tick ==
    /\ now < MaxNow /\ ~(tmr # 0 /\ tmr <= now) /\ c.turn = <<>> /\ ~c.closing
    /\ now' = now + 1 /\ UNCHANGED <<opt, hb, tmr, net, c, left>>

Resting == (now = MaxNow \/ c.closing) /\ UNCHANGED vars

Next ==
    \/ OnTimer \/ timerTick \/ OnRead \/ readRound \/ readTick \/ Sent \/ PeerPong \/ PeerMessage
    \/ PauseReads \/ Fill \/ Tick \/ Resting

Spec == Init /\ [][Next]_vars

-----------------------------------------------------------------------------
(* Properties                                                              *)

\* Between turns the wake timer is set, no later than the next moment the
\* heartbeat has to act at (heartbeatTick, armHeartbeatWake); so no Ping is
\* outstanding past its deadline and one further timeout.
WakeAimed ==
    (c.turn = <<>> /\ ~c.closing) =>
        /\ tmr # 0
        /\ ~hb.out => tmr <= Max({now, hb.nextPingAt})
        /\ expiry(hb) # 0 => tmr <= Max({now, expiry(hb)})
        /\ expiry(hb) # 0 => now <= expiry(hb) + Timeout

\* A Pong that arrived ends no connection that could read it, within the
\* further timeout deferExpiry allows.
PongHeard == ~c.missed
=============================================================================

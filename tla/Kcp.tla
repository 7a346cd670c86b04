-------------------------------- MODULE Kcp ----------------------------------
(***************************************************************************)
(* The ARQ engine of ukcp (internal/kcp): a state machine without I/O.     *)
(* Its state is the record KCP, and its operations are operators from one  *)
(* such record to the next; flush and Input also give the segments that    *)
(* they output.                                                            *)
(*                                                                         *)
(* The clock is abstracted to what it decides: a flush is told which       *)
(* segments' retransmission timers are due, and whether the probe timer    *)
(* is, and an ACK whether the segments before it were sent no later than   *)
(* the one it acknowledges.  RTT estimation only moves these timers.       *)
(* Sequence numbers have Width bits.  The MTU has room for one segment in  *)
(* a datagram, and ukcp runs the engine in stream mode.                    *)
(***************************************************************************)
EXTENDS Integers, Sequences, FiniteSets, SequencesExt

CONSTANTS
    Width,     \* the bits of a sequence number
    FirstSn,   \* the first sequence number
    Mss,       \* bytes in a segment
    InitialWnd, \* IKCP_WND_RCV: the peer's window before it told one
    DeadLink   \* transmissions of a segment that mark the link dead

ASSUME KcpAssumption ==
    /\ Width \in Nat /\ FirstSn \in 0..(2^Width - 1) /\ Mss \in Nat \ {0}
    /\ InitialWnd \in Nat \ {0} /\ DeadLink \in Nat \ {0}

Least(m, n) == IF m < n THEN m ELSE n
Most(m, n) == IF m < n THEN n ELSE m

\* _itimediff: the difference of two unsigned numbers as a signed one.
Sn(n) == n % 2^Width
diff(later, earlier) ==
    LET d == Sn(later - earlier) IN IF d < 2^(Width - 1) THEN d ELSE d - 2^Width

Resent == -1  \* fastack 0xFFFFFFFF: resent early, the next time on timeout

NewKCP(snd_wnd, rcv_wnd, nocwnd, fastresend) ==
    [snd_wnd |-> snd_wnd, rcv_wnd |-> rcv_wnd,
     snd_una |-> FirstSn, snd_nxt |-> FirstSn, rcv_nxt |-> FirstSn,
     rmt_wnd |-> InitialWnd, cwnd |-> 0, ssthresh |-> 2,
     probe |-> {}, probe_wait |-> FALSE, dead |-> FALSE,
     nocwnd |-> nocwnd, fastresend |-> fastresend,
     snd_queue |-> <<>>, snd_buf |-> <<>>, rcv_queue |-> <<>>, rcv_buf |-> {},
     acklist |-> <<>>]

Segment(cmd, wnd, una, sn, data) ==
    [cmd |-> cmd, wnd |-> wnd, una |-> una, sn |-> sn, data |-> data]

WaitSnd(k) == Len(k.snd_buf) + Len(k.snd_queue)

----------------------------------------------------------------------------
(* Send and Recv                                                           *)

\* An empty send ends the stream.  Otherwise the last queued segment is filled
\* up, and the rest cut into segments.
Send(k, data) ==
    LET q == k.snd_queue
        room == IF q = <<>> THEN 0 ELSE Least(Mss - Len(Last(q)), Len(data))
        rest == SubSeq(data, room + 1, Len(data))
        cut == [i \in 1..((Len(rest) + Mss - 1) \div Mss) |->
                  SubSeq(rest, (i - 1) * Mss + 1, Least(i * Mss, Len(rest)))]
    IN  IF data = <<>> THEN [k EXCEPT !.snd_queue = Append(@, <<>>)]
        ELSE [k EXCEPT !.snd_queue =
                (IF room = 0 THEN @ ELSE [@ EXCEPT ![Len(q)] = @ \o SubSeq(data, 1, room)]) \o cut]

\* The segments of rcv_buf that are next in order go to rcv_queue, as long as
\* that has room.
deliverable(k) ==
    Cardinality({i \in 0..(k.rcv_wnd - Len(k.rcv_queue) - 1) :
                   \A j \in 0..i : \E s \in k.rcv_buf : s.sn = Sn(k.rcv_nxt + j)})
\* Mutant: the least segment moves, whether or not it is the next.
moveInHeapOrder(k) ==
    LET first == CHOOSE s \in k.rcv_buf : \A t \in k.rcv_buf : diff(t.sn, s.sn) >= 0
    IN  IF k.rcv_buf = {} \/ Len(k.rcv_queue) >= k.rcv_wnd THEN k
        ELSE [k EXCEPT !.rcv_queue = Append(@, first.data), !.rcv_buf = @ \ {first},
                       !.rcv_nxt = Sn(@ + 1)]

moveAvailable(k) ==
    LET n == deliverable(k)
        At(i) == CHOOSE s \in k.rcv_buf : s.sn = Sn(k.rcv_nxt + i - 1)
    IN  [k EXCEPT !.rcv_queue = @ \o [i \in 1..n |-> At(i).data],
                  !.rcv_buf = @ \ {At(i) : i \in 1..n},
                  !.rcv_nxt = Sn(@ + n)]

\* Recv of the first segment queued.  A queue that was full tells the peer that
\* there is room again.
Recv(k) ==
    LET full == Len(k.rcv_queue) >= k.rcv_wnd
        m == moveAvailable([k EXCEPT !.rcv_queue = Tail(@)])
    IN  IF full /\ Len(m.rcv_queue) < k.rcv_wnd THEN [m EXCEPT !.probe = @ \cup {"tell"}] ELSE m

wnd_unused(k) == Most(k.rcv_wnd - Len(k.rcv_queue), 0)

----------------------------------------------------------------------------
(* flush                                                                   *)

\* Phase 1: the ACKs owed, without those of segments delivered since, except
\* the last.
flushAcks(k) ==
    LET owed == SelectSeq([i \in DOMAIN k.acklist |-> i],
                  LAMBDA i : diff(k.acklist[i], k.rcv_nxt) >= 0 \/ i = Len(k.acklist))
    IN  [i \in DOMAIN owed |-> Segment("ack", wnd_unused(k), k.rcv_nxt, k.acklist[owed[i]], <<>>)]

\* Phases 2 and 3: a closed remote window is probed when its timer is due.
probes(k, late) == k.probe \cup (IF k.rmt_wnd = 0 /\ k.probe_wait /\ late THEN {"ask"} ELSE {})
flushProbes(k, late) ==
    (IF "ask" \in probes(k, late) THEN <<Segment("wask", wnd_unused(k), k.rcv_nxt, 0, <<>>)>> ELSE <<>>)
    \o (IF "tell" \in probes(k, late) THEN <<Segment("wins", wnd_unused(k), k.rcv_nxt, 0, <<>>)>> ELSE <<>>)

\* Phase 4: queued segments move into the window.
window(k) == LET w == Least(k.snd_wnd, k.rmt_wnd) IN IF k.nocwnd THEN w ELSE Least(k.cwnd, w)
movable(k) == Least(Len(k.snd_queue), Most(0, diff(k.snd_una + window(k), k.snd_nxt)))
slide(k) ==
    LET n == movable(k)
    IN  [k EXCEPT !.snd_queue = SubSeq(@, n + 1, Len(@)), !.snd_nxt = Sn(@ + n),
                  !.snd_buf = @ \o [i \in 1..n |->
                     [sn |-> Sn(k.snd_nxt + i - 1), data |-> k.snd_queue[i], xmit |-> 0,
                      fastack |-> 0, acked |-> FALSE]]]

\* Phase 5: why a segment of the window is sent now.
reason(k, s, moved, due) ==
    IF s.acked THEN "none"
    ELSE IF s.xmit = 0 THEN "first"
    ELSE IF k.fastresend > 0 /\ s.fastack >= k.fastresend THEN "fast"
    ELSE IF s.fastack > 0 /\ moved = 0 THEN "early"
    ELSE IF s.sn \in due THEN "timeout"
    ELSE "none"

transmit(s, why) ==
    IF why = "none" THEN s
    ELSE [s EXCEPT !.xmit = @ + 1,
                   !.fastack = CASE why = "first" -> @
                                 [] why = "timeout" -> 0
                                 [] OTHER -> Resent]

\* Phase 6: the congestion window after fast retransmits and timeouts.  Adding
\* a disabled fastresend, 0xFFFFFFFF, takes one away.
congestion(k, whys) ==
    LET half == Most(Sn(k.snd_nxt - k.snd_una) \div 2, 2)
        fast == IF whys \cap {"fast", "early"} = {} THEN k
                ELSE [k EXCEPT !.ssthresh = half,
                               !.cwnd = half + (IF k.fastresend > 0 THEN k.fastresend ELSE -1)]
        lost == IF "timeout" \notin whys THEN fast
                ELSE [fast EXCEPT !.ssthresh = Most(window(k) \div 2, 2), !.cwnd = 1]
    IN  IF k.nocwnd THEN k ELSE [lost EXCEPT !.cwnd = Most(@, 1)]

flushAckOnly(k, late) ==
    [k |-> congestion([k EXCEPT !.acklist = <<>>, !.probe = {}, !.probe_wait = k.rmt_wnd = 0], {}),
     out |-> flushAcks(k) \o flushProbes(k, late)]

flush(k, due, late) ==
    LET moved == movable(k)
        m == slide([k EXCEPT !.acklist = <<>>, !.probe = {}, !.probe_wait = k.rmt_wnd = 0])
        why == [i \in DOMAIN m.snd_buf |-> reason(m, m.snd_buf[i], moved, due)]
        buf == [i \in DOMAIN m.snd_buf |-> transmit(m.snd_buf[i], why[i])]
        sent == SelectSeq([i \in DOMAIN buf |-> i], LAMBDA i : why[i] # "none")
        dead == \E i \in DOMAIN buf : why[i] # "none" /\ buf[i].xmit >= DeadLink
    IN  [k |-> congestion([m EXCEPT !.snd_buf = buf, !.dead = @ \/ dead], Range(why)),
         out |-> flushAcks(k) \o flushProbes(k, late)
                 \o [i \in DOMAIN sent |-> Segment("push", wnd_unused(k), k.rcv_nxt,
                                                   buf[sent[i]].sn, buf[sent[i]].data)]]

----------------------------------------------------------------------------
(* Input of one segment                                                    *)

\* Mutant: the segment that una names is dropped too.
parse_unaInclusive(k, una) ==
    LET b == SelectSeq(k.snd_buf, LAMBDA s : diff(una, s.sn) < 0)
    IN  [k EXCEPT !.snd_buf = b, !.snd_una = IF b = <<>> THEN k.snd_nxt ELSE Head(b).sn]

\* parse_una and shrink_buf.
parse_una(k, una) ==
    LET b == SelectSeq(k.snd_buf, LAMBDA s : diff(una, s.sn) <= 0)
    IN  [k EXCEPT !.snd_buf = b, !.snd_una = IF b = <<>> THEN k.snd_nxt ELSE Head(b).sn]

inWindow(k, sn) == diff(sn, k.snd_una) >= 0 /\ diff(sn, k.snd_nxt) < 0

parse_ack(k, sn) ==
    IF ~inWindow(k, sn) THEN k
    ELSE [k EXCEPT !.snd_buf = [i \in DOMAIN @ |->
            IF @[i].sn = sn THEN [@[i] EXCEPT !.acked = TRUE, !.data = <<>>] ELSE @[i]]]

\* Segments before sn that were sent no later are overtaken once more.  Counts
\* beyond the threshold say no more than the threshold.
overtaken(k, sn, older) ==
    IF ~inWindow(k, sn) \/ ~older THEN {}
    ELSE {i \in DOMAIN k.snd_buf : diff(sn, k.snd_buf[i].sn) > 0 /\ k.snd_buf[i].fastack # Resent}
parse_fastack(k, sn, older) ==
    [k EXCEPT !.snd_buf = [i \in DOMAIN @ |->
       IF i \in overtaken(k, sn, older)
       THEN [@[i] EXCEPT !.fastack = Least(@ + 1, Most(k.fastresend, 1))] ELSE @[i]]]
fastAcked(k, sn, older) ==
    \E i \in overtaken(k, sn, older) : k.snd_buf[i].fastack + 1 >= k.fastresend

\* parse_data: a segment in the receive window is kept unless it is there.
parse_data(k, sn, data) ==
    IF diff(sn, k.rcv_nxt + k.rcv_wnd) >= 0 \/ diff(sn, k.rcv_nxt) < 0 THEN k
    ELSE moveAvailable(
           IF \E s \in k.rcv_buf : s.sn = sn THEN k
           ELSE [k EXCEPT !.rcv_buf = @ \cup {[sn |-> sn, data |-> data]}])

\* The congestion window grows when snd_una moved: by one in slow start, later
\* by what the bytes acknowledged add up to.
grow(k, una, more) ==
    IF k.nocwnd \/ diff(k.snd_una, una) <= 0 \/ k.cwnd >= k.rmt_wnd THEN k
    ELSE [k EXCEPT !.cwnd = Least(k.rmt_wnd, @ + (IF @ < k.ssthresh THEN 1 ELSE more))]

Input(k, seg, older, more, due, late) ==
    LET a == parse_una([k EXCEPT !.rmt_wnd = seg.wnd], seg.una)
        acked == parse_ack(a, seg.sn)
        b == CASE seg.cmd = "ack" -> parse_fastack(acked, seg.sn, older)
               [] seg.cmd = "push" ->
                    IF diff(seg.sn, a.rcv_nxt + k.rcv_wnd) >= 0 THEN a
                    ELSE parse_data([a EXCEPT !.acklist = Append(@, seg.sn)], seg.sn, seg.data)
               [] seg.cmd = "wask" -> [a EXCEPT !.probe = @ \cup {"tell"}]
               [] OTHER -> a
        c == grow(b, k.snd_una, more)
        full == \/ Len(a.snd_buf) < Len(k.snd_buf)
                \/ seg.cmd = "ack" /\ fastAcked(acked, seg.sn, older)
    IN  IF full THEN flush(c, due, late)
        ELSE IF c.acklist # <<>> THEN flushAckOnly(c, late)
        ELSE [k |-> c, out |-> <<>>]
=============================================================================

----------------------------- MODULE KcpSession ------------------------------
(***************************************************************************)
(* Two ukcp sessions over an unreliable network: each end is one conn of   *)
(* ukcp/conn.go, the layer that runs the engine of module Kcp under one    *)
(* mutex, so that a handler is one step.  ses[e] is the whole of an end:   *)
(* the engine, what the session staged, held and armed, and what it gave   *)
(* to the layer above.                                                     *)
(*                                                                         *)
(* Below is either a packet connection, whose datagrams are lost, repeated *)
(* and reordered, or a byte stream, which keeps all of them in order and   *)
(* may hand over a part of one first.  The timer is armed or not: what it  *)
(* finds due when it fires is a choice.                                    *)
(***************************************************************************)
EXTENDS Kcp

CONSTANTS
    HoldBatch,    \* staged segments a read turn holds back
    MaxBuffered,  \* bytes a session holds for its writer
    MaxWire,      \* bound: the datagrams in the network towards one end
    Options,      \* the options and the environment that a run begins with: bytes
                  \* bounds what is written, closes lets sessions be closed
    Writers       \* the ends whose application writes

Client == "client"
Server == "server"
Ends == {Client, Server}
Peer(e) == IF e = Client THEN Server ELSE Client

ASSUME SessionAssumption ==
    /\ HoldBatch \in Nat /\ MaxBuffered \in Nat /\ MaxWire \in [Ends -> Nat \ {0}]
    /\ Options \subseteq [packet : BOOLEAN, keepAlive : BOOLEAN, congestion : BOOLEAN, resend : Nat,
                    sendWindow : 1..2^(Width - 2), recvWindow : 1..2^(Width - 2),
                    bytes : Nat, closes : BOOLEAN]
    /\ Writers \subseteq Ends

VARIABLES
    opts,   \* the options both ends were given
    ses,    \* the two sessions
    wire,   \* packet connections: the datagrams on their way to an end
    pipe    \* stream connections: the segments on their way to an end

vars == <<opts, ses, wire, pipe>>

Eof == Segment("eof", 0, 0, 0, <<>>)  \* the stream below ended

NoEngine == NewKCP(1, 1, TRUE, 0)

NewConn ==
    [open |-> FALSE, live |-> FALSE, kcp |-> NoEngine,
     finQueued |-> FALSE, peerFin |-> FALSE, lowerEnded |-> FALSE,
     ended |-> FALSE, closed |-> FALSE,
     armed |-> FALSE, outVec |-> <<>>, held |-> 0, partial |-> FALSE,
     sending |-> <<>>,                      \* handed to Writev by this handler
     sent |-> <<>>, got |-> <<>>,           \* bytes taken from and given to above
     buffered |-> 0, stalled |-> FALSE, turn |-> FALSE]

Init ==
    /\ opts \in Options
    /\ ses = [e \in Ends |-> NewConn]
    /\ wire = [e \in Ends |-> {}]
    /\ pipe = [e \in Ends |-> <<>>]

----------------------------------------------------------------------------
(* The helpers that the handlers share.  What the environment decides in a *)
(* handler is the record i.                                                *)

Inputs(x) ==
    [older : IF Len(x.kcp.snd_buf) > 1 THEN BOOLEAN ELSE {FALSE},
     late : IF x.kcp.probe_wait THEN BOOLEAN ELSE {FALSE},
     more : IF x.kcp.nocwnd \/ x.kcp.cwnd < x.kcp.ssthresh THEN {0} ELSE 0..2,
     due : SUBSET {s.sn : s \in {t \in Range(x.kcp.snd_buf) : ~t.acked /\ t.xmit > 0}}]

\* No handler looks at the engine of a session that ended.
fatal(x) ==
    [x EXCEPT !.ended = TRUE, !.held = 0, !.kcp = NoEngine, !.outVec = <<>>, !.partial = FALSE]

\* armFor: some timer is armed, whichever is sooner.
armFor(x) == [x EXCEPT !.armed = TRUE]

\* arm: nothing waits and no keepalive runs, so no turn is needed.
arm(x) ==
    IF ~x.closed /\ ~x.ended /\ x.live /\ (WaitSnd(x.kcp) > 0 \/ opts.keepAlive)
    THEN armFor(x) ELSE x

establish(x) == arm([x EXCEPT !.live = TRUE, !.kcp = NewKCP(opts.sendWindow, opts.recvWindow, ~opts.congestion, opts.resend)])

\* output: what a flush f of the engine put out is staged.
output(x, f) ==
    [x EXCEPT !.kcp = f.k, !.outVec = IF x.ended \/ x.closed THEN @ ELSE @ \o f.out]

\* Mutant: a held batch arms no timer.
sendBatchUntimed(x, hold) ==
    IF x.outVec = <<>> \/ (hold /\ Len(x.outVec) <= HoldBatch) THEN x
    ELSE [x EXCEPT !.sending = @ \o x.outVec, !.outVec = <<>>]

sendBatch(x, hold) ==
    IF x.outVec = <<>> THEN x
    ELSE IF hold /\ Len(x.outVec) <= HoldBatch THEN armFor(x)
    ELSE [x EXCEPT !.sending = @ \o x.outVec, !.outVec = <<>>]

\* noteHeld: the bytes queued, and those of the pushes staged.
bytes(q) == FoldLeft(LAMBDA n, d : n + Len(d), 0, q)
pushBytes(q) == FoldLeft(LAMBDA n, s : n + (IF s.cmd = "push" THEN Len(s.data) ELSE 0), 0, q)
noteHeld(x) ==
    [x EXCEPT !.held = IF ~x.live \/ x.ended THEN 0
                       ELSE bytes(x.kcp.snd_queue) + pushBytes(x.outVec)]

flushed(x, i, hold) == noteHeld(sendBatch(output(x, flush(x.kcp, i.due, i.late)), hold))
answered(x, i, hold) == noteHeld(sendBatch(output(x, flushAckOnly(x.kcp, i.late)), hold))
deadOrArm(x) == IF x.kcp.dead THEN fatal(x) ELSE arm(x)

maintain(x, i) == deadOrArm(flushed(x, i, FALSE))

\* deliver and endLower: in-order bytes go up until the layer above is behind,
\* its end behind the last.
RECURSIVE delivering(_)
delivering(x) ==
    IF x.buffered >= opts.recvWindow * Mss THEN [x EXCEPT !.stalled = TRUE]
    ELSE IF x.kcp.rcv_queue = <<>> THEN [x EXCEPT !.peerFin = @ \/ x.lowerEnded]
    ELSE LET data == Head(x.kcp.rcv_queue)
             y == [x EXCEPT !.kcp = Recv(x.kcp)]
         IN  IF data = <<>> THEN [y EXCEPT !.peerFin = TRUE]
             ELSE delivering([y EXCEPT !.got = @ \o data, !.buffered = @ + Len(data)])
deliver(x) == IF x.ended \/ x.peerFin \/ ~x.live THEN x ELSE delivering(x)

\* feed: the first segment that a server sees founds its session.
feed(x, seg, i) ==
    LET y == IF x.live THEN x ELSE establish(x)
    IN  output(y, Input(y.kcp, seg, i.older, i.more, i.due, i.late))

\* The rest of OnRead, once what arrived was fed.
readTurn(x, i) ==
    IF ~x.live \/ x.ended THEN x
    ELSE LET y == deliver(x)
         IN  IF y.kcp.snd_queue # <<>> THEN deadOrArm(flushed(y, i, TRUE))
             ELSE arm(answered(y, i, TRUE))

streamLowerEnded(x, over) ==
    IF x.ended \/ x.peerFin \/ x.closed \/ ~x.live \/ ~over THEN x
    ELSE IF x.partial THEN fatal(x)
    ELSE deliver([x EXCEPT !.lowerEnded = TRUE])

\* keepAlive, with silence the periods since the peer was heard.
keepAlive(x, silence, i) ==
    IF ~opts.keepAlive \/ ~x.live \/ x.ended THEN x
    ELSE IF silence >= 3 THEN fatal(x)
    ELSE IF silence >= 1
         THEN LET f == flushAckOnly([x.kcp EXCEPT !.probe = @ \cup {"ask"}], i.late)
              IN  sendBatch(output(x, f), FALSE)
    ELSE x

----------------------------------------------------------------------------
(* The network                                                             *)

\* A datagram is lost by never being taken; a full network forgets some.
Carried(e, new) ==
    LET all == wire[e] \cup new
    IN  IF Cardinality(all) <= MaxWire[e] THEN {all}
        ELSE {s \in SUBSET all : Cardinality(s) = MaxWire[e]}

\* An end's handler is over: x is its state, and what it sent is on its way.
\* left and rest are what of the datagrams and of the segments for e remains.
Done(e, x, left, rest) ==
    /\ ses' = [ses EXCEPT ![e] = [x EXCEPT !.sending = <<>>]]
    /\ IF opts.packet
       THEN /\ \E w \in Carried(Peer(e), Range(x.sending)) :
                 wire' = [wire EXCEPT ![e] = left, ![Peer(e)] = w]
            /\ UNCHANGED pipe
       ELSE /\ pipe' = [pipe EXCEPT ![e] = rest, ![Peer(e)] = @ \o x.sending]
            /\ UNCHANGED wire
    /\ UNCHANGED opts

Handled(e, x) == Done(e, x, wire[e], pipe[e])

----------------------------------------------------------------------------
(* The handlers                                                            *)

Running(e) == ses[e].open /\ ~ses[e].ended /\ ~ses[e].closed

OnOpen(e) ==
    LET x == [ses[e] EXCEPT !.open = TRUE]
    IN  /\ ~x.closed /\ ~ses[e].open
        /\ Handled(e, IF e = Client THEN establish(x) ELSE armFor(x))

\* OnRead of a datagram, which may come again.
OnReadPacket(e) ==
    /\ Running(e)
    /\ \E seg \in wire[e], again \in BOOLEAN, i \in Inputs(ses[e]) :
         Done(e, readTurn(feed(ses[e], seg, i), i),
              IF again THEN wire[e] ELSE wire[e] \ {seg}, pipe[e])

\* OnRead of a chunk of a stream: a segment, the rest of one, or a part of one.
OnReadStream(e) ==
    /\ Running(e) /\ pipe[e] # <<>> /\ Head(pipe[e]) # Eof
    /\ \E i \in Inputs(ses[e]) :
         LET rest == Tail(pipe[e])
             x == readTurn(feed([ses[e] EXCEPT !.partial = FALSE], Head(pipe[e]), i), i)
         IN  \/ Done(e, streamLowerEnded(x, rest = <<Eof>>), wire[e], rest)
             \/ /\ ~ses[e].partial
                /\ Handled(e, readTurn([ses[e] EXCEPT !.partial = TRUE], i))

\* OnRead without a chunk: the turn that a read above asked for, or the one
\* that tells of the end below.
OnReadNothing(e) ==
    /\ Running(e)
    /\ ses[e].turn \/ (pipe[e] = <<Eof>> /\ ~ses[e].lowerEnded)
    /\ \E i \in Inputs(ses[e]) :
         LET x == readTurn([ses[e] EXCEPT !.turn = FALSE], i)
         IN  Handled(e, IF opts.packet THEN x ELSE streamLowerEnded(x, pipe[e] = <<Eof>>))

OnTimer(e) ==
    /\ ses[e].armed /\ ~ses[e].closed
    /\ \E i \in Inputs(ses[e]), silence \in (IF opts.keepAlive THEN {0, 1, 3} ELSE {0}) :
         LET x == [ses[e] EXCEPT !.armed = FALSE]
         IN  Handled(e, IF x.ended THEN x
                        ELSE IF ~x.live THEN fatal(x)
                        ELSE LET y == maintain(x, i) IN keepAlive(deliver(y), silence, i))

\* OnWrite refuses when the window or the buffer is full.
OnWrite(e) ==
    LET x == ses[e]
    IN  /\ Running(e) /\ x.live /\ ~x.finQueued
        /\ \E n \in 1..(opts.bytes - Len(x.sent)), i \in Inputs(x) :
             LET p == [j \in 1..n |-> Len(x.sent) + j]
             IN  /\ WaitSnd(x.kcp) < opts.sendWindow /\ x.held + n <= MaxBuffered
                 /\ Handled(e, maintain([x EXCEPT !.kcp = Send(@, p), !.sent = @ \o p], i))

CloseWrite(e) ==
    /\ Running(e) /\ ses[e].live /\ ~ses[e].finQueued
    /\ \E i \in Inputs(ses[e]) :
         Handled(e, maintain([ses[e] EXCEPT !.kcp = Send(@, <<>>), !.finQueued = TRUE], i))

\* CloseGracefully sends the end of the stream, once, and ends the session.
CloseGracefully(e) ==
    /\ Running(e) /\ opts.closes
    /\ \E i \in Inputs(ses[e]) :
         LET x == ses[e]
             y == [x EXCEPT !.kcp = Send(@, <<>>), !.finQueued = TRUE]
         IN  Handled(e, fatal(IF x.live /\ ~x.finQueued
                              THEN sendBatch(output(y, flush(y.kcp, i.due, i.late)), FALSE)
                              ELSE x))

\* A write below that failed for good ended the session: fatal from sendBatch.
WriteFails(e) ==
    /\ Running(e) /\ opts.closes /\ ses[e].outVec # <<>>
    /\ Handled(e, fatal([ses[e] EXCEPT !.outVec = <<>>]))

\* OnClose drops the engine; a stream below ends with the connection.
OnClose(e) ==
    LET x == ses[e]
    IN  /\ ~x.closed /\ x.ended
        /\ ses' = [ses EXCEPT ![e] =
             [x EXCEPT !.closed = TRUE, !.live = FALSE, !.kcp = NoEngine, !.partial = FALSE,
                       !.outVec = <<>>, !.held = 0, !.armed = FALSE, !.turn = FALSE]]
        /\ pipe' = IF opts.packet THEN pipe ELSE [pipe EXCEPT ![Peer(e)] = Append(@, Eof)]
        /\ UNCHANGED <<opts, wire>>

\* The layer above reads; a session that stopped short gets a turn.
Read(e) ==
    LET x == ses[e]
    IN  /\ ~x.closed
        /\ \E n \in 1..x.buffered :
             Handled(e, [x EXCEPT !.buffered = @ - n, !.turn = @ \/ x.stalled, !.stalled = FALSE])

Next ==
    \E e \in Ends :
      \/ OnOpen(e) \/ OnReadPacket(e) \/ OnReadStream(e) \/ OnReadNothing(e)
      \/ OnTimer(e) \/ CloseGracefully(e) \/ WriteFails(e) \/ OnClose(e) \/ Read(e)
      \/ e \in Writers /\ (OnWrite(e) \/ CloseWrite(e))

Spec == Init /\ [][Next]_vars

----------------------------------------------------------------------------
(* Properties                                                              *)

\* The bytes that an end's layer above is given are, in order and once, those
\* that the other end took, whatever the network loses, repeats or reorders;
\* and deliver passes the end of the stream up only behind the last of them.
ToServer == INSTANCE ByteStream WITH
    sent <- ses[Client].sent, got <- ses[Server].got, shut <- ses[Client].finQueued,
    gone <- ~opts.packet /\ ses[Client].closed, ended <- ses[Server].peerFin
ToClient == INSTANCE ByteStream WITH
    sent <- ses[Server].sent, got <- ses[Client].got, shut <- ses[Server].finQueued,
    gone <- ~opts.packet /\ ses[Server].closed, ended <- ses[Client].peerFin
StreamKept == ToServer!Spec /\ ToClient!Spec

\* A segment that the sender discarded (parse_una) or marked acknowledged
\* (parse_ack) is one that the receiver has: a stale, repeated or overtaken
\* acknowledgement never releases data the peer misses.
AckedReceived ==
    \A e \in Ends :
      LET k == ses[e].kcp  r == ses[Peer(e)].kcp
      IN  Running(e) /\ Running(Peer(e)) =>
            /\ diff(r.rcv_nxt, k.snd_una) >= 0
            /\ \A s \in Range(k.snd_buf) :
                 s.acked => diff(r.rcv_nxt, s.sn) > 0 \/ \E t \in r.rcv_buf : t.sn = s.sn

\* Nothing is forgotten: as long as a session has segments queued or in flight,
\* or staged ones held back for company, its timer is armed.
NothingStalls ==
    \A e \in Ends :
      LET x == ses[e]
      IN  Running(e) /\ x.live /\ (WaitSnd(x.kcp) > 0 \/ x.outVec # <<>>) => x.armed
=============================================================================

--------------------------------- MODULE Mux ---------------------------------
(***************************************************************************)
(* umux: the two sessions of one transport connection and the streams      *)
(* multiplexed over it.  A session is driven by the transport's turn       *)
(* (frames read, queued frames flushed, callbacks, timers, the close) and  *)
(* by the goroutines of the application, which open, read, write, end and  *)
(* abort streams and shut sessions down.  An action is what one of them    *)
(* does between two points where it holds no lock of the session, so that  *)
(* the steps of the others fall in between.  The transport is external: a  *)
(* FIFO that refuses a frame at its limit (ErrOutboundOverflow), reports   *)
(* when output left (OnBytesWritten) and drops what waits when it is cut.  *)
(***************************************************************************)
EXTENDS Integers, FiniteSets, Sequences, SequencesExt

CONSTANTS
    Ids,         \* streams the client may open
    MinWindow,   \* minWindow, the window every sender starts with
    GrantShare,  \* the share of a window consumed before it is granted again (4)
    Room,        \* frames the transport queues before it overflows
    Settings     \* configurations: see MCMux

Client == "client"
Server == "server"
Ends == {Client, Server}
Peer(e) == IF e = Client THEN Server ELSE Client

\* The goroutines of an application: one works a stream, one ends things.
Apps == {"io", "ctl"}

VARIABLES
    opt,    \* the configuration, chosen once
    ses,    \* the sessions
    wire,   \* wire[e]: the frames e's transport accepted and its peer has not read
    turn,   \* the transport turn of each end
    app     \* the application's calls in progress

vars == <<opt, ses, wire, turn, app>>

Least(a, b) == IF a < b THEN a ELSE b
Most(a, b) == IF a > b THEN a ELSE b

Frame(t, i, n, b) == [t |-> t, id |-> i, n |-> n, b |-> b]
Control(t, i, n) == Frame(t, i, n, <<>>)

----------------------------------------------------------------------------
\* Windows (window.go).

retune(size, peerWindow) == Most(1, Least(size, peerWindow) \div GrantShare)

peerWindow(e, delta) == Least(MinWindow + delta, opt.window[e])

announced(e) == opt.window[e] - MinWindow

\* What a stream is before, and after, a session knows it.  put, got, eof,
\* opened, closes and late record what the application did and saw.
Absent ==
    [live |-> FALSE, opening |-> FALSE, waiting |-> FALSE, verdict |-> "none",
     in |-> <<>>, out |-> <<>>, queued |-> FALSE, finState |-> "none",
     peerFIN |-> FALSE, localFIN |-> FALSE, half |-> FALSE, deadline |-> FALSE, wakeAt |-> FALSE,
     closedLocal |-> FALSE, closedErr |-> "nil", closeDelivered |-> FALSE, callbackActive |-> FALSE,
     yieldOwed |-> FALSE, pause |-> "no", wakePending |-> FALSE, wmu |-> FALSE,
     avail |-> 0, max |-> 0, buffered |-> 0, consumed |-> 0, grant |-> 1,
     usable |-> FALSE, put |-> 0, got |-> <<>>, eof |-> FALSE,
     opened |-> 0, closes |-> 0, late |-> FALSE]

newStream(e, local, delta) ==
    LET w == IF local THEN MinWindow ELSE peerWindow(e, delta) IN
    [Absent EXCEPT !.live = TRUE, !.opening = local, !.avail = w, !.max = w,
                   !.grant = IF local THEN retune(opt.window[e], opt.window[e])
                             ELSE retune(opt.window[e], MinWindow + delta)]

NewSession(e) ==
    [me |-> e, conn |-> "up", closed |-> FALSE, goAway |-> FALSE, goAwaySent |-> FALSE,
     goAwayFlushed |-> FALSE, draining |-> FALSE, drained |-> "no",
     control |-> <<>>, pending |-> <<>>, finFlushed |-> <<>>, closeQ |-> <<>>, wakeQ |-> <<>>,
     acceptQ |-> <<>>, pendingBytes |-> 0, readHeld |-> FALSE, kept |-> FALSE, flushReq |-> FALSE,
     wake |-> FALSE, armed |-> FALSE, pingSent |-> FALSE,
     st |-> [i \in Ids |-> Absent], room |-> 0, tx |-> <<>>]

Handler(x) == opt.handler[x.me]
Live(x) == {i \in Ids : x.st[i].live}

----------------------------------------------------------------------------
\* What the steps of a session are made of (session.go, stream.go).

Wake(x) == [x EXCEPT !.wake = TRUE]

requestFlush(x) == IF x.flushReq THEN x ELSE Wake([x EXCEPT !.flushReq = TRUE])

sendControlLocked(x, f) == IF x.closed THEN x ELSE [x EXCEPT !.control = Append(@, f)]

CloseConn(x) == IF x.conn = "up" THEN [x EXCEPT !.conn = "closing"] ELSE x

Hands(x, f) == [x EXCEPT !.tx = Append(@, f)]

\* Control frames first, then a frame of each waiting stream in turn, a FIN
\* behind the stream's data.  The transport's limit, or its end, stops it.
RECURSIVE flushing(_)
flushing(x) ==
    LET y == IF x.goAwaySent /\ x.control = <<>> THEN [x EXCEPT !.goAwayFlushed = TRUE] ELSE x
        i == Head(y.pending)
        s == y.st[i]
        takes == y.conn = "up" /\ Len(y.tx) < y.room
        Pop(z) == [z EXCEPT !.pending = Tail(@), !.st[i].queued = FALSE]
    IN  IF y.control # <<>>
        THEN IF takes THEN flushing([Hands(y, Head(y.control)) EXCEPT !.control = Tail(@)]) ELSE y
        ELSE IF y.pending = <<>> THEN y
        ELSE IF ~s.live THEN flushing([y EXCEPT !.pending = Tail(@)])
        ELSE IF s.out = <<>> /\ s.finState # "queued" THEN flushing(Pop(y))
        ELSE IF ~takes THEN y
        ELSE IF s.out = <<>>
        THEN flushing([Pop(Hands(y, Control("fin", i, 0))) EXCEPT
                         !.st[i].finState = "sent", !.finFlushed = Append(@, i)])
        ELSE LET z == [Hands(y, Head(s.out)) EXCEPT !.st[i].out = Tail(@)] IN
             IF Tail(s.out) = <<>> /\ s.finState # "queued" THEN flushing(Pop(z))
             ELSE flushing([z EXCEPT !.pending = Append(Tail(@), i)])

flushLocked(x) == IF x.closed THEN x ELSE flushing(x)

\* The drain of a Shutdown ends once; closing the transport follows.
finishDrainLocked(x, how) ==
    IF x.draining /\ x.drained = "no" THEN [x EXCEPT !.drained = how] ELSE x

maybeFinishDrain(x) ==
    IF x.draining /\ x.drained = "no" /\ ~x.closed /\ Live(x) = {} /\ x.goAwayFlushed
    THEN CloseConn(finishDrainLocked(x, "settled")) ELSE x

lowWater(x) == Most(opt.session - opt.window[x.me], opt.session \div 2)

\* Mutant: reading is resumed without a wake.
releaseSilently(x, n) ==
    LET left == Most(0, x.pendingBytes - n)
    IN  [x EXCEPT !.pendingBytes = left, !.readHeld = @ /\ left > lowWater(x)]

releaseInbound(x, n) ==
    LET left == Most(0, x.pendingBytes - n)
        resume == x.readHeld /\ left <= lowWater(x)
        y == [x EXCEPT !.pendingBytes = left, !.readHeld = @ /\ ~resume]
    IN  IF resume THEN Wake(y) ELSE y

\* OnClose runs for each queued stream; nothing runs for it afterwards.
drainCloses(x) ==
    [x EXCEPT !.closeQ = <<>>,
              !.st = [i \in Ids |-> [@[i] EXCEPT !.closes =
                        IF Handler(x) THEN @ + Len(SelectSeq(x.closeQ, LAMBDA j : j = i)) ELSE @]]]


queueClose(x, i) ==
    LET y == [x EXCEPT !.closeQ = Append(@, i)] IN
    IF x.closed THEN drainCloses(y) ELSE Wake(y)

deliverClose(x, i) ==
    IF x.st[i].closeDelivered THEN x
    ELSE LET y == [x EXCEPT !.st[i].closeDelivered = TRUE] IN
         IF Handler(x) THEN queueClose(y, i) ELSE y

\* Mutant: the bytes dropped stay charged to the session.
resetKeepsBudget(x, i, err) ==
    IF x.st[i].closedLocal THEN x
    ELSE deliverClose([x EXCEPT !.st[i].closedLocal = TRUE, !.st[i].closedErr = err, !.st[i].in = <<>>], i)

\* resetLocal, resetRemote: the stream is over for the application, which loses
\* what it has not read.
resetStream(x, i, err) ==
    IF x.st[i].closedLocal THEN x
    ELSE LET n == Len(x.st[i].in)
             y == [x EXCEPT !.st[i].closedLocal = TRUE, !.st[i].closedErr = err, !.st[i].in = <<>>]
         IN  deliverClose(releaseInbound(y, n), i)

\* The stream leaves the table; what waited to be sent is dropped.
leaves(x, i) ==
    [x EXCEPT !.st[i].live = FALSE, !.st[i].waiting = FALSE, !.st[i].out = <<>>,
              !.st[i].queued = FALSE, !.st[i].finState = "none"]

\* The part of abortStream under the session's lock, and the rest.
abortLocked(x, i) ==
    IF x.st[i].live THEN flushLocked(sendControlLocked(leaves(x, i), Control("rst", i, 0)))
    ELSE leaves(x, i)

verdict(x, i, v) == IF x.st[i].waiting THEN [x EXCEPT !.st[i].verdict = v] ELSE x

abortRest(x, i) == maybeFinishDrain(resetStream(x, i, "err"))

abortStream(x, i) == abortRest(abortLocked(verdict(x, i, "err"), i), i)

abortRemote(x, i) == abortRest(leaves(verdict(x, i, "err"), i), i)

\* A stream is over when both ends have ended it, everything has been sent
\* and read, and no callback is running or owed.
settled(x, i) ==
    LET s == x.st[i] IN
    /\ s.live /\ ~s.closedLocal /\ ~s.callbackActive
    /\ s.peerFIN /\ s.localFIN /\ s.finState = "sent" /\ s.out = <<>> /\ s.in = <<>>
    /\ Handler(x) => ~s.yieldOwed /\ s.pause = "no"

tryFinish(x, i) ==
    IF settled(x, i)
    THEN maybeFinishDrain(deliverClose([leaves(x, i) EXCEPT !.st[i].closedLocal = TRUE], i))
    ELSE x

tryFinishAll(x, q) == FoldLeft(tryFinish, x, q)

\* nextTimerLocked: whether anything of the session waits for a time.
timed(x) ==
    \/ opt.keepAlive /\ ~x.closed
    \/ \E i \in Live(x) :
         LET s == x.st[i] IN s.opening \/ s.deadline \/ s.wakeAt \/ (s.peerFIN # s.localFIN /\ s.half)

rearmTimer(x) == [x EXCEPT !.armed = timed(x)]

----------------------------------------------------------------------------
\* Reading a stream: the consumed bytes leave the session's budget and, once
\* there are enough of them, are granted to the sender again.

consume(s, n) ==
    LET c == s.consumed + n
        full == c >= s.grant
    IN  [s EXCEPT !.in = SubSeq(@, n + 1, Len(@)), !.got = @ \o SubSeq(s.in, 1, n),
                  !.buffered = @ - n, !.consumed = IF full THEN 0 ELSE c]

granted(s, n) == IF s.consumed + n >= s.grant THEN s.consumed + n ELSE 0

sendWindowUpdate(x, i, n) ==
    IF n > 0 THEN flushLocked(sendControlLocked(x, Control("wu", i, n))) ELSE x

\* The rest of Read once the bytes are taken.
afterRead(x, i, n, grant) == sendWindowUpdate(releaseInbound(x, n), i, grant)

\* A Read that finds no bytes: io.EOF at the peer's end, or the stream's own
\* error, which is io.EOF when the transport ended without one.
showsEOF(s) == s.in = <<>> /\ IF s.closedLocal THEN s.closedErr # "err" ELSE s.peerFIN

\* A callback's Read of n bytes.
readIn(x, i, n) ==
    IF n = 0 THEN [x EXCEPT !.st[i].eof = @ \/ showsEOF(x.st[i])]
    ELSE afterRead([x EXCEPT !.st[i] = consume(@, n)], i, n, granted(x.st[i], n))

----------------------------------------------------------------------------
\* Frames (handleFrame).  Each handler's result is the session and, when a
\* stream is to be handed to the application, that stream.

refuse(x, i) == flushLocked(sendControlLocked(x, Control("rst", i, 0)))

\* pushData: within the window, unless the stream was reset meanwhile.
pushData(x, i, b, fin) ==
    LET s == x.st[i]
        y == [x EXCEPT !.pendingBytes = @ + Len(b), !.st[i].in = @ \o b,
                       !.st[i].buffered = @ + Len(b),
                       !.st[i].peerFIN = @ \/ fin,
                       !.st[i].half = IF fin /\ ~s.peerFIN THEN ~s.localFIN ELSE @]
    IN  IF s.closedLocal THEN releaseInbound([x EXCEPT !.pendingBytes = @ + Len(b)], Len(b))
        ELSE IF fin /\ ~s.peerFIN /\ ~s.localFIN THEN rearmTimer(y) ELSE y

overrun(x, i, b) == x.st[i].live /\ ~x.st[i].closedLocal /\ x.st[i].buffered + Len(b) > opt.window[x.me]

handleData(x, f) ==
    IF ~x.st[f.id].live THEN refuse(x, f.id)
    ELSE IF overrun(x, f.id, f.b)
    THEN CloseConn([x EXCEPT !.st[f.id].buffered = @ + Len(f.b)])
    ELSE pushData(x, f.id, f.b, FALSE)

handleFin(x, f) == IF x.st[f.id].live THEN pushData(x, f.id, <<>>, TRUE) ELSE x

grantWindow(x, f) ==
    LET s == x.st[f.id] IN
    s.live /\ ~s.closedLocal /\ s.avail + f.n <= s.max

handleWindowUpdate(x, f) == IF grantWindow(x, f) THEN [x EXCEPT !.st[f.id].avail = @ + f.n] ELSE x

\* establish: an ACK nobody waits for any more changes nothing.
handleAck(x, f) ==
    LET i == f.id  w == peerWindow(x.me, f.n) IN
    IF ~x.st[i].live \/ ~x.st[i].waiting THEN [x EXCEPT !.st[i].waiting = FALSE]
    ELSE [x EXCEPT !.st[i].waiting = FALSE, !.st[i].verdict = "ok", !.st[i].opening = FALSE,
                   !.st[i].avail = w, !.st[i].max = w,
                   !.st[i].grant = retune(opt.window[x.me], MinWindow + f.n)]

\* The tests of acceptStream before it asks Config.Accept.
refuses(x) ==
    \/ x.goAway
    \/ Cardinality(Live(x)) >= opt.streams
    \/ ~Handler(x) /\ Len(x.acceptQ) >= opt.backlog

\* The rest: draining may have begun while Accept ran; the stream is published
\* and answered before OnOpen, or the accept queue, shows it.
accepts(x, f) ==
    LET i == f.id
        y == flushLocked(sendControlLocked([x EXCEPT !.st[i] = newStream(x.me, FALSE, f.n)],
                                           Control("ack", i, announced(x.me))))
    IN  IF x.goAway THEN refuse(x, i)
        ELSE IF y.conn # "up" THEN maybeFinishDrain(leaves(y, i))
        ELSE y

\* handler.OnOpen, or the accept queue; a full one aborts the stream.
shows(x, i) ==
    IF Handler(x)
    THEN [x EXCEPT !.st[i].opened = @ + 1, !.st[i].usable = TRUE,
                   !.st[i].late = @ \/ x.st[i].closes > 0]
    ELSE IF Len(x.acceptQ) < opt.backlog THEN [x EXCEPT !.acceptQ = Append(@, i)]
    ELSE abortStream(x, i)

----------------------------------------------------------------------------
\* Taking a step.

Get(e) == [ses[e] EXCEPT !.room = Room - Len(wire[e])]

\* OnBytesWritten: the peer has read a frame, so there is room.
onTransportWritable(x) == requestFlush(x)

\* What the step handed to the transport joins the wire, unless the step cut
\* the transport: then some of what waits there is dropped.  back is what is
\* left of the peer's frames.
Put(e, x, back) ==
    /\ ses' = [ses EXCEPT ![e] = [x EXCEPT !.tx = <<>>, !.room = 0],
                          ![Peer(e)] = LET y == [@ EXCEPT !.kept = @ /\ x.tx = <<>>] IN
                              IF back # wire[Peer(e)] /\ y.conn = "up" THEN onTransportWritable(y) ELSE y]
    /\ \E k \in 0..(IF ses[e].conn = "up" /\ x.conn # "up" THEN Len(wire[e] \o x.tx) ELSE 0) :
         wire' = [wire EXCEPT ![e] = SubSeq(@ \o x.tx, 1, Len(@ \o x.tx) - k), ![Peer(e)] = back]
    /\ UNCHANGED opt

Turn(e, x, t) == Put(e, x, wire[Peer(e)]) /\ turn' = [turn EXCEPT ![e] = t] /\ UNCHANGED app
At(pc) == [pc |-> pc, i |-> 0, q |-> <<>>, ret |-> "none"]
Dispatch(i, q, ret) == [pc |-> "dispatch", i |-> i, q |-> q, ret |-> ret]

Call(e, a, x, c) ==
    Put(e, x, wire[Peer(e)]) /\ app' = [app EXCEPT ![e][a] = c] /\ UNCHANGED turn
Idle == [pc |-> "idle", i |-> 0, n |-> 0, g |-> 0]
Busy(pc, i, n, g) == [pc |-> pc, i |-> i, n |-> n, g |-> g]

\* exhaustedBudget: a session that buffers too much stops reading, and keeps
\* what has arrived until a turn is asked for or more arrives.
exhaustedBudget(x) == x.pendingBytes > opt.session
AfterFrame(x) == IF exhaustedBudget(x) THEN At("flush") ELSE At("frames")
Budgeted(x) == IF exhaustedBudget(x) THEN [x EXCEPT !.readHeld = TRUE, !.kept = TRUE] ELSE x

----------------------------------------------------------------------------
\* The transport's turn: onRead.

onRead(e) ==
    LET x == [Get(e) EXCEPT !.flushReq = FALSE, !.wake = FALSE, !.kept = FALSE]
        held == x.readHeld /\ x.pendingBytes > lowWater(x)
    IN  /\ turn[e].pc = "idle" /\ x.conn = "up"
        /\ ses[e].wake \/ (wire[Peer(e)] # <<>> /\ ~ses[e].kept)
        /\ Turn(e, [x EXCEPT !.readHeld = held, !.kept = held],
                At(IF held \/ wire[Peer(e)] = <<>> THEN "flush" ELSE "frames"))

\* A frame's handler failed: the turn closes the transport and ends.
Broken(y) == y.conn # "up" /\ (y.control # <<>> \/ \E i \in Ids : y.st[i].buffered > opt.window[y.me])

\* One frame.  Those that show a stream to the application dispatch it.
handleFrame(e) ==
    LET x == Get(e)
        f == Head(wire[Peer(e)])
        i == f.id
        Shown(y) == CASE f.t = "data" -> x.st[i].live /\ ~overrun(x, i, f.b)
                      [] f.t = "fin" -> x.st[i].live
                      [] f.t = "wu" -> grantWindow(x, f)
                      [] OTHER -> FALSE
        Step(y, t) == /\ Put(e, y, Tail(wire[Peer(e)])) /\ UNCHANGED app
                      /\ turn' = [turn EXCEPT ![e] = t]
        Done(y) == Step(IF Shown(y) THEN y ELSE Budgeted(y),
                        IF Shown(y) THEN Dispatch(i, <<>>, "frames")
                        ELSE IF Broken(y) THEN At("idle") ELSE AfterFrame(y))
    IN  /\ turn[e].pc = "frames" /\ wire[Peer(e)] # <<>>
        /\ CASE f.t = "data" -> Done(handleData(x, f))
             [] f.t = "fin" -> Done(handleFin(x, f))
             [] f.t = "wu" -> Done(handleWindowUpdate(x, f))
             [] f.t = "ack" -> Done(handleAck(x, f))
             [] f.t = "rst" -> Done(IF x.st[i].live THEN abortRemote(x, i) ELSE x)
             [] f.t = "goaway" -> Done([x EXCEPT !.goAway = TRUE])
             [] f.t = "ping" -> Done(flushLocked(sendControlLocked(x, Control("pong", i, 0))))
             [] f.t = "pong" -> Done([x EXCEPT !.pingSent = FALSE])
             [] f.t = "syn" -> IF refuses(x) THEN Done(refuse(x, i))
                               ELSE Step(x, [At("accept") EXCEPT !.i = i, !.q = <<f>>])

\* Config.Accept answered: no, or yes and the stream is published.
acceptStream(e) ==
    LET x == Get(e)  i == turn[e].i  f == turn[e].q[1]  y == accepts(x, f) IN
    /\ turn[e].pc = "accept"
    /\ \/ "veto" \in opt.ops[e] /\ Turn(e, Budgeted(refuse(x, i)), AfterFrame(x))
       \/ IF y.st[i].live THEN Turn(e, y, [At("show") EXCEPT !.i = i])
          ELSE Turn(e, Budgeted(y), IF Broken(y) THEN At("idle") ELSE AfterFrame(y))

showStream(e) ==
    LET x == shows(Get(e), turn[e].i) IN
    turn[e].pc = "show" /\ Turn(e, Budgeted(x), AfterFrame(x))

framesEnd(e) ==
    /\ turn[e].pc = "frames"
    /\ wire[Peer(e)] = <<>> \/ ses[e].conn # "up"
    /\ Turn(e, Get(e), At("flush"))

\* Where the turn goes on after a stream was dispatched.
Resumed(x, t) ==
    IF t.ret = "frames" THEN AfterFrame(x)
    ELSE IF t.q = <<>> THEN At("closes") ELSE Dispatch(Head(t.q), Tail(t.q), "wakes")
Leave(x, t) == IF t.ret = "frames" THEN Budgeted(x) ELSE x

\* dispatchRead: the handler's OnRead starts, unless reading is paused or the
\* stream is over.
dispatchRead(e) ==
    LET x == Get(e)  t == turn[e]  i == t.i  s == x.st[i]
        y == tryFinish(x, i)
    IN  /\ t.pc = "dispatch"
        /\ IF ~Handler(x) \/ s.pause = "paused" \/ s.closedLocal
           THEN Turn(e, Leave(y, t), Resumed(y, t))
           ELSE Turn(e, [x EXCEPT !.st[i].callbackActive = TRUE, !.st[i].yieldOwed = FALSE,
                                  !.st[i].late = @ \/ s.closes > 0,
                                  !.st[i].pause = IF @ = "owed" THEN "no" ELSE @],
                     [t EXCEPT !.pc = "callback"])

\* What OnRead may do: read some or all of the input, ask for another turn,
\* pause itself, or fail the stream by returning an error.
Yielded(x, i) == [x EXCEPT !.st[i].yieldOwed = TRUE, !.st[i].wakePending = TRUE, !.wake = TRUE,
                           !.wakeQ = IF x.st[i].wakePending THEN @ ELSE Append(@, i)]
OnRead(e) ==
    LET x == Get(e)  t == turn[e]  i == t.i
        Ret(y) == Turn(e, [y EXCEPT !.st[i].callbackActive = FALSE], [t EXCEPT !.pc = "settle"])
    IN  /\ t.pc = "callback"
        /\ \/ \E n \in {0, Len(x.st[i].in)} : Ret(readIn(x, i, n))
           \/ "yield" \in opt.ops[e] /\ ~x.closed /\ ~x.st[i].closedLocal /\ x.st[i].in # <<>>
                /\ Ret(Yielded(readIn(x, i, 1), i))
           \/ "pause" \in opt.ops[e] /\ ~x.st[i].closedLocal /\ x.st[i].pause = "no"
                /\ Ret([x EXCEPT !.st[i].pause = "paused"])
           \/ "error" \in opt.ops[e] /\ Ret(abortStream(x, i))

afterCallback(e) ==
    LET t == turn[e]  y == tryFinish(Get(e), t.i) IN
    t.pc = "settle" /\ Turn(e, Leave(y, t), Resumed(y, t))

\* flush, and the streams whose FIN it sent; then the streams woken; then the
\* closes the turn has collected.
Wakes(e, x) == IF x.wakeQ = <<>> THEN Turn(e, drainCloses(x), At("idle")) ELSE Turn(e, x, At("wakes"))

flush(e) ==
    LET x == flushLocked(Get(e)) IN
    /\ turn[e].pc = "flush"
    /\ IF x.finFlushed = <<>> THEN Wakes(e, maybeFinishDrain(x))
       ELSE Turn(e, [x EXCEPT !.finFlushed = <<>>], [At("finish") EXCEPT !.q = x.finFlushed])

flushed(e) ==
    turn[e].pc = "finish" /\ Wakes(e, maybeFinishDrain(tryFinishAll(Get(e), turn[e].q)))

runWakes(e) ==
    LET x == ses[e]
        live == IF Handler(x) THEN SelectSeq(x.wakeQ, LAMBDA i : ~x.st[i].closedLocal) ELSE <<>>
        y == [Get(e) EXCEPT !.wakeQ = <<>>,
                            !.st = [i \in Ids |-> IF i \in Range(x.wakeQ)
                                                  THEN [@[i] EXCEPT !.wakePending = FALSE] ELSE @[i]]]
    IN  /\ turn[e].pc = "wakes"
        /\ Turn(e, y, IF live = <<>> THEN At("closes") ELSE Dispatch(Head(live), Tail(live), "wakes"))

turnEnd(e) == turn[e].pc = "closes" /\ Turn(e, drainCloses(Get(e)), At("idle"))

----------------------------------------------------------------------------
\* Timers (timers.go): the armed time came.  What is due is chosen: a stream's
\* deadline, its open or half-close timeout, its own wake, or the keepalive.

\* What onTimer finds under the lock: a stream it takes out of the table.  An
\* open that timed out sends no RST.
expired(x, i, kind) ==
    LET y == leaves(verdict(x, i, "err"), i) IN
    IF kind = "open" THEN flushLocked([y EXCEPT !.st[i].verdict = "timeout"]) ELSE abortLocked(verdict(x, i, "err"), i)

due(x, i, kind) ==
    LET s == x.st[i] IN
    /\ s.live
    /\ CASE kind = "open" -> s.opening
         [] kind = "half" -> s.peerFIN # s.localFIN /\ s.half
         [] kind = "deadline" -> s.deadline
         [] kind = "wake" -> s.wakeAt

onTimer(e) ==
    LET x == [Get(e) EXCEPT !.armed = FALSE] IN
    /\ turn[e].pc = "idle" /\ x.conn = "up" /\ ses[e].armed /\ "time" \in opt.ops[e]
    /\ \/ \E i \in Ids, kind \in {"open", "half", "deadline"} :
            due(x, i, kind) /\ Turn(e, expired(x, i, kind), [At("reset") EXCEPT !.i = i])
       \/ \E i \in Ids :
            /\ due(x, i, "wake")
            /\ Turn(e, flushLocked([x EXCEPT !.st[i].wakeAt = FALSE]), [At("OnTimer") EXCEPT !.i = i])
       \/ /\ opt.keepAlive /\ ~x.pingSent
          /\ Turn(e, flushLocked(sendControlLocked([x EXCEPT !.pingSent = TRUE], Control("ping", 0, 0))),
                  At("timerEnd"))
       \/ /\ opt.keepAlive /\ x.pingSent
          /\ Turn(e, CloseConn(drainCloses(flushLocked(x))), At("idle"))

timerReset(e) == turn[e].pc = "reset" /\ Turn(e, resetStream(Get(e), turn[e].i, "err"), At("timerEnd"))

\* The stream's OnTimer may read it; an error would abort it as OnRead's does.
OnTimer(e) ==
    LET x == Get(e)  i == turn[e].i  n == Len(x.st[i].in) IN
    /\ turn[e].pc = "OnTimer"
    /\ Turn(e, IF Handler(x) /\ ~x.st[i].closedLocal
               THEN tryFinish([readIn(x, i, n) EXCEPT !.st[i].late = @ \/ x.st[i].closes > 0], i) ELSE x,
            At("timerEnd"))

timerEnd(e) ==
    turn[e].pc = "timerEnd" /\ Turn(e, maybeFinishDrain(drainCloses(rearmTimer(Get(e)))), At("idle"))

----------------------------------------------------------------------------
\* The transport: the connection dies; its turn reports the close.

TransportFails(e) ==
    /\ ses[e].conn = "up"
    /\ ses[Peer(e)].conn # "up" \/ "die" \in opt.ops[e]
    /\ Turn(e, CloseConn(Get(e)), turn[e])

onTransportClose(e) ==
    LET x == Get(e)
        y == [finishDrainLocked(x, "cut") EXCEPT
                !.conn = "closed", !.closed = TRUE, !.finFlushed = <<>>, !.wakeQ = <<>>,
                !.control = <<>>, !.pending = <<>>, !.readHeld = FALSE, !.flushReq = FALSE,
                !.st = [i \in Ids |-> leaves(verdict(x, i, "err"), i).st[i]]]
    IN  /\ turn[e].pc = "idle" /\ x.conn = "closing"
        /\ \E cause \in opt.causes :
             Turn(e, y, [At("closing") EXCEPT !.q = SetToSeq(Live(x)), !.ret = cause])

transportClosed(e) ==
    /\ turn[e].pc = "closing"
    /\ Turn(e, drainCloses(FoldLeft(LAMBDA x, i : resetStream(x, i, turn[e].ret), Get(e), turn[e].q)), At("over"))

----------------------------------------------------------------------------
\* The application's calls.

Free(e, a) == app[e][a].pc = "idle"
May(e, op) == op \in opt.ops[e]

\* open: publish, send the SYN, arm the timeout, then wait for the verdict.
Open(e) ==
    \E i \in Ids :
      LET x == Get(e)
          s == [newStream(e, TRUE, 0) EXCEPT !.waiting = TRUE]
          y == flushLocked(sendControlLocked([x EXCEPT !.st[i] = s], Control("syn", i, announced(e))))
      IN  /\ May(e, "open") /\ Free(e, "io") /\ i <= opt.opens
          /\ x.st[i] = Absent /\ \A j \in Ids : j < i => x.st[j] # Absent
          /\ ~x.closed /\ ~x.goAway /\ Cardinality(Live(x)) < opt.streams
          /\ IF x.conn = "up" THEN Call(e, "io", [y EXCEPT !.armed = TRUE], Busy("opening", i, 0, 0))
             ELSE Call(e, "io", abortRest(leaves(y, i), i), Idle)

Opened(e) ==
    LET x == Get(e)  c == app[e]["io"]  i == c.i IN
    /\ c.pc = "opening" /\ x.st[i].verdict # "none"
    /\ IF x.st[i].verdict = "ok" THEN Call(e, "io", [x EXCEPT !.st[i].usable = TRUE], Idle)
       ELSE Call(e, "io", resetStream(maybeFinishDrain(leaves(x, i)), i, "err"), Idle)

OpenCancelled(e) ==
    LET c == app[e]["io"] IN
    /\ c.pc = "opening" /\ May(e, "cancel")
    /\ Call(e, "io", abortLocked(verdict(Get(e), c.i, "err"), c.i), [c EXCEPT !.pc = "abort"])

Accept(e) ==
    LET x == Get(e) IN
    /\ Free(e, "io") /\ x.acceptQ # <<>>
    /\ Call(e, "io", [x EXCEPT !.acceptQ = Tail(@), !.st[Head(x.acceptQ)].usable = TRUE], Idle)

\* Write takes credit for what fits, then queues it frame by frame: an abort
\* in between ends it.  wmu keeps a FIN behind it.
Write(e) ==
    \E i \in Ids, n \in 1..opt.data[e] :
      LET x == Get(e)  s == x.st[i] IN
      /\ Free(e, "io") /\ s.usable /\ ~s.wmu
      /\ ~s.closedLocal /\ ~s.opening /\ ~s.localFIN
      /\ n <= s.avail /\ s.put + n <= opt.data[e]
      /\ Call(e, "io", [x EXCEPT !.st[i].avail = @ - n, !.st[i].wmu = TRUE], Busy("enqueue", i, n, 0))

enqueue(e) ==
    LET x == Get(e)  c == app[e]["io"]  i == c.i  s == x.st[i]
        k == Least(c.n, opt.frame)
        b == [j \in 1..k |-> s.put + j]
        y == [x EXCEPT !.st[i].put = @ + k, !.st[i].out = Append(@, Frame("data", i, 0, b)),
                       !.st[i].queued = TRUE, !.pending = IF s.queued THEN @ ELSE Append(@, i)]
        last == ~s.live \/ c.n = k
        z == IF s.live THEN y ELSE x
    IN  /\ c.pc = "enqueue"
        /\ IF last THEN Call(e, "io", requestFlush([z EXCEPT !.st[i].wmu = FALSE]), Idle)
           ELSE Call(e, "io", z, [c EXCEPT !.n = @ - k])

\* Read, in pull mode or from a goroutine of the handler's.
Read(e) ==
    \E i \in Ids :
      LET x == Get(e)  s == x.st[i] IN
      /\ Free(e, "io") /\ s.usable /\ May(e, "read")
      /\ \/ /\ showsEOF(s) /\ ~s.eof
            /\ Call(e, "io", readIn(x, i, 0), Idle)
         \/ \E n \in {1, Len(s.in)} :
              /\ s.in # <<>>
              /\ Call(e, "io", [x EXCEPT !.st[i] = consume(@, n)], Busy("read", i, n, granted(s, n)))

readRest(e) ==
    LET c == app[e]["io"] IN
    c.pc = "read" /\ Call(e, "io", tryFinish(afterRead(Get(e), c.i, c.n, c.g), c.i), Idle)

\* Mutant: the end is marked without the write lock.
CloseWriteUnserialised(e) ==
    \E i \in Ids :
      LET x == Get(e)  s == x.st[i] IN
      /\ Free(e, "ctl") /\ May(e, "fin") /\ s.usable /\ ~s.closedLocal /\ ~s.localFIN
      /\ Call(e, "ctl", [x EXCEPT !.st[i].localFIN = TRUE, !.st[i].half = TRUE], Busy("enqueueFin", i, 0, 0))

\* CloseWrite: the end is marked, its FIN queued, a flush asked for.
CloseWrite(e) ==
    \E i \in Ids :
      LET x == Get(e)  s == x.st[i] IN
      /\ Free(e, "ctl") /\ May(e, "fin") /\ s.usable /\ ~s.wmu /\ ~s.closedLocal /\ ~s.localFIN
      /\ Call(e, "ctl", [x EXCEPT !.st[i].localFIN = TRUE, !.st[i].half = TRUE, !.st[i].wmu = TRUE],
              Busy("enqueueFin", i, 0, 0))

enqueueFin(e) ==
    LET x == Get(e)  c == app[e]["ctl"]  i == c.i  s == x.st[i]
        y == [x EXCEPT !.st[i].finState = "queued", !.st[i].queued = TRUE,
                       !.pending = IF s.queued THEN @ ELSE Append(@, i)]
    IN  /\ c.pc = "enqueueFin"
        /\ LET z == [(IF s.live /\ s.finState = "none" THEN y ELSE x) EXCEPT !.st[i].wmu = FALSE]
           IN  Call(e, "ctl", rearmTimer(tryFinish(requestFlush(z), i)), Idle)

\* CloseWith(err): out of the table and a RST, then the reset.
CloseWith(e) ==
    \E i \in Ids :
      LET x == Get(e) IN
      /\ Free(e, "ctl") /\ May(e, "abort") /\ x.st[i].usable /\ ~x.st[i].closedLocal
      /\ Call(e, "ctl", abortLocked(verdict(x, i, "err"), i), Busy("abort", i, 0, 0))

aborted(e) ==
    \E a \in Apps :
      LET c == app[e][a] IN
      c.pc = "abort" /\ Call(e, a, abortRest(Get(e), c.i), Idle)

\* Stream.Flush from another goroutine takes the FINs that a flush sent.
Flush(e) ==
    LET x == flushLocked(Get(e)) IN
    /\ Free(e, "ctl") /\ May(e, "flush") /\ (ses[e].control # <<>> \/ ses[e].pending # <<>>)
    /\ Call(e, "ctl", maybeFinishDrain(tryFinishAll([x EXCEPT !.finFlushed = <<>>], x.finFlushed)), Idle)

\* ResumeReads: the consumer is owed a turn.
ResumeReads(e) ==
    \E i \in Ids :
      LET x == Get(e)  s == x.st[i] IN
      /\ Free(e, "ctl") /\ s.pause = "paused" /\ ~x.closed /\ ~s.closedLocal
      /\ Call(e, "ctl", [Wake(x) EXCEPT !.st[i].pause = "owed", !.st[i].wakePending = TRUE,
                            !.wakeQ = IF s.wakePending THEN @ ELSE Append(@, i)], Idle)

setDeadlines(e) ==
    \E i \in Ids :
      LET x == Get(e)  s == x.st[i] IN
      /\ Free(e, "ctl") /\ s.usable /\ s.live /\ ~x.closed /\ ~s.closedLocal
      /\ \/ May(e, "deadline") /\ ~s.deadline
              /\ Call(e, "ctl", rearmTimer([x EXCEPT !.st[i].deadline = TRUE]), Idle)
         \/ May(e, "alarm") /\ ~s.wakeAt
              /\ Call(e, "ctl", rearmTimer([x EXCEPT !.st[i].wakeAt = TRUE]), Idle)

\* Shutdown: no new streams; the drain ends when the last stream has left, or
\* is forced when its context ends.
Shutdown(e) ==
    LET x == Get(e)
        y == IF x.goAwaySent THEN x
             ELSE sendControlLocked([x EXCEPT !.goAwaySent = TRUE], Control("goaway", 0, 0))
    IN  /\ Free(e, "ctl") /\ May(e, "shutdown") /\ ~x.draining /\ ~x.closed
        /\ Call(e, "ctl", flushLocked([y EXCEPT !.goAway = TRUE, !.draining = TRUE]), Busy("drain", 0, 0, 0))

draining(e) ==
    app[e]["ctl"].pc = "drain" /\ Call(e, "ctl", maybeFinishDrain(Get(e)), Busy("waitDrain", 0, 0, 0))

waitDrain(e) ==
    LET x == Get(e) IN
    /\ app[e]["ctl"].pc = "waitDrain"
    /\ \/ x.drained # "no" /\ Call(e, "ctl", x, Idle)
       \/ /\ May(e, "force") /\ x.drained = "no"
          /\ Call(e, "ctl", finishDrainLocked(x, "forced"), Busy("force", 0, 0, 0))

forceDrain(e) ==
    LET x == Get(e) IN
    /\ app[e]["ctl"].pc = "force"
    /\ Call(e, "ctl", CloseConn(FoldLeft(abortStream, x, SetToSeq(Live(x)))), Idle)

Close(e) ==
    LET x == Get(e)
        y == IF x.goAwaySent THEN x
             ELSE sendControlLocked([x EXCEPT !.goAwaySent = TRUE], Control("goaway", 0, 0))
    IN  /\ Free(e, "ctl") /\ May(e, "close") /\ ~x.closed /\ x.conn = "up"
        /\ Call(e, "ctl", CloseConn(finishDrainLocked(flushLocked([y EXCEPT !.goAway = TRUE]), "closed")), Idle)

----------------------------------------------------------------------------
Init ==
    /\ opt \in Settings
    /\ ses = [e \in Ends |-> [NewSession(e) EXCEPT !.armed = opt.keepAlive]]
    /\ wire = [e \in Ends |-> <<>>]
    /\ turn = [e \in Ends |-> At("idle")]
    /\ app = [e \in Ends |-> [a \in Apps |-> Idle]]

Next ==
    \E e \in Ends :
      \/ onRead(e) \/ handleFrame(e) \/ acceptStream(e) \/ showStream(e) \/ framesEnd(e)
      \/ dispatchRead(e) \/ OnRead(e) \/ afterCallback(e)
      \/ flush(e) \/ flushed(e) \/ runWakes(e) \/ turnEnd(e)
      \/ onTimer(e) \/ timerReset(e) \/ OnTimer(e) \/ timerEnd(e)
      \/ TransportFails(e) \/ onTransportClose(e) \/ transportClosed(e)
      \/ Open(e) \/ Opened(e) \/ OpenCancelled(e) \/ Accept(e)
      \/ Write(e) \/ enqueue(e)
      \/ Read(e) \/ readRest(e)
      \/ CloseWrite(e) \/ enqueueFin(e)
      \/ CloseWith(e) \/ aborted(e) \/ Flush(e) \/ ResumeReads(e) \/ setDeadlines(e)
      \/ Shutdown(e) \/ draining(e) \/ waitDrain(e) \/ forceDrain(e) \/ Close(e)

Spec == Init /\ [][Next]_vars

----------------------------------------------------------------------------
\* What holds.

\* Each direction of the first stream is the abstract byte stream: what a reader
\* got is the beginning of what its peer's writes took, and the end shows only
\* behind all of it, unless the transport was cut.
First == CHOOSE i \in Ids : \A j \in Ids : i <= j
cut == \E e \in Ends : ses[e].conn # "up"
Numbered(n) == [k \in 1..n |-> k]
ToServer == INSTANCE ByteStream WITH
    sent <- Numbered(ses[Client].st[First].put), got <- ses[Server].st[First].got,
    shut <- ses[Client].st[First].localFIN, gone <- cut, ended <- ses[Server].st[First].eof
ToClient == INSTANCE ByteStream WITH
    sent <- Numbered(ses[Server].st[First].put), got <- ses[Client].st[First].got,
    shut <- ses[Server].st[First].localFIN, gone <- cut, ended <- ses[Client].st[First].eof
StreamKept == ToServer!Spec /\ ToClient!Spec

\* Read reports io.EOF only once the peer has ended its direction and what it
\* sent has been read.
EOFMeansEnd ==
    \A e \in Ends, i \in Ids :
      LET s == ses[e].st[i]  r == ses[Peer(e)].st[i] IN
      s.eof => s.peerFIN /\ Len(s.got) = r.put

SumOf(q, F(_)) == FoldLeft(LAMBDA acc, f : acc + F(f), 0, q)
DataBytes(q, i) == SumOf(q, LAMBDA f : IF f.t = "data" /\ f.id = i THEN Len(f.b) ELSE 0)
Grants(q, i) == SumOf(q, LAMBDA f : IF f.t = "wu" /\ f.id = i THEN f.n ELSE 0)
InHand(e, i, pc) == IF app[e]["io"].pc = pc /\ app[e]["io"].i = i THEN app[e]["io"] ELSE Idle

\* Credit is neither lost nor made: what a sender may still send, what is on
\* its way, what the receiver holds or has not granted again and the grants on
\* their way add up to the window the ends agreed on; and the session's budget
\* counts the bytes its streams hold.
BytesAccounted ==
    \A e \in Ends :
      LET x == ses[e]  y == ses[Peer(e)] IN
      /\ x.pendingBytes = SumOf(SetToSeq(Ids), LAMBDA i : Len(x.st[i].in) + InHand(e, i, "read").n)
      /\ \A i \in Ids :
           LET s == x.st[i]  r == y.st[i] IN
           ~cut /\ s.live /\ r.live /\ ~s.opening /\ ~s.closedLocal /\ ~r.closedLocal =>
             s.avail + InHand(e, i, "enqueue").n + DataBytes(s.out \o wire[e], i) + r.buffered
               + r.consumed + InHand(Peer(e), i, "read").g + Grants(y.control \o wire[Peer(e)], i)
             = s.max

\* Nothing is running, asked for or on its way.
Quiet ==
    \A e \in Ends :
      /\ ses[e].conn = "up" /\ ~ses[e].wake
      /\ turn[e].pc = "idle" /\ (wire[Peer(e)] = <<>> \/ ses[e].kept)
      /\ \A a \in Apps : app[e][a].pc \in {"idle", "opening", "waitDrain"}

\* Whenever everything rests, nothing is owed: no frame waits for a flush that
\* nobody asked for, no finished stream stays in the table, no close or wake is
\* undelivered, no session forgot frames that have arrived, no drain waits for
\* streams that have left, and no timeout is unarmed; unless a session holds its
\* reads back, no Open waits for an answer, no sender for credit that the reader
\* has used, and a stream whose other end has gone was told so (an opener that
\* timed out says nothing: onTimer sends no RST for it).
NothingOwed ==
    Quiet => \A e \in Ends :
      LET x == ses[e]  y == ses[Peer(e)] IN
      /\ x.control = <<>> /\ x.finFlushed = <<>> /\ x.closeQ = <<>> /\ x.wakeQ = <<>>
      /\ x.readHeld => x.pendingBytes > lowWater(x)
      /\ wire[Peer(e)] # <<>> => x.readHeld
      /\ x.draining /\ x.drained = "no" => Live(x) # {}
      /\ timed(x) => x.armed
      /\ \A i \in Live(x) :
           LET s == x.st[i]  r == y.st[i] IN
           /\ s.out = <<>> /\ s.finState # "queued" /\ ~settled(x, i)
           /\ ~x.readHeld /\ ~y.readHeld =>
                /\ ~s.waiting
                /\ r.live /\ s.avail = 0 => r.buffered > 0
                /\ r.live \/ s.peerFIN \/ r.verdict = "timeout"

=============================================================================

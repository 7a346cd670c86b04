----------------------------- MODULE MCWebSocket -----------------------------
(***************************************************************************)
(* The parts of a uws connection, each checked on its own: part says which *)
(* one a behaviour is of. Parts of one name share its variable.            *)
(***************************************************************************)
EXTENDS TLC, Naturals, Sequences

CONSTANTS c1, c2, s1, s2

W(tr, h, l, rs, cs) == [tracked |-> tr, hb |-> h, limit |-> l, rounds |-> rs, calls |-> cs]
WriteSettings ==
    {W(FALSE, FALSE, 2, <<<<"message", "message">>>>, <<"send", "close">>),
     W(FALSE, FALSE, 1, <<<<"message", "Close">>>>, <<"send">>),
     W(FALSE, FALSE, 2, <<<<"message", "Ping", "Close">>>>, <<"send">>),
     W(FALSE, TRUE, 2, <<<<"beat">>, <<"message", "message">>, <<"expire">>>>, <<"send">>),
     W(FALSE, TRUE, 1, <<<<"message", "Ping">>, <<"beat">>>>, <<"send">>),
     W(FALSE, FALSE, 2, <<<<"message", "invalid">>>>, <<"send2">>),
     W(TRUE, TRUE, 1, <<<<"beat">>, <<"Close">>>>, <<"send", "close">>)}

F(op, fin, h, n, b) == [op |-> op, fin |-> fin, head |-> h, size |-> n, bad |-> b]
D(n) == F("data", TRUE, 2, n, "none")
R(h, fs, b, m, p, c) == [hand |-> h, frames |-> fs, budget |-> b, max |-> m, layer |-> FALSE, pauses |-> p, closes |-> c]
FrameSettings ==
    {R(2, <<D(1), F("data", FALSE, 3, 1, "none"), F("ping", TRUE, 2, 0, "none"), F("cont", TRUE, 2, 1, "none"), D(0)>>,
       2, 2, 1, 0),
     R(1, <<F("data", FALSE, 2, 1, "none"), F("cont", TRUE, 2, 2, "none"), D(0)>>, 3, 2, 0, 0),
     R(1, <<D(0), F("data", TRUE, 3, 1, "payload"), D(1)>>, 3, 2, 1, 1),
     R(1, <<D(1), F("pong", TRUE, 2, 0, "none"), F("close", TRUE, 2, 2, "none"), D(1)>>, 2, 2, 1, 1),
     R(1, <<D(2), F("data", TRUE, 3, 2, "big"), D(1)>>, 1, 2, 1, 0),
     R(1, <<F("data", FALSE, 2, 0, "none"), D(1)>>, 2, 2, 1, 0),
     R(1, <<D(1), F("cont", TRUE, 2, 0, "prefix")>>, 2, 2, 1, 0),
     R(1, <<D(1), F("cont", TRUE, 2, 0, "none")>>, 2, 2, 1, 0)}

P(l, h, cs, s, c) == [low |-> l, high |-> h, chunks |-> cs, sends |-> s, closes |-> c]
ReadSettings == {P(1, 3, <<3, 1, 1>>, 0, 0), P(0, 1, <<2, 1>>, 1, 0), P(0, 1, <<1, 2>>, 0, 1)}

HandshakeSettings ==
    {[accepted |-> {c1, c2}, dialed |-> {}, state |-> <<>>, asks |-> {c1}, closes |-> {}],
     [accepted |-> {c1}, dialed |-> {}, state |-> <<>>, asks |-> {}, closes |-> {c1}],
     [accepted |-> {}, dialed |-> {c1}, state |-> (c1 :> s1), asks |-> {c1}, closes |-> {c1}]}

HeartbeatSettings == {[interval |-> 2, timeout |-> 3], [interval |-> 3, timeout |-> 2]}

VARIABLES
    part, opt, ws, cl, net, hb, th, todo, told, in, st, rd, turn, ev, led, obs, loc, conn, shard, sc,
    hook, rq, now, tmr, c, left, d, out

vars == <<part, opt, ws, cl, net, hb, th, todo, told, in, st, rd, turn, ev, led, obs, loc, conn, shard,
          sc, hook, rq, now, tmr, c, left, d, out>>

Write == INSTANCE WsWrite WITH Settings <- WriteSettings
Frames == INSTANCE WsFrames WITH Settings <- FrameSettings, MaxChunks <- 2
Read == INSTANCE WsRead WITH Settings <- ReadSettings
Handshake == INSTANCE WsHandshake WITH Settings <- HandshakeSettings, Conns <- {c1, c2}, States <- {s1, s2},
    Timeout <- 1, MaxSweep <- 2, MaxNow <- 2
Heartbeat == INSTANCE WsHeartbeat WITH Settings <- HeartbeatSettings, Budget <- 1, MaxNow <- 10, MaxMsgs <- 2,
    MaxPauses <- 2, MaxFull <- 2
Client == INSTANCE WsClient WITH Messages <- 3, Cap <- 1,
    Closes <- {"app", "dialer", "peer", "deadline", "heartbeat"}

\* A variable the part does not have.
Off == "off"

Init ==
    \/ /\ part = "write" /\ Write!Init
       /\ in = Off /\ st = Off /\ rd = Off /\ turn = Off /\ ev = Off /\ led = Off /\ obs = Off
       /\ loc = Off /\ conn = Off /\ shard = Off /\ sc = Off /\ hook = Off /\ rq = Off /\ now = Off
       /\ tmr = Off /\ c = Off /\ left = Off /\ d = Off /\ out = Off
    \/ /\ part = "frames" /\ Frames!Init
       /\ ws = Off /\ cl = Off /\ net = Off /\ hb = Off /\ th = Off /\ todo = Off /\ told = Off
       /\ led = Off /\ obs = Off /\ loc = Off /\ conn = Off /\ shard = Off /\ sc = Off
       /\ hook = Off /\ rq = Off /\ now = Off /\ tmr = Off /\ c = Off /\ left = Off /\ d = Off
       /\ out = Off
    \/ /\ part = "read" /\ Read!Init
       /\ cl = Off /\ hb = Off /\ todo = Off /\ told = Off /\ in = Off /\ st = Off /\ rd = Off
       /\ turn = Off /\ ev = Off /\ conn = Off /\ shard = Off /\ sc = Off /\ hook = Off /\ rq = Off
       /\ now = Off /\ tmr = Off /\ c = Off /\ left = Off /\ d = Off /\ out = Off
    \/ /\ part = "handshake" /\ Handshake!Init
       /\ ws = Off /\ cl = Off /\ net = Off /\ hb = Off /\ todo = Off /\ told = Off /\ in = Off
       /\ rd = Off /\ turn = Off /\ ev = Off /\ led = Off /\ obs = Off /\ loc = Off /\ tmr = Off
       /\ c = Off /\ left = Off /\ d = Off /\ out = Off
    \/ /\ part = "heartbeat" /\ Heartbeat!Init
       /\ ws = Off /\ cl = Off /\ th = Off /\ todo = Off /\ told = Off /\ in = Off /\ st = Off
       /\ rd = Off /\ turn = Off /\ ev = Off /\ led = Off /\ obs = Off /\ loc = Off /\ conn = Off
       /\ shard = Off /\ sc = Off /\ hook = Off /\ rq = Off /\ d = Off /\ out = Off
    \/ /\ part = "client" /\ Client!Init
       /\ opt = Off /\ ws = Off /\ hb = Off /\ todo = Off /\ told = Off /\ in = Off /\ st = Off
       /\ rd = Off /\ turn = Off /\ ev = Off /\ led = Off /\ obs = Off /\ loc = Off /\ conn = Off
       /\ shard = Off /\ sc = Off /\ hook = Off /\ rq = Off /\ now = Off /\ tmr = Off /\ c = Off
       /\ left = Off

WriteNext ==
    /\ part = "write" /\ Write!Next
    /\ UNCHANGED <<part, in, st, rd, turn, ev, led, obs, loc, conn, shard, sc, hook, rq, now, tmr,
                   c, left, d, out>>

FramesNext ==
    /\ part = "frames" /\ Frames!Next
    /\ UNCHANGED <<part, ws, cl, net, hb, th, todo, told, led, obs, loc, conn, shard, sc, hook, rq,
                   now, tmr, c, left, d, out>>

ReadNext ==
    /\ part = "read" /\ Read!Next
    /\ UNCHANGED <<part, cl, hb, todo, told, in, st, rd, turn, ev, conn, shard, sc, hook, rq, now,
                   tmr, c, left, d, out>>

HandshakeNext ==
    /\ part = "handshake" /\ Handshake!Next
    /\ UNCHANGED <<part, ws, cl, net, hb, todo, told, in, rd, turn, ev, led, obs, loc, tmr, c,
                   left, d, out>>

HeartbeatNext ==
    /\ part = "heartbeat" /\ Heartbeat!Next
    /\ UNCHANGED <<part, ws, cl, th, todo, told, in, st, rd, turn, ev, led, obs, loc, conn, shard,
                   sc, hook, rq, d, out>>

ClientNext ==
    /\ part = "client" /\ Client!Next
    /\ UNCHANGED <<part, opt, ws, hb, todo, told, in, st, rd, turn, ev, led, obs, loc, conn, shard,
                   sc, hook, rq, now, tmr, c, left>>

Next == WriteNext \/ FramesNext \/ ReadNext \/ HandshakeNext \/ HeartbeatNext \/ ClientNext

Spec == Init /\ [][Next]_vars

-----------------------------------------------------------------------------
(* Properties                                                              *)



\* Nothing is left waiting for an event that has come and gone: no batch, no
\* Close frame, no close, no paused read, no callback on a full queue.
WsNothingStuck ==
    /\ part = "write" => Write!NothingStuck
    /\ part = "read" => Read!ReadsResume
    /\ part = "client" => Client!CloseReleases

\* The heartbeat's and the deadlines' timers: a wake is aimed at the next
\* moment something is due, an outstanding Ping has the deadline of its real
\* state, an arrived Pong is heard, and no armed deadline is lost.
WsTimersAimed ==
    /\ part = "write" => Write!PingTimed
    /\ part = "heartbeat" => Heartbeat!WakeAimed /\ Heartbeat!PongHeard
    /\ part = "handshake" => Handshake!DeadlineKept

=============================================================================

------------------------------- MODULE WsWrite -------------------------------
(***************************************************************************)
(* The sending side of a uws connection and its close: frames that join    *)
(* the read round's batch or go to the transport, a Close frame that waits *)
(* for outbound room, and the claim that closes the transport once         *)
(* everything accepted has left.  A goroutine holds a list of the          *)
(* operations it has still to run; the write lock, the transport's reports *)
(* and the close progress are taken in single steps, so that a report may  *)
(* come between any two of them.  Every frame has size one.                *)
(***************************************************************************)
EXTENDS Naturals, Sequences, FiniteSets, SequencesExt

CONSTANT Settings  \* the connections a run explores, as records of
                   \*   tracked: the transport hands out wire receipts;
                   \*   hb: it has a heartbeat;
                   \*   limit: MaxOutboundBuffered;
                   \*   rounds: what each turn of the connection does, in order:
                   \*     the frames it reads, or one decision of the heartbeat;
                   \*   calls: what an application goroutine calls, in order

Threads == {"turn", "app", "rep", "timer"}
None == "none"

VARIABLES
    opt,
    ws,   \* closing, closed, the round's batching, the batch, the holder of
          \* writes.mu, whether the close deadline is armed
    cl,   \* connCloseProgress
    net,  \* the transport: its queue, what left, the frames whose report is
          \* owed, the receipts that are not reported, and how it was closed
    hb,   \* heartbeatState: the positions accepted and retired, the Ping's
          \* target and receipt, whether one is outstanding, and whether it
          \* is noted as sent
    th,   \* a goroutine's operations, the frames it writes, the result and
          \* the receipt
    todo, \* the turns and the calls to come, and the messages sent so far
    told  \* the messages whose sender was told that they are accepted

vars == <<opt, ws, cl, net, hb, th, todo, told>>

Idle == [ops |-> <<>>, f |-> <<>>, res |-> "ok", r |-> 0]

Init ==
    /\ opt \in Settings
    /\ ws = [closing |-> FALSE, closed |-> FALSE, batching |-> FALSE, batch |-> <<>>,
             mu |-> None, armed |-> FALSE]
    /\ cl = [pending |-> 0, sent |-> FALSE, deferred |-> FALSE, phase |-> "idle",
             payload |-> FALSE, receipt |-> 0, early |-> 0, done |-> FALSE]
    /\ net = [q |-> <<>>, out |-> <<>>, owed |-> 0, receipts |-> {}, end |-> "open"]
    /\ hb = [accepted |-> 0, retired |-> 0, target |-> 0, receipt |-> 0, out |-> FALSE, sent |-> FALSE]
    /\ th = [t \in Threads |-> Idle]
    /\ todo = [turn |-> opt.rounds, app |-> opt.calls, n |-> 0]
    /\ told = {}

At(t, op) == th[t].ops # <<>> /\ Head(th[t].ops) = op
Rest(t) == Tail(th[t].ops)
\* t goes on with ops, with the result res so far.
Go(t, ops, res) == th' = [th EXCEPT ![t].ops = ops, ![t].res = res]
Next1(t) == Go(t, Rest(t), th[t].res)
Cur(t) == Head(th[t].f)

FlushBatch == <<"takeBatch", "putBatch", "finBatch">>
WriteFrame == <<"track", "put", "finish">>
Unlock == <<"unlock", "release", "tryClose">>
SendDeferred == <<"takeDeferred">>
CloseTransport == <<"request", "tryClose", "ensureTimer", "tryClose">>

\* What is left of t's operations behind its next op.
Behind(t, op) ==
    LET i == CHOOSE j \in 1..Len(th[t].ops) :
                 /\ th[t].ops[j] = op
                 /\ \A k \in 1..(j - 1) : th[t].ops[k] # op
    IN  SubSeq(th[t].ops, i + 1, Len(th[t].ops))

closeFrameQueued == cl.sent \/ cl.deferred

outboundHasRoom(n) == Len(net.q) + Len(ws.batch) + n <= opt.limit

\* The frame is encoded into the write batch; a Close frame counts as sent.
batchFrame(f) ==
    /\ ws' = [ws EXCEPT !.batch = Append(@, f)]
    /\ hb' = IF opt.tracked THEN hb
             ELSE [hb EXCEPT !.accepted = @ + 1,
                             !.target = IF f = "ping" THEN hb.accepted + 1 ELSE @]
    /\ cl' = IF f = "close" THEN [cl EXCEPT !.sent = TRUE, !.payload = FALSE, !.deferred = FALSE] ELSE cl

lock(t) ==
    /\ At(t, "lock") /\ ws.mu = None
    /\ ws' = [ws EXCEPT !.mu = t] /\ Next1(t)
    /\ UNCHANGED <<opt, cl, net, hb, todo, told>>

\* The lock is held: a frame goes into the round's batch, or behind it to the
\* transport.
queueFrame(t) ==
    /\ At(t, "queueFrame")
    /\ LET f == Cur(t) IN
       \/ /\ ws.closed \/ (ws.closing /\ f # "close")
          /\ Go(t, Rest(t), "closed") /\ UNCHANGED <<ws, cl, hb>>
       \/ /\ ~ws.closed /\ f = "close" /\ closeFrameQueued
          /\ Next1(t) /\ UNCHANGED <<ws, cl, hb>>
       \/ /\ ~ws.closed /\ f = "close" /\ ~closeFrameQueued /\ opt.tracked
          /\ Go(t, <<"putTracked", "setReceipt">> \o Rest(t), "ok")
          /\ UNCHANGED <<ws, cl, hb>>
       \/ /\ ~ws.closed /\ (IF f = "close" THEN ~closeFrameQueued /\ ~opt.tracked ELSE ~ws.closing)
          /\ IF ws.batching /\ outboundHasRoom(1)
             THEN batchFrame(f) /\ Go(t, Rest(t), "ok")
             ELSE Go(t, FlushBatch \o WriteFrame \o Rest(t), "ok") /\ UNCHANGED <<ws, cl, hb>>
    /\ UNCHANGED <<opt, net, todo, told>>

\* flushBatchLocked: the batch joins the pending count before it is handed over.
takeBatch(t) ==
    /\ At(t, "takeBatch")
    /\ IF ws.batch = <<>> THEN Go(t, Behind(t, "finBatch"), th[t].res) /\ UNCHANGED cl
       ELSE Next1(t) /\ cl' = IF opt.tracked THEN cl ELSE [cl EXCEPT !.pending = @ + Len(ws.batch)]
    /\ UNCHANGED <<opt, ws, net, hb, todo, told>>

\* The transport takes fs, or refuses them whole.
Accepts(fs) == Len(net.q) + Len(fs) <= opt.limit
Answer(fs) == IF net.end # "open" THEN "closed" ELSE IF Accepts(fs) THEN "ok" ELSE "full"
Take(fs) == IF Answer(fs) = "ok" THEN [net EXCEPT !.q = @ \o fs] ELSE net

putBatch(t) ==
    /\ At(t, "putBatch")
    /\ net' = Take(ws.batch) /\ Go(t, Rest(t), Answer(ws.batch))
    /\ UNCHANGED <<opt, ws, cl, hb, todo, told>>

Less(a, b) == IF a < b THEN 0 ELSE a - b

\* reducePendingOutbound and rollbackOutbound.
rollback(n) ==
    /\ cl' = IF opt.tracked THEN cl ELSE [cl EXCEPT !.pending = Less(@, n)]
    /\ hb' = IF opt.tracked THEN hb ELSE [hb EXCEPT !.accepted = @ - (cl.pending - Less(cl.pending, n))]

\* A refused batch breaks the stream: failStream.
finBatch(t) ==
    /\ At(t, "finBatch")
    /\ ws' = [ws EXCEPT !.batch = <<>>, !.closing = @ \/ th[t].res = "full"]
    /\ IF th[t].res = "ok" THEN Next1(t) /\ UNCHANGED <<cl, hb>>
       ELSE /\ rollback(Len(ws.batch))
            /\ LET rest == IF Rest(t) # <<>> /\ Head(Rest(t)) = "track" THEN Behind(t, "finish") ELSE Rest(t)
               IN  IF th[t].res = "full" THEN Go(t, <<"abort">> \o rest, "broken") ELSE Go(t, rest, "closed")
    /\ UNCHANGED <<opt, net, todo, told>>

\* trackOutbound and markHeartbeatPingTarget: before the transport sees the frame.
track(t) ==
    /\ At(t, "track")
    /\ cl' = IF opt.tracked THEN cl ELSE [cl EXCEPT !.pending = @ + 1]
    /\ hb' = IF opt.tracked THEN hb
             ELSE [hb EXCEPT !.accepted = @ + 1,
                             !.target = IF Cur(t) = "ping" THEN hb.accepted + 1 ELSE @]
    /\ Next1(t) /\ UNCHANGED <<opt, ws, net, todo, told>>

put(t) ==
    /\ At(t, "put")
    /\ net' = Take(<<Cur(t)>>) /\ Go(t, Rest(t), Answer(<<Cur(t)>>))
    /\ UNCHANGED <<opt, ws, cl, hb, todo, told>>

\* finishFrameWrite: a refused frame is rolled back, a Close frame is marked sent.
finish(t) ==
    /\ At(t, "finish") /\ Next1(t)
    /\ IF th[t].res # "ok" THEN rollback(1)
       ELSE /\ cl' = IF Cur(t) = "close"
                     THEN [cl EXCEPT !.sent = TRUE, !.payload = FALSE, !.deferred = FALSE] ELSE cl
            /\ UNCHANGED hb
    /\ UNCHANGED <<opt, ws, net, todo, told>>

\* writeTrackedFrame: the receipt marks the wire position behind the frame.
putTracked(t) ==
    /\ At(t, "putTracked")
    /\ LET a == Answer(<<Cur(t)>>)
           r == Len(net.out) + Len(net.q) + 1
       IN  IF a = "ok"
           THEN /\ net' = [Take(<<Cur(t)>>) EXCEPT !.receipts = @ \cup {r}]
                /\ th' = [th EXCEPT ![t].ops = Rest(t), ![t].res = a, ![t].r = r]
           ELSE Go(t, Behind(t, "setReceipt"), a) /\ UNCHANGED net
    /\ UNCHANGED <<opt, ws, cl, hb, todo, told>>

\* A Close frame's report may have come first; a Ping is registered on the turn.
setReceipt(t) ==
    /\ At(t, "setReceipt")
    /\ IF Cur(t) = "ping"
       THEN hb' = [hb EXCEPT !.receipt = th[t].r] /\ Next1(t) /\ UNCHANGED cl
       ELSE /\ cl' = IF cl.early = th[t].r THEN [cl EXCEPT !.early = 0, !.done = TRUE]
                     ELSE [cl EXCEPT !.receipt = th[t].r]
            /\ Go(t, <<"markSent">> \o Rest(t), "ok") /\ UNCHANGED hb
    /\ UNCHANGED <<opt, ws, net, todo, told>>

markSent(t) ==
    /\ At(t, "markSent") /\ Next1(t)
    /\ cl' = [cl EXCEPT !.sent = TRUE, !.payload = FALSE, !.deferred = FALSE]
    /\ UNCHANGED <<opt, ws, net, hb, todo, told>>

\* unlockWrite: a batch that no round will hand over goes now; then the lock is
\* released, and a close that is pending is tried.
unlock(t) ==
    /\ At(t, "unlock")
    /\ IF ws.batch # <<>> /\ ~ws.batching
       THEN Go(t, FlushBatch \o Rest(t), th[t].res) /\ UNCHANGED ws
       ELSE Go(t, Tail(Rest(t)), th[t].res) /\ ws' = [ws EXCEPT !.mu = None]
    /\ UNCHANGED <<opt, cl, net, hb, todo, told>>

release(t) ==
    /\ At(t, "release") /\ Next1(t)
    /\ ws' = [ws EXCEPT !.mu = None]
    /\ UNCHANGED <<opt, cl, net, hb, todo, told>>

\* tryCloseTransport: the claim needs the Close frame gone, by its receipt or by
\* the count; closing the transport stops the close deadline.
claimable ==
    /\ cl.phase = "pending" /\ ~cl.deferred
    /\ IF opt.tracked THEN cl.done ELSE cl.pending = 0

requestClose(cause) == net' = IF net.end = "open"
                              THEN [net EXCEPT !.end = cause, !.q = IF cause = "abort" THEN <<>> ELSE @] ELSE net

tryClose(t) ==
    /\ At(t, "tryClose")
    /\ IF claimable
       THEN /\ cl' = [cl EXCEPT !.phase = "claimed"] /\ ws' = [ws EXCEPT !.armed = FALSE]
            /\ requestClose("eof")
            /\ Go(t, IF Rest(t) # <<>> /\ Head(Rest(t)) = "ensureTimer" THEN Behind(t, "ensureTimer") ELSE Rest(t), th[t].res)
       ELSE Next1(t) /\ UNCHANGED <<cl, ws, net>>
    /\ UNCHANGED <<opt, hb, todo, told>>

\* abortTransport, failStream's end: the claim that a drain makes, made now.
abort(t) ==
    /\ At(t, "abort") /\ Next1(t)
    /\ IF cl.phase = "claimed" THEN UNCHANGED <<cl, ws, net>>
       ELSE /\ cl' = [cl EXCEPT !.phase = "claimed", !.payload = FALSE, !.deferred = FALSE]
            /\ ws' = [ws EXCEPT !.armed = FALSE]
            /\ requestClose("abort")
    /\ UNCHANGED <<opt, hb, todo, told>>

\* closeTransport: markClosing, and the request that a claim answers.
request(t) ==
    /\ At(t, "request")
    /\ ws' = [ws EXCEPT !.closing = TRUE]
    /\ IF cl.phase = "claimed" THEN Go(t, SubSeq(Rest(t), 4, Len(Rest(t))), th[t].res) /\ UNCHANGED cl
       ELSE Next1(t) /\ cl' = [cl EXCEPT !.phase = "pending"]
    /\ UNCHANGED <<opt, net, hb, todo, told>>

ensureTimer(t) ==
    /\ At(t, "ensureTimer") /\ Next1(t)
    /\ ws' = [ws EXCEPT !.armed = @ \/ ~ws.closed]
    /\ UNCHANGED <<opt, cl, net, hb, todo, told>>

\* sendCloseFrameLocked behind the frame: one that found no room is deferred,
\* and the connection is closing.
deferClose(t) ==
    /\ At(t, "deferClose")
    /\ LET full == th[t].res = "full"
           takes == full /\ ~closeFrameQueued /\ cl.phase # "claimed"
       IN  /\ cl' = IF takes THEN [cl EXCEPT !.deferred = TRUE, !.payload = TRUE] ELSE cl
           /\ Go(t, (IF th[t].res \in {"ok", "full"} THEN FlushBatch ELSE <<>>) \o Unlock
                       \o (IF takes THEN SendDeferred ELSE <<>>) \o Rest(t),
                 IF full THEN "ok" ELSE th[t].res)
    /\ ws' = [ws EXCEPT !.closing = TRUE]
    /\ UNCHANGED <<opt, net, hb, todo, told>>

\* sendDeferredClose: one attempt takes the payload; a refused one puts it back
\* and looks for room that was made meanwhile.
takeDeferred(t) ==
    /\ At(t, "takeDeferred")
    /\ IF ~cl.payload THEN Next1(t) /\ UNCHANGED cl
       ELSE /\ cl' = [cl EXCEPT !.payload = FALSE]
            /\ th' = [th EXCEPT ![t].ops = (IF opt.tracked THEN <<"putTracked", "setReceipt">> ELSE WriteFrame)
                                             \o <<"submitted">> \o Rest(t),
                                ![t].f = <<"close">>]
    /\ UNCHANGED <<opt, ws, net, hb, todo, told>>

submitted(t) ==
    /\ At(t, "submitted")
    /\ Go(t, (CASE th[t].res = "ok" -> <<"tryClose">>
                 [] th[t].res = "full" -> <<"restore", "recheck">>
                 [] OTHER -> <<>>) \o Rest(t), "ok")
    /\ UNCHANGED <<opt, ws, cl, net, hb, todo, told>>

restore(t) ==
    /\ At(t, "restore") /\ Next1(t)
    /\ cl' = [cl EXCEPT !.payload = cl.deferred]
    /\ UNCHANGED <<opt, ws, net, hb, todo, told>>

recheck(t) ==
    /\ At(t, "recheck")
    /\ Go(t, (IF Accepts(<<"close">>) THEN SendDeferred ELSE <<>>) \o Rest(t), "ok")
    /\ UNCHANGED <<opt, ws, cl, net, hb, todo, told>>

-----------------------------------------------------------------------------
(* The calls and the callbacks.                                            *)

\* Conn.send under the lock.  A plain connection without a heartbeat and
\* without a close appends to the round's batch and only releases the lock; a
\* message of several frames is admitted whole.
sendMsg(t) ==
    /\ At(t, "sendMsg")
    /\ \/ /\ ws.batching /\ ~opt.tracked /\ ~opt.hb /\ ~closeFrameQueued /\ cl.phase = "idle"
          /\ ~ws.closed /\ ~ws.closing /\ Len(th[t].f) = 1 /\ outboundHasRoom(1)
          /\ ws' = [ws EXCEPT !.batch = Append(@, Cur(t))] /\ told' = told \cup {Cur(t)}
          /\ Go(t, <<"release">> \o Rest(t), "ok")
       \/ /\ ws.closed \/ ws.closing
          /\ Go(t, Unlock \o Rest(t), "closed") /\ UNCHANGED <<ws, told>>
       \/ /\ ~ws.closed /\ ~ws.closing /\ Len(th[t].f) > 1 /\ ~outboundHasRoom(Len(th[t].f))
          /\ Go(t, Unlock \o Rest(t), "full") /\ UNCHANGED <<ws, told>>
       \/ /\ ~ws.closed /\ ~ws.closing
          /\ IF Len(th[t].f) > 1 THEN outboundHasRoom(Len(th[t].f))
             ELSE ~(ws.batching /\ ~opt.tracked /\ ~opt.hb /\ outboundHasRoom(1))
          /\ Go(t, <<"queueFrame", "queued">> \o Rest(t), "ok") /\ UNCHANGED <<ws, told>>
    /\ UNCHANGED <<opt, cl, net, hb, todo>>

\* sendMessageLocked: the next fragment, or the end.  A message of which only
\* a part is accepted breaks the stream.
queued(t) ==
    /\ At(t, "queued")
    /\ LET ok == th[t].res = "ok"
           more == ok /\ Len(th[t].f) > 1
           split == th[t].r = 1 /\ th[t].res \notin {"ok", "closed"}
       IN  /\ told' = IF ok THEN told \cup {Cur(t)} ELSE told
           /\ ws' = [ws EXCEPT !.closing = @ \/ split]
           /\ th' = [th EXCEPT ![t].f = IF more THEN Tail(@) ELSE @, ![t].r = IF more THEN 1 ELSE 0,
                               ![t].ops = (IF split THEN <<"abort">> ELSE <<>>)
                                  \o (IF more THEN <<"queueFrame", "queued">> ELSE Unlock) \o Rest(t)]
    /\ UNCHANGED <<opt, cl, net, hb, todo>>

Msgs == <<"m1", "m2", "m3", "m4", "m5", "m6">>
\* t sends the next n messages, or one message of n frames.
Sends(t, n, ops) ==
    /\ th' = [th EXCEPT ![t].ops = <<"lock", "sendMsg">> \o ops, ![t].f = SubSeq(Msgs, todo.n + 1, todo.n + n), ![t].r = 0]
    /\ todo' = [todo EXCEPT !.n = @ + n]
Writes(t, f, ops) == th' = [th EXCEPT ![t].ops = <<"lock">> \o ops, ![t].f = <<f>>, ![t].res = "ok"]

\* A read round delivers its frames in order; it batches when several are there.
StartRound ==
    /\ th["turn"].ops = <<>> /\ todo.turn # <<>> /\ ~ws.closed /\ net.end = "open"
    /\ LET round == Head(todo.turn) IN
       /\ ws' = [ws EXCEPT !.batching = Len(round) > 1]
       /\ Go("turn", Append(round, "endRound"), "ok")
    /\ todo' = [todo EXCEPT !.turn = Tail(@)]
    /\ UNCHANGED <<opt, cl, net, hb, told>>

\* The Handler answers a message with one of its own, unless a close drops it.
message(t) ==
    /\ At(t, "message")
    /\ IF ws.closed THEN Go(t, <<"endRound">>, "ok") /\ UNCHANGED todo
       ELSE IF ws.closing THEN Next1(t) /\ UNCHANGED todo
       ELSE Sends(t, 1, Rest(t))
    /\ UNCHANGED <<opt, ws, cl, net, hb, told>>

\* acceptControl: a Ping is answered at once, a Close with a Close.
Ping(t) ==
    /\ At(t, "Ping") /\ Writes(t, "pong", <<"queueFrame", "flushed">> \o Rest(t))
    /\ UNCHANGED <<opt, ws, cl, net, hb, todo, told>>

Close(t) ==
    /\ At(t, "Close") /\ Writes(t, "close", <<"queueFrame", "deferClose">> \o CloseTransport \o Rest(t))
    /\ UNCHANGED <<opt, ws, cl, net, hb, todo, told>>

\* sendPong and sendHeartbeatPing behind their frame; a Ping that was not
\* queued is canceled.
flushed(t) ==
    /\ At(t, "flushed")
    /\ Go(t, (IF th[t].res = "ok" THEN FlushBatch ELSE <<>>) \o Unlock \o Rest(t), th[t].res)
    /\ hb' = IF Cur(t) = "ping" /\ th[t].res # "ok"
             THEN [hb EXCEPT !.out = FALSE, !.sent = FALSE, !.target = 0, !.receipt = 0] ELSE hb
    /\ UNCHANGED <<opt, ws, cl, net, todo, told>>

\* protocolClose: the Close frame takes over, or the transport is aborted.
invalid(t) ==
    /\ At(t, "invalid") /\ Writes(t, "close", <<"queueFrame", "deferClose", "protocolClose">>)
    /\ UNCHANGED <<opt, ws, cl, net, hb, todo, told>>

protocolClose(t) ==
    /\ At(t, "protocolClose")
    /\ ws' = [ws EXCEPT !.closing = TRUE]
    /\ Go(t, IF th[t].res = "ok" THEN Append(CloseTransport, "endRound") ELSE <<"abort", "endRound">>, th[t].res)
    /\ UNCHANGED <<opt, cl, net, hb, todo, told>>

\* The round's word is cleared before its batch is handed over.
endRound(t) ==
    /\ At(t, "endRound")
    /\ ws' = [ws EXCEPT !.batching = FALSE]
    /\ Go(t, IF ws.batching THEN <<"lock">> \o Unlock ELSE <<>>, "ok")
    /\ UNCHANGED <<opt, cl, net, hb, todo, told>>

\* The heartbeat's Ping, one at a time, and the close of a silent peer.
beat(t) ==
    /\ At(t, "beat") /\ Writes(t, "ping", <<"beginPing">> \o Rest(t))
    /\ UNCHANGED <<opt, ws, cl, net, hb, todo, told>>

beginPing(t) ==
    /\ At(t, "beginPing")
    /\ IF ws.closed \/ ws.closing \/ hb.out THEN Go(t, Unlock \o Rest(t), "ok") /\ UNCHANGED hb
       ELSE /\ hb' = [hb EXCEPT !.out = TRUE, !.sent = FALSE, !.target = 0, !.receipt = 0]
            /\ Go(t, (IF opt.tracked THEN <<"putTracked", "setReceipt">> ELSE <<"queueFrame">>)
                       \o <<"flushed">> \o Rest(t), "ok")
    /\ UNCHANGED <<opt, ws, cl, net, todo, told>>

expire(t) ==
    /\ At(t, "expire") /\ Writes(t, "close", <<"expireLocked">> \o Rest(t))
    /\ UNCHANGED <<opt, ws, cl, net, hb, todo, told>>

expireLocked(t) ==
    /\ At(t, "expireLocked")
    /\ Go(t, (IF ws.closed \/ ws.closing THEN Unlock ELSE <<"queueFrame", "expired">>) \o Rest(t), "ok")
    /\ UNCHANGED <<opt, ws, cl, net, hb, todo, told>>

\* A silent peer is not waited for: a Close frame without room aborts.
expired(t) ==
    /\ At(t, "expired")
    /\ ws' = [ws EXCEPT !.closing = TRUE]
    /\ Go(t, (IF th[t].res = "ok" THEN FlushBatch \o Unlock \o CloseTransport
              ELSE Append(Unlock, "abort")) \o Rest(t), th[t].res)
    /\ UNCHANGED <<opt, cl, net, hb, todo, told>>

\* The application's goroutine.
Call ==
    /\ th["app"].ops = <<>> /\ todo.app # <<>>
    /\ LET c == Head(todo.app)
           left == [todo EXCEPT !.app = Tail(@)]
       IN  \/ /\ c \in {"send", "send2"}
              /\ LET n == IF c = "send" THEN 1 ELSE 2 IN
                 /\ th' = [th EXCEPT !["app"].ops = <<"lock", "sendMsg">>, !["app"].r = 0,
                                     !["app"].f = SubSeq(Msgs, todo.n + 1, todo.n + n)]
                 /\ todo' = [left EXCEPT !.n = @ + n]
           \/ /\ c = "close" /\ todo' = left
              /\ IF ws.closing THEN UNCHANGED th ELSE Writes("app", "close", <<"closeCheck">>)
    /\ UNCHANGED <<opt, ws, cl, net, hb, told>>

closeCheck(t) ==
    /\ At(t, "closeCheck")
    /\ Go(t, IF ws.closed \/ ws.closing THEN Unlock ELSE <<"queueFrame", "deferClose", "startTimer">>, "ok")
    /\ UNCHANGED <<opt, ws, cl, net, hb, todo, told>>

startTimer(t) ==
    /\ At(t, "startTimer")
    /\ Go(t, IF th[t].res = "broken" THEN <<"abort">> ELSE <<>>, "ok")
    /\ ws' = [ws EXCEPT !.armed = @ \/ (th[t].res = "ok" /\ ~ws.closed)]
    /\ UNCHANGED <<opt, cl, net, hb, todo, told>>

\* The transport sends a frame; its report comes later, for all that left.
Send ==
    /\ net.q # <<>> /\ net.end # "abort"
    /\ net' = [net EXCEPT !.q = Tail(@), !.out = Append(@, Head(net.q)), !.owed = @ + 1]
    /\ UNCHANGED <<opt, ws, cl, hb, th, todo, told>>

\* onOutbound, and transportSent: the count and the Ping's position, then a
\* Close frame that waits for room, then the claim.
transportSent ==
    /\ th["rep"].ops = <<>> /\ net.owed > 0 /\ ~ws.closed
    /\ net' = [net EXCEPT !.owed = 0]
    /\ LET left == Less(cl.pending, net.owed)
           retired == hb.retired + (cl.pending - left)
       IN  IF opt.tracked THEN UNCHANGED <<cl, hb>>
           ELSE /\ cl' = [cl EXCEPT !.pending = left]
                /\ hb' = [hb EXCEPT !.retired = retired,
                                    !.sent = @ \/ (hb.out /\ hb.target # 0 /\ retired >= hb.target)]
    /\ Go("rep", <<"lookDeferred", "tryClose">>, "ok")
    /\ UNCHANGED <<opt, ws, todo, told>>

lookDeferred(t) ==
    /\ At(t, "lookDeferred")
    /\ Go(t, (IF cl.deferred THEN SendDeferred ELSE <<>>) \o Rest(t), "ok")
    /\ UNCHANGED <<opt, ws, cl, net, hb, todo, told>>

\* receiptSent, on the turn: the Close frame's receipt, or one its writer has
\* not registered yet, and the Ping's.
receiptSent ==
    /\ th["turn"].ops = <<>>
    /\ \E r \in net.receipts :
         /\ Len(net.out) >= r /\ \A s \in net.receipts : r <= s
         /\ net' = [net EXCEPT !.receipts = @ \ {r}]
         /\ cl' = IF cl.receipt = r THEN [cl EXCEPT !.receipt = 0, !.done = TRUE] ELSE [cl EXCEPT !.early = r]
         /\ Go("turn", IF cl.receipt = r THEN <<"tryClose">> ELSE <<>>, "ok")
         /\ hb' = IF hb.receipt = r /\ hb.out THEN [hb EXCEPT !.receipt = 0, !.sent = TRUE] ELSE hb
    /\ UNCHANGED <<opt, ws, todo, told>>

\* The close deadline, and the transport's OnClose.
fireDeadline ==
    /\ ws.armed /\ th["timer"].ops = <<>>
    /\ ws' = [ws EXCEPT !.armed = FALSE]
    /\ Go("timer", IF ws.closed THEN <<>> ELSE <<"abort">>, "ok")
    /\ UNCHANGED <<opt, cl, net, hb, todo, told>>

onClose ==
    /\ net.end # "open" /\ ~ws.closed /\ net.q = <<>> /\ th["turn"].ops = <<>>
    /\ ws' = [ws EXCEPT !.closed = TRUE, !.armed = FALSE]
    /\ todo' = [todo EXCEPT !.turn = <<>>]
    /\ UNCHANGED <<opt, cl, net, hb, th, told>>

Quiet ==
    /\ \A t \in Threads : th[t].ops = <<>>
    /\ todo.turn = <<>> /\ todo.app = <<>>
    /\ IF net.end = "open" THEN net.q = <<>> /\ net.owed = 0 /\ net.receipts = {} ELSE ws.closed

Resting == Quiet /\ ~ws.armed /\ UNCHANGED vars

Locked(t) ==
    \/ queueFrame(t) \/ takeBatch(t) \/ putBatch(t) \/ finBatch(t) \/ track(t) \/ put(t) \/ finish(t)
    \/ putTracked(t) \/ setReceipt(t) \/ markSent(t) \/ unlock(t) \/ release(t) \/ sendMsg(t)
    \/ queued(t) \/ flushed(t) \/ deferClose(t) \/ beginPing(t) \/ expireLocked(t) \/ expired(t)
    \/ closeCheck(t)

Unlocked(t) ==
    \/ lock(t) \/ tryClose(t) \/ abort(t) \/ request(t) \/ ensureTimer(t) \/ takeDeferred(t)
    \/ submitted(t) \/ restore(t) \/ recheck(t) \/ message(t) \/ Ping(t) \/ Close(t) \/ invalid(t)
    \/ protocolClose(t) \/ endRound(t) \/ beat(t) \/ expire(t) \/ startTimer(t) \/ lookDeferred(t)

Next ==
    \/ \E t \in Threads : Locked(t) \/ Unlocked(t)
    \/ StartRound \/ Call \/ Send \/ transportSent \/ receiptSent \/ fireDeadline \/ onClose \/ Resting

Spec == Init /\ [][Next]_vars

-----------------------------------------------------------------------------
(* Properties                                                              *)

Wire == net.out \o net.q
Places(f) == {i \in 1..Len(Wire) : Wire[i] = f}

\* The Close frame goes out once and follows everything that was accepted,
\* batched frames included (Close's comment, sendCloseFrameLocked).
CloseLast == Places("close") \subseteq {Len(Wire)}

\* The transport is closed gracefully only once everything that a sender was
\* told is accepted, and the Close frame, have left its queue: the pending
\* count and the receipts never let a claim come early.
ClaimBehindOutput ==
    net.end = "eof" => net.q = <<>> /\ ws.batch = <<>> /\ Places("close") # {}
                       /\ \A m \in told : Places(m) # {}

\* Nothing waits for an event that will not come: at rest no message stays in
\* the batch, no Close frame stays deferred, no requested close stays
\* unclaimed, and a connection that is closing has its deadline armed.
NothingStuck ==
    Quiet /\ net.end = "open" =>
        /\ ws.batch = <<>> /\ ~cl.deferred /\ cl.phase = "idle"
        /\ ws.closing => ws.armed

\* A batch was admitted frame by frame and nothing else reaches the transport
\* before it, so the outbound limit never refuses it (errBatchRefused).
BatchFits == \A t \in Threads : th[t].res # "broken"

\* The Pong timeout starts when the Ping has left, not before, and it does
\* start: rolled back and batched frames do not shift its position.
PingTimed ==
    /\ hb.sent => \E i \in 1..Len(net.out) : net.out[i] = "ping"
    /\ Quiet /\ net.end = "open" /\ hb.out => hb.sent
=============================================================================

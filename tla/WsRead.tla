------------------------------- MODULE WsRead -------------------------------
(***************************************************************************)
(* The read pause of a uws connection whose own replies back up: the       *)
(* ledger that follows them through the transport's queue, the watermarks, *)
(* and the reports that resume the reads and that the Handler observes.    *)
(* Replies ("r") and other output ("o") have size one.                     *)
(***************************************************************************)
EXTENDS Naturals, Integers, Sequences, FiniteSets, FiniteSetsExt, SequencesExt

CONSTANT Settings  \* connections, as records of
                   \*   low, high: the watermarks;
                   \*   chunks: the requests of each chunk to arrive;
                   \*   sends: what other goroutines send;
                   \*   closes: whether the application closes

Threads == {"turn", "ext", "rep", "app"}
None == "none"

VARIABLES
    opt,
    net,  \* the transport's queue, what left and is not reported, the chunks
          \* waiting and to arrive, and whether a turn is owed
    ws,   \* writes.mu, the batch, the round word's two marks, batchBuffered
          \* below zero, readPaused's internal bit, closing
    led,  \* replies: the ledger, or NoLedger
    th,   \* the operations each goroutine has still to run
    obs,  \* outboundDeferred: reports the Handler is still owed
    loc   \* the turn's reading of the queue, the reporter's count

vars == <<opt, net, ws, led, th, obs, loc>>

NoLedger == [on |-> FALSE, sent |-> 0, runs |-> <<>>, batch |-> <<>>]

Init ==
    /\ opt \in Settings
    /\ net = [q |-> <<>>, left |-> <<>>, chunks |-> <<>>, next |-> opt.chunks, wake |-> FALSE, sends |-> opt.sends, closes |-> opt.closes]
    /\ ws = [mu |-> None, batch |-> <<>>, batching |-> FALSE, watch |-> FALSE, handing |-> FALSE,
             paused |-> FALSE, closing |-> FALSE]
    /\ led = NoLedger
    /\ th = [t \in Threads |-> <<>>]
    /\ obs = [deferred |-> 0]
    /\ loc = [queued |-> 0, n |-> 0]

At(t, op) == th[t] # <<>> /\ Head(th[t]) = op
Rest(t) == Tail(th[t])
Go(t, ops) == th' = [th EXCEPT ![t] = ops \o Rest(t)]
OutboundBuffered == Len(net.q)

-----------------------------------------------------------------------------
(* replyLedger: a run is its size and the position of its end.             *)

retire(l) == [l EXCEPT !.runs = SelectSeq(@, LAMBDA r : r.end > l.sent)]
RunTotal(rs) == FoldSeq(LAMBDA r, n : r.size + n, 0, rs)

\* add clips what is sent or recorded, and joins the newest run.
add(l0, n, end) ==
    LET l == retire(l0)
        last == IF l.runs = <<>> THEN [size |-> 0, end |-> -1] ELSE l.runs[Len(l.runs)]
        start == Max({end - n, l.sent, last.end})
    IN  IF end <= start THEN l
        ELSE IF last.end = start
             THEN [l EXCEPT !.runs[Len(l.runs)] = [size |-> last.size + end - start, end |-> end]]
             ELSE [l EXCEPT !.runs = Append(@, [size |-> end - start, end |-> end])]

addBatched(l, n, end) ==
    LET k == Len(l.batch)
    IN  IF k > 0 /\ l.batch[k].end = end - n
        THEN [l EXCEPT !.batch[k] = [size |-> l.batch[k].size + n, end |-> end]]
        ELSE [l EXCEPT !.batch = Append(@, [size |-> n, end |-> end])]

\* placeBatch: every run keeps its offset within the batch.
placeBatch(l, size, end) ==
    [FoldLeft(LAMBDA a, r : add(a, r.size, end - size + r.end), l, l.batch) EXCEPT !.batch = <<>>]


queued(l0) ==
    LET l == retire(l0)
    IN  IF l.runs = <<>> THEN 0
        ELSE LET first == l.runs[1]
                 rest == first.end - l.sent
             IN  RunTotal(l.runs) - (IF rest < first.size THEN first.size - rest ELSE 0)

queueEnd == led.sent + OutboundBuffered

\* noteReply: a reply into a drained queue starts no ledger.
noteReply(batch) ==
    LET l == IF led.on THEN led ELSE [NoLedger EXCEPT !.on = TRUE]
    IN  IF batch # <<>> THEN led' = addBatched(l, 1, Len(batch))
        ELSE IF ~led.on /\ OutboundBuffered <= opt.low THEN UNCHANGED led
        ELSE led' = add(l, 1, l.sent + OutboundBuffered)

-----------------------------------------------------------------------------
(* Sends.                                                                  *)

\* A frame sent during a batching round joins its batch.
batchFrame(t) ==
    /\ At(t, "send") /\ ws.mu = None /\ ws.batching
    /\ ws' = [ws EXCEPT !.batch = Append(@, IF t = "turn" THEN "r" ELSE "o")]
    /\ IF t = "turn" /\ ws.watch THEN noteReply(ws'.batch) ELSE UNCHANGED led
    /\ Go(t, <<>>) /\ UNCHANGED <<opt, net, obs, loc>>

\* Any other goes behind the batch; it is counted once it is queued.
sendDirect(t) ==
    /\ At(t, "send") /\ ws.mu = None /\ ~ws.batching
    /\ ws' = [ws EXCEPT !.mu = t]
    /\ Go(t, (IF ws.batch # <<>> THEN <<"flush", "place">> ELSE <<>>) \o <<"put", "count">>)
    /\ UNCHANGED <<opt, net, led, obs, loc>>

put(t) ==
    /\ At(t, "put")
    /\ net' = [net EXCEPT !.q = Append(@, IF t = "turn" THEN "r" ELSE "o")]
    /\ Go(t, <<>>) /\ UNCHANGED <<opt, ws, led, obs, loc>>

count(t) ==
    /\ At(t, "count")
    /\ ws' = [ws EXCEPT !.mu = None]
    /\ IF t = "turn" /\ ws.watch THEN noteReply(<<>>) ELSE UNCHANGED led
    /\ Go(t, <<>>) /\ UNCHANGED <<opt, net, obs, loc>>

\* flushBatchLocked: batchBuffered is negative while the transport takes the
\* batch, then the reports made meanwhile are delivered and the replies placed.
flush(t) ==
    /\ At(t, "flush")
    /\ net' = [net EXCEPT !.q = @ \o ws.batch] /\ ws' = [ws EXCEPT !.handing = TRUE]
    /\ Go(t, <<>>) /\ UNCHANGED <<opt, led, obs, loc>>

place(t) ==
    /\ At(t, "place")
    /\ ws' = [ws EXCEPT !.handing = FALSE, !.batch = <<>>]
    /\ obs' = [deferred |-> 0]
    /\ led' = IF led.on THEN placeBatch(led, Len(ws.batch), queueEnd) ELSE led
    /\ Go(t, <<>>) /\ UNCHANGED <<opt, net, loc>>

\* endRound: the word is cleared, then the batch is handed over under the lock.
endRound(t) ==
    /\ At(t, "endRound")
    /\ ws' = [ws EXCEPT !.batching = FALSE, !.watch = FALSE]
    /\ Go(t, IF ws.batching THEN <<"handOver">> ELSE <<>>)
    /\ UNCHANGED <<opt, net, led, obs, loc>>

handOver(t) ==
    /\ At(t, "handOver") /\ ws.mu = None
    /\ IF ws.batch = <<>> THEN UNCHANGED ws /\ Go(t, <<>>)
       ELSE ws' = [ws EXCEPT !.mu = t] /\ Go(t, <<"flush", "place", "unlock">>)
    /\ UNCHANGED <<opt, net, led, obs, loc>>

unlock(t) ==
    /\ At(t, "unlock") /\ ws' = [ws EXCEPT !.mu = None]
    /\ Go(t, <<>>) /\ UNCHANGED <<opt, net, led, obs, loc>>

-----------------------------------------------------------------------------
(* The round, and its decision to stop reading.                            *)

Arrive ==
    /\ net.next # <<>>
    /\ net' = [net EXCEPT !.next = Tail(@), !.chunks = Append(@, Head(net.next)), !.wake = TRUE]
    /\ UNCHANGED <<opt, ws, led, th, obs, loc>>

OnRead ==
    /\ net.wake /\ th["turn"] = <<>>
    /\ net' = [net EXCEPT !.wake = FALSE]
    /\ th' = [th EXCEPT !["turn"] = <<"readRound">>]
    /\ UNCHANGED <<opt, ws, led, obs, loc>>

\* The steady state has nothing to decide.
readRound(t) ==
    /\ At(t, "readRound")
    /\ Go(t, IF ws.paused \/ OutboundBuffered > opt.low \/ led.on THEN <<"holdsReplies">> ELSE <<"consume">>)
    /\ UNCHANGED <<opt, net, ws, led, obs, loc>>

\* A chunk: several requests are answered in a batch.
consume(t) ==
    /\ At(t, "consume")
    /\ IF net.chunks = <<>> THEN Go(t, <<"endRound">>) /\ UNCHANGED <<net, ws>>
       ELSE LET n == Head(net.chunks) IN
            /\ net' = [net EXCEPT !.chunks = Tail(@)]
            /\ ws' = [ws EXCEPT !.batching = @ \/ n > 1]
            /\ Go(t, [k \in 1..(IF ws.closing THEN 0 ELSE n) |-> "send"] \o <<"readRound">>)
    /\ UNCHANGED <<opt, led, obs, loc>>

holdsReplies(t) ==
    /\ At(t, "holdsReplies")
    /\ loc' = [loc EXCEPT !.queued = OutboundBuffered]
    /\ Go(t, IF ws.closing THEN <<"consume">> ELSE IF ws.paused THEN <<"stillHeld">> ELSE <<"weigh">>)
    /\ UNCHANGED <<opt, net, ws, led, obs>>

\* watchReplies, releaseReplies, and the replies' share of the queue.
weigh(t) ==
    /\ At(t, "weigh") /\ ws.mu = None
    /\ LET drained == loc.queued <= opt.low
           own == queued(led)
       IN  /\ ws' = [ws EXCEPT !.watch = ~drained]
           /\ led' = IF drained /\ led.on /\ led.batch = <<>> /\ own = 0 THEN NoLedger ELSE led
           /\ Go(t, IF ~drained /\ loc.queued >= opt.high /\ led.on /\ own >= opt.high - opt.low
                    THEN <<"holdReads">> ELSE <<"consume">>)
    /\ UNCHANGED <<opt, net, obs, loc>>

\* setInternalReadPause: ending a pause schedules a turn.
SetPause(on) ==
    /\ ws' = [ws EXCEPT !.paused = on /\ ~ws.closing]
    /\ net' = [net EXCEPT !.wake = @ \/ (ws.paused /\ ~(on /\ ~ws.closing))]

\* holdReads: the pause is published before the queue is looked at again.
holdReads(t) ==
    /\ At(t, "holdReads") /\ SetPause(TRUE)
    /\ Go(t, IF ws.closing THEN <<"endRound">> ELSE <<"lookAgain">>)
    /\ UNCHANGED <<opt, led, obs, loc>>

lookAgain(t) ==
    /\ At(t, "lookAgain")
    /\ IF OutboundBuffered <= opt.low /\ ws.paused
       THEN SetPause(FALSE) /\ Go(t, <<"consume">>)
       ELSE UNCHANGED <<net, ws>> /\ Go(t, <<"endRound">>)
    /\ UNCHANGED <<opt, led, obs, loc>>

stillHeld(t) ==
    /\ At(t, "stillHeld")
    /\ IF ~ws.paused THEN UNCHANGED <<net, ws>> /\ Go(t, <<"holdReads">>)
       ELSE IF OutboundBuffered > opt.low THEN UNCHANGED <<net, ws>> /\ Go(t, <<"endRound">>)
       ELSE SetPause(FALSE) /\ Go(t, <<"consume">>)
    /\ UNCHANGED <<opt, led, obs, loc>>

-----------------------------------------------------------------------------
(* The transport's reports, other senders, and Close.                      *)

Send ==
    /\ net.q # <<>>
    /\ net' = [net EXCEPT !.q = Tail(@), !.left = Append(@, Head(net.q))]
    /\ UNCHANGED <<opt, ws, led, th, obs, loc>>

\* onOutbound: transportSent, resumeReadsAfterDrain, observeOutbound.
transportSent ==
    /\ th["rep"] = <<>> /\ net.left # <<>>
    /\ net' = [net EXCEPT !.left = <<>>]
    /\ led' = IF led.on THEN [led EXCEPT !.sent = @ + Len(net.left)] ELSE led
    /\ loc' = [loc EXCEPT !.n = Len(net.left)]
    /\ th' = [th EXCEPT !["rep"] = <<"resume", "observe">>]
    /\ UNCHANGED <<opt, ws, obs>>

\* Mutant: input that was held without a pause is not woken.
resumePausedOnly(t) ==
    /\ At(t, "resume")
    /\ IF ws.paused /\ OutboundBuffered <= opt.low THEN SetPause(FALSE) ELSE UNCHANGED <<ws, net>>
    /\ Go(t, <<>>) /\ UNCHANGED <<opt, led, obs, loc>>

resume(t) ==
    /\ At(t, "resume")
    /\ IF ws.paused
       THEN IF OutboundBuffered > opt.low THEN UNCHANGED <<ws, net>> ELSE SetPause(FALSE)
       ELSE /\ net' = [net EXCEPT !.wake = @ \/ (led.on /\ OutboundBuffered <= opt.low)]
            /\ UNCHANGED ws
    /\ Go(t, <<>>) /\ UNCHANGED <<opt, led, obs, loc>>

\* A report made inside a hand-over is published, then looked at again.
observe(t) ==
    /\ At(t, "observe")
    /\ Go(t, IF ws.handing THEN <<"defer", "observeAgain">> ELSE <<>>)
    /\ UNCHANGED <<opt, net, ws, led, obs, loc>>

defer(t) ==
    /\ At(t, "defer") /\ obs' = [obs EXCEPT !.deferred = @ + loc.n]
    /\ Go(t, <<>>) /\ UNCHANGED <<opt, net, ws, led, loc>>

observeAgain(t) ==
    /\ At(t, "observeAgain")
    /\ obs' = IF ws.handing THEN obs ELSE [deferred |-> 0]
    /\ Go(t, <<>>) /\ UNCHANGED <<opt, net, ws, led, loc>>

SendText ==
    /\ th["ext"] = <<>> /\ net.sends > 0 /\ ~ws.closing
    /\ net' = [net EXCEPT !.sends = @ - 1]
    /\ th' = [th EXCEPT !["ext"] = <<"send">>]
    /\ UNCHANGED <<opt, ws, led, obs, loc>>

\* markClosing, then releaseReadPauses.
Close ==
    /\ net.closes > 0 /\ net' = [net EXCEPT !.closes = @ - 1]
    /\ ws' = [ws EXCEPT !.closing = TRUE]
    /\ th' = [th EXCEPT !["app"] = <<"releaseReadPauses">>]
    /\ UNCHANGED <<opt, led, obs, loc>>

releaseReadPauses(t) ==
    /\ At(t, "releaseReadPauses")
    /\ ws' = [ws EXCEPT !.paused = FALSE] /\ net' = [net EXCEPT !.wake = @ \/ ws.paused]
    /\ Go(t, <<>>) /\ UNCHANGED <<opt, led, obs, loc>>

Quiet ==
    /\ \A t \in Threads : th[t] = <<>>
    /\ ~net.wake /\ net.q = <<>> /\ net.left = <<>>
Resting == Quiet /\ net.next = <<>> /\ (net.sends = 0 \/ ws.closing) /\ UNCHANGED vars

Step(t) ==
    \/ batchFrame(t) \/ sendDirect(t) \/ put(t) \/ count(t) \/ flush(t) \/ place(t) \/ endRound(t)
    \/ handOver(t) \/ unlock(t) \/ readRound(t) \/ consume(t) \/ holdsReplies(t) \/ weigh(t)
    \/ holdReads(t) \/ lookAgain(t) \/ stillHeld(t) \/ resume(t) \/ observe(t) \/ defer(t) \/ observeAgain(t)
    \/ releaseReadPauses(t)

Next == (\E t \in Threads : Step(t)) \/ Arrive \/ OnRead \/ Send \/ transportSent \/ SendText \/ Close \/ Resting

Spec == Init /\ [][Next]_vars

-----------------------------------------------------------------------------
(* Properties                                                              *)

\* At rest nothing waits for a report that has come and gone: the reads are
\* not paused, every chunk is consumed, an open connection has no ledger, and every
\* report has reached the Handler (holdReads, resumeReadsAfterDrain,
\* releaseReplies, observeOutbound).
ReadsResume ==
    Quiet => ~ws.paused /\ net.chunks = <<>> /\ (~led.on \/ ws.closing) /\ ws.batch = <<>> /\ obs.deferred = 0

\* The ledger counts no reply longer than until its report, and no reply
\* twice: reads are never paused for output that is not this round's.
LedgerSound ==
    led.on => queued(led) <= Len(SelectSeq(net.left \o net.q, LAMBDA x : x = "r"))
=============================================================================

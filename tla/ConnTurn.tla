------------------------------ MODULE ConnTurn ------------------------------
(***************************************************************************)
(* The life of one stream connection of the native backend: how its turns  *)
(* are scheduled, how it is released and how the loop's shutdown joins it. *)
(*                                                                         *)
(* A connection carries one word, taskState: event bits and the bit        *)
(* (taskScheduledBit) that claims its single queued or running task.  A    *)
(* producer folds its event in and submits the task only if it won the     *)
(* claim; the task, when it ends, either resubmits itself or gives the     *)
(* claim up.  Every task is counted on its loop before its claim is        *)
(* visible, so that shutdown can refuse new ones and wait for the others.  *)
(* A closing connection is released by its own turn, which needs the write *)
(* claim a concurrent write turn may hold; a holder that is asked to       *)
(* (writeCloseWaitFlag) hands the release back when it lets go.            *)
(*                                                                         *)
(* Every action is one atomic access of the code with the local control    *)
(* flow up to the next one, and with the reads before it whose outcome can *)
(* only turn from going on to giving up.  The loop's turn count is atomic  *)
(* here; TurnBarrier has its stripes.  What a turn reads and sends is left *)
(* out: a callback may close the connection, and a send may fail.          *)
(***************************************************************************)
EXTENDS Integers, FiniteSets

CONSTANTS
    Producers,   \* goroutines outside the turns: pollers, timers, application
    Workers,     \* goroutines of the scheduler and of the rejection queue
    Registrar,   \* the goroutine that registers the connection
    Stopper,     \* the goroutine that closes the Events
    Accepted,    \* the connection was accepted, not dialed or adopted
    MayRefuse,   \* an injected Executor may refuse a submission
    MayPanic     \* OnBytesWritten may panic in a close flush, and be recovered

Procs == Producers \cup Workers \cup {Registrar, Stopper}

ASSUME ProcsAssumption ==
    /\ Registrar \notin Producers \cup Workers
    /\ Stopper \notin Producers \cup Workers
    /\ Registrar # Stopper
    /\ Producers \cap Workers = {}
    /\ IsFiniteSet(Producers) /\ IsFiniteSet(Workers)

ASSUME FlagsAssumption ==
    Accepted \in BOOLEAN /\ MayRefuse \in BOOLEAN /\ MayPanic \in BOOLEAN

\* The event bits: ioEventOpen, every readiness or wake-up bit, the request
\* to release a closing connection, and the owed OnClose.
Events == {"open", "io", "teardown", "close"}

closeOpen == 0
closeRequested == 2
closeResourcesReleased == 3
closeCallbackDelivered == 4
Phases == {closeOpen, closeRequested, closeResourcesReleased,
           closeCallbackDelivered}

VARIABLES
    events,     \* taskState: the event bits
    claimed,    \* taskState: taskScheduledBit
    queued,     \* the connection's tasks in the scheduler's queue
    rejected,   \* its tasks in the rejection queue
    wclaim,     \* writeState: writeOwnerFlag
    closeWait,  \* writeState: writeCloseWaitFlag
    wqueued,    \* its write turns in the scheduler's queue
    phase,      \* close.phase
    published,  \* the connection is in the loop's fd table
    count,      \* the loop's turn count, the sum of its stripes
    ioStop, ioIdle,
    stage,      \* "serving", then Events.closing, then loop.stopping as well
    opens, closes,  \* OnOpen and OnClose calls so far
    pc, ret,    \* where each goroutine is, and where its call returns to
    arg         \* the events a goroutine notes, or found as it gave up a claim

Labels ==
    {"idle", "done", "end", "n_check", "n_fold", "n_acquire", "n_claim",
     "d_claim", "d_taken", "d_spin", "d_wait", "d_retry", "d_release",
     "d_flush", "fire", "c_fold", "c_claim",
     "t_open", "t_body", "t_close", "fin", "f_drop", "f_left", "f_reclaim",
     "h_phase", "h_begun", "h_drop", "h_left",
     "k_claim", "k_acquire", "k_back", "w_send", "w_done", "w_refused",
     "w_hand", "w_next", "w_again", "w_close",
     "g_start", "g_note", "g_acquire", "g_put", "g_look", "g_leave", "g_drop",
     "g_close", "g_submit",
     "s_start", "s_loops", "s_poller", "s_begin", "s_stop", "s_sum", "s_wait",
     "s_drain", "s_done"}

\* Where noteIO, teardown and the close callback return to.
Returns == {"none", "idle", "end", "fin", "h_drop", "w_done", "w_next",
            "w_close", "s_drain"}

task  == <<events, claimed, queued, rejected>>
write == <<wclaim, closeWait, wqueued>>
loop  == <<count, ioStop, ioIdle, stage>>
calls == <<opens, closes>>
life  == <<phase, published, calls>>
local == <<ret, arg>>
vars  == <<task, write, life, loop, pc, local>>

isClosing  == phase >= closeRequested
isReleased == phase >= closeResourcesReleased
stopping   == stage = "stopping"

\* close.request(): open moves to closeRequested, once.
request == IF phase < closeRequested THEN closeRequested ELSE phase

\* The application holds the connection once OnOpen was given it, or once the
\* dial that registered it has returned.
exposed == opens > 0 \/ (~Accepted /\ pc[Registrar] = "done")

Home(p) == IF p = Registrar THEN "done" ELSE "idle"

Init ==
    /\ events = {} /\ claimed = FALSE /\ queued = 0 /\ rejected = 0
    /\ wclaim = FALSE /\ closeWait = FALSE /\ wqueued = 0
    /\ phase = closeOpen /\ published = FALSE /\ opens = 0 /\ closes = 0
    /\ count = 0 /\ ioStop = FALSE /\ ioIdle = FALSE /\ stage = "serving"
    /\ pc = [p \in Procs |-> IF p = Registrar THEN "g_start"
                             ELSE IF p = Stopper THEN "s_start" ELSE "idle"]
    /\ ret = [p \in Procs |-> "none"]
    /\ arg = [p \in Procs |-> {}]

At(p, l) == pc[p] = l
Go(p, l) == pc' = [pc EXCEPT ![p] = l]
Arg(p, s) == arg' = [arg EXCEPT ![p] = s]

Bit(b) == IF b THEN 1 ELSE 0

\* Call a routine that starts at l and comes back to r.
Call(p, l, r) == Go(p, l) /\ ret' = [ret EXCEPT ![p] = r]
Return(p) == Go(p, ret[p]) /\ ret' = [ret EXCEPT ![p] = "none"]

----------------------------------------------------------------------------
(* The loop's turn count: acquireIO, acquireCloseIO and releaseIO.         *)

Acquire == count' = count + 1 /\ UNCHANGED <<ioStop, ioIdle, stage>>

\* After shutdown began, the release that brings the count to zero wakes
\* stopIO.
Release ==
    /\ count' = count - 1
    /\ ioIdle' = (ioIdle \/ (ioStop /\ count = 1))
    /\ UNCHANGED <<ioStop, stage>>

\* The last thing a turn, a handler or registerConn does.
End(p) ==
    /\ At(p, "end") /\ Go(p, Home(p))
    /\ Release
    /\ UNCHANGED <<task, write, life, local>>

\* ioTaskPool.submit.  A task the executor refuses goes to the rejection
\* queue.  Either way the count its submitter holds moves on with it.
Submit ==
    \/ queued' = queued + 1 /\ UNCHANGED rejected
    \/ MayRefuse /\ rejected' = rejected + 1 /\ UNCHANGED queued

----------------------------------------------------------------------------
(* noteIO and the submission behind it.                                    *)

\* noteIO does nothing once the loop is stopping, and a closing connection
\* takes nothing but the request to release it.
NoteCheck(p) ==
    /\ At(p, "n_check")
    /\ IF stopping \/ (isClosing /\ ("teardown" \notin arg[p] \/ isReleased))
       THEN Return(p) /\ Arg(p, {})
       ELSE Go(p, "n_fold") /\ UNCHANGED <<ret, arg>>
    /\ UNCHANGED <<task, write, life, loop>>

NoteFold(p) ==
    /\ At(p, "n_fold") /\ Go(p, "n_acquire")
    /\ events' = events \cup arg[p] /\ Arg(p, {})
    /\ UNCHANGED <<claimed, queued, rejected, write, life, loop, ret>>

\* The count is taken before the claim can be seen.
NoteAcquire(p) ==
    /\ At(p, "n_acquire")
    /\ IF claimed \/ ioStop THEN Return(p) /\ UNCHANGED loop
       ELSE Go(p, "n_claim") /\ Acquire /\ UNCHANGED ret
    /\ UNCHANGED <<task, write, life, arg>>

\* Mutant: the claim's old value is not looked at.
NoteClaimBlind(p) ==
    /\ At(p, "n_claim") /\ Return(p)
    /\ Submit /\ UNCHANGED loop
    /\ claimed' = TRUE
    /\ UNCHANGED <<events, write, life, arg>>

\* Whoever finds the bit clear owns the submission; the count of a producer
\* that lost goes back.
NoteClaim(p) ==
    /\ At(p, "n_claim") /\ Return(p)
    /\ IF claimed THEN Release /\ UNCHANGED <<queued, rejected>>
       ELSE Submit /\ UNCHANGED loop
    /\ claimed' = TRUE
    /\ UNCHANGED <<events, write, life, arg>>

Note(p) ==
    NoteCheck(p) \/ NoteFold(p) \/ NoteAcquire(p) \/ NoteClaim(p) \/ End(p)

\* Call noteIO(s) with the submission behind it, and continue at r.
CallNote(p, s, r) == Call(p, "n_check", r) /\ Arg(p, s)

----------------------------------------------------------------------------
(* teardown: the release of a closing connection by its owner, which is    *)
(* its turn, the handler of a refused turn or the shutdown pass.           *)

\* The descriptor closes only under the write claim.
CloseClaim(p) ==
    /\ At(p, "d_claim")
    /\ IF isReleased THEN Return(p) /\ UNCHANGED wclaim
       ELSE /\ Go(p, IF wclaim THEN "d_taken" ELSE "d_release")
            /\ wclaim' = TRUE /\ UNCHANGED ret
    /\ UNCHANGED <<task, closeWait, wqueued, life, loop, arg>>

\* A stopped loop's owner waits for the claim; elsewhere its holder is asked
\* to hand the release back.
CloseTaken(p) ==
    /\ At(p, "d_taken")
    /\ Go(p, IF ioStop THEN "d_spin" ELSE "d_wait")
    /\ phase' = IF ioStop THEN phase ELSE request
    /\ UNCHANGED <<task, write, published, calls, loop, local>>

CloseSpin(p) ==
    /\ At(p, "d_spin") /\ ~wclaim
    /\ wclaim' = TRUE /\ Go(p, "d_release")
    /\ UNCHANGED <<task, closeWait, wqueued, life, loop, local>>

CloseWait(p) ==
    /\ At(p, "d_wait") /\ Go(p, "d_retry")
    /\ closeWait' = TRUE
    /\ UNCHANGED <<task, wclaim, wqueued, life, loop, local>>

\* A holder that let go in between either saw the request or left the claim.
CloseRetry(p) ==
    /\ At(p, "d_retry")
    /\ IF wclaim THEN Return(p) /\ UNCHANGED <<wclaim, closeWait>>
       ELSE /\ wclaim' = TRUE /\ closeWait' = FALSE
            /\ Go(p, "d_release") /\ UNCHANGED ret
    /\ UNCHANGED <<task, wqueued, life, loop, arg>>

CloseRelease(p) ==
    /\ At(p, "d_release")
    /\ IF isReleased THEN Return(p) /\ UNCHANGED phase
       ELSE /\ phase' = closeResourcesReleased
            /\ Go(p, "d_flush") /\ UNCHANGED ret
    /\ UNCHANGED <<task, write, published, calls, loop, arg>>

\* The close flush, then releaseResources: the connection leaves the fd
\* table and its descriptor closes.  A turn or handler goes on to deliver
\* OnClose; the shutdown pass, and an owner whose flush panicked, leave it to
\* a turn.
CloseFlush(p) ==
    /\ At(p, "d_flush")
    /\ published' = FALSE
    /\ \/ Go(p, IF p = Stopper THEN "c_fold" ELSE "fire")
       \/ MayPanic /\ p # Stopper /\ Go(p, "c_fold")
    /\ UNCHANGED <<task, write, phase, calls, loop, local>>

\* The phase once the last callback is delivered, or will not be.
delivered ==
    IF phase = closeResourcesReleased THEN closeCallbackDelivered ELSE phase

\* deliverClose and fireCloseCallback.  A connection whose open turn never
\* ran (closeCallbackDue) gets no OnClose.
FireCloseCallback(p) ==
    /\ At(p, "fire") /\ Return(p)
    /\ phase' = delivered
    /\ closes' = closes + Bit(phase # delivered /\ "open" \notin events)
    /\ UNCHANGED <<task, write, published, opens, loop, arg>>

\* scheduleCloseCallback: OnClose becomes the connection's last event.
ScheduleClose(p) ==
    /\ At(p, "c_fold")
    /\ IF "open" \in events
       THEN Return(p) /\ phase' = delivered /\ UNCHANGED events
       ELSE /\ Go(p, "c_claim") /\ events' = events \cup {"close"}
            /\ UNCHANGED <<phase, ret>>
    /\ UNCHANGED <<claimed, queued, rejected, write, published, calls, loop,
                   arg>>

\* acquireCloseIO counts without looking at ioStop.
ScheduleCloseClaim(p) ==
    /\ At(p, "c_claim") /\ Return(p)
    /\ IF claimed THEN UNCHANGED <<queued, rejected, loop>>
       ELSE Acquire /\ Submit
    /\ claimed' = TRUE
    /\ UNCHANGED <<events, write, life, arg>>

Close(p) ==
    \/ CloseClaim(p) \/ CloseTaken(p) \/ CloseSpin(p) \/ CloseWait(p)
    \/ CloseRetry(p) \/ CloseRelease(p) \/ CloseFlush(p)
    \/ FireCloseCallback(p) \/ ScheduleClose(p) \/ ScheduleCloseClaim(p)

----------------------------------------------------------------------------
(* A connection turn: runIOTask and finishIOTask.                          *)

\* Mutant: a turn goes on for a released connection.
TurnStartReleased(p) ==
    /\ p \in Workers /\ At(p, "idle") /\ queued > 0
    /\ queued' = queued - 1 /\ events' = {}
    /\ Call(p, IF "close" \in events THEN "fire"
               ELSE IF "open" \in events THEN "t_open" ELSE "t_body", "fin")
    /\ UNCHANGED <<claimed, rejected, write, life, loop, arg>>

\* A worker takes the task, the count that came with it and the events, and
\* keeps the claim.  The owed OnClose is terminal, and nothing else is done
\* for a released connection.
TurnStart(p) ==
    /\ p \in Workers /\ At(p, "idle") /\ queued > 0
    /\ queued' = queued - 1 /\ events' = {}
    /\ Call(p, IF "close" \in events THEN "fire"
               ELSE IF isReleased THEN "fin"
               ELSE IF "open" \in events THEN "t_open" ELSE "t_body", "fin")
    /\ UNCHANGED <<claimed, rejected, write, life, loop, arg>>

TurnOpen(p) ==
    /\ At(p, "t_open") /\ Go(p, "t_body")
    /\ opens' = opens + 1
    /\ UNCHANGED <<task, write, phase, published, closes, loop, local>>

\* Reads, callbacks and flushes, any of which may end in requestClose; the
\* running turn releases the connection itself, so nothing is scheduled.
TurnBody(p) ==
    /\ At(p, "t_body") /\ Go(p, "t_close")
    /\ phase' \in {phase, request}
    /\ UNCHANGED <<task, write, published, calls, loop, local>>

\* closeInTurn: not while the loop shuts down, whose pass releases it then.
\* The turn handles any request to release the connection.
TurnClose(p) ==
    /\ At(p, "t_close")
    /\ IF isClosing /\ ~isReleased /\ ~stopping
       THEN Go(p, "d_claim") /\ events' = events \ {"teardown"}
       ELSE Go(p, "fin") /\ UNCHANGED events
    /\ UNCHANGED <<claimed, queued, rejected, write, life, loop, local>>

goesOn == ~ioStop /\ phase # closeCallbackDelivered

\* finishIOTask resubmits for events that came meanwhile ...
FinishLoad(p) ==
    /\ At(p, "fin") /\ ret' = [ret EXCEPT ![p] = "none"]
    /\ IF events # {} /\ goesOn
       THEN Go(p, Home(p)) /\ Submit
       ELSE Go(p, "f_drop") /\ UNCHANGED <<queued, rejected>>
    /\ UNCHANGED <<events, claimed, write, life, loop, arg>>

\* Mutant: the claim goes without a look at what came meanwhile.
FinishDropBlind(p) ==
    /\ At(p, "f_drop") /\ Go(p, "end")
    /\ claimed' = FALSE
    /\ UNCHANGED <<events, queued, rejected, write, life, loop, local>>

\* ... and gives up the claim with the atomic that looks for more of them.
FinishDrop(p) ==
    /\ At(p, "f_drop") /\ Go(p, "f_left")
    /\ claimed' = FALSE /\ Arg(p, events)
    /\ UNCHANGED <<events, queued, rejected, write, life, loop, ret>>

FinishLeft(p) ==
    /\ At(p, "f_left") /\ Arg(p, {})
    /\ Go(p, IF arg[p] # {} /\ goesOn THEN "f_reclaim" ELSE "end")
    /\ UNCHANGED <<task, write, life, loop, ret>>

\* Its count moves on to the turn it submits.
FinishReclaim(p) ==
    /\ At(p, "f_reclaim")
    /\ IF claimed THEN Go(p, "end") /\ UNCHANGED <<queued, rejected>>
       ELSE Go(p, Home(p)) /\ Submit
    /\ claimed' = TRUE
    /\ UNCHANGED <<events, write, life, loop, ret, arg>>

Turn(p) ==
    \/ TurnStart(p) \/ TurnOpen(p) \/ TurnBody(p) \/ TurnClose(p)
    \/ FinishLoad(p) \/ FinishDrop(p) \/ FinishLeft(p) \/ FinishReclaim(p)

----------------------------------------------------------------------------
(* handleIOSubmitFailure: a refused turn's handler stands in for it.       *)

RejectStart(p) ==
    /\ p \in Workers /\ At(p, "idle") /\ rejected > 0
    /\ rejected' = rejected - 1
    /\ Go(p, "h_phase")
    /\ UNCHANGED <<events, claimed, queued, write, life, loop, ret, arg>>

\* beginClose, unless the connection is released and only owes its OnClose.
RejectPhase(p) ==
    /\ At(p, "h_phase")
    /\ IF ~isReleased
       THEN Go(p, "h_begun") /\ phase' = request /\ UNCHANGED ret
       ELSE /\ Call(p, IF phase = closeResourcesReleased /\ "close" \in events
                       THEN "fire" ELSE "h_drop", "h_drop")
            /\ UNCHANGED phase
    /\ UNCHANGED <<task, write, published, calls, loop, arg>>

RejectBegun(p) ==
    /\ At(p, "h_begun")
    /\ Call(p, IF stopping THEN "h_drop" ELSE "d_claim", "h_drop")
    /\ UNCHANGED <<task, write, life, loop, arg>>

RejectDrop(p) ==
    /\ At(p, "h_drop") /\ Go(p, "h_left") /\ ret' = [ret EXCEPT ![p] = "none"]
    /\ claimed' = FALSE /\ Arg(p, events)
    /\ UNCHANGED <<events, queued, rejected, write, life, loop>>

\* A release handed back, or an OnClose left to a turn, while the handler
\* held the claim is handed on.
RejectLeft(p) ==
    /\ At(p, "h_left")
    /\ IF "teardown" \in arg[p] /\ isClosing /\ ~isReleased
       THEN CallNote(p, {"teardown"}, "end")
       ELSE /\ IF "close" \in arg[p] /\ phase = closeResourcesReleased
               THEN Call(p, "c_claim", "end") ELSE Go(p, "end") /\ UNCHANGED ret
            /\ Arg(p, {})
    /\ UNCHANGED <<task, write, life, loop>>

Reject(p) ==
    \/ RejectStart(p) \/ RejectPhase(p) \/ RejectBegun(p) \/ RejectDrop(p)
    \/ RejectLeft(p)

----------------------------------------------------------------------------
(* Write turns: kickWriter, runWriteTurn and the claim's release.          *)

\* submitWrite: the claim and the count go to the write turn, or stay with
\* a caller whose turn is refused.
WriteSubmit(p) ==
    \/ Go(p, Home(p)) /\ wqueued' = wqueued + 1
    \/ MayRefuse /\ Go(p, "w_refused") /\ UNCHANGED wqueued

\* kickWriter gives output a sender unless the connection is closing.
KickStart(p) ==
    /\ p \in Producers /\ At(p, "idle") /\ exposed
    /\ ~isClosing
    /\ Go(p, "k_claim")
    /\ UNCHANGED <<task, write, life, loop, local>>

\* Mutant: the claim is not looked at.
KickClaimBlind(p) ==
    /\ At(p, "k_claim") /\ Go(p, "k_acquire")
    /\ wclaim' = TRUE
    /\ UNCHANGED <<task, closeWait, wqueued, life, loop, local>>

KickClaim(p) ==
    /\ At(p, "k_claim")
    /\ Go(p, IF wclaim THEN "idle" ELSE "k_acquire")
    /\ wclaim' = TRUE
    /\ UNCHANGED <<task, closeWait, wqueued, life, loop, local>>

\* Once the loop stopped, the claim goes back.
KickAcquire(p) ==
    /\ At(p, "k_acquire")
    /\ \/ /\ ioStop /\ Go(p, "k_back")
          /\ UNCHANGED <<wqueued, loop>>
       \/ ~ioStop /\ Acquire /\ WriteSubmit(p)
    /\ UNCHANGED <<task, wclaim, closeWait, life, ret, arg>>

WriteStart(p) ==
    /\ p \in Workers /\ At(p, "idle") /\ wqueued > 0
    /\ wqueued' = wqueued - 1
    /\ Go(p, IF isClosing THEN "w_done" ELSE "w_send")
    /\ UNCHANGED <<task, wclaim, closeWait, life, loop, ret, arg>>

\* The sends of a write turn.  A fatal one requests the close, which from
\* here needs a turn.
WriteSend(p) ==
    /\ At(p, "w_send")
    /\ \/ Go(p, "w_done") /\ UNCHANGED <<phase, ret, arg>>
       \/ ~isClosing /\ phase' = request /\ CallNote(p, {"teardown"}, "w_done")
    /\ UNCHANGED <<task, write, published, calls, loop>>

\* After maxWriteFlushes of them the next write turn goes on.
WriteHandOn(p) ==
    /\ At(p, "w_send") /\ ~isClosing
    /\ WriteSubmit(p)
    /\ UNCHANGED <<task, wclaim, closeWait, life, loop, ret, arg>>

\* releaseWrite; a release of the connection that its holder was asked to
\* hand back goes to a turn.
ReleaseWrite(p, from, to) ==
    /\ At(p, from)
    /\ wclaim' = FALSE
    /\ IF closeWait THEN Call(p, "w_hand", to) ELSE Go(p, to) /\ UNCHANGED ret
    /\ UNCHANGED <<task, closeWait, wqueued, life, loop, arg>>

\* Mutant: the release is not handed back.
WriteHandBackForget(p) ==
    /\ At(p, "w_hand") /\ Return(p)
    /\ closeWait' = FALSE
    /\ UNCHANGED <<task, wclaim, wqueued, life, loop, arg>>

WriteHandBack(p) ==
    /\ At(p, "w_hand") /\ CallNote(p, {"teardown"}, ret[p])
    /\ closeWait' = FALSE
    /\ UNCHANGED <<task, wclaim, wqueued, life, loop>>

\* finishWriteTurn looks again for output that found the claim taken.
WriteNext(p) ==
    /\ At(p, "w_next")
    /\ \/ Go(p, "end")
       \/ ~isClosing /\ ~ioStop /\ Go(p, "w_again")
    /\ UNCHANGED <<task, write, life, loop, local>>

WriteAgain(p) ==
    /\ At(p, "w_again")
    /\ IF wclaim THEN Go(p, "end") /\ UNCHANGED wqueued
       ELSE WriteSubmit(p)
    /\ wclaim' = TRUE
    /\ UNCHANGED <<task, closeWait, life, loop, ret, arg>>

\* handleWriteSubmitFailure, once the claim is back: the bytes have no
\* sender left, so the connection closes.
WriteRefused(p) ==
    /\ At(p, "w_close")
    /\ IF isClosing THEN Go(p, "end") /\ UNCHANGED <<phase, ret, arg>>
       ELSE phase' = request /\ CallNote(p, {"teardown"}, "end")
    /\ UNCHANGED <<task, write, published, calls, loop>>

Write(p) ==
    \/ KickClaim(p) \/ KickAcquire(p) \/ WriteStart(p) \/ WriteSend(p)
    \/ WriteHandOn(p)
    \/ ReleaseWrite(p, "w_done", "w_next")
    \/ ReleaseWrite(p, "w_refused", "w_close")
    \/ ReleaseWrite(p, "k_back", "idle")
    \/ WriteHandBack(p) \/ WriteNext(p) \/ WriteAgain(p) \/ WriteRefused(p)

----------------------------------------------------------------------------
(* Producers: readiness, Wake and CloseWith.                               *)

\* A poller reports readiness for what the fd table holds; Wake comes from
\* the application.  Both leave a closing connection alone.
Signal(p) ==
    /\ p \in Producers /\ At(p, "idle")
    /\ published \/ exposed
    /\ ~isClosing
    /\ CallNote(p, {"io"}, "idle")
    /\ UNCHANGED <<task, write, life, loop>>

CloseWith(p) ==
    /\ p \in Producers /\ At(p, "idle") /\ exposed
    /\ ~isClosing /\ stage = "serving"
    /\ phase' = request
    /\ CallNote(p, {"teardown"}, "idle")
    /\ UNCHANGED <<task, write, published, calls, loop>>

----------------------------------------------------------------------------
(* registerConn, for a dialed or adopted connection, and admitAccepted.    *)

\* closeUnregistered: the connection is abandoned before anyone saw it.
abandon == IF isReleased THEN phase ELSE closeCallbackDelivered

RegisterStart(p) ==
    /\ p = Registrar /\ At(p, "g_start")
    /\ Go(p, IF stage = "serving" THEN "g_note" ELSE "g_close")
    /\ UNCHANGED <<task, write, life, loop, local>>

\* noteIO(0) claims the first turn before the connection is published.
RegisterNote(p) ==
    /\ At(p, "g_note")
    /\ events' = {"open"}
    /\ Go(p, IF stopping THEN "g_close" ELSE "g_acquire")
    /\ UNCHANGED <<claimed, queued, rejected, write, life, loop, local>>

RegisterAcquire(p) ==
    /\ At(p, "g_acquire")
    /\ IF ioStop THEN Go(p, "g_close") /\ UNCHANGED loop
       ELSE Go(p, "g_put") /\ Acquire
    /\ claimed' = ~ioStop
    /\ UNCHANGED <<events, queued, rejected, write, life, ret, arg>>

RegisterPut(p) ==
    /\ At(p, "g_put")
    /\ \/ /\ published' = TRUE /\ Go(p, "g_look")
          /\ UNCHANGED <<events, claimed, loop>>
       \/ /\ Go(p, "g_close") /\ UNCHANGED published  \* the table refused it
          /\ events' = {} /\ claimed' = FALSE /\ Release
    /\ UNCHANGED <<queued, rejected, write, phase, calls, ret, arg>>

\* A dialed connection published after the shutdown pass looked would be
\* missed, so it looks too; an accepted one is published by a goroutine that
\* shutdown joins first.  Watching the descriptor may fail.
RegisterLook(p) ==
    /\ At(p, "g_look")
    /\ \/ (Accepted \/ ~stopping) /\ Go(p, "g_submit") /\ UNCHANGED published
       \/ published' = FALSE /\ Go(p, "g_leave")
    /\ UNCHANGED <<task, write, phase, calls, loop, local>>

RegisterLeave(p) ==
    /\ At(p, "g_leave") /\ Go(p, "g_drop")
    /\ phase' = abandon
    /\ UNCHANGED <<task, write, published, calls, loop, local>>

\* Mutant: a withdrawn connection keeps its claim's count.
RegisterDropLeak(p) ==
    /\ At(p, "g_drop") /\ Go(p, Home(p))
    /\ events' = {} /\ claimed' = FALSE
    /\ UNCHANGED <<queued, rejected, write, life, loop, local>>

\* abandonClaim
RegisterDrop(p) ==
    /\ At(p, "g_drop") /\ Go(p, "end")
    /\ events' = {} /\ claimed' = FALSE
    /\ UNCHANGED <<queued, rejected, write, life, loop, local>>

RegisterClose(p) ==
    /\ At(p, "g_close") /\ Go(p, Home(p))
    /\ phase' = abandon
    /\ UNCHANGED <<task, write, published, calls, loop, local>>

\* A refused first turn of a dialed connection is not queued for rejection:
\* its caller handles it.
RegisterSubmit(p) ==
    /\ At(p, "g_submit")
    /\ \/ /\ IF Accepted THEN Submit
             ELSE queued' = queued + 1 /\ UNCHANGED rejected
          /\ Go(p, Home(p))
       \/ /\ MayRefuse /\ ~Accepted
          /\ Go(p, "h_phase") /\ UNCHANGED <<queued, rejected>>
    /\ UNCHANGED <<events, claimed, write, life, loop, local>>

Register(p) ==
    \/ RegisterStart(p) \/ RegisterNote(p) \/ RegisterAcquire(p)
    \/ RegisterPut(p) \/ RegisterLook(p) \/ RegisterLeave(p)
    \/ RegisterDrop(p) \/ RegisterClose(p) \/ RegisterSubmit(p)

----------------------------------------------------------------------------
(* Events.Close and the loop's shutdown.                                   *)

ShutdownStart(p) ==
    /\ p = Stopper /\ At(p, "s_start") /\ Go(p, "s_loops")
    /\ stage' = "closing"
    /\ UNCHANGED <<task, write, life, count, ioStop, ioIdle, local>>

ShutdownLoops(p) ==
    /\ At(p, "s_loops") /\ Go(p, "s_poller")
    /\ stage' = "stopping"
    /\ UNCHANGED <<task, write, life, count, ioStop, ioIdle, local>>

\* closePoller joins the goroutine that accepts.
ClosePoller(p) ==
    /\ At(p, "s_poller") /\ Go(p, "s_begin")
    /\ Accepted => pc[Registrar] = "done"
    /\ UNCHANGED <<task, write, life, loop, local>>

\* beginShutdown, for what the fd table holds.
ShutdownBegin(p) ==
    /\ At(p, "s_begin") /\ Go(p, "s_stop")
    /\ phase' = IF published THEN request ELSE phase
    /\ UNCHANGED <<task, write, published, calls, loop, local>>

\* stopIO sets ioStop before it sums the counts.
StopIO(p) ==
    /\ At(p, "s_stop") /\ Go(p, "s_sum")
    /\ ioStop' = TRUE
    /\ UNCHANGED <<task, write, life, count, ioIdle, stage, local>>

StopSum(p) ==
    /\ At(p, "s_sum") /\ Go(p, "s_wait")
    /\ ioIdle' = (ioIdle \/ count = 0)
    /\ UNCHANGED <<task, write, life, count, ioStop, stage, local>>

\* Mutant: the pass does not wait for the turns.
StopJoinedEarly(p) ==
    /\ At(p, "s_wait")
    /\ IF published THEN Call(p, "d_claim", "s_drain")
       ELSE Go(p, "s_drain") /\ UNCHANGED ret
    /\ UNCHANGED <<task, write, life, loop, arg>>

\* Every turn has ended; the pass releases the connection if nobody did.
StopJoined(p) ==
    /\ At(p, "s_wait") /\ ioIdle
    /\ IF published THEN Call(p, "d_claim", "s_drain")
       ELSE Go(p, "s_drain") /\ UNCHANGED ret
    /\ UNCHANGED <<task, write, life, loop, arg>>

\* Mutant: the close callbacks are not joined.
WaitIODrainedEarly(p) ==
    /\ At(p, "s_drain")
    /\ Go(p, "s_done")
    /\ UNCHANGED <<task, write, life, loop, local>>

\* waitIODrained joins the close callbacks the pass scheduled.
WaitIODrained(p) ==
    /\ At(p, "s_drain") /\ count = 0
    /\ Go(p, "s_done")
    /\ UNCHANGED <<task, write, life, loop, local>>

Shutdown(p) ==
    \/ ShutdownLoops(p) \/ ClosePoller(p) \/ ShutdownBegin(p)
    \/ StopIO(p) \/ StopSum(p) \/ StopJoined(p) \/ WaitIODrained(p)

----------------------------------------------------------------------------
\* What a goroutine goes on to do once it has begun an operation.
Step(p) ==
    \/ Note(p) \/ Close(p) \/ Turn(p) \/ Reject(p) \/ Write(p)
    \/ Register(p) \/ Shutdown(p)

\* What the peer and the application may do, or may not.
Start(p) == Signal(p) \/ CloseWith(p) \/ KickStart(p) \/ ShutdownStart(p)

Quiet == \A p \in Procs \ {Stopper} : At(p, Home(p))

\* Serve has returned, and nobody has anything left to do.
Terminated ==
    /\ At(Stopper, "s_done") /\ Quiet
    /\ queued = 0 /\ rejected = 0 /\ wqueued = 0
    /\ UNCHANGED vars

Next == (\E p \in Procs : Step(p) \/ Start(p)) \/ Terminated

Spec == Init /\ [][Next]_vars

\* Go's scheduler runs every goroutine, and an Executor every task it took.  A
\* connection has one turn, queued or refused, and one write turn.
Fairness ==
    /\ \A p \in Procs : WF_vars(Step(p))
    /\ SF_vars(\E p \in Workers : TurnStart(p) \/ RejectStart(p))
    /\ SF_vars(\E p \in Workers : WriteStart(p))

FairSpec == Spec /\ Fairness

----------------------------------------------------------------------------
(* Who owns what, from where each goroutine is.                            *)

\* p runs the connection's turn, handles its refusal, or registers it.
Owns(p) ==
    \/ ret[p] \in {"fin", "h_drop"}
    \/ pc[p] \in {"fin", "f_drop", "h_phase", "h_begun", "h_drop",
                  "g_put", "g_look", "g_leave", "g_drop", "g_submit"}

\* p holds the write claim to send, or gives it back.
Sends(p) ==
    \/ ret[p] = "w_done"
    \/ pc[p] \in {"k_acquire", "k_back", "w_send", "w_done", "w_refused"}

\* p must give a turn count back, or pass it on.
Counted(p) ==
    \/ ret[p] \in {"fin", "h_drop", "w_done", "w_next", "w_close", "end"}
    \/ pc[p] \in {"fin", "f_drop", "f_left", "f_reclaim", "end",
                  "h_phase", "h_begun", "h_drop", "h_left",
                  "w_send", "w_done", "w_refused", "w_close", "w_next",
                  "w_again",
                  "g_put", "g_look", "g_leave", "g_drop", "g_submit"}

owners   == {p \in Procs : Owns(p)}
senders  == {p \in Procs : Sends(p)}
counted  == {p \in Procs : Counted(p)}
claiming == {p \in Procs : At(p, "n_claim")}  \* it holds one more

\* The shutdown pass is releasing the connection.
inPass == ret[Stopper] = "s_drain"

----------------------------------------------------------------------------
(* Properties.                                                             *)

\* Every variable has its type.
TypeOK ==
    /\ events \subseteq Events /\ claimed \in BOOLEAN
    /\ queued \in Nat /\ rejected \in Nat
    /\ wclaim \in BOOLEAN /\ closeWait \in BOOLEAN /\ wqueued \in Nat
    /\ phase \in Phases /\ published \in BOOLEAN
    /\ opens \in Nat /\ closes \in Nat
    /\ count \in Int /\ ioStop \in BOOLEAN /\ ioIdle \in BOOLEAN
    /\ stage \in {"serving", "closing", "stopping"}
    /\ pc \in [Procs -> Labels] /\ ret \in [Procs -> Returns]
    /\ arg \in [Procs -> SUBSET Events]

\* taskScheduledBit is set exactly while the connection has one task: queued,
\* refused and not yet handled, being run, or being registered.  It never has
\* two, whoever raced for the claim (noteIO, finishIOTask, the refused turn's
\* handler, scheduleCloseCallback).
OneTask == queued + rejected + Cardinality(owners) = Bit(claimed)

\* The write claim has one holder: a write turn, a producer that is starting
\* one or giving the claim back, or the teardown that keeps it for good.
OneSender ==
    /\ wqueued + Cardinality(senders) <= Bit(wclaim)
    /\ isReleased /\ wclaim => wqueued + Cardinality(senders) = 0

\* The loop's count is exactly the counts its goroutines and its queued tasks
\* have to give back: acquireIO and releaseIO are paired on every path.
CountExact ==
    count = queued + rejected + wqueued
            + Cardinality(counted) + Cardinality(claiming)

\* Once stopIO returned, every turn, handler and write turn has ended: the
\* shutdown pass releases the connection with nobody else at work on it.
PassAlone ==
    inPass => /\ counted = {} /\ claiming = {}
              /\ queued = 0 /\ rejected = 0 /\ wqueued = 0

\* No write turn sends on a descriptor that teardown has released.
NoSendAfterRelease ==
    isReleased => \A p \in Procs : pc[p] # "w_send"

\* When everyone has gone idle, nothing is left undone: no event waits
\* without a task, and a connection that began to close is closed.
NothingLost ==
    Quiet /\ queued = 0 /\ rejected = 0 /\ wqueued = 0 /\ stage = "serving"
        => \/ phase = closeOpen /\ events = {}
           \/ phase = closeCallbackDelivered /\ closes = opens

\* When Serve returns, the connection has left the fd table and had as many
\* OnClose as OnOpen calls, and no turn of it is left.
ShutdownComplete ==
    At(Stopper, "s_done") => /\ ~published /\ closes = opens
                             /\ counted = {} /\ count = 0

Lifecycle == INSTANCE ConnLifecycle

\* Whatever the races, the connection's phase and callbacks follow
\* ConnLifecycle.
Implements == Lifecycle!Spec

\* Nothing stays undone.  While Serve runs, a close that was requested is carried
\* out to OnClose and an event noted on a connection that stays open reaches a
\* turn; and a shutdown, whatever it finds in progress, ends.
WorkEnds ==
    isClosing \/ "io" \in events \/ stage # "serving"
        ~> \/ At(Stopper, "s_done")
           \/ /\ stage = "serving"
              /\ phase = closeCallbackDelivered \/ (~isClosing /\ "io" \notin events)

\* A shutdown ends.
ShutdownEnds == stage = "closing" ~> At(Stopper, "s_done")
=============================================================================

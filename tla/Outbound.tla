------------------------------- MODULE Outbound -------------------------------
(***************************************************************************)
(* The output of one stream connection (conn_write_unix.go and the write   *)
(* half of conn_unix.go): how accepted bytes reach the socket in order and *)
(* none is left behind with nobody to send it.                             *)
(*                                                                         *)
(* Four kinds of goroutines touch it.  The connection's turn (Turn)        *)
(* flushes, and its callbacks write directly or reserve reply space; write *)
(* turns (Writer) send what other goroutines queue; Producers call Write,  *)
(* Flush, CloseWrite, CloseWith and CloseGracefully from outside; the      *)
(* poller (Poller) turns the socket's edges into write events.  They meet  *)
(* in writeState, one atomic word whose owner bit is the claim to send, in *)
(* the pending count, and in the outbound queue under submitMu.            *)
(*                                                                         *)
(* The scheduling of turns is ConnTurn's subject; here a scheduled event   *)
(* is a member of events and a turn takes them all.  Every accepted byte   *)
(* carries the position it was accepted at, so the queues hold numbers and *)
(* the socket has taken exactly the bytes 1..sent.                         *)
(***************************************************************************)
EXTENDS Integers, Sequences, FiniteSets, SequencesExt

CONSTANTS Producers,   \* the goroutines that write from outside the turn
          Turn,        \* the connection's turn
          Writer,      \* the goroutine that runs its write turns
          Poller,      \* the poll loop
          Settings     \* what a behaviour explores, as records of
                       \*   size: the bytes of one write;
                       \*   cap: the bytes the socket buffer holds;
                       \*   limit: MaxOutboundBytes, the bound on pending;
                       \*   bytes: the bound on the bytes accepted;
                       \*   calls: the bound on the calls one turn's callbacks make;
                       \*   edges: the bound on the edges the socket raises unasked;
                       \*   closes: the ways of closing;
                       \*   fails: whether a send may fail with an error

Procs == Producers \cup {Turn, Writer, Poller}

VARIABLES
  opt,                \* the setting
  owner, held,        \* the write claim, and that the turn keeps it to its end
  blocked, edge,      \* the socket took no more; a writable edge came since
  opened,             \* OnOpen has returned
  shut, shutDone,     \* CloseWrite was called; it has taken effect
  closeWait,          \* the teardown waits for the claim
  failed,             \* a direct write lost bytes; nothing may follow
  pending,            \* the bytes accepted and not yet retired
  outbound, inflight, \* the queue, and the part of it detached for a send
  scratch, direct,    \* the round's reply space; the write being sent directly
  sent, next,         \* the bytes the socket took; the bytes accepted
  room, nospace,      \* the socket's free space; a send found none
  fin,                \* SHUT_WR has reached the socket
  edgeReady, edges,   \* the poller has an edge to report; the unasked ones
  phase, linger,      \* the close phase; the linger timer is armed
  events, taken,      \* the scheduled events; the ones the turn took
  wturn,              \* a write turn is queued
  wrote, err,         \* the bytes a flush sent and has not retired; its error
  calls,              \* the calls made by this turn's callbacks
  pc, ret             \* where each goroutine is; its return addresses

claim  == <<owner, held, blocked, edge, opened, shut, shutDone, closeWait, failed>>
bytes  == <<pending, outbound, inflight, scratch, direct, sent, next>>
socket == <<room, nospace, fin, edgeReady, edges>>
ending == <<phase, linger>>
sched  == <<events, taken, wturn, calls>>
flight == <<wrote, err>>
local  == <<pc, ret>>
vars   == <<opt, claim, bytes, socket, ending, sched, flight, local>>

Size     == opt.size
Cap      == opt.cap
Limit    == opt.limit
MaxBytes == opt.bytes
MaxCalls == opt.calls
MaxEdges == opt.edges
Closes   == opt.closes
MayFail  == opt.fails

At(p, l) == pc[p] = l

\* The sequence m+1, ..., n of positions.
Positions(m, n) == [i \in 1..(n - m) |-> m + i]

Phases == {"open", "draining", "requested", "released"}
isClosing == phase \in {"requested", "released"}
isReleased == phase = "released"
isDraining == phase = "draining"
outputClosed == phase # "open" \/ shut

-----------------------------------------------------------------------------
(* Calls.  A routine runs with its caller's continuation on ret.           *)

\* Go to l, to continue there with the addresses of rs before the caller's.
Call(p, l, rs) == /\ pc'  = [pc EXCEPT ![p] = l]
                  /\ ret' = [ret EXCEPT ![p] = rs \o @]
Go(p, l) == Call(p, l, <<>>)
Return(p) == /\ pc'  = [pc EXCEPT ![p] = Head(ret[p])]
             /\ ret' = [ret EXCEPT ![p] = Tail(@)]

\* scheduleIO and scheduleTeardown: fold e into the task's events.  A closing
\* connection takes only its teardown, a released one nothing.
With(es, e, ph) ==
  IF ph \in {"open", "draining"} \/ (ph = "requested" /\ e = "teardown")
  THEN es \cup {e} ELSE es
Schedule(e) == events' = With(events, e, phase)

\* The load and compare-and-swap of tryClaimWrite, when it succeeds.  It clears
\* the edge bit, so the bit is kept clear while nobody holds the claim.
tryClaimWrite == ~owner /\ owner' = TRUE /\ edge' = FALSE

\* requestClose away from the turn: the winner has the teardown scheduled.
requestClose ==
  IF isClosing THEN UNCHANGED <<phase, events>>
  ELSE phase' = "requested" /\ events' = With(events, "teardown", "requested")

\* requestClose on the turn, which tears the connection down itself.
requestInTurn == phase' = IF isClosing THEN phase ELSE "requested"

-----------------------------------------------------------------------------
(* releaseWrite and kickWriter, called by every sender.                    *)

OwedNoShut == (IF closeWait THEN <<"r_close">> ELSE <<>>)
              \o (IF isDraining THEN <<"r_drain">> ELSE <<>>)
\* Mutants: a release forgets the drain, or the CloseWrite, that waits.
OwedNoDrain == (IF closeWait THEN <<"r_close">> ELSE <<>>)
               \o (IF shut /\ ~shutDone THEN <<"r_shut">> ELSE <<>>)

\* What the state found at a release owes: the rest of releaseWrite, in order.
\* A drain that begins after the release ends itself or is kicked.
Owed == (IF closeWait THEN <<"r_close">> ELSE <<>>)
        \o (IF shut /\ ~shutDone THEN <<"r_shut">> ELSE <<>>)
        \o (IF isDraining THEN <<"r_drain">> ELSE <<>>)

\* The owner bit goes, with the turn's own marks.
releaseWrite(p) ==
  /\ At(p, "release")
  /\ owner' = FALSE
  /\ held' = FALSE
  /\ edge' = FALSE
  /\ pc'  = [pc EXCEPT ![p] = Head(Owed \o ret[p])]
  /\ ret' = [ret EXCEPT ![p] = Tail(Owed \o ret[p])]
  /\ UNCHANGED <<blocked, opened, shut, shutDone, closeWait, failed,
                 bytes, socket, ending, sched, flight>>

\* A teardown waited for the claim: it is scheduled again.
releaseClose(p) ==
  /\ At(p, "r_close")
  /\ closeWait' = FALSE
  /\ Schedule("teardown")
  /\ Return(p)
  /\ UNCHANGED <<owner, held, blocked, edge, opened, shut, shutDone, failed,
                 bytes, socket, ending, taken, wturn, calls, flight>>

\* CloseWrite waited for the queue to empty: its event is scheduled.
releaseShut(p) ==
  /\ At(p, "r_shut")
  /\ IF pending = 0 THEN Schedule("shut") ELSE UNCHANGED events
  /\ Return(p)
  /\ UNCHANGED <<claim, bytes, socket, ending, taken, wturn, calls, flight>>

\* A drain's queue may be empty now: the turn ends it.
releaseDrain(p) ==
  /\ At(p, "r_drain")
  /\ IF isDraining /\ pending = 0 THEN Schedule("teardown") ELSE UNCHANGED events
  /\ Return(p)
  /\ UNCHANGED <<claim, bytes, socket, ending, taken, wturn, calls, flight>>

\* kickWriter's checks: whoever holds the claim looks at pending after it lets
\* go, and an edge or the open turn's flush sends otherwise.
kickWriter(p) ==
  /\ At(p, "kick")
  /\ IF pending = 0 \/ isClosing \/ owner \/ blocked \/ ~opened
     THEN Return(p) ELSE Go(p, "k_claim")
  /\ UNCHANGED <<claim, bytes, socket, ending, sched, flight>>

\* Its claim, with which the write turn is queued.
kickClaim(p) ==
  /\ At(p, "k_claim")
  /\ \/ tryClaimWrite /\ wturn' = TRUE
     \/ owner /\ UNCHANGED <<owner, edge, wturn>>
  /\ Return(p)
  /\ UNCHANGED <<held, blocked, opened, shut, shutDone, closeWait, failed,
                 bytes, socket, ending, events, taken, calls, flight>>

ReleaseAndKick(p, r) == Call(p, "release", <<"kick", r>>)

-----------------------------------------------------------------------------
(* flushWrite, run by whoever holds the claim.  One block is sent in       *)
(* place, a longer queue detached first; the number of blocks is not       *)
(* modelled, so either may happen.  A flush that has sent something may    *)
(* stop early, at its bound on calls and bytes.                            *)

Sources == {"f_place", "f_flight"}

\* The first send of a flush, with whether it detaches the queue.
Begin(p, rs) ==
  \/ inflight # <<>> /\ Call(p, "f_flight", rs) /\ UNCHANGED <<inflight, outbound>>
  \/ /\ inflight = <<>> /\ outbound # <<>>
     /\ \/ Call(p, "f_place", rs) /\ UNCHANGED <<inflight, outbound>>
        \/ Call(p, "f_flight", rs) /\ inflight' = outbound /\ outbound' = <<>>

Nothing == pending = 0 \/ blocked

flushWrite(p) ==
  /\ At(p, "flush")
  /\ \/ (Nothing \/ inflight \o outbound = <<>>) /\ Return(p)
        /\ UNCHANGED <<inflight, outbound>>
     \/ ~Nothing /\ Begin(p, <<>>)
  /\ UNCHANGED <<claim, pending, scratch, direct, sent, next,
                 socket, ending, sched, flight>>

\* The socket takes n bytes of queue, or none when it is full.
Take(queue, n) ==
  /\ room > 0 /\ n \in 1..Len(queue) /\ n <= room
  /\ room' = room - n
  /\ sent' = sent + n
  /\ UNCHANGED nospace

\* One send: sendOutboundBlock in place, sendInflightBlock or sendInflightVec
\* for a detached batch.
flushSend(p) ==
  /\ pc[p] \in Sources
  /\ LET place == At(p, "f_place")
         queue == IF place THEN outbound ELSE inflight
     IN  \/ \E n \in 1..Cap :
              /\ Take(queue, n)
              /\ LET rest == SubSeq(queue, n + 1, Len(queue))
                 IN  \/ /\ outbound' = IF place THEN rest ELSE outbound
                        /\ inflight' = IF place THEN inflight ELSE rest
                        /\ Go(p, IF rest = <<>> THEN "f_retire" ELSE pc[p])
                     \/ /\ rest # <<>> /\ ~place
                        /\ inflight' = rest
                        /\ Go(p, "f_retire")
                        /\ UNCHANGED outbound
                     \/ /\ rest # <<>> /\ place
                        /\ inflight' = rest /\ outbound' = <<>>
                        /\ Go(p, "f_flight")
              /\ wrote' = [wrote EXCEPT ![p] = @ + n]
              /\ UNCHANGED err
         \/ /\ room = 0
            /\ nospace' = TRUE
            /\ Call(p, "f_again", <<pc[p], IF place THEN "f_rest" ELSE "f_retire">>)
            /\ UNCHANGED <<room, sent, outbound, inflight, flight>>
         \/ /\ MayFail
            /\ err' = [err EXCEPT ![p] = TRUE]
            /\ Go(p, "f_retire")
            /\ UNCHANGED <<room, nospace, sent, outbound, inflight, wrote>>
  /\ UNCHANGED <<claim, pending, scratch, direct, next, fin, edgeReady, edges,
                 ending, sched>>

\* Whether an edge has come since the claim was taken.
retries == edge

\* markWriteBlocked after EAGAIN: an edge that came since the claim is spent on
\* a retry, at the first address; otherwise the send stops, at the second.
markWriteBlocked(p) ==
  /\ At(p, "f_again")
  /\ IF retries THEN edge' = FALSE /\ UNCHANGED blocked
                ELSE blocked' = TRUE /\ UNCHANGED edge
  /\ pc'  = [pc EXCEPT ![p] = IF retries THEN ret[p][1] ELSE ret[p][2]]
  /\ ret' = [ret EXCEPT ![p] = SubSeq(@, 3, Len(@))]
  /\ UNCHANGED <<owner, held, opened, shut, shutDone, closeWait, failed,
                 bytes, socket, ending, sched, flight>>

\* After a refused send in place: should an edge have come since, the socket
\* gets the rest of the queue as a detached batch.
flushRest(p) ==
  /\ At(p, "f_rest")
  /\ IF blocked \/ outbound = <<>>
     THEN Go(p, "f_retire") /\ UNCHANGED <<inflight, outbound>>
     ELSE Go(p, "f_flight") /\ inflight' = outbound /\ outbound' = <<>>
  /\ UNCHANGED <<claim, pending, scratch, direct, sent, next,
                 socket, ending, sched, flight>>

\* The bytes a send moved leave pending only when it is over.
retireSent(n) == pending' = pending - n

retireFlush(p) ==
  /\ At(p, "f_retire")
  /\ retireSent(wrote[p])
  /\ wrote' = [wrote EXCEPT ![p] = 0]
  /\ Return(p)
  /\ UNCHANGED <<claim, outbound, inflight, scratch, direct, sent, next,
                 socket, ending, sched, err>>

\* Mutant: the suffix goes behind what was queued since.
appendSuffix(bs) == outbound' = outbound \o bs

\* queueDirectSuffix: bytes accepted before everything queued go to its head.
queueDirectSuffix(bs) == outbound' = bs \o outbound

\* flushOnLoop, the turn's flush: with the claim it keeps, or with one it takes
\* and gives back.  Another holder's release sends the bytes otherwise.
flushOnLoop(p) ==
  /\ At(p, "flushOnLoop")
  /\ IF pending = 0 THEN UNCHANGED <<outbound, scratch>>
                    ELSE queueDirectSuffix(scratch) /\ scratch' = <<>>
  /\ \/ /\ pending # 0 /\ held
        /\ Go(p, "flush")
        /\ UNCHANGED <<owner, edge>>
     \/ /\ pending # 0 /\ ~held /\ tryClaimWrite
        /\ Call(p, "flush", <<"release", "kick">>)
     \/ /\ pending = 0 \/ (~held /\ owner)
        /\ Return(p)
        /\ UNCHANGED <<owner, edge>>
  /\ UNCHANGED <<held, blocked, opened, shut, shutDone, closeWait, failed,
                 pending, inflight, direct, sent, next, socket, ending, sched, flight>>

-----------------------------------------------------------------------------
(* A write turn, which starts with the claim its kick took.                *)

writeStart(p) ==
  /\ p = Writer /\ At(p, "idle") /\ wturn
  /\ wturn' = FALSE
  /\ Go(p, "w_loop")
  /\ UNCHANGED <<claim, bytes, socket, ending, events, taken, calls, flight>>

\* runWriteTurn: flush until nothing is left to do, or hand the claim to a new
\* write turn after a bounded number of flushes.
runWriteTurn(p) ==
  /\ pc[p] \in {"w_loop", "w_more"} /\ ~err[p]
  /\ \/ /\ isClosing \/ Nothing
        /\ Call(p, "release", <<"w_finish">>)
        /\ UNCHANGED <<wturn, inflight, outbound>>
     \/ /\ ~isClosing /\ ~Nothing
        /\ Begin(p, <<"w_more">>)
        /\ UNCHANGED wturn
     \/ /\ ~isClosing /\ ~Nothing /\ At(p, "w_more")
        /\ Go(p, "idle")
        /\ wturn' = TRUE
        /\ UNCHANGED <<inflight, outbound>>
  /\ UNCHANGED <<claim, pending, scratch, direct, sent, next,
                 socket, ending, events, taken, calls, flight>>

\* A flush that failed closes the connection and ends the write turn.
writeFailed(p) ==
  /\ At(p, "w_more") /\ err[p]
  /\ requestClose
  /\ err' = [err EXCEPT ![p] = FALSE]
  /\ Call(p, "release", <<"w_finish">>)
  /\ UNCHANGED <<claim, bytes, socket, linger, taken, wturn, calls, wrote>>

\* finishWriteTurn, the claim given back: bytes queued since, for a socket that
\* still takes them, get another write turn.
finishWriteTurn(p) ==
  /\ At(p, "w_finish")
  /\ Go(p, IF pending # 0 /\ ~blocked /\ ~isClosing THEN "w_claim" ELSE "idle")
  /\ UNCHANGED <<claim, bytes, socket, ending, sched, flight>>

writeClaim(p) ==
  /\ At(p, "w_claim")
  /\ \/ tryClaimWrite /\ wturn' = TRUE
     \/ owner /\ UNCHANGED <<owner, edge, wturn>>
  /\ Go(p, "idle")
  /\ UNCHANGED <<held, blocked, opened, shut, shutDone, closeWait, failed,
                 bytes, socket, ending, events, taken, calls, flight>>

Release(p) == releaseWrite(p) \/ releaseClose(p) \/ releaseShut(p)
              \/ releaseDrain(p) \/ kickWriter(p) \/ kickClaim(p)
Flush(p) == flushWrite(p) \/ flushSend(p) \/ markWriteBlocked(p)
            \/ flushRest(p) \/ retireFlush(p) \/ flushOnLoop(p)
WriteTurn(p) == writeStart(p) \/ runWriteTurn(p) \/ writeFailed(p)
                \/ finishWriteTurn(p) \/ writeClaim(p)

-----------------------------------------------------------------------------
(* The callbacks of a turn.  At "t_call" one runs: it makes another call   *)
(* or returns.                                                             *)

\* A call the callback makes.  Only one for more output finds it closed.
Calls(p) == p = Turn /\ At(p, "t_call") /\ calls < MaxCalls /\ calls' = calls + 1
Accepts == ~outputClosed /\ next + Size <= MaxBytes

\* Every callback but OnOpen runs corked.
corked == opened

\* Mutant: a write is admitted while there is any room.
fitsSome(n) == pending < Limit

\* reservePending admits n bytes.
fits(n) == pending + n <= Limit

\* n more bytes are accepted, behind everything in queue.
Accept(n) == /\ pending' = pending + n
             /\ next' = next + n

\* writeOnLoop, writevOnLoop and writeOwnedOnLoop: the reply space goes ahead,
\* and the bytes are queued behind it or, with nothing queued, sent directly.
writeOnLoop(p) ==
  /\ Calls(p) /\ Accepts
  /\ queueDirectSuffix(scratch)
  /\ scratch' = <<>>
  /\ \/ Go(p, "a_queue")
     \/ pending = 0 /\ ~corked /\ Go(p, "a_claim")
  /\ UNCHANGED <<claim, pending, inflight, direct, sent, next, socket, ending,
                 events, taken, wturn, flight>>

\* claimDirectSend: the claim, and nothing queued once it is held.
claimDirectSend(p) ==
  /\ At(p, "a_claim")
  /\ \/ tryClaimWrite /\ Go(p, "a_empty")
     \/ owner /\ Go(p, "a_queue") /\ UNCHANGED <<owner, edge>>
  /\ UNCHANGED <<held, blocked, opened, shut, shutDone, closeWait, failed,
                 bytes, socket, ending, sched, flight>>

directEmpty(p) ==
  /\ At(p, "a_empty")
  /\ IF pending # 0
     THEN ReleaseAndKick(p, "a_queue") /\ UNCHANGED <<direct, next>>
     ELSE /\ direct' = Positions(next, next + Size)
          /\ next' = next + Size
          /\ Go(p, "a_send")
  /\ UNCHANGED <<claim, pending, outbound, inflight, scratch, sent, socket,
                 ending, sched, flight>>

\* The direct send.  An error, or a suffix that may not be queued, breaks the
\* stream: failDirectWrite closes it and bars the close flush.
directSend(p) ==
  /\ At(p, "a_send")
  /\ \/ \E n \in 1..Cap :
          /\ Take(direct, n)
          /\ direct' = SubSeq(direct, n + 1, Len(direct))
          /\ IF n = Len(direct) THEN ReleaseAndKick(p, "t_call")
                                ELSE Go(p, "a_rest")
          /\ UNCHANGED <<failed, phase>>
     \/ /\ room = 0
        /\ nospace' = TRUE
        /\ Go(p, "a_rest")
        /\ UNCHANGED <<room, sent, direct, failed, phase>>
     \/ /\ MayFail
        /\ failed' = TRUE
        /\ requestInTurn
        /\ ReleaseAndKick(p, "t_call")
        /\ UNCHANGED <<room, nospace, sent, direct>>
  /\ UNCHANGED <<owner, held, blocked, edge, opened, shut, shutDone, closeWait,
                 pending, outbound, inflight, scratch, next,
                 fin, edgeReady, edges, linger, sched, flight>>

\* The suffix goes to the head of the queue, and a socket that took nothing is
\* blocked.  A write refused whole was never accepted: the positions behind it
\* move up.
directRest(p) ==
  /\ At(p, "a_rest")
  /\ LET none == Len(direct) = Size
     IN  \/ /\ fits(Len(direct))
            /\ pending' = pending + Len(direct)
            /\ queueDirectSuffix(direct)
            /\ direct' = <<>>
            /\ blocked' = none
            /\ UNCHANGED <<next, failed, phase>>
         \/ /\ ~fits(Len(direct)) /\ none
            /\ direct' = <<>>
            /\ next' = next - Size
            /\ outbound' = [i \in DOMAIN outbound |-> outbound[i] - Size]
            /\ UNCHANGED <<pending, blocked, failed, phase>>
         \/ /\ ~fits(Len(direct)) /\ ~none
            /\ failed' = TRUE
            /\ requestInTurn
            /\ UNCHANGED <<pending, outbound, direct, next, blocked>>
  /\ ReleaseAndKick(p, "t_call")
  /\ UNCHANGED <<owner, held, edge, opened, shut, shutDone, closeWait,
                 inflight, scratch, sent, socket, linger, sched, flight>>

\* reservePendingAfterFlush and the append: a full queue is flushed once.
queueOnLoop(p) ==
  /\ pc[p] \in {"a_queue", "a_flushed"}
  /\ \/ /\ fits(Size) /\ ~err[p]
        /\ Accept(Size)
        /\ outbound' = outbound \o Positions(next, next + Size)
        /\ Go(p, "t_call")
     \/ /\ At(p, "a_queue") /\ ~fits(Size) /\ pending # 0 /\ ~blocked
        /\ Call(p, "flushOnLoop", <<"a_flushed">>)
        /\ UNCHANGED <<pending, next, outbound>>
     \/ /\ IF At(p, "a_queue") THEN ~fits(Size) /\ (pending = 0 \/ blocked)
                               ELSE ~fits(Size) \/ err[p]
        /\ Go(p, "t_call")
        /\ UNCHANGED <<pending, next, outbound>>
  /\ err' = [err EXCEPT ![p] = FALSE]
  /\ UNCHANGED <<claim, inflight, scratch, direct, sent, socket, ending, sched, wrote>>

\* ReserveOutbound: the turn keeps the claim from its first reservation on.
ReserveOutbound(p) ==
  /\ Calls(p) /\ Accepts
  /\ \/ held /\ Go(p, "v_more") /\ UNCHANGED <<owner, edge, held>>
     \/ ~held /\ tryClaimWrite /\ held' = TRUE /\ Go(p, "v_took")
     \/ ~held /\ owner /\ Go(p, "t_call") /\ UNCHANGED <<owner, edge, held>>
  /\ UNCHANGED <<blocked, opened, shut, shutDone, closeWait, failed,
                 bytes, socket, ending, events, taken, wturn, flight>>

\* Its space: in the reply space while that holds everything accepted, else at
\* the tail of the queue, with a full reply space ahead of it.  A claim taken
\* for a reservation refused is given back.
reserveSpace(p) ==
  /\ pc[p] \in {"v_took", "v_more", "v_took2", "v_more2"}
  /\ LET new == Positions(next, next + Size)
         first == pc[p] \in {"v_took", "v_more"}
         took == pc[p] \in {"v_took", "v_took2"}
     IN  \/ /\ fits(Size) /\ ~err[p]
            /\ Accept(Size)
            /\ \/ /\ pending = Len(scratch) /\ corked
                  /\ scratch' = scratch \o new
                  /\ UNCHANGED outbound
               \/ /\ pending = Len(scratch)
                  /\ outbound' = scratch \o outbound \o new
                  /\ scratch' = <<>>
               \/ /\ pending # Len(scratch)
                  /\ outbound' = outbound \o new
                  /\ UNCHANGED scratch
            /\ Go(p, "t_call")
         \/ /\ first /\ ~fits(Size) /\ pending # 0 /\ ~blocked
            /\ Call(p, "flushOnLoop", <<IF took THEN "v_took2" ELSE "v_more2">>)
            /\ UNCHANGED <<pending, next, outbound, scratch>>
         \/ /\ IF first THEN ~fits(Size) /\ (pending = 0 \/ blocked)
                        ELSE ~fits(Size) \/ err[p]
            /\ IF took THEN ReleaseAndKick(p, "t_call") ELSE Go(p, "t_call")
            /\ UNCHANGED <<pending, next, outbound, scratch>>
  /\ err' = [err EXCEPT ![p] = FALSE]
  /\ UNCHANGED <<claim, inflight, direct, sent, socket, ending, sched, wrote>>

-----------------------------------------------------------------------------
(* The rest of a callback: it flushes or closes, and returns.              *)

\* Flush in a callback; its caller gets the error.
flushCall(p) ==
  /\ \/ Calls(p) /\ ~isClosing /\ Call(p, "flushOnLoop", <<"t_answer">>)
     \/ At(p, "t_answer") /\ Go(p, "t_call") /\ UNCHANGED calls
  /\ err' = [err EXCEPT ![p] = FALSE]
  /\ UNCHANGED <<claim, bytes, socket, ending, events, taken, wturn, wrote>>

\* The callback returns, and a read round sends its reply space.
callbackReturns(p) ==
  /\ At(p, "t_call")
  /\ IF scratch = <<>> THEN Return(p) ELSE Go(p, "s_look")
  /\ calls' = 0
  /\ UNCHANGED <<claim, bytes, socket, ending, events, taken, wturn, flight>>

\* sendScratch: straight from the reply space when it holds all that is
\* accepted, else from the head of the queue, by the turn's flush.
scratchLook(p) ==
  /\ At(p, "s_look")
  /\ IF pending # Len(scratch) \/ blocked \/ isClosing
     THEN queueDirectSuffix(scratch) /\ scratch' = <<>> /\ Return(p)
     ELSE Go(p, "s_send") /\ UNCHANGED <<outbound, scratch>>
  /\ UNCHANGED <<claim, pending, inflight, direct, sent, next, socket, ending,
                 sched, flight>>

scratchSend(p) ==
  /\ At(p, "s_send")
  /\ \/ \E n \in 1..Cap :
          /\ Take(scratch, n)
          /\ scratch' = SubSeq(scratch, n + 1, Len(scratch))
          /\ Go(p, IF n = Len(scratch) THEN "s_done" ELSE "s_send")
          /\ wrote' = [wrote EXCEPT ![p] = @ + n]
          /\ UNCHANGED err
     \/ /\ room = 0
        /\ nospace' = TRUE
        /\ Call(p, "f_again", <<"s_send", "s_done">>)
        /\ UNCHANGED <<room, sent, scratch, flight>>
     \/ /\ MayFail
        /\ err' = [err EXCEPT ![p] = TRUE]
        /\ Go(p, "s_done")
        /\ UNCHANGED <<room, nospace, sent, scratch, wrote>>
  /\ UNCHANGED <<claim, pending, outbound, inflight, direct, next,
                 fin, edgeReady, edges, ending, sched>>

scratchDone(p) ==
  /\ At(p, "s_done")
  /\ queueDirectSuffix(scratch)
  /\ scratch' = <<>>
  /\ retireSent(wrote[p])
  /\ wrote' = [wrote EXCEPT ![p] = 0]
  /\ IF err[p] THEN requestInTurn ELSE UNCHANGED phase
  /\ err' = [err EXCEPT ![p] = FALSE]
  /\ Return(p)
  /\ UNCHANGED <<claim, inflight, direct, sent, next, socket, linger, sched>>

-----------------------------------------------------------------------------
(* Closing, from a callback or from outside.                               *)

\* Bound: CloseWrite and CloseGracefully do not meet on one connection; CloseWith
\* may follow either.
OneWay(way) == way # "abort" => phase = "open" /\ ~shut

\* The caller continues at r: a callback where it is, a producer done.
MayClose(p, way, r) ==
  /\ way \in Closes /\ OneWay(way)
  /\ \/ p \in Producers /\ At(p, "idle") /\ r = "idle" /\ UNCHANGED calls
     \/ Calls(p) /\ r = "t_call"

\* CloseWrite: refuse further output, and ask the turn to shut the half.
CloseWrite(p) ==
  /\ \E r \in {"idle", "t_call"} :
       MayClose(p, "write", r) /\ Call(p, "c_shut", <<r>>)
  /\ ~isClosing /\ ~shut
  /\ shut' = TRUE
  /\ UNCHANGED <<owner, held, blocked, edge, opened, shutDone, closeWait, failed,
                 bytes, socket, ending, events, taken, wturn, flight>>

shutSchedule(p) ==
  /\ At(p, "c_shut")
  /\ Schedule("shut")
  /\ Return(p)
  /\ UNCHANGED <<claim, bytes, socket, ending, taken, wturn, calls, flight>>

\* CloseWith: the callback's turn ends the connection, another goroutine has
\* its teardown scheduled.
CloseWith(p) ==
  /\ \E r \in {"idle", "t_call"} : MayClose(p, "abort", r) /\ Go(p, r)
  /\ ~isClosing
  /\ IF p = Turn THEN requestInTurn /\ UNCHANGED events ELSE requestClose
  /\ UNCHANGED <<claim, bytes, socket, linger, taken, wturn, flight>>

\* CloseGracefully: refuse further output and let what was accepted leave.
CloseGracefully(p) ==
  /\ \E r \in {"idle", "t_call"} :
       /\ MayClose(p, "graceful", r)
       /\ Call(p, IF pending = 0 THEN "g_escalate" ELSE "g_arm", <<r>>)
  /\ phase = "open"
  /\ phase' = "draining"
  /\ UNCHANGED <<claim, bytes, socket, linger, events, taken, wturn, flight>>

\* The linger timer bounds the drain, and what waits already gets a sender.
armLinger(p) ==
  /\ At(p, "g_arm")
  /\ linger' = isDraining
  /\ Go(p, "kick")
  /\ UNCHANGED <<claim, bytes, socket, phase, sched, flight>>

\* escalateDrain: the queue left or the timer fired, and the close goes on.
escalate == phase' = (IF isDraining THEN "requested" ELSE phase) /\ linger' = FALSE

escalateDrain(p) ==
  /\ At(p, "g_escalate")
  /\ escalate
  /\ events' = IF isDraining /\ p # Turn THEN With(events, "teardown", "requested")
                                         ELSE events
  /\ Return(p)
  /\ UNCHANGED <<claim, bytes, socket, taken, wturn, calls, flight>>

lingerFires ==
  /\ linger
  /\ escalate
  /\ events' = IF isDraining THEN With(events, "teardown", "requested") ELSE events
  /\ UNCHANGED <<claim, bytes, socket, taken, wturn, calls, flight, local>>

-----------------------------------------------------------------------------
(* The connection's turn (runIOTask).                                      *)

turnStart(p) ==
  /\ p = Turn /\ At(p, "idle") /\ events # {}
  /\ events' = {}
  /\ IF isReleased THEN UNCHANGED <<taken, local>>
     ELSE /\ taken' = events
          /\ IF "open" \in events THEN Call(p, "t_call", <<"t_opened">>)
             ELSE Go(p, IF "write" \in events THEN "t_write" ELSE "t_read")
  /\ UNCHANGED <<claim, bytes, socket, ending, wturn, calls, flight>>

\* openOutputAfterOnOpen: write turns may start.  The open turn also reads.
turnOpened(p) ==
  /\ At(p, "t_opened")
  /\ opened' = TRUE
  /\ taken' = taken \cup {"read"}
  /\ Go(p, IF "write" \in taken THEN "t_write" ELSE "t_read")
  /\ UNCHANGED <<owner, held, blocked, edge, shut, shutDone, closeWait, failed,
                 bytes, socket, ending, events, wturn, calls, flight>>

\* noteWritable and the flush a writable edge asks for.
turnWrite(p) ==
  /\ At(p, "t_write")
  /\ IF isClosing THEN Go(p, "t_read") /\ UNCHANGED <<blocked, edge>>
     ELSE /\ blocked' = FALSE
          /\ edge' = owner
          /\ Call(p, "flushOnLoop", <<"t_read">>)
  /\ UNCHANGED <<owner, held, opened, shut, shutDone, closeWait, failed,
                 bytes, socket, ending, sched, flight>>

\* The read round and its callback.
turnRead(p) ==
  /\ At(p, "t_read") /\ "read" \in taken /\ ~isClosing /\ ~err[p]
  /\ Call(p, "t_call", <<"t_flush">>)
  /\ UNCHANGED <<claim, bytes, socket, ending, sched, flight>>

\* The flush of what the callbacks queued.
turnFlush(p) ==
  /\ \/ At(p, "t_flush")
     \/ At(p, "t_read") /\ ("read" \notin taken \/ isClosing) /\ ~err[p]
  /\ IF pending # 0 /\ ~isClosing THEN Call(p, "flushOnLoop", <<"t_shut">>)
                                  ELSE Go(p, "t_shut")
  /\ taken' = taken \cap {"shut"}
  /\ UNCHANGED <<claim, bytes, socket, ending, events, wturn, calls, flight>>

\* A flush of the turn that failed closes the connection.
turnFailed(p) ==
  /\ pc[p] \in {"t_read", "t_shut"} /\ err[p]
  /\ requestInTurn
  /\ err' = [err EXCEPT ![p] = FALSE]
  /\ UNCHANGED <<claim, bytes, socket, linger, sched, wrote, local>>

\* The turn ends with the release of a claim it kept for reservations.
Ending == IF held THEN "t_end" ELSE "t_drain"

\* shutWrite's checks, for a CloseWrite asked of this turn or by it.
turnShut(p) ==
  /\ At(p, "t_shut") /\ ~err[p]
  /\ LET asked == ~isClosing /\ "shut" \in taken \cup events
     IN  /\ events' = IF asked THEN events \ {"shut"} ELSE events
         /\ Go(p, IF asked /\ shut /\ ~shutDone /\ pending = 0
                  THEN "h_claim" ELSE Ending)
  /\ taken' = {}
  /\ UNCHANGED <<claim, bytes, socket, ending, wturn, calls, flight>>

shutClaim(p) ==
  /\ At(p, "h_claim")
  /\ \/ tryClaimWrite /\ Go(p, "h_shut")
     \/ owner /\ Go(p, Ending) /\ UNCHANGED <<owner, edge>>
  /\ UNCHANGED <<held, blocked, opened, shut, shutDone, closeWait, failed,
                 bytes, socket, ending, sched, flight>>

\* The half is shut: SHUT_WR, or the close when the peer has ended its half
\* too.  SHUT_WR may fail, which closes the connection as well.
shutWrite(p) ==
  /\ At(p, "h_shut")
  /\ IF pending # 0
     THEN ReleaseAndKick(p, "t_drain") /\ UNCHANGED <<shutDone, fin>>
     ELSE /\ shutDone' = TRUE
          /\ \/ fin' = TRUE /\ Call(p, "release", <<"t_drain">>)
             \/ Call(p, "release", <<"h_close">>) /\ UNCHANGED fin
  /\ UNCHANGED <<owner, held, blocked, edge, opened, shut, closeWait, failed,
                 bytes, room, nospace, edgeReady, edges, ending, sched, flight>>

shutClose(p) ==
  /\ At(p, "h_close")
  /\ requestInTurn
  /\ Go(p, "t_drain")
  /\ UNCHANGED <<claim, bytes, socket, linger, sched, flight>>

\* The turn ends: a claim kept for reservations goes, ...
turnEnd(p) ==
  /\ At(p, "t_end")
  /\ ReleaseAndKick(p, "t_drain")
  /\ UNCHANGED <<claim, bytes, socket, ending, sched, flight>>

\* ... a drain whose queue is empty becomes a close, and a closing connection
\* is released (closeInTurn).
closeInTurn(p) ==
  /\ At(p, "t_drain")
  /\ LET drained == isDraining /\ pending = 0
     IN  /\ IF drained THEN escalate ELSE UNCHANGED ending
         /\ IF drained \/ isClosing
            THEN Go(p, "d_claim") /\ events' = events \ {"teardown"}
            ELSE Go(p, "idle") /\ UNCHANGED events
  /\ UNCHANGED <<claim, bytes, socket, taken, wturn, calls, flight>>

\* claimWriteForClose: take the claim, or leave word for its holder and try
\* once more.
claimWriteForClose(p) ==
  /\ pc[p] \in {"d_claim", "d_wait", "d_retry"}
  /\ \/ /\ ~At(p, "d_wait") /\ tryClaimWrite
        /\ closeWait' = (closeWait /\ At(p, "d_claim"))
        /\ Go(p, "d_release")
     \/ /\ ~At(p, "d_wait") /\ owner
        /\ Go(p, IF At(p, "d_claim") THEN "d_wait" ELSE "idle")
        /\ UNCHANGED <<owner, edge, closeWait>>
     \/ /\ At(p, "d_wait")
        /\ closeWait' = TRUE
        /\ Go(p, "d_retry")
        /\ UNCHANGED <<owner, edge>>
  /\ UNCHANGED <<held, blocked, opened, shut, shutDone, failed,
                 bytes, socket, ending, sched, flight>>

\* Whether the stream is whole, for a last flush to follow.
flushesLast == ~failed

\* teardown: one last flush, unless a direct write broke the stream.
teardown(p) ==
  /\ At(p, "d_release")
  /\ phase' = "released"
  /\ IF flushesLast THEN Call(p, "flush", <<"d_done">>) /\ blocked' = FALSE
                    ELSE Go(p, "d_done") /\ UNCHANGED blocked
  /\ UNCHANGED <<owner, held, edge, opened, shut, shutDone, closeWait, failed,
                 bytes, socket, linger, sched, flight>>

\* releaseResources: the descriptor and every buffer go; what was accepted and
\* not sent is reported as UnflushedError.
releaseResources(p) ==
  /\ At(p, "d_done")
  /\ pending' = 0
  /\ outbound' = <<>>
  /\ inflight' = <<>>
  /\ scratch' = <<>>
  /\ direct' = <<>>
  /\ linger' = FALSE
  /\ err' = [err EXCEPT ![p] = FALSE]
  /\ Go(p, "idle")
  /\ UNCHANGED <<claim, sent, next, socket, phase, sched, wrote>>

-----------------------------------------------------------------------------
(* Producers, the poller and the socket.                                   *)

\* queueOwnedWrite: admission and the append under submitMu, then a sender.
queueOwnedWrite(p) ==
  /\ p \in Producers /\ At(p, "idle")
  /\ Accepts /\ fits(Size)
  /\ Accept(Size)
  /\ outbound' = outbound \o Positions(next, next + Size)
  /\ Call(p, "kick", <<"idle">>)
  /\ UNCHANGED <<claim, inflight, scratch, direct, sent, socket, ending, sched, flight>>

\* Flush from outside only gives what is queued a sender.
flushOutside(p) ==
  /\ p \in Producers /\ At(p, "idle")
  /\ ~isClosing /\ pending # 0
  /\ Call(p, "kick", <<"idle">>)
  /\ UNCHANGED <<claim, bytes, socket, ending, sched, flight>>

\* The poller takes an edge.  skipsEdge drops one with nothing pending, ...
pollEdge(p) ==
  /\ p = Poller /\ At(p, "idle") /\ edgeReady
  /\ edgeReady' = FALSE
  /\ IF pending = 0 THEN Go(p, "e_state") /\ UNCHANGED events
                    ELSE Go(p, "idle") /\ Schedule("write")
  /\ UNCHANGED <<claim, bytes, room, nospace, fin, edges, ending,
                 taken, wturn, calls, flight>>

\* Whether someone may wait for the edge.
needsEdge == owner \/ blocked

\* ... no sender at work and no refused send to make up for.
skipsEdge(p) ==
  /\ At(p, "e_state")
  /\ IF needsEdge THEN Schedule("write") ELSE UNCHANGED events
  /\ Go(p, "idle")
  /\ UNCHANGED <<claim, bytes, socket, ending, taken, wturn, calls, flight>>

\* The peer's bytes, or a wake-up, give the connection a turn with a callback.
readEdge ==
  /\ ~isClosing
  /\ Schedule("read")
  /\ UNCHANGED <<claim, bytes, socket, ending, taken, wturn, calls, flight, local>>

\* The peer reads: the socket has room again, and after a refused send raises
\* an edge.
socketDrains ==
  /\ ~isReleased /\ room < Cap
  /\ room' = room + 1
  /\ edgeReady' = (edgeReady \/ nospace)
  /\ nospace' = FALSE
  /\ UNCHANGED <<claim, bytes, fin, edges, ending, sched, flight, local>>

\* An edge nothing waits for: the registration's own, or an acknowledgement.
socketEdge ==
  /\ ~isReleased /\ edges < MaxEdges
  /\ edgeReady' = TRUE
  /\ edges' = edges + 1
  /\ UNCHANGED <<claim, bytes, room, nospace, fin, ending, sched, flight, local>>

-----------------------------------------------------------------------------

Init ==
  /\ opt \in Settings
  /\ owner = FALSE /\ held = FALSE /\ blocked = FALSE /\ edge = FALSE
  /\ opened = FALSE /\ shut = FALSE /\ shutDone = FALSE
  /\ closeWait = FALSE /\ failed = FALSE
  /\ pending = 0 /\ outbound = <<>> /\ inflight = <<>>
  /\ scratch = <<>> /\ direct = <<>> /\ sent = 0 /\ next = 0
  /\ room = Cap /\ nospace = FALSE /\ fin = FALSE
  /\ edgeReady = FALSE /\ edges = 0
  /\ phase = "open" /\ linger = FALSE
  /\ events = {"open"} /\ taken = {} /\ wturn = FALSE /\ calls = 0
  /\ wrote = [p \in Procs |-> 0] /\ err = [p \in Procs |-> FALSE]
  /\ pc = [p \in Procs |-> "idle"] /\ ret = [p \in Procs |-> <<>>]

\* The calls of applications, which nothing obliges them to make.
Start(p) == \/ queueOwnedWrite(p) \/ flushOutside(p)
            \/ CloseWrite(p) \/ CloseWith(p) \/ CloseGracefully(p)
            \/ writeOnLoop(p) \/ ReserveOutbound(p)

CallbackStep(p) ==
  \/ claimDirectSend(p) \/ directEmpty(p) \/ directSend(p) \/ directRest(p)
  \/ queueOnLoop(p) \/ reserveSpace(p) \/ flushCall(p) \/ callbackReturns(p)
  \/ scratchLook(p) \/ scratchSend(p) \/ scratchDone(p)

CloseStep(p) == shutSchedule(p) \/ armLinger(p) \/ escalateDrain(p)

TurnStep(p) ==
  \/ turnStart(p) \/ turnOpened(p) \/ turnWrite(p) \/ turnRead(p)
  \/ turnFlush(p) \/ turnFailed(p) \/ turnShut(p) \/ shutClaim(p)
  \/ shutWrite(p) \/ shutClose(p) \/ turnEnd(p) \/ closeInTurn(p)
  \/ claimWriteForClose(p) \/ teardown(p)
  \/ releaseResources(p)

Poll(p) == pollEdge(p) \/ skipsEdge(p)

Step(p) == Release(p) \/ Flush(p) \/ WriteTurn(p) \/ CallbackStep(p)
           \/ CloseStep(p) \/ TurnStep(p) \/ Poll(p)

Idle == \A p \in Procs : At(p, "idle")
Quiet == Idle /\ events = {} /\ ~wturn /\ ~edgeReady

\* A released connection has nothing more to do.
Terminated == isReleased /\ Quiet /\ UNCHANGED vars

Next == /\ UNCHANGED opt
        /\ \/ \E p \in Procs : Step(p) \/ Start(p)
           \/ lingerFires \/ readEdge \/ socketDrains \/ socketEdge
           \/ Terminated

Spec == Init /\ [][Next]_vars

\* Every goroutine keeps running, and a peer that is there reads.  Nothing makes
\* applications call, the peer send, or the linger timer fire.
Fairness == /\ \A p \in Procs : WF_vars(Step(p) /\ UNCHANGED opt)
            /\ WF_vars(socketDrains /\ UNCHANGED opt)

FairSpec == Spec /\ Fairness

-----------------------------------------------------------------------------
(* Properties                                                              *)

\* The variables' types; no counter goes below zero or above its bound.
TypeOK ==
  /\ {owner, held, blocked, edge, opened, shut, shutDone, closeWait, failed}
       \subseteq BOOLEAN
  /\ {nospace, fin, edgeReady, linger, wturn} \subseteq BOOLEAN
  /\ {pending, sent, next} \subseteq 0..(MaxBytes + Size)
  /\ {outbound, inflight, scratch, direct} \subseteq Seq(1..(MaxBytes + Size))
  /\ room \in 0..Cap /\ edges \in 0..MaxEdges /\ calls \in 0..MaxCalls
  /\ phase \in Phases
  /\ {events, taken} \subseteq SUBSET {"open", "write", "read", "shut", "teardown"}
  /\ wrote \in [Procs -> 0..(MaxBytes + Size)] /\ err \in [Procs -> BOOLEAN]
  /\ DOMAIN pc = Procs /\ DOMAIN ret = Procs

\* The connection's buffers are gone.
gone == isReleased /\ At(Turn, "idle")

\* The socket gets the bytes in the order they were accepted, each once and none
\* skipped: at every moment, what is left to send is exactly what was accepted
\* and not sent, in order, whichever of the direct write, the reply space, the
\* detached batch and the queue holds it.  Only a broken stream drops bytes.
Ordered == ~failed /\ ~gone =>
             direct \o scratch \o inflight \o outbound = Positions(sent, next)

\* pending is the bytes queued anywhere, with those a flush in progress has sent
\* and not retired, and stays within MaxOutboundBytes: a producer that finds it
\* zero knows there is nothing queued, and UnflushedError reports every byte
\* that was accepted and not sent.
PendingExact == ~gone =>
  /\ pending = Len(scratch) + Len(inflight) + Len(outbound) + wrote[Turn] + wrote[Writer]
  /\ pending <= Limit

\* The goroutines inside a send on the socket.
sending == {p \in Procs : pc[p] \in Sources \cup {"a_send", "s_send"}}

\* One goroutine at a time sends, and it holds the write claim.
OneSender == Cardinality(sending) <= 1 /\ (sending # {} => owner)

\* Output never waits for nobody: when all is quiet on an open connection,
\* bytes are left only if the socket refused a send and will raise an edge.
OutputOwed == Quiet /\ ~isClosing /\ pending # 0 => blocked /\ nospace

\* A CloseWrite, or a drain, that has not taken effect when all is quiet still
\* waits for output, whose sender will see to it.
ShutOwed == Quiet /\ ~isClosing /\ ((shut /\ ~shutDone) \/ isDraining) => pending # 0

\* A close that was requested always has a turn coming that performs it, also
\* when another sender held the claim the teardown needs.
CloseOwed == ~(Quiet /\ phase = "requested")

\* The FIN goes out behind everything accepted, and nothing is accepted after.
FinLast == fin => sent = next

\* While the peer reads, output ends: what was accepted is sent to its last
\* byte, a CloseWrite shuts its half behind it, and a graceful close releases
\* the connection without its linger timer.
OutputEnds ==
    (sent # next \/ shut \/ isDraining)
        ~> \/ isReleased
           \/ sent = next /\ ~isDraining /\ (shut => shutDone)

=============================================================================

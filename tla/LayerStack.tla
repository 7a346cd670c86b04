----------------------------- MODULE LayerStack ------------------------------
(***************************************************************************)
(* The output side and the close of one connection's layers (layer.go):    *)
(* writes that enter at the top and go below, the half-close that follows  *)
(* them, tracked writes and their receipts, and the close, begun on any    *)
(* goroutine and walked on the connection's turn.  Its state is a handful  *)
(* of atomics that the turn, the writers, the closers and the socket's     *)
(* sender read and change with no lock between them: an action is one such *)
(* access, or several of one goroutine that no other can come between.     *)
(* Layer 1 is the bottom.  A layer's own behaviour is external and kept to *)
(* three kinds: "pass" hands a write down, "batch" keeps it until it is    *)
(* flushed, "window" sends it below and keeps it until a turn brings its   *)
(* acknowledgement.                                                        *)
(***************************************************************************)
EXTENDS Integers, Sequences, FiniteSets, SequencesExt, FiniteSetsExt

CONSTANTS
    N,           \* layers
    Settings     \* configurations: see MCLayerStack

Layers == 1..N
Top == N

\* Goroutines: the connection's turn, and the application's.
Turn == "turn"
Apps == {"a", "b"}
Threads == Apps \cup {Turn}

VARIABLES
    opt,   \* the configuration, chosen once
    c,     \* the stack
    l,     \* its layers
    sock,  \* the socket below
    sent,  \* the sender's report to the stack
    th     \* what each goroutine is doing

vars == <<opt, c, l, sock, sent, th>>

NoPlan == [graceful |-> FALSE, from |-> 0]
AboveTop == N + 1

\* phase, initiator and drain share one word (stack.state).  The last six are
\* for the properties: the bytes the top admitted and those whose write
\* returned, those a graceful close found written, whether it was cut short, a
\* refused writer not told of room yet, a receipt reported before its time.
NewStack ==
    [phase |-> "open", initiator |-> 0, drain |-> FALSE, plan |-> NoPlan,
     inTurn |-> FALSE, turnAsked |-> FALSE, sentPending |-> 0, wireQueued |-> 0, wireSent |-> 0,
     receipts |-> <<>>, receiptCount |-> 0, shutsPending |-> 0, reserved |-> 0,
     writeRefused |-> FALSE, heldPeak |-> 0,
     taken |-> {}, wrote |-> {}, due |-> {}, cut |-> FALSE, refused |-> FALSE, early |-> FALSE]

NewLayer ==
    [writeShut |-> FALSE, closing |-> FALSE, shutPending |-> FALSE, shutFlushed |-> FALSE,
     writers |-> 0, held |-> <<>>, lock |-> FALSE]

NewSocket ==
    [state |-> "up", shut |-> FALSE, wake |-> FALSE, queue |-> <<>>, gone |-> {}, turns |-> opt.turns]

\* What a goroutine does: i the layer it is at, s the one its write entered, k
\* the one it looks at, f the one it flushes, w the one its close walk is at,
\* e the one whose end it passes down; then, after, back and home where the
\* write, the flush, the call and the walk it is in return to; out the receipts
\* it took, failed and fin a failed turn's abort and where it goes on.
NewThread(prog) ==
    [pc |-> "rest", i |-> 0, s |-> 0, k |-> 0, f |-> 0, w |-> 0, e |-> 0, q |-> <<>>, then |-> "rest",
     after |-> "rest", back |-> "rest", home |-> "rest", fin |-> "rest", sum |-> 0, err |-> FALSE, failed |-> FALSE,
     graceful |-> FALSE, flushSelf |-> FALSE, kind |-> "with", tracked |-> FALSE, told |-> FALSE, alone |-> FALSE, room |-> FALSE, out |-> <<>>, prog |-> prog]

Holds(i) == opt.kind[i] # "pass"
Flushes(i) == opt.kind[i] = "batch"
holders == \E i \in Layers : Holds(i)
flushers == {i \in Layers : Flushes(i)}
NextHolder(k) == Max({0} \cup {i \in Layers : Holds(i) /\ i <= k})
NextFlusher(k) == Max({0} \cup {i \in flushers : i <= k})

over == c.phase \in {"closing", "ending", "closed"}
noLayerCalls == c.phase \in {"ending", "closed"}

heldOutput == FoldSeq(LAMBDA i, n : Len(l[i].held) + n, 0, [i \in Layers |-> i])

Go(t, pc) == th' = [th EXCEPT ![t].pc = pc]
Set(t, r) == th' = [th EXCEPT ![t] = r]

\* A call or a walk returns to pc: what it worked with is gone.
Clean(r, pc) ==
    IF pc \in {"rest", "run"} THEN [NewThread(r.prog) EXCEPT !.pc = pc]
    ELSE [NewThread(r.prog) EXCEPT !.pc = pc, !.k = r.k, !.failed = r.failed, !.fin = r.fin]
Back(t) == Set(t, Clean(th[t], th[t].back))
Home(t) == Set(t, Clean(th[t], th[t].home))

At(t, pc) == th[t].pc = pc

----------------------------------------------------------------------------
\* The state word.

\* A close publishes its initiator with the phase, unless one is under way.
beginClosing(initiator, drain, flushes) ==
    c' = IF over THEN c
         ELSE [c EXCEPT !.phase = "closing", !.initiator = initiator, !.drain = drain,
                        !.due = c.wrote, !.cut = @ \/ ~flushes]

\* Index i enters while the stack is open, and while it closes only below the
\* close's initiator.
mayWriteDown(i) ==
    CASE c.phase = "closing" -> i < c.initiator
      [] c.phase \in {"ending", "closed"} -> FALSE
      [] OTHER -> TRUE

refuses(i) == l[i].writeShut \/ ~mayWriteDown(i)

\* A turn running settles what waits as it ends; else one wake serves every
\* request made before the turn it brings.
requestTurn(x) == IF x.inTurn \/ sock.state = "closed" THEN x ELSE [x EXCEPT !.turnAsked = TRUE]
wakes(x) == ~x.inTurn /\ ~x.turnAsked /\ sock.state # "closed"
AskTurn == /\ c' = requestTurn(c)
           /\ sock' = [sock EXCEPT !.wake = @ \/ wakes(c)]

ask(t) ==
    /\ At(t, "ask")
    /\ AskTurn
    /\ Back(t)
    /\ UNCHANGED <<opt, l, sent>>

----------------------------------------------------------------------------
\* A write: enter, the layer's OnWrite, leave, at each layer on the way down.

\* A write of q into layer s, or into the socket when s is 0.
Writes(r, s, q, then) ==
    [r EXCEPT !.pc = IF s = 0 THEN "put" ELSE "enter", !.i = s, !.s = s, !.q = q, !.then = then, !.err = FALSE]

\* Layer i's Write returned: the layer above it goes on, or the caller.
Returned(r, err) ==
    LET x == [r EXCEPT !.err = err]
    IN IF x.i >= x.s THEN [x EXCEPT !.pc = x.then]
       ELSE [x EXCEPT !.i = @ + 1, !.pc = "leave"]

enter(t) ==
    LET i == th[t].i IN
    /\ At(t, "enter")
    /\ \/ /\ refuses(i)
          /\ Set(t, Returned(th[t], TRUE))
       \/ /\ ~refuses(i)
          /\ Go(t, "entered")
    /\ UNCHANGED <<opt, c, l, sock, sent>>

entered(t) ==
    /\ At(t, "entered")
    /\ l' = [l EXCEPT ![th[t].i].writers = @ + 1]
    /\ Go(t, "counted")
    /\ UNCHANGED <<opt, c, sock, sent>>

\* Mutant: counted, and not checked again.
countedOnce(t) ==
    LET i == th[t].i IN
    /\ At(t, "counted")
    /\ \/ /\ i = Top /\ opt.limit > 0
          /\ c' = [c EXCEPT !.reserved = @ + 1]
          /\ Set(t, [th[t] EXCEPT !.pc = "reserve", !.k = NextHolder(Top), !.sum = c.reserved + 1, !.alone = c.reserved = 0])
       \/ /\ ~(i = Top /\ opt.limit > 0)
          /\ c' = IF i = Top THEN [c EXCEPT !.taken = @ \cup ToSet(th[t].q)] ELSE c
          /\ Go(t, "pass")
    /\ UNCHANGED <<opt, l, sock, sent>>

\* Counted, then checked again; at the top the write's room is reserved.
counted(t) ==
    LET i == th[t].i IN
    /\ At(t, "counted")
    /\ \/ /\ refuses(i)
          /\ Set(t, [th[t] EXCEPT !.pc = "exit", !.err = TRUE])
          /\ UNCHANGED c
       \/ /\ ~refuses(i)
          /\ i = Top /\ opt.limit > 0
          /\ c' = [c EXCEPT !.reserved = @ + 1]
          /\ Set(t, [th[t] EXCEPT !.pc = "reserve", !.k = NextHolder(Top), !.sum = c.reserved + 1, !.alone = c.reserved = 0])
       \/ /\ ~refuses(i)
          /\ ~(i = Top /\ opt.limit > 0)
          /\ c' = IF i = Top THEN [c EXCEPT !.taken = @ \cup ToSet(th[t].q)] ELSE c
          /\ Go(t, "pass")
    /\ UNCHANGED <<opt, l, sock, sent>>

\* Mutant: the socket's queue is read before what the layer above it holds.
reserveBottomUp(t) ==
    LET k == th[t].k
        sum == th[t].sum + Len(IF k = 0 /\ holders THEN l[NextHolder(Top)].held ELSE sock.queue)
    IN
    /\ At(t, "reserve")
    /\ \/ /\ k > 0
          /\ Set(t, [th[t] EXCEPT !.k = @ - 1, !.sum = sum])
          /\ UNCHANGED c
       \/ /\ k = 0 /\ sum <= opt.limit
          /\ c' = [c EXCEPT !.taken = @ \cup ToSet(th[t].q)]
          /\ Go(t, "pass")
       \/ /\ k = 0 /\ sum > opt.limit
          /\ c' = [c EXCEPT !.reserved = @ - 1, !.refused = @ \/ (th[t].alone /\ ~th[t].told)]
          /\ Set(t, [th[t] EXCEPT !.pc = "refused", !.err = TRUE])
    /\ UNCHANGED <<opt, l, sock, sent>>

\* reserve reads what is queued once the reservation shows: what each layer
\* holds, top down, and the socket's queue last.
reserve(t) ==
    LET k == th[t].k
        sum == th[t].sum + Len(IF k = 0 THEN sock.queue ELSE l[k].held)
    IN
    /\ At(t, "reserve")
    /\ \/ /\ k > 0
          /\ Set(t, [th[t] EXCEPT !.k = @ - 1, !.sum = sum])
          /\ UNCHANGED c
       \/ /\ k = 0 /\ sum <= opt.limit
          /\ c' = [c EXCEPT !.taken = @ \cup ToSet(th[t].q)]
          /\ Go(t, "pass")
       \/ /\ k = 0 /\ sum > opt.limit
          /\ c' = [c EXCEPT !.reserved = @ - 1, !.refused = @ \/ (th[t].alone /\ ~th[t].told)]
          /\ Set(t, [th[t] EXCEPT !.pc = "refused", !.err = TRUE])
    /\ UNCHANGED <<opt, l, sock, sent>>

noteRefused(t) ==
    /\ At(t, "refused")
    /\ c' = [c EXCEPT !.writeRefused = TRUE]
    /\ Go(t, "exit")
    /\ UNCHANGED <<opt, l, sock, sent>>

\* OnWrite: a batch keeps the bytes, under its own lock; a window keeps them
\* too, and like any other layer writes them below.
OnWrite(t) ==
    LET i == th[t].i IN
    /\ At(t, "pass")
    /\ Holds(i) => ~l[i].lock
    /\ l' = IF Holds(i) THEN [l EXCEPT ![i].held = @ \o th[t].q] ELSE l
    /\ Set(t, IF Flushes(i) THEN [th[t] EXCEPT !.pc = "leave"]
              ELSE [th[t] EXCEPT !.i = @ - 1, !.pc = IF i = 1 THEN "put" ELSE "enter"])
    /\ UNCHANGED <<opt, c, sock, sent>>

\* socketLower.Write: the socket takes the bytes, and the count follows.
put(t) ==
    LET ok == sock.state = "up" /\ ~sock.shut IN
    /\ At(t, "put")
    /\ sock' = IF ok THEN [sock EXCEPT !.queue = @ \o th[t].q] ELSE sock
    /\ Set(t, IF ok THEN [th[t] EXCEPT !.pc = "count", !.i = 0] ELSE Returned([th[t] EXCEPT !.i = 0], TRUE))
    /\ UNCHANGED <<opt, c, l, sent>>

count(t) ==
    /\ At(t, "count")
    /\ c' = [c EXCEPT !.wireQueued = @ + Len(th[t].q)]
    /\ Set(t, Returned(th[t], FALSE))
    /\ UNCHANGED <<opt, l, sock, sent>>

\* The top returns the room it reserved and notes the most the layers held.
leave(t) ==
    /\ At(t, "leave")
    /\ c' = IF th[t].i # Top THEN c
            ELSE [c EXCEPT !.reserved = IF opt.limit > 0 THEN @ - 1 ELSE @,
                           !.heldPeak = IF holders /\ heldOutput > @ THEN heldOutput ELSE @]
    /\ Go(t, "exit")
    /\ UNCHANGED <<opt, l, sock, sent>>

\* Mutant: the last writer out does not look.
exitForgets(t) ==
    LET i == th[t].i IN
    /\ At(t, "exit")
    /\ l' = [l EXCEPT ![i].writers = @ - 1]
    /\ Set(t, Returned(th[t], th[t].err))
    /\ UNCHANGED <<opt, c, sock, sent>>

\* The last writer out of a layer looks for an end that waited for it.
exit(t) ==
    LET i == th[t].i IN
    /\ At(t, "exit")
    /\ l' = [l EXCEPT ![i].writers = @ - 1]
    /\ Set(t, IF l[i].writers = 1 THEN [th[t] EXCEPT !.pc = "last"] ELSE Returned(th[t], th[t].err))
    /\ UNCHANGED <<opt, c, sock, sent>>

lastOut(t) ==
    /\ At(t, "last")
    /\ IF l[th[t].i].shutPending THEN AskTurn ELSE UNCHANGED <<c, sock>>
    /\ Set(t, Returned(th[t], th[t].err))
    /\ UNCHANGED <<opt, l, sent>>

\* The caller of Write has its answer; WriteTracked goes on.
wrote(t) ==
    /\ At(t, "wrote")
    /\ c' = IF th[t].err THEN c ELSE [c EXCEPT !.wrote = @ \cup ToSet(th[t].q)]
    /\ IF th[t].tracked /\ ~th[t].err
       THEN Set(t, [th[t] EXCEPT !.pc = "position", !.k = NextHolder(Top), !.sum = 0])
       ELSE Back(t)
    /\ UNCHANGED <<opt, l, sock, sent>>

\* WriteTracked: the position is what the layers hold, then what the socket
\* was handed; the receipt is queued and a turn asked to look at it.
WireQueued(t) ==
    /\ At(t, "position")
    /\ \/ /\ th[t].k > 0
          /\ Set(t, [th[t] EXCEPT !.k = NextHolder(@ - 1), !.sum = @ + Len(l[th[t].k].held)])
          /\ UNCHANGED c
       \/ /\ th[t].k = 0
          /\ c' = [c EXCEPT !.receiptCount = @ + 1]
          /\ Set(t, [th[t] EXCEPT !.sum = @ + c.wireQueued, !.pc = "receipt"])
    /\ UNCHANGED <<opt, l, sock, sent>>

addReceipt(t) ==
    /\ At(t, "receipt")
    /\ c' = [c EXCEPT !.receipts = Append(@, [wire |-> th[t].sum, byte |-> Head(th[t].q)])]
    /\ Set(t, [th[t] EXCEPT !.pc = "ask"])
    /\ UNCHANGED <<opt, l, sock, sent>>

----------------------------------------------------------------------------
\* A batching layer's flush, under its lock: write below, then drop the hold.

flush(t) ==
    LET f == th[t].f IN
    /\ At(t, "flush")
    /\ ~l[f].lock
    /\ \/ /\ l[f].held = <<>>
          /\ Set(t, [th[t] EXCEPT !.pc = th[t].after, !.err = FALSE])
          /\ UNCHANGED l
       \/ /\ l[f].held # <<>>
          /\ l' = [l EXCEPT ![f].lock = TRUE]
          /\ Set(t, Writes(th[t], f - 1, l[f].held, "dropHold"))
    /\ UNCHANGED <<opt, c, sock, sent>>

dropHold(t) ==
    LET f == th[t].f IN
    /\ At(t, "dropHold")
    /\ l' = [l EXCEPT ![f].lock = FALSE, ![f].held = IF th[t].err THEN @ ELSE <<>>]
    /\ Go(t, th[t].after)
    /\ UNCHANGED <<opt, c, sock, sent>>

Flushing(r, f, after) == [r EXCEPT !.pc = "flush", !.f = f, !.after = after]

----------------------------------------------------------------------------
\* The half-close.

CloseWrite(t) ==
    LET i == th[t].e IN
    /\ At(t, "closeWrite")
    /\ \/ /\ over \/ l[i].writeShut
          /\ Back(t)
          /\ UNCHANGED l
       \/ /\ ~over /\ ~l[i].writeShut
          /\ l' = [l EXCEPT ![i].writeShut = TRUE]
          /\ Go(t, "publish")
    /\ UNCHANGED <<opt, c, sock, sent>>

publishShut(t) ==
    /\ At(t, "publish")
    /\ c' = [c EXCEPT !.shutsPending = @ + 1]
    /\ l' = [l EXCEPT ![th[t].e].shutPending = TRUE]
    /\ Go(t, "shutDown")
    /\ UNCHANGED <<opt, sock, sent>>

\* shutDown: no write in flight is seen, then the end is claimed.
shutDown(t) ==
    /\ At(t, "shutDown")
    /\ IF l[th[t].e].writers = 0 THEN Go(t, "claim") ELSE Back(t)
    /\ UNCHANGED <<opt, c, l, sock, sent>>

claim(t) ==
    LET i == th[t].e IN
    /\ At(t, "claim")
    /\ \/ /\ ~l[i].shutPending
          /\ Back(t)
          /\ UNCHANGED l
       \/ /\ l[i].shutPending
          /\ l' = [l EXCEPT ![i].shutPending = FALSE]
          /\ Go(t, "claimed")
    /\ UNCHANGED <<opt, c, sock, sent>>

Unpend == c' = [c EXCEPT !.shutsPending = @ - 1]

\* The claimed end flushes the layer once.
claimed(t) ==
    LET i == th[t].e IN
    /\ At(t, "claimed")
    /\ \/ /\ over
          /\ Unpend /\ Back(t)
          /\ UNCHANGED l
       \/ /\ ~over
          /\ l' = [l EXCEPT ![i].shutFlushed = Flushes(i)]
          /\ Set(t, IF Flushes(i) /\ ~l[i].shutFlushed THEN Flushing(th[t], i, "shutFlushed")
                    ELSE [th[t] EXCEPT !.pc = "look"])
          /\ UNCHANGED c
    /\ UNCHANGED <<opt, sock, sent>>

shutFlushed(t) ==
    /\ At(t, "shutFlushed")
    /\ \/ /\ th[t].err \/ over
          /\ Unpend
          /\ IF th[t].err /\ ~over /\ t = Turn
             THEN Set(t, [th[t] EXCEPT !.pc = "failTurn", !.graceful = FALSE, !.fin = th[t].back])
             ELSE Back(t)
       \/ /\ ~th[t].err /\ ~over
          /\ Set(t, [th[t] EXCEPT !.pc = "look"])
          /\ UNCHANGED c
    /\ UNCHANGED <<opt, l, sock, sent>>

\* What is held still leaves the end waiting, published before a second look.
look(t) ==
    LET i == th[t].e IN
    /\ At(t, "look")
    /\ \/ /\ l[i].held # <<>>
          /\ l' = [l EXCEPT ![i].shutPending = TRUE]
          /\ Go(t, "lookAgain")
          /\ UNCHANGED c
       \/ /\ l[i].held = <<>>
          /\ Unpend
          /\ Go(t, "passEnd")
          /\ UNCHANGED l
    /\ UNCHANGED <<opt, sock, sent>>

lookAgain(t) ==
    /\ At(t, "lookAgain")
    /\ IF l[th[t].e].held # <<>> THEN Back(t) ELSE Go(t, "shutDown")
    /\ UNCHANGED <<opt, c, l, sock, sent>>

\* The layer's CloseWrite ends the half below it.
closeWriter(t) ==
    LET i == th[t].e IN
    /\ At(t, "passEnd")
    /\ \/ /\ i = 1
          /\ sock' = IF sock.state = "up" THEN [sock EXCEPT !.shut = TRUE] ELSE sock
          /\ Back(t)
       \/ /\ i > 1
          /\ Set(t, [th[t] EXCEPT !.e = @ - 1, !.pc = "closeWrite"])
          /\ UNCHANGED sock
    /\ UNCHANGED <<opt, c, l, sent>>

----------------------------------------------------------------------------
\* A close: requested on any goroutine, walked on the turn.

\* Conn.CloseWith, Conn.CloseGracefully, LayerContext.Close and Abort, at
\* layer i.  One under way is cut short, or owns the end.
endClose(t) ==
    LET r == th[t]
        drain == r.kind # "with" /\ r.graceful
        cut == \/ r.kind = "with" /\ (~r.graceful \/ c.drain)
               \/ r.kind = "layer" /\ ~r.graceful
    IN
    /\ At(t, "endClose")
    /\ \/ /\ c.phase = "closed" \/ (over /\ ~cut)
          /\ Back(t)
          /\ UNCHANGED c
       \/ /\ c.phase # "closed" /\ over /\ cut
          /\ c' = [c EXCEPT !.plan = NoPlan, !.cut = TRUE]
          /\ Set(t, [r EXCEPT !.pc = "ending", !.graceful = FALSE, !.home = r.back])
       \/ /\ ~over
          /\ beginClosing(r.i, drain, r.graceful /\ r.kind # "layer")
          /\ Go(t, "own")
    /\ UNCHANGED <<opt, l, sock, sent>>

owns(t) ==
    /\ At(t, "own")
    /\ l' = [l EXCEPT ![th[t].i].closing = TRUE]
    /\ Go(t, "publishPlan")
    /\ UNCHANGED <<opt, c, sock, sent>>

publishPlan(t) ==
    /\ At(t, "publishPlan")
    /\ c' = [c EXCEPT !.plan = [graceful |-> th[t].graceful,
                                from |-> IF th[t].kind = "layer" THEN th[t].i ELSE AboveTop]]
    /\ Go(t, "ask")
    /\ UNCHANGED <<opt, l, sock, sent>>

\* endAtSocket: no layer is called once the phase says so; the socket's close
\* follows, draining or at once.
moveToEnding(t) ==
    /\ At(t, "ending")
    /\ c' = IF noLayerCalls THEN c ELSE [c EXCEPT !.phase = "ending"]
    /\ Go(t, "endAtSocket")
    /\ UNCHANGED <<opt, l, sock, sent>>

\* The socket's own close: what it does when one is under way is Outbound's.
SocketCloses(graceful) ==
    sock' = [sock EXCEPT !.state = CASE @ = "up" /\ graceful -> "draining"
                                     [] @ \in {"up", "draining"} /\ ~graceful -> "closing"
                                     [] OTHER -> @]

endAtSocket(t) ==
    /\ At(t, "endAtSocket")
    /\ SocketCloses(th[t].graceful)
    /\ Home(t)
    /\ UNCHANGED <<opt, c, l, sent>>

\* Mutant: the top layer is not flushed.
runClosePlanUnflushed(t) ==
    LET p == c.plan
        top == p.from = AboveTop
        from == IF top THEN Top ELSE p.from
    IN
    /\ At(t, "runClosePlan")
    /\ c' = [c EXCEPT !.plan = NoPlan]
    /\ IF p = NoPlan \/ noLayerCalls
       THEN Home(t) /\ UNCHANGED l
       ELSE /\ l' = IF top THEN [l EXCEPT ![from].closing = TRUE] ELSE l
            /\ Set(t, [th[t] EXCEPT !.pc = "closeWalk", !.w = from, !.graceful = p.graceful, !.flushSelf = FALSE])
    /\ UNCHANGED <<opt, sock, sent>>

\* The plan is taken, and walked from its layer, which is flushed only when
\* the close came from above it.
runClosePlan(t) ==
    LET p == c.plan
        top == p.from = AboveTop
        from == IF top THEN Top ELSE p.from
    IN
    /\ At(t, "runClosePlan")
    /\ c' = [c EXCEPT !.plan = NoPlan]
    /\ IF p = NoPlan \/ noLayerCalls
       THEN Home(t) /\ UNCHANGED l
       ELSE /\ l' = IF top THEN [l EXCEPT ![from].closing = TRUE] ELSE l
            /\ Set(t, [th[t] EXCEPT !.pc = "closeWalk", !.w = from, !.graceful = p.graceful, !.flushSelf = top])
    /\ UNCHANGED <<opt, sock, sent>>

closeWalk(t) ==
    /\ At(t, "closeWalk")
    /\ IF noLayerCalls THEN Home(t) ELSE Go(t, "goodbye")
    /\ UNCHANGED <<opt, c, l, sock, sent>>

\* The layer's goodbye may write below it.
goodbye(t) ==
    LET w == th[t].w IN
    /\ At(t, "goodbye")
    /\ Set(t, IF w \in opt.says THEN Writes(th[t], w - 1, <<<<"bye", w>>>>, "said") ELSE [th[t] EXCEPT !.pc = "said"])
    /\ UNCHANGED <<opt, c, l, sock, sent>>

said(t) ==
    LET r == th[t] IN
    /\ At(t, "said")
    /\ Set(t, IF r.flushSelf /\ r.graceful /\ Flushes(r.w) /\ ~noLayerCalls
              THEN Flushing(r, r.w, "walkFlushed") ELSE [r EXCEPT !.pc = "below"])
    /\ UNCHANGED <<opt, c, l, sock, sent>>

\* A flush that failed aborts the close.
walkFlushed(t) ==
    /\ At(t, "walkFlushed")
    /\ Set(t, IF th[t].err THEN [th[t] EXCEPT !.pc = "ending", !.graceful = FALSE] ELSE [th[t] EXCEPT !.pc = "below"])
    /\ c' = [c EXCEPT !.cut = @ \/ th[t].err]
    /\ UNCHANGED <<opt, l, sock, sent>>

\* On to the layer below, unless a close from there owns it; the socket last.
below(t) ==
    LET w == th[t].w IN
    /\ At(t, "below")
    /\ \/ /\ w = 1
          /\ Go(t, "ending")
          /\ UNCHANGED l
       \/ /\ w > 1 /\ l[w - 1].closing
          /\ Home(t)
          /\ UNCHANGED l
       \/ /\ w > 1 /\ ~l[w - 1].closing
          /\ l' = [l EXCEPT ![w - 1].closing = TRUE]
          /\ Set(t, [th[t] EXCEPT !.pc = "closeWalk", !.w = @ - 1, !.flushSelf = TRUE])
    /\ UNCHANGED <<opt, c, sock, sent>>

\* A failed turn's own close: the look, the phase, the plan, one at a time.
failTurn(t) ==
    /\ At(t, "failTurn")
    /\ Set(t, [th[t] EXCEPT !.pc = IF over THEN "runClosePlan" ELSE "failBegin", !.home = "failEnd"])
    /\ UNCHANGED <<opt, c, l, sock, sent>>

failBegin(t) ==
    /\ At(t, "failBegin")
    /\ beginClosing(AboveTop, FALSE, th[t].graceful)
    /\ Go(t, "failStore")
    /\ UNCHANGED <<opt, l, sock, sent>>

failStore(t) ==
    /\ At(t, "failStore")
    /\ c' = [c EXCEPT !.plan = [graceful |-> th[t].graceful, from |-> AboveTop]]
    /\ Go(t, "runClosePlan")
    /\ UNCHANGED <<opt, l, sock, sent>>

\* An abort's cause goes back to the core, which closes the socket.
failEnd(t) ==
    /\ At(t, "failEnd")
    /\ IF th[t].failed /\ th[t].fin = "turnEnd" THEN SocketCloses(FALSE) ELSE UNCHANGED sock
    /\ Set(t, [Clean(th[t], th[t].fin) EXCEPT !.failed = @ /\ th[t].fin # "turnEnd"])
    /\ UNCHANGED <<opt, c, l, sent>>

----------------------------------------------------------------------------
\* The turn.

\* The socket runs a turn for a wake or for input.
turnStart ==
    /\ At(Turn, "rest")
    /\ sock.state # "closed" /\ c.phase # "closed"
    /\ \/ sock.wake /\ sock' = [sock EXCEPT !.wake = FALSE]
       \/ sock.turns > 0 /\ sock' = [sock EXCEPT !.wake = FALSE, !.turns = @ - 1]
    /\ Go(Turn, "begun")
    /\ UNCHANGED <<opt, c, l, sent>>

\* The request this turn answers is cleared before it looks at anything.
turn ==
    /\ At(Turn, "begun")
    /\ c' = [c EXCEPT !.turnAsked = FALSE]
    /\ Set(Turn, IF over THEN [th[Turn] EXCEPT !.pc = "runClosePlan", !.home = "settle"]
                 ELSE [th[Turn] EXCEPT !.pc = "inTurn"])
    /\ UNCHANGED <<opt, l, sock, sent>>

enterTurn ==
    /\ At(Turn, "inTurn")
    /\ c' = [c EXCEPT !.inTurn = TRUE, !.heldPeak = IF holders /\ heldOutput > @ THEN heldOutput ELSE @]
    /\ Go(Turn, "run")
    /\ UNCHANGED <<opt, l, sock, sent>>

\* What the turn's callbacks do: the Handler's calls (its program), bytes
\* acknowledged, an end of stream or a failure, or nothing more.
run ==
    LET r == th[Turn] IN
    /\ At(Turn, "run")
    /\ \/ /\ Set(Turn, [r EXCEPT !.pc = "finishTurn"])
          /\ UNCHANGED <<c, l>>
       \/ /\ ~over
          /\ \E i \in Layers :
               /\ opt.kind[i] = "window" /\ ToSet(l[i].held) \cap sock.gone # {}
               /\ l' = [l EXCEPT ![i].held = SelectSeq(@, LAMBDA q : q \notin sock.gone)]
          /\ UNCHANGED <<c, th>>
       \/ /\ ~over
          /\ \E graceful \in opt.fails :
               Set(Turn, [r EXCEPT !.pc = "failTurn", !.graceful = graceful, !.failed = ~graceful, !.fin = "turnEnd"])
          /\ c' = [c EXCEPT !.inTurn = FALSE]
          /\ UNCHANGED l
    /\ UNCHANGED <<opt, sock, sent>>

\* finishTurn: with layers that observe sends or flush, until no report of a
\* send came in meanwhile.
finishTurn ==
    LET r == th[Turn] IN
    /\ At(Turn, "finishTurn")
    /\ \/ /\ over \/ (~opt.observes /\ flushers = {})
          /\ c' = IF over THEN c ELSE [c EXCEPT !.sentPending = 0]
          /\ Go(Turn, "room")
       \/ /\ ~over /\ (opt.observes \/ flushers # {})
          /\ c' = [c EXCEPT !.sentPending = 0]
          /\ Set(Turn, [r EXCEPT !.pc = "flushHeld", !.k = Top])
    /\ UNCHANGED <<opt, l, sock, sent>>

flushHeld ==
    LET r == th[Turn] IN
    /\ At(Turn, "flushHeld")
    /\ Set(Turn, IF NextFlusher(r.k) = 0 \/ over THEN [r EXCEPT !.pc = "heldFlushed"]
                 ELSE Flushing([r EXCEPT !.k = NextFlusher(r.k) - 1], NextFlusher(r.k), "flushedOne"))
    /\ UNCHANGED <<opt, c, l, sock, sent>>

flushedOne ==
    LET r == th[Turn] IN
    /\ At(Turn, "flushedOne")
    /\ Set(Turn, IF r.err THEN [r EXCEPT !.pc = "heldFlushed", !.failed = TRUE] ELSE [r EXCEPT !.pc = "flushHeld"])
    /\ UNCHANGED <<opt, c, l, sock, sent>>

heldFlushed ==
    /\ At(Turn, "heldFlushed")
    /\ Go(Turn, IF c.sentPending = 0 \/ over THEN "room" ELSE "finishTurn")
    /\ UNCHANGED <<opt, c, l, sock, sent>>

\* The Observer hears of room, and there is some: the writers inside are told.
HasRoom == opt.limit > 0 /\ heldOutput + Len(sock.queue) < opt.limit
Told(x) == [t \in Threads |-> IF HasRoom /\ x[t].pc # "rest" THEN [x[t] EXCEPT !.told = TRUE] ELSE x[t]]

\* noteQueueRoom: a writer in flight, a refusal, or held output that shrank.
noteWriters ==
    /\ At(Turn, "room")
    /\ Set(Turn, IF over THEN [th[Turn] EXCEPT !.pc = "leaveTurn"]
                 ELSE [th[Turn] EXCEPT !.pc = "roomRefused", !.room = l[Top].writers > 0])
    /\ UNCHANGED <<opt, c, l, sock, sent>>

noteRefusal ==
    /\ At(Turn, "roomRefused")
    /\ c' = [c EXCEPT !.writeRefused = FALSE]
    /\ Set(Turn, [th[Turn] EXCEPT !.pc = "roomHeld", !.room = @ \/ c.writeRefused, !.sum = heldOutput])
    /\ UNCHANGED <<opt, l, sock, sent>>

noteQueueRoom ==
    LET r == th[Turn]  room == r.room \/ (holders /\ r.sum < c.heldPeak) IN
    /\ At(Turn, "roomHeld")
    /\ c' = [c EXCEPT !.heldPeak = IF holders THEN r.sum ELSE @, !.refused = @ /\ ~(room /\ HasRoom)]
    /\ LET x == [th EXCEPT ![Turn] = [r EXCEPT !.pc = "leaveTurn", !.room = FALSE]] IN th' = IF room THEN Told(x) ELSE x
    /\ UNCHANGED <<opt, l, sock, sent>>

leaveTurn ==
    /\ At(Turn, "leaveTurn")
    /\ c' = [c EXCEPT !.inTurn = FALSE]
    /\ Go(Turn, IF opt.observes \/ flushers # {} \/ c.shutsPending > 0 \/ c.receiptCount # 0 \/ over
                THEN "settle" ELSE "turnEnd")
    /\ UNCHANGED <<opt, l, sock, sent>>

\* settle: the plan, the receipts, reports that came late, the ends that wait.
settle ==
    /\ At(Turn, "settle")
    /\ Set(Turn, IF c.plan # NoPlan THEN [th[Turn] EXCEPT !.pc = "runClosePlan", !.home = "settled"]
                 ELSE [th[Turn] EXCEPT !.pc = "settled"])
    /\ UNCHANGED <<opt, c, l, sock, sent>>

settled ==
    /\ At(Turn, "settled")
    /\ \/ /\ over
          /\ c' = [c EXCEPT !.sentPending = 0]
          /\ Go(Turn, "turnEnd")
       \/ /\ ~over
          /\ Go(Turn, IF c.receiptCount = 0 THEN "late" ELSE "retire")
          /\ UNCHANGED c
    /\ UNCHANGED <<opt, l, sock, sent>>

\* retireReceipts: the list is taken, the wire's position read, and what it
\* has not passed put back ahead of what came since.
takeReceipts ==
    /\ At(Turn, "retire")
    /\ c' = [c EXCEPT !.receipts = <<>>]
    /\ Set(Turn, [th[Turn] EXCEPT !.pc = "retireSent", !.out = c.receipts, !.sum = c.wireSent])
    /\ UNCHANGED <<opt, l, sock, sent>>

\* done: behind a layer that holds, a position says nothing, and the receipt
\* waits for the queue to empty.
retires(p) == (~holders /\ p.wire <= th[Turn].sum) \/ (heldOutput = 0 /\ sock.queue = <<>>)

retireReceipts ==
    LET r == th[Turn]
        gone == SelectSeq(r.out, retires)
        keep == SelectSeq(r.out, LAMBDA p : ~retires(p))
    IN
    /\ At(Turn, "retireSent")
    /\ c' = IF over THEN [c EXCEPT !.receiptCount = @ - Len(r.out)]
            ELSE [c EXCEPT !.receipts = keep \o @, !.receiptCount = @ - Len(gone),
                           !.early = @ \/ \E p \in ToSet(gone) : p.byte \notin sock.gone]
    /\ Set(Turn, [r EXCEPT !.pc = "late", !.out = <<>>])
    /\ UNCHANGED <<opt, l, sock, sent>>

lateReports ==
    /\ At(Turn, "late")
    /\ IF c.sentPending > 0 THEN AskTurn ELSE UNCHANGED <<c, sock>>
    /\ Set(Turn, [th[Turn] EXCEPT !.pc = IF c.shutsPending = 0 THEN "turnEnd" ELSE "finishShuts", !.k = Top])
    /\ UNCHANGED <<opt, l, sent>>

finishShuts ==
    LET r == th[Turn]  k == r.k IN
    /\ At(Turn, "finishShuts")
    /\ Set(Turn, IF k = 0 THEN [r EXCEPT !.pc = "turnEnd"]
                 ELSE IF ~l[k].shutPending \/ over THEN [r EXCEPT !.k = @ - 1]
                 ELSE [r EXCEPT !.pc = "shutDown", !.e = k, !.k = @ - 1, !.back = "finishShuts"])
    /\ UNCHANGED <<opt, c, l, sock, sent>>

\* A flush that failed at the turn's end fails the turn.
turnEnd ==
    LET r == th[Turn] IN
    /\ At(Turn, "turnEnd")
    /\ Set(Turn, IF r.failed THEN [r EXCEPT !.pc = "failTurn", !.graceful = FALSE, !.fin = "turnEnd"]
                 ELSE NewThread(r.prog))
    /\ UNCHANGED <<opt, c, l, sock, sent>>

----------------------------------------------------------------------------
\* The application: calls on the connection the Handler has, from a goroutine
\* or from the Handler's callback, and a layer's close from its own goroutine.

Calls(t, r, op) ==
    CASE op = "write"    -> Writes([r EXCEPT !.tracked = FALSE], Top, <<<<t, Len(r.prog)>>>>, "wrote")
      [] op = "tracked"  -> Writes([r EXCEPT !.tracked = TRUE], Top, <<<<t, Len(r.prog)>>>>, "wrote")
      [] op = "shut"     -> [r EXCEPT !.pc = "closeWrite", !.e = Top]
      [] op = "flush"    -> [r EXCEPT !.pc = "flushCall", !.k = Top]
      [] op = "close"    -> [r EXCEPT !.pc = "endClose", !.i = Top, !.kind = "with", !.graceful = TRUE]
      [] op = "closeErr" -> [r EXCEPT !.pc = "endClose", !.i = Top, !.kind = "with", !.graceful = FALSE]
      [] op = "gracefully" -> [r EXCEPT !.pc = "endClose", !.i = Top, !.kind = "graceful", !.graceful = TRUE]
      [] op = "layerClose" -> [r EXCEPT !.pc = "endClose", !.i = 1, !.kind = "layer", !.graceful = TRUE]
      [] op = "layerAbort" -> [r EXCEPT !.pc = "endClose", !.i = 1, !.kind = "layer", !.graceful = FALSE]

call(t) ==
    LET back == IF t = Turn THEN "run" ELSE "rest" IN
    /\ At(t, back)
    /\ th[t].prog # <<>>
    /\ t = Turn => ~over
    /\ Set(t, [Calls(t, [th[t] EXCEPT !.back = back, !.told = FALSE], Head(th[t].prog)) EXCEPT !.prog = Tail(@)])
    /\ UNCHANGED <<opt, c, l, sock, sent>>

\* Flush: each layer down, then a turn looks at an end that may have waited.
Flush(t) ==
    LET r == th[t] IN
    /\ At(t, "flushCall")
    /\ Set(t, IF over \/ NextFlusher(r.k) = 0 THEN [r EXCEPT !.pc = "flushEnd"]
              ELSE Flushing([r EXCEPT !.k = NextFlusher(r.k) - 1], NextFlusher(r.k), "flushCall"))
    /\ UNCHANGED <<opt, c, l, sock, sent>>

flushEnd(t) ==
    /\ At(t, "flushEnd")
    /\ IF c.shutsPending > 0 THEN AskTurn ELSE UNCHANGED <<c, sock>>
    /\ Back(t)
    /\ UNCHANGED <<opt, l, sent>>

----------------------------------------------------------------------------
\* The socket: its sender, and its close.

Send ==
    /\ sent = "idle" /\ sock.state \in {"up", "draining"} /\ sock.queue # <<>>
    /\ sock' = [sock EXCEPT !.queue = Tail(@), !.gone = @ \cup {Head(sock.queue)}]
    /\ sent' = "sent"
    /\ UNCHANGED <<opt, c, l, th>>

\* stackSent: the wire's count, the layers', the turn; then the Observer.
reportWire ==
    /\ sent = "sent"
    /\ c' = IF c.phase = "closed" THEN c ELSE [c EXCEPT !.wireSent = @ + 1]
    /\ sent' = IF c.phase = "closed" THEN "observer" ELSE "wire"
    /\ UNCHANGED <<opt, l, sock, th>>

reportLayers ==
    /\ sent = "wire"
    /\ IF ~over /\ (opt.observes \/ c.receiptCount # 0)
       THEN c' = [c EXCEPT !.sentPending = @ + 1] /\ sent' = "request"
       ELSE sent' = "observer" /\ UNCHANGED c
    /\ UNCHANGED <<opt, l, sock, th>>

reportTurn ==
    /\ sent = "request"
    /\ AskTurn
    /\ sent' = "observer"
    /\ UNCHANGED <<opt, l, th>>

reportObserver ==
    /\ sent = "observer"
    /\ c' = [c EXCEPT !.refused = @ /\ ~HasRoom]
    /\ sent' = "idle"
    /\ th' = Told(th)
    /\ UNCHANGED <<opt, l, sock>>

\* A drain ends with its queue or its linger timer; a peer may reset.
SocketEnds ==
    /\ \/ sock.state = "draining" /\ sock.queue = <<>> /\ UNCHANGED c
       \/ sock.state = "draining" /\ opt.linger /\ c' = [c EXCEPT !.cut = TRUE]
       \/ sock.state = "up" /\ opt.reset /\ c' = [c EXCEPT !.cut = TRUE]
    /\ sock' = [sock EXCEPT !.state = "closing"]
    /\ UNCHANGED <<opt, l, sent, th>>

\* The socket's OnClose, between turns.
closed ==
    /\ sock.state = "closing" /\ At(Turn, "rest") /\ sent = "idle"
    /\ sock' = [sock EXCEPT !.state = "closed", !.queue = <<>>]
    /\ c' = [c EXCEPT !.phase = "closed", !.sentPending = 0, !.plan = NoPlan, !.receipts = <<>>, !.receiptCount = 0]
    /\ UNCHANGED <<opt, l, sent, th>>

----------------------------------------------------------------------------
Init ==
    /\ opt \in Settings
    /\ c = NewStack
    /\ l = [i \in Layers |-> NewLayer]
    /\ sock = NewSocket
    /\ sent = "idle"
    /\ th = [t \in Threads |-> NewThread(opt.prog[t])]

Writing(t) == \/ enter(t) \/ entered(t) \/ counted(t) \/ reserve(t) \/ noteRefused(t) \/ OnWrite(t) \/ put(t) \/ count(t)
              \/ leave(t) \/ exit(t) \/ lastOut(t) \/ wrote(t) \/ WireQueued(t) \/ addReceipt(t)
              \/ flush(t) \/ dropHold(t) \/ Flush(t) \/ flushEnd(t) \/ call(t) \/ ask(t)

Ending(t) == \/ CloseWrite(t) \/ publishShut(t) \/ shutDown(t) \/ claim(t) \/ claimed(t) \/ shutFlushed(t)
             \/ look(t) \/ lookAgain(t) \/ closeWriter(t)
             \/ endClose(t) \/ owns(t) \/ publishPlan(t) \/ moveToEnding(t) \/ endAtSocket(t)

Walking == \/ runClosePlan(Turn) \/ closeWalk(Turn) \/ goodbye(Turn) \/ said(Turn) \/ walkFlushed(Turn) \/ below(Turn)
           \/ failTurn(Turn) \/ failBegin(Turn) \/ failStore(Turn) \/ failEnd(Turn)

Turning == \/ turnStart \/ turn \/ enterTurn \/ run \/ finishTurn \/ flushHeld \/ flushedOne \/ heldFlushed
           \/ noteWriters \/ noteRefusal \/ noteQueueRoom \/ leaveTurn \/ settle \/ settled
           \/ takeReceipts \/ retireReceipts \/ lateReports \/ finishShuts \/ turnEnd

Socket == \/ Send \/ reportWire \/ reportLayers \/ reportTurn \/ reportObserver \/ SocketEnds \/ closed

Next == (\E t \in Threads : Writing(t) \/ Ending(t)) \/ Walking \/ Turning \/ Socket

Spec == Init /\ [][Next]_vars

----------------------------------------------------------------------------
\* Nobody is doing anything and nobody has been asked to: what is left waits
\* for an event from outside.
Quiet ==
    /\ \A t \in Threads : At(t, "rest")
    /\ \A t \in Apps : th[t].prog = <<>>
    /\ sent = "idle"
    /\ ~sock.wake
    /\ sock.state \in {"up", "closed"}
    /\ sock.state = "up" => sock.queue = <<>>

\* Nothing that waits for a turn is left without one (requestTurn): a close
\* begun has reached the socket, an end waits only for what its layer holds,
\* a receipt only for bytes that have not left, and no report, writer or
\* reservation is forgotten.
NothingWaits ==
    Quiet =>
        /\ c.phase \in {"open", "closed"}
        /\ \A i \in Layers : l[i].writers = 0 /\ ~l[i].lock
        /\ c.reserved = 0
        /\ c.phase = "open" =>
             /\ opt.observes => c.sentPending = 0
             /\ \A i \in Layers : l[i].shutPending => l[i].held # <<>>
             /\ c.shutsPending = Cardinality({i \in Layers : l[i].shutPending})
             /\ c.receipts # <<>> => heldOutput > 0
             /\ c.receiptCount = Len(c.receipts)

\* The socket's writing half ends behind every byte the top admitted
\* (CloseWrite, shutDown): none is still in a layer or in a writer's hands.
EndBehindData == sock.shut /\ c.phase = "open" => c.taken \subseteq sock.gone \cup ToSet(sock.queue)

\* Writers that race through reserve never get more admitted between them
\* than the connection may queue.
LimitKept == opt.limit > 0 => Cardinality(c.taken \ sock.gone) <= opt.limit

\* A graceful close of the connection that nothing cut short sends every byte
\* whose write had returned when it began (closeWalk flushes each layer).
GracefulDelivers ==
    Quiet /\ c.phase = "closed" /\ ~c.cut => c.due \subseteq sock.gone

\* A receipt is reported only for bytes that left.
ReceiptsTrue == ~c.early
=============================================================================

----------------------------- MODULE WsHandshake ----------------------------
(***************************************************************************)
(* The lifetime of a uws handshake: a pooled handshakeState, its deadline  *)
(* in a shard a scanner goroutine sweeps, the context of a dial, and the   *)
(* close deadline that follows it in the same shard.  A turn's steps, the  *)
(* scanner's, the context callbacks' and Conn.Request's interleave at      *)
(* every lock and every atomic load.                                       *)
(***************************************************************************)
EXTENDS Naturals, Sequences, FiniteSets, FiniteSetsExt

CONSTANTS Conns,    \* connections
          Settings, \* records of: accepted, the server's connections; dialed, those
                    \* with a context, cleanup and own handshake state in state;
                    \* asks and closes: whose Request and Close are called
          States,   \* handshake states the pool may hold
          Timeout,  \* HandshakeTimeout and CloseTimeout
          MaxSweep, \* deadlineMaxSweep
          MaxNow    \* bound on the clock

None == "none"
Kinds == {"handshake", "close"}

VARIABLES
    opt,
    conn,   \* conn[c]: handshake, opened, closed, the transport, what asked it to close
    st,     \* st[s]: epoch, expired, contextStop and cleanup as the connection that
            \* set them, request; free: it is in the pool
    shard,  \* pending[c][k]: the entry or None; nextWake; the poke channel
    sc,     \* the scanner: its step, the deadlines it collected, its timer, and the
            \* time it spent firing
    th,     \* the operations each connection's turn has still to run
    hook,   \* hook[c]: the context's callback: state, epoch, whether it runs
    rq,     \* rq[c]: Conn.Request in progress, and what it returned
    now     \* the clock

vars == <<opt, conn, st, shard, sc, th, hook, rq, now>>

NoEntry == [at |-> 0, epoch |-> 0]

Init ==
    /\ opt \in Settings
    /\ conn = [c \in Conns |-> [hs |-> IF c \in opt.dialed THEN opt.state[c] ELSE None, opened |-> FALSE, closed |-> FALSE, raw |-> "new", why |-> None,
                                epoch |-> 0, due |-> 0, cleaned |-> 0, closing |-> FALSE,
                                released |-> None]]
    /\ st = [s \in States |-> LET own == {c \in opt.dialed : opt.state[c] = s} IN
                [epoch |-> 0, expired |-> FALSE, ctx |-> None, request |-> None, free |-> own = {},
                 cleanup |-> IF own = {} THEN None ELSE CHOOSE c \in own : TRUE]]
    /\ shard = [pending |-> [c \in Conns |-> [k \in Kinds |-> NoEntry]], nextWake |-> 0, poke |-> FALSE]
    /\ sc = [pc |-> "sweep", due |-> {}, wakeAt |-> 0, lag |-> 0, key |-> {}, state |-> None]
    /\ th = [c \in Conns |-> <<>>]
    /\ hook = [c \in Conns |-> [state |-> None, epoch |-> 0, run |-> "unset"]]
    /\ rq = [c \in Conns |-> [state |-> None, got |-> None, asked |-> FALSE]]
    /\ now = 1

At(c, op) == th[c] # <<>> /\ Head(th[c]) = op
Go(c, ops) == th' = [th EXCEPT ![c] = ops \o Tail(@)]
Live(c) == conn[c].raw \in {"open", "closing"}

\* requestClose: the transport closes once, with the first cause.
requestClose(x, why) == IF x.raw = "open" THEN [x EXCEPT !.raw = "closing", !.why = why] ELSE x

-----------------------------------------------------------------------------
(* deadlineShard.                                                          *)

\* Mutant: the scanner is not poked for an earlier entry.
armUnpoked(s, c, k, at, epoch, replace) ==
    [s EXCEPT !.pending[c][k] = IF replace \/ @ = NoEntry THEN [at |-> at, epoch |-> epoch] ELSE @,
              !.poke = @ \/ s.nextWake = 0]

\* arm replaces or keeps a pending entry; the scanner is poked unless it
\* already wakes in time.
arm(s, c, k, at, epoch, replace) ==
    [s EXCEPT !.pending[c][k] = IF replace \/ @ = NoEntry THEN [at |-> at, epoch |-> epoch] ELSE @,
              !.poke = @ \/ s.nextWake = 0 \/ at < s.nextWake]

\* cancel removes the entry of its own arming only.
cancel(s, c, k, epoch) ==
    [s EXCEPT !.pending[c][k] = IF @.epoch = epoch THEN NoEntry ELSE @]

\* run, the sweep: what is due leaves the map, and the next look is set.
sweep ==
    /\ sc.pc = "sweep"
    /\ LET keys == {<<c, k>> \in Conns \X Kinds : shard.pending[c][k] # NoEntry}
           due == {x \in keys : shard.pending[x[1]][x[2]].at <= now}
           ats == {shard.pending[x[1]][x[2]].at : x \in keys \ due}
           wake == Min({now + MaxSweep} \cup ats)
       IN  /\ sc' = [sc EXCEPT !.pc = "fire", !.wakeAt = wake, !.lag = 0,
                               !.due = {[c |-> x[1], k |-> x[2], epoch |-> shard.pending[x[1]][x[2]].epoch] : x \in due}]
           /\ shard' = [shard EXCEPT !.nextWake = wake,
                          !.pending = [c \in Conns |-> [k \in Kinds |-> IF <<c, k>> \in due THEN NoEntry ELSE @[c][k]]]]
    /\ UNCHANGED <<opt, conn, st, th, hook, rq, now>>

\* expireHandshake wins only for the published state and epoch.
Expires(c, s, epoch) ==
    conn[c].hs = s /\ st[s].epoch = epoch /\ ~st[s].expired /\ ~conn[c].opened /\ ~conn[c].closed

\* detachResourcesLocked, and what its stop() releases: the deadline, the
\* context callback, the dial's cleanup.
detach(s) == [s EXCEPT !.epoch = @ + 1, !.ctx = None, !.cleanup = None]
Cleaned(x, s) == [x EXCEPT !.cleaned = @ + (IF s.cleanup # None THEN 1 ELSE 0)]
StopHook(c, s) ==
    hook' = [hook EXCEPT ![c].run = IF s.ctx # None /\ @ = "set" THEN "stopped" ELSE @]

expireHandshake(c, s, epoch, why) ==
    IF Expires(c, s, epoch)
    THEN /\ st' = [st EXCEPT ![s] = [detach(@) EXCEPT !.expired = TRUE]]
         /\ conn' = [conn EXCEPT ![c] = requestClose([Cleaned(@, st[s]) EXCEPT !.hs = None], why)]
         /\ shard' = cancel(shard, c, "handshake", epoch)
    ELSE UNCHANGED <<st, conn, shard>>

\* fireDeadline: the handshake is loaded, then expired under its lock.
fireDeadline ==
    /\ sc.pc = "fire" /\ sc.key = {}
    /\ \E x \in sc.due :
        /\ sc' = [sc EXCEPT !.due = @ \ {x},
                            !.key = IF x.k = "close" \/ conn[x.c].hs = None THEN {} ELSE {x},
                            !.state = conn[x.c].hs]
        /\ conn' = IF x.k = "close" /\ ~conn[x.c].closed THEN [conn EXCEPT ![x.c] = requestClose(@, "close")] ELSE conn
        /\ shard' = IF x.k = "close" THEN cancel(shard, x.c, "close", 0) ELSE shard
    /\ UNCHANGED <<opt, st, th, hook, rq, now>>

expireDue ==
    /\ sc.pc = "fire"
    /\ \E x \in sc.key :
        /\ expireHandshake(x.c, sc.state, x.epoch, "deadline")
        /\ IF Expires(x.c, sc.state, x.epoch) THEN StopHook(x.c, st[sc.state]) ELSE UNCHANGED hook
    /\ sc' = [sc EXCEPT !.key = {}, !.state = None]
    /\ UNCHANGED <<opt, th, rq, now>>

\* run, the wait: until the timer or a poke; then nextWake is cleared.  The
\* timer starts only now, so firing what was due delays it.
wait ==
    /\ sc.pc = "fire" /\ sc.key = {} /\ sc.due = {}
    /\ sc' = [sc EXCEPT !.pc = "wait", !.wakeAt = @ + sc.lag]
    /\ UNCHANGED <<opt, conn, st, shard, th, hook, rq, now>>

wake ==
    /\ sc.pc = "wait" /\ (shard.poke \/ now >= sc.wakeAt)
    /\ sc' = [sc EXCEPT !.pc = "woke"]
    /\ IF shard.poke THEN shard' = [shard EXCEPT !.poke = FALSE] ELSE UNCHANGED shard
    /\ UNCHANGED <<opt, conn, st, th, hook, rq, now>>

looks ==
    /\ sc.pc = "woke" /\ sc' = [sc EXCEPT !.pc = "sweep"]
    /\ shard' = [shard EXCEPT !.nextWake = 0]
    /\ UNCHANGED <<opt, conn, st, th, hook, rq, now>>

Tick ==
    /\ now < MaxNow /\ now' = now + 1
    /\ sc' = IF sc.pc = "fire" THEN [sc EXCEPT !.lag = @ + 1] ELSE sc
    /\ UNCHANGED <<opt, conn, st, shard, th, hook, rq>>

-----------------------------------------------------------------------------
(* The connection's turn.                                                  *)

\* onOpen: a server takes a state from the pool; then the timer, and a dial
\* watches its context.
onOpen(c) ==
    /\ th[c] = <<>> /\ conn[c].raw = "new" /\ c \in opt.accepted \cup opt.dialed
    /\ IF c \in opt.dialed THEN conn' = [conn EXCEPT ![c].raw = "open"] /\ UNCHANGED st
       ELSE \E s \in States :
            /\ st[s].free
            /\ st' = [st EXCEPT ![s].free = FALSE]
            /\ conn' = [conn EXCEPT ![c].raw = "open", ![c].hs = s]
    /\ th' = [th EXCEPT ![c] = <<"startTimer", "arm">> \o (IF c \in opt.dialed THEN <<"watch", "setHook">> ELSE <<>>)]
    /\ UNCHANGED <<opt, shard, sc, hook, rq, now>>

startHandshakeTimer(c) ==
    /\ At(c, "startTimer")
    /\ st' = [st EXCEPT ![conn[c].hs].epoch = @ + 1, ![conn[c].hs].expired = FALSE]
    /\ conn' = [conn EXCEPT ![c].epoch = st[conn[c].hs].epoch + 1, ![c].due = now + Timeout]
    /\ Go(c, <<>>) /\ UNCHANGED <<opt, shard, sc, hook, rq, now>>

armHandshake(c) ==
    /\ At(c, "arm")
    /\ shard' = arm(shard, c, "handshake", now + Timeout, conn[c].epoch, TRUE)
    /\ Go(c, <<>>) /\ UNCHANGED <<opt, conn, st, sc, hook, rq, now>>

\* watchHandshakeContext: the callback may run before it is recorded.
watchHandshakeContext(c) ==
    /\ At(c, "watch")
    /\ LET s == conn[c].hs
           skip == s = None \/ conn[c].opened \/ conn[c].closed
       IN  IF skip THEN UNCHANGED hook
           ELSE hook' = [hook EXCEPT ![c] = [state |-> s, epoch |-> st[s].epoch,
                                             run |-> IF st[s].expired THEN "stopped" ELSE "set"]]
    /\ Go(c, <<>>) /\ UNCHANGED <<opt, conn, st, shard, sc, rq, now>>

setHook(c) ==
    /\ At(c, "setHook")
    /\ LET h == hook[c]
           stale == h.state = None \/ ~Expires(c, h.state, h.epoch)
       IN  IF stale THEN /\ hook' = [hook EXCEPT ![c].run = IF @ = "set" THEN "stopped" ELSE @]
                         /\ UNCHANGED st
           ELSE st' = [st EXCEPT ![h.state].ctx = c] /\ UNCHANGED hook
    /\ Go(c, <<>>) /\ UNCHANGED <<opt, conn, shard, sc, rq, now>>

\* The context ends: its callback expires the handshake it captured.
ContextDone(c) ==
    /\ hook[c].run = "set" /\ hook' = [hook EXCEPT ![c].run = "due"]
    /\ UNCHANGED <<opt, conn, st, shard, sc, th, rq, now>>

contextExpired(c) ==
    /\ hook[c].run = "due"
    /\ expireHandshake(c, hook[c].state, hook[c].epoch, "context")
    /\ hook' = [hook EXCEPT ![c].run = "ran"]
    /\ UNCHANGED <<opt, sc, th, rq, now>>

\* The upgrade is complete: its request is published, the connection opens,
\* OnOpen runs and the state is released.
consumeHandshake(c) ==
    /\ th[c] = <<>> /\ conn[c].raw = "open" /\ ~conn[c].opened /\ conn[c].hs # None
    /\ th' = [th EXCEPT ![c] = <<"publish", "markOpened">>]
    /\ UNCHANGED <<opt, conn, st, shard, sc, hook, rq, now>>

publish(c) ==
    /\ At(c, "publish")
    /\ st' = IF conn[c].hs = None THEN st ELSE [st EXCEPT ![conn[c].hs].request = c]
    /\ Go(c, <<>>) /\ UNCHANGED <<opt, conn, shard, sc, hook, rq, now>>

\* markOpened; a handshake that expired meanwhile ends with its error.
Openable(c) == conn[c].hs # None /\ ~st[conn[c].hs].expired /\ ~conn[c].opened /\ ~conn[c].closed

markOpened(c) ==
    /\ At(c, "markOpened")
    /\ IF ~Openable(c) THEN UNCHANGED <<conn, st, shard, hook>> /\ Go(c, <<>>)
       ELSE LET s == conn[c].hs IN
            /\ st' = [st EXCEPT ![s] = detach(@)]
            /\ conn' = [conn EXCEPT ![c] = [Cleaned(@, st[s]) EXCEPT !.opened = TRUE]]
            /\ shard' = cancel(shard, c, "handshake", st[s].epoch)
            /\ StopHook(c, st[s])
            /\ Go(c, <<"notifyOpen", "recycle">>)
    /\ UNCHANGED <<opt, sc, rq, now>>

\* notifyOpen: OnOpen returned; releaseHandshakeState unpublishes the state,
\* then recycle resets it and returns it to the pool.
notifyOpen(c) ==
    /\ At(c, "notifyOpen")
    /\ conn' = [conn EXCEPT ![c].hs = None, ![c].released = conn[c].hs]
    /\ Go(c, <<>>) /\ UNCHANGED <<opt, st, shard, sc, hook, rq, now>>

recycle(c) ==
    /\ At(c, "recycle")
    /\ st' = IF c \in opt.dialed THEN st
             ELSE [st EXCEPT ![conn[c].released] = [epoch |-> @.epoch + 1, expired |-> FALSE, ctx |-> None, cleanup |-> None,
                                            request |-> None, free |-> TRUE]]
    /\ Go(c, <<>>) /\ UNCHANGED <<opt, conn, shard, sc, hook, rq, now>>

\* Conn.Request: the state is loaded, then read under its lock if it is
\* still the connection's.
Request(c) ==
    /\ c \in opt.asks /\ ~rq[c].asked /\ conn[c].hs # None
    /\ rq' = [rq EXCEPT ![c].asked = TRUE, ![c].state = conn[c].hs]
    /\ UNCHANGED <<opt, conn, st, shard, sc, th, hook, now>>


Published(c, s) == conn[c].hs = s

handshakeHTTPRequest(c) ==
    /\ rq[c].state # None
    /\ rq' = [rq EXCEPT ![c].state = None, ![c].got = IF Published(c, rq[c].state) THEN st[rq[c].state].request ELSE None]
    /\ UNCHANGED <<opt, conn, st, shard, sc, th, hook, now>>

-----------------------------------------------------------------------------
(* Closing.                                                                *)

\* closeTransport or Close: the close deadline, kept if it is armed already
\* (ensureCloseTimer) or replaced (startCloseTimer).
StartClose(c) ==
    /\ c \in opt.closes /\ conn[c].raw = "open" /\ conn[c].opened /\ ~conn[c].closing
    /\ conn' = [conn EXCEPT ![c].closing = TRUE]
    /\ \E replace \in BOOLEAN :
        shard' = IF conn[c].closed THEN shard ELSE arm(shard, c, "close", now + Timeout, 0, replace)
    /\ UNCHANGED <<opt, st, sc, th, hook, rq, now>>

\* The transport ends, at the peer's or as it was asked to; a dial may fail
\* before it opens.
onClose(c) ==
    /\ th[c] = <<>> /\ (Live(c) \/ (c \in opt.dialed /\ conn[c].raw = "new"))
    /\ conn' = [conn EXCEPT ![c].raw = "gone"]
    /\ th' = [th EXCEPT ![c] = (IF conn[c].opened THEN <<>> ELSE <<"stopHandshake">>) \o <<"closed", "stopClose">>]
    /\ UNCHANGED <<opt, st, shard, sc, hook, rq, now>>

stopHandshakeTimer(c) ==
    /\ At(c, "stopHandshake")
    /\ LET s == conn[c].hs IN
        IF s = None THEN UNCHANGED <<st, conn, shard, hook>>
        ELSE /\ st' = [st EXCEPT ![s] = [detach(@) EXCEPT !.expired = TRUE]]
             /\ conn' = [conn EXCEPT ![c] = [Cleaned(@, st[s]) EXCEPT !.hs = None]]
             /\ shard' = cancel(shard, c, "handshake", st[s].epoch)
             /\ StopHook(c, st[s])
    /\ Go(c, <<>>) /\ UNCHANGED <<opt, sc, rq, now>>

closed(c) ==
    /\ At(c, "closed") /\ conn' = [conn EXCEPT ![c].closed = TRUE]
    /\ Go(c, <<>>) /\ UNCHANGED <<opt, st, shard, sc, hook, rq, now>>

stopCloseTimer(c) ==
    /\ At(c, "stopClose") /\ shard' = cancel(shard, c, "close", 0)
    /\ Go(c, <<>>) /\ UNCHANGED <<opt, conn, st, sc, hook, rq, now>>

Step(c) ==
    \/ onOpen(c) \/ startHandshakeTimer(c) \/ armHandshake(c) \/ watchHandshakeContext(c) \/ setHook(c)
    \/ ContextDone(c) \/ contextExpired(c) \/ consumeHandshake(c) \/ publish(c) \/ markOpened(c)
    \/ notifyOpen(c) \/ recycle(c) \/ Request(c) \/ handshakeHTTPRequest(c) \/ StartClose(c) \/ onClose(c)
    \/ stopHandshakeTimer(c) \/ closed(c) \/ stopCloseTimer(c)

\* The clock stops at its bound.
Resting == now = MaxNow /\ sc.pc = "wait" /\ (\A c \in Conns : th[c] = <<>>) /\ UNCHANGED vars

Next ==
    \/ \E c \in Conns : Step(c)
    \/ sweep \/ fireDeadline \/ expireDue \/ wait \/ wake \/ looks \/ Tick \/ Resting

Spec == Init /\ [][Next]_vars

-----------------------------------------------------------------------------
(* Properties                                                              *)


\* No deadline is lost: a handshake in progress, or a close, that was armed
\* is pending or collected, and the scanner asleep without a poke wakes no
\* later than the earliest pending one, the time spent firing apart (arm,
\* cancel, run).
DeadlineKept ==
    /\ \A c \in Conns :
        /\ (conn[c].hs # None /\ conn[c].raw = "open" /\ ~conn[c].opened
            /\ \A i \in DOMAIN th[c] : th[c][i] \notin {"startTimer", "arm"})
           => \/ shard.pending[c]["handshake"] # NoEntry
              \/ \E x \in sc.due \cup sc.key : x.c = c /\ x.k = "handshake"
        /\ (conn[c].raw = "open" /\ conn[c].closing)
           => shard.pending[c]["close"] # NoEntry \/ \E x \in sc.due : x.c = c /\ x.k = "close"
    /\ (sc.pc = "wait" /\ ~shard.poke)
       => \A c \in Conns, k \in Kinds : shard.pending[c][k] # NoEntry => shard.pending[c][k].at + sc.lag >= sc.wakeAt
    /\ \A c \in Conns : (conn[c].closed /\ th[c] = <<>>) => \A k \in Kinds : shard.pending[c][k] = NoEntry
=============================================================================

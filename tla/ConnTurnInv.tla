---------------------------- MODULE ConnTurnInv ----------------------------
(***************************************************************************)
(* The inductive invariants of ConnTurn, and what one goroutine's step     *)
(* relies on and keeps.  IInv counts: tasks and their owners, the loop's   *)
(* turn count, the write claim and its holders.  LInv says who owes what:  *)
(* an event nobody has taken, a close that was requested, a release whose  *)
(* OnClose is due each has a goroutine or a queued task that will see to   *)
(* it.                                                                     *)
(***************************************************************************)
EXTENDS ConnTurn

\* Registering, and registering before the connection is published.
gLabels == {"g_start", "g_note", "g_acquire", "g_put", "g_look", "g_leave",
            "g_drop", "g_close", "g_submit"}
fLabels == {"g_start", "g_note", "g_acquire", "g_put", "g_close"}

\* In noteIO; in a teardown; in a turn's body; in the shutdown.
nLabels == {"n_check", "n_fold", "n_acquire", "n_claim"}
dLabels == {"d_claim", "d_taken", "d_spin", "d_wait", "d_retry", "d_release",
            "d_flush", "fire", "c_fold"}
tLabels == {"t_open", "t_body", "t_close"}
sLabels == {"s_start", "s_loops", "s_poller", "s_begin", "s_stop", "s_sum",
            "s_wait", "s_drain", "s_done"}

\* On the way to the write claim of a connection that was not released.
takers == {"k_claim", "w_again", "d_taken", "d_spin", "d_wait", "d_retry",
           "d_release"}

\* Where the call that a goroutine at l is in returns to.
ReturnOK(l, r) ==
    /\ l \in nLabels => r \in {"idle", "end", "w_done", "w_next", "w_close"}
    /\ l = "w_hand" => r \in {"idle", "w_next", "w_close"}
    /\ l \in dLabels => r \in {"fin", "h_drop", "s_drain"}
    /\ l = "c_claim" => r \in {"fin", "h_drop", "s_drain", "end"}
    /\ l \in tLabels => r = "fin"
    /\ l = "fin" => r \in {"fin", "none"}
    /\ l = "h_drop" => r \in {"h_drop", "none"}
    /\ l \notin nLabels \cup dLabels \cup tLabels
                \cup {"w_hand", "c_claim", "fin", "h_drop"} => r = "none"

\* The Stopper shuts down and the Registrar registers, and nobody else does.
PlaceOK(p, l, r) ==
    /\ p = Stopper => l \in sLabels \/ r = "s_drain"
    /\ l \in sLabels \/ r = "s_drain" => p = Stopper
    /\ l \in gLabels => p = Registrar

\* Every goroutine is where its calls can take it.
Control ==
    \A p \in Procs : ReturnOK(pc[p], ret[p]) /\ PlaceOK(p, pc[p], ret[p])

\* stopIO has set ioStop, and what it waited for stays so.
Joined ==
    /\ ioStop <=> pc[Stopper] \notin {"s_start", "s_loops", "s_poller",
                                      "s_begin", "s_stop"}
    /\ ioIdle => ioStop
    /\ inPass => ioIdle
    /\ ioIdle /\ (pc[Stopper] \in {"s_sum", "s_wait"} \/ inPass) => count = 0

\* p holds the write claim, to send or to release the connection.
Holds(p) == Sends(p) \/ pc[p] = "d_release"

\* All of them.
holders == {p \in Procs : Holds(p)}

\* The claim's holders: a queued write turn, a goroutine, or a teardown.
OneHolder ==
    wqueued + Cardinality(holders) + Bit(isReleased /\ wclaim) = Bit(wclaim)

\* Until it is registered nobody but pollers knows of the connection, and
\* until it is published nobody.
Unseen ==
    /\ pc[Registrar] \in gLabels =>
         /\ opens = 0 /\ wclaim = FALSE /\ ~inPass
         /\ queued = 0 /\ rejected = 0 /\ wqueued = 0
         /\ \A p \in Producers \cup Workers :
              pc[p] \in nLabels \cup {"idle"} /\ ret[p] \in {"idle", "none"}
    /\ pc[Registrar] \in fLabels =>
         /\ published = FALSE /\ claimed = (pc[Registrar] = "g_put")
         /\ \A p \in Producers \cup Workers : pc[p] = "idle"

\* An abandoned connection has no claim, and nobody is about to take it.
Abandoned ==
    isReleased /\ ~wclaim => \A p \in Procs : pc[p] \notin takers

\* The inductive invariant.
IInv ==
    /\ TypeOK /\ Control /\ OneTask /\ CountExact /\ Joined
    /\ OneHolder /\ Unseen /\ Abandoned

----------------------------------------------------------------------------
(* What one goroutine's step relies on and keeps.                          *)

\* The sums' parts that a step of p can change.
Balance(p) == queued + rejected + Bit(Owns(p)) - Bit(claimed)
Debt(p) == count - queued - rejected - wqueued
           - Bit(Counted(p)) - Bit(pc[p] = "n_claim")
Tenure(p) == wqueued + Bit(Holds(p)) + Bit(isReleased /\ wclaim) - Bit(wclaim)

\* The count covers the queued tasks and p's part.
Enough(p) ==
    count >= queued + rejected + wqueued + Bit(Counted(p))
             + Bit(pc[p] = "n_claim")

\* A step of p moves nobody else.
Moves(p) ==
    /\ pc' = [pc EXCEPT ![p] = pc'[p]] /\ pc'[p] \in Labels
    /\ ret' = [ret EXCEPT ![p] = ret'[p]] /\ ret'[p] \in Returns

\* What a step of p may rely on ...
Before(p) ==
    /\ TypeOK
    /\ pc \in [Procs -> Labels] /\ ret \in [Procs -> Returns]
    /\ ReturnOK(pc[p], ret[p]) /\ PlaceOK(p, pc[p], ret[p])
    /\ Owns(p) => claimed /\ queued = 0 /\ rejected = 0
    /\ Holds(p) => wclaim /\ wqueued = 0 /\ ~isReleased
    /\ pc[Registrar] \in gLabels =>
         wclaim = FALSE /\ wqueued = 0 /\ queued = 0 /\ rejected = 0
    /\ pc[Registrar] \in fLabels => claimed = (pc[Registrar] = "g_put")
    /\ isReleased /\ ~wclaim =>
         pc[p] \notin takers

\* ... and what it keeps.
After(p) ==
    /\ TypeOK' /\ Moves(p)
    /\ ReturnOK(pc'[p], ret'[p]) /\ PlaceOK(p, pc'[p], ret'[p])
    /\ Balance(p)' = Balance(p)
    /\ Debt(p)' = Debt(p)
    /\ Tenure(p)' = Tenure(p)

----------------------------------------------------------------------------
(* Duties.                                                                 *)

\* p will claim the task for events nobody has taken.
Claimer(p) ==
    \/ pc[p] \in {"n_acquire", "n_claim", "f_reclaim"}
    \/ pc[p] = "f_left" /\ arg[p] # {}

\* p will note that the connection is to be released.
Noter(p) ==
    \/ pc[p] = "w_hand"
    \/ pc[p] \in {"n_check", "n_fold", "h_left"} /\ "teardown" \in arg[p]

\* p is on its way to release a closing connection.
Tearer(p) ==
    pc[p] \in {"t_open", "t_body", "t_close", "h_phase", "h_begun", "d_claim",
               "d_taken", "d_spin", "d_wait", "d_retry", "d_release"}

\* p asked the write claim's holder to hand the release back.
Retrier(p) == pc[p] = "d_retry"

\* p is about to call OnOpen.
Opener(p) == pc[p] = "t_open"

\* p will deliver OnClose, or schedule it; it may still have to take the
\* connection out of the fd table.
Closer(p) == pc[p] \in {"d_flush", "fire", "c_fold"}
Flusher(p) == pc[p] = "d_flush"

\* p will claim a task for the scheduled OnClose.
Scheduler(p) == pc[p] = "c_claim" \/ (pc[p] = "h_left" /\ "close" \in arg[p])

\* p handles a refused turn.
Refuser(p) == pc[p] = "h_phase"

----------------------------------------------------------------------------
(* The invariant's parts; their parameters say whether anybody has a duty. *)

\* OnOpen is owed, being called or called, and OnClose follows it.
CallsOK(op, cs) ==
    /\ opens \in {0, 1}
    /\ phase < closeCallbackDelivered => closes = 0
    /\ phase = closeCallbackDelivered => closes = opens
    /\ "open" \in events => opens = 0
    /\ "close" \in events => isReleased /\ "open" \notin events
    /\ op => opens = 0 /\ ~isReleased /\ "open" \notin events
    /\ phase = closeResourcesReleased =>
         opens = Bit("open" \notin events) /\ ("open" \in events => cs)
    /\ ~isReleased /\ "open" \notin events =>
         opens = 1 \/ op \/ pc[Registrar] \in {"g_start", "g_note", "g_close"}

\* How far the shutdown and the registration have come.
StagesOK ==
    /\ stage = "serving" <=> pc[Stopper] = "s_start"
    /\ stopping <=> pc[Stopper] \notin {"s_start", "s_loops"}
    /\ Accepted /\ pc[Stopper] \notin {"s_start", "s_loops", "s_poller"} =>
         pc[Registrar] = "done"
    /\ published /\ pc[Registrar] # "g_look"
       /\ pc[Stopper] \notin {"s_start", "s_loops", "s_poller", "s_begin"} =>
         isClosing
    /\ pc[Registrar] \in gLabels =>
         IF pc[Registrar] = "g_drop" THEN phase = closeCallbackDelivered
         ELSE ~isReleased /\ (stage = "serving" => phase = closeOpen)

\* An event of an open connection has a task, or somebody claims one.
EventsOK(cl) ==
    stage = "serving" /\ phase = closeOpen /\ events # {} =>
        claimed \/ cl \/ pc[Registrar] = "g_acquire"

\* A close that was requested has somebody who carries it out.
TeardownOK(cl, no, te, re) ==
    stage = "serving" /\ phase = closeRequested =>
        /\ \/ "teardown" \in events /\ (claimed \/ cl)
           \/ no \/ te \/ queued > 0 \/ rejected > 0
           \/ closeWait /\ wclaim
        /\ re => closeWait \/ no \/ "teardown" \in events

\* A released connection has somebody who delivers its OnClose.
DeliverOK(cl, cs, sc) ==
    stage = "serving" /\ phase = closeResourcesReleased =>
        cs \/ ("close" \in events /\ (claimed \/ cl \/ sc))

\* A connection stays in the fd table until it is released, and the pass that
\* ends a shutdown leaves neither it nor its OnClose behind.
PassOK(cs, fl, hp) ==
    /\ pc[Registrar] \notin gLabels /\ ~isReleased => published
    /\ pc[Registrar] \in {"g_look", "g_submit"} => published
    /\ pc[Registrar] \in {"g_leave", "g_drop"} => ~published
    /\ published /\ isReleased => fl
    /\ ~MayPanic /\ phase = closeResourcesReleased =>
         \/ cs
         \/ /\ "close" \in events
            /\ pc[Stopper] = "c_claim" \/ queued > 0 \/ rejected > 0 \/ hp
    /\ pc[Stopper] \in {"s_drain", "s_done"} =>
         /\ ~published
         /\ isReleased
            \/ pc[Registrar] \in {"g_start", "g_note", "g_acquire", "g_close"}

\* What a goroutine knows where it is.
Knows(p) ==
    /\ pc[p] \in {"d_claim", "d_taken", "d_spin", "d_wait", "d_retry",
                  "d_release", "h_begun", "h_drop", "h_left"} => isClosing
    /\ pc[p] \in {"d_flush", "fire", "c_fold", "c_claim"} => isReleased
    /\ pc[p] \in {"n_check", "n_fold"} => arg[p] \subseteq {"io", "teardown"}
    /\ pc[p] = "d_spin" => ioStop
    /\ p = Stopper => pc[p] \notin {"d_wait", "d_retry", "fire"}
    /\ ~MayPanic /\ pc[p] = "c_fold" => p = Stopper

\* The invariant.
LInv ==
    /\ CallsOK(\E q \in Procs : Opener(q), \E q \in Procs : Closer(q))
    /\ StagesOK
    /\ EventsOK(\E q \in Procs : Claimer(q))
    /\ TeardownOK(\E q \in Procs : Claimer(q), \E q \in Procs : Noter(q),
                  \E q \in Procs : Tearer(q), \E q \in Procs : Retrier(q))
    /\ DeliverOK(\E q \in Procs : Claimer(q), \E q \in Procs : Closer(q),
                 \E q \in Procs : Scheduler(q))
    /\ PassOK(\E q \in Procs : Closer(q), \E q \in Procs : Flusher(q),
              \E q \in Procs : Refuser(q))
    /\ \A q \in Procs : Knows(q)

----------------------------------------------------------------------------
(* Duties, as one step sees them: a debt passes from one goroutine to       *)
(* another, so a step of p is looked at against the duties of the others,   *)
(* which it cannot change: the parameters ow, cl ... below.                 *)

\* Nobody owns the task while it is queued or while p owns it; ow says whether
\* somebody other than p does.
TaskAlone(p, ow) ==
    /\ ow => claimed /\ queued = 0 /\ rejected = 0 /\ ~Owns(p)
    /\ Owns(p) => claimed /\ queued = 0 /\ rejected = 0

\* The shutdown pass has the connection to itself.
SolePass(p, ow) ==
    inPass => /\ ~ow /\ claimed = FALSE /\ queued = 0 /\ rejected = 0
              /\ p # Stopper => ~Counted(p) /\ pc[p] # "n_claim"

\* What p finds while the connection is being registered.
Unregistered(p) ==
    /\ count = 0 => ~Counted(Registrar)
    /\ pc[Registrar] \in gLabels =>
         /\ opens = 0 /\ ~inPass /\ queued = 0 /\ rejected = 0
         /\ p \in Producers \cup Workers => pc[p] \in nLabels \cup {"idle"}
    /\ pc[Registrar] \in fLabels =>
         /\ ~published /\ claimed = (pc[Registrar] = "g_put")
         /\ p \in Producers \cup Workers => pc[p] = "idle"

\* A goroutine on its way to OnClose owns the task, or is the pass.
Alone(p, ow, cs) == cs => ow \/ (inPass /\ p # Stopper)

\* What a step of p may rely on.
Known(p, ow) ==
    /\ Before(p) /\ TypeOK /\ Joined /\ Knows(p)
    /\ ReturnOK(pc[p], ret[p]) /\ PlaceOK(p, pc[p], ret[p])
    /\ TaskAlone(p, ow) /\ SolePass(p, ow) /\ Unregistered(p)

\* A step of the life cycle.
LifeStep == Lifecycle!Next \/ UNCHANGED <<phase, opens, closes>>

\* What holds before a step of p; the parameters are the duties of the others.
Owed(p, ow, cl, no, te, re, op, cs, fl, sc, hp) ==
    /\ ow \in BOOLEAN /\ cl \in BOOLEAN /\ no \in BOOLEAN /\ te \in BOOLEAN
    /\ re \in BOOLEAN /\ op \in BOOLEAN /\ cs \in BOOLEAN /\ fl \in BOOLEAN
    /\ sc \in BOOLEAN /\ hp \in BOOLEAN
    /\ Known(p, ow) /\ Alone(p, ow, cs)
    /\ op \/ re \/ hp => ow
    /\ fl => cs
    /\ StagesOK
    /\ CallsOK(op \/ Opener(p), cs \/ Closer(p))
    /\ EventsOK(cl \/ Claimer(p))
    /\ TeardownOK(cl \/ Claimer(p), no \/ Noter(p),
                  te \/ Tearer(p), re \/ Retrier(p))
    /\ DeliverOK(cl \/ Claimer(p), cs \/ Closer(p), sc \/ Scheduler(p))
    /\ PassOK(cs \/ Closer(p), fl \/ Flusher(p), hp \/ Refuser(p))

\* ... and after it: the phase only advances, the loop does not restart, p
\* arrives where what it must know holds, and every debt has its duty.
Kept(p, ow, cl, no, te, re, op, cs, fl, sc, hp) ==
    /\ phase' >= phase /\ (ioStop => ioStop') /\ Knows(p)'
    /\ LifeStep
    /\ StagesOK'
    /\ CallsOK(op \/ Opener(p), cs \/ Closer(p))'
    /\ EventsOK(cl \/ Claimer(p))'
    /\ TeardownOK(cl \/ Claimer(p), no \/ Noter(p),
                  te \/ Tearer(p), re \/ Retrier(p))'
    /\ DeliverOK(cl \/ Claimer(p), cs \/ Closer(p), sc \/ Scheduler(p))'
    /\ PassOK(cs \/ Closer(p), fl \/ Flusher(p), hp \/ Refuser(p))'

============================================================================

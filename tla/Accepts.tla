------------------------------- MODULE Accepts ------------------------------
(***************************************************************************)
(* Accepting on the stream listeners of one event loop: waiters collect a  *)
(* listener's edge and hand it to the loop's accept runner, the runner     *)
(* accepts in batches until the socket would block, a shortage of          *)
(* descriptors pauses a listener behind a timer, and Listener.Close and    *)
(* the shutdown retire it.  The poller is edge-triggered: it reports an    *)
(* arrival on a watched listener, or a backlog found when the watch begins,*)
(* once.                                                                   *)
(***************************************************************************)
EXTENDS Naturals, FiniteSets

CONSTANTS
    Listeners, Waiters,
    acceptBatchSize,
    Settings   \* records: how many connections arrive at a listener (none at one the
               \* loop does not have), the listeners closed, how often a shortage
               \* begins, whether an accept may fail, and whether the loop shuts down

VARIABLES
    opt,
    lis,     \* per listener: backlog, watch, edge, acceptState, pause, gate, descriptor
    kick,    \* the runner's channel of one
    runner,  \* the runner: its place, the round's listeners, the batch, and more
    call,    \* what waiters and resume callbacks are doing
    closer,  \* Listener.Close per listener
    env      \* connections still to arrive, the shortage, and the shutdown

vars == <<opt, lis, kick, runner, call, closer, env>>

None == "none"
Callers == Waiters \cup Listeners  \* a listener's pause timer runs one callback at a time

Init ==
    /\ opt \in Settings
    /\ lis = [l \in Listeners |->
          [backlog |-> 0, listed |-> FALSE, watched |-> FALSE, edge |-> FALSE, state |-> "idle",
           paused |-> FALSE, timers |-> 0, users |-> 0, retired |-> FALSE, fd |-> "open"]]
    /\ kick = FALSE
    /\ runner = [pc |-> "wait", todo |-> {}, l |-> None, n |-> 0, more |-> FALSE]
    /\ call = [w \in Callers |-> [pc |-> "idle", l |-> None]]
    /\ closer = [l \in Listeners |-> "idle"]
    /\ env = [arrive |-> opt.arrivals, short |-> FALSE, shorts |-> opt.shortages,
              failed |-> FALSE, stop |-> "run"]

-----------------------------------------------------------------------------
(* The poller (external) and the peers.                                    *)

\* Register: nothing is reported for a descriptor already registered.
watchListener(f) ==
    IF f.watched THEN f ELSE [f EXCEPT !.watched = TRUE, !.edge = f.backlog > 0]

Removed(f) == [f EXCEPT !.watched = FALSE, !.edge = FALSE]

Arrive(l) ==
    /\ env.arrive[l] > 0 /\ lis[l].fd = "open"
    /\ env' = [env EXCEPT !.arrive[l] = @ - 1]
    /\ lis' = [lis EXCEPT ![l].backlog = @ + 1, ![l].edge = @ \/ lis[l].watched]
    /\ UNCHANGED <<opt, kick, runner, call, closer>>

Shortage ==
    /\ IF env.short THEN env' = [env EXCEPT !.short = FALSE]
       ELSE env.shorts > 0 /\ env' = [env EXCEPT !.short = TRUE, !.shorts = @ - 1]
    /\ UNCHANGED <<opt, lis, kick, runner, call, closer>>

-----------------------------------------------------------------------------
(* Starting, and the waiters.                                              *)

\* addListener, for startAccepting or a Listen while Serve runs; a watch that
\* fails takes the listener out again and, at the start, closes the Events.
addListener(l) ==
    /\ opt.arrivals[l] > 0 /\ ~lis[l].listed /\ closer[l] = "idle" /\ env.stop = "run" /\ ~env.failed
    /\ \/ /\ lis' = [lis EXCEPT ![l] = watchListener([lis[l] EXCEPT !.listed = TRUE])]
          /\ UNCHANGED env
       \/ /\ opt.errors
          /\ env' = [env EXCEPT !.failed = TRUE]
          /\ UNCHANGED lis
    /\ UNCHANGED <<opt, kick, runner, call, closer>>

\* A waiter collects an edge and looks its listener up.
Collect(w, l) ==
    /\ call[w].pc = "idle" /\ lis[l].edge /\ env.stop = "run"
    /\ lis' = [lis EXCEPT ![l].edge = FALSE]
    /\ call' = [call EXCEPT ![w] = IF lis[l].listed THEN [pc |-> "handOff", l |-> l] ELSE @]
    /\ UNCHANGED <<opt, kick, runner, closer, env>>

\* Mutant: an edge during an accept is dropped.
HandedIdle(s) == "running"

\* The state handOff moves a listener to.
Handed(s) == IF s = "idle" THEN "running" ELSE "again"

\* handOff's compare-and-swap loop.
handOff(w) ==
    /\ call[w].pc = "handOff"
    /\ LET l == call[w].l
       IN  /\ lis' = [lis EXCEPT ![l].state = Handed(@)]
           /\ call' = [call EXCEPT ![w].pc = IF lis[l].state = "idle" THEN "kick" ELSE "leave"]
    /\ UNCHANGED <<opt, kick, runner, closer, env>>

Kick(w) ==
    /\ call[w].pc = "kick"
    /\ kick' = TRUE
    /\ call' = [call EXCEPT ![w].pc = "leave"]
    /\ UNCHANGED <<opt, lis, runner, closer, env>>

\* A resume callback leaves the gate.
Leave(w) ==
    /\ call[w].pc = "leave"
    /\ call' = [call EXCEPT ![w] = [pc |-> "idle", l |-> None]]
    /\ lis' = IF w \in Listeners THEN [lis EXCEPT ![w].users = @ - 1] ELSE lis
    /\ UNCHANGED <<opt, kick, runner, closer, env>>

-----------------------------------------------------------------------------
(* The runner.                                                             *)

\* A kick, or the end of one round, starts a round over the loop's listeners.
Round ==
    /\ \/ runner.pc = "wait" /\ kick /\ kick' = FALSE
       \/ runner.pc = "each" /\ runner.todo = {} /\ runner.more /\ UNCHANGED kick
    /\ runner' = IF env.stop # "run" THEN [runner EXCEPT !.pc = "done"]
                 ELSE [runner EXCEPT !.pc = "each", !.todo = {l \in Listeners : lis[l].listed}, !.more = FALSE]
    /\ UNCHANGED <<opt, lis, call, closer, env>>

\* No listener has more.
RoundsEnd ==
    /\ runner.pc = "each" /\ runner.todo = {} /\ ~runner.more
    /\ runner' = [runner EXCEPT !.pc = IF env.stop # "run" THEN "done" ELSE "wait"]
    /\ UNCHANGED <<opt, lis, kick, call, closer, env>>

\* acceptBatch enters the gate of the next listener handed over.
Enter(l) ==
    /\ runner.pc = "each" /\ l \in runner.todo
    /\ runner' = IF lis[l].state = "idle" THEN [runner EXCEPT !.todo = @ \ {l}]
                 ELSE [runner EXCEPT !.todo = @ \ {l}, !.l = l, !.n = 0,
                                     !.pc = IF lis[l].retired THEN "settle" ELSE "accept"]
    /\ lis' = IF lis[l].state # "idle" /\ ~lis[l].retired THEN [lis EXCEPT ![l].users = @ + 1] ELSE lis
    /\ UNCHANGED <<opt, kick, call, closer, env>>

\* One accept: a connection, or one that is gone again.
AcceptOne ==
    /\ runner.pc = "accept" /\ runner.n < acceptBatchSize
    /\ lis[runner.l].backlog > 0 /\ ~env.short
    /\ lis' = [lis EXCEPT ![runner.l].backlog = @ - 1]
    /\ runner' = [runner EXCEPT !.n = @ + 1]
    /\ UNCHANGED <<opt, kick, call, closer, env>>

\* The batch ends at its bound.
BatchFull ==
    /\ runner.pc = "accept" /\ runner.n = acceptBatchSize
    /\ lis' = [lis EXCEPT ![runner.l].users = @ - 1]
    /\ runner' = [runner EXCEPT !.pc = "each", !.l = None, !.more = TRUE]
    /\ UNCHANGED <<opt, kick, call, closer, env>>

WouldBlock ==
    /\ runner.pc = "accept" /\ runner.n < acceptBatchSize
    /\ lis[runner.l].backlog = 0
    /\ lis' = [lis EXCEPT ![runner.l].users = @ - 1]
    /\ runner' = [runner EXCEPT !.pc = "settle"]
    /\ UNCHANGED <<opt, kick, call, closer, env>>

\* Any other error closes the Events.
AcceptFails ==
    /\ runner.pc = "accept" /\ runner.n < acceptBatchSize /\ opt.errors
    /\ lis' = [lis EXCEPT ![runner.l].users = @ - 1]
    /\ runner' = [runner EXCEPT !.pc = "settle"]
    /\ env' = [env EXCEPT !.failed = TRUE]
    /\ UNCHANGED <<opt, kick, call, closer>>

\* pauseAccept's claim; a listener already paused has its timer.
pauseAccept ==
    /\ runner.pc = "accept" /\ runner.n < acceptBatchSize
    /\ lis[runner.l].backlog > 0 /\ env.short
    /\ IF lis[runner.l].paused
       THEN /\ runner' = [runner EXCEPT !.pc = "settle"]
            /\ lis' = [lis EXCEPT ![runner.l].users = @ - 1]
       ELSE /\ runner' = [runner EXCEPT !.pc = "unwatch"]
            /\ lis' = [lis EXCEPT ![runner.l].paused = TRUE]
    /\ UNCHANGED <<opt, kick, call, closer, env>>

\* Its removal from the poller and its timer.
Unwatch ==
    /\ runner.pc = "unwatch"
    /\ LET f == lis[runner.l]
       IN  lis' = [lis EXCEPT ![runner.l] = [Removed(f) EXCEPT !.timers = f.timers + 1, !.users = f.users - 1]]
    /\ runner' = [runner EXCEPT !.pc = "settle"]
    /\ UNCHANGED <<opt, kick, call, closer, env>>

\* The end of acceptBatch: idle until the next edge, unless one came meanwhile.
Settle ==
    /\ runner.pc = "settle"
    /\ LET again == lis[runner.l].state = "again"
       IN  /\ lis' = [lis EXCEPT ![runner.l].state = IF again THEN "running" ELSE "idle"]
           /\ runner' = [runner EXCEPT !.pc = "each", !.l = None, !.more = @ \/ again]
    /\ UNCHANGED <<opt, kick, call, closer, env>>

-----------------------------------------------------------------------------
(* The pause's end: resumeAccept on the timer's goroutine.                 *)

ResumeEnter(l) ==
    /\ call[l].pc = "idle" /\ lis[l].timers > 0
    /\ lis' = [lis EXCEPT ![l].timers = @ - 1, ![l].users = IF lis[l].retired THEN @ ELSE @ + 1,
                          ![l].paused = @ /\ lis[l].retired]
    /\ call' = IF lis[l].retired THEN call ELSE [call EXCEPT ![l] = [pc |-> "watch", l |-> l]]
    /\ UNCHANGED <<opt, kick, runner, closer, env>>

\* A listener still in the loop is watched and handed to the runner.
ResumeWatch(l) ==
    /\ call[l].pc = "watch"
    /\ lis' = IF lis[l].listed THEN [lis EXCEPT ![l] = watchListener(lis[l])] ELSE lis
    /\ call' = [call EXCEPT ![l].pc = IF lis[l].listed THEN "handOff" ELSE "leave"]
    /\ UNCHANGED <<opt, kick, runner, closer, env>>

-----------------------------------------------------------------------------
(* Closing.                                                                *)

\* stopLocked: the listener leaves the loop and the poller, its gate closes.
removeListener(l) ==
    /\ closer[l] = "idle" /\ l \in opt.closes /\ env.stop # "done"
    /\ lis' = [lis EXCEPT ![l] = [Removed(lis[l]) EXCEPT !.listed = FALSE, !.retired = lis[l].listed]]
    /\ closer' = [closer EXCEPT ![l] = "retire"]
    /\ UNCHANGED <<opt, kick, runner, call, env>>

\* retire waits for the users in progress, then closeListener.
retire(l) ==
    /\ closer[l] = "retire" /\ lis[l].users = 0
    /\ lis' = [lis EXCEPT ![l].fd = "closed", ![l].backlog = 0]
    /\ closer' = [closer EXCEPT ![l] = "done"]
    /\ UNCHANGED <<opt, kick, runner, call, env>>

\* acceptRunner.stop, once the waiters have returned.
Stop ==
    /\ env.stop = "run" /\ (opt.stops \/ env.failed)
    /\ \A w \in Waiters : call[w].pc = "idle"
    /\ env' = [env EXCEPT !.stop = "join"]
    /\ kick' = TRUE
    /\ UNCHANGED <<opt, lis, runner, call, closer>>

\* acceptor.close after the runner returned: every listener left.  It takes
\* the mutex a Listener.Close holds until its listener is closed.
CloseAll ==
    /\ env.stop = "join" /\ runner.pc = "done"
    /\ \A l \in Listeners : closer[l] # "retire"
    /\ env' = [env EXCEPT !.stop = "done"]
    /\ lis' = [l \in Listeners |-> IF closer[l] = "idle" THEN [lis[l] EXCEPT !.fd = "closed", !.backlog = 0]
                                   ELSE lis[l]]
    /\ UNCHANGED <<opt, kick, runner, call, closer>>

\* Stopped, or waiting for the next connection.
Resting ==
    /\ \/ env.stop = "done"
       \/ /\ env.stop = "run" /\ runner.pc = "wait" /\ ~kick
          /\ \A w \in Callers : call[w].pc = "idle"
          /\ \A l \in Listeners : closer[l] # "retire"
    /\ UNCHANGED vars

Next ==
    \/ Shortage \/ Round \/ RoundsEnd \/ AcceptOne \/ BatchFull \/ WouldBlock \/ AcceptFails
    \/ pauseAccept \/ Unwatch \/ Settle \/ Stop \/ CloseAll \/ Resting
    \/ \E l \in Listeners :
          \/ Arrive(l) \/ addListener(l) \/ Enter(l) \/ ResumeEnter(l) \/ ResumeWatch(l)
          \/ removeListener(l) \/ retire(l)
          \/ \E w \in Waiters : Collect(w, l)
    \/ \E w \in Callers : handOff(w) \/ Kick(w) \/ Leave(w)

Spec == Init /\ [][Next]_vars

-----------------------------------------------------------------------------
(* Properties                                                              *)

\* The runner's current or next round comes to l.
Comes(l) ==
    \/ kick \/ \E w \in Callers : call[w] = [pc |-> "kick", l |-> l]
    \/ runner.pc # "wait" /\ (runner.more \/ l \in runner.todo)
    \/ runner.l = l /\ (runner.pc = "accept" \/ lis[l].state = "again")

\* A connection waiting in the backlog of a listener that accepts is on its
\* way to be accepted: its edge is not collected yet, or is being handed over,
\* or the runner comes to the listener, or a pause's timer will.
BacklogTaken ==
    \A l \in Listeners :
        lis[l].backlog > 0 /\ lis[l].listed /\ env.stop = "run" /\ ~env.failed =>
            \/ lis[l].edge
            \/ \E w \in Callers : call[w].l = l /\ call[w].pc \in {"handOff", "watch"}
            \/ lis[l].timers > 0 \/ (runner.l = l /\ runner.pc = "unwatch")
            \/ lis[l].state # "idle" /\ Comes(l)

\* Nobody accepts on, or watches, a descriptor that is closed: its number may
\* be another socket's.  The pollers are closed before the shutdown's close.
NoStaleUse ==
    \A l \in Listeners :
        lis[l].fd = "closed" =>
            /\ ~(runner.l = l /\ runner.pc \in {"accept", "unwatch"})
            /\ call[l].pc = "watch" /\ lis[l].listed => env.stop = "done"

\* The shutdown leaves no listener open, whichever of them were closed, paused
\* or being accepted on when it began.
AllClosed == env.stop = "done" => \A l \in Listeners : lis[l].fd = "closed"
=============================================================================

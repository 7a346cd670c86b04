----------------------------- MODULE MCServices -----------------------------
(***************************************************************************)
(* The services under the connections: the worker pool, and with it the    *)
(* wake timers and the timing wheel, deadlines, accepting, and the closer  *)
(* of descriptors, each checked on its own: part says which one a behaviour *)
(* is of.                                                                  *)
(***************************************************************************)
EXTENDS ShardPool, TLC

CONSTANTS
    t1, t2,                      \* tasks of the pool
    e1, e2, Entries, v1, v2, Polling,  \* connections with wake timers, and the waiters of their loop
    Callbacks,                   \* deadline callbacks
    l1, l2, Listeners, Collectors, \* listeners, and the waiters that collect their edges
    Fds                          \* descriptor numbers

Two(ts, os) == [shards |-> {0, 1}, max |-> 1, tasks |-> ts, options |-> os]
One(ts, os) == [shards |-> {0}, max |-> 2, tasks |-> ts, options |-> os]
PoolSettings ==
    LET Few == {t1, t2}
    IN  {Two(Few, {"stop", "goexit"}), Two(Few, {"behind", "block"}),
         One(Few, {"stop", "goexit", "retire"}), One(Few, {"behind"}),
         One(Few, {"rescue"}), One(Tasks, {"stop", "batch"})}

T(ds, is, sa, sb, ws, cs, f, u) ==
    [deadlines |-> ds, intervals |-> is, sets |-> (e1 :> sa @@ e2 :> sb), waiters |-> ws, closes |-> cs,
     fallback |-> f, until |-> u]
WakeSettings ==
    {T({2, 7}, {}, 2, 1, {v1}, {}, FALSE, 7),
     T({1, 8}, {3}, 1, 1, {v1}, {e2}, FALSE, 5),
     T({2}, {3}, 1, 0, {v1, v2}, {e1}, TRUE, 6),
     T({0}, {2}, 2, 0, {v1}, {e1}, FALSE, 5)}

A(m, n, cs, s, e, f) ==
    [arrivals |-> (l1 :> m @@ l2 :> n), closes |-> cs, shortages |-> s, errors |-> e, stops |-> f]
AcceptSettings ==
    {A(2, 1, {}, 0, FALSE, FALSE), A(2, 0, {l1}, 2, FALSE, FALSE),
     A(1, 0, {l1}, 1, TRUE, TRUE), A(1, 1, {l2}, 0, FALSE, TRUE)}

VARIABLES
    part, opt, now, wheel, kernel, rtimer, wake, setter, waiter, dl, cb, conn, cause, sets, lis, kick,
    runner, call, closer, env, fd, queue, open, hands, at, opens

allVars == <<part, opt, now, wheel, kernel, rtimer, wake, setter, waiter, dl, cb, conn, cause, sets, lis,
             kick, runner, call, closer, env, fd, queue, open, hands, at, opens, vars>>

Wake == INSTANCE WakeTimers WITH Settings <- WakeSettings, Waiters <- Polling, Tick <- 2, Buckets <- 3, MaxNow <- 9
Deadline == INSTANCE Deadlines WITH MaxSets <- 2, MaxNow <- 3
Accept == INSTANCE Accepts WITH Settings <- AcceptSettings, Waiters <- Collectors, acceptBatchSize <- 1
Closer == INSTANCE LoopCloser WITH MaxOpens <- 5

\* A variable the part does not have.
Off == "off"

PartInit ==
    \/ /\ part = "pool" /\ Init
       /\ opt = Off /\ now = Off /\ wheel = Off /\ kernel = Off /\ rtimer = Off /\ wake = Off
       /\ setter = Off /\ waiter = Off /\ dl = Off /\ cb = Off /\ conn = Off /\ cause = Off
       /\ sets = Off /\ lis = Off /\ kick = Off /\ runner = Off /\ call = Off /\ closer = Off
       /\ env = Off /\ fd = Off /\ queue = Off /\ open = Off /\ hands = Off /\ at = Off /\ opens = Off
    \/ /\ part = "wake" /\ Wake!Init
       /\ conf = Off /\ sh = Off /\ wk = Off /\ pool = Off /\ jobs = Off /\ st = Off /\ dl = Off
       /\ cb = Off /\ conn = Off /\ cause = Off /\ sets = Off /\ lis = Off /\ kick = Off
       /\ runner = Off /\ call = Off /\ closer = Off /\ env = Off /\ fd = Off /\ queue = Off
       /\ open = Off /\ hands = Off /\ at = Off /\ opens = Off
    \/ /\ part = "deadline" /\ Deadline!Init
       /\ conf = Off /\ sh = Off /\ wk = Off /\ pool = Off /\ jobs = Off /\ st = Off /\ opt = Off
       /\ wheel = Off /\ kernel = Off /\ rtimer = Off /\ wake = Off /\ setter = Off /\ waiter = Off
       /\ lis = Off /\ kick = Off /\ runner = Off /\ call = Off /\ closer = Off /\ env = Off
       /\ fd = Off /\ queue = Off /\ open = Off /\ hands = Off /\ at = Off /\ opens = Off
    \/ /\ part = "accept" /\ Accept!Init
       /\ conf = Off /\ sh = Off /\ wk = Off /\ pool = Off /\ jobs = Off /\ st = Off /\ now = Off
       /\ wheel = Off /\ kernel = Off /\ rtimer = Off /\ wake = Off /\ setter = Off /\ waiter = Off
       /\ dl = Off /\ cb = Off /\ conn = Off /\ cause = Off /\ sets = Off /\ fd = Off
       /\ queue = Off /\ open = Off /\ hands = Off /\ at = Off /\ opens = Off
    \/ /\ part = "closer" /\ Closer!Init
       /\ conf = Off /\ sh = Off /\ wk = Off /\ pool = Off /\ jobs = Off /\ st = Off /\ opt = Off
       /\ now = Off /\ wheel = Off /\ kernel = Off /\ rtimer = Off /\ wake = Off /\ setter = Off
       /\ waiter = Off /\ dl = Off /\ cb = Off /\ conn = Off /\ cause = Off /\ sets = Off
       /\ lis = Off /\ runner = Off /\ call = Off /\ closer = Off /\ env = Off

PoolNext ==
    /\ part = "pool" /\ Next
    /\ UNCHANGED <<part, opt, now, wheel, kernel, rtimer, wake, setter, waiter, dl, cb, conn,
                   cause, sets, lis, kick, runner, call, closer, env, fd, queue, open, hands, at,
                   opens>>

WakeNext ==
    /\ part = "wake" /\ Wake!Next
    /\ UNCHANGED <<part, conf, sh, wk, pool, jobs, st, dl, cb, conn, cause, sets, lis, kick,
                   runner, call, closer, env, fd, queue, open, hands, at, opens>>

DeadlineNext ==
    /\ part = "deadline" /\ Deadline!Next
    /\ UNCHANGED <<part, conf, sh, wk, pool, jobs, st, opt, wheel, kernel, rtimer, wake, setter,
                   waiter, lis, kick, runner, call, closer, env, fd, queue, open, hands, at, opens>>

AcceptNext ==
    /\ part = "accept" /\ Accept!Next
    /\ UNCHANGED <<part, conf, sh, wk, pool, jobs, st, now, wheel, kernel, rtimer, wake, setter,
                   waiter, dl, cb, conn, cause, sets, fd, queue, open, hands, at, opens>>

CloserNext ==
    /\ part = "closer" /\ Closer!Next
    /\ UNCHANGED <<part, conf, sh, wk, pool, jobs, st, opt, now, wheel, kernel, rtimer, wake,
                   setter, waiter, dl, cb, conn, cause, sets, lis, runner, call, closer, env>>

PartNext == PoolNext \/ WakeNext \/ DeadlineNext \/ AcceptNext \/ CloserNext

PartSpec == PartInit /\ [][PartNext]_allVars

-----------------------------------------------------------------------------
(* Properties                                                              *)

\* A queued task has a worker that takes it or a monitor that will: no wake-up
\* comes before the task it is for and is lost.
PoolWakes == part = "pool" => NoLostWakeup

\* A stopped pool has run every task, and its counters of workers coming and
\* running say the truth all along.
PoolStops == part = "pool" => StopComplete /\ CountersExact

\* No timer is lost: an armed wake timer has its loop's wait or a runtime timer
\* to come, a deadline that stands has a callback to come, and no wheel holds
\* the entry of a released connection.
TimersKept ==
    /\ part = "wake" => Wake!TimerCovers /\ Wake!MirrorCovered /\ Wake!ReleasedFree
    /\ part = "deadline" => Deadline!DeadlineKept


\* A connection in the backlog of an open listener has its acceptor: an edge, a
\* parked retry or a runner that will look again.
BacklogTaken == part = "accept" => Accept!BacklogTaken


Symmetry == Permutations(Workers) \cup Permutations(Monitors)
=============================================================================

------------------------------ MODULE ShardPool ------------------------------
(***************************************************************************)
(* The worker pool (internal/shardpool): tasks are queued on shards, and a *)
(* shard's queue is drained by workers that park when they find nothing.   *)
(* Nobody holds a lock while they look for each other: a submitter makes   *)
(* its task visible and then looks for a worker (notify), a worker makes   *)
(* itself visible as idle and then looks for a task (park), and counters   *)
(* (coming, running) tell submitters that a worker will look anyway.  When *)
(* a shard has no worker left, another shard's worker serves it, and when  *)
(* there is none anywhere the pool is marked starving for the next worker  *)
(* that parks.                                                             *)
(*                                                                         *)
(* Every action is one atomic access or one critical section of a shard's  *)
(* mutex.  A queue is the sequence of cells between head and tail; a cell  *)
(* is claimed before its task is written.                                  *)
(***************************************************************************)
EXTENDS Integers, Sequences, FiniteSets, SequencesExt

CONSTANTS
    Settings,    \* the pools a run explores, as records of
                 \*   shards: its shards, numbered;
                 \*   max: MaxWorkers, the bound on a shard's live workers;
                 \*   tasks: the tasks that are submitted;
                 \*   options: what else happens
    Capacity,    \* the cells of a queue
    Workers,     \* the goroutines that workers are
    Tasks,       \* a task that found no cell gets a goroutine, named after it
    Submitters,  \* the goroutines that submit
    Monitors,    \* the goroutines that the monitor is
    Rescuer, Stopper,
    Blocking,    \* the tasks that do not end where "block" is an option
    MaxRescues   \* bound: the workers that Rescue brings

Procs == Workers \cup Tasks \cup Submitters \cup Monitors \cup {Rescuer, Stopper}
Nobody == "nobody"
Nowhere == -1  \* a worker's channel is empty,
Away == -2     \* or tells it to exit

VARIABLES
    conf,  \* the pool's setting
    sh,    \* a shard's queue, its head, the counts of workers coming and
           \* running, its idle workers and the number of its live ones
    wk,    \* a worker's home shard and its wake channel
    pool,  \* the flags starving, stopped and watching, the workers Stop took
           \* from a shard, and the scans in which Rescue brought a worker
    jobs,  \* who submits a task, and how often it ran
    st     \* a goroutine's place and return addresses, the shard it works for,
           \* the head it loaded, the shards left to try and to notify, the
           \* task it took, and the heads a monitor saw in its last tick

Shards == conf.shards
MaxWorkers == conf.max
Option(o) == o \in conf.options

vars == <<conf, sh, wk, pool, jobs, st>>

At(p, l) == st[p].pc = l
Target(p) == st[p].target
Go(p, l) == st' = [st EXCEPT ![p].pc = l]
Call(p, l, rs) == st' = [st EXCEPT ![p].pc = l, ![p].ret = rs \o @]
Return(p) == st' = [st EXCEPT ![p].pc = Head(st[p].ret), ![p].ret = Tail(@)]

Idle == [pc |-> "off", ret |-> <<>>, target |-> Nowhere, look |-> 0, try |-> {},
         visit |-> {}, hand |-> Nobody, heads |-> [s \in Shards |-> 0], found |-> FALSE]
Rest(p, l) == st' = [st EXCEPT ![p] = [Idle EXCEPT !.pc = l]]

Ready(s) == sh[s].queue # <<>> /\ Head(sh[s].queue).ready

\* hasTask loads head, ...
Look(p, s, l, rs) ==
    st' = [st EXCEPT ![p].pc = l, ![p].ret = rs \o @, ![p].target = s,
                     ![p].look = sh[s].head]
\* ... then the cell there.  If head moved meanwhile, the cell's number is that
\* of a later lap, or not stored yet.
Sees(p) == IF sh[Target(p)].head = st[p].look THEN {Ready(Target(p))} ELSE BOOLEAN

-----------------------------------------------------------------------------
(* notify: while there is a task and nobody is coming, find a worker.      *)

notify(p, s, r) == Look(p, s, "n_seq", <<r>>)

notifyAgain(p) ==
    /\ At(p, "n_look") /\ Look(p, Target(p), "n_seq", <<>>)
    /\ UNCHANGED <<conf, sh, wk, pool, jobs>>

notifySeq(p) ==
    /\ At(p, "n_seq")
    /\ \E has \in Sees(p) :
         st' = [st EXCEPT ![p].pc = IF has THEN "n_coming" ELSE Head(st[p].ret),
                          ![p].ret = IF has THEN @ ELSE Tail(@), ![p].look = 0]
    /\ UNCHANGED <<conf, sh, wk, pool, jobs>>

notifyComing(p) ==
    /\ At(p, "n_coming")
    /\ IF sh[Target(p)].coming = 0
       THEN Call(p, "b_wake", <<"n_drop">>) /\ sh' = [sh EXCEPT ![Target(p)].coming = 1]
       ELSE Return(p) /\ UNCHANGED sh
    /\ UNCHANGED <<conf, wk, pool, jobs>>

\* Nobody was found.  The count goes before starving is set, and idle workers
\* are looked for after.
notifyDrop(p) ==
    /\ At(p, "n_drop") /\ Go(p, "n_starve")
    /\ sh' = [sh EXCEPT ![Target(p)].coming = @ - 1]
    /\ UNCHANGED <<conf, wk, pool, jobs>>

notifyStarve(p) ==
    /\ At(p, "n_starve")
    /\ pool' = [pool EXCEPT !.starving = TRUE]
    /\ st' = [st EXCEPT ![p].pc = "n_idle", ![p].try = Shards]
    /\ UNCHANGED <<conf, sh, wk, jobs>>

\* Mutant: idle workers are not looked for again.
hasIdleNever(p) == At(p, "n_idle") /\ Return(p) /\ UNCHANGED <<conf, sh, wk, pool, jobs>>

hasIdle(p) ==
    /\ At(p, "n_idle")
    /\ IF st[p].try = {} THEN Return(p)
       ELSE \E s \in st[p].try :
              st' = [st EXCEPT ![p].try = IF sh[s].idle = <<>> THEN @ \ {s} ELSE {},
                               ![p].pc = IF sh[s].idle = <<>> THEN @ ELSE "n_look"]
    /\ UNCHANGED <<conf, sh, wk, pool, jobs>>

-----------------------------------------------------------------------------
(* wakeIdle, start and borrow bring a worker.  First on ret is the address *)
(* for failure, behind it the one for success.                             *)

Found(p) == [st EXCEPT ![p].pc = st[p].ret[2], ![p].try = {},
                       ![p].ret = SubSeq(@, 3, Len(@))]

\* The most recently parked worker of s serves the target.
wakeIdle(p, s) ==
    /\ sh[s].idle # <<>>
    /\ sh' = [sh EXCEPT ![s].idle = Front(@)]
    /\ wk' = [wk EXCEPT ![Last(sh[s].idle)].wake = Target(p)]
    /\ st' = Found(p)

\* A new worker of s, unless s has its maximum or the pool stopped.
full(s) == sh[s].live >= MaxWorkers \/ pool.stopped
start(p, s) ==
    /\ ~full(s)
    /\ \E w \in Workers :
         /\ At(w, "off")
         /\ sh' = [sh EXCEPT ![s].live = @ + 1]
         /\ wk' = [wk EXCEPT ![w].home = s]
         /\ st' = [Found(p) EXCEPT ![w].pc = "w_arrive", ![w].target = Target(p)]

bringWake(p) ==
    /\ At(p, "b_wake")
    /\ \/ wakeIdle(p, Target(p))
       \/ sh[Target(p)].idle = <<>> /\ Go(p, "b_start") /\ UNCHANGED <<conf, sh, wk>>
    /\ UNCHANGED <<conf, pool, jobs>>

bringStart(p) ==
    /\ At(p, "b_start")
    /\ \/ start(p, Target(p))
       \/ /\ full(Target(p)) /\ UNCHANGED <<conf, sh, wk>>
          /\ st' = [st EXCEPT ![p].pc = "b_idle", ![p].try = Shards \ {Target(p)}]
    /\ UNCHANGED <<conf, pool, jobs>>

\* borrow: an idle worker of another shard, ...
borrowIdle(p) ==
    /\ At(p, "b_idle")
    /\ \/ \E s \in st[p].try :
            \/ wakeIdle(p, s)
            \/ /\ sh[s].idle = <<>> /\ UNCHANGED <<conf, sh, wk>>
               /\ st' = [st EXCEPT ![p].try = @ \ {s}]
       \/ /\ st[p].try = {} /\ UNCHANGED <<conf, sh, wk>>
          /\ st' = [st EXCEPT ![p].pc = "b_new", ![p].try = Shards \ {Target(p)}]
    /\ UNCHANGED <<conf, pool, jobs>>

\* ... or a new one in a shard with room.
borrowNew(p) ==
    /\ At(p, "b_new")
    /\ \/ \E s \in st[p].try :
            \/ start(p, s)
            \/ full(s) /\ st' = [st EXCEPT ![p].try = @ \ {s}] /\ UNCHANGED <<conf, sh, wk>>
       \/ st[p].try = {} /\ Return(p) /\ UNCHANGED <<conf, sh, wk>>
    /\ UNCHANGED <<conf, pool, jobs>>

Notify(p) == notifyAgain(p) \/ notifySeq(p) \/ notifyComing(p) \/ notifyDrop(p)
             \/ notifyStarve(p) \/ hasIdle(p)
Bring(p) == bringWake(p) \/ bringStart(p) \/ borrowIdle(p) \/ borrowNew(p)

\* A loop that notifies the shards of st[p].visit in turn.
Lowest(S) == CHOOSE s \in S : \A r \in S : s <= r
NotifyNext(p) ==
    LET s == Lowest(st[p].visit)
    IN  st' = [st EXCEPT ![p].visit = @ \ {s}, ![p].target = s, ![p].look = sh[s].head,
                         ![p].ret = <<st[p].pc>> \o @, ![p].pc = "n_seq"]

-----------------------------------------------------------------------------
(* Submitting                                                              *)

\* A call for some new tasks; callers do not submit once Stop was called.
Submit(p, ts, how) ==
    /\ p \in Submitters /\ At(p, "idle") /\ At(Stopper, "idle")
    /\ \A t \in ts : jobs[t].by = Nobody
    /\ jobs' = [t \in Tasks |-> IF t \in ts THEN [jobs[t] EXCEPT !.by = p] ELSE jobs[t]]
    /\ Go(p, how)
    /\ UNCHANGED <<conf, sh, wk, pool>>

\* push claims a cell, unless the one at the tail still holds the task of the
\* lap before or is just being emptied.  runOverflow gives a task without a cell
\* a goroutine.
emptying(s) == {p \in Workers \cup Tasks : /\ Target(p) = s
                                           /\ At(p, "w_more") \/ (At(p, "o_run") /\ st[p].hand # p)}
push(p, t, s) ==
    /\ st[p].pc \in {"u_push", "u_behind"} /\ jobs[t].by = p
    /\ \/ /\ Len(sh[s].queue) < Capacity
          /\ sh' = [sh EXCEPT ![s].queue = Append(@, [task |-> t, ready |-> FALSE])]
          /\ st' = [st EXCEPT ![p].target = s, ![p].hand = t, ![p].pc = "u_write",
                              ![p].ret = <<st[p].pc>> \o @]
          /\ UNCHANGED <<conf, jobs>>
       \/ /\ Len(sh[s].queue) + Cardinality(emptying(s)) >= Capacity
          /\ st' = [st EXCEPT ![t].target = s, ![t].hand = t, ![t].pc = "o_run"]
          /\ jobs' = [jobs EXCEPT ![t].by = "pool"]
          /\ UNCHANGED sh
    /\ UNCHANGED <<conf, wk, pool>>

\* The task is written and its cell published.
pushWrite(p) ==
    /\ At(p, "u_write")
    /\ LET s == Target(p)
       IN  /\ sh' = [sh EXCEPT ![s].queue = [i \in DOMAIN @ |->
                       [@[i] EXCEPT !.ready = @ \/ sh[s].queue[i].task = st[p].hand]]]
           /\ st' = [st EXCEPT ![p].visit = @ \cup {s}, ![p].hand = Nobody,
                               ![p].pc = Head(st[p].ret), ![p].ret = Tail(@)]
    /\ jobs' = [jobs EXCEPT ![st[p].hand].by = "pool"]
    /\ UNCHANGED <<conf, wk, pool>>

\* Every task is queued: each shard that got one is notified, once.
queuedAll(p) == \A t \in Tasks : jobs[t].by # p
submitNotify(p) ==
    /\ At(p, "u_push") /\ queuedAll(p)
    /\ IF st[p].visit = {} THEN Rest(p, "idle") ELSE NotifyNext(p)
    /\ UNCHANGED <<conf, sh, wk, pool, jobs>>

\* notifyBehind: a worker that drains the shard takes the task after its own,
\* unless that does not end, which the monitor sees.
notifyBehind(p) ==
    /\ At(p, "u_behind") /\ queuedAll(p)
    /\ Go(p, IF st[p].visit # {} /\ sh[Target(p)].running > 0 THEN "u_watch" ELSE "u_push")
    /\ UNCHANGED <<conf, sh, wk, pool, jobs>>

\* watch starts the monitor unless it runs.
watch(p) ==
    /\ At(p, "u_watch")
    /\ \/ pool.watching /\ Rest(p, "idle") /\ UNCHANGED pool
       \/ /\ ~pool.watching /\ pool' = [pool EXCEPT !.watching = TRUE]
          /\ \E m \in Monitors :
               /\ At(m, "off")
               /\ st' = [st EXCEPT ![p] = [Idle EXCEPT !.pc = "idle"], ![m].pc = "m_init"]
    /\ UNCHANGED <<conf, sh, wk, jobs>>

Submitting(p) == (\E t \in Tasks, s \in Shards : push(p, t, s)) \/ pushWrite(p)
                 \/ submitNotify(p) \/ notifyBehind(p) \/ watch(p)

-----------------------------------------------------------------------------
(* A worker's run: it serves its target, then parks in its home shard.     *)

arrive(w) ==
    /\ At(w, "w_arrive") /\ Go(w, "w_arrived")
    /\ sh' = [sh EXCEPT ![Target(w)].running = @ + 1]
    /\ UNCHANGED <<conf, wk, pool, jobs>>

arrived(w) ==
    /\ At(w, "w_arrived") /\ Go(w, "w_pop")
    /\ sh' = [sh EXCEPT ![Target(w)].coming = @ - 1]
    /\ UNCHANGED <<conf, wk, pool, jobs>>

\* pop by p, whose next place is l with a task and e without.
pop(p, l, e) ==
    LET s == Target(p)
    IN  IF Ready(s)
        THEN /\ sh' = [sh EXCEPT ![s].queue = Tail(@), ![s].head = @ + 1]
             /\ st' = [st EXCEPT ![p].pc = l, ![p].hand = Head(sh[s].queue).task]
        ELSE Go(p, e) /\ UNCHANGED sh

workerPop(w) ==
    /\ At(w, "w_pop") /\ pop(w, "w_more", "w_leave")
    /\ UNCHANGED <<conf, wk, pool, jobs>>

\* The tasks behind the one taken get a worker of their own first.
workerMore(w) ==
    /\ At(w, "w_more") /\ notify(w, Target(w), "w_run")
    /\ UNCHANGED <<conf, sh, wk, pool, jobs>>

\* The pool's run of the task in hand; a blocking one holds its goroutine.
run(p, l) ==
    LET t == st[p].hand
    IN  /\ jobs' = [jobs EXCEPT ![t].runs = @ + 1]
        /\ st' = [st EXCEPT ![p].hand = Nobody, ![p].pc = IF t \in Blocking /\ Option("block") THEN "stuck" ELSE l]

workerRun(w) ==
    /\ At(w, "w_run")
    /\ \/ run(w, "w_pop")
       \/ Option("goexit") /\ run(w, "w_goexit")
    /\ UNCHANGED <<conf, sh, wk, pool>>

\* runtime.Goexit in the task: the replacement is counted first.
goexit(w) ==
    /\ At(w, "w_goexit") /\ Go(w, "w_replace")
    /\ sh' = [sh EXCEPT ![Target(w)].coming = @ + 1]
    /\ UNCHANGED <<conf, wk, pool, jobs>>

replace(w) ==
    /\ At(w, "w_replace") /\ Go(w, "w_arrive")
    /\ sh' = [sh EXCEPT ![Target(w)].running = @ - 1]
    /\ UNCHANGED <<conf, wk, pool, jobs>>

leave(w) ==
    /\ At(w, "w_leave") /\ Go(w, "w_left")
    /\ sh' = [sh EXCEPT ![Target(w)].running = @ - 1]
    /\ UNCHANGED <<conf, wk, pool, jobs>>

\* A submitter that saw this worker running left its task to it.
left(w) ==
    /\ At(w, "w_left") /\ notify(w, Target(w), "w_park")
    /\ UNCHANGED <<conf, sh, wk, pool, jobs>>

\* park: the worker exits if the pool stopped, else it registers as idle.
park(w) ==
    LET h == wk[w].home
    IN  /\ At(w, "w_park")
        /\ IF pool.stopped
           THEN sh' = [sh EXCEPT ![h].live = @ - 1] /\ Rest(w, "off")
           ELSE sh' = [sh EXCEPT ![h].idle = Append(@, w)] /\ Go(w, "w_parked")
        /\ UNCHANGED <<conf, wk, pool, jobs>>

\* A task queued before the worker was visible as idle found nobody.
parked(w) ==
    /\ At(w, "w_parked") /\ notify(w, wk[w].home, "w_starve")
    /\ UNCHANGED <<conf, sh, wk, pool, jobs>>

\* The worker that clears starving notifies every shard.
feed(w) ==
    /\ At(w, "w_starve")
    /\ pool' = [pool EXCEPT !.starving = FALSE]
    /\ IF pool.starving THEN st' = [st EXCEPT ![w].pc = "w_feed", ![w].visit = Shards]
       ELSE Rest(w, "w_wait")
    /\ UNCHANGED <<conf, sh, wk, jobs>>

feedNext(w) ==
    /\ At(w, "w_feed")
    /\ IF st[w].visit = {} THEN Rest(w, "w_wait") ELSE NotifyNext(w)
    /\ UNCHANGED <<conf, sh, wk, pool, jobs>>

\* The worker receives the shard to serve, or that it is retired.
wait(w) ==
    /\ At(w, "w_wait") /\ wk[w].wake # Nowhere
    /\ st' = [st EXCEPT ![w] = IF wk[w].wake = Away THEN Idle
                               ELSE [Idle EXCEPT !.pc = "w_arrive", !.target = wk[w].wake]]
    /\ wk' = [wk EXCEPT ![w].wake = Nowhere]
    /\ UNCHANGED <<conf, sh, pool, jobs>>

Working(w) == arrive(w) \/ arrived(w) \/ workerPop(w) \/ workerMore(w) \/ workerRun(w)
              \/ goexit(w) \/ replace(w) \/ leave(w) \/ left(w) \/ park(w) \/ parked(w)
              \/ feed(w) \/ feedNext(w) \/ wait(w)

\* overflow runs its task and what it finds queued.
overflowRun(t) ==
    /\ At(t, "o_run") /\ run(t, "o_pop")
    /\ UNCHANGED <<conf, sh, wk, pool>>

overflowPop(t) ==
    /\ At(t, "o_pop") /\ pop(t, "o_run", "off")
    /\ UNCHANGED <<conf, wk, pool, jobs>>

Overflowing(t) == overflowRun(t) \/ overflowPop(t)

-----------------------------------------------------------------------------
(* The monitor, Rescue and the janitor                                     *)

monitorInit(m) ==
    /\ At(m, "m_init")
    /\ st' = [st EXCEPT ![m].heads = [s \in Shards |-> sh[s].head], ![m].pc = "m_tick"]
    /\ UNCHANGED <<conf, sh, wk, pool, jobs>>

monitorTick(m) ==
    /\ At(m, "m_tick")
    /\ \/ /\ st' = [st EXCEPT ![m].pc = "m_shard", ![m].visit = Shards, ![m].found = FALSE]
          /\ UNCHANGED pool
       \/ /\ pool.stopped /\ Rest(m, "off")
          /\ pool' = [pool EXCEPT !.watching = FALSE]
    /\ UNCHANGED <<conf, sh, wk, jobs>>

\* The tick's load of head and hasTask's own are one.
monitorShard(m) ==
    /\ At(m, "m_shard") /\ st[m].visit # {}
    /\ Look(m, Lowest(st[m].visit), "m_seq", <<>>)
    /\ UNCHANGED <<conf, sh, wk, pool, jobs>>

\* A task was queued through the whole tick: the shard gets a worker.
monitorSeq(m) ==
    LET s == Target(m)
        next == [st[m] EXCEPT !.heads[s] = st[m].look, !.visit = @ \ {s}, !.pc = "m_shard"]
    IN  /\ At(m, "m_seq")
        /\ \E has \in Sees(m) :
             st' = [st EXCEPT ![m] =
               IF ~has THEN next
               ELSE IF st[m].look # st[m].heads[s] THEN [next EXCEPT !.found = TRUE]
               ELSE [next EXCEPT !.found = TRUE, !.pc = "n_look", !.ret = <<"m_shard">>]]
        /\ UNCHANGED <<conf, sh, wk, pool, jobs>>

\* After a tick that found nothing queued the monitor may stop: watchIdleTicks
\* such ticks are abstracted to any number.
monitorEnd(m) ==
    /\ At(m, "m_shard") /\ st[m].visit = {}
    /\ \/ Go(m, "m_tick") /\ UNCHANGED pool
       \/ /\ ~st[m].found /\ pool' = [pool EXCEPT !.watching = FALSE]
          /\ st' = [st EXCEPT ![m].pc = "m_again", ![m].visit = Shards]
    /\ UNCHANGED <<conf, sh, wk, jobs>>

\* anyQueued: a submitter may have seen the flag still set.
monitorAgain(m) ==
    /\ At(m, "m_again")
    /\ IF st[m].visit = {} THEN Rest(m, "off")
       ELSE Look(m, Lowest(st[m].visit), "m_any", <<>>)
    /\ UNCHANGED <<conf, sh, wk, pool, jobs>>

monitorAny(m) ==
    /\ At(m, "m_any")
    /\ \E has \in Sees(m) :
         st' = [st EXCEPT ![m].pc = IF has THEN "m_claim" ELSE "m_again",
                          ![m].visit = @ \ {Target(m)}]
    /\ UNCHANGED <<conf, sh, wk, pool, jobs>>

monitorClaim(m) ==
    /\ At(m, "m_claim") /\ pool' = [pool EXCEPT !.watching = TRUE]
    /\ st' = [st EXCEPT ![m] = IF pool.watching THEN Idle
                               ELSE [Idle EXCEPT !.pc = "m_tick", !.heads = st[m].heads]]
    /\ UNCHANGED <<conf, sh, wk, jobs>>

Monitoring(m) == monitorInit(m) \/ monitorTick(m) \/ monitorShard(m) \/ monitorSeq(m)
                 \/ monitorEnd(m) \/ monitorAgain(m) \/ monitorAny(m) \/ monitorClaim(m)

\* Rescue's scan of one shard finds a task queued, no worker draining it and one
\* that has not arrived.  That the queue stalled through rescueStalls scans is
\* left to chance, and what a scan reads it reads in one step: all of it may be
\* stale when the scan acts on it.
rescueLook(s) ==
    /\ Option("rescue") /\ At(Rescuer, "idle") /\ pool.rescues < MaxRescues
    /\ Ready(s) /\ sh[s].running = 0 /\ sh[s].coming # 0
    /\ st' = [st EXCEPT ![Rescuer].pc = "r_add", ![Rescuer].target = s]
    /\ pool' = [pool EXCEPT !.rescues = @ + 1]
    /\ UNCHANGED <<conf, sh, wk, jobs>>

rescueAdd ==
    /\ At(Rescuer, "r_add") /\ Call(Rescuer, "b_wake", <<"r_drop", "idle">>)
    /\ sh' = [sh EXCEPT ![Target(Rescuer)].coming = @ + 1]
    /\ UNCHANGED <<conf, wk, pool, jobs>>

\* Submitters skipped their notify while the count was raised.
rescueDrop ==
    /\ At(Rescuer, "r_drop") /\ Call(Rescuer, "n_look", <<"idle">>)
    /\ sh' = [sh EXCEPT ![Target(Rescuer)].coming = @ - 1]
    /\ UNCHANGED <<conf, wk, pool, jobs>>

Rescue == rescueAdd \/ rescueDrop \/ Notify(Rescuer) \/ Bring(Rescuer)

\* retireIdle sends the longest parked away, keeping one.
retireIdle(s) ==
    /\ Option("retire")
    /\ \E n \in 1..(Len(sh[s].idle) - 1) :
         LET away == {sh[s].idle[i] : i \in 1..n}
         IN  /\ sh' = [sh EXCEPT ![s].idle = SubSeq(@, n + 1, Len(@)), ![s].live = @ - n]
             /\ wk' = [w \in Workers |->
                         IF w \in away THEN [wk[w] EXCEPT !.wake = Away] ELSE wk[w]]
    /\ UNCHANGED <<conf, pool, jobs, st>>

-----------------------------------------------------------------------------
(* Stop, which no call of Submit overlaps                                  *)

Stop ==
    /\ Option("stop") /\ At(Stopper, "idle")
    /\ \A p \in Submitters : At(p, "idle")
    /\ pool' = [pool EXCEPT !.stopped = TRUE]
    /\ st' = [st EXCEPT ![Stopper].pc = "p_shard", ![Stopper].visit = Shards]
    /\ UNCHANGED <<conf, sh, wk, jobs>>

\* The parked workers of a shard are taken, ...
stopShard ==
    /\ At(Stopper, "p_shard")
    /\ IF st[Stopper].visit = {} THEN Go(Stopper, "p_wait") /\ UNCHANGED <<conf, sh, pool>>
       ELSE LET s == Lowest(st[Stopper].visit)
            IN  /\ sh' = [sh EXCEPT ![s].idle = <<>>]
                /\ pool' = [pool EXCEPT !.parked = sh[s].idle]
                /\ st' = [st EXCEPT ![Stopper].visit = @ \ {s}, ![Stopper].target = s,
                                    ![Stopper].pc = "p_wake"]
    /\ UNCHANGED <<conf, wk, jobs>>

\* ... and one after the other sent to drain it.
stopWake ==
    /\ At(Stopper, "p_wake")
    /\ IF pool.parked = <<>> THEN Go(Stopper, "p_shard") /\ UNCHANGED <<conf, sh, wk, pool>>
       ELSE /\ sh' = [sh EXCEPT ![Target(Stopper)].coming = @ + 1]
            /\ wk' = [wk EXCEPT ![Head(pool.parked)].wake = Target(Stopper)]
            /\ pool' = [pool EXCEPT !.parked = Tail(@)]
            /\ UNCHANGED st
    /\ UNCHANGED <<conf, jobs>>

\* Mutant: the goroutines of tasks without a cell are not waited for.
stopWaitWorkers ==
    /\ At(Stopper, "p_wait") /\ \A p \in Workers : At(p, "off")
    /\ st' = [st EXCEPT ![Stopper].pc = "p_drain", ![Stopper].visit = Shards]
    /\ UNCHANGED <<conf, sh, wk, pool, jobs>>

stopWait ==
    /\ At(Stopper, "p_wait") /\ \A p \in Workers \cup Tasks : At(p, "off")
    /\ st' = [st EXCEPT ![Stopper].pc = "p_drain", ![Stopper].visit = Shards]
    /\ UNCHANGED <<conf, sh, wk, pool, jobs>>

\* What is still queued is run by the caller.
stopDrain ==
    /\ At(Stopper, "p_drain")
    /\ st' = IF st[Stopper].visit = {} THEN [st EXCEPT ![Stopper].pc = "p_done"]
             ELSE [st EXCEPT ![Stopper].target = Lowest(st[Stopper].visit), ![Stopper].pc = "p_pop"]
    /\ UNCHANGED <<conf, sh, wk, pool, jobs>>

stopPop ==
    /\ At(Stopper, "p_pop")
    /\ IF Ready(Target(Stopper)) THEN pop(Stopper, "p_run", "p_drain")
       ELSE /\ st' = [st EXCEPT ![Stopper].pc = "p_drain", ![Stopper].visit = @ \ {Target(Stopper)}]
            /\ UNCHANGED sh
    /\ UNCHANGED <<conf, wk, pool, jobs>>

stopRun == At(Stopper, "p_run") /\ run(Stopper, "p_pop") /\ UNCHANGED <<conf, sh, wk, pool>>

Stopping == stopShard \/ stopWake \/ stopWait \/ stopDrain \/ stopPop \/ stopRun

-----------------------------------------------------------------------------
Init ==
    /\ conf \in Settings
    /\ sh = [s \in Shards |-> [queue |-> <<>>, head |-> 0, coming |-> 0, running |-> 0,
                               idle |-> <<>>, live |-> 0]]
    /\ wk = [w \in Workers |-> [home |-> Nowhere, wake |-> Nowhere]]
    /\ pool = [starving |-> FALSE, stopped |-> FALSE, watching |-> FALSE, parked |-> <<>>,
               rescues |-> 0]
    /\ jobs = [t \in Tasks |-> [by |-> Nobody, runs |-> 0]]
    /\ st = [p \in Procs |-> [Idle EXCEPT !.pc =
               IF p \in Submitters \cup {Rescuer, Stopper} THEN "idle" ELSE "off"]]

Step(p) ==
    \/ p \in Submitters /\ Submitting(p)
    \/ p \in Workers /\ Working(p)
    \/ p \in Tasks /\ Overflowing(p)
    \/ p \in Monitors /\ Monitoring(p)
    \/ p \in Submitters \cup Workers \cup Monitors /\ (Notify(p) \/ Bring(p))
    \/ p = Rescuer /\ Rescue
    \/ p = Stopper /\ Stopping

Submits(p) ==
    \/ ~Option("batch") /\ \E t \in conf.tasks : Submit(p, {t}, "u_push")
    \/ Option("behind") /\ \E t \in conf.tasks : Submit(p, {t}, "u_behind")
    \/ Option("batch") /\ Submit(p, conf.tasks, "u_push")

\* Everyone rests: nobody is in the middle of a call.
Quiet ==
    /\ \A p \in Workers : st[p].pc \in {"off", "stuck"} \/ (At(p, "w_wait") /\ wk[p].wake = Nowhere)
    /\ \A p \in Tasks \cup Monitors : st[p].pc \in {"off", "stuck", "m_tick"}
    /\ \A p \in Submitters \cup {Rescuer} : At(p, "idle")
    /\ st[Stopper].pc \in {"idle", "p_done"}

Resting == Quiet /\ UNCHANGED vars

Next ==
    \/ \E p \in Procs : Step(p) \/ Submits(p)
    \/ \E s \in Shards : rescueLook(s) \/ retireIdle(s)
    \/ Stop \/ Resting

Spec == Init /\ [][Next]_vars

-----------------------------------------------------------------------------
(* Properties                                                              *)

\* The variables have their types, and no counter is negative.
TypeOK ==
    /\ \A s \in Shards :
         /\ \A i \in DOMAIN sh[s].queue : sh[s].queue[i] \in [task : Tasks, ready : BOOLEAN]
         /\ {sh[s].head, sh[s].coming, sh[s].running, sh[s].live} \subseteq Nat
         /\ sh[s].live <= MaxWorkers /\ Len(sh[s].queue) <= Capacity
         /\ \A i \in DOMAIN sh[s].idle : sh[s].idle[i] \in Workers
    /\ wk \in [Workers -> [home : Shards \cup {Nowhere}, wake : Shards \cup {Nowhere, Away}]]
    /\ \A i \in DOMAIN pool.parked : pool.parked[i] \in Workers
    /\ /\ {pool.starving, pool.stopped, pool.watching} \subseteq BOOLEAN
    /\ \A t \in Tasks : jobs[t].by \in Submitters \cup {Nobody, "pool"} /\ jobs[t].runs \in Nat
    /\ \A p \in Procs : Target(p) \in Shards \cup {Nowhere} /\ st[p].hand \in Tasks \cup {Nobody}

Serving(p) == "w_run" \in Range(st[p].ret)
Bringing(p, s) ==
    Target(p) = s /\ st[p].pc \in {"w_arrive", "w_arrived", "w_replace", "n_drop", "r_drop",
                                   "b_wake", "b_start", "b_idle", "b_new"}
Running(w, s) ==
    /\ Target(w) = s
    /\ \/ st[w].pc \in {"w_arrived", "w_pop", "w_more", "w_run", "w_goexit", "w_replace", "w_leave", "stuck"}
       \/ Serving(w)

\* A shard's counters say the truth at every moment: coming is the number of
\* workers on their way to its queue and of goroutines that still look for one,
\* running the number of its workers between arrival and leaving.  notify,
\* Rescue, Goexit and Stop hand the counts over without a lock, and a count that
\* stayed too high would end all notification of the shard.
CountersExact ==
    \A s \in Shards :
      /\ sh[s].coming = Cardinality({w \in Workers : wk[w].wake = s})
                        + Cardinality({p \in Procs : Bringing(p, s)})
      /\ sh[s].running = Cardinality({w \in Workers : Running(w, s)})

\* "No wakeup is lost": when everyone rests, a queue holds tasks only if no
\* worker is idle or could be started anywhere, in which case starving is set
\* for the next one that parks, or if the monitor runs and will see them.
NoLostWakeup ==
    Quiet /\ At(Stopper, "idle") => \A s \in Shards : sh[s].queue # <<>> =>
      \/ pool.watching /\ \E m \in Monitors : At(m, "m_tick")
      \/ /\ \A r \in Shards : sh[r].idle = <<>> /\ sh[r].live = MaxWorkers
         /\ pool.starving

\* When Stop returns every task submitted has run once, and no worker or overflow
\* goroutine is left.
StopComplete ==
    At(Stopper, "p_done") =>
      /\ \A t \in Tasks : jobs[t].by # Nobody => jobs[t].runs = 1
      /\ \A p \in Workers \cup Tasks : At(p, "off")
=============================================================================

----------------------------- MODULE WakeTimers -----------------------------
(***************************************************************************)
(* The wake timers of one event loop: SetWakeDeadline and SetWakeInterval  *)
(* on any goroutine, the loop's wheel with the kernel timer (or the        *)
(* runtime timer that stands in for it) aimed at its earliest deadline,    *)
(* the waiters that advance the wheel, the turn that consumes a            *)
(* connection's mirror of its deadline, and the close that cancels it.     *)
(* Each connection owns one entry of the wheel.                            *)
(***************************************************************************)
EXTENDS TimeWheel

CONSTANTS
    Waiters,
    Settings,  \* records: the calls SetWakeDeadline(now + d) and SetWakeInterval(i) may
               \* make, d possibly negative, and how many a connection makes; the waiters
               \* that run; who closes; whether arming the kernel timer may fail; the
               \* last time modelled
    MaxNow

VARIABLES
    opt,
    now,
    wheel,
    kernel,  \* when the kernel timer expires, 0 disarmed
    rtimer,  \* the same of the fallback runtime timer
    wake,    \* per connection: the mirror, whether a Wake is owed, and the close
    setter,  \* per connection: the setter under way, and how many ran
    waiter   \* per waiter: the time it took and the due entries it still has to wake

vars == <<opt, now, wheel, kernel, rtimer, wake, setter, waiter>>

wakeRetryDelay == 1

Conns == Entries

Init ==
    /\ opt \in Settings
    /\ now = 1
    /\ wheel = New(1)
    /\ kernel = 0 /\ rtimer = 0
    /\ wake = [c \in Conns |-> [armed |-> FALSE, due |-> 0, period |-> 0, owed |-> FALSE, close |-> "open"]]
    /\ setter = [c \in Conns |-> [pc |-> "idle", sets |-> 0]]
    /\ waiter = [p \in Waiters |-> [pc |-> "idle", at |-> 0, due |-> {}]]

isClosing(c) == wake[c].close # "open"

-----------------------------------------------------------------------------
(* The timer behind the wheel.                                             *)

\* When the armed timer expires: a past deadline is retried shortly.
Expiry(when) ==
    IF when = 0 THEN 0 ELSE IF when - now < wakeRetryDelay THEN now + wakeRetryDelay ELSE when

\* armWakeTimerLocked, called when the operation took the earliest anew: the
\* kernel timer, or the runtime timer if that could not be armed.
armWakeTimerLocked(w) ==
    \/ kernel' = Expiry(w.earliest) /\ rtimer' = 0
    \/ opt.fallback /\ rtimer' = Expiry(w.earliest) /\ UNCHANGED kernel

\* Publish the wheel w; told says whether it called its arm callback.
Set(w, told) ==
    /\ wheel' = w
    /\ IF told THEN armWakeTimerLocked(w) ELSE UNCHANGED <<kernel, rtimer>>

\* cancelWakeTimer, for a connection that has armed a timer before.
cancelWakeTimer(c) ==
    /\ wake' = [wake EXCEPT ![c].armed = FALSE]
    /\ Set(Cancel(wheel, c), wheel.when[c] = wheel.earliest /\ wheel.bucket[c] # notInWheel)

armWake(c, when, every) ==
    /\ wake' = [wake EXCEPT ![c].armed = TRUE, ![c].due = when, ![c].period = every]
    /\ Set(Arm(wheel, c, when, every),
           wheel.earliest = 0 \/ when < wheel.earliest \/ wheel.when[c] = wheel.earliest)

-----------------------------------------------------------------------------
(* The setters.                                                            *)

\* The first look at the close flag.
SetterEnter(c) ==
    /\ setter[c].pc = "idle" /\ setter[c].sets < opt.sets[c]
    /\ ~isClosing(c)
    /\ setter' = [setter EXCEPT ![c].pc = "set", ![c].sets = @ + 1]
    /\ UNCHANGED <<opt, now, wheel, kernel, rtimer, wake, waiter>>

SetWakeDeadline(c) ==
    /\ setter[c].pc = "set"
    /\ \E d \in opt.deadlines : now + d > 0 /\ armWake(c, now + d, 0)
    /\ setter' = [setter EXCEPT ![c].pc = "recheck"]
    /\ UNCHANGED <<opt, now, waiter>>

SetWakeInterval(c) ==
    /\ setter[c].pc = "set"
    /\ \E i \in opt.intervals : armWake(c, now + i, i)
    /\ setter' = [setter EXCEPT ![c].pc = "recheck"]
    /\ UNCHANGED <<opt, now, waiter>>

\* A zero time or interval.
SetNone(c) ==
    /\ setter[c].pc = "set"
    /\ cancelWakeTimer(c)
    /\ setter' = [setter EXCEPT ![c].pc = "idle"]
    /\ UNCHANGED <<opt, now, waiter>>

\* Mutant: the arm stands whatever happened meanwhile.
SetterLeave(c) ==
    /\ setter[c].pc = "recheck"
    /\ setter' = [setter EXCEPT ![c].pc = "idle"]
    /\ UNCHANGED <<opt, now, wheel, kernel, rtimer, wake, waiter>>

\* The second look: a setter that lost to the close undoes its arm.
SetterRecheck(c) ==
    /\ setter[c].pc = "recheck"
    /\ setter' = [setter EXCEPT ![c].pc = "idle"]
    /\ IF isClosing(c) THEN cancelWakeTimer(c) ELSE UNCHANGED <<wheel, kernel, rtimer, wake>>
    /\ UNCHANGED <<opt, now, waiter>>

-----------------------------------------------------------------------------
(* The waiters.                                                            *)

\* An expired timer brings a waiter into expireWakeTimers, where it reads the
\* clock before it takes the wheel's mutex.
Expire(p) ==
    /\ waiter[p].pc = "idle" /\ p \in opt.waiters
    /\ \/ kernel # 0 /\ kernel <= now /\ kernel' = 0 /\ UNCHANGED rtimer
       \/ rtimer # 0 /\ rtimer <= now /\ rtimer' = 0 /\ UNCHANGED kernel
    /\ waiter' = [waiter EXCEPT ![p].pc = "advance", ![p].at = now]
    /\ UNCHANGED <<opt, now, wheel, wake, setter>>

Advance(p) ==
    /\ waiter[p].pc = "advance"
    /\ LET a == AdvanceInto(wheel, waiter[p].at)
       IN  /\ Set(a.w, TRUE)
           /\ waiter' = [waiter EXCEPT ![p].pc = IF a.due = {} THEN "idle" ELSE "wake",
                                       ![p].at = 0, ![p].due = a.due]
    /\ UNCHANGED <<opt, now, wake, setter>>

\* The due entries one by one: a closing connection's is cancelled, any
\* other connection is woken.
ExpireOne(p) ==
    /\ waiter[p].pc = "wake"
    /\ \E c \in waiter[p].due :
          /\ waiter' = [waiter EXCEPT ![p].due = @ \ {c}, ![p].pc = IF waiter[p].due = {c} THEN "idle" ELSE "wake"]
          /\ IF isClosing(c)
             THEN /\ Set(Cancel(wheel, c), wheel.when[c] = wheel.earliest /\ wheel.bucket[c] # notInWheel)
                  /\ UNCHANGED wake
             ELSE /\ wake' = [wake EXCEPT ![c].owed = TRUE]
                  /\ UNCHANGED <<wheel, kernel, rtimer>>
    /\ UNCHANGED <<opt, now, setter>>

-----------------------------------------------------------------------------
(* The connection's turn and its close.                                    *)

\* The missed periods are skipped arithmetically.
NextDue(c) == wake[c].due + ((now - wake[c].due) \div wake[c].period + 1) * wake[c].period

\* fireWakeTimer in a turn of the connection, for a Wake owed or any other
\* reason: due is computed against the clock.
Turn(c) ==
    /\ wake[c].close # "released"
    /\ wake[c].owed \/ (wake[c].armed /\ now >= wake[c].due)
    /\ wake' = [wake EXCEPT ![c].owed = FALSE,
          ![c].armed = @ /\ ~(now >= wake[c].due /\ wake[c].period = 0),
          ![c].due = IF wake[c].armed /\ now >= @ /\ wake[c].period > 0 THEN NextDue(c) ELSE @]
    /\ UNCHANGED <<opt, now, wheel, kernel, rtimer, setter, waiter>>

Close(c) ==
    /\ wake[c].close = "open" /\ c \in opt.closes
    /\ wake' = [wake EXCEPT ![c].close = "closing"]
    /\ UNCHANGED <<opt, now, wheel, kernel, rtimer, setter, waiter>>

\* releaseResources, in the closing connection's last turn.
Release(c) ==
    /\ wake[c].close = "closing"
    /\ wake' = [wake EXCEPT ![c].armed = FALSE, ![c].owed = FALSE, ![c].close = "released"]
    /\ Set(Cancel(wheel, c), wheel.when[c] = wheel.earliest /\ wheel.bucket[c] # notInWheel)
    /\ UNCHANGED <<opt, now, setter, waiter>>

Pass ==
    /\ now < opt.until
    /\ now' = now + 1
    /\ UNCHANGED <<opt, wheel, kernel, rtimer, wake, setter, waiter>>

\* The modelled time is over.
Resting ==
    /\ now = opt.until
    /\ \A c \in Conns : setter[c].pc = "idle"
    /\ \A p \in Waiters : waiter[p].pc = "idle"
    /\ UNCHANGED vars

Next ==
    \/ Pass \/ Resting
    \/ \E c \in Conns :
          \/ SetterEnter(c) \/ SetWakeDeadline(c) \/ SetWakeInterval(c) \/ SetNone(c) \/ SetterRecheck(c)
          \/ Turn(c) \/ Close(c) \/ Release(c)
    \/ \E p \in Waiters : Expire(p) \/ Advance(p) \/ ExpireOne(p)

Spec == Init /\ [][Next]_vars

-----------------------------------------------------------------------------
(* Properties                                                              *)

\* Whatever the order of arms, cancels and advances put an entry where, an
\* advance to any time reports exactly the entries whose deadline has passed.
AdvanceExact ==
    \A t \in 1..MaxNow : AdvanceInto(wheel, t).due = {e \in Held(wheel) : wheel.when[e] <= t}

\* The count is the number of entries held and the cached earliest deadline
\* the earliest of theirs: Arm and Cancel skip the scan only when it cannot move.
EarliestTrue ==
    /\ wheel.count = Cardinality(Held(wheel))
    /\ wheel.earliest = IF Held(wheel) = {} THEN 0 ELSE Min(Whens(wheel, Held(wheel)))

\* A wheel that holds a deadline has a timer that will go off by then, or by
\* one retry from now, unless a waiter is about to advance the wheel.
TimerCovers ==
    wheel.earliest # 0 =>
        \/ \E p \in Waiters : waiter[p].pc = "advance"
        \/ \E t \in {kernel, rtimer} \ {0} : t <= Max({wheel.earliest, now + wakeRetryDelay})

\* No armed deadline of an open connection is lost between the wheel and the
\* turn: the wheel holds the entry, no more than a period behind the mirror,
\* or a Wake is owed or on its way.
MirrorCovered ==
    \A c \in Conns :
        wake[c].armed /\ ~isClosing(c) =>
            \/ wake[c].owed \/ \E p \in Waiters : c \in waiter[p].due
            \/ c \in Held(wheel) /\ wheel.when[c] <= wake[c].due + wake[c].period

\* A released connection's entry is in no wheel once the setters that raced
\* the close have returned: a periodic one would wake the loop for ever.
ReleasedFree ==
    \A c \in Conns : wake[c].close = "released" /\ setter[c].pc = "idle" => c \notin Held(wheel)
=============================================================================

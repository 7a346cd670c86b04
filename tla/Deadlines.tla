------------------------------ MODULE Deadlines -----------------------------
(***************************************************************************)
(* SetDeadline, SetReadDeadline and SetWriteDeadline of a connection: a    *)
(* deadline, a generation and a runtime timer per direction, reset by      *)
(* setters on any goroutine, and the timer's callbacks, which run on       *)
(* goroutines of their own: one that fired may look at the state after the *)
(* timer was reset and fired again.                                        *)
(***************************************************************************)
EXTENDS Naturals, FiniteSets, FiniteSetsExt

CONSTANTS
    Callbacks,  \* goroutines for timers that fired
    MaxSets,    \* setter calls
    MaxNow

VARIABLES
    now,
    dl,     \* per kind: the deadline (0 none), its generation, the one the timer
            \* carries, when the timer expires (0 stopped), and the setter's last call
    cb,     \* per callback goroutine: its place, kind and generation
    conn,   \* open, closing or released
    cause,  \* the deadline and the time of the timeout that asked for the close
    sets

vars == <<now, dl, cb, conn, cause, sets>>

Kinds == {"read", "write"}

Init ==
    /\ now = 1
    /\ dl = [k \in Kinds |-> [when |-> 0, gen |-> 0, timerGen |-> 0, timer |-> 0]]
    /\ cb = [g \in Callbacks |-> [pc |-> "idle", kind |-> "read", gen |-> 0]]
    /\ conn = "open"
    /\ cause = [when |-> 0, at |-> 0]
    /\ sets = 0

\* resetDeadlineTimer: a past deadline fires at once.
resetDeadlineTimer(when) == IF when = 0 THEN 0 ELSE Max({when, now})

\* applyDeadline under submitMu, for the kinds a setter names; zero clears.
applyDeadline(ks, when) ==
    dl' = [k \in Kinds |->
        IF k \notin ks THEN dl[k]
        ELSE [when |-> when, gen |-> dl[k].gen + 1, timerGen |-> dl[k].gen + 1,
              timer |-> resetDeadlineTimer(when)]]

\* setDeadline looks at the close flag first and applyDeadline only at the
\* release, so a setter may run on a closing connection.
SetDeadline ==
    /\ sets < MaxSets /\ conn # "released"
    /\ \E ks \in {{"read"}, {"write"}, Kinds}, when \in 0..MaxNow : applyDeadline(ks, when)
    /\ sets' = sets + 1
    /\ UNCHANGED <<now, cb, conn, cause>>

Fire(g, k) ==
    /\ cb[g].pc = "idle"
    /\ dl[k].timer # 0 /\ dl[k].timer <= now
    /\ dl' = [dl EXCEPT ![k].timer = 0]
    /\ cb' = [cb EXCEPT ![g] = [pc |-> "expire", kind |-> k, gen |-> 0]]
    /\ UNCHANGED <<now, conn, cause, sets>>

\* expireDeadline: the generation is the one standing as the callback runs.
expireDeadline(g) ==
    /\ cb[g].pc = "expire"
    /\ cb' = [cb EXCEPT ![g] = IF conn # "open" THEN [@ EXCEPT !.pc = "idle"]
                               ELSE [@ EXCEPT !.pc = "timeout", !.gen = dl[cb[g].kind].timerGen]]
    /\ UNCHANGED <<now, dl, conn, cause, sets>>

\* The deadline the callback is about still stands and has passed.
Stands(g) ==
    /\ cb[g].gen = dl[cb[g].kind].gen
    /\ dl[cb[g].kind].when # 0 /\ now >= dl[cb[g].kind].when

\* handleTimeout up to its decision.
handleTimeout(g) ==
    /\ cb[g].pc = "timeout"
    /\ IF conn = "open" /\ Stands(g)
       THEN /\ cb' = [cb EXCEPT ![g].pc = "close"]
            /\ cause' = IF cause.at = 0 THEN [when |-> dl[cb[g].kind].when, at |-> now] ELSE cause
       ELSE cb' = [cb EXCEPT ![g].pc = "idle"] /\ UNCHANGED cause
    /\ UNCHANGED <<now, dl, conn, sets>>

\* Its requestClose, with the lock released.
TimeoutClose(g) ==
    /\ cb[g].pc = "close"
    /\ conn' = IF conn = "open" THEN "closing" ELSE conn
    /\ cb' = [cb EXCEPT ![g].pc = "idle"]
    /\ UNCHANGED <<now, dl, cause, sets>>

Close ==
    /\ conn = "open"
    /\ conn' = "closing"
    /\ UNCHANGED <<now, dl, cb, cause, sets>>

\* The release, with stopDeadlines in it.
stopDeadlines ==
    /\ conn = "closing"
    /\ conn' = "released"
    /\ dl' = [k \in Kinds |-> [dl[k] EXCEPT !.timer = 0]]
    /\ UNCHANGED <<now, cb, cause, sets>>

Pass ==
    /\ now < MaxNow
    /\ now' = now + 1
    /\ UNCHANGED <<dl, cb, conn, cause, sets>>

\* The modelled time is over.
Resting == now = MaxNow /\ (\A g \in Callbacks : cb[g].pc = "idle") /\ UNCHANGED vars

Next ==
    \/ SetDeadline \/ Close \/ stopDeadlines \/ Pass \/ Resting
    \/ \E g \in Callbacks :
          \/ expireDeadline(g) \/ handleTimeout(g) \/ TimeoutClose(g)
          \/ \E k \in Kinds : Fire(g, k)

Spec == Init /\ [][Next]_vars

-----------------------------------------------------------------------------
(* Properties                                                              *)

\* A timeout closes for a deadline that stood and had passed, also when the
\* callback of an earlier deadline's timer picks up the new generation.
NotEarly == cause.at # 0 => cause.when # 0 /\ cause.at >= cause.when

\* A deadline that stands on an open connection keeps its timer, or has a
\* callback under way that will find it standing and passed: a stale callback
\* never takes the place of the one it needs.
DeadlineKept ==
    \A k \in Kinds :
        conn = "open" /\ dl[k].when # 0 =>
            \/ dl[k].timer # 0
            \/ \E g \in Callbacks :
                  /\ cb[g].kind = k
                  /\ \/ cb[g].pc = "expire" /\ now >= dl[k].when
                     \/ cb[g].pc = "timeout" /\ Stands(g)
                     \/ cb[g].pc = "close"
=============================================================================

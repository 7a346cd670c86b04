------------------------------ MODULE TimeWheel -----------------------------
(***************************************************************************)
(* internal/timewheel: a hashed timing wheel.  A wheel is a record of its  *)
(* entries' places and deadlines, the cursor, the count of the entries     *)
(* held and the cached earliest deadline; its operations run under its     *)
(* mutex and are functions from wheels to wheels.  A slot is the set of    *)
(* the entries whose bucket names it, the overflow heap the set of those   *)
(* marked inOverflow, and its top a member with the least deadline.  Times *)
(* are numbers of steps, a tick is Tick of them, and zero is no time.      *)
(***************************************************************************)
EXTENDS Integers, FiniteSets, FiniteSetsExt, SequencesExt

CONSTANTS Entries, Tick, Buckets

notInWheel == 0
inOverflow == -1

tickOf(t) == t \div Tick

New(now) ==
    [bucket |-> [e \in Entries |-> notInWheel], when |-> [e \in Entries |-> 0],
     period |-> [e \in Entries |-> 0], cursor |-> tickOf(now), count |-> 0, earliest |-> 0]

Held(w) == {e \in Entries : w.bucket[e] # notInWheel}
Slot(w, i) == {e \in Entries : w.bucket[e] = i + 1}
Overflow(w) == {e \in Entries : w.bucket[e] = inOverflow}
Whens(w, es) == {w.when[e] : e \in es}

nextSlotLocked(w) == ((w.cursor % Buckets) + 1) % Buckets

-----------------------------------------------------------------------------
(* Linking.                                                                *)

\* Where linkLocked puts e: past the window on the heap, behind the cursor
\* one tick ahead of it, and otherwise in its own tick's slot.
BucketFor(w, e) ==
    IF tickOf(w.when[e]) - w.cursor > Buckets THEN inOverflow
    ELSE (IF tickOf(w.when[e]) <= w.cursor THEN nextSlotLocked(w)
          ELSE tickOf(w.when[e]) % Buckets) + 1

linkLocked(w, es) == [w EXCEPT !.bucket = [e \in Entries |-> IF e \in es THEN BucketFor(w, e) ELSE @[e]]]

attachLocked(w, es) == [linkLocked(w, es) EXCEPT !.count = @ + Cardinality(es)]

detachLocked(w, e) ==
    IF w.bucket[e] = notInWheel THEN w
    ELSE [w EXCEPT !.bucket[e] = notInWheel, !.count = @ - 1]

\* The first occupied slot in cyclic order from the tick after the cursor.
firstOccupiedLocked(w) ==
    LET occupied == {k \in 0..(Buckets - 1) : Slot(w, (nextSlotLocked(w) + k) % Buckets) # {}}
    IN  IF occupied = {} THEN {} ELSE Slot(w, (nextSlotLocked(w) + Min(occupied)) % Buckets)

rearmEarliestLocked(w) ==
    LET near == Whens(w, firstOccupiedLocked(w) \cup Overflow(w))
    IN  [w EXCEPT !.earliest = IF w.count = 0 \/ near = {} THEN 0 ELSE Min(near)]

-----------------------------------------------------------------------------
(* The operations.                                                         *)

Cancel(w, e) ==
    IF w.when[e] = w.earliest /\ w.bucket[e] # notInWheel
    THEN rearmEarliestLocked(detachLocked(w, e))
    ELSE detachLocked(w, e)


Arm(w, e, when, period) ==
    LET armed == attachLocked([detachLocked(w, e) EXCEPT !.when[e] = when, !.period[e] = period], {e})
    IN  IF w.earliest = 0 \/ when < w.earliest \/ w.when[e] = w.earliest
        THEN rearmEarliestLocked(armed) ELSE armed

\* reportSlotLocked: the slot's due entries leave, the others are linked
\* anew.  a is the wheel and the entries reported so far.
reportSlotLocked(a, i, now) ==
    LET due == {e \in Slot(a.w, i) : a.w.when[e] <= now}
        out == [a.w EXCEPT !.bucket = [e \in Entries |-> IF e \in due THEN notInWheel ELSE @[e]],
                           !.count = @ - Cardinality(due)]
    IN  [w |-> linkLocked(out, Slot(a.w, i) \ due), due |-> a.due \cup due]

\* The cursor's walk: tick by tick, or, over a gap longer than the window,
\* through every slot at once.
Walk(w, now) ==
    LET current == tickOf(now)
        Cross(a, k) == reportSlotLocked([a EXCEPT !.w.cursor = k], k % Buckets, now)
        Sweep(a, i) == reportSlotLocked(a, i, now)
        start == [w |-> w, due |-> {}]
    IN  IF current - w.cursor > Buckets
        THEN LET swept == FoldLeft(Sweep, [start EXCEPT !.w.cursor = current - Buckets],
                                   [i \in 1..Buckets |-> i - 1])
             IN  [swept EXCEPT !.w.cursor = current]
        ELSE FoldLeft(Cross, start, [i \in 1..(IF current > w.cursor THEN current - w.cursor ELSE 0) |-> w.cursor + i])

\* The slot ahead of the cursor holds the deadlines inside the cursor's own
\* tick; it is reported when the cached earliest says one of them is due.
ReportParked(a, now) ==
    IF a.w.count > 0 /\ a.w.earliest # 0 /\ a.w.earliest <= now
    THEN reportSlotLocked(a, nextSlotLocked(a.w), now) ELSE a

\* The overflow entries that are due, or that the window has reached.
Promote(a, now) ==
    LET popped == {e \in Overflow(a.w) :
                      a.w.when[e] <= now \/ tickOf(a.w.when[e]) - a.w.cursor <= Buckets}
        due == {e \in popped : a.w.when[e] <= now}
        out == [a.w EXCEPT !.bucket = [e \in Entries |-> IF e \in popped THEN notInWheel ELSE @[e]],
                           !.count = @ - Cardinality(due)]
    IN  [w |-> linkLocked(out, popped \ due), due |-> a.due \cup due]

\* Periodic entries re-arm from when they were due, or from now when that is past.
Repeat(a, now) ==
    LET again == {e \in a.due : a.w.period[e] > 0}
        Later(e) == IF a.w.when[e] + a.w.period[e] > now THEN a.w.when[e] + a.w.period[e]
                   ELSE now + a.w.period[e]
        rearmed == [a.w EXCEPT !.when = [e \in Entries |-> IF e \in again THEN Later(e) ELSE @[e]]]
    IN  [a EXCEPT !.w = attachLocked(rearmed, again)]

AdvanceInto(w, now) ==
    LET a == Repeat(Promote(ReportParked(Walk(w, now), now), now), now)
    IN  [a EXCEPT !.w = rearmEarliestLocked(a.w)]
=============================================================================

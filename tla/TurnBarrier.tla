---------------------------- MODULE TurnBarrier -----------------------------
(***************************************************************************)
(* The barrier that a loop's shutdown waits at.  The turns of a loop are   *)
(* counted on stripes: the goroutine that schedules a turn counts it on    *)
(* its own stripe, and the goroutine that ends it uncounts it on its own,  *)
(* so a stripe may be negative and only the sum means anything.  The sum   *)
(* is read stripe by stripe while others move.                             *)
(*                                                                         *)
(* stopIO sets ioStop, sums, and waits for ioIdle; from then on every      *)
(* releaseIO sums too, and the one that finds zero closes ioIdle.  Then    *)
(* the shutdown pass counts close callbacks without looking at ioStop      *)
(* (acquireCloseIO), and waitIODrained sums until it finds zero.           *)
(***************************************************************************)
EXTENDS Integers, FiniteSets

CONSTANTS
    Goroutines,  \* they schedule turns and run them
    Stopper,     \* it runs the loop's shutdown
    Stripes,     \* ioStripes
    MaxTurns,    \* bound: turns that are asked for
    MaxClosing,  \* bound: close callbacks the shutdown pass schedules
    MaxLate      \* bound: those that handlers of refused turns schedule

ASSUME BarrierAssumption ==
    /\ Stopper \notin Goroutines /\ IsFiniteSet(Goroutines)
    /\ Stripes \in Nat \ {0}
    /\ MaxTurns \in Nat /\ MaxClosing \in Nat /\ MaxLate \in Nat

Procs == Goroutines \cup {Stopper}
Indices == 0..(Stripes - 1)

VARIABLES
    stripe,   \* the stripe each goroutine's id picks
    ioTurns,  \* the stripes
    stopping, ioStop, ioIdle,
    queued,   \* turns that are submitted and have not begun
    entered,  \* turns asked for so far
    late,     \* close callbacks that handlers have scheduled
    closing,  \* and the shutdown pass
    pc,
    at, turns \* ioTurnCount: the next stripe, and the sum so far

asked == <<entered, late>>
vars == <<stripe, ioTurns, stopping, ioStop, ioIdle, queued, asked,
          closing, pc, at, turns>>
flags == <<stopping, ioStop, ioIdle>>
scan == <<at, turns>>

Labels == {"idle", "enter", "check", "run", "hand", "give", "look", "sum",
           "s_start", "s_stop", "s_sum", "s_wait", "s_pass", "s_drain", "s_done"}

Init ==
    /\ stripe \in [Procs -> Indices]
    /\ ioTurns = [i \in Indices |-> 0]
    /\ stopping = FALSE /\ ioStop = FALSE /\ ioIdle = FALSE
    /\ queued = 0 /\ entered = 0 /\ late = 0 /\ closing = 0
    /\ pc = [p \in Procs |-> IF p = Stopper THEN "s_start" ELSE "idle"]
    /\ at = [p \in Procs |-> 0] /\ turns = [p \in Procs |-> 0]

At(p, l) == pc[p] = l
Go(p, l) == pc' = [pc EXCEPT ![p] = l]
Add(p, n) == ioTurns' = [ioTurns EXCEPT ![stripe[p]] = @ + n]

\* Start to sum from stripe 0, or forget the sum.
Scan(p, l) ==
    /\ Go(p, l)
    /\ at' = [at EXCEPT ![p] = 0] /\ turns' = [turns EXCEPT ![p] = 0]

\* ioTurnCount reads one stripe after the other.
Load(p) ==
    /\ pc[p] \in {"sum", "s_sum", "s_drain"} /\ at[p] < Stripes
    /\ turns' = [turns EXCEPT ![p] = @ + ioTurns[at[p]]]
    /\ at' = [at EXCEPT ![p] = @ + 1]
    /\ UNCHANGED <<asked, stripe, ioTurns, flags, queued, closing, pc>>

----------------------------------------------------------------------------
\* noteIO finds the loop not stopping, or kickWriter its connection not
\* closing, which both become so before stopIO.
Enter(p) ==
    /\ p \in Goroutines /\ At(p, "idle") /\ Go(p, "enter")
    /\ ~stopping /\ entered < MaxTurns /\ entered' = entered + 1
    /\ UNCHANGED <<late, stripe, ioTurns, flags, queued, closing, scan>>

\* acquireIO counts before it checks for shutdown ...
AcquireIO(p) ==
    /\ At(p, "enter") /\ Go(p, "check")
    /\ Add(p, 1)
    /\ UNCHANGED <<asked, stripe, flags, queued, closing, scan>>

\* Mutant: it does not check.
CheckStopBlind(p) ==
    /\ At(p, "check")
    /\ Go(p, "idle") /\ queued' = queued + 1
    /\ UNCHANGED <<asked, stripe, ioTurns, flags, closing, scan>>

\* ... and either submits the turn or gives its count back.
CheckStop(p) ==
    /\ At(p, "check")
    /\ IF ioStop THEN Go(p, "give") /\ UNCHANGED queued
       ELSE Go(p, "idle") /\ queued' = queued + 1
    /\ UNCHANGED <<asked, stripe, ioTurns, flags, closing, scan>>

\* A worker begins a turn; the count comes with it.
Begin(p) ==
    /\ p \in Goroutines /\ At(p, "idle") /\ queued > 0
    /\ queued' = queued - 1 /\ Go(p, "run")
    /\ UNCHANGED <<asked, stripe, ioTurns, flags, closing, scan>>

\* It ends, or goes on in a turn that takes its count over.
End(p) ==
    /\ At(p, "run")
    /\ Go(p, "give") \/ (~ioStop /\ Go(p, "hand"))
    /\ UNCHANGED <<asked, stripe, ioTurns, flags, queued, closing, scan>>

HandOn(p) ==
    /\ At(p, "hand") /\ Go(p, "idle")
    /\ queued' = queued + 1
    /\ UNCHANGED <<asked, stripe, ioTurns, flags, closing, scan>>

\* acquireCloseIO, by the handler of a refused turn before its own release.
LateCloseIO(p) ==
    /\ At(p, "run") /\ Go(p, "give")
    /\ late < MaxLate /\ late' = late + 1
    /\ Add(p, 1) /\ queued' = queued + 1
    /\ UNCHANGED <<entered, stripe, flags, closing, scan>>

\* Mutant: the count does not go back.
ReleaseIOLost(p) ==
    /\ At(p, "give") /\ Go(p, "look")
    /\ UNCHANGED <<asked, stripe, ioTurns, flags, queued, closing, scan>>

\* releaseIO decrements before it sums.
ReleaseIO(p) ==
    /\ At(p, "give") /\ Go(p, "look")
    /\ Add(p, -1)
    /\ UNCHANGED <<asked, stripe, flags, queued, closing, scan>>

ReleaseLook(p) ==
    /\ At(p, "look")
    /\ IF ioStop THEN Scan(p, "sum") ELSE Go(p, "idle") /\ UNCHANGED scan
    /\ UNCHANGED <<asked, stripe, ioTurns, flags, queued, closing>>

\* The release that brings the sum to zero wakes stopIO.
ReleaseWake(p) ==
    /\ At(p, "sum") /\ at[p] = Stripes
    /\ Scan(p, "idle")
    /\ ioIdle' = (ioIdle \/ turns[p] = 0)
    /\ UNCHANGED <<asked, stripe, ioTurns, stopping, ioStop, queued, closing>>

----------------------------------------------------------------------------
\* shutdownLoops and beginShutdown.
Shutdown(p) ==
    /\ p = Stopper /\ At(p, "s_start") /\ Go(p, "s_stop")
    /\ stopping' = TRUE
    /\ UNCHANGED <<asked, stripe, ioTurns, ioStop, ioIdle, queued, closing, scan>>

\* stopIO sets ioStop before it sums.
StopIO(p) ==
    /\ At(p, "s_stop")
    /\ ioStop' = TRUE
    /\ Scan(p, "s_sum")
    /\ UNCHANGED <<asked, stripe, ioTurns, stopping, ioIdle, queued, closing>>

StopSum(p) ==
    /\ At(p, "s_sum") /\ at[p] = Stripes
    /\ Scan(p, "s_wait")
    /\ ioIdle' = (ioIdle \/ turns[p] = 0)
    /\ UNCHANGED <<asked, stripe, ioTurns, stopping, ioStop, queued, closing>>

Joined(p) ==
    /\ At(p, "s_wait") /\ ioIdle
    /\ Go(p, "s_pass")
    /\ UNCHANGED <<asked, stripe, ioTurns, flags, queued, closing, scan>>

\* The pass schedules the close callback of a connection it released.
AcquireCloseIO(p) ==
    /\ At(p, "s_pass") /\ closing < MaxClosing
    /\ Add(p, 1) /\ queued' = queued + 1 /\ closing' = closing + 1
    /\ UNCHANGED <<asked, stripe, flags, pc, scan>>

WaitIODrained(p) ==
    /\ At(p, "s_pass")
    /\ Scan(p, "s_drain")
    /\ UNCHANGED <<asked, stripe, ioTurns, flags, queued, closing>>

\* Mutant: the wait looks at one sum for ever.
DrainedStale(p) ==
    /\ At(p, "s_drain") /\ at[p] = Stripes
    /\ IF turns[p] = 0 THEN Scan(p, "s_done") ELSE UNCHANGED <<pc, scan>>
    /\ UNCHANGED <<asked, stripe, ioTurns, flags, queued, closing>>

\* waitIODrained returns, or sums again.
Drained(p) ==
    /\ At(p, "s_drain") /\ at[p] = Stripes
    /\ Scan(p, IF turns[p] = 0 THEN "s_done" ELSE "s_drain")
    /\ UNCHANGED <<asked, stripe, ioTurns, flags, queued, closing>>

Step(p) ==
    \/ Load(p) \/ AcquireIO(p) \/ CheckStop(p) \/ Begin(p) \/ End(p) \/ HandOn(p)
    \/ LateCloseIO(p) \/ ReleaseIO(p) \/ ReleaseLook(p) \/ ReleaseWake(p)
    \/ StopIO(p) \/ StopSum(p) \/ Joined(p) \/ AcquireCloseIO(p) \/ WaitIODrained(p)
    \/ Drained(p)

Terminated ==
    /\ At(Stopper, "s_done") /\ queued = 0
    /\ \A p \in Goroutines : At(p, "idle")
    /\ UNCHANGED vars

Next ==
    \/ \E p \in Procs : Step(p) \/ Enter(p) \/ Shutdown(p)
    \/ Terminated

Spec == Init /\ [][Next]_vars

\* Every goroutine goes on, and every turn submitted begins.
Fairness ==
    /\ \A p \in Procs : WF_vars(Step(p))
    /\ SF_vars(\E p \in Goroutines : Begin(p))

FairSpec == Spec /\ Fairness

----------------------------------------------------------------------------
\* Goroutines that have a count to give back or to pass on.
held == {p \in Goroutines : pc[p] \in {"check", "run", "hand", "give"}}
running == {p \in Goroutines : pc[p] \in {"run", "hand"}}

\* Every variable has its type; a stripe may be negative.
TypeOK ==
    /\ stripe \in [Procs -> Indices] /\ ioTurns \in [Indices -> Int]
    /\ stopping \in BOOLEAN /\ ioStop \in BOOLEAN /\ ioIdle \in BOOLEAN
    /\ queued \in Nat /\ entered \in 0..MaxTurns
    /\ late \in 0..MaxLate /\ closing \in 0..MaxClosing
    /\ pc \in [Procs -> Labels]
    /\ at \in [Procs -> 0..Stripes] /\ turns \in [Procs -> Int]

\* The sum of the stripes below each.
SumBelow(f) ==
    LET s[k \in 0..Stripes] == IF k = 0 THEN 0 ELSE s[k - 1] + f[k - 1]
    IN  s

\* The stripes add up to the counts that are held, whichever stripes they were
\* taken and given back on.
SumExact == SumBelow(ioTurns)[Stripes] = queued + Cardinality(held)

\* "A sum of zero then means every turn has ended": when stopIO returns, and
\* again when waitIODrained does, no turn runs, is queued or is about to be
\* handed on, though the sum was read stripe by stripe.
BarrierJoins ==
    (At(Stopper, "s_pass") /\ closing = 0) \/ At(Stopper, "s_done")
        => running = {} /\ queued = 0

\* The last turn to end sees every other's end, so that stopIO is woken, and
\* waitIODrained ends.
StopEnds == stopping ~> At(Stopper, "s_done")
=============================================================================

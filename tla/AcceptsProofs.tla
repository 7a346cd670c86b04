---------------------------- MODULE AcceptsProofs ---------------------------
(***************************************************************************)
(* Proofs about accepting, for any number of listeners and waiters and any *)
(* batch size: no connection is left in a backlog, no closed descriptor is *)
(* used, and the shutdown closes every listener.                           *)
(***************************************************************************)
EXTENDS Accepts, Integers, TLAPS

\* What the names stand for: a waiter is no listener's timer, and a setting
\* says how many connections arrive and how many shortages begin.
Instances ==
    /\ None \notin Listeners /\ Waiters \cap Listeners = {}
    /\ \A o \in Settings :
          /\ o.arrivals \in [Listeners -> Nat] /\ o.shortages \in Nat
          /\ o.errors \in BOOLEAN /\ o.stops \in BOOLEAN

-----------------------------------------------------------------------------
(* The inductive invariant.                                                *)

\* What a listener, the runner, a caller and the surroundings consist of.
ListenerState ==
    [backlog : Nat, listed : BOOLEAN, watched : BOOLEAN, edge : BOOLEAN,
     state : {"idle", "running", "again"}, paused : BOOLEAN, timers : Nat,
     users : Int, retired : BOOLEAN, fd : {"open", "closed"}]

RunnerState ==
    [pc : {"wait", "each", "accept", "unwatch", "settle", "done"},
     todo : SUBSET Listeners, l : Listeners \cup {None}, n : Int, more : BOOLEAN]

CallState ==
    [pc : {"idle", "handOff", "kick", "leave", "watch"},
     l : Listeners \cup {None}]

EnvState ==
    [arrive : [Listeners -> Int], short : BOOLEAN, shorts : Int,
     failed : BOOLEAN, stop : {"run", "join", "done"}]

\* The variables have their types.
TypeOK ==
    /\ opt \in Settings
    /\ lis \in [Listeners -> ListenerState]
    /\ kick \in BOOLEAN
    /\ runner \in RunnerState
    /\ call \in [Callers -> CallState]
    /\ closer \in [Listeners -> {"idle", "retire", "done"}]
    /\ env \in EnvState

\* The runner is at listener l, with its gate entered or past it.
Accepting(l) == runner.l = l /\ runner.pc \in {"accept", "unwatch"}

\* Who is where: the runner has a listener while it accepts and settles, a
\* callback its own, and a runner that returned is followed by the shutdown.
PlacesOK ==
    /\ runner.l # None <=> runner.pc \in {"accept", "unwatch", "settle"}
    /\ runner.l # None => lis[runner.l].state # "idle"
    /\ \A l \in Listeners : call[l].pc # "idle" => call[l].l = l
    /\ \A w \in Callers : call[w].pc # "idle" => call[w].l # None
    /\ runner.pc = "done" => env.stop # "run"
    /\ env.stop = "done" => runner.pc = "done"

\* A listener's way through the loop: it is watched while it is listed, a gate
\* closes for a listener that was, one that never was listed has no business
\* with the loop, and the gate counts the runner and the callback in it.
GateOK(l) ==
    /\ lis[l].edge => lis[l].watched
    /\ lis[l].watched => lis[l].listed
    /\ lis[l].listed => ~lis[l].retired /\ closer[l] = "idle"
    /\ lis[l].retired => closer[l] # "idle"
    /\ ~lis[l].listed /\ ~lis[l].retired =>
          /\ lis[l].state = "idle" /\ lis[l].timers = 0 /\ ~lis[l].paused
          /\ \A w \in Callers : call[w].l # l
    /\ lis[l].users = (IF Accepting(l) THEN 1 ELSE 0) + (IF call[l].pc # "idle" THEN 1 ELSE 0)

\* A listener that is not watched has a pause's timer or its callback to come,
\* and a paused one the timer.
PauseOK(l) ==
    lis[l].listed =>
        /\ ~lis[l].watched => lis[l].timers > 0 \/ call[l].pc = "watch"
        /\ lis[l].paused => lis[l].timers > 0 \/ (runner.l = l /\ runner.pc = "unwatch")

\* A listener handed over is the runner's, now or in a round to come.
HandedOK(l) ==
    lis[l].listed /\ env.stop = "run" /\ lis[l].state # "idle" => Comes(l) \/ runner.l = l

\* BacklogTaken without the runner's rounds: the runner that is about to leave
\* a listener idle has seen every connection nobody else will tell it of.
WaitingOK(l) ==
    lis[l].backlog > 0 /\ lis[l].listed /\ env.stop = "run" /\ ~env.failed =>
        \/ lis[l].edge
        \/ \E w \in Callers : call[w].l = l /\ call[w].pc \in {"handOff", "watch"}
        \/ lis[l].timers > 0 \/ (runner.l = l /\ runner.pc = "unwatch")
        \/ lis[l].state = "again"
        \/ lis[l].state = "running" /\ ~(runner.l = l /\ runner.pc = "settle")

\* A descriptor is closed by its Listener.Close, when nobody is in the gate any
\* more, or by the shutdown, which leaves none open.
ClosedOK(l) ==
    /\ closer[l] = "done" => lis[l].fd = "closed" /\ ~Accepting(l)
    /\ lis[l].fd = "closed" => closer[l] = "done" \/ env.stop = "done"
    /\ env.stop = "done" => lis[l].fd = "closed"

IInv ==
    /\ TypeOK /\ PlacesOK
    /\ \A l \in Listeners :
          GateOK(l) /\ PauseOK(l) /\ HandedOK(l) /\ WaitingOK(l) /\ ClosedOK(l)

-----------------------------------------------------------------------------
(* What a step keeps.                                                     *)

\* What a field of a listener may become.
LEMMA ListenerChanges ==
    ASSUME NEW r \in ListenerState
    PROVE  /\ /\ 0 \in Nat /\ r.backlog + 1 \in Nat /\ r.timers + 1 \in Nat
              /\ r.backlog > 0 => r.backlog - 1 \in Nat
              /\ r.timers > 0 => r.timers - 1 \in Nat
              /\ r.users + 1 \in Int /\ r.users - 1 \in Int
           /\ \A v \in Nat : [r EXCEPT !.backlog = v] \in ListenerState
           /\ \A v \in BOOLEAN : [r EXCEPT !.listed = v] \in ListenerState
           /\ \A v \in BOOLEAN : [r EXCEPT !.watched = v] \in ListenerState
           /\ \A v \in BOOLEAN : [r EXCEPT !.edge = v] \in ListenerState
           /\ \A v \in {"idle", "running", "again"} : [r EXCEPT !.state = v] \in ListenerState
           /\ \A v \in BOOLEAN : [r EXCEPT !.paused = v] \in ListenerState
           /\ \A v \in Nat : [r EXCEPT !.timers = v] \in ListenerState
           /\ \A v \in Int : [r EXCEPT !.users = v] \in ListenerState
           /\ \A v \in BOOLEAN : [r EXCEPT !.retired = v] \in ListenerState
           /\ \A v \in {"open", "closed"} : [r EXCEPT !.fd = v] \in ListenerState
<1>1. r.backlog \in Nat /\ r.timers \in Nat /\ r.users \in Int
  BY Zenon DEF ListenerState
<1>2. /\ 0 \in Nat /\ r.backlog + 1 \in Nat /\ r.timers + 1 \in Nat
      /\ r.backlog > 0 => r.backlog - 1 \in Nat
      /\ r.timers > 0 => r.timers - 1 \in Nat
      /\ r.users + 1 \in Int /\ r.users - 1 \in Int
  BY <1>1
<1>3. \A v \in Nat : [r EXCEPT !.backlog = v] \in ListenerState
  BY Zenon DEF ListenerState
<1>4. \A v \in BOOLEAN : [r EXCEPT !.listed = v] \in ListenerState
  BY Zenon DEF ListenerState
<1>5. \A v \in BOOLEAN : [r EXCEPT !.watched = v] \in ListenerState
  BY Zenon DEF ListenerState
<1>6. \A v \in BOOLEAN : [r EXCEPT !.edge = v] \in ListenerState
  BY Zenon DEF ListenerState
<1>7. \A v \in {"idle", "running", "again"} : [r EXCEPT !.state = v] \in ListenerState
  BY Zenon DEF ListenerState
<1>8. \A v \in BOOLEAN : [r EXCEPT !.paused = v] \in ListenerState
  BY Zenon DEF ListenerState
<1>9. \A v \in Nat : [r EXCEPT !.timers = v] \in ListenerState
  BY Zenon DEF ListenerState
<1>10. \A v \in Int : [r EXCEPT !.users = v] \in ListenerState
  BY Zenon DEF ListenerState
<1>11. \A v \in BOOLEAN : [r EXCEPT !.retired = v] \in ListenerState
  BY Zenon DEF ListenerState
<1>12. \A v \in {"open", "closed"} : [r EXCEPT !.fd = v] \in ListenerState
  BY Zenon DEF ListenerState
<1>13. QED
  BY <1>2, <1>3, <1>4, <1>5, <1>6, <1>7, <1>8, <1>9, <1>10, <1>11, <1>12,
     Zenon

\* What a field of the runner may become.
LEMMA RunnerChanges ==
    ASSUME NEW r \in RunnerState
    PROVE  /\ /\ 0 \in Int /\ r.n + 1 \in Int
              /\ \A k : r.todo \ {k} \in SUBSET Listeners
           /\ \A v \in {"wait", "each", "accept", "unwatch", "settle", "done"} : [r EXCEPT !.pc = v] \in RunnerState
           /\ \A v \in SUBSET Listeners : [r EXCEPT !.todo = v] \in RunnerState
           /\ \A v \in Listeners \cup {None} : [r EXCEPT !.l = v] \in RunnerState
           /\ \A v \in Int : [r EXCEPT !.n = v] \in RunnerState
           /\ \A v \in BOOLEAN : [r EXCEPT !.more = v] \in RunnerState
<1>1. r.n \in Int /\ r.todo \in SUBSET Listeners
  BY Zenon DEF RunnerState
<1>2. /\ 0 \in Int /\ r.n + 1 \in Int
      /\ \A k : r.todo \ {k} \in SUBSET Listeners
  BY <1>1
<1>3. \A v \in {"wait", "each", "accept", "unwatch", "settle", "done"} : [r EXCEPT !.pc = v] \in RunnerState
  BY Zenon DEF RunnerState
<1>4. \A v \in SUBSET Listeners : [r EXCEPT !.todo = v] \in RunnerState
  BY Zenon DEF RunnerState
<1>5. \A v \in Listeners \cup {None} : [r EXCEPT !.l = v] \in RunnerState
  BY Zenon DEF RunnerState
<1>6. \A v \in Int : [r EXCEPT !.n = v] \in RunnerState
  BY Zenon DEF RunnerState
<1>7. \A v \in BOOLEAN : [r EXCEPT !.more = v] \in RunnerState
  BY Zenon DEF RunnerState
<1>8. QED
  BY <1>2, <1>3, <1>4, <1>5, <1>6, <1>7, Zenon

\* What a field of a call may become.
LEMMA CallChanges ==
    ASSUME NEW r \in CallState
    PROVE  /\ \A a \in {"idle", "handOff", "kick", "leave", "watch"},
              k \in Listeners \cup {None} : [pc |-> a, l |-> k] \in CallState
           /\ \A v \in {"idle", "handOff", "kick", "leave", "watch"} : [r EXCEPT !.pc = v] \in CallState
           /\ \A v \in Listeners \cup {None} : [r EXCEPT !.l = v] \in CallState
<1>1. \A v \in {"idle", "handOff", "kick", "leave", "watch"} : [r EXCEPT !.pc = v] \in CallState
  BY Zenon DEF CallState
<1>2. \A v \in Listeners \cup {None} : [r EXCEPT !.l = v] \in CallState
  BY Zenon DEF CallState
<1>3. \A a \in {"idle", "handOff", "kick", "leave", "watch"},
      k \in Listeners \cup {None} : [pc |-> a, l |-> k] \in CallState
  BY Zenon DEF CallState
<1>4. QED
  BY <1>1, <1>2, <1>3, Zenon

\* What a field of the surroundings may become.
LEMMA EnvChanges ==
    ASSUME NEW r \in EnvState
    PROVE  /\ r.shorts - 1 \in Int
           /\ \A v \in [Listeners -> Int] : [r EXCEPT !.arrive = v] \in EnvState
           /\ \A v \in BOOLEAN : [r EXCEPT !.short = v] \in EnvState
           /\ \A v \in Int : [r EXCEPT !.shorts = v] \in EnvState
           /\ \A v \in BOOLEAN : [r EXCEPT !.failed = v] \in EnvState
           /\ \A v \in {"run", "join", "done"} : [r EXCEPT !.stop = v] \in EnvState
<1>1. r.shorts \in Int
  BY Zenon DEF EnvState
<1>2. r.shorts - 1 \in Int
  BY <1>1
<1>3. \A v \in [Listeners -> Int] : [r EXCEPT !.arrive = v] \in EnvState
  BY Zenon DEF EnvState
<1>4. \A v \in BOOLEAN : [r EXCEPT !.short = v] \in EnvState
  BY Zenon DEF EnvState
<1>5. \A v \in Int : [r EXCEPT !.shorts = v] \in EnvState
  BY Zenon DEF EnvState
<1>6. \A v \in BOOLEAN : [r EXCEPT !.failed = v] \in EnvState
  BY Zenon DEF EnvState
<1>7. \A v \in {"run", "join", "done"} : [r EXCEPT !.stop = v] \in EnvState
  BY Zenon DEF EnvState
<1>8. QED
  BY <1>2, <1>3, <1>4, <1>5, <1>6, <1>7, Zenon

\* Watching a listener, and taking it out of the poller, gives a listener.
LEMMA WatchChanges ==
    ASSUME NEW r \in ListenerState
    PROVE  watchListener(r) \in ListenerState /\ Removed(r) \in ListenerState
<1>1. (r.backlog > 0) \in BOOLEAN
  OBVIOUS
<1>2. QED
  BY <1>1, ListenerChanges, Zenon DEF watchListener, Removed

\* The types.
LEMMA TypeKeeps ==
    ASSUME Instances, TypeOK, PlacesOK, Next
    PROVE  TypeOK'
<1>1. CASE Shortage
  <2>1. env' \in EnvState
    <3>1. CASE env.short
      BY <1>1, <3>1, EnvChanges, Zenon DEF Shortage, TypeOK
    <3>2. CASE ~env.short
      <4>1. env' = [env EXCEPT !.short = TRUE, !.shorts = env.shorts - 1]
        BY <1>1, <3>2, Zenon DEF Shortage
      <4>2. env.shorts - 1 \in Int /\ [env EXCEPT !.short = TRUE] \in EnvState
        BY EnvChanges, Zenon DEF TypeOK
      <4>3. QED
        BY <4>1, <4>2, EnvChanges, Zenon
    <3>3. QED
      BY <3>1, <3>2, Zenon
  <2>2. QED
    BY <1>1, <2>1, Zenon DEF Shortage, TypeOK
<1>2. CASE Round
  <2>1. runner' \in RunnerState
    BY <1>2, RunnerChanges, Zenon DEF Round, TypeOK
  <2>2. QED
    BY <1>2, <2>1, Zenon DEF Round, TypeOK
<1>3. CASE RoundsEnd
  <2>1. runner' \in RunnerState
    BY <1>3, RunnerChanges, Zenon DEF RoundsEnd, TypeOK
  <2>2. QED
    BY <1>3, <2>1, Zenon DEF RoundsEnd, TypeOK
<1>4. CASE AcceptOne
  <2>1. runner.l \in Listeners
    BY <1>4, Zenon DEF AcceptOne, TypeOK, PlacesOK, RunnerState
  <2>2. lis' \in [Listeners -> ListenerState]
    BY <1>4, <2>1, ListenerChanges, Zenon DEF AcceptOne, TypeOK
  <2>3. runner' \in RunnerState
    BY <1>4, <2>1, RunnerChanges, Zenon DEF AcceptOne, TypeOK
  <2>4. QED
    BY <1>4, <2>2, <2>3, Zenon DEF AcceptOne, TypeOK
<1>5. CASE BatchFull
  <2>1. runner.l \in Listeners
    BY <1>5, Zenon DEF BatchFull, TypeOK, PlacesOK, RunnerState
  <2>2. lis' \in [Listeners -> ListenerState]
    BY <1>5, <2>1, ListenerChanges, Zenon DEF BatchFull, TypeOK
  <2>3. runner' \in RunnerState
    BY <1>5, <2>1, RunnerChanges, Zenon DEF BatchFull, TypeOK
  <2>4. QED
    BY <1>5, <2>2, <2>3, Zenon DEF BatchFull, TypeOK
<1>6. CASE WouldBlock
  <2>1. runner.l \in Listeners
    BY <1>6, Zenon DEF WouldBlock, TypeOK, PlacesOK, RunnerState
  <2>2. lis' \in [Listeners -> ListenerState]
    BY <1>6, <2>1, ListenerChanges, Zenon DEF WouldBlock, TypeOK
  <2>3. runner' \in RunnerState
    BY <1>6, <2>1, RunnerChanges, Zenon DEF WouldBlock, TypeOK
  <2>4. QED
    BY <1>6, <2>2, <2>3, Zenon DEF WouldBlock, TypeOK
<1>7. CASE AcceptFails
  <2>1. runner.l \in Listeners
    BY <1>7, Zenon DEF AcceptFails, TypeOK, PlacesOK, RunnerState
  <2>2. lis' \in [Listeners -> ListenerState]
    BY <1>7, <2>1, ListenerChanges, Zenon DEF AcceptFails, TypeOK
  <2>3. runner' \in RunnerState
    BY <1>7, <2>1, RunnerChanges, Zenon DEF AcceptFails, TypeOK
  <2>4. env' \in EnvState
    BY <1>7, <2>1, EnvChanges, Zenon DEF AcceptFails, TypeOK
  <2>5. QED
    BY <1>7, <2>2, <2>3, <2>4, Zenon DEF AcceptFails, TypeOK
<1>8. CASE pauseAccept
  <2>1. runner.l \in Listeners
    BY <1>8, Zenon DEF pauseAccept, TypeOK, PlacesOK, RunnerState
  <2>2. lis' \in [Listeners -> ListenerState]
    <3>1. /\ [lis[runner.l] EXCEPT !.users = @ - 1] \in ListenerState
          /\ [lis[runner.l] EXCEPT !.paused = TRUE] \in ListenerState
      BY <2>1, ListenerChanges, Zenon DEF TypeOK
    <3>2. CASE lis[runner.l].paused
      BY <1>8, <2>1, <3>1, <3>2, Zenon DEF pauseAccept, TypeOK
    <3>3. CASE ~lis[runner.l].paused
      BY <1>8, <2>1, <3>1, <3>3, Zenon DEF pauseAccept, TypeOK
    <3>4. QED
      BY <3>2, <3>3, Zenon
  <2>3. runner' \in RunnerState
    BY <1>8, <2>1, RunnerChanges, Zenon DEF pauseAccept, TypeOK
  <2>4. QED
    BY <1>8, <2>2, <2>3, Zenon DEF pauseAccept, TypeOK
<1>9. CASE Unwatch
  <2>1. runner.l \in Listeners
    BY <1>9, Zenon DEF Unwatch, TypeOK, PlacesOK, RunnerState
  <2>2. lis' \in [Listeners -> ListenerState]
    <3>1. Removed(lis[runner.l]) \in ListenerState
      BY <2>1, WatchChanges, Zenon DEF TypeOK
    <3>2. lis[runner.l].timers + 1 \in Nat /\ lis[runner.l].users - 1 \in Int
      BY <2>1, ListenerChanges, Zenon DEF TypeOK
    <3>3. [Removed(lis[runner.l]) EXCEPT !.timers = lis[runner.l].timers + 1,
                                         !.users = lis[runner.l].users - 1]
             \in ListenerState
      BY <3>1, <3>2, ListenerChanges, Zenon
    <3>4. QED
      BY <1>9, <2>1, <3>3, Zenon DEF Unwatch, TypeOK
  <2>3. runner' \in RunnerState
    BY <1>9, <2>1, RunnerChanges, Zenon DEF Unwatch, Removed, TypeOK
  <2>4. QED
    BY <1>9, <2>2, <2>3, Zenon DEF Unwatch, TypeOK
<1>10. CASE Settle
  <2>1. runner.l \in Listeners
    BY <1>10, Zenon DEF Settle, TypeOK, PlacesOK, RunnerState
  <2>2. lis' \in [Listeners -> ListenerState]
    BY <1>10, <2>1, ListenerChanges, Zenon DEF Settle, TypeOK
  <2>3. runner' \in RunnerState
    BY <1>10, <2>1, RunnerChanges, Zenon DEF Settle, TypeOK
  <2>4. QED
    BY <1>10, <2>2, <2>3, Zenon DEF Settle, TypeOK
<1>11. CASE Stop
  <2>1. env' \in EnvState
    BY <1>11, EnvChanges, Zenon DEF Stop, TypeOK
  <2>2. QED
    BY <1>11, <2>1, Zenon DEF Stop, TypeOK
<1>12. CASE CloseAll
  <2>1. lis' \in [Listeners -> ListenerState]
    BY <1>12, ListenerChanges, Zenon DEF CloseAll, TypeOK
  <2>2. env' \in EnvState
    BY <1>12, EnvChanges, Zenon DEF CloseAll, TypeOK
  <2>3. QED
    BY <1>12, <2>1, <2>2, Zenon DEF CloseAll, TypeOK
<1>13. CASE Resting
  BY <1>13, Zenon DEF Resting, vars, TypeOK
<1>14. ASSUME NEW k \in Listeners, Arrive(k) PROVE TypeOK'
  <2>1. lis' \in [Listeners -> ListenerState]
    BY <1>14, ListenerChanges, Zenon DEF Arrive, TypeOK
  <2>2. env' \in EnvState
    BY <1>14 DEF Arrive, TypeOK, EnvState
  <2>3. QED
    BY <1>14, <2>1, <2>2, Zenon DEF Arrive, TypeOK
<1>15. ASSUME NEW k \in Listeners, addListener(k) PROVE TypeOK'
  <2>1. lis' \in [Listeners -> ListenerState]
    <3>1. [lis[k] EXCEPT !.listed = TRUE] \in ListenerState
      BY ListenerChanges, Zenon DEF TypeOK
    <3>2. QED
      BY <1>15, <3>1, WatchChanges, Zenon DEF addListener, TypeOK
  <2>2. env' \in EnvState
    BY <1>15, EnvChanges, Zenon DEF addListener, watchListener, TypeOK
  <2>3. QED
    BY <1>15, <2>1, <2>2, Zenon DEF addListener, TypeOK
<1>16. ASSUME NEW k \in Listeners, Enter(k) PROVE TypeOK'
  <2>1. lis' \in [Listeners -> ListenerState]
    BY <1>16, ListenerChanges, Zenon DEF Enter, TypeOK
  <2>2. runner' \in RunnerState
    BY <1>16, RunnerChanges, Zenon DEF Enter, TypeOK
  <2>3. QED
    BY <1>16, <2>1, <2>2, Zenon DEF Enter, TypeOK
<1>17. ASSUME NEW k \in Listeners, ResumeEnter(k) PROVE TypeOK'
  <2>1. lis' \in [Listeners -> ListenerState]
    <3> DEFINE u == IF lis[k].retired THEN lis[k].users ELSE lis[k].users + 1
               b == lis[k].paused /\ lis[k].retired
               r == [lis[k] EXCEPT !.timers = lis[k].timers - 1, !.users = u,
                                   !.paused = b]
    <3>1. u \in Int
      <4>1. lis[k] \in ListenerState
        BY Zenon DEF TypeOK
      <4>2. lis[k].users \in Int /\ lis[k].users + 1 \in Int
        BY <4>1 DEF ListenerState
      <4>3. QED
        BY <4>2, Zenon
    <3>2. b \in BOOLEAN /\ lis[k].timers - 1 \in Nat
      BY <1>17, ListenerChanges, Zenon DEF ResumeEnter, TypeOK
    <3> HIDE DEF u, b
    <3>3. r \in ListenerState
      BY <3>1, <3>2, ListenerChanges, Zenon DEF TypeOK
    <3>4. lis' = [lis EXCEPT ![k] = r]
      BY <1>17, Zenon DEF ResumeEnter, TypeOK, u, b
    <3>5. QED
      BY <3>3, <3>4, Zenon DEF TypeOK
  <2>2. call' \in [Callers -> CallState]
    BY <1>17, CallChanges, Zenon DEF ResumeEnter, TypeOK, Callers
  <2>3. QED
    BY <1>17, <2>1, <2>2, Zenon DEF ResumeEnter, TypeOK
<1>18. ASSUME NEW k \in Listeners, ResumeWatch(k) PROVE TypeOK'
  <2>1. lis' \in [Listeners -> ListenerState]
    BY <1>18, WatchChanges, Zenon DEF ResumeWatch, TypeOK
  <2>2. call' \in [Callers -> CallState]
    BY <1>18, CallChanges, Zenon DEF ResumeWatch, watchListener, TypeOK,
       Callers
  <2>3. QED
    BY <1>18, <2>1, <2>2, Zenon DEF ResumeWatch, TypeOK
<1>19. ASSUME NEW k \in Listeners, removeListener(k) PROVE TypeOK'
  <2>1. lis' \in [Listeners -> ListenerState]
    <3>1. Removed(lis[k]) \in ListenerState /\ lis[k].listed \in BOOLEAN
      BY WatchChanges, Zenon DEF TypeOK, ListenerState
    <3>2. QED
      BY <1>19, <3>1, ListenerChanges, Zenon DEF removeListener, TypeOK
  <2>2. QED
    BY <1>19, <2>1, Zenon DEF removeListener, TypeOK
<1>20. ASSUME NEW k \in Listeners, retire(k) PROVE TypeOK'
  <2>1. lis' \in [Listeners -> ListenerState]
    BY <1>20, ListenerChanges, Zenon DEF retire, TypeOK
  <2>2. QED
    BY <1>20, <2>1, Zenon DEF retire, TypeOK
<1>21. ASSUME NEW k \in Listeners, NEW w \in Waiters, Collect(w, k)
      PROVE  TypeOK'
  <2>1. lis' \in [Listeners -> ListenerState]
    BY <1>21, ListenerChanges, Zenon DEF Collect, TypeOK
  <2>2. call' \in [Callers -> CallState]
    BY <1>21, CallChanges, Zenon DEF Collect, TypeOK, Callers
  <2>3. QED
    BY <1>21, <2>1, <2>2, Zenon DEF Collect, TypeOK
<1>22. ASSUME NEW w \in Callers, handOff(w) PROVE TypeOK'
  <2>1. call[w].l \in Listeners
    BY <1>22, Zenon DEF handOff, TypeOK, PlacesOK, CallState
  <2>2. lis' \in [Listeners -> ListenerState]
    BY <1>22, <2>1, ListenerChanges, Zenon DEF handOff, Handed, TypeOK
  <2>3. call' \in [Callers -> CallState]
    BY <1>22, <2>1, CallChanges, Zenon DEF handOff, Handed, TypeOK, Callers
  <2>4. QED
    BY <1>22, <2>2, <2>3, Zenon DEF handOff, TypeOK
<1>23. ASSUME NEW w \in Callers, Kick(w) PROVE TypeOK'
  <2>1. call' \in [Callers -> CallState]
    BY <1>23, CallChanges, Zenon DEF Kick, TypeOK, Callers
  <2>2. QED
    BY <1>23, <2>1, Zenon DEF Kick, TypeOK
<1>24. ASSUME NEW w \in Callers, Leave(w) PROVE TypeOK'
  <2>1. lis' \in [Listeners -> ListenerState]
    BY <1>24, ListenerChanges, Zenon DEF Leave, TypeOK
  <2>2. call' \in [Callers -> CallState]
    BY <1>24, CallChanges, Zenon DEF Leave, TypeOK, Callers
  <2>3. QED
    BY <1>24, <2>1, <2>2, Zenon DEF Leave, TypeOK
<1>25. QED
  BY <1>1, <1>2, <1>3, <1>4, <1>5, <1>6, <1>7, <1>8, <1>9, <1>10, <1>11,
     <1>12, <1>13, <1>14, <1>15, <1>16, <1>17, <1>18, <1>19, <1>20, <1>21,
     <1>22, <1>23, <1>24, Zenon DEF Next

\* What the steps that change many fields do to the fields below.
LEMMA ShortageMoves ==
    ASSUME TypeOK, Shortage
    PROVE  /\ env'.stop = env.stop /\ env'.failed = env.failed
           /\ UNCHANGED <<opt, lis, kick, runner, call, closer>>
<1>1. CASE env.short
  BY <1>1, Zenon DEF Shortage, TypeOK, EnvState
<1>2. CASE ~env.short
  BY <1>2, Zenon DEF Shortage, TypeOK, EnvState
<1>3. QED
  BY <1>1, <1>2, Zenon

LEMMA CloseAllMoves ==
    ASSUME TypeOK, CloseAll, NEW l \in Listeners
    PROVE  /\ env.stop = "join" /\ runner.pc = "done"
           /\ env'.stop = "done" /\ env'.failed = env.failed
           /\ closer[l] = "idle" => lis'[l].fd = "closed"
           /\ closer[l] # "idle" => lis'[l] = lis[l] /\ closer[l] = "done"
           /\ lis'[l].listed = lis[l].listed /\ lis'[l].watched = lis[l].watched
           /\ lis'[l].edge = lis[l].edge /\ lis'[l].state = lis[l].state
           /\ lis'[l].paused = lis[l].paused /\ lis'[l].timers = lis[l].timers
           /\ lis'[l].users = lis[l].users /\ lis'[l].retired = lis[l].retired
           /\ UNCHANGED <<opt, kick, runner, call, closer>>
<1>1. lis'[l] = IF closer[l] = "idle"
                THEN [lis[l] EXCEPT !.fd = "closed", !.backlog = 0] ELSE lis[l]
  BY Zenon DEF CloseAll
<1>2. lis[l] \in ListenerState /\ env \in EnvState
  BY Zenon DEF TypeOK
<1>3. env' = [env EXCEPT !.stop = "done"]
  BY Zenon DEF CloseAll
<1>4. env'.stop = "done" /\ env'.failed = env.failed
  BY <1>2, <1>3, Zenon DEF EnvState
<1>5. CASE closer[l] = "idle"
  <2>1. lis'[l] = [lis[l] EXCEPT !.fd = "closed", !.backlog = 0]
    BY <1>1, <1>5, Zenon
  <2>2. /\ lis'[l].fd = "closed"
        /\ lis'[l].listed = lis[l].listed /\ lis'[l].watched = lis[l].watched
        /\ lis'[l].edge = lis[l].edge /\ lis'[l].state = lis[l].state
        /\ lis'[l].paused = lis[l].paused /\ lis'[l].timers = lis[l].timers
        /\ lis'[l].users = lis[l].users /\ lis'[l].retired = lis[l].retired
    BY <1>2, <2>1, Zenon DEF ListenerState
  <2>3. QED
    BY <1>4, <1>5, <2>2, Zenon DEF CloseAll
<1>6. CASE closer[l] # "idle"
  BY <1>1, <1>4, <1>6, Zenon DEF CloseAll, TypeOK
<1>7. QED
  BY <1>5, <1>6, Zenon

LEMMA UnwatchMoves ==
    ASSUME TypeOK, PlacesOK, Unwatch, NEW l \in Listeners
    PROVE  /\ runner.pc = "unwatch" /\ runner'.pc = "settle"
           /\ runner'.l = runner.l /\ runner'.more = runner.more
           /\ runner'.todo = runner.todo
           /\ l # runner.l => lis'[l] = lis[l]
           /\ lis'[l].listed = lis[l].listed /\ lis'[l].backlog = lis[l].backlog
           /\ lis'[l].state = lis[l].state /\ lis'[l].paused = lis[l].paused
           /\ lis'[l].retired = lis[l].retired /\ lis'[l].fd = lis[l].fd
           /\ l = runner.l => /\ ~lis'[l].watched /\ ~lis'[l].edge
                              /\ lis'[l].timers = lis[l].timers + 1
                              /\ lis'[l].users = lis[l].users - 1
           /\ UNCHANGED <<opt, kick, call, closer, env>>
<1>1. lis[l] \in ListenerState /\ runner \in RunnerState
  BY Zenon DEF TypeOK
<1>2. lis' = [lis EXCEPT ![runner.l] =
                 [Removed(lis[runner.l]) EXCEPT !.timers = lis[runner.l].timers + 1,
                                                !.users = lis[runner.l].users - 1]]
  BY Zenon DEF Unwatch
<1>3. runner' = [runner EXCEPT !.pc = "settle"]
  BY Zenon DEF Unwatch
<1>4. /\ runner'.pc = "settle" /\ runner'.l = runner.l
      /\ runner'.more = runner.more /\ runner'.todo = runner.todo
  BY <1>1, <1>3, Zenon DEF RunnerState
<1>5. CASE l = runner.l
  <2>1. lis'[l] = [Removed(lis[l]) EXCEPT !.timers = lis[l].timers + 1,
                                          !.users = lis[l].users - 1]
    BY <1>2, <1>5, Zenon DEF TypeOK
  <2>2. /\ lis'[l].listed = lis[l].listed /\ lis'[l].backlog = lis[l].backlog
        /\ lis'[l].state = lis[l].state /\ lis'[l].paused = lis[l].paused
        /\ lis'[l].retired = lis[l].retired /\ lis'[l].fd = lis[l].fd
        /\ ~lis'[l].watched /\ ~lis'[l].edge
        /\ lis'[l].timers = lis[l].timers + 1 /\ lis'[l].users = lis[l].users - 1
    BY <1>1, <2>1, Zenon DEF Removed, ListenerState
  <2>3. QED
    BY <1>4, <1>5, <2>2, Zenon DEF Unwatch
<1>6. CASE l # runner.l
  <2>1. lis'[l] = lis[l]
    BY <1>2, <1>6, Zenon DEF TypeOK
  <2>2. QED
    BY <1>4, <1>6, <2>1, Zenon DEF Unwatch
<1>7. QED
  BY <1>5, <1>6, Zenon

LEMMA AddMoves ==
    ASSUME TypeOK, NEW k \in Listeners, ~lis[k].watched, addListener(k),
           NEW l \in Listeners
    PROVE  /\ ~lis[k].listed /\ closer[k] = "idle" /\ env.stop = "run"
           /\ env'.stop = env.stop
           /\ l # k => lis'[l] = lis[l]
           /\ lis'[l].backlog = lis[l].backlog /\ lis'[l].state = lis[l].state
           /\ lis'[l].paused = lis[l].paused /\ lis'[l].timers = lis[l].timers
           /\ lis'[l].users = lis[l].users /\ lis'[l].retired = lis[l].retired
           /\ lis'[l].fd = lis[l].fd
           /\ \/ env'.failed /\ lis' = lis
              \/ /\ env'.failed = env.failed
                 /\ l = k => /\ lis'[l].listed /\ lis'[l].watched
                             /\ lis[l].backlog > 0 => lis'[l].edge
           /\ UNCHANGED <<opt, kick, runner, call, closer>>
<1>1. lis[l] \in ListenerState /\ lis[k] \in ListenerState /\ env \in EnvState
  BY Zenon DEF TypeOK
<1>2. /\ ~lis[k].listed /\ closer[k] = "idle" /\ env.stop = "run"
      /\ UNCHANGED <<opt, kick, runner, call, closer>>
  BY Zenon DEF addListener
<1>3. CASE env' = [env EXCEPT !.failed = TRUE] /\ lis' = lis
  <2>1. env'.failed /\ env'.stop = env.stop
    BY <1>1, <1>3, Zenon DEF EnvState
  <2>2. QED
    BY <1>2, <1>3, <2>1, Zenon
<1>4. CASE /\ lis' = [lis EXCEPT ![k] = watchListener([lis[k] EXCEPT !.listed = TRUE])]
           /\ env' = env
  <2>1. CASE l # k
    <3>1. lis'[l] = lis[l]
      BY <1>4, <2>1, Zenon DEF TypeOK
    <3>2. QED
      BY <1>2, <1>4, <2>1, <3>1, Zenon
  <2>2. CASE l = k
    <3>1. ~[lis[l] EXCEPT !.listed = TRUE].watched
      BY <1>1, <2>2, Zenon DEF ListenerState
    <3>2. lis'[l] = [lis[l] EXCEPT !.listed = TRUE, !.watched = TRUE,
                       !.edge = [lis[l] EXCEPT !.listed = TRUE].backlog > 0]
      BY <1>4, <2>2, <3>1, Zenon DEF TypeOK, watchListener
    <3>3. /\ lis'[l].backlog = lis[l].backlog /\ lis'[l].state = lis[l].state
          /\ lis'[l].paused = lis[l].paused /\ lis'[l].timers = lis[l].timers
          /\ lis'[l].users = lis[l].users /\ lis'[l].retired = lis[l].retired
          /\ lis'[l].fd = lis[l].fd
      BY <1>1, <3>2, Zenon DEF ListenerState
    <3>4. lis'[l].listed /\ lis'[l].watched
      BY <1>1, <3>2, Zenon DEF ListenerState
    <3>5. lis'[l].edge = (lis[l].backlog > 0)
      BY <1>1, <3>2, Zenon DEF ListenerState
    <3>6. QED
      BY <1>2, <1>4, <2>2, <3>3, <3>4, <3>5, Zenon
  <2>3. QED
    BY <2>1, <2>2, Zenon
<1>5. QED
  BY <1>3, <1>4, Zenon DEF addListener

\* The places.
LEMMA PlacesKeep ==
    ASSUME Instances,
           IInv,
           Next
    PROVE  PlacesOK'
<1>1. TypeOK /\ PlacesOK
  BY Zenon DEF IInv
<1>2. CASE Shortage
  BY <1>1, <1>2, TypeOK, ShortageMoves, Zenon DEF PlacesOK, Instances, Callers, None
<1>3. CASE Round
  BY <1>3, <1>1 DEF Round, TypeOK, ListenerState, RunnerState, CallState,
     EnvState, PlacesOK, Instances, Callers, None
<1>4. CASE RoundsEnd
  BY <1>4, <1>1 DEF RoundsEnd, TypeOK, ListenerState, RunnerState, CallState,
     EnvState, PlacesOK, Instances, Callers, None
<1>5. CASE AcceptOne
  BY <1>5, <1>1 DEF AcceptOne, TypeOK, ListenerState, RunnerState, CallState,
     EnvState, PlacesOK, Instances, Callers, None
<1>6. CASE BatchFull
  BY <1>6, <1>1 DEF BatchFull, TypeOK, ListenerState, RunnerState, CallState,
     EnvState, PlacesOK, Instances, Callers, None
<1>7. CASE WouldBlock
  BY <1>7, <1>1 DEF WouldBlock, TypeOK, ListenerState, RunnerState, CallState,
     EnvState, PlacesOK, Instances, Callers, None
<1>8. CASE AcceptFails
  BY <1>8, <1>1 DEF AcceptFails, TypeOK, ListenerState, RunnerState,
     CallState, EnvState, PlacesOK, Instances, Callers, None
<1>9. CASE pauseAccept
  BY <1>9, <1>1 DEF pauseAccept, TypeOK, ListenerState, RunnerState,
     CallState, EnvState, PlacesOK, Instances, Callers, None
<1>10. CASE Unwatch
  BY <1>10, <1>1 DEF Unwatch, Removed, TypeOK, ListenerState, RunnerState,
     CallState, EnvState, PlacesOK, Instances, Callers, None
<1>11. CASE Settle
  BY <1>11, <1>1 DEF Settle, TypeOK, ListenerState, RunnerState, CallState,
     EnvState, PlacesOK, Instances, Callers, None
<1>12. CASE Stop
  BY <1>12, <1>1 DEF Stop, TypeOK, ListenerState, RunnerState, CallState,
     EnvState, PlacesOK, Instances, Callers, None
<1>13. CASE CloseAll
  <2>1. \A l \in Listeners : lis'[l].state = lis[l].state
    BY <1>1, <1>13, CloseAllMoves, Zenon
  <2>2. runner.pc = "done" /\ env' = [env EXCEPT !.stop = "done"]
        /\ UNCHANGED <<runner, call>>
    BY <1>13, Zenon DEF CloseAll
  <2>3. env'.stop = "done"
    BY <1>1, <2>2, Zenon DEF TypeOK, EnvState
  <2>4. QED
    BY <1>1, <2>1, <2>2, <2>3, Zenon DEF PlacesOK, TypeOK, RunnerState
<1>14. CASE Resting
  BY <1>14, <1>1 DEF Resting, vars, TypeOK, ListenerState, RunnerState,
     CallState, EnvState, PlacesOK, Instances, Callers, None
<1>15. CASE \E k \in Listeners : Arrive(k)
  BY <1>15, <1>1 DEF Arrive, TypeOK, ListenerState, RunnerState, CallState,
     EnvState, PlacesOK, Instances, Callers, None
<1>16. CASE \E k \in Listeners : addListener(k)
  <2>1. PICK k \in Listeners : addListener(k)
    BY <1>16, Zenon
  <2>2. ~lis[k].watched
    BY <2>1, Zenon DEF IInv, GateOK, addListener
  <2>3. /\ \A l \in Listeners : lis'[l].state = lis[l].state
        /\ env'.stop = env.stop /\ UNCHANGED <<runner, call>>
    BY <1>1, <2>1, <2>2, AddMoves, Zenon
  <2>4. QED
    BY <1>1, <2>3, Zenon DEF PlacesOK, TypeOK, RunnerState
<1>17. CASE \E k \in Listeners : Enter(k)
  BY <1>17, <1>1 DEF Enter, TypeOK, ListenerState, RunnerState, CallState,
     EnvState, PlacesOK, Instances, Callers, None
<1>18. CASE \E k \in Listeners : ResumeEnter(k)
  BY <1>18, <1>1 DEF ResumeEnter, TypeOK, ListenerState, RunnerState,
     CallState, EnvState, PlacesOK, Instances, Callers, None
<1>19. CASE \E k \in Listeners : ResumeWatch(k)
  BY <1>19, <1>1 DEF ResumeWatch, watchListener, TypeOK, ListenerState,
     RunnerState, CallState, EnvState, PlacesOK, Instances, Callers, None
<1>20. CASE \E k \in Listeners : removeListener(k)
  BY <1>20, <1>1 DEF removeListener, Removed, TypeOK, ListenerState,
     RunnerState, CallState, EnvState, PlacesOK, Instances, Callers, None
<1>21. CASE \E k \in Listeners : retire(k)
  BY <1>21, <1>1 DEF retire, TypeOK, ListenerState, RunnerState, CallState,
     EnvState, PlacesOK, Instances, Callers, None
<1>22. CASE \E k \in Listeners, w \in Waiters : Collect(w, k)
  BY <1>22, <1>1 DEF Collect, TypeOK, ListenerState, RunnerState, CallState,
     EnvState, PlacesOK, Instances, Callers, None
<1>23. CASE \E w \in Callers : handOff(w)
  BY <1>23, <1>1 DEF handOff, Handed, TypeOK, ListenerState, RunnerState,
     CallState, EnvState, PlacesOK, Instances, Callers, None
<1>24. CASE \E w \in Callers : Kick(w)
  BY <1>24, <1>1 DEF Kick, TypeOK, ListenerState, RunnerState, CallState,
     EnvState, PlacesOK, Instances, Callers, None
<1>25. CASE \E w \in Callers : Leave(w)
  BY <1>25, <1>1 DEF Leave, TypeOK, ListenerState, RunnerState, CallState,
     EnvState, PlacesOK, Instances, Callers, None
<1>26. QED
  BY <1>2, <1>3, <1>4, <1>5, <1>6, <1>7, <1>8, <1>9, <1>10, <1>11, <1>12,
     <1>13, <1>14, <1>15, <1>16, <1>17, <1>18, <1>19, <1>20, <1>21, <1>22,
     <1>23, <1>24, <1>25 DEF Next

\* The gates.
LEMMA GateKeeps ==
    ASSUME Instances,
           IInv,
           Next,
           NEW l \in Listeners
    PROVE  GateOK(l)'
<1>1. TypeOK /\ PlacesOK /\ GateOK(l)
  BY Zenon DEF IInv
<1>2. CASE Shortage
  BY <1>1, <1>2, ShortageMoves, Zenon DEF GateOK, Accepting, PlacesOK
<1>3. CASE Round
  BY <1>3, <1>1 DEF Round, TypeOK, ListenerState, RunnerState, CallState,
     EnvState, PlacesOK, GateOK, Accepting, Instances, Callers
<1>4. CASE RoundsEnd
  BY <1>4, <1>1 DEF RoundsEnd, TypeOK, ListenerState, RunnerState, CallState,
     EnvState, PlacesOK, GateOK, Accepting, Instances, Callers
<1>5. CASE AcceptOne
  BY <1>5, <1>1 DEF AcceptOne, TypeOK, ListenerState, RunnerState, CallState,
     EnvState, PlacesOK, GateOK, Accepting, Instances, Callers
<1>6. CASE BatchFull
  BY <1>6, <1>1 DEF BatchFull, TypeOK, ListenerState, RunnerState, CallState,
     EnvState, PlacesOK, GateOK, Accepting, Instances, Callers
<1>7. CASE WouldBlock
  BY <1>7, <1>1 DEF WouldBlock, TypeOK, ListenerState, RunnerState, CallState,
     EnvState, PlacesOK, GateOK, Accepting, Instances, Callers
<1>8. CASE AcceptFails
  BY <1>8, <1>1 DEF AcceptFails, TypeOK, ListenerState, RunnerState,
     CallState, EnvState, PlacesOK, GateOK, Accepting, Instances, Callers
<1>9. CASE pauseAccept
  <2>1. CASE lis[runner.l].paused
    BY <1>1, <1>9, <2>1 DEF pauseAccept, TypeOK, ListenerState, RunnerState,
       CallState, EnvState, PlacesOK, GateOK, Accepting
  <2>2. CASE ~lis[runner.l].paused
    BY <1>1, <1>9, <2>2 DEF pauseAccept, TypeOK, ListenerState, RunnerState,
       CallState, EnvState, PlacesOK, GateOK, Accepting
  <2>3. QED
    BY <2>1, <2>2, Zenon
<1>10. CASE Unwatch
  BY <1>1, <1>10, UnwatchMoves DEF GateOK, Accepting, PlacesOK
<1>11. CASE Settle
  BY <1>11, <1>1 DEF Settle, TypeOK, ListenerState, RunnerState, CallState,
     EnvState, PlacesOK, GateOK, Accepting, Instances, Callers
<1>12. CASE Stop
  BY <1>12, <1>1 DEF Stop, TypeOK, ListenerState, RunnerState, CallState,
     EnvState, PlacesOK, GateOK, Accepting, Instances, Callers
<1>13. CASE CloseAll
  <2>1. /\ lis'[l].listed = lis[l].listed /\ lis'[l].watched = lis[l].watched
        /\ lis'[l].edge = lis[l].edge /\ lis'[l].state = lis[l].state
        /\ lis'[l].paused = lis[l].paused /\ lis'[l].timers = lis[l].timers
        /\ lis'[l].users = lis[l].users /\ lis'[l].retired = lis[l].retired
        /\ UNCHANGED <<runner, call, closer>>
    BY <1>1, <1>13, CloseAllMoves, Zenon
  <2>2. QED
    BY <1>1, <2>1 DEF GateOK, Accepting
<1>14. CASE Resting
  BY <1>14, <1>1, Zenon DEF Resting, vars, GateOK, Accepting
<1>15. CASE \E k \in Listeners : Arrive(k)
  BY <1>15, <1>1 DEF Arrive, TypeOK, ListenerState, RunnerState, CallState,
     EnvState, PlacesOK, GateOK, Accepting, Instances, Callers
<1>16. CASE \E k \in Listeners : addListener(k)
  <2>1. PICK k \in Listeners : addListener(k)
    BY <1>16, Zenon
  <2>2. ~lis[k].watched
    BY <2>1, Zenon DEF IInv, GateOK, addListener
  <2>3. QED
    BY <1>1, <2>1, <2>2, AddMoves DEF GateOK, Accepting, PlacesOK
<1>17. CASE \E k \in Listeners : Enter(k)
  BY <1>17, <1>1 DEF Enter, TypeOK, ListenerState, RunnerState, CallState,
     EnvState, PlacesOK, GateOK, Accepting, Instances, Callers
<1>18. CASE \E k \in Listeners : ResumeEnter(k)
  BY <1>18, <1>1 DEF ResumeEnter, TypeOK, ListenerState, RunnerState,
     CallState, EnvState, PlacesOK, GateOK, Accepting, Instances, Callers
<1>19. CASE \E k \in Listeners : ResumeWatch(k)
  BY <1>19, <1>1 DEF ResumeWatch, watchListener, TypeOK, ListenerState,
     RunnerState, CallState, EnvState, PlacesOK, GateOK, Accepting, Instances,
     Callers
<1>20. CASE \E k \in Listeners : removeListener(k)
  BY <1>20, <1>1 DEF removeListener, Removed, TypeOK, ListenerState,
     RunnerState, CallState, EnvState, PlacesOK, GateOK, Accepting, Instances,
     Callers
<1>21. CASE \E k \in Listeners : retire(k)
  BY <1>21, <1>1 DEF retire, TypeOK, ListenerState, RunnerState, CallState,
     EnvState, PlacesOK, GateOK, Accepting, Instances, Callers
<1>22. CASE \E k \in Listeners, w \in Waiters : Collect(w, k)
  BY <1>22, <1>1 DEF Collect, TypeOK, ListenerState, RunnerState, CallState,
     EnvState, PlacesOK, GateOK, Accepting, Instances, Callers
<1>23. CASE \E w \in Callers : handOff(w)
  BY <1>23, <1>1 DEF handOff, Handed, TypeOK, ListenerState, RunnerState,
     CallState, EnvState, PlacesOK, GateOK, Accepting, Instances, Callers
<1>24. CASE \E w \in Callers : Kick(w)
  BY <1>24, <1>1 DEF Kick, TypeOK, ListenerState, RunnerState, CallState,
     EnvState, PlacesOK, GateOK, Accepting, Instances, Callers
<1>25. CASE \E w \in Callers : Leave(w)
  BY <1>25, <1>1 DEF Leave, TypeOK, ListenerState, RunnerState, CallState,
     EnvState, PlacesOK, GateOK, Accepting, Instances, Callers
<1>26. QED
  BY <1>2, <1>3, <1>4, <1>5, <1>6, <1>7, <1>8, <1>9, <1>10, <1>11, <1>12,
     <1>13, <1>14, <1>15, <1>16, <1>17, <1>18, <1>19, <1>20, <1>21, <1>22,
     <1>23, <1>24, <1>25 DEF Next

\* The pauses.
LEMMA PauseKeeps ==
    ASSUME Instances,
           IInv,
           Next,
           NEW l \in Listeners
    PROVE  PauseOK(l)'
<1>1. TypeOK /\ PlacesOK /\ GateOK(l) /\ PauseOK(l)
  BY Zenon DEF IInv
<1>2. CASE Shortage
  BY <1>1, <1>2, ShortageMoves, Zenon DEF GateOK, PauseOK, PlacesOK
<1>3. CASE Round
  BY <1>3, <1>1 DEF Round, TypeOK, ListenerState, RunnerState, CallState,
     EnvState, PlacesOK, GateOK, PauseOK, Instances, Callers
<1>4. CASE RoundsEnd
  BY <1>4, <1>1 DEF RoundsEnd, TypeOK, ListenerState, RunnerState, CallState,
     EnvState, PlacesOK, GateOK, PauseOK, Instances, Callers
<1>5. CASE AcceptOne
  BY <1>5, <1>1 DEF AcceptOne, TypeOK, ListenerState, RunnerState, CallState,
     EnvState, PlacesOK, GateOK, PauseOK, Instances, Callers
<1>6. CASE BatchFull
  BY <1>6, <1>1 DEF BatchFull, TypeOK, ListenerState, RunnerState, CallState,
     EnvState, PlacesOK, GateOK, PauseOK, Instances, Callers
<1>7. CASE WouldBlock
  BY <1>7, <1>1 DEF WouldBlock, TypeOK, ListenerState, RunnerState, CallState,
     EnvState, PlacesOK, GateOK, PauseOK, Instances, Callers
<1>8. CASE AcceptFails
  BY <1>8, <1>1 DEF AcceptFails, TypeOK, ListenerState, RunnerState,
     CallState, EnvState, PlacesOK, GateOK, PauseOK, Instances, Callers
<1>9. CASE pauseAccept
  <2>1. CASE lis[runner.l].paused
    BY <1>1, <1>9, <2>1 DEF pauseAccept, TypeOK, ListenerState, RunnerState,
       CallState, EnvState, PlacesOK, GateOK, PauseOK
  <2>2. CASE ~lis[runner.l].paused
    BY <1>1, <1>9, <2>2 DEF pauseAccept, TypeOK, ListenerState, RunnerState,
       CallState, EnvState, PlacesOK, GateOK, PauseOK
  <2>3. QED
    BY <2>1, <2>2, Zenon
<1>10. CASE Unwatch
  <2>1. lis[l].timers \in Nat
    BY <1>1, Zenon DEF TypeOK, ListenerState
  <2>2. QED
    BY <1>1, <1>10, <2>1, UnwatchMoves DEF PauseOK, PlacesOK
<1>11. CASE Settle
  BY <1>11, <1>1 DEF Settle, TypeOK, ListenerState, RunnerState, CallState,
     EnvState, PlacesOK, GateOK, PauseOK, Instances, Callers
<1>12. CASE Stop
  BY <1>12, <1>1 DEF Stop, TypeOK, ListenerState, RunnerState, CallState,
     EnvState, PlacesOK, GateOK, PauseOK, Instances, Callers
<1>13. CASE CloseAll
  BY <1>1, <1>13, CloseAllMoves, Zenon DEF GateOK, PauseOK, PlacesOK
<1>14. CASE Resting
  BY <1>14, <1>1 DEF Resting, vars, TypeOK, ListenerState, RunnerState,
     CallState, EnvState, PlacesOK, GateOK, PauseOK, Instances, Callers
<1>15. CASE \E k \in Listeners : Arrive(k)
  BY <1>15, <1>1 DEF Arrive, TypeOK, ListenerState, RunnerState, CallState,
     EnvState, PlacesOK, GateOK, PauseOK, Instances, Callers
<1>16. CASE \E k \in Listeners : addListener(k)
  <2>1. PICK k \in Listeners : addListener(k)
    BY <1>16, Zenon
  <2>2. ~lis[k].watched
    BY <2>1, Zenon DEF IInv, GateOK, addListener
  <2>3. QED
    BY <1>1, <2>1, <2>2, AddMoves DEF GateOK, PauseOK, PlacesOK
<1>17. CASE \E k \in Listeners : Enter(k)
  BY <1>17, <1>1 DEF Enter, TypeOK, ListenerState, RunnerState, CallState,
     EnvState, PlacesOK, GateOK, PauseOK, Instances, Callers
<1>18. CASE \E k \in Listeners : ResumeEnter(k)
  BY <1>18, <1>1 DEF ResumeEnter, TypeOK, ListenerState, RunnerState,
     CallState, EnvState, PlacesOK, GateOK, PauseOK, Instances, Callers
<1>19. CASE \E k \in Listeners : ResumeWatch(k)
  BY <1>19, <1>1 DEF ResumeWatch, watchListener, TypeOK, ListenerState,
     RunnerState, CallState, EnvState, PlacesOK, GateOK, PauseOK, Instances,
     Callers
<1>20. CASE \E k \in Listeners : removeListener(k)
  BY <1>20, <1>1 DEF removeListener, Removed, TypeOK, ListenerState,
     RunnerState, CallState, EnvState, PlacesOK, GateOK, PauseOK, Instances,
     Callers
<1>21. CASE \E k \in Listeners : retire(k)
  BY <1>21, <1>1 DEF retire, TypeOK, ListenerState, RunnerState, CallState,
     EnvState, PlacesOK, GateOK, PauseOK, Instances, Callers
<1>22. CASE \E k \in Listeners, w \in Waiters : Collect(w, k)
  BY <1>22, <1>1 DEF Collect, TypeOK, ListenerState, RunnerState, CallState,
     EnvState, PlacesOK, GateOK, PauseOK, Instances, Callers
<1>23. CASE \E w \in Callers : handOff(w)
  BY <1>23, <1>1 DEF handOff, Handed, TypeOK, ListenerState, RunnerState,
     CallState, EnvState, PlacesOK, GateOK, PauseOK, Instances, Callers
<1>24. CASE \E w \in Callers : Kick(w)
  BY <1>24, <1>1 DEF Kick, TypeOK, ListenerState, RunnerState, CallState,
     EnvState, PlacesOK, GateOK, PauseOK, Instances, Callers
<1>25. CASE \E w \in Callers : Leave(w)
  BY <1>25, <1>1 DEF Leave, TypeOK, ListenerState, RunnerState, CallState,
     EnvState, PlacesOK, GateOK, PauseOK, Instances, Callers
<1>26. QED
  BY <1>2, <1>3, <1>4, <1>5, <1>6, <1>7, <1>8, <1>9, <1>10, <1>11, <1>12,
     <1>13, <1>14, <1>15, <1>16, <1>17, <1>18, <1>19, <1>20, <1>21, <1>22,
     <1>23, <1>24, <1>25 DEF Next

\* The hand-over.
LEMMA HandedKeeps ==
    ASSUME Instances,
           IInv,
           Next,
           NEW l \in Listeners
    PROVE  HandedOK(l)'
<1>1. TypeOK /\ PlacesOK /\ GateOK(l) /\ HandedOK(l)
  BY Zenon DEF IInv
<1>2. CASE Shortage
  BY <1>1, <1>2, ShortageMoves, Zenon DEF GateOK, HandedOK, Comes, PlacesOK
<1>3. CASE Round
  BY <1>3, <1>1 DEF Round, TypeOK, ListenerState, RunnerState, CallState,
     EnvState, PlacesOK, GateOK, HandedOK, Comes, Instances, Callers
<1>4. CASE RoundsEnd
  BY <1>4, <1>1 DEF RoundsEnd, TypeOK, ListenerState, RunnerState, CallState,
     EnvState, PlacesOK, GateOK, HandedOK, Comes, Instances, Callers
<1>5. CASE AcceptOne
  BY <1>5, <1>1 DEF AcceptOne, TypeOK, ListenerState, RunnerState, CallState,
     EnvState, PlacesOK, GateOK, HandedOK, Comes, Instances, Callers
<1>6. CASE BatchFull
  BY <1>6, <1>1 DEF BatchFull, TypeOK, ListenerState, RunnerState, CallState,
     EnvState, PlacesOK, GateOK, HandedOK, Comes, Instances, Callers
<1>7. CASE WouldBlock
  BY <1>7, <1>1 DEF WouldBlock, TypeOK, ListenerState, RunnerState, CallState,
     EnvState, PlacesOK, GateOK, HandedOK, Comes, Instances, Callers
<1>8. CASE AcceptFails
  BY <1>8, <1>1 DEF AcceptFails, TypeOK, ListenerState, RunnerState,
     CallState, EnvState, PlacesOK, GateOK, HandedOK, Comes, Instances,
     Callers
<1>9. CASE pauseAccept
  <2>1. CASE lis[runner.l].paused
    BY <1>1, <1>9, <2>1 DEF pauseAccept, TypeOK, ListenerState, RunnerState,
       CallState, EnvState, PlacesOK, GateOK, HandedOK, Comes
  <2>2. CASE ~lis[runner.l].paused
    <3>1. /\ runner.l \in Listeners /\ runner.pc = "accept"
          /\ lis' = [lis EXCEPT ![runner.l].paused = TRUE]
          /\ runner' = [runner EXCEPT !.pc = "unwatch"]
          /\ UNCHANGED <<kick, call, env>>
      BY <1>1, <1>9, <2>2, Zenon DEF pauseAccept, PlacesOK, TypeOK, RunnerState
    <3>2. lis'[l].listed = lis[l].listed /\ lis'[l].state = lis[l].state
      BY <1>1, <3>1 DEF TypeOK, ListenerState
    <3>3. /\ runner'.l = runner.l /\ runner'.pc = "unwatch"
          /\ runner'.todo = runner.todo /\ runner'.more = runner.more
      BY <1>1, <3>1, Zenon DEF TypeOK, RunnerState
    <3>4. QED
      BY <1>1, <3>1, <3>2, <3>3, Zenon DEF HandedOK, Comes
  <2>3. QED
    BY <2>1, <2>2, Zenon
<1>10. CASE Unwatch
  BY <1>1, <1>10, UnwatchMoves DEF GateOK, HandedOK, Comes, PlacesOK
<1>11. CASE Settle
  BY <1>11, <1>1 DEF Settle, TypeOK, ListenerState, RunnerState, CallState,
     EnvState, PlacesOK, GateOK, HandedOK, Comes, Instances, Callers
<1>12. CASE Stop
  BY <1>12, <1>1 DEF Stop, TypeOK, ListenerState, RunnerState, CallState,
     EnvState, PlacesOK, GateOK, HandedOK, Comes, Instances, Callers
<1>13. CASE CloseAll
  BY <1>1, <1>13, CloseAllMoves, Zenon DEF GateOK, HandedOK, Comes, PlacesOK
<1>14. CASE Resting
  BY <1>14, <1>1 DEF Resting, vars, TypeOK, ListenerState, RunnerState,
     CallState, EnvState, PlacesOK, GateOK, HandedOK, Comes, Instances,
     Callers
<1>15. CASE \E k \in Listeners : Arrive(k)
  BY <1>15, <1>1 DEF Arrive, TypeOK, ListenerState, RunnerState, CallState,
     EnvState, PlacesOK, GateOK, HandedOK, Comes, Instances, Callers
<1>16. CASE \E k \in Listeners : addListener(k)
  <2>1. PICK k \in Listeners : addListener(k)
    BY <1>16, Zenon
  <2>2. ~lis[k].watched
    BY <2>1, Zenon DEF IInv, GateOK, addListener
  <2>3. QED
    BY <1>1, <2>1, <2>2, AddMoves DEF GateOK, HandedOK, Comes, PlacesOK
<1>17. CASE \E k \in Listeners : Enter(k)
  BY <1>17, <1>1 DEF Enter, TypeOK, ListenerState, RunnerState, CallState,
     EnvState, PlacesOK, GateOK, HandedOK, Comes, Instances, Callers
<1>18. CASE \E k \in Listeners : ResumeEnter(k)
  BY <1>18, <1>1 DEF ResumeEnter, TypeOK, ListenerState, RunnerState,
     CallState, EnvState, PlacesOK, GateOK, HandedOK, Comes, Instances,
     Callers
<1>19. CASE \E k \in Listeners : ResumeWatch(k)
  BY <1>19, <1>1 DEF ResumeWatch, watchListener, TypeOK, ListenerState,
     RunnerState, CallState, EnvState, PlacesOK, GateOK, HandedOK, Comes,
     Instances, Callers
<1>20. CASE \E k \in Listeners : removeListener(k)
  BY <1>20, <1>1 DEF removeListener, Removed, TypeOK, ListenerState,
     RunnerState, CallState, EnvState, PlacesOK, GateOK, HandedOK, Comes,
     Instances, Callers
<1>21. CASE \E k \in Listeners : retire(k)
  BY <1>21, <1>1 DEF retire, TypeOK, ListenerState, RunnerState, CallState,
     EnvState, PlacesOK, GateOK, HandedOK, Comes, Instances, Callers
<1>22. CASE \E k \in Listeners, w \in Waiters : Collect(w, k)
  BY <1>22, <1>1 DEF Collect, TypeOK, ListenerState, RunnerState, CallState,
     EnvState, PlacesOK, GateOK, HandedOK, Comes, Instances, Callers
<1>23. CASE \E w \in Callers : handOff(w)
  BY <1>23, <1>1 DEF handOff, Handed, TypeOK, ListenerState, RunnerState,
     CallState, EnvState, PlacesOK, GateOK, HandedOK, Comes, Instances,
     Callers
<1>24. CASE \E w \in Callers : Kick(w)
  BY <1>24, <1>1 DEF Kick, TypeOK, ListenerState, RunnerState, CallState,
     EnvState, PlacesOK, GateOK, HandedOK, Comes, Instances, Callers
<1>25. CASE \E w \in Callers : Leave(w)
  BY <1>25, <1>1 DEF Leave, TypeOK, ListenerState, RunnerState, CallState,
     EnvState, PlacesOK, GateOK, HandedOK, Comes, Instances, Callers
<1>26. QED
  BY <1>2, <1>3, <1>4, <1>5, <1>6, <1>7, <1>8, <1>9, <1>10, <1>11, <1>12,
     <1>13, <1>14, <1>15, <1>16, <1>17, <1>18, <1>19, <1>20, <1>21, <1>22,
     <1>23, <1>24, <1>25 DEF Next

\* The backlogs.
LEMMA WaitingKeeps ==
    ASSUME Instances,
           IInv,
           Next,
           NEW l \in Listeners
    PROVE  WaitingOK(l)'
<1>1. TypeOK /\ PlacesOK /\ GateOK(l) /\ PauseOK(l) /\ WaitingOK(l)
  BY Zenon DEF IInv
<1>2. CASE Shortage
  BY <1>1, <1>2, ShortageMoves, Zenon DEF GateOK, PauseOK, WaitingOK, PlacesOK
<1>3. CASE Round
  BY <1>3, <1>1 DEF Round, TypeOK, ListenerState, RunnerState, CallState,
     EnvState, PlacesOK, GateOK, PauseOK, WaitingOK, Instances, Callers
<1>4. CASE RoundsEnd
  BY <1>4, <1>1 DEF RoundsEnd, TypeOK, ListenerState, RunnerState, CallState,
     EnvState, PlacesOK, GateOK, PauseOK, WaitingOK, Instances, Callers
<1>5. CASE AcceptOne
  BY <1>5, <1>1 DEF AcceptOne, TypeOK, ListenerState, RunnerState, CallState,
     EnvState, PlacesOK, GateOK, PauseOK, WaitingOK, Instances, Callers
<1>6. CASE BatchFull
  BY <1>6, <1>1 DEF BatchFull, TypeOK, ListenerState, RunnerState, CallState,
     EnvState, PlacesOK, GateOK, PauseOK, WaitingOK, Instances, Callers
<1>7. CASE WouldBlock
  BY <1>7, <1>1 DEF WouldBlock, TypeOK, ListenerState, RunnerState, CallState,
     EnvState, PlacesOK, GateOK, PauseOK, WaitingOK, Instances, Callers
<1>8. CASE AcceptFails
  BY <1>8, <1>1 DEF AcceptFails, TypeOK, ListenerState, RunnerState,
     CallState, EnvState, PlacesOK, GateOK, PauseOK, WaitingOK, Instances,
     Callers
<1>9. CASE pauseAccept
  <2>1. CASE lis[runner.l].paused
    BY <1>1, <1>9, <2>1 DEF pauseAccept, TypeOK, ListenerState, RunnerState,
       CallState, EnvState, PlacesOK, GateOK, PauseOK, WaitingOK
  <2>2. CASE ~lis[runner.l].paused
    BY <1>1, <1>9, <2>2 DEF pauseAccept, TypeOK, ListenerState, RunnerState,
       CallState, EnvState, PlacesOK, GateOK, PauseOK, WaitingOK
  <2>3. QED
    BY <2>1, <2>2, Zenon
<1>10. CASE Unwatch
  <2>1. lis[l].timers \in Nat
    BY <1>1, Zenon DEF TypeOK, ListenerState
  <2>2. QED
    BY <1>1, <1>10, <2>1, UnwatchMoves DEF WaitingOK, PlacesOK
<1>11. CASE Settle
  BY <1>11, <1>1 DEF Settle, TypeOK, ListenerState, RunnerState, CallState,
     EnvState, PlacesOK, GateOK, PauseOK, WaitingOK, Instances, Callers
<1>12. CASE Stop
  BY <1>12, <1>1 DEF Stop, TypeOK, ListenerState, RunnerState, CallState,
     EnvState, PlacesOK, GateOK, PauseOK, WaitingOK, Instances, Callers
<1>13. CASE CloseAll
  BY <1>1, <1>13, CloseAllMoves, Zenon DEF GateOK, PauseOK, WaitingOK, PlacesOK
<1>14. CASE Resting
  BY <1>14, <1>1 DEF Resting, vars, TypeOK, ListenerState, RunnerState,
     CallState, EnvState, PlacesOK, GateOK, PauseOK, WaitingOK, Instances,
     Callers
<1>15. CASE \E k \in Listeners : Arrive(k)
  BY <1>15, <1>1 DEF Arrive, TypeOK, ListenerState, RunnerState, CallState,
     EnvState, PlacesOK, GateOK, PauseOK, WaitingOK, Instances, Callers
<1>16. CASE \E k \in Listeners : addListener(k)
  <2>1. PICK k \in Listeners : addListener(k)
    BY <1>16, Zenon
  <2>2. ~lis[k].watched
    BY <2>1, Zenon DEF IInv, GateOK, addListener
  <2>3. QED
    BY <1>1, <2>1, <2>2, AddMoves DEF GateOK, PauseOK, WaitingOK, PlacesOK
<1>17. CASE \E k \in Listeners : Enter(k)
  BY <1>17, <1>1 DEF Enter, TypeOK, ListenerState, RunnerState, CallState,
     EnvState, PlacesOK, GateOK, PauseOK, WaitingOK, Instances, Callers
<1>18. CASE \E k \in Listeners : ResumeEnter(k)
  BY <1>18, <1>1 DEF ResumeEnter, TypeOK, ListenerState, RunnerState,
     CallState, EnvState, PlacesOK, GateOK, PauseOK, WaitingOK, Instances,
     Callers
<1>19. CASE \E k \in Listeners : ResumeWatch(k)
  BY <1>19, <1>1 DEF ResumeWatch, watchListener, TypeOK, ListenerState,
     RunnerState, CallState, EnvState, PlacesOK, GateOK, PauseOK, WaitingOK,
     Instances, Callers
<1>20. CASE \E k \in Listeners : removeListener(k)
  BY <1>20, <1>1 DEF removeListener, Removed, TypeOK, ListenerState,
     RunnerState, CallState, EnvState, PlacesOK, GateOK, PauseOK, WaitingOK,
     Instances, Callers
<1>21. CASE \E k \in Listeners : retire(k)
  BY <1>21, <1>1 DEF retire, TypeOK, ListenerState, RunnerState, CallState,
     EnvState, PlacesOK, GateOK, PauseOK, WaitingOK, Instances, Callers
<1>22. CASE \E k \in Listeners, w \in Waiters : Collect(w, k)
  BY <1>22, <1>1 DEF Collect, TypeOK, ListenerState, RunnerState, CallState,
     EnvState, PlacesOK, GateOK, PauseOK, WaitingOK, Instances, Callers
<1>23. CASE \E w \in Callers : handOff(w)
  BY <1>23, <1>1 DEF handOff, Handed, TypeOK, ListenerState, RunnerState,
     CallState, EnvState, PlacesOK, GateOK, PauseOK, WaitingOK, Instances,
     Callers
<1>24. CASE \E w \in Callers : Kick(w)
  BY <1>24, <1>1 DEF Kick, TypeOK, ListenerState, RunnerState, CallState,
     EnvState, PlacesOK, GateOK, PauseOK, WaitingOK, Instances, Callers
<1>25. CASE \E w \in Callers : Leave(w)
  BY <1>25, <1>1 DEF Leave, TypeOK, ListenerState, RunnerState, CallState,
     EnvState, PlacesOK, GateOK, PauseOK, WaitingOK, Instances, Callers
<1>26. QED
  BY <1>2, <1>3, <1>4, <1>5, <1>6, <1>7, <1>8, <1>9, <1>10, <1>11, <1>12,
     <1>13, <1>14, <1>15, <1>16, <1>17, <1>18, <1>19, <1>20, <1>21, <1>22,
     <1>23, <1>24, <1>25 DEF Next

\* The descriptors.
LEMMA ClosedKeeps ==
    ASSUME Instances,
           IInv,
           Next,
           NEW l \in Listeners
    PROVE  ClosedOK(l)'
<1>1. TypeOK /\ PlacesOK /\ GateOK(l) /\ ClosedOK(l)
  BY Zenon DEF IInv
<1>2. CASE Shortage
  BY <1>1, <1>2, ShortageMoves, Zenon DEF GateOK, ClosedOK, Accepting, PlacesOK
<1>3. CASE Round
  BY <1>3, <1>1 DEF Round, TypeOK, ListenerState, RunnerState, CallState,
     EnvState, PlacesOK, GateOK, ClosedOK, Accepting, Instances, Callers
<1>4. CASE RoundsEnd
  BY <1>4, <1>1 DEF RoundsEnd, TypeOK, ListenerState, RunnerState, CallState,
     EnvState, PlacesOK, GateOK, ClosedOK, Accepting, Instances, Callers
<1>5. CASE AcceptOne
  BY <1>5, <1>1 DEF AcceptOne, TypeOK, ListenerState, RunnerState, CallState,
     EnvState, PlacesOK, GateOK, ClosedOK, Accepting, Instances, Callers
<1>6. CASE BatchFull
  BY <1>6, <1>1 DEF BatchFull, TypeOK, ListenerState, RunnerState, CallState,
     EnvState, PlacesOK, GateOK, ClosedOK, Accepting, Instances, Callers
<1>7. CASE WouldBlock
  BY <1>7, <1>1 DEF WouldBlock, TypeOK, ListenerState, RunnerState, CallState,
     EnvState, PlacesOK, GateOK, ClosedOK, Accepting, Instances, Callers
<1>8. CASE AcceptFails
  BY <1>8, <1>1 DEF AcceptFails, TypeOK, ListenerState, RunnerState,
     CallState, EnvState, PlacesOK, GateOK, ClosedOK, Accepting, Instances,
     Callers
<1>9. CASE pauseAccept
  <2>1. CASE lis[runner.l].paused
    BY <1>1, <1>9, <2>1 DEF pauseAccept, TypeOK, ListenerState, RunnerState,
       CallState, EnvState, PlacesOK, GateOK, ClosedOK, Accepting
  <2>2. CASE ~lis[runner.l].paused
    BY <1>1, <1>9, <2>2 DEF pauseAccept, TypeOK, ListenerState, RunnerState,
       CallState, EnvState, PlacesOK, GateOK, ClosedOK, Accepting
  <2>3. QED
    BY <2>1, <2>2, Zenon
<1>10. CASE Unwatch
  BY <1>1, <1>10, UnwatchMoves DEF GateOK, ClosedOK, Accepting, PlacesOK
<1>11. CASE Settle
  BY <1>11, <1>1 DEF Settle, TypeOK, ListenerState, RunnerState, CallState,
     EnvState, PlacesOK, GateOK, ClosedOK, Accepting, Instances, Callers
<1>12. CASE Stop
  BY <1>12, <1>1 DEF Stop, TypeOK, ListenerState, RunnerState, CallState,
     EnvState, PlacesOK, GateOK, ClosedOK, Accepting, Instances, Callers
<1>13. CASE CloseAll
  BY <1>1, <1>13, CloseAllMoves, Zenon DEF GateOK, ClosedOK, Accepting, PlacesOK
<1>14. CASE Resting
  BY <1>14, <1>1 DEF Resting, vars, TypeOK, ListenerState, RunnerState,
     CallState, EnvState, PlacesOK, GateOK, ClosedOK, Accepting, Instances,
     Callers
<1>15. CASE \E k \in Listeners : Arrive(k)
  BY <1>15, <1>1 DEF Arrive, TypeOK, ListenerState, RunnerState, CallState,
     EnvState, PlacesOK, GateOK, ClosedOK, Accepting, Instances, Callers
<1>16. CASE \E k \in Listeners : addListener(k)
  <2>1. PICK k \in Listeners : addListener(k)
    BY <1>16, Zenon
  <2>2. ~lis[k].watched
    BY <2>1, Zenon DEF IInv, GateOK, addListener
  <2>3. QED
    BY <1>1, <2>1, <2>2, AddMoves DEF GateOK, ClosedOK, Accepting, PlacesOK
<1>17. CASE \E k \in Listeners : Enter(k)
  BY <1>17, <1>1 DEF Enter, TypeOK, ListenerState, RunnerState, CallState,
     EnvState, PlacesOK, GateOK, ClosedOK, Accepting, Instances, Callers
<1>18. CASE \E k \in Listeners : ResumeEnter(k)
  BY <1>18, <1>1 DEF ResumeEnter, TypeOK, ListenerState, RunnerState,
     CallState, EnvState, PlacesOK, GateOK, ClosedOK, Accepting, Instances,
     Callers
<1>19. CASE \E k \in Listeners : ResumeWatch(k)
  BY <1>19, <1>1 DEF ResumeWatch, watchListener, TypeOK, ListenerState,
     RunnerState, CallState, EnvState, PlacesOK, GateOK, ClosedOK, Accepting,
     Instances, Callers
<1>20. CASE \E k \in Listeners : removeListener(k)
  BY <1>20, <1>1 DEF removeListener, Removed, TypeOK, ListenerState,
     RunnerState, CallState, EnvState, PlacesOK, GateOK, ClosedOK, Accepting,
     Instances, Callers
<1>21. CASE \E k \in Listeners : retire(k)
  BY <1>21, <1>1 DEF retire, TypeOK, ListenerState, RunnerState, CallState,
     EnvState, PlacesOK, GateOK, ClosedOK, Accepting, Instances, Callers
<1>22. CASE \E k \in Listeners, w \in Waiters : Collect(w, k)
  BY <1>22, <1>1 DEF Collect, TypeOK, ListenerState, RunnerState, CallState,
     EnvState, PlacesOK, GateOK, ClosedOK, Accepting, Instances, Callers
<1>23. CASE \E w \in Callers : handOff(w)
  BY <1>23, <1>1 DEF handOff, Handed, TypeOK, ListenerState, RunnerState,
     CallState, EnvState, PlacesOK, GateOK, ClosedOK, Accepting, Instances,
     Callers
<1>24. CASE \E w \in Callers : Kick(w)
  BY <1>24, <1>1 DEF Kick, TypeOK, ListenerState, RunnerState, CallState,
     EnvState, PlacesOK, GateOK, ClosedOK, Accepting, Instances, Callers
<1>25. CASE \E w \in Callers : Leave(w)
  BY <1>25, <1>1 DEF Leave, TypeOK, ListenerState, RunnerState, CallState,
     EnvState, PlacesOK, GateOK, ClosedOK, Accepting, Instances, Callers
<1>26. QED
  BY <1>2, <1>3, <1>4, <1>5, <1>6, <1>7, <1>8, <1>9, <1>10, <1>11, <1>12,
     <1>13, <1>14, <1>15, <1>16, <1>17, <1>18, <1>19, <1>20, <1>21, <1>22,
     <1>23, <1>24, <1>25 DEF Next

-----------------------------------------------------------------------------
(* Theorems                                                                *)

\* The invariant holds when the loop starts.
LEMMA InitIInv ==
    ASSUME Instances, Init
    PROVE  IInv
<1>1. TypeOK
  <2>1. opt \in Settings /\ opt.arrivals \in [Listeners -> Nat] /\ opt.shortages \in Nat
    BY Zenon DEF Init, Instances
  <2>2. opt.arrivals \in [Listeners -> Int] /\ opt.shortages \in Int
    BY <2>1
  <2>3. env \in EnvState
    BY <2>2, Zenon DEF Init, EnvState
  <2>4. lis \in [Listeners -> ListenerState]
    BY DEF Init, ListenerState
  <2>5. runner \in RunnerState
    BY DEF Init, RunnerState
  <2>6. call \in [Callers -> CallState]
    BY Zenon DEF Init, CallState
  <2>7. QED
    BY <2>1, <2>3, <2>4, <2>5, <2>6, Zenon DEF Init, TypeOK
<1>2. PlacesOK
  BY DEF Init, PlacesOK, Callers, None
<1>3. ASSUME NEW l \in Listeners
      PROVE  GateOK(l) /\ PauseOK(l) /\ HandedOK(l) /\ WaitingOK(l) /\ ClosedOK(l)
  <2>1. /\ lis[l] = [backlog |-> 0, listed |-> FALSE, watched |-> FALSE,
                     edge |-> FALSE, state |-> "idle", paused |-> FALSE,
                     timers |-> 0, users |-> 0, retired |-> FALSE, fd |-> "open"]
        /\ closer[l] = "idle" /\ \A w \in Callers : call[w].pc = "idle" /\ call[w].l # l
        /\ runner.pc = "wait" /\ env.stop = "run"
    BY DEF Init, Instances, Callers, None
  <2>2. GateOK(l)
    BY <2>1 DEF GateOK, Accepting, Callers
  <2>3. QED
    BY <2>1, <2>2 DEF PauseOK, HandedOK, WaitingOK, ClosedOK, Accepting
<1>4. QED
  BY <1>1, <1>2, <1>3, Zenon DEF IInv

\* Every step keeps it.
LEMMA NextIInv ==
    ASSUME Instances, IInv, [Next]_vars
    PROVE  IInv'
<1>1. CASE Next
  <2>1. TypeOK'
    BY <1>1, TypeKeeps, Zenon DEF IInv
  <2>2. PlacesOK'
    BY <1>1, PlacesKeep, Zenon
  <2>3. ASSUME NEW l \in Listeners
        PROVE  (GateOK(l) /\ PauseOK(l) /\ HandedOK(l) /\ WaitingOK(l) /\ ClosedOK(l))'
    BY <1>1, GateKeeps, PauseKeeps, HandedKeeps, WaitingKeeps, ClosedKeeps, Zenon
  <2>4. QED
    BY <2>1, <2>2, <2>3, Zenon DEF IInv
<1>2. CASE UNCHANGED vars
  <2>1. TypeOK' /\ PlacesOK'
    BY <1>2, Zenon DEF IInv, vars, TypeOK, PlacesOK
  <2>2. ASSUME NEW l \in Listeners
        PROVE  (GateOK(l) /\ PauseOK(l) /\ HandedOK(l) /\ WaitingOK(l) /\ ClosedOK(l))'
    <3>1. GateOK(l)' /\ PauseOK(l)'
      BY <1>2, Zenon DEF IInv, vars, GateOK, PauseOK, Accepting
    <3>2. HandedOK(l)'
      BY <1>2, Zenon DEF IInv, vars, HandedOK, Comes
    <3>3. WaitingOK(l)'
      BY <1>2, Zenon DEF IInv, vars, WaitingOK
    <3>4. ClosedOK(l)'
      BY <1>2, Zenon DEF IInv, vars, ClosedOK, Accepting
    <3>5. QED
      BY <3>1, <3>2, <3>3, <3>4, Zenon
  <2>3. QED
    BY <2>1, <2>2, Zenon DEF IInv
<1>3. QED
  BY <1>1, <1>2, Zenon

LEMMA Invariance ==
    ASSUME Instances
    PROVE  Spec => []IInv
<1>1. Init => IInv
  BY InitIInv, Zenon
<1>2. IInv /\ [Next]_vars => IInv'
  BY NextIInv, Zenon
<1>3. QED
  BY <1>1, <1>2, PTL DEF Spec

\* A connection that arrives at a listener of the loop is on its way to be
\* accepted: whatever edges, batches, shortages and pauses come, handOff, the
\* runner's rounds and resumeAccept between them never leave a backlog nobody
\* comes back to.
THEOREM ArrivalsAreTaken == Instances => (Spec => []BacklogTaken)
<1> SUFFICES ASSUME Instances PROVE Spec => []BacklogTaken
  OBVIOUS
<1>1. IInv => BacklogTaken
  <2> SUFFICES ASSUME IInv, NEW l \in Listeners, lis[l].backlog > 0, lis[l].listed,
                      env.stop = "run", ~env.failed, ~lis[l].edge,
                      \A w \in Callers :
                          ~(call[w].l = l /\ call[w].pc \in {"handOff", "watch"}),
                      ~(lis[l].timers > 0), ~(runner.l = l /\ runner.pc = "unwatch")
               PROVE  lis[l].state # "idle" /\ Comes(l)
    BY Zenon DEF BacklogTaken
  <2>1. \/ lis[l].state = "again"
        \/ lis[l].state = "running" /\ ~(runner.l = l /\ runner.pc = "settle")
    BY Zenon DEF IInv, WaitingOK
  <2>2. Comes(l) \/ runner.l = l
    BY <2>1, Zenon DEF IInv, HandedOK
  <2>3. ASSUME runner.l = l PROVE Comes(l)
    <3>1. runner.pc \in {"accept", "unwatch", "settle"}
      BY <2>3, Zenon DEF IInv, PlacesOK, Instances
    <3>2. QED
      BY <2>1, <2>3, <3>1, Zenon DEF Comes
  <2>4. QED
    BY <2>1, <2>2, <2>3, Zenon
<1>2. QED
  BY <1>1, Invariance, PTL

\* The runner does not accept on, and resumeAccept does not watch, a descriptor
\* Listener.Close has closed: the gate lets retire wait for whoever is inside.
THEOREM ClosedIsLeftAlone == Instances => (Spec => []NoStaleUse)
<1> SUFFICES ASSUME Instances PROVE Spec => []NoStaleUse
  OBVIOUS
<1>1. IInv => NoStaleUse
  <2> SUFFICES ASSUME IInv, NEW l \in Listeners, lis[l].fd = "closed"
               PROVE  /\ ~(runner.l = l /\ runner.pc \in {"accept", "unwatch"})
                      /\ call[l].pc = "watch" /\ lis[l].listed => env.stop = "done"
    BY Zenon DEF NoStaleUse
  <2>1. (closer[l] = "done" /\ ~Accepting(l)) \/ env.stop = "done"
    BY Zenon DEF IInv, ClosedOK
  <2>2. env.stop = "done" => runner.pc = "done"
    BY Zenon DEF IInv, PlacesOK
  <2>3. lis[l].listed => closer[l] = "idle"
    BY Zenon DEF IInv, GateOK
  <2>4. QED
    BY <2>1, <2>2, <2>3, Zenon DEF Accepting
<1>2. QED
  BY <1>1, Invariance, PTL

\* acceptor.close leaves no listener open, those that Listener.Close was
\* closing at the time included.
THEOREM ListenersAllClosed == Instances => (Spec => []AllClosed)
<1> SUFFICES ASSUME Instances PROVE Spec => []AllClosed
  OBVIOUS
<1>1. IInv => AllClosed
  BY Zenon DEF IInv, ClosedOK, AllClosed
<1>2. QED
  BY <1>1, Invariance, PTL
=============================================================================

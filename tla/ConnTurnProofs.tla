--------------------------- MODULE ConnTurnProofs ---------------------------
(***************************************************************************)
(* Proofs about ConnTurn, for any number of producers and workers.         *)
(*                                                                         *)
(* The invariants count: tasks against the claim bit, turns against the    *)
(* loop's count, holders against the write claim.  A step of one goroutine *)
(* changes each sum by what it does to the queues and by its own part, so  *)
(* the proof has two halves: what one action keeps for the goroutine that  *)
(* takes it (the ...Keeps lemmas, action by action), and that it then      *)
(* holds for the sums over all goroutines (AfterCounts).  The invariant    *)
(* needs three facts that are not about counts: the count stays zero from  *)
(* the moment stopIO saw it so (Joined), nobody meets a connection that is *)
(* still being registered (Unseen), and nobody is about to take the write  *)
(* claim of an abandoned one (Abandoned).                                  *)
(*                                                                         *)
(* The second part is about the connection as a whole: it implements       *)
(* ConnLifecycle, loses no event and no close while it serves, and leaves  *)
(* nothing behind when shutdown ends. Counting is not enough for that;     *)
(* LInv of ConnTurnInv says who owes what. ConnTurnSteps and ConnTurnCalls *)
(* show that one step keeps it, with the duties of all other goroutines    *)
(* one truth value each, and their lemmas are put together here.           *)
(***************************************************************************)
EXTENDS ConnTurnSteps, ConnTurnCalls, FiniteSetTheorems

----------------------------------------------------------------------------
(* From the goroutine that steps to all of them.                           *)

\* There are finitely many goroutines.
LEMMA ProcsFinite == IsFiniteSet(Procs)
<1>1. IsFiniteSet((Producers \cup Workers) \cup {Registrar})
  BY FS_Union, FS_AddElement, ProcsAssumption, Zenon
<1>2. IsFiniteSet(((Producers \cup Workers) \cup {Registrar}) \cup {Stopper})
  BY <1>1, FS_AddElement, Zenon
<1>3. QED
  BY <1>2, Zenon DEF Procs

\* Sets that agree but for p have cardinalities that differ by p.
LEMMA CardDelta ==
    ASSUME NEW S, NEW T, NEW p, IsFiniteSet(S), IsFiniteSet(T),
           S \ {p} = T \ {p}
    PROVE  /\ Cardinality(S) \in Nat /\ Cardinality(T) \in Nat
           /\ Cardinality(T) + Bit(p \in S) = Cardinality(S) + Bit(p \in T)
<1>1. Cardinality(S) \in Nat /\ Cardinality(T) \in Nat
  BY FS_CardinalityType, Zenon
<1>2. Cardinality(S \ {p}) = Cardinality(S) - Bit(p \in S)
  BY <1>1, FS_RemoveElement DEF Bit
<1>3. Cardinality(T \ {p}) = Cardinality(T) - Bit(p \in T)
  BY <1>1, FS_RemoveElement DEF Bit
<1>4. QED
  BY <1>1, <1>2, <1>3 DEF Bit

\* So every set of them has a cardinality.
LEMMA SetsFinite ==
    /\ IsFiniteSet(owners) /\ IsFiniteSet(senders) /\ IsFiniteSet(holders)
    /\ IsFiniteSet(counted) /\ IsFiniteSet(claiming)
  BY ProcsFinite, FS_Subset, Zenon DEF owners, senders, holders, counted,
     claiming

\* A set has at least the members one knows of.
LEMMA CardAtLeast ==
    ASSUME NEW S, NEW p, IsFiniteSet(S)
    PROVE  Cardinality(S) \in Nat /\ Cardinality(S) >= Bit(p \in S)
<1>1. Cardinality(S) \in Nat
  BY FS_CardinalityType, Zenon
<1>2. ASSUME p \in S PROVE Cardinality(S) >= 1
  BY <1>1, <1>2, FS_EmptySet
<1>3. QED
  BY <1>1, <1>2 DEF Bit

\* The invariant gives every goroutine what its step relies on.
LEMMA IInvBefore ==
    ASSUME IInv, NEW p \in Procs
    PROVE  Before(p) /\ Enough(p)
<1> USE DEF IInv
<1>1. /\ Cardinality(owners) \in Nat /\ Cardinality(owners) >= Bit(Owns(p))
      /\ Cardinality(holders) \in Nat /\ Cardinality(holders) >= Bit(Holds(p))
      /\ Cardinality(counted) \in Nat /\ Cardinality(counted) >= Bit(Counted(p))
      /\ Cardinality(claiming) \in Nat
      /\ Cardinality(claiming) >= Bit(pc[p] = "n_claim")
  <2>1. /\ p \in owners <=> Owns(p)
        /\ p \in holders <=> Holds(p)
        /\ p \in counted <=> Counted(p)
        /\ p \in claiming <=> pc[p] = "n_claim"
    BY Zenon DEF owners, holders, counted, claiming, At
  <2>2. QED
    BY <2>1, SetsFinite, CardAtLeast, Zenon DEF Bit
<1>2. Owns(p) => claimed /\ queued = 0 /\ rejected = 0
  BY <1>1 DEF OneTask, TypeOK, Bit
<1>3. Holds(p) => wclaim /\ wqueued = 0 /\ ~isReleased
  BY <1>1 DEF OneHolder, TypeOK, Bit
<1>4. Enough(p)
  BY <1>1 DEF CountExact, TypeOK, Enough, Bit
<1>5. QED
  BY <1>2, <1>3, <1>4, ZenonT(30) DEF Before, Control, Unseen, Abandoned,
     TypeOK

\* What one goroutine keeps, all of them together keep.
LEMMA AfterCounts ==
    ASSUME IInv, NEW p \in Procs, After(p)
    PROVE  TypeOK' /\ Control' /\ OneTask' /\ CountExact' /\ OneHolder'
<1>i. TypeOK /\ Control /\ OneTask /\ CountExact /\ OneHolder
  BY Zenon DEF IInv
<1>a. /\ TypeOK' /\ Moves(p)
      /\ ReturnOK(pc'[p], ret'[p]) /\ PlaceOK(p, pc'[p], ret'[p])
      /\ Balance(p)' = Balance(p) /\ Debt(p)' = Debt(p) /\ Tenure(p)' = Tenure(p)
  BY Zenon DEF After
<1>1. \A q \in Procs \ {p} : pc'[q] = pc[q] /\ ret'[q] = ret[q]
  BY <1>i, <1>a, Zenon DEF Moves, TypeOK
<1>2. Control'
  BY <1>i, <1>a, <1>1, ZenonT(30) DEF Control, Moves
<1>3. \A q \in Procs \ {p} :
        /\ (Owns(q))' <=> Owns(q)
        /\ (Holds(q))' <=> Holds(q)
        /\ (Counted(q))' <=> Counted(q)
        /\ (At(q, "n_claim"))' <=> At(q, "n_claim")
  BY <1>1, Zenon DEF Owns, Holds, Sends, Counted, At
<1>4. /\ IsFiniteSet(owners') /\ IsFiniteSet(holders')
      /\ IsFiniteSet(counted') /\ IsFiniteSet(claiming')
  BY ProcsFinite, FS_Subset, Zenon DEF owners, holders, counted, claiming
<1>5. OneTask'
  <2>1. owners \ {p} = owners' \ {p}
    BY <1>3, Zenon DEF owners
  <2>2. /\ p \in owners <=> Owns(p)
        /\ p \in owners' <=> (Owns(p))'
    BY Zenon DEF owners
  <2>3. /\ Cardinality(owners) \in Nat /\ Cardinality(owners') \in Nat
        /\ Cardinality(owners') + Bit(Owns(p)) = Cardinality(owners) + Bit((Owns(p))')
    BY <1>4, <2>1, <2>2, SetsFinite, CardDelta, ZenonT(30) DEF Bit
  <2>4. /\ queued \in Nat /\ rejected \in Nat
        /\ queued' \in Nat /\ rejected' \in Nat
    BY <1>i, <1>a, Zenon DEF TypeOK
  <2>5. /\ Bit(Owns(p)) \in Nat /\ Bit((Owns(p))') \in Nat
        /\ Bit(claimed) \in Nat /\ Bit(claimed') \in Nat
    BY Zenon DEF Bit
  <2>6. queued' + rejected' + Bit((Owns(p))') - Bit(claimed')
          = queued + rejected + Bit(Owns(p)) - Bit(claimed)
    BY <1>a, Zenon DEF Balance
  <2>7. queued + rejected + Cardinality(owners) = Bit(claimed)
    BY <1>i, Zenon DEF OneTask
  <2>8. Cardinality(owners') = Cardinality(owners) + Bit((Owns(p))') - Bit(Owns(p))
    BY <2>3, <2>5
  <2>9. queued' + rejected' + Cardinality(owners') = Bit(claimed')
    <3>1. Bit(claimed') = queued' + rejected' + Bit((Owns(p))')
                          - (queued + rejected + Bit(Owns(p)) - Bit(claimed))
      BY <2>4, <2>5, <2>6
    <3>2. QED
      BY <2>3, <2>4, <2>5, <2>7, <2>8, <3>1
  <2>10. QED
    BY <2>9, Zenon DEF OneTask
<1>6. CountExact'
  <2>1. counted \ {p} = counted' \ {p} /\ claiming \ {p} = claiming' \ {p}
    BY <1>3, Zenon DEF counted, claiming
  <2>2. /\ p \in counted <=> Counted(p)
        /\ p \in counted' <=> (Counted(p))'
        /\ p \in claiming <=> pc[p] = "n_claim"
        /\ p \in claiming' <=> pc'[p] = "n_claim"
    BY Zenon DEF counted, claiming, At
  <2>3. /\ Cardinality(counted) \in Nat /\ Cardinality(counted') \in Nat
        /\ Cardinality(counted') + Bit(Counted(p))
             = Cardinality(counted) + Bit((Counted(p))')
    BY <1>4, <2>1, <2>2, SetsFinite, CardDelta DEF Bit
  <2>4. /\ Cardinality(claiming) \in Nat /\ Cardinality(claiming') \in Nat
        /\ Cardinality(claiming') + Bit(pc[p] = "n_claim")
             = Cardinality(claiming) + Bit(pc'[p] = "n_claim")
    BY <1>4, <2>1, <2>2, SetsFinite, CardDelta DEF Bit
  <2>5. /\ queued \in Nat /\ rejected \in Nat /\ wqueued \in Nat /\ count \in Int
        /\ queued' \in Nat /\ rejected' \in Nat /\ wqueued' \in Nat
        /\ count' \in Int
    BY <1>i, <1>a, ZenonT(30) DEF TypeOK
  <2>6. /\ Bit(Counted(p)) \in Nat /\ Bit((Counted(p))') \in Nat
        /\ Bit(pc[p] = "n_claim") \in Nat /\ Bit(pc'[p] = "n_claim") \in Nat
    BY Zenon DEF Bit
  <2>7. count' - queued' - rejected' - wqueued'
          - Bit((Counted(p))') - Bit(pc'[p] = "n_claim")
        = count - queued - rejected - wqueued
          - Bit(Counted(p)) - Bit(pc[p] = "n_claim")
    BY <1>a, Zenon DEF Debt
  <2>8. count = queued + rejected + wqueued
                + Cardinality(counted) + Cardinality(claiming)
    BY <1>i, Zenon DEF CountExact
  <2>9. count' = queued' + rejected' + wqueued'
                 + Cardinality(counted') + Cardinality(claiming')
    BY <2>3, <2>4, <2>5, <2>6, <2>7, <2>8
  <2>10. QED
    BY <2>9, Zenon DEF CountExact
<1>7. OneHolder'
  <2>1. holders \ {p} = holders' \ {p}
    BY <1>3, Zenon DEF holders
  <2>2. /\ p \in holders <=> Holds(p)
        /\ p \in holders' <=> (Holds(p))'
    BY Zenon DEF holders
  <2>3. /\ Cardinality(holders) \in Nat /\ Cardinality(holders') \in Nat
        /\ Cardinality(holders') + Bit(Holds(p)) = Cardinality(holders) + Bit((Holds(p))')
    BY <1>4, <2>1, <2>2, SetsFinite, CardDelta, ZenonT(30) DEF Bit
  <2>4. wqueued \in Nat /\ wqueued' \in Nat
    BY <1>i, <1>a, Zenon DEF TypeOK
  <2>5. /\ Bit(Holds(p)) \in Nat /\ Bit((Holds(p))') \in Nat
        /\ Bit(wclaim) \in Nat /\ Bit(wclaim') \in Nat
        /\ Bit(isReleased /\ wclaim) \in Nat /\ Bit((isReleased /\ wclaim)') \in Nat
    BY Zenon DEF Bit
  <2>6. wqueued' + Bit((Holds(p))') + Bit((isReleased /\ wclaim)') - Bit(wclaim')
          = wqueued + Bit(Holds(p)) + Bit(isReleased /\ wclaim) - Bit(wclaim)
    BY <1>a, Zenon DEF Tenure
  <2>7. wqueued + Cardinality(holders) + Bit(isReleased /\ wclaim) = Bit(wclaim)
    BY <1>i, Zenon DEF OneHolder
  <2>8. Cardinality(holders') = Cardinality(holders) + Bit((Holds(p))') - Bit(Holds(p))
    BY <2>3, <2>5
  <2>9. wqueued' + Cardinality(holders') + Bit((isReleased /\ wclaim)') = Bit(wclaim')
    <3>1. Bit(wclaim') = wqueued' + Bit((Holds(p))') + Bit((isReleased /\ wclaim)')
            - (wqueued + Bit(Holds(p)) + Bit(isReleased /\ wclaim) - Bit(wclaim))
      BY <2>4, <2>5, <2>6
    <3>2. QED
      BY <2>3, <2>4, <2>5, <2>7, <2>8, <3>1
  <2>10. QED
    BY <2>9, Zenon DEF OneHolder
<1>8. QED
  BY <1>a, <1>2, <1>5, <1>6, <1>7, ZenonT(30)

----------------------------------------------------------------------------
(* The conjuncts that are not about counts.                                *)

\* The count stays zero once stopIO saw it, until the pass ends.
LEMMA JoinedKeeps ==
    ASSUME IInv, NEW p \in Procs, Step(p) \/ Start(p), After(p)
    PROVE  Joined'
<1>1. Before(p) /\ Enough(p)
  BY IInvBefore, Zenon
<1>2. CASE p # Stopper
  <2>1. Counts(p)
    BY <1>1, <1>2, CountSteps, Zenon
  <2>2. pc'[Stopper] = pc[Stopper] /\ ret'[Stopper] = ret[Stopper]
    BY <1>2, Zenon DEF After, Moves, IInv, TypeOK, Procs
  <2>3. count \in Int
    BY Zenon DEF IInv, TypeOK
  <2>4. Joined /\ ioIdle \in BOOLEAN /\ ioStop \in BOOLEAN
    BY Zenon DEF IInv, TypeOK
  <2>5. CASE UNCHANGED <<count, ioStop, ioIdle>>
    BY <2>2, <2>4, <2>5, Zenon DEF Joined, inPass
  <2>6. CASE /\ count' = count + 1 /\ UNCHANGED <<ioStop, ioIdle>>
             /\ ~ioStop \/ count > 0
    BY <2>2, <2>3, <2>4, <2>6 DEF Joined, inPass
  <2>7. CASE /\ count' = count - 1 /\ UNCHANGED ioStop /\ count > 0
             /\ ioIdle' = (ioIdle \/ (ioStop /\ count = 1))
    <3>1. CASE ioIdle
      BY <2>2, <2>3, <2>4, <2>7, <3>1 DEF Joined, inPass
    <3>2. CASE ~ioIdle
      BY <2>2, <2>3, <2>4, <2>7, <3>2 DEF Joined, inPass
    <3>3. QED
      BY <3>1, <3>2, Zenon
  <2>8. QED
    BY <2>1, <2>5, <2>6, <2>7, Zenon DEF Counts
<1>3. CASE p = Stopper
  <2>1. \/ ShutdownStart(p) \/ Shutdown(p)
        \/ Close(p) /\ inPass
    BY <1>1, <1>3, StopperActs, Zenon
  <2>2. Joined /\ p = Stopper /\ ReturnOK(pc[p], ret[p])
        /\ pc \in [Procs -> Labels] /\ ret \in [Procs -> Returns] /\ count \in Int
    BY <1>1, <1>3, ZenonT(30) DEF IInv, Before, TypeOK
  <2>3. CASE ShutdownStart(p)
    BY <2>2, <2>3, Zenon DEF ShutdownStart, Joined, inPass, At, Go, local,
       nLabels, dLabels, tLabels, sLabels, gLabels, fLabels, takers
  <2>4. CASE Shutdown(p)
    <3> USE DEF At, Go, Call, local, loop, Joined, inPass, ReturnOK,
           nLabels, dLabels, tLabels, sLabels, gLabels, fLabels, takers
    <3>1. CASE ShutdownLoops(p)
      BY <2>2, <3>1, Zenon DEF ShutdownLoops
    <3>2. CASE ClosePoller(p)
      BY <2>2, <3>2, Zenon DEF ClosePoller
    <3>3. CASE ShutdownBegin(p)
      BY <2>2, <3>3, Zenon DEF ShutdownBegin
    <3>4. CASE StopIO(p)
      BY <2>2, <3>4, ZenonT(30) DEF StopIO
    <3>5. CASE StopSum(p)
      <4>1. CASE ioIdle
        BY <2>2, <3>5, <4>1, ZenonT(30) DEF StopSum
      <4>2. CASE ~ioIdle
        BY <2>2, <3>5, <4>2, ZenonT(30) DEF StopSum
      <4>3. QED
        BY <4>1, <4>2, ZenonT(30)
    <3>6. CASE StopJoined(p)
      BY <2>2, <3>6, ZenonT(30) DEF StopJoined
    <3>7. CASE WaitIODrained(p)
      BY <2>2, <3>7, ZenonT(30) DEF WaitIODrained
    <3>8. QED
      BY <2>4, <3>1, <3>2, <3>3, <3>4, <3>5, <3>6, <3>7 DEF Shutdown
  <2>5. CASE Close(p) /\ inPass
    <3>1. UNCHANGED <<count, ioStop, ioIdle>> \/ ScheduleCloseClaim(p)
      BY <2>5, Zenon DEF Close, CloseClaim, CloseTaken, CloseSpin, CloseWait,
         CloseRetry, CloseRelease, CloseFlush, FireCloseCallback,
         ScheduleClose, loop
    <3>2. ioIdle /\ ioStop /\ count = 0
      BY <2>2, <2>5, Zenon DEF Joined
    <3>3. CASE UNCHANGED <<count, ioStop, ioIdle>>
      <4>1. pc'[p] \notin {"s_start", "s_loops", "s_poller", "s_begin", "s_stop"}
        BY <2>2, <2>5, ZenonT(30) DEF Close, CloseClaim, CloseTaken,
           CloseSpin, CloseWait, CloseRetry, CloseRelease, CloseFlush,
           FireCloseCallback, ScheduleClose, ScheduleCloseClaim, inPass, At,
           Go, Return
      <4>2. QED
        BY <2>2, <3>2, <3>3, <4>1, ZenonT(30) DEF Joined
    <3>4. CASE ScheduleCloseClaim(p)
      BY <2>2, <2>5, <3>2, <3>4, ZenonT(30) DEF ScheduleCloseClaim, Joined,
         inPass, Go, Return, loop, Acquire
    <3>5. QED
      BY <3>1, <3>3, <3>4, ZenonT(30)
  <2>6. QED
    BY <2>1, <2>3, <2>4, <2>5, ZenonT(30)
<1>4. QED
  BY <1>2, <1>3, Zenon

\* No step shows an unregistered connection to anybody.
LEMMA UnseenKeeps ==
    ASSUME IInv, NEW p \in Procs, Step(p) \/ Start(p), After(p)
    PROVE  Unseen'
<1> SUFFICES ASSUME pc'[Registrar] \in gLabels PROVE Unseen'
  BY Zenon DEF Unseen, fLabels, gLabels
<1>1. Registrar \in Procs /\ Stopper \in Procs
  BY Zenon DEF Procs
<1>2. Before(p) /\ Enough(p) /\ Before(Registrar) /\ Enough(Registrar)
  BY <1>1, IInvBefore, Zenon
<1>3. \A q \in Procs \ {p} : pc'[q] = pc[q] /\ ret'[q] = ret[q]
  BY Zenon DEF After, Moves, IInv, TypeOK
<1>4. pc[Registrar] \in gLabels /\ (p = Registrar => Register(p))
  BY <1>1, <1>2, <1>3, RegisteredOnce, Where, ZenonT(30)
<1>5. /\ opens = 0 /\ wclaim = FALSE /\ ~inPass
      /\ queued = 0 /\ rejected = 0 /\ wqueued = 0
      /\ \A q \in Producers \cup Workers :
           pc[q] \in nLabels \cup {"idle"} /\ ret[q] \in {"idle", "none"}
  BY <1>4, Zenon DEF IInv, Unseen
<1>6. pc[Registrar] \in fLabels =>
        /\ published = FALSE /\ claimed = (pc[Registrar] = "g_put")
        /\ \A q \in Producers \cup Workers : pc[q] = "idle"
  BY Zenon DEF IInv, Unseen
<1>7. pc[Registrar] \notin fLabels => claimed /\ count > 0
  <2>1. pc[Registrar] \notin fLabels => Owns(Registrar) /\ Counted(Registrar)
    BY <1>4, Zenon DEF Owns, Counted, nLabels, dLabels, tLabels, sLabels,
       gLabels, fLabels, takers
  <2>2. Counted(Registrar) => count > 0
    <3>1. count \in Int /\ Bit(Counted(Registrar)) \in Nat
          /\ Bit(pc[Registrar] = "n_claim") \in Nat
      BY Zenon DEF IInv, TypeOK, Bit
    <3>2. count >= Bit(Counted(Registrar))
      BY <1>2, <1>5, <3>1 DEF Enough
    <3>3. QED
      BY <3>1, <3>2 DEF Bit
  <2>3. QED
    BY <1>2, <2>1, <2>2, ZenonT(30) DEF Before
<1>8. CASE p \in Producers \cup Workers
  <2>1. p # Registrar /\ p # Stopper
    BY <1>8, ProcsAssumption, Zenon
  <2>2. pc'[Registrar] = pc[Registrar] /\ pc'[Stopper] = pc[Stopper]
        /\ ret'[Stopper] = ret[Stopper]
    BY <1>1, <1>3, <2>1, Zenon
  <2>3. ~exposed
    BY <1>4, <1>5 DEF exposed, gLabels
  <2>4. (Note(p) /\ pc[p] \in nLabels) \/ (Signal(p) /\ published)
    <3>1. ~Close(p) /\ ~Turn(p) /\ ~Reject(p) /\ ~Write(p) /\ ~Register(p)
          /\ ~Shutdown(p) /\ (Note(p) => pc[p] \in nLabels)
      BY <1>5, <1>8, Where DEF nLabels, dLabels, tLabels, sLabels, gLabels,
         fLabels, takers
    <3>2. Start(p) => Signal(p) /\ published
      BY <2>1, <2>3, ZenonT(30) DEF Start, Signal, CloseWith, KickStart,
         ShutdownStart
    <3>3. QED
      BY <3>1, <3>2, Zenon DEF Step
  <2>5. pc[Registrar] \notin fLabels
    BY <1>6, <1>8, <2>4, ZenonT(30) DEF Signal, nLabels, dLabels, tLabels,
       sLabels, gLabels, fLabels, takers
  <2>6. UNCHANGED <<opens, wclaim, queued, rejected, wqueued>>
    BY <1>7, <2>4, <2>5, ZenonT(30) DEF Note, NoteCheck, NoteFold,
       NoteAcquire, Acquire, NoteClaim, Submit, Release, End, Home, Signal,
       CallNote, task, write, life, calls
  <2>7. pc'[p] \in nLabels \cup {"idle"} /\ ret'[p] \in {"idle", "none"}
    BY <1>2, <1>5, <1>8, <2>4 DEF Note, NoteCheck, NoteFold, NoteAcquire,
       NoteClaim, End,
       Signal, CallNote, Call, Return, At, Go, local, Before, ReturnOK,
       nLabels, dLabels, tLabels, sLabels, gLabels, fLabels, takers
  <2>8. QED
    BY <1>3, <1>5, <2>1, <2>2, <2>5, <2>6, <2>7, ProcsAssumption DEF
       Unseen, inPass, Procs
<1>9. CASE p = Registrar
  <2>1. Register(p) /\ p # Stopper /\ p \notin Producers \cup Workers
    BY <1>4, <1>9, ProcsAssumption, Zenon
  <2>2. /\ \A q \in Producers \cup Workers : pc'[q] = pc[q] /\ ret'[q] = ret[q]
        /\ ret'[Stopper] = ret[Stopper]
    BY <1>1, <1>3, <2>1, ZenonT(30) DEF Procs
  <2>3. /\ UNCHANGED <<opens, wclaim, wqueued, queued, rejected>>
        /\ pc'[p] \in fLabels => pc[p] \in fLabels /\ UNCHANGED published
             /\ claimed' = (pc'[p] = "g_put")
    BY <1>2, <1>6, <1>9, <2>1, ZenonT(30) DEF Register, RegisterStart,
       RegisterNote,
       RegisterAcquire, Acquire, RegisterPut, Release, RegisterLook,
       RegisterLeave, abandon, RegisterDrop, RegisterClose, Home,
       RegisterSubmit, Submit, At, Go, task, write,
       life, calls, Before, TypeOK, nLabels, dLabels, tLabels, sLabels,
       gLabels, fLabels, takers
  <2>4. QED
    BY <1>5, <1>6, <1>9, <2>2, <2>3, ZenonT(30) DEF Unseen, inPass
<1>10. CASE p = Stopper
  <2>1. ShutdownStart(p) \/ Shutdown(p)
    BY <1>2, <1>5, <1>10, StopperActs, ZenonT(30)
  <2>2. /\ pc'[Registrar] = pc[Registrar]
        /\ \A q \in Producers \cup Workers : pc'[q] = pc[q] /\ ret'[q] = ret[q]
    BY <1>1, <1>3, <1>10, ProcsAssumption, ZenonT(30) DEF Procs
  <2>3. UNCHANGED <<task, write, published, calls>>
    BY <2>1, Zenon DEF Shutdown, ShutdownLoops, ClosePoller, ShutdownBegin,
       StopIO, StopSum, StopJoined, WaitIODrained, ShutdownStart, life
  <2>4. ret'[Stopper] # "s_drain"
    <3>1. CASE StopJoined(p)
      <4>1. count = 0
        BY <1>10, <3>1, Zenon DEF StopJoined, At, IInv, Joined
      <4>2. ~published
        BY <1>6, <1>7, <4>1
      <4>3. QED
        BY <1>5, <3>1, <4>2, Zenon DEF StopJoined, inPass
    <3>2. CASE ~StopJoined(p)
      <4>1. UNCHANGED ret
        BY <2>1, <3>2, Zenon DEF Shutdown, ShutdownLoops, ClosePoller,
           ShutdownBegin, StopIO, StopSum, WaitIODrained, ShutdownStart, local
      <4>2. QED
        BY <1>5, <4>1, Zenon DEF inPass
    <3>3. QED
      BY <3>1, <3>2, Zenon
  <2>5. QED
    BY <1>5, <1>6, <2>2, <2>3, <2>4, ZenonT(30) DEF Unseen, inPass, task,
       write, calls
<1>11. QED
  BY <1>8, <1>9, <1>10, ZenonT(30) DEF Procs

\* An abandoned connection's write claim stays free.
LEMMA AbandonedKeeps ==
    ASSUME IInv, NEW p \in Procs, Step(p) \/ Start(p), After(p)
    PROVE  Abandoned'
<1> SUFFICES ASSUME isReleased', ~wclaim', NEW q \in Procs PROVE pc'[q] \notin takers
  BY Zenon DEF Abandoned
<1>1. Before(p) /\ Before(Stopper)
  BY IInvBefore, Zenon DEF Procs
<1>2. Claims(p) /\ wclaim \in BOOLEAN
  BY <1>1, ClaimSteps, Zenon DEF IInv, TypeOK
<1>3. q # p => pc'[q] = pc[q]
  BY Zenon DEF After, Moves, IInv, TypeOK
<1>4. CASE isReleased
  <2>1. ~wclaim
    BY <1>2, <1>4, Zenon DEF Claims, isReleased
  <2>2. QED
    BY <1>2, <1>3, <1>4, <2>1, ZenonT(30) DEF Claims, IInv, Abandoned
<1>5. CASE ~isReleased
  <2>1. pc[p] \in gLabels /\ pc'[p] \notin takers
    BY <1>2, <1>5, Zenon DEF Claims
  <2>2. p = Registrar
    BY <1>1, <2>1, Zenon DEF Before, PlaceOK
  <2>3. /\ ~inPass
        /\ \A r \in Producers \cup Workers : pc[r] \in nLabels \cup {"idle"}
    BY <2>1, <2>2, Zenon DEF IInv, Unseen
  <2>4. pc[Stopper] \in sLabels
    BY <1>1, <2>3, Zenon DEF Before, PlaceOK, inPass
  <2>5. QED
    BY <1>3, <2>1, <2>2, <2>3, <2>4, ZenonT(30) DEF Procs, nLabels, dLabels,
       tLabels, sLabels, gLabels, fLabels, takers
<1>6. QED
  BY <1>4, <1>5, Zenon

----------------------------------------------------------------------------
(* The theorems.                                                           *)

\* IInv holds at the start.
LEMMA InitIInv == Init => IInv
<1> SUFFICES ASSUME Init PROVE IInv
  OBVIOUS
<1>1. TypeOK
  <2>1. pc \in [Procs -> Labels]
    BY DEF Init, Labels
  <2>2. ret \in [Procs -> Returns] /\ arg \in [Procs -> SUBSET Events]
    BY Zenon DEF Init, Returns
  <2>3. /\ events \subseteq Events /\ queued \in Nat /\ rejected \in Nat
        /\ wqueued \in Nat /\ opens \in Nat /\ closes \in Nat /\ count \in Int
    BY DEF Init
  <2>4. /\ claimed \in BOOLEAN /\ wclaim \in BOOLEAN /\ closeWait \in BOOLEAN
        /\ published \in BOOLEAN /\ ioStop \in BOOLEAN /\ ioIdle \in BOOLEAN
    BY Zenon DEF Init
  <2>5. phase \in Phases /\ stage \in {"serving", "closing", "stopping"}
    BY Zenon DEF Init, Phases
  <2>6. QED
    BY <2>1, <2>2, <2>3, <2>4, <2>5, ZenonT(30) DEF TypeOK
<1>2. /\ pc[Registrar] = "g_start" /\ pc[Stopper] = "s_start"
      /\ \A p \in Procs : ret[p] = "none" /\ pc[p] \in {"idle", "g_start", "s_start"}
      /\ \A p \in Procs : pc[p] = "g_start" => p = Registrar
      /\ \A p \in Procs : pc[p] = "s_start" <=> p = Stopper
      /\ \A p \in Producers \cup Workers : pc[p] = "idle"
  BY ProcsAssumption DEF Init, Procs
<1>3. Control
  BY <1>2 DEF Control, ReturnOK, PlaceOK, nLabels, dLabels, tLabels,
     sLabels, gLabels, fLabels, takers
<1>4. owners = {} /\ counted = {} /\ claiming = {} /\ holders = {}
  BY <1>2, ZenonT(30) DEF owners, counted, claiming, holders, Owns, Counted,
     Holds, Sends, At
<1>5. OneTask /\ CountExact /\ OneHolder
  BY <1>4, FS_EmptySet DEF Init, OneTask, CountExact, OneHolder, Bit
<1>6. Joined /\ Unseen /\ Abandoned
  <2>1. Joined
    BY <1>2, Zenon DEF Init, Joined, inPass, Procs
  <2>2. Unseen
    BY <1>2, Zenon DEF Init, Unseen, inPass, Procs, nLabels, dLabels, tLabels,
       sLabels, gLabels, fLabels, takers
  <2>3. Abandoned
    BY DEF Init, Abandoned, isReleased, closeOpen, closeResourcesReleased
  <2>4. QED
    BY <2>1, <2>2, <2>3, ZenonT(30)
<1>7. QED
  BY <1>1, <1>3, <1>5, <1>6, ZenonT(30) DEF IInv

\* Every step keeps it.
LEMMA NextIInv == IInv /\ [Next]_vars => IInv'
<1> SUFFICES ASSUME IInv, [Next]_vars PROVE IInv'
  OBVIOUS
<1>1. CASE \E p \in Procs : Step(p) \/ Start(p)
  <2>1. PICK p \in Procs : Step(p) \/ Start(p)
    BY <1>1, Zenon
  <2>2. Before(p)
    BY IInvBefore, Zenon
  <2>3. After(p)
    BY <2>1, <2>2, NoteKeeps, CloseKeeps, TurnKeeps, RejectKeeps, WriteKeeps,
       RegisterKeeps, ShutdownKeeps, StartKeeps, ZenonT(30) DEF Step
  <2>4. QED
    BY <2>1, <2>3, AfterCounts, JoinedKeeps, UnseenKeeps, AbandonedKeeps ,
       ZenonT(30) DEF IInv
<1>2. CASE UNCHANGED vars
  <2> USE <1>2 DEF vars, task, write, life, calls, loop, local
  <2>1. TypeOK' /\ Control'
    BY Zenon DEF IInv, TypeOK, Control
  <2>2. OneTask'
    BY Zenon DEF IInv, OneTask, owners, Owns
  <2>3. CountExact'
    BY DEF IInv, CountExact, counted, Counted, claiming, At
  <2>4. Joined'
    BY Zenon DEF IInv, Joined, inPass
  <2>5. OneHolder'
    BY Zenon DEF IInv, OneHolder, holders, Holds, Sends, isReleased
  <2>6. Unseen' /\ Abandoned'
    BY Zenon DEF IInv, Unseen, Abandoned, inPass, isReleased
  <2>7. QED
    BY <2>1, <2>2, <2>3, <2>4, <2>5, <2>6, ZenonT(30) DEF IInv
<1>3. QED
  BY <1>1, <1>2, Zenon DEF Next, Terminated

\* IInv holds in every reachable state.
LEMMA Invariance == Spec => []IInv
  BY InitIInv, NextIInv, PTL DEF Spec

\* Every variable keeps its type, for any number of goroutines.
THEOREM TypeCorrect == Spec => []TypeOK
  BY Invariance, PTL DEF IInv

\* A connection never has two tasks, and its claim bit is set exactly while it
\* has one, however many producers and workers race for the claim in noteIO,
\* finishIOTask, handleIOSubmitFailure and scheduleCloseCallback.
THEOREM TaskIsUnique == Spec => []OneTask
  BY Invariance, PTL DEF IInv

\* The turn count that stopIO and waitIODrained wait on is exactly what is
\* still to be given back.
THEOREM CountIsExact == Spec => []CountExact
  BY Invariance, PTL DEF IInv

\* The write claim is held by one write turn or one producer, and by none once
\* teardown has taken it for good.
THEOREM SenderIsUnique == Spec => []OneSender
<1>1. IInv => OneSender
  <2> SUFFICES ASSUME IInv PROVE OneSender
    OBVIOUS
  <2>1. Cardinality(senders) \in Nat /\ Cardinality(holders) \in Nat
        /\ Cardinality(senders) <= Cardinality(holders)
    <3>1. senders \subseteq holders
      BY Zenon DEF senders, holders, Holds
    <3>2. QED
      BY <3>1, SetsFinite, FS_Subset, FS_CardinalityType, ZenonT(30)
  <2>2. wqueued \in Nat
    BY Zenon DEF IInv, TypeOK
  <2>3. QED
    BY <2>1, <2>2 DEF OneSender, IInv, OneHolder, Bit
<1>2. QED
  BY <1>1, Invariance, PTL

\* No write turn sends on a descriptor that teardown has released.
THEOREM NoLateSend == Spec => []NoSendAfterRelease
<1>1. IInv => NoSendAfterRelease
  BY IInvBefore, Zenon DEF Before, NoSendAfterRelease, Holds, Sends
<1>2. QED
  BY <1>1, Invariance, PTL

\* While the shutdown pass releases the connection, no turn, handler or write
\* turn of it runs or is queued.
THEOREM PassIsAlone == Spec => []PassAlone
<1>1. IInv => PassAlone
  <2> SUFFICES ASSUME IInv, inPass PROVE PassAlone
    BY Zenon DEF PassAlone
  <2>1. count = 0
    BY Zenon DEF IInv, Joined
  <2>2. /\ Cardinality(counted) \in Nat /\ Cardinality(claiming) \in Nat
        /\ queued \in Nat /\ rejected \in Nat /\ wqueued \in Nat
    BY SetsFinite, FS_CardinalityType, Zenon DEF IInv, TypeOK
  <2>3. /\ Cardinality(counted) = 0 /\ Cardinality(claiming) = 0
        /\ queued = 0 /\ rejected = 0 /\ wqueued = 0
    BY <2>1, <2>2 DEF IInv, CountExact
  <2>4. QED
    BY <2>3, SetsFinite, FS_EmptySet, Zenon DEF PassAlone
<1>2. QED
  BY <1>1, Invariance, PTL


----------------------------------------------------------------------------
(* The duties of all goroutines.                                           *)

\* Every step of p keeps the duties, whatever the others owe: ow to hp say
\* whether one of them owns the task, closes, notes and so on.
LEMMA StepDuties ==
    ASSUME NEW p \in Procs,
           NEW ow, NEW cl, NEW no, NEW te, NEW re,
           NEW op, NEW cs, NEW fl, NEW sc, NEW hp,
           Owed(p, ow, cl, no, te, re, op, cs, fl, sc, hp), Step(p) \/ Start(p)
    PROVE  Kept(p, ow, cl, no, te, re, op, cs, fl, sc, hp)
<1>1. CASE Note(p)
  BY <1>1, NoteDuties, Zenon
<1>2. CASE Close(p)
  BY <1>2, CloseDuties, Zenon
<1>3. CASE Turn(p)
  BY <1>3, TurnDuties, Zenon
<1>4. CASE Reject(p)
  BY <1>4, RejectDuties, Zenon
<1>5. CASE Write(p)
  BY <1>5, WriteDuties, Zenon
<1>6. CASE Register(p)
  BY <1>6, RegisterDuties, Zenon
<1>7. CASE Shutdown(p)
  BY <1>7, ShutdownDuties, Zenon
<1>8. CASE Start(p)
  BY <1>8, StartDuties, Zenon
<1>9. QED
  BY <1>1, <1>2, <1>3, <1>4, <1>5, <1>6, <1>7, <1>8, Zenon DEF Step

\* Nobody else owns the task while p does, or while it is queued.
LEMMA OwnersApart ==
    ASSUME IInv, NEW p \in Procs, NEW q \in Procs \ {p}, Owns(q)
    PROVE  claimed /\ queued = 0 /\ rejected = 0 /\ ~Owns(p)
<1>1. claimed /\ queued = 0 /\ rejected = 0
  BY IInvBefore, ZenonT(30) DEF Before
<1>2. ASSUME Owns(p) PROVE FALSE
  <2>1. {p, q} \subseteq owners
    BY <1>2, ZenonT(30) DEF owners
  <2>2. Cardinality({p, q}) = 2
    <3>1. IsFiniteSet({q}) /\ Cardinality({q}) = 1
      BY FS_Singleton, Zenon
    <3>2. Cardinality({q} \cup {p}) = 2
      BY <3>1, FS_AddElement
    <3>3. {p, q} = {q} \cup {p}
      OBVIOUS
    <3>4. QED
      BY <3>2, <3>3, ZenonT(30)
  <2>3. Cardinality(owners) >= 2
    BY <2>1, <2>2, SetsFinite, FS_Subset, FS_CardinalityType
  <2>4. QED
    BY <1>1, <2>3, SetsFinite, FS_CardinalityType DEF IInv, OneTask, Bit
<1>3. QED
  BY <1>1, <1>2, Zenon

\* The invariant gives a step what it relies on.
LEMMA InvKnown ==
    ASSUME IInv, NEW p \in Procs, Knows(p), NEW ow \in BOOLEAN,
           ow <=> \E q \in Procs \ {p} : Owns(q)
    PROVE  Known(p, ow)
<1>1. Before(p) /\ Joined
  BY IInvBefore, Zenon DEF IInv
<1>2. ow => claimed /\ queued = 0 /\ rejected = 0 /\ ~Owns(p)
  BY OwnersApart, Zenon
<1>3. Registrar \in Procs /\ Stopper \in Procs
  BY Zenon DEF Procs
<1>4. /\ Cardinality(counted) \in Nat /\ Cardinality(claiming) \in Nat
      /\ queued \in Nat /\ rejected \in Nat /\ wqueued \in Nat
      /\ Cardinality(owners) \in Nat
  BY SetsFinite, FS_CardinalityType, ZenonT(30) DEF IInv, TypeOK
<1>5. count = 0 => counted = {} /\ claiming = {} /\ queued = 0 /\ rejected = 0
  <2>1. count = 0 => Cardinality(counted) = 0 /\ Cardinality(claiming) = 0
                     /\ queued = 0 /\ rejected = 0
    BY <1>4 DEF IInv, CountExact
  <2>2. QED
    BY <2>1, SetsFinite, FS_EmptySet, ZenonT(30)
<1>6. count = 0 => ~Counted(Registrar)
  BY <1>3, <1>5, Zenon DEF counted
<1>7. ASSUME inPass
      PROVE  /\ ~ow /\ claimed = FALSE /\ queued = 0 /\ rejected = 0
             /\ p # Stopper => ~Counted(p) /\ pc[p] # "n_claim"
  <2>1. counted = {} /\ claiming = {} /\ queued = 0 /\ rejected = 0
    BY <1>5, <1>7, ZenonT(30) DEF IInv, Joined
  <2>2. ~Counted(p) /\ pc[p] # "n_claim"
    BY <2>1, Zenon DEF counted, claiming, At
  <2>3. \A q \in Procs : ~Owns(q)
    <3> SUFFICES ASSUME NEW q \in Procs, Owns(q) PROVE FALSE
      OBVIOUS
    <3>1. Counted(q)
      BY Zenon DEF Owns, Counted
    <3>2. QED
      BY <2>1, <3>1, Zenon DEF counted
  <2>4. owners = {}
    BY <2>3, Zenon DEF owners
  <2>5. claimed = FALSE
    BY <2>1, <2>4, FS_EmptySet DEF IInv, TypeOK, OneTask, Bit
  <2>6. QED
    BY <2>1, <2>2, <2>3, <2>5, ZenonT(30)
<1>8. TaskAlone(p, ow) /\ SolePass(p, ow)
  BY <1>1, <1>2, <1>7, ZenonT(30) DEF Before, TaskAlone, SolePass
<1>9. Unregistered(p)
  BY <1>6, ZenonT(30) DEF IInv, Unseen, Unregistered
<1>10. /\ TypeOK
       /\ ReturnOK(pc[p], ret[p]) /\ PlaceOK(p, pc[p], ret[p])
  BY <1>1, Zenon DEF Before
<1>11. QED
  BY <1>1, <1>8, <1>9, <1>10, ZenonT(30) DEF Known

\* A goroutine that opens, retries or handles a refusal owns the task, and
\* one that closes owns it or is the shutdown pass.
LEMMA DutiesOwn ==
    ASSUME IInv, LInv, NEW q \in Procs
    PROVE  /\ Opener(q) \/ Retrier(q) \/ Refuser(q) => Owns(q)
           /\ Closer(q) => Owns(q) \/ (q = Stopper /\ inPass)
<1>1. ReturnOK(pc[q], ret[q]) /\ PlaceOK(q, pc[q], ret[q]) /\ Knows(q)
  BY Zenon DEF IInv, Control, LInv
<1>2. QED
  BY <1>1 DEF ReturnOK, PlaceOK, Knows, Opener, Retrier, Refuser, Closer,
     Owns,
     inPass, nLabels, dLabels, tLabels

\* Every step keeps the invariant, and is one of ConnLifecycle.
LEMMA StepLInv ==
    ASSUME IInv, LInv, NEW p \in Procs, Step(p) \/ Start(p), After(p)
    PROVE  LInv' /\ LifeStep
<1>1. PICK ow \in BOOLEAN : ow <=> \E q \in Procs \ {p} : Owns(q)
  BY Zenon
<1>2. PICK cl \in BOOLEAN : cl <=> \E q \in Procs \ {p} : Claimer(q)
  BY Zenon
<1>3. PICK no \in BOOLEAN : no <=> \E q \in Procs \ {p} : Noter(q)
  BY Zenon
<1>4. PICK te \in BOOLEAN : te <=> \E q \in Procs \ {p} : Tearer(q)
  BY Zenon
<1>5. PICK re \in BOOLEAN : re <=> \E q \in Procs \ {p} : Retrier(q)
  BY Zenon
<1>6. PICK op \in BOOLEAN : op <=> \E q \in Procs \ {p} : Opener(q)
  BY Zenon
<1>7. PICK cs \in BOOLEAN : cs <=> \E q \in Procs \ {p} : Closer(q)
  BY Zenon
<1>8. PICK fl \in BOOLEAN : fl <=> \E q \in Procs \ {p} : Flusher(q)
  BY Zenon
<1>9. PICK sc \in BOOLEAN : sc <=> \E q \in Procs \ {p} : Scheduler(q)
  BY Zenon
<1>10. PICK hp \in BOOLEAN : hp <=> \E q \in Procs \ {p} : Refuser(q)
  BY Zenon
<1>11. \A q \in Procs \ {p} : pc'[q] = pc[q] /\ arg'[q] = arg[q]
  BY ArgMoves, ZenonT(30) DEF After, Moves, IInv, TypeOK
<1>12. \A q \in Procs \ {p} :
         /\ Claimer(q)' <=> Claimer(q)
         /\ Noter(q)' <=> Noter(q)
         /\ Tearer(q)' <=> Tearer(q)
         /\ Retrier(q)' <=> Retrier(q)
         /\ Opener(q)' <=> Opener(q)
         /\ Closer(q)' <=> Closer(q)
         /\ Flusher(q)' <=> Flusher(q)
         /\ Scheduler(q)' <=> Scheduler(q)
         /\ Refuser(q)' <=> Refuser(q)
  BY <1>11, Zenon DEF Claimer, Noter, Tearer, Retrier, Opener, Closer,
     Flusher, Scheduler, Refuser
<1>13. /\ (\E q \in Procs : Claimer(q)) <=> cl \/ Claimer(p)
       /\ (\E q \in Procs : Noter(q)) <=> no \/ Noter(p)
       /\ (\E q \in Procs : Tearer(q)) <=> te \/ Tearer(p)
       /\ (\E q \in Procs : Retrier(q)) <=> re \/ Retrier(p)
       /\ (\E q \in Procs : Opener(q)) <=> op \/ Opener(p)
       /\ (\E q \in Procs : Closer(q)) <=> cs \/ Closer(p)
       /\ (\E q \in Procs : Flusher(q)) <=> fl \/ Flusher(p)
       /\ (\E q \in Procs : Scheduler(q)) <=> sc \/ Scheduler(p)
       /\ (\E q \in Procs : Refuser(q)) <=> hp \/ Refuser(p)
  BY <1>2, <1>3, <1>4, <1>5, <1>6, <1>7, <1>8, <1>9, <1>10
<1>14. /\ (\E q \in Procs : Claimer(q))' <=> cl \/ Claimer(p)'
       /\ (\E q \in Procs : Noter(q))' <=> no \/ Noter(p)'
       /\ (\E q \in Procs : Tearer(q))' <=> te \/ Tearer(p)'
       /\ (\E q \in Procs : Retrier(q))' <=> re \/ Retrier(p)'
       /\ (\E q \in Procs : Opener(q))' <=> op \/ Opener(p)'
       /\ (\E q \in Procs : Closer(q))' <=> cs \/ Closer(p)'
       /\ (\E q \in Procs : Flusher(q))' <=> fl \/ Flusher(p)'
       /\ (\E q \in Procs : Scheduler(q))' <=> sc \/ Scheduler(p)'
       /\ (\E q \in Procs : Refuser(q))' <=> hp \/ Refuser(p)'
  BY <1>12, <1>2, <1>3, <1>4, <1>5, <1>6, <1>7, <1>8, <1>9, <1>10
<1>15. /\ CallsOK(op \/ Opener(p), cs \/ Closer(p))
       /\ EventsOK(cl \/ Claimer(p))
       /\ TeardownOK(cl \/ Claimer(p), no \/ Noter(p),
                     te \/ Tearer(p), re \/ Retrier(p))
       /\ DeliverOK(cl \/ Claimer(p), cs \/ Closer(p), sc \/ Scheduler(p))
       /\ PassOK(cs \/ Closer(p), fl \/ Flusher(p), hp \/ Refuser(p))
       /\ StagesOK /\ Knows(p) /\ ("close" \in events => isReleased)
  <2>1. CallsOK(op \/ Opener(p), cs \/ Closer(p))
    BY <1>13, ZenonT(30) DEF LInv, CallsOK
  <2>2. EventsOK(cl \/ Claimer(p))
    BY <1>13, ZenonT(30) DEF LInv, EventsOK
  <2>3. TeardownOK(cl \/ Claimer(p), no \/ Noter(p),
                  te \/ Tearer(p), re \/ Retrier(p))
    BY <1>13, Zenon DEF LInv, TeardownOK
  <2>4. DeliverOK(cl \/ Claimer(p), cs \/ Closer(p), sc \/ Scheduler(p))
    BY <1>13, Zenon DEF LInv, DeliverOK
  <2>5. PassOK(cs \/ Closer(p), fl \/ Flusher(p), hp \/ Refuser(p))
    BY <1>13, Zenon DEF LInv, PassOK
  <2>6. StagesOK /\ Knows(p) /\ ("close" \in events => isReleased)
    BY Zenon DEF LInv, CallsOK
  <2>7. QED
    BY <2>1, <2>2, <2>3, <2>4, <2>5, <2>6, ZenonT(30)
<1>16. Known(p, ow)
  BY <1>1, <1>15, InvKnown, ZenonT(30)
<1>17. /\ op \/ re \/ hp => ow
       /\ fl => cs
       /\ Alone(p, ow, cs)
  <2>1. op \/ re \/ hp => ow
    BY <1>1, <1>5, <1>6, <1>10, DutiesOwn, ZenonT(30)
  <2>2. fl => cs
    BY <1>7, <1>8, ZenonT(30) DEF Flusher, Closer
  <2>3. Alone(p, ow, cs)
    BY <1>1, <1>7, DutiesOwn, ZenonT(30) DEF Alone
  <2>4. QED
    BY <2>1, <2>2, <2>3, ZenonT(30)
<1>18. Owed(p, ow, cl, no, te, re, op, cs, fl, sc, hp)
  BY <1>15, <1>16, <1>17, ZenonT(30) DEF Owed
<1>19. Kept(p, ow, cl, no, te, re, op, cs, fl, sc, hp)
  BY <1>18, StepDuties, ZenonT(30)
<1>20. /\ phase' >= phase /\ (ioStop => ioStop') /\ Knows(p)'
       /\ StagesOK' /\ LifeStep
       /\ CallsOK(op \/ Opener(p), cs \/ Closer(p))'
       /\ EventsOK(cl \/ Claimer(p))'
       /\ TeardownOK(cl \/ Claimer(p), no \/ Noter(p),
                     te \/ Tearer(p), re \/ Retrier(p))'
       /\ DeliverOK(cl \/ Claimer(p), cs \/ Closer(p), sc \/ Scheduler(p))'
       /\ PassOK(cs \/ Closer(p), fl \/ Flusher(p), hp \/ Refuser(p))'
  BY <1>19, Zenon DEF Kept
<1>21. /\ CallsOK(\E q \in Procs : Opener(q), \E q \in Procs : Closer(q))'
       /\ EventsOK(\E q \in Procs : Claimer(q))'
       /\ TeardownOK(\E q \in Procs : Claimer(q), \E q \in Procs : Noter(q),
                     \E q \in Procs : Tearer(q), \E q \in Procs : Retrier(q))'
       /\ DeliverOK(\E q \in Procs : Claimer(q), \E q \in Procs : Closer(q),
                    \E q \in Procs : Scheduler(q))'
       /\ PassOK(\E q \in Procs : Closer(q), \E q \in Procs : Flusher(q),
                 \E q \in Procs : Refuser(q))'
  <2>1. CallsOK(\E q \in Procs : Opener(q), \E q \in Procs : Closer(q))'
    BY <1>14, <1>20, ZenonT(30) DEF CallsOK
  <2>2. EventsOK(\E q \in Procs : Claimer(q))'
    BY <1>14, <1>20, ZenonT(30) DEF EventsOK
  <2>3. TeardownOK(\E q \in Procs : Claimer(q), \E q \in Procs : Noter(q),
                   \E q \in Procs : Tearer(q), \E q \in Procs : Retrier(q))'
    BY <1>14, <1>20, ZenonT(30) DEF TeardownOK
  <2>4. DeliverOK(\E q \in Procs : Claimer(q), \E q \in Procs : Closer(q),
                  \E q \in Procs : Scheduler(q))'
    BY <1>14, <1>20, ZenonT(30) DEF DeliverOK
  <2>5. PassOK(\E q \in Procs : Closer(q), \E q \in Procs : Flusher(q),
               \E q \in Procs : Refuser(q))'
    BY <1>14, <1>20, ZenonT(30) DEF PassOK
  <2>6. QED
    BY <2>1, <2>2, <2>3, <2>4, <2>5, ZenonT(30)
<1>22. ASSUME NEW q \in Procs PROVE Knows(q)'
  <2>1. CASE q = p
    BY <1>20, <2>1, ZenonT(30)
  <2>2. CASE q # p
    <3>1. Knows(q) /\ phase \in Phases /\ phase' \in Phases
      BY ZenonT(30) DEF LInv, IInv, TypeOK, After
    <3>2. (isClosing => isClosing') /\ (isReleased => isReleased')
      BY <1>20, <3>1 DEF isClosing, isReleased, Phases, closeOpen,
         closeRequested,
         closeResourcesReleased, closeCallbackDelivered
    <3>3. QED
      BY <1>11, <1>20, <2>2, <3>1, <3>2, ZenonT(30) DEF Knows
  <2>3. QED
    BY <2>1, <2>2, ZenonT(30)
<1>23. QED
  BY <1>20, <1>21, <1>22, ZenonT(30) DEF LInv

\* It holds at first.
LEMMA InitLInv == Init => LInv
<1> SUFFICES ASSUME Init PROVE LInv
  OBVIOUS
<1>1. /\ pc[Registrar] = "g_start" /\ pc[Stopper] = "s_start"
      /\ \A q \in Procs : pc[q] \in {"idle", "g_start", "s_start"}
  BY ProcsAssumption, Zenon DEF Init, Procs
<1>2. \A q \in Procs : ~Opener(q) /\ ~Closer(q) /\ Knows(q)
  BY <1>1, Zenon DEF Opener, Closer, Knows
<1>3. StagesOK
  BY <1>1 DEF Init, StagesOK, stopping, isReleased, closeOpen,
     closeResourcesReleased, gLabels
<1>4. CallsOK(\E q \in Procs : Opener(q), \E q \in Procs : Closer(q))
  BY <1>1, <1>2 DEF Init, CallsOK, isReleased, closeOpen,
     closeResourcesReleased, closeCallbackDelivered
<1>5. /\ phase = 0 /\ events = {} /\ published = FALSE
      /\ pc[Registrar] = "g_start" /\ pc[Stopper] = "s_start"
  BY <1>1, ZenonT(30) DEF Init, closeOpen
<1>6. /\ EventsOK(\E q \in Procs : Claimer(q))
      /\ TeardownOK(\E q \in Procs : Claimer(q), \E q \in Procs : Noter(q),
                    \E q \in Procs : Tearer(q), \E q \in Procs : Retrier(q))
      /\ DeliverOK(\E q \in Procs : Claimer(q), \E q \in Procs : Closer(q),
                   \E q \in Procs : Scheduler(q))
  BY <1>5 DEF EventsOK, TeardownOK, DeliverOK, closeRequested,
     closeResourcesReleased
<1>7. PassOK(\E q \in Procs : Closer(q), \E q \in Procs : Flusher(q),
             \E q \in Procs : Refuser(q))
  BY <1>5 DEF PassOK, closeResourcesReleased, gLabels
<1>8. QED
  BY <1>2, <1>3, <1>4, <1>6, <1>7, ZenonT(30) DEF LInv

\* Every step keeps it.
LEMMA NextLInv == IInv /\ LInv /\ [Next]_vars => LInv' /\ LifeStep
<1> SUFFICES ASSUME IInv, LInv, [Next]_vars PROVE LInv' /\ LifeStep
  OBVIOUS
<1>1. CASE \E p \in Procs : Step(p) \/ Start(p)
  <2>1. PICK p \in Procs : Step(p) \/ Start(p)
    BY <1>1, Zenon
  <2>2. After(p)
    BY <2>1, IInvBefore, NoteKeeps, CloseKeeps, TurnKeeps, RejectKeeps,
       WriteKeeps, RegisterKeeps, ShutdownKeeps, StartKeeps DEF Step
  <2>3. QED
    BY <2>1, <2>2, StepLInv, ZenonT(30)
<1>2. CASE UNCHANGED vars
  <2> USE DEF vars, task, write, life, calls, loop, local
  <2>1. LifeStep
    BY <1>2, Zenon DEF LifeStep
  <2>2. CallsOK(\E q \in Procs : Opener(q), \E q \in Procs : Closer(q))'
    BY <1>2, Zenon DEF LInv, CallsOK, Opener, Closer, isReleased
  <2>3. StagesOK'
    BY <1>2, ZenonT(30) DEF LInv, StagesOK, stopping, isReleased, isClosing
  <2>4. EventsOK(\E q \in Procs : Claimer(q))'
    BY <1>2, ZenonT(30) DEF LInv, EventsOK, Claimer
  <2>5. TeardownOK(\E q \in Procs : Claimer(q), \E q \in Procs : Noter(q),
                   \E q \in Procs : Tearer(q), \E q \in Procs : Retrier(q))'
    BY <1>2, Zenon DEF LInv, TeardownOK, Claimer, Noter, Tearer, Retrier
  <2>6. DeliverOK(\E q \in Procs : Claimer(q), \E q \in Procs : Closer(q),
                  \E q \in Procs : Scheduler(q))'
    BY <1>2, ZenonT(30) DEF LInv, DeliverOK, Claimer, Closer, Scheduler
  <2>7. PassOK(\E q \in Procs : Closer(q), \E q \in Procs : Flusher(q),
               \E q \in Procs : Refuser(q))'
    BY <1>2, ZenonT(30) DEF LInv, PassOK, Closer, Flusher, Refuser, isReleased
  <2>8. (\A q \in Procs : Knows(q))'
    BY <1>2, Zenon DEF LInv, Knows, isReleased, isClosing
  <2>9. QED
    BY <2>1, <2>2, <2>3, <2>4, <2>5, <2>6, <2>7, <2>8, ZenonT(30) DEF LInv
<1>3. QED
  BY <1>1, <1>2, Zenon DEF Next, Terminated

\* LInv holds in every reachable state.
LEMMA LifeInvariance == Spec => [](IInv /\ LInv)
<1>1. Init => IInv /\ LInv
  BY InitIInv, InitLInv, Zenon
<1>2. (IInv /\ LInv) /\ [Next]_vars => (IInv /\ LInv)'
  BY NextIInv, NextLInv, Zenon
<1>3. QED
  BY <1>1, <1>2, PTL DEF Spec

----------------------------------------------------------------------------
(* The theorems.                                                           *)

\* Whatever the races between turns, refusals, write turns, registration and
\* shutdown, phase, OnOpen and OnClose follow ConnLifecycle: OnOpen at most once
\* and never after the release, request before release before report, and
\* OnClose exactly for a connection that had OnOpen.
THEOREM FollowsLifecycle == Spec => Implements
<1>1. Init => Lifecycle!Init
  BY Zenon DEF Init, Lifecycle!Init, closeOpen, Lifecycle!closeOpen
<1>2. IInv /\ LInv /\ [Next]_vars => [Lifecycle!Next]_(Lifecycle!vars)
  BY NextLInv, Zenon DEF LifeStep, Lifecycle!vars
<1>3. QED
  BY <1>1, <1>2, LifeInvariance, PTL DEF Spec, Implements, Lifecycle!Spec

\* While Serve runs and everyone has gone idle, no event of an open connection
\* waits without a task, and a close that was requested (CloseWith, a failed
\* send, a refused turn) has been carried out and reported.
THEOREM NothingIsLost == Spec => []NothingLost
<1>1. IInv /\ LInv => NothingLost
  <2> SUFFICES ASSUME IInv, LInv, Quiet, queued = 0, rejected = 0, wqueued = 0,
                      stage = "serving"
               PROVE  \/ phase = closeOpen /\ events = {}
                      \/ phase = closeCallbackDelivered /\ closes = opens
    BY Zenon DEF NothingLost
  <2>1. pc[Stopper] = "s_start"
    BY Zenon DEF LInv, StagesOK
  <2>2. \A q \in Procs : pc[q] \in {"idle", "done", "s_start"} /\ ret[q] = "none"
    <3> SUFFICES ASSUME NEW q \in Procs
                 PROVE  pc[q] \in {"idle", "done", "s_start"} /\ ret[q] = "none"
      OBVIOUS
    <3>1. pc[q] \in {"idle", "done", "s_start"}
      BY <2>1, Zenon DEF Quiet, Home, At
    <3>2. QED
      BY <3>1, ZenonT(30) DEF IInv, Control, ReturnOK, nLabels, dLabels,
         tLabels
  <2>3. owners = {} /\ holders = {}
    BY <2>2, Zenon DEF owners, holders, Owns, Holds, Sends
  <2>4. claimed = FALSE
    BY <2>3, FS_EmptySet DEF IInv, TypeOK, OneTask, Bit
  <2>5. ~isReleased => wclaim = FALSE
    BY <2>3, FS_EmptySet DEF IInv, TypeOK, OneHolder, Bit
  <2>6. \A q \in Procs : /\ ~Claimer(q) /\ ~Noter(q) /\ ~Tearer(q)
                         /\ ~Closer(q) /\ ~Scheduler(q)
    BY <2>2, ZenonT(30) DEF Claimer, Noter, Tearer, Closer, Scheduler
  <2>7. pc[Registrar] = "done"
    BY ProcsAssumption, ZenonT(30) DEF Quiet, Home, At, Procs
  <2>8. phase # closeRequested
    BY <2>4, <2>5, <2>6 DEF LInv, TeardownOK, isReleased, closeRequested,
       closeResourcesReleased
  <2>9. phase # closeResourcesReleased
    BY <2>4, <2>6, ZenonT(30) DEF LInv, DeliverOK
  <2>10. phase = closeOpen => events = {}
    BY <2>4, <2>6, <2>7, ZenonT(30) DEF LInv, EventsOK
  <2>11. phase = closeCallbackDelivered => closes = opens
    BY Zenon DEF LInv, CallsOK
  <2>12. QED
    BY <2>8, <2>9, <2>10, <2>11, ZenonT(30) DEF IInv, TypeOK, Phases
<1>2. QED
  BY <1>1, LifeInvariance, PTL

\* Once waitIODrained has returned, the count stays zero.
Drained == pc[Stopper] = "s_done" => count = 0

\* Nobody counts anew on a stopped loop.
LEMMA DrainedKeeps == IInv /\ Drained /\ [Next]_vars => Drained'
<1> SUFFICES ASSUME IInv, Drained, [Next]_vars PROVE Drained'
  OBVIOUS
<1>1. CASE \E p \in Procs : Step(p) \/ Start(p)
  <2>1. PICK p \in Procs : Step(p) \/ Start(p)
    BY <1>1, Zenon
  <2>2. Before(p) /\ Enough(p)
    BY IInvBefore, Zenon
  <2>3. After(p)
    BY <2>1, <2>2, NoteKeeps, CloseKeeps, TurnKeeps, RejectKeeps, WriteKeeps,
       RegisterKeeps, ShutdownKeeps, StartKeeps, ZenonT(30) DEF Step
  <2>4. CASE p # Stopper
    <3>1. Counts(p)
      BY <2>1, <2>2, <2>4, CountSteps, ZenonT(30)
    <3>2. pc'[Stopper] = pc[Stopper]
      BY <2>3, <2>4, ZenonT(30) DEF After, Moves, IInv, TypeOK, Procs
    <3>3. pc[Stopper] = "s_done" => ioStop
      BY Zenon DEF IInv, Joined
    <3>4. count \in Int
      BY Zenon DEF IInv, TypeOK
    <3>5. QED
      BY <3>1, <3>2, <3>3, <3>4 DEF Drained, Counts
  <2>5. CASE p = Stopper
    <3>1. \/ ShutdownStart(p) \/ Shutdown(p)
          \/ Close(p) /\ inPass
      BY <2>1, <2>2, <2>5, StopperActs, ZenonT(30)
    <3>2. pc'[p] = "s_done" => WaitIODrained(p)
      <4>1. pc \in [Procs -> Labels] /\ ReturnOK(pc[p], ret[p])
        BY <2>2, ZenonT(30) DEF Before
      <4>2. ShutdownStart(p) \/ Shutdown(p) =>
              pc'[p] # "s_done" \/ WaitIODrained(p)
        BY <4>1, Zenon DEF ShutdownStart, Shutdown, ShutdownLoops,
           ClosePoller, ShutdownBegin, StopIO, StopSum, StopJoined, Go, Call
      <4>3. Close(p) => pc'[p] # "s_done"
        BY <4>1, ZenonT(30) DEF Close, CloseClaim, CloseTaken, CloseSpin,
           CloseWait, CloseRetry, CloseRelease, CloseFlush, FireCloseCallback,
           ScheduleClose, ScheduleCloseClaim, At, Go, Return, ReturnOK,
           dLabels, nLabels, tLabels
      <4>4. QED
        BY <3>1, <4>2, <4>3, ZenonT(30)
    <3>3. QED
      BY <2>5, <3>2, ZenonT(30) DEF Drained, WaitIODrained, loop
  <2>6. QED
    BY <2>4, <2>5, ZenonT(30)
<1>2. CASE UNCHANGED vars
  BY <1>2, Zenon DEF vars, loop, Drained
<1>3. QED
  BY <1>1, <1>2, Zenon DEF Next, Terminated

\* If no OnBytesWritten panics in a close flush, then when Serve returns the
\* connection has left the fd table, OnClose matches OnOpen, and no turn is
\* left.  (With such a panic it need not be so: conn_panic_shutdown.)
THEOREM ShutdownIsComplete == ~MayPanic => (Spec => []ShutdownComplete)
<1> SUFFICES ASSUME ~MayPanic PROVE Spec => []ShutdownComplete
  OBVIOUS
<1>1. ASSUME IInv, LInv, Drained PROVE ShutdownComplete
  <2> SUFFICES ASSUME At(Stopper, "s_done")
               PROVE  ~published /\ closes = opens /\ counted = {} /\ count = 0
    BY Zenon DEF ShutdownComplete
  <2>1. count = 0 /\ pc[Stopper] = "s_done"
    BY <1>1, ZenonT(30) DEF Drained, At
  <2>2. counted = {} /\ queued = 0 /\ rejected = 0
    <3>1. /\ Cardinality(counted) \in Nat /\ Cardinality(claiming) \in Nat
          /\ queued \in Nat /\ rejected \in Nat /\ wqueued \in Nat
      BY <1>1, SetsFinite, FS_CardinalityType, ZenonT(30) DEF IInv, TypeOK
    <3>2. Cardinality(counted) = 0 /\ queued = 0 /\ rejected = 0
      BY <1>1, <2>1, <3>1 DEF IInv, CountExact
    <3>3. QED
      BY <3>2, SetsFinite, FS_EmptySet, ZenonT(30)
  <2>3. /\ ~published
        /\ isReleased
           \/ pc[Registrar] \in {"g_start", "g_note", "g_acquire", "g_close"}
    BY <1>1, <2>1, ZenonT(30) DEF LInv, PassOK
  <2>4. phase # closeResourcesReleased
    <3>1. ASSUME NEW q \in Procs PROVE ~Closer(q) /\ ~Refuser(q)
      <4>1. ~Owns(q)
        BY <2>2, Zenon DEF counted, Counted, Owns
      <4>2. ~inPass
        <5>1. ReturnOK(pc[Stopper], ret[Stopper])
          BY <1>1, ZenonT(30) DEF IInv, Control, Procs
        <5>2. QED
          BY <2>1, <5>1, ZenonT(30) DEF ReturnOK, inPass, nLabels, dLabels,
             tLabels
      <4>3. QED
        BY <1>1, <4>1, <4>2, DutiesOwn, ZenonT(30)
    <3>2. QED
      BY <1>1, <2>1, <2>2, <3>1 DEF LInv, PassOK
  <2>5. CASE phase = closeCallbackDelivered
    BY <1>1, <2>1, <2>2, <2>3, <2>5, ZenonT(30) DEF LInv, CallsOK
  <2>6. CASE phase # closeCallbackDelivered
    <3>1. phase \in Phases
      BY <1>1, Zenon DEF IInv, TypeOK
    <3>2. ~isReleased /\ phase < closeCallbackDelivered
      BY <2>4, <2>6, <3>1 DEF Phases, isReleased, closeOpen, closeRequested,
         closeResourcesReleased, closeCallbackDelivered
    <3>3. opens = 0 /\ closes = 0
      BY <1>1, <2>3, <3>2, ZenonT(30) DEF LInv, CallsOK, IInv, Unseen, gLabels
    <3>4. QED
      BY <2>1, <2>2, <2>3, <3>3, ZenonT(30)
  <2>7. QED
    BY <2>5, <2>6, Zenon
<1>2. Init => Drained
  BY Zenon DEF Init, Drained
<1>3. IInv /\ Drained /\ [Next]_vars => Drained'
  BY DrainedKeeps, ZenonT(30)
<1>4. (IInv /\ LInv) /\ Drained => ShutdownComplete
  BY <1>1, Zenon
<1>5. QED
  BY <1>2, <1>3, <1>4, LifeInvariance, PTL DEF Spec
=============================================================================

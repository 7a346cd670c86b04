---------------------------- MODULE ConnTurnSteps ---------------------------
(***************************************************************************)
(* What one step of noteIO, of a teardown, of a turn or of a refused       *)
(* turn's handler does.  The ...Duties lemmas: it passes each debt on to   *)
(* somebody, whatever the duties of the others are.  The ...Keeps lemmas:  *)
(* it keeps the sums of ConnTurnInv and the place of the goroutine that    *)
(* takes it.                                                               *)
(***************************************************************************)
EXTENDS ConnTurnInv, TLAPS

----------------------------------------------------------------------------
(* Duties.                                                                 *)

\* noteIO.
LEMMA NoteDuties ==
    ASSUME NEW p \in Procs,
           NEW ow, NEW cl, NEW no, NEW te, NEW re,
           NEW op, NEW cs, NEW fl, NEW sc, NEW hp,
           Owed(p, ow, cl, no, te, re, op, cs, fl, sc, hp), Note(p)
    PROVE  Kept(p, ow, cl, no, te, re, op, cs, fl, sc, hp)
<1>1. /\ Registrar # Stopper /\ Registrar \in Procs /\ Stopper \in Procs
      /\ Registrar \notin Workers /\ Stopper \notin Workers
      /\ p \in Producers \cup Workers \/ p = Registrar \/ p = Stopper
  BY ProcsAssumption, Zenon DEF Procs
<1> USE DEF Owed, Kept, Known, Knows, StagesOK, CallsOK, EventsOK,
   TeardownOK, DeliverOK, PassOK, LifeStep, gLabels, TypeOK, Phases, Noter,
   Claimer, Tearer, Retrier, Opener, Closer, Flusher, Scheduler, Refuser,
   stopping, isReleased, isClosing, closeOpen, closeRequested,
   closeResourcesReleased, closeCallbackDelivered, Arg, Call, Return,
   CallNote, task, write, life, calls, loop, local, At, Go
<1>2. CASE NoteCheck(p)
  BY <1>2, <1>1, SMTT(30) DEF NoteCheck, ReturnOK, dLabels
<1>3. CASE NoteFold(p)
  BY <1>3, <1>1, SMTT(30) DEF NoteFold
<1>4. CASE NoteAcquire(p)
  BY <1>4, <1>1, SMTT(30) DEF NoteAcquire, Acquire, Joined, ReturnOK,
     dLabels
<1>5. CASE NoteClaim(p)
  BY <1>5, <1>1, SMTT(30) DEF NoteClaim, Submit, Release, ReturnOK, dLabels
<1>6. CASE End(p)
  BY <1>6, <1>1, SMTT(30) DEF End, Release, Home
<1> HIDE DEF Owed, Kept
<1>7. QED
  BY <1>2, <1>3, <1>4, <1>5, <1>6, Zenon DEF Note

\* teardown.
LEMMA CloseDuties ==
    ASSUME NEW p \in Procs,
           NEW ow, NEW cl, NEW no, NEW te, NEW re,
           NEW op, NEW cs, NEW fl, NEW sc, NEW hp,
           Owed(p, ow, cl, no, te, re, op, cs, fl, sc, hp), Close(p)
    PROVE  Kept(p, ow, cl, no, te, re, op, cs, fl, sc, hp)
<1>1. /\ Registrar # Stopper /\ Registrar \in Procs /\ Stopper \in Procs
      /\ Registrar \notin Workers /\ Stopper \notin Workers
      /\ p \in Producers \cup Workers \/ p = Registrar \/ p = Stopper
  BY ProcsAssumption, Zenon DEF Procs
<1> USE DEF Owed, Kept, Known, Knows, StagesOK, CallsOK, EventsOK,
   TeardownOK, DeliverOK, PassOK, LifeStep, gLabels, TypeOK, Phases, Noter,
   Claimer, Tearer, Retrier, Opener, Closer, Flusher, Scheduler, Refuser,
   stopping, isReleased, isClosing, closeOpen, closeRequested,
   closeResourcesReleased, closeCallbackDelivered, Arg, Call, Return,
   CallNote, task, write, life, calls, loop, local, At, Go
<1>2. CASE CloseClaim(p)
  BY <1>2, <1>1, SMTT(30) DEF CloseClaim, SolePass, Alone, ReturnOK, inPass
<1>3. CASE CloseTaken(p)
  BY <1>3, <1>1, SMTT(30) DEF CloseTaken, request, Joined
<1>4. CASE CloseSpin(p)
  BY <1>4, <1>1, SMTT(30) DEF CloseSpin
<1>5. CASE CloseWait(p)
  BY <1>5, <1>1, SMTT(30) DEF CloseWait
<1>6. CASE CloseRetry(p)
  BY <1>6, <1>1, SMTT(30) DEF CloseRetry, TaskAlone, ReturnOK, PlaceOK,
     Owns, dLabels
<1>7. CASE CloseRelease(p)
  BY <1>7, <1>1, SMTT(30) DEF CloseRelease, SolePass, Unregistered,
     TaskAlone, Alone, ReturnOK, PlaceOK, Lifecycle!Next, Lifecycle!Release,
     Lifecycle!closeRequested, Lifecycle!closeResourcesReleased, Owns,
     inPass, dLabels, sLabels, Bit
<1>8. CASE CloseFlush(p)
  BY <1>8, <1>1, SMTT(30) DEF CloseFlush
<1>9. CASE FireCloseCallback(p)
  BY <1>9, <1>1, SMTT(30) DEF FireCloseCallback, delivered, ReturnOK,
     Lifecycle!Next, Lifecycle!Deliver, Lifecycle!closeResourcesReleased,
     Lifecycle!closeCallbackDelivered, Bit
<1>10. CASE ScheduleClose(p)
  BY <1>10, <1>1, SMTT(30) DEF ScheduleClose, delivered, SolePass, Alone,
     ReturnOK, Lifecycle!Next, Lifecycle!Deliver,
     Lifecycle!closeResourcesReleased, Lifecycle!closeCallbackDelivered,
     inPass
<1>11. CASE ScheduleCloseClaim(p)
  BY <1>11, <1>1, SMTT(30) DEF ScheduleCloseClaim, Acquire, Submit,
     SolePass, Alone, ReturnOK, PlaceOK, inPass, sLabels
<1> HIDE DEF Owed, Kept
<1>12. QED
  BY <1>2, <1>3, <1>4, <1>5, <1>6, <1>7, <1>8, <1>9, <1>10, <1>11, ZenonT(30)
     DEF Close

\* A turn.
LEMMA TurnDuties ==
    ASSUME NEW p \in Procs,
           NEW ow, NEW cl, NEW no, NEW te, NEW re,
           NEW op, NEW cs, NEW fl, NEW sc, NEW hp,
           Owed(p, ow, cl, no, te, re, op, cs, fl, sc, hp), Turn(p)
    PROVE  Kept(p, ow, cl, no, te, re, op, cs, fl, sc, hp)
<1>1. /\ Registrar # Stopper /\ Registrar \in Procs /\ Stopper \in Procs
      /\ Registrar \notin Workers /\ Stopper \notin Workers
      /\ p \in Producers \cup Workers \/ p = Registrar \/ p = Stopper
  BY ProcsAssumption, Zenon DEF Procs
<1> USE DEF Owed, Kept, Known, Knows, StagesOK, CallsOK, EventsOK,
   TeardownOK, DeliverOK, PassOK, LifeStep, gLabels, TypeOK, Phases, Noter,
   Claimer, Tearer, Retrier, Opener, Closer, Flusher, Scheduler, Refuser,
   stopping, isReleased, isClosing, closeOpen, closeRequested,
   closeResourcesReleased, closeCallbackDelivered, Arg, Call, Return,
   CallNote, task, write, life, calls, loop, local, At, Go
<1>2. CASE TurnStart(p)
  BY <1>2, <1>1, SMTT(30) DEF TurnStart, SolePass, TaskAlone, Alone
<1>3. CASE TurnOpen(p)
  BY <1>3, <1>1, SMTT(30) DEF TurnOpen, TaskAlone, ReturnOK, Lifecycle!Next,
     Lifecycle!Open, Lifecycle!closeResourcesReleased, Owns, tLabels
<1>4. CASE TurnBody(p)
  BY <1>4, <1>1, SMTT(30) DEF TurnBody, request, Unregistered, TaskAlone,
     ReturnOK, Lifecycle!Next, Lifecycle!Request, Lifecycle!closeOpen,
     Lifecycle!closeRequested, Owns, tLabels
<1>5. CASE TurnClose(p)
  BY <1>5, <1>1, SMTT(30) DEF TurnClose, TaskAlone, ReturnOK, Owns, tLabels
<1>6. CASE FinishLoad(p)
  BY <1>6, <1>1, SMTT(30) DEF FinishLoad, Submit, Home, goesOn
<1>7. CASE FinishDrop(p)
  BY <1>7, <1>1, SMTT(30) DEF FinishDrop
<1>8. CASE FinishLeft(p)
  BY <1>8, <1>1, SMTT(30) DEF FinishLeft, goesOn, Joined
<1>9. CASE FinishReclaim(p)
  BY <1>9, <1>1, SMTT(30) DEF FinishReclaim, Submit, Home
<1> HIDE DEF Owed, Kept
<1>10. QED
  BY <1>2, <1>3, <1>4, <1>5, <1>6, <1>7, <1>8, <1>9, Zenon DEF Turn

\* A refused turn's handler.
LEMMA RejectDuties ==
    ASSUME NEW p \in Procs,
           NEW ow, NEW cl, NEW no, NEW te, NEW re,
           NEW op, NEW cs, NEW fl, NEW sc, NEW hp,
           Owed(p, ow, cl, no, te, re, op, cs, fl, sc, hp), Reject(p)
    PROVE  Kept(p, ow, cl, no, te, re, op, cs, fl, sc, hp)
<1>1. /\ Registrar # Stopper /\ Registrar \in Procs /\ Stopper \in Procs
      /\ Registrar \notin Workers /\ Stopper \notin Workers
      /\ p \in Producers \cup Workers \/ p = Registrar \/ p = Stopper
  BY ProcsAssumption, Zenon DEF Procs
<1> USE DEF Owed, Kept, Known, Knows, StagesOK, CallsOK, EventsOK,
   TeardownOK, DeliverOK, PassOK, LifeStep, gLabels, TypeOK, Phases, Noter,
   Claimer, Tearer, Retrier, Opener, Closer, Flusher, Scheduler, Refuser,
   stopping, isReleased, isClosing, closeOpen, closeRequested,
   closeResourcesReleased, closeCallbackDelivered, Arg, Call, Return,
   CallNote, task, write, life, calls, loop, local, At, Go
<1>2. CASE RejectStart(p)
  BY <1>2, <1>1, SMTT(30) DEF RejectStart
<1>3. CASE RejectPhase(p)
  BY <1>3, <1>1, SMTT(30) DEF RejectPhase, request, Unregistered, TaskAlone,
     ReturnOK, PlaceOK, Lifecycle!Next, Lifecycle!Request,
     Lifecycle!closeOpen, Lifecycle!closeRequested, Owns, nLabels, dLabels,
     sLabels
<1>4. CASE RejectBegun(p)
  BY <1>4, <1>1, SMTT(30) DEF RejectBegun
<1>5. CASE RejectDrop(p)
  BY <1>5, <1>1, SMTT(30) DEF RejectDrop
<1>6. CASE RejectLeft(p)
  BY <1>6, <1>1, SMTT(30) DEF RejectLeft
<1> HIDE DEF Owed, Kept
<1>7. QED
  BY <1>2, <1>3, <1>4, <1>5, <1>6, Zenon DEF Reject

----------------------------------------------------------------------------
(* Counts and places.                                                      *)

\* noteIO and its submission, and the end of a turn.
LEMMA NoteKeeps ==
    ASSUME NEW p \in Procs, Before(p), Note(p)
    PROVE  After(p)
<1> USE DEF At, Go, Arg, Call, Return, task, write, life, loop, calls, local
<1>t. TypeOK
  BY Zenon DEF Before
<1>f. pc \in [Procs -> Labels] /\ ret \in [Procs -> Returns]
  BY Zenon DEF Before
<1>r. ReturnOK(pc[p], ret[p]) /\ PlaceOK(p, pc[p], ret[p])
  BY Zenon DEF Before
<1>1. CASE NoteCheck(p)
  <2>1. Moves(p)
    BY <1>1, <1>f, <1>r DEF NoteCheck, Moves, Labels, Returns, ReturnOK,
       nLabels
  <2>2. TypeOK'
    BY <1>1, <1>t, <2>1, Zenon DEF NoteCheck, Moves, TypeOK
  <2>3. ReturnOK(pc'[p], ret'[p]) /\ PlaceOK(p, pc'[p], ret'[p])
    BY <1>1, <1>f, <1>r DEF NoteCheck, ReturnOK, PlaceOK, nLabels, dLabels,
       tLabels, sLabels, gLabels
  <2>4. Balance(p)' = Balance(p)
    BY <1>1, <1>t, <1>f, <1>r, Zenon DEF NoteCheck, Balance, Bit, Owns,
       ReturnOK, nLabels, dLabels, tLabels
  <2>5. Debt(p)' = Debt(p)
    BY <1>1, <1>f, <1>r DEF NoteCheck, Debt, Bit, Counted, ReturnOK
  <2>6. Tenure(p)' = Tenure(p)
    BY <1>1, <1>f, <1>r, Zenon DEF NoteCheck, Tenure, Holds, Sends,
       isReleased, ReturnOK
  <2>7. QED
    BY <2>1, <2>2, <2>3, <2>4, <2>5, <2>6, Zenon DEF After
<1>2. CASE NoteFold(p)
  <2>1. Moves(p)
    BY <1>2, <1>f DEF NoteFold, Moves, Labels
  <2>2. TypeOK'
    BY <1>2, <1>t, <1>f, <1>r, <2>1, Zenon DEF NoteFold, Moves, TypeOK,
       Events, ReturnOK, nLabels, dLabels, tLabels
  <2>3. ReturnOK(pc'[p], ret'[p]) /\ PlaceOK(p, pc'[p], ret'[p])
    BY <1>2, <1>f, <1>r, Zenon DEF NoteFold, ReturnOK, PlaceOK, nLabels,
       dLabels, tLabels, sLabels, gLabels
  <2>4. Balance(p)' = Balance(p)
    BY <1>2, <1>f, Zenon DEF NoteFold, Balance, Owns
  <2>5. Debt(p)' = Debt(p)
    BY <1>2, <1>f, Zenon DEF NoteFold, Debt, Counted
  <2>6. Tenure(p)' = Tenure(p)
    BY <1>2, <1>f, Zenon DEF NoteFold, Tenure, Holds, Sends, isReleased
  <2>7. QED
    BY <2>1, <2>2, <2>3, <2>4, <2>5, <2>6, Zenon DEF After
<1>3. CASE NoteAcquire(p)
  <2>1. Moves(p)
    BY <1>3, <1>f, <1>r DEF NoteAcquire, Acquire, Moves, Labels, Returns,
       ReturnOK, nLabels
  <2>2. TypeOK'
    BY <1>3, <1>t, <2>1 DEF NoteAcquire, Acquire, Moves, TypeOK
  <2>3. ReturnOK(pc'[p], ret'[p]) /\ PlaceOK(p, pc'[p], ret'[p])
    BY <1>3, <1>f, <1>r DEF NoteAcquire, Acquire, ReturnOK, PlaceOK, nLabels,
       dLabels, tLabels, sLabels, gLabels
  <2>4. Balance(p)' = Balance(p)
    BY <1>3, <1>f, <1>r, Zenon DEF NoteAcquire, Acquire, Balance, Bit, Owns,
       ReturnOK
  <2>5. Debt(p)' = Debt(p)
    BY <1>3, <1>t, <1>r DEF NoteAcquire, Acquire, Debt, Bit, Counted, TypeOK,
       ReturnOK, tLabels
  <2>6. Tenure(p)' = Tenure(p)
    BY <1>3, <1>f, <1>r, Zenon DEF NoteAcquire, Acquire, Tenure, Holds,
       Sends, isReleased, ReturnOK
  <2>7. QED
    BY <2>1, <2>2, <2>3, <2>4, <2>5, <2>6, Zenon DEF After
<1>4. CASE NoteClaim(p)
  <2>1. Moves(p)
    BY <1>4, <1>f, <1>r DEF NoteClaim, Submit, Release, Moves, Labels,
       Returns, ReturnOK, nLabels
  <2>2. TypeOK'
    BY <1>4, <1>t, <2>1 DEF NoteClaim, Submit, Release, Moves, TypeOK
  <2>3. ReturnOK(pc'[p], ret'[p]) /\ PlaceOK(p, pc'[p], ret'[p])
    BY <1>4, <1>f, <1>r, Zenon DEF NoteClaim, Submit, Release, ReturnOK,
       PlaceOK, nLabels, dLabels, tLabels, sLabels, gLabels
  <2>4. Balance(p)' = Balance(p)
    BY <1>4, <1>t, <1>r DEF NoteClaim, Submit, Release, Balance, Bit, Owns,
       TypeOK, ReturnOK
  <2>5. Debt(p)' = Debt(p)
    <3>1. /\ Counted(p)' <=> Counted(p)
          /\ pc[p] = "n_claim" /\ pc'[p] # "n_claim"
      BY <1>4, <1>f, <1>r, Zenon DEF NoteClaim, Counted, ReturnOK, nLabels
    <3>2. /\ count' - queued' - rejected' = count - queued - rejected - 1
          /\ wqueued' = wqueued
      BY <1>4, <1>t DEF NoteClaim, Submit, Release, TypeOK
    <3>3. /\ count \in Int /\ queued \in Nat
          /\ rejected \in Nat /\ wqueued \in Nat
          /\ count' \in Int /\ queued' \in Nat /\ rejected' \in Nat
      BY <1>t, <2>2 DEF TypeOK
    <3>4. QED
      BY <3>1, <3>2, <3>3 DEF Debt, Bit
  <2>6. Tenure(p)' = Tenure(p)
    BY <1>4, <1>f, <1>r, Zenon DEF NoteClaim, Submit, Release, Tenure, Holds,
       Sends, isReleased, ReturnOK
  <2>7. QED
    BY <2>1, <2>2, <2>3, <2>4, <2>5, <2>6, Zenon DEF After
<1>5. CASE End(p)
  <2>1. Moves(p)
    BY <1>5, <1>f DEF End, Release, Home, Moves, Labels
  <2>2. TypeOK'
    BY <1>5, <1>t, <2>1 DEF End, Release, Home, Moves, TypeOK
  <2>3. ReturnOK(pc'[p], ret'[p]) /\ PlaceOK(p, pc'[p], ret'[p])
    BY <1>5, <1>f, <1>r, Zenon DEF End, Release, Home, ReturnOK, PlaceOK,
       nLabels, dLabels, tLabels, sLabels, gLabels
  <2>4. Balance(p)' = Balance(p)
    BY <1>5, <1>f, Zenon DEF End, Release, Home, Balance, Owns
  <2>5. Debt(p)' = Debt(p)
    BY <1>5, <1>t, <1>r DEF End, Release, Home, Debt, Bit, Counted, TypeOK,
       ReturnOK, nLabels, dLabels, tLabels
  <2>6. Tenure(p)' = Tenure(p)
    BY <1>5, <1>f, Zenon DEF End, Release, Home, Tenure, Holds, Sends,
       isReleased
  <2>7. QED
    BY <2>1, <2>2, <2>3, <2>4, <2>5, <2>6, ZenonT(30) DEF After
<1>6. QED
  BY <1>1, <1>2, <1>3, <1>4, <1>5, Zenon DEF Note

\* teardown, by whoever owns it.
LEMMA CloseKeeps ==
    ASSUME NEW p \in Procs, Before(p), Close(p)
    PROVE  After(p)
<1> USE DEF At, Go, Arg, Call, Return, task, write, life, loop, calls, local
<1>t. TypeOK
  BY Zenon DEF Before
<1>f. pc \in [Procs -> Labels] /\ ret \in [Procs -> Returns]
  BY Zenon DEF Before
<1>r. ReturnOK(pc[p], ret[p]) /\ PlaceOK(p, pc[p], ret[p])
  BY Zenon DEF Before
<1>o. Owns(p) => claimed /\ queued = 0 /\ rejected = 0
  BY Zenon DEF Before
<1>h. Holds(p) => wclaim /\ wqueued = 0 /\ ~isReleased
  BY Zenon DEF Before
<1>k. isReleased /\ ~wclaim => pc[p] \notin takers
  BY Zenon DEF Before
<1>1. CASE CloseClaim(p)
  <2>1. Moves(p)
    BY <1>1, <1>f, <1>r DEF CloseClaim, Moves, Labels, Returns, ReturnOK,
       dLabels
  <2>2. TypeOK'
    BY <1>1, <1>t, <1>f, <1>r, <2>1, ZenonT(60) DEF CloseClaim, Moves, TypeOK,
       Phases, isReleased, closeOpen, closeRequested, closeResourcesReleased,
       closeCallbackDelivered, Events, ReturnOK, nLabels, dLabels, tLabels
  <2>3. ReturnOK(pc'[p], ret'[p]) /\ PlaceOK(p, pc'[p], ret'[p])
    BY <1>1, <1>f, <1>r DEF CloseClaim, ReturnOK, PlaceOK, nLabels, dLabels,
       tLabels, sLabels, gLabels
  <2>4. Balance(p)' = Balance(p)
    BY <1>1, <1>f, <1>r DEF CloseClaim, Balance, Bit, Owns, ReturnOK
  <2>5. Debt(p)' = Debt(p)
    BY <1>1, <1>f, <1>r DEF CloseClaim, Debt, Bit, Counted, ReturnOK
  <2>6. Tenure(p)' = Tenure(p)
    BY <1>1, <1>t, <1>r DEF CloseClaim, Tenure, Holds, Sends, Bit,
       isReleased, TypeOK, ReturnOK, dLabels
  <2>7. QED
    BY <2>1, <2>2, <2>3, <2>4, <2>5, <2>6, Zenon DEF After
<1>2. CASE CloseTaken(p)
  <2>1. Moves(p)
    BY <1>2, <1>f DEF CloseTaken, request, Moves, Labels
  <2>2. TypeOK'
    BY <1>2, <1>t, <2>1 DEF CloseTaken, request, Moves, TypeOK, Phases
  <2>3. ReturnOK(pc'[p], ret'[p]) /\ PlaceOK(p, pc'[p], ret'[p])
    BY <1>2, <1>f, <1>r, Zenon DEF CloseTaken, request, ReturnOK, PlaceOK,
       nLabels, dLabels, tLabels, sLabels, gLabels
  <2>4. Balance(p)' = Balance(p)
    BY <1>2, <1>f, Zenon DEF CloseTaken, request, Balance, Owns
  <2>5. Debt(p)' = Debt(p)
    BY <1>2, <1>f, Zenon DEF CloseTaken, request, Debt, Counted
  <2>6. Tenure(p)' = Tenure(p)
    BY <1>2, <1>t DEF CloseTaken, request, Tenure, Holds, Sends, Phases,
       isReleased, closeOpen, closeRequested, closeResourcesReleased, TypeOK
  <2>7. QED
    BY <2>1, <2>2, <2>3, <2>4, <2>5, <2>6, ZenonT(30) DEF After
<1>3. CASE CloseSpin(p)
  <2>1. Moves(p)
    BY <1>3, <1>f DEF CloseSpin, Moves, Labels
  <2>2. TypeOK'
    BY <1>3, <1>t, <1>f, <1>r, <2>1, Zenon DEF CloseSpin, Moves, TypeOK,
       Events, ReturnOK, nLabels, dLabels, tLabels
  <2>3. ReturnOK(pc'[p], ret'[p]) /\ PlaceOK(p, pc'[p], ret'[p])
    BY <1>3, <1>f, <1>r, Zenon DEF CloseSpin, ReturnOK, PlaceOK, nLabels,
       dLabels, tLabels, sLabels, gLabels
  <2>4. Balance(p)' = Balance(p)
    BY <1>3, <1>f, Zenon DEF CloseSpin, Balance, Owns
  <2>5. Debt(p)' = Debt(p)
    BY <1>3, <1>f, Zenon DEF CloseSpin, Debt, Counted
  <2>6. Tenure(p)' = Tenure(p)
    BY <1>3, <1>t, <1>h, <1>k DEF CloseSpin, Tenure, Holds, Sends, Bit,
       isReleased, TypeOK, takers
  <2>7. QED
    BY <2>1, <2>2, <2>3, <2>4, <2>5, <2>6, Zenon DEF After
<1>4. CASE CloseWait(p)
  <2>1. Moves(p)
    BY <1>4, <1>f DEF CloseWait, Moves, Labels
  <2>2. TypeOK'
    BY <1>4, <1>t, <1>f, <1>r, <2>1, Zenon DEF CloseWait, Moves, TypeOK,
       Events, ReturnOK, nLabels, dLabels, tLabels
  <2>3. ReturnOK(pc'[p], ret'[p]) /\ PlaceOK(p, pc'[p], ret'[p])
    BY <1>4, <1>f, <1>r, Zenon DEF CloseWait, ReturnOK, PlaceOK, nLabels,
       dLabels, tLabels, sLabels, gLabels
  <2>4. Balance(p)' = Balance(p)
    BY <1>4, <1>f, Zenon DEF CloseWait, Balance, Owns
  <2>5. Debt(p)' = Debt(p)
    BY <1>4, <1>f, Zenon DEF CloseWait, Debt, Counted
  <2>6. Tenure(p)' = Tenure(p)
    BY <1>4, <1>f, Zenon DEF CloseWait, Tenure, Holds, Sends, isReleased
  <2>7. QED
    BY <2>1, <2>2, <2>3, <2>4, <2>5, <2>6, Zenon DEF After
<1>5. CASE CloseRetry(p)
  <2>1. Moves(p)
    BY <1>5, <1>f, <1>r DEF CloseRetry, Moves, Labels, Returns, ReturnOK,
       dLabels
  <2>2. TypeOK'
    BY <1>5, <1>t, <1>f, <1>r, <2>1, Zenon DEF CloseRetry, Moves, TypeOK,
       Events, ReturnOK, nLabels, dLabels, tLabels
  <2>3. ReturnOK(pc'[p], ret'[p]) /\ PlaceOK(p, pc'[p], ret'[p])
    BY <1>5, <1>f, <1>r DEF CloseRetry, ReturnOK, PlaceOK, nLabels, dLabels,
       tLabels, sLabels, gLabels
  <2>4. Balance(p)' = Balance(p)
    BY <1>5, <1>t, <1>r, Zenon DEF CloseRetry, Balance, Owns, TypeOK,
       ReturnOK
  <2>5. Debt(p)' = Debt(p)
    BY <1>5, <1>f, <1>r DEF CloseRetry, Debt, Bit, Counted, ReturnOK
  <2>6. Tenure(p)' = Tenure(p)
    BY <1>5, <1>t, <1>r, <1>o, <1>h, <1>k DEF CloseRetry, Tenure, Holds,
       Sends, Bit, isReleased, closeResourcesReleased, TypeOK, ReturnOK,
       takers
  <2>7. QED
    BY <2>1, <2>2, <2>3, <2>4, <2>5, <2>6, Zenon DEF After
<1>6. CASE CloseRelease(p)
  <2>1. Moves(p)
    BY <1>6, <1>f, <1>r DEF CloseRelease, Moves, Labels, Returns, ReturnOK,
       dLabels
  <2>2. TypeOK'
    BY <1>6, <1>t, <2>1 DEF CloseRelease, Moves, TypeOK, Phases
  <2>3. ReturnOK(pc'[p], ret'[p]) /\ PlaceOK(p, pc'[p], ret'[p])
    BY <1>6, <1>f, <1>r DEF CloseRelease, ReturnOK, PlaceOK, nLabels,
       dLabels, tLabels, sLabels, gLabels
  <2>4. Balance(p)' = Balance(p)
    BY <1>6, <1>f, <1>r, Zenon DEF CloseRelease, Balance, Bit, Owns, ReturnOK
  <2>5. Debt(p)' = Debt(p)
    BY <1>6, <1>f, <1>r DEF CloseRelease, Debt, Bit, Counted, ReturnOK
  <2>6. Tenure(p)' = Tenure(p)
    BY <1>6, <1>f, <1>r, <1>h DEF CloseRelease, Tenure, Holds, Sends, Bit,
       isReleased, closeResourcesReleased, ReturnOK, dLabels
  <2>7. QED
    BY <2>1, <2>2, <2>3, <2>4, <2>5, <2>6, ZenonT(30) DEF After
<1>7. CASE CloseFlush(p)
  <2>1. Moves(p)
    BY <1>7, <1>f DEF CloseFlush, Moves, Labels
  <2>2. TypeOK'
    BY <1>7, <1>t, <1>f, <1>r, <2>1, Zenon DEF CloseFlush, Moves, TypeOK,
       Events, ReturnOK, nLabels, dLabels, tLabels
  <2>3. ReturnOK(pc'[p], ret'[p]) /\ PlaceOK(p, pc'[p], ret'[p])
    BY <1>7, <1>f, <1>r, SMTT(60) DEF CloseFlush, ReturnOK, PlaceOK, nLabels,
       dLabels, tLabels, sLabels, gLabels
  <2>4. Balance(p)' = Balance(p)
    BY <1>7, <1>f, Zenon DEF CloseFlush, Balance, Owns
  <2>5. Debt(p)' = Debt(p)
    BY <1>7, <1>f, Zenon DEF CloseFlush, Debt, Bit, Counted
  <2>6. Tenure(p)' = Tenure(p)
    BY <1>7, <1>f, Zenon DEF CloseFlush, Tenure, Holds, Sends, isReleased
  <2>7. QED
    BY <2>1, <2>2, <2>3, <2>4, <2>5, <2>6, ZenonT(30) DEF After
<1>8. CASE FireCloseCallback(p)
  <2>1. Moves(p)
    BY <1>8, <1>f, <1>r DEF FireCloseCallback, delivered, Moves, Labels,
       Returns, ReturnOK, dLabels
  <2>2. TypeOK'
    BY <1>8, <1>t, <2>1 DEF FireCloseCallback, delivered, Moves, TypeOK,
       Phases, Bit
  <2>3. ReturnOK(pc'[p], ret'[p]) /\ PlaceOK(p, pc'[p], ret'[p])
    BY <1>8, <1>f, <1>r, Zenon DEF FireCloseCallback, delivered, ReturnOK,
       PlaceOK, nLabels, dLabels, tLabels, sLabels, gLabels
  <2>4. Balance(p)' = Balance(p)
    BY <1>8, <1>f, <1>r, Zenon DEF FireCloseCallback, delivered, Balance,
       Owns, ReturnOK
  <2>5. Debt(p)' = Debt(p)
    BY <1>8, <1>t, <1>r, Zenon DEF FireCloseCallback, delivered, Debt,
       Counted, TypeOK, ReturnOK, dLabels
  <2>6. Tenure(p)' = Tenure(p)
    BY <1>8, <1>r DEF FireCloseCallback, delivered, Tenure, Holds, Sends,
       isReleased, closeResourcesReleased, closeCallbackDelivered, ReturnOK,
       dLabels
  <2>7. QED
    BY <2>1, <2>2, <2>3, <2>4, <2>5, <2>6, ZenonT(30) DEF After
<1>9. CASE ScheduleClose(p)
  <2>1. Moves(p)
    BY <1>9, <1>f, <1>r DEF ScheduleClose, delivered, Moves, Labels, Returns,
       ReturnOK, dLabels
  <2>2. TypeOK'
    <3>1. events' \subseteq Events /\ phase' \in Phases
      BY <1>9, <1>t, Zenon DEF ScheduleClose, delivered, TypeOK, Phases,
         Events
    <3>2. QED
      BY <1>9, <1>t, <2>1, <3>1, Zenon DEF ScheduleClose, Moves, TypeOK
  <2>3. ReturnOK(pc'[p], ret'[p]) /\ PlaceOK(p, pc'[p], ret'[p])
    BY <1>9, <1>f, <1>r DEF ScheduleClose, delivered, ReturnOK, PlaceOK,
       nLabels, dLabels, tLabels, sLabels, gLabels
  <2>4. Balance(p)' = Balance(p)
    BY <1>9, <1>f, <1>r, Zenon DEF ScheduleClose, delivered, Balance, Bit,
       Owns, ReturnOK
  <2>5. Debt(p)' = Debt(p)
    BY <1>9, <1>f, <1>r DEF ScheduleClose, delivered, Debt, Bit, Counted,
       ReturnOK
  <2>6. Tenure(p)' = Tenure(p)
    BY <1>9, <1>f, <1>r DEF ScheduleClose, delivered, Tenure, Holds, Sends,
       isReleased, closeResourcesReleased, closeCallbackDelivered, ReturnOK
  <2>7. QED
    BY <2>1, <2>2, <2>3, <2>4, <2>5, <2>6, ZenonT(30) DEF After
<1>10. CASE ScheduleCloseClaim(p)
  <2>1. Moves(p)
    BY <1>10, <1>f, <1>r DEF ScheduleCloseClaim, Acquire, Submit, Moves,
       Labels, Returns, ReturnOK
  <2>2. TypeOK'
    BY <1>10, <1>t, <2>1 DEF ScheduleCloseClaim, Acquire, Submit, Moves,
       TypeOK
  <2>3. ReturnOK(pc'[p], ret'[p]) /\ PlaceOK(p, pc'[p], ret'[p])
    BY <1>10, <1>f, <1>r, Zenon DEF ScheduleCloseClaim, Acquire, Submit,
       ReturnOK, PlaceOK, nLabels, dLabels, tLabels, sLabels, gLabels
  <2>4. Balance(p)' = Balance(p)
    BY <1>10, <1>t, <1>r DEF ScheduleCloseClaim, Acquire, Submit, Balance,
       Bit, Owns, TypeOK, ReturnOK
  <2>5. Debt(p)' = Debt(p)
    BY <1>10, <1>t, <1>r DEF ScheduleCloseClaim, Acquire, Submit, Debt, Bit,
       Counted, TypeOK, ReturnOK, nLabels, dLabels
  <2>6. Tenure(p)' = Tenure(p)
    BY <1>10, <1>f, <1>r, Zenon DEF ScheduleCloseClaim, Acquire, Submit,
       Tenure, Holds, Sends, isReleased, ReturnOK
  <2>7. QED
    BY <2>1, <2>2, <2>3, <2>4, <2>5, <2>6, Zenon DEF After
<1>11. QED
  BY <1>1, <1>2, <1>3, <1>4, <1>5, <1>6, <1>7, <1>8, <1>9, <1>10, ZenonT(30)
     DEF Close

\* runIOTask and finishIOTask.
LEMMA TurnKeeps ==
    ASSUME NEW p \in Procs, Before(p), Turn(p)
    PROVE  After(p)
<1> USE DEF At, Go, Arg, Call, Return, task, write, life, loop, calls, local
<1>t. TypeOK
  BY Zenon DEF Before
<1>f. pc \in [Procs -> Labels] /\ ret \in [Procs -> Returns]
  BY Zenon DEF Before
<1>r. ReturnOK(pc[p], ret[p]) /\ PlaceOK(p, pc[p], ret[p])
  BY Zenon DEF Before
<1>o. Owns(p) => claimed /\ queued = 0 /\ rejected = 0
  BY Zenon DEF Before
<1>g. /\ pc[Registrar] \in gLabels =>
           wclaim = FALSE /\ wqueued = 0 /\ queued = 0 /\ rejected = 0
      /\ pc[Registrar] \in fLabels => claimed = (pc[Registrar] = "g_put")
  BY Zenon DEF Before
<1>1. CASE TurnStart(p)
  <2>1. Moves(p)
    BY <1>1, <1>f DEF TurnStart, Moves, Labels, Returns
  <2>2. TypeOK'
    BY <1>1, <1>t, <2>1 DEF TurnStart, Moves, TypeOK
  <2>3. ReturnOK(pc'[p], ret'[p]) /\ PlaceOK(p, pc'[p], ret'[p])
    BY <1>1, <1>f, <1>r, Zenon DEF TurnStart, ReturnOK, PlaceOK, nLabels,
       dLabels, tLabels, sLabels, gLabels
  <2>4. Balance(p)' = Balance(p)
    BY <1>1, <1>t, <1>r DEF TurnStart, Balance, Bit, Owns, TypeOK, ReturnOK,
       dLabels, tLabels
  <2>5. Debt(p)' = Debt(p)
    BY <1>1, <1>t, <1>r DEF TurnStart, Debt, Bit, Counted, TypeOK, ReturnOK,
       nLabels, dLabels, tLabels
  <2>6. Tenure(p)' = Tenure(p)
    BY <1>1, <1>f, <1>r, Zenon DEF TurnStart, Tenure, Holds, Sends,
       isReleased, ReturnOK, nLabels
  <2>7. QED
    BY <2>1, <2>2, <2>3, <2>4, <2>5, <2>6, Zenon DEF After
<1>2. CASE TurnOpen(p)
  <2>1. Moves(p)
    BY <1>2, <1>f DEF TurnOpen, Moves, Labels
  <2>2. TypeOK'
    BY <1>2, <1>t, <2>1 DEF TurnOpen, Moves, TypeOK
  <2>3. ReturnOK(pc'[p], ret'[p]) /\ PlaceOK(p, pc'[p], ret'[p])
    BY <1>2, <1>f, <1>r, Zenon DEF TurnOpen, ReturnOK, PlaceOK, nLabels,
       tLabels, sLabels, gLabels
  <2>4. Balance(p)' = Balance(p)
    BY <1>2, <1>r, Zenon DEF TurnOpen, Balance, Owns, ReturnOK, tLabels
  <2>5. Debt(p)' = Debt(p)
    BY <1>2, <1>f, Zenon DEF TurnOpen, Debt, Counted
  <2>6. Tenure(p)' = Tenure(p)
    BY <1>2, <1>f, Zenon DEF TurnOpen, Tenure, Holds, Sends, isReleased
  <2>7. QED
    BY <2>1, <2>2, <2>3, <2>4, <2>5, <2>6, ZenonT(30) DEF After
<1>3. CASE TurnBody(p)
  <2>1. Moves(p)
    BY <1>3, <1>f DEF TurnBody, request, Moves, Labels
  <2>2. TypeOK'
    BY <1>3, <1>t, <2>1 DEF TurnBody, request, Moves, TypeOK, Phases
  <2>3. ReturnOK(pc'[p], ret'[p]) /\ PlaceOK(p, pc'[p], ret'[p])
    BY <1>3, <1>f, <1>r, Zenon DEF TurnBody, request, ReturnOK, PlaceOK,
       nLabels, tLabels, sLabels, gLabels
  <2>4. Balance(p)' = Balance(p)
    BY <1>3, <1>r, Zenon DEF TurnBody, request, Balance, Owns, ReturnOK,
       tLabels
  <2>5. Debt(p)' = Debt(p)
    BY <1>3, <1>f, Zenon DEF TurnBody, request, Debt, Counted
  <2>6. Tenure(p)' = Tenure(p)
    BY <1>3, <1>t DEF TurnBody, request, Tenure, Holds, Sends, Phases,
       isReleased, closeOpen, closeRequested, closeResourcesReleased, TypeOK
  <2>7. QED
    BY <2>1, <2>2, <2>3, <2>4, <2>5, <2>6, Zenon DEF After
<1>4. CASE TurnClose(p)
  <2>1. Moves(p)
    BY <1>4, <1>f DEF TurnClose, Moves, Labels
  <2>2. TypeOK'
    BY <1>4, <1>t, <1>f, <1>r, <2>1, Zenon DEF TurnClose, Moves, TypeOK,
       Phases, isReleased, isClosing, closeOpen, closeRequested,
       closeResourcesReleased, closeCallbackDelivered, Events, ReturnOK,
       nLabels, dLabels, tLabels
  <2>3. ReturnOK(pc'[p], ret'[p]) /\ PlaceOK(p, pc'[p], ret'[p])
    BY <1>4, <1>f, <1>r DEF TurnClose, ReturnOK, PlaceOK, nLabels, dLabels,
       tLabels, sLabels, gLabels
  <2>4. Balance(p)' = Balance(p)
    BY <1>4, <1>r, Zenon DEF TurnClose, Balance, Owns, ReturnOK, tLabels
  <2>5. Debt(p)' = Debt(p)
    BY <1>4, <1>f, <1>r, Zenon DEF TurnClose, Debt, Counted, ReturnOK,
       tLabels
  <2>6. Tenure(p)' = Tenure(p)
    BY <1>4, <1>f, Zenon DEF TurnClose, Tenure, Holds, Sends, isReleased
  <2>7. QED
    BY <2>1, <2>2, <2>3, <2>4, <2>5, <2>6, Zenon DEF After
<1>5. CASE FinishLoad(p)
  <2>1. Moves(p)
    BY <1>5, <1>f DEF FinishLoad, Submit, Home, Moves, Labels, Returns
  <2>2. TypeOK'
    BY <1>5, <1>t, <2>1 DEF FinishLoad, Submit, Home, Moves, TypeOK
  <2>3. ReturnOK(pc'[p], ret'[p]) /\ PlaceOK(p, pc'[p], ret'[p])
    BY <1>5, <1>f, <1>r DEF FinishLoad, Submit, Home, ReturnOK, PlaceOK,
       nLabels, dLabels, tLabels, sLabels, gLabels
  <2>4. Balance(p)' = Balance(p)
    BY <1>5, <1>t DEF FinishLoad, Submit, Home, Balance, Bit, Owns, TypeOK
  <2>5. Debt(p)' = Debt(p)
    BY <1>5, <1>t DEF FinishLoad, Submit, Home, Debt, Bit, Counted, TypeOK
  <2>6. Tenure(p)' = Tenure(p)
    BY <1>5, <1>t, <1>r DEF FinishLoad, Submit, Home, Tenure, Holds, Sends,
       isReleased, TypeOK, ReturnOK
  <2>7. QED
    BY <2>1, <2>2, <2>3, <2>4, <2>5, <2>6, Zenon DEF After
<1>6. CASE FinishDrop(p)
  <2>1. Moves(p)
    BY <1>6, <1>f DEF FinishDrop, Moves, Labels
  <2>2. TypeOK'
    BY <1>6, <1>t, <1>f, <1>r, <2>1, Zenon DEF FinishDrop, Moves, TypeOK,
       Events, ReturnOK, nLabels, dLabels, tLabels
  <2>3. ReturnOK(pc'[p], ret'[p]) /\ PlaceOK(p, pc'[p], ret'[p])
    BY <1>6, <1>f, <1>r, Zenon DEF FinishDrop, ReturnOK, PlaceOK, nLabels,
       dLabels, tLabels, sLabels, gLabels
  <2>4. Balance(p)' = Balance(p)
    BY <1>6, <1>f, <1>r, <1>o DEF FinishDrop, Balance, Bit, Owns, ReturnOK,
       dLabels, tLabels
  <2>5. Debt(p)' = Debt(p)
    BY <1>6, <1>f, Zenon DEF FinishDrop, Debt, Counted
  <2>6. Tenure(p)' = Tenure(p)
    BY <1>6, <1>f, Zenon DEF FinishDrop, Tenure, Holds, Sends, isReleased
  <2>7. QED
    BY <2>1, <2>2, <2>3, <2>4, <2>5, <2>6, Zenon DEF After
<1>7. CASE FinishLeft(p)
  <2>1. Moves(p)
    BY <1>7, <1>f DEF FinishLeft, Moves, Labels
  <2>2. TypeOK'
    BY <1>7, <1>t, <2>1, Zenon DEF FinishLeft, Moves, TypeOK
  <2>3. ReturnOK(pc'[p], ret'[p]) /\ PlaceOK(p, pc'[p], ret'[p])
    BY <1>7, <1>f, <1>r, Zenon DEF FinishLeft, ReturnOK, PlaceOK, nLabels,
       dLabels, tLabels, sLabels, gLabels
  <2>4. Balance(p)' = Balance(p)
    BY <1>7, <1>f, Zenon DEF FinishLeft, Balance, Owns
  <2>5. Debt(p)' = Debt(p)
    BY <1>7, <1>f, Zenon DEF FinishLeft, Debt, Counted
  <2>6. Tenure(p)' = Tenure(p)
    BY <1>7, <1>f, Zenon DEF FinishLeft, Tenure, Holds, Sends, isReleased
  <2>7. QED
    BY <2>1, <2>2, <2>3, <2>4, <2>5, <2>6, Zenon DEF After
<1>8. CASE FinishReclaim(p)
  <2>1. Moves(p)
    BY <1>8, <1>f DEF FinishReclaim, Submit, Home, Moves, Labels
  <2>2. TypeOK'
    BY <1>8, <1>t, <2>1 DEF FinishReclaim, Submit, Home, Moves, TypeOK
  <2>3. ReturnOK(pc'[p], ret'[p]) /\ PlaceOK(p, pc'[p], ret'[p])
    BY <1>8, <1>f, <1>r DEF FinishReclaim, Submit, Home, ReturnOK, PlaceOK,
       nLabels, dLabels, tLabels, sLabels, gLabels
  <2>4. Balance(p)' = Balance(p)
    BY <1>8, <1>t, <1>o, <1>g, SMTT(60) DEF FinishReclaim, Submit, Home,
       Balance, Bit, Owns, TypeOK
  <2>5. Debt(p)' = Debt(p)
    BY <1>8, <1>t, <1>r DEF FinishReclaim, Submit, Home, Debt, Bit, Counted,
       TypeOK, ReturnOK, nLabels, dLabels, tLabels
  <2>6. Tenure(p)' = Tenure(p)
    BY <1>8, <1>f, Zenon DEF FinishReclaim, Submit, Home, Tenure, Holds,
       Sends, isReleased
  <2>7. QED
    BY <2>1, <2>2, <2>3, <2>4, <2>5, <2>6, Zenon DEF After
<1>9. QED
  BY <1>1, <1>2, <1>3, <1>4, <1>5, <1>6, <1>7, <1>8, ZenonT(30) DEF Turn

\* handleIOSubmitFailure.
LEMMA RejectKeeps ==
    ASSUME NEW p \in Procs, Before(p), Reject(p)
    PROVE  After(p)
<1> USE DEF At, Go, Arg, Call, Return, task, write, life, loop, calls, local
<1>t. TypeOK
  BY Zenon DEF Before
<1>f. pc \in [Procs -> Labels] /\ ret \in [Procs -> Returns]
  BY Zenon DEF Before
<1>r. ReturnOK(pc[p], ret[p]) /\ PlaceOK(p, pc[p], ret[p])
  BY Zenon DEF Before
<1>o. Owns(p) => claimed /\ queued = 0 /\ rejected = 0
  BY Zenon DEF Before
<1>1. CASE RejectStart(p)
  <2>1. Moves(p)
    BY <1>1, <1>f DEF RejectStart, Moves, Labels
  <2>2. TypeOK'
    BY <1>1, <1>t, <2>1 DEF RejectStart, Moves, TypeOK
  <2>3. ReturnOK(pc'[p], ret'[p]) /\ PlaceOK(p, pc'[p], ret'[p])
    BY <1>1, <1>f, <1>r, Zenon DEF RejectStart, ReturnOK, PlaceOK, nLabels,
       dLabels, tLabels, sLabels, gLabels
  <2>4. Balance(p)' = Balance(p)
    BY <1>1, <1>t, <1>r DEF RejectStart, Balance, Bit, Owns, TypeOK,
       ReturnOK, dLabels, tLabels
  <2>5. Debt(p)' = Debt(p)
    BY <1>1, <1>t, <1>r DEF RejectStart, Debt, Bit, Counted, TypeOK,
       ReturnOK, nLabels, dLabels, tLabels
  <2>6. Tenure(p)' = Tenure(p)
    BY <1>1, <1>f, Zenon DEF RejectStart, Tenure, Holds, Sends, isReleased
  <2>7. QED
    BY <2>1, <2>2, <2>3, <2>4, <2>5, <2>6, Zenon DEF After
<1>2. CASE RejectPhase(p)
  <2>1. Moves(p)
    BY <1>2, <1>f DEF RejectPhase, request, Moves, Labels, Returns
  <2>2. TypeOK'
    BY <1>2, <1>t, <2>1 DEF RejectPhase, request, Moves, TypeOK, Phases
  <2>3. ReturnOK(pc'[p], ret'[p]) /\ PlaceOK(p, pc'[p], ret'[p])
    BY <1>2, <1>f, <1>r DEF RejectPhase, request, ReturnOK, PlaceOK, nLabels,
       dLabels, tLabels, sLabels, gLabels
  <2>4. Balance(p)' = Balance(p)
    BY <1>2, <1>f, Zenon DEF RejectPhase, request, Balance, Owns
  <2>5. Debt(p)' = Debt(p)
    BY <1>2, <1>t, Zenon DEF RejectPhase, request, Debt, Bit, Counted, TypeOK
  <2>6. Tenure(p)' = Tenure(p)
    BY <1>2, <1>f, <1>r DEF RejectPhase, request, Tenure, Holds, Sends,
       isReleased, closeRequested, closeResourcesReleased, ReturnOK, nLabels
  <2>7. QED
    BY <2>1, <2>2, <2>3, <2>4, <2>5, <2>6, Zenon DEF After
<1>3. CASE RejectBegun(p)
  <2>1. Moves(p)
    BY <1>3, <1>f DEF RejectBegun, Moves, Labels, Returns
  <2>2. TypeOK'
    BY <1>3, <1>t, <2>1, Zenon DEF RejectBegun, Moves, TypeOK
  <2>3. ReturnOK(pc'[p], ret'[p]) /\ PlaceOK(p, pc'[p], ret'[p])
    BY <1>3, <1>f, <1>r, Zenon DEF RejectBegun, ReturnOK, PlaceOK, nLabels,
       dLabels, tLabels, sLabels, gLabels
  <2>4. Balance(p)' = Balance(p)
    BY <1>3, <1>f, Zenon DEF RejectBegun, Balance, Owns
  <2>5. Debt(p)' = Debt(p)
    BY <1>3, <1>f, Zenon DEF RejectBegun, Debt, Counted
  <2>6. Tenure(p)' = Tenure(p)
    BY <1>3, <1>f, <1>r, Zenon DEF RejectBegun, Tenure, Holds, Sends,
       isReleased, ReturnOK, nLabels
  <2>7. QED
    BY <2>1, <2>2, <2>3, <2>4, <2>5, <2>6, Zenon DEF After
<1>4. CASE RejectDrop(p)
  <2>1. Moves(p)
    BY <1>4, <1>f DEF RejectDrop, Moves, Labels, Returns
  <2>2. TypeOK'
    BY <1>4, <1>t, <1>f, <1>r, <2>1, Zenon DEF RejectDrop, Moves, TypeOK,
       Events, ReturnOK, nLabels, dLabels, tLabels
  <2>3. ReturnOK(pc'[p], ret'[p]) /\ PlaceOK(p, pc'[p], ret'[p])
    BY <1>4, <1>f, <1>r, Zenon DEF RejectDrop, ReturnOK, PlaceOK, nLabels,
       dLabels, tLabels, sLabels, gLabels
  <2>4. Balance(p)' = Balance(p)
    BY <1>4, <1>f, <1>o DEF RejectDrop, Balance, Bit, Owns
  <2>5. Debt(p)' = Debt(p)
    BY <1>4, <1>f, Zenon DEF RejectDrop, Debt, Counted
  <2>6. Tenure(p)' = Tenure(p)
    BY <1>4, <1>f, <1>r, Zenon DEF RejectDrop, Tenure, Holds, Sends,
       isReleased, ReturnOK
  <2>7. QED
    BY <2>1, <2>2, <2>3, <2>4, <2>5, <2>6, Zenon DEF After
<1>5. CASE RejectLeft(p)
  <2>1. Moves(p)
    BY <1>5, <1>f DEF RejectLeft, CallNote, Moves, Labels, Returns
  <2>2. TypeOK'
    BY <1>5, <1>t, <2>1 DEF RejectLeft, CallNote, Moves, TypeOK
  <2>3. ReturnOK(pc'[p], ret'[p]) /\ PlaceOK(p, pc'[p], ret'[p])
    BY <1>5, <1>f, <1>r DEF RejectLeft, CallNote, ReturnOK, PlaceOK, nLabels,
       dLabels, tLabels, sLabels, gLabels
  <2>4. Balance(p)' = Balance(p)
    BY <1>5, <1>f, <1>r DEF RejectLeft, CallNote, Balance, Bit, Owns,
       ReturnOK, dLabels, tLabels
  <2>5. Debt(p)' = Debt(p)
    BY <1>5, <1>t, <1>f, <1>r, Zenon DEF RejectLeft, CallNote, Debt, Bit,
       Counted, ReturnOK, nLabels, dLabels, tLabels
  <2>6. Tenure(p)' = Tenure(p)
    BY <1>5, <1>t, <1>f, <1>r, Zenon DEF RejectLeft, CallNote, Tenure, Holds,
       Sends, Bit, isReleased, isClosing, closeRequested, ReturnOK, nLabels,
       dLabels, tLabels
  <2>7. QED
    BY <2>1, <2>2, <2>3, <2>4, <2>5, <2>6, Zenon DEF After
<1>6. QED
  BY <1>1, <1>2, <1>3, <1>4, <1>5, Zenon DEF Reject

=============================================================================

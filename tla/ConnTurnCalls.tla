---------------------------- MODULE ConnTurnCalls ---------------------------
(***************************************************************************)
(* What ConnTurnSteps shows, for the steps of write turns, registerConn,   *)
(* the shutdown and the producers; and what the steps do to the loop's     *)
(* count and to the write claim of an abandoned connection.                *)
(***************************************************************************)
EXTENDS ConnTurnInv, TLAPS

----------------------------------------------------------------------------
(* Duties.                                                                 *)

\* registerConn claims the first turn, unless the loop stopped.
AcquireMoves(p) ==
    /\ p = Registrar /\ pc[p] = "g_acquire"
    /\ \/ ioStop /\ Go(p, "g_close") /\ ~claimed'
       \/ ~ioStop /\ Go(p, "g_put") /\ claimed'
    /\ UNCHANGED <<phase, opens, closes, published, events, queued, rejected,
                   ioStop, stage, wclaim, closeWait, arg>>

\* The table takes the connection, or refuses it.
PutMoves(p) ==
    /\ p = Registrar /\ pc[p] = "g_put"
    /\ \/ published' /\ Go(p, "g_look") /\ UNCHANGED <<events, claimed>>
       \/ /\ UNCHANGED published /\ Go(p, "g_close")
          /\ events' = {} /\ ~claimed'
    /\ UNCHANGED <<phase, opens, closes, queued, rejected,
                   ioStop, stage, wclaim, closeWait, arg>>

\* The connection is watched, or withdrawn.
LookMoves(p) ==
    /\ p = Registrar /\ pc[p] = "g_look"
    /\ \/ (Accepted \/ ~stopping) /\ Go(p, "g_submit") /\ UNCHANGED published
       \/ ~published' /\ Go(p, "g_leave")
    /\ UNCHANGED <<phase, opens, closes, events, claimed, queued, rejected,
                   ioStop, stage, wclaim, closeWait, arg>>

\* What these steps of registerConn do to the variables below.
LEMMA AcquireSteps ==
    ASSUME NEW p \in Procs, Before(p), RegisterAcquire(p)
    PROVE  AcquireMoves(p)
<1>1. p = Registrar /\ pc[p] = "g_acquire"
  BY Zenon DEF Before, PlaceOK, gLabels, RegisterAcquire, At
<1>2. CASE ioStop
  BY <1>1, <1>2, Zenon DEF RegisterAcquire, AcquireMoves, write, life, calls,
     loop
<1>3. CASE ~ioStop
  BY <1>1, <1>3, Zenon DEF RegisterAcquire, Acquire, AcquireMoves, write,
     life, calls
<1>4. QED
  BY <1>2, <1>3, Zenon

LEMMA PutSteps ==
    ASSUME NEW p \in Procs, Before(p), RegisterPut(p)
    PROVE  PutMoves(p)
<1>1. p = Registrar
  BY Zenon DEF Before, PlaceOK, gLabels, RegisterPut, At
<1>2. QED
  BY <1>1, Zenon DEF RegisterPut, Release, PutMoves, At, task, write, life,
     calls, loop, local

LEMMA LookSteps ==
    ASSUME NEW p \in Procs, Before(p), RegisterLook(p)
    PROVE  LookMoves(p)
<1>1. p = Registrar
  BY Zenon DEF Before, PlaceOK, gLabels, RegisterLook, At
<1>2. QED
  BY <1>1, Zenon DEF RegisterLook, LookMoves, At, task, write, life, calls,
     loop, local

\* A write turn.
LEMMA WriteDuties ==
    ASSUME NEW p \in Procs,
           NEW ow, NEW cl, NEW no, NEW te, NEW re,
           NEW op, NEW cs, NEW fl, NEW sc, NEW hp,
           Owed(p, ow, cl, no, te, re, op, cs, fl, sc, hp), Write(p)
    PROVE  Kept(p, ow, cl, no, te, re, op, cs, fl, sc, hp)
<1>1. /\ Registrar # Stopper /\ Registrar \in Procs /\ Stopper \in Procs
      /\ Registrar \notin Workers /\ Stopper \notin Workers
      /\ p \in Producers \cup Workers \/ p = Registrar \/ p = Stopper
  BY ProcsAssumption, Zenon DEF Procs
<1> USE DEF Owed, Kept, Known, Knows, StagesOK, CallsOK, EventsOK,
   TeardownOK, DeliverOK, PassOK, LifeStep, gLabels, TypeOK, Phases, Noter,
   Claimer, Tearer, Retrier, Opener, Closer, Flusher, Scheduler, Refuser,
   stopping, isReleased, isClosing, closeOpen, closeRequested,
   closeResourcesReleased, closeCallbackDelivered, Arg, Call, Return,
   CallNote, task, write, life, calls, loop, local, At, Go
<1>2. CASE KickClaim(p)
  BY <1>2, <1>1, SMTT(30) DEF KickClaim
<1>3. CASE KickAcquire(p)
  BY <1>3, <1>1, SMTT(30) DEF KickAcquire, Acquire, WriteSubmit, Home
<1>4. CASE WriteStart(p)
  BY <1>4, <1>1, SMTT(30) DEF WriteStart
<1>5. CASE WriteSend(p)
  BY <1>5, <1>1, SMTT(30) DEF WriteSend, request, Unregistered,
     Lifecycle!Next, Lifecycle!Request, Lifecycle!closeOpen,
     Lifecycle!closeRequested, nLabels
<1>6. CASE WriteHandOn(p)
  BY <1>6, <1>1, SMTT(30) DEF WriteHandOn, WriteSubmit, Home
<1>7. CASE ReleaseWrite(p, "w_done", "w_next")
  BY <1>7, <1>1, SMTT(30) DEF ReleaseWrite
<1>8. CASE ReleaseWrite(p, "w_refused", "w_close")
  BY <1>8, <1>1, SMTT(30) DEF ReleaseWrite
<1>9. CASE ReleaseWrite(p, "k_back", "idle")
  BY <1>9, <1>1, SMTT(30) DEF ReleaseWrite
<1>10. CASE WriteHandBack(p)
  BY <1>10, <1>1, SMTT(30) DEF WriteHandBack
<1>11. CASE WriteNext(p)
  BY <1>11, <1>1, SMTT(30) DEF WriteNext
<1>12. CASE WriteAgain(p)
  BY <1>12, <1>1, SMTT(30) DEF WriteAgain, WriteSubmit, Home
<1>13. CASE WriteRefused(p)
  BY <1>13, <1>1, SMTT(30) DEF WriteRefused, request, Unregistered,
     Lifecycle!Next, Lifecycle!Request, Lifecycle!closeOpen,
     Lifecycle!closeRequested, nLabels
<1> HIDE DEF Owed, Kept
<1>14. QED
  BY <1>2, <1>3, <1>4, <1>5, <1>6, <1>7, <1>8, <1>9, <1>10, <1>11, <1>12,
     <1>13 DEF Write

\* registerConn.
LEMMA RegisterDuties ==
    ASSUME NEW p \in Procs,
           NEW ow, NEW cl, NEW no, NEW te, NEW re,
           NEW op, NEW cs, NEW fl, NEW sc, NEW hp,
           Owed(p, ow, cl, no, te, re, op, cs, fl, sc, hp), Register(p)
    PROVE  Kept(p, ow, cl, no, te, re, op, cs, fl, sc, hp)
<1>1. /\ Registrar # Stopper /\ Registrar \in Procs /\ Stopper \in Procs
      /\ Registrar \notin Workers /\ Stopper \notin Workers
      /\ p \in Producers \cup Workers \/ p = Registrar \/ p = Stopper
  BY ProcsAssumption, Zenon DEF Procs
<1>2. /\ RegisterAcquire(p) => AcquireMoves(p)
      /\ RegisterPut(p) => PutMoves(p)
      /\ RegisterLook(p) => LookMoves(p)
  BY AcquireSteps, PutSteps, LookSteps, Zenon DEF Owed, Known
<1> USE DEF Owed, Kept, Known, Knows, StagesOK, CallsOK, EventsOK,
   TeardownOK, DeliverOK, PassOK, LifeStep, gLabels, TypeOK, Phases, Noter,
   Claimer, Tearer, Retrier, Opener, Closer, Flusher, Scheduler, Refuser,
   stopping, isReleased, isClosing, closeOpen, closeRequested,
   closeResourcesReleased, closeCallbackDelivered, Arg, Call, Return,
   CallNote, task, write, life, calls, loop, local, At, Go
<1>3. CASE RegisterStart(p)
  BY <1>3, <1>1, SMTT(30) DEF RegisterStart
<1>4. CASE RegisterNote(p)
  BY <1>4, <1>1, SMTT(30) DEF RegisterNote, Unregistered, TaskAlone,
     PlaceOK, fLabels
<1>5. CASE RegisterAcquire(p)
  BY <1>2, <1>5, <1>1, SMTT(30) DEF AcquireMoves, Joined
<1>6. CASE RegisterPut(p)
  <2>1. CASE /\ published' /\ Go(p, "g_look")
             /\ UNCHANGED <<events, claimed>>
    BY <1>2, <1>6, <2>1, <1>1, SMTT(30) DEF PutMoves
  <2>2. CASE /\ UNCHANGED published /\ Go(p, "g_close")
             /\ events' = {} /\ ~claimed'
    BY <1>2, <1>6, <2>2, <1>1, SMTT(30) DEF PutMoves
  <2> HIDE DEF Owed, Kept, Go
  <2>3. QED
    BY <1>2, <1>6, <2>1, <2>2, Zenon DEF PutMoves
<1>7. CASE RegisterLook(p)
  <2>1. CASE /\ Accepted \/ ~stopping
             /\ Go(p, "g_submit") /\ UNCHANGED published
    BY <1>2, <1>7, <2>1, <1>1, SMTT(30) DEF LookMoves
  <2>2. CASE ~published' /\ Go(p, "g_leave")
    BY <1>2, <1>7, <2>2, <1>1, SMTT(30) DEF LookMoves
  <2> HIDE DEF Owed, Kept, Go
  <2>3. QED
    BY <1>2, <1>7, <2>1, <2>2, Zenon DEF LookMoves
<1>8. CASE RegisterLeave(p)
  BY <1>8, <1>1, SMTT(30) DEF RegisterLeave, abandon, Unregistered,
     TaskAlone, PlaceOK, Lifecycle!Next, Lifecycle!Abandon,
     Lifecycle!closeResourcesReleased, Lifecycle!closeCallbackDelivered,
     Owns
<1>9. CASE RegisterDrop(p)
  BY <1>9, <1>1, SMTT(30) DEF RegisterDrop, PlaceOK
<1>10. CASE RegisterClose(p)
  BY <1>10, <1>1, SMTT(30) DEF RegisterClose, abandon, Home, Unregistered,
     TaskAlone, PlaceOK, Lifecycle!Next, Lifecycle!Abandon,
     Lifecycle!closeResourcesReleased, Lifecycle!closeCallbackDelivered,
     fLabels
<1>11. CASE RegisterSubmit(p)
  BY <1>11, <1>1, SMTT(30) DEF RegisterSubmit, Submit, Home
<1> HIDE DEF Owed, Kept
<1>12. QED
  BY <1>3, <1>4, <1>5, <1>6, <1>7, <1>8, <1>9, <1>10, <1>11, Zenon DEF
     Register

\* The shutdown.
LEMMA ShutdownDuties ==
    ASSUME NEW p \in Procs,
           NEW ow, NEW cl, NEW no, NEW te, NEW re,
           NEW op, NEW cs, NEW fl, NEW sc, NEW hp,
           Owed(p, ow, cl, no, te, re, op, cs, fl, sc, hp), Shutdown(p)
    PROVE  Kept(p, ow, cl, no, te, re, op, cs, fl, sc, hp)
<1>1. /\ Registrar # Stopper /\ Registrar \in Procs /\ Stopper \in Procs
      /\ Registrar \notin Workers /\ Stopper \notin Workers
      /\ p \in Producers \cup Workers \/ p = Registrar \/ p = Stopper
  BY ProcsAssumption, Zenon DEF Procs
<1> USE DEF Owed, Kept, Known, Knows, StagesOK, CallsOK, EventsOK,
   TeardownOK, DeliverOK, PassOK, LifeStep, gLabels, TypeOK, Phases, Noter,
   Claimer, Tearer, Retrier, Opener, Closer, Flusher, Scheduler, Refuser,
   stopping, isReleased, isClosing, closeOpen, closeRequested,
   closeResourcesReleased, closeCallbackDelivered, Arg, Call, Return,
   CallNote, task, write, life, calls, loop, local, At, Go
<1>2. CASE ShutdownLoops(p)
  BY <1>2, <1>1, SMTT(30) DEF ShutdownLoops, PlaceOK, sLabels
<1>3. CASE ClosePoller(p)
  BY <1>3, <1>1, SMTT(30) DEF ClosePoller
<1>4. CASE ShutdownBegin(p)
  BY <1>4, <1>1, SMTT(30) DEF ShutdownBegin, request, PlaceOK,
     Lifecycle!Next, Lifecycle!Request, Lifecycle!closeOpen,
     Lifecycle!closeRequested, sLabels
<1>5. CASE StopIO(p)
  BY <1>5, <1>1, SMTT(30) DEF StopIO
<1>6. CASE StopSum(p)
  BY <1>6, <1>1, SMTT(30) DEF StopSum
<1>7. CASE StopJoined(p)
  BY <1>7, <1>1, SMTT(30) DEF StopJoined, Joined, Unregistered, Counted,
     nLabels
<1>8. CASE WaitIODrained(p)
  BY <1>8, <1>1, SMTT(30) DEF WaitIODrained
<1> HIDE DEF Owed, Kept
<1>9. QED
  BY <1>2, <1>3, <1>4, <1>5, <1>6, <1>7, <1>8, ZenonT(30) DEF Shutdown

\* What begins an operation.
LEMMA StartDuties ==
    ASSUME NEW p \in Procs,
           NEW ow, NEW cl, NEW no, NEW te, NEW re,
           NEW op, NEW cs, NEW fl, NEW sc, NEW hp,
           Owed(p, ow, cl, no, te, re, op, cs, fl, sc, hp), Start(p)
    PROVE  Kept(p, ow, cl, no, te, re, op, cs, fl, sc, hp)
<1>1. /\ Registrar # Stopper /\ Registrar \in Procs /\ Stopper \in Procs
      /\ Registrar \notin Workers /\ Stopper \notin Workers
      /\ p \in Producers \cup Workers \/ p = Registrar \/ p = Stopper
  BY ProcsAssumption, Zenon DEF Procs
<1> USE DEF Owed, Kept, Known, Knows, StagesOK, CallsOK, EventsOK,
   TeardownOK, DeliverOK, PassOK, LifeStep, gLabels, TypeOK, Phases, Noter,
   Claimer, Tearer, Retrier, Opener, Closer, Flusher, Scheduler, Refuser,
   stopping, isReleased, isClosing, closeOpen, closeRequested,
   closeResourcesReleased, closeCallbackDelivered, Arg, Call, Return,
   CallNote, task, write, life, calls, loop, local, At, Go
<1>2. CASE Signal(p)
  BY <1>2, <1>1, SMTT(30) DEF Signal, exposed
<1>3. CASE CloseWith(p)
  BY <1>3, <1>1, SMTT(30) DEF CloseWith, request, exposed, Unregistered,
     Lifecycle!Next, Lifecycle!Request, Lifecycle!closeOpen,
     Lifecycle!closeRequested
<1>4. CASE KickStart(p)
  BY <1>4, <1>1, SMTT(30) DEF KickStart, exposed
<1>5. CASE ShutdownStart(p)
  <2> HIDE DEF Owed, Kept, EventsOK, TeardownOK, DeliverOK
  <2>1. /\ EventsOK(cl \/ Claimer(p))'
        /\ TeardownOK(cl \/ Claimer(p), no \/ Noter(p),
                      te \/ Tearer(p), re \/ Retrier(p))'
        /\ DeliverOK(cl \/ Claimer(p), cs \/ Closer(p), sc \/ Scheduler(p))'
    BY <1>5, Zenon DEF ShutdownStart, EventsOK, TeardownOK, DeliverOK
  <2>2. /\ phase' >= phase /\ (ioStop => ioStop') /\ Knows(p)'
        /\ LifeStep
        /\ StagesOK'
    BY <1>5, <1>1, SMTT(30) DEF ShutdownStart, Owed
  <2>3. /\ CallsOK(op \/ Opener(p), cs \/ Closer(p))'
        /\ PassOK(cs \/ Closer(p), fl \/ Flusher(p), hp \/ Refuser(p))'
    BY <1>5, <1>1, SMTT(30) DEF ShutdownStart, Owed
  <2> HIDE DEF CallsOK, PassOK, Knows, LifeStep, StagesOK
  <2>4. QED
    BY <2>1, <2>2, <2>3, Zenon DEF Kept
<1> HIDE DEF Owed, Kept
<1>6. QED
  BY <1>2, <1>3, <1>4, <1>5, Zenon DEF Start

----------------------------------------------------------------------------
(* Counts and places.                                                      *)

\* kickWriter and write turns.
LEMMA WriteKeeps ==
    ASSUME NEW p \in Procs, Before(p), Write(p)
    PROVE  After(p)
<1> USE DEF At, Go, Arg, Call, Return, task, write, life, loop, calls, local,
            Before, nLabels, dLabels, tLabels, sLabels, gLabels, fLabels, takers
<1>1. CASE KickClaim(p)
  <2>1. Moves(p)
    BY <1>1 DEF KickClaim, Moves, Labels, Returns, ReturnOK
  <2>2. TypeOK'
    BY <1>1, <2>1 DEF KickClaim, Moves, TypeOK, Phases, isReleased,
       isClosing, closeOpen, closeRequested, closeResourcesReleased,
       closeCallbackDelivered, Bit, Events
  <2>3. ReturnOK(pc'[p], ret'[p]) /\ PlaceOK(p, pc'[p], ret'[p])
    BY <1>1, Zenon DEF KickClaim, ReturnOK, PlaceOK
  <2>4. Balance(p)' = Balance(p)
    BY <1>1, Zenon DEF KickClaim, Balance, Bit, Owns, TypeOK, ReturnOK
  <2>5. Debt(p)' = Debt(p)
    BY <1>1, Zenon DEF KickClaim, Debt, Bit, Counted, TypeOK, ReturnOK
  <2>6. Tenure(p)' = Tenure(p)
    BY <1>1 DEF KickClaim, Tenure, Holds, Sends, Bit, Phases, isReleased,
       isClosing, closeOpen, closeRequested, closeResourcesReleased,
       closeCallbackDelivered, Bit, TypeOK, ReturnOK
  <2>7. QED
    BY <2>1, <2>2, <2>3, <2>4, <2>5, <2>6, Zenon DEF After
<1>2. CASE KickAcquire(p)
  <2>1. Moves(p)
    BY <1>2 DEF KickAcquire, Acquire, WriteSubmit, Home, Moves, Labels,
       Returns, ReturnOK
  <2>2. TypeOK'
    BY <1>2, <2>1 DEF KickAcquire, Acquire, WriteSubmit, Home, Moves,
       TypeOK, Phases, isReleased, isClosing, closeOpen, closeRequested,
       closeResourcesReleased, closeCallbackDelivered, Bit, Events
  <2>3. ReturnOK(pc'[p], ret'[p]) /\ PlaceOK(p, pc'[p], ret'[p])
    BY <1>2 DEF KickAcquire, Acquire, WriteSubmit, Home, ReturnOK, PlaceOK
  <2>4. Balance(p)' = Balance(p)
    BY <1>2, ZenonT(30) DEF KickAcquire, Acquire, WriteSubmit, Home, Balance,
       Bit, Owns, TypeOK, ReturnOK
  <2>5. Debt(p)' = Debt(p)
    BY <1>2 DEF KickAcquire, Acquire, WriteSubmit, Home, Debt, Bit,
       Counted, TypeOK, ReturnOK
  <2>6. Tenure(p)' = Tenure(p)
    BY <1>2 DEF KickAcquire, Acquire, WriteSubmit, Home, Tenure, Holds,
       Sends, Bit, Phases, isReleased, isClosing, closeOpen, closeRequested,
       closeResourcesReleased, closeCallbackDelivered, Bit, TypeOK, ReturnOK
  <2>7. QED
    BY <2>1, <2>2, <2>3, <2>4, <2>5, <2>6, Zenon DEF After
<1>3. CASE WriteStart(p)
  <2>1. Moves(p)
    BY <1>3 DEF WriteStart, Moves, Labels, Returns, ReturnOK
  <2>2. TypeOK'
    BY <1>3, <2>1 DEF WriteStart, Moves, TypeOK, Phases, isReleased,
       isClosing, closeOpen, closeRequested, closeResourcesReleased,
       closeCallbackDelivered, Bit, Events
  <2>3. ReturnOK(pc'[p], ret'[p]) /\ PlaceOK(p, pc'[p], ret'[p])
    BY <1>3, Zenon DEF WriteStart, ReturnOK, PlaceOK
  <2>4. Balance(p)' = Balance(p)
    BY <1>3, Zenon DEF WriteStart, Balance, Bit, Owns, TypeOK, ReturnOK
  <2>5. Debt(p)' = Debt(p)
    BY <1>3 DEF WriteStart, Debt, Bit, Counted, TypeOK, ReturnOK
  <2>6. Tenure(p)' = Tenure(p)
    BY <1>3 DEF WriteStart, Tenure, Holds, Sends, Bit, Phases, isReleased,
       isClosing, closeOpen, closeRequested, closeResourcesReleased,
       closeCallbackDelivered, Bit, TypeOK, ReturnOK
  <2>7. QED
    BY <2>1, <2>2, <2>3, <2>4, <2>5, <2>6, Zenon DEF After
<1>4. CASE WriteSend(p)
  <2>1. Moves(p)
    BY <1>4 DEF WriteSend, request, CallNote, Moves, Labels, Returns, ReturnOK
  <2>2. TypeOK'
    BY <1>4, <2>1 DEF WriteSend, request, CallNote, Moves, TypeOK, Phases,
       isReleased, isClosing, closeOpen, closeRequested,
       closeResourcesReleased, closeCallbackDelivered, Bit, Events
  <2>3. ReturnOK(pc'[p], ret'[p]) /\ PlaceOK(p, pc'[p], ret'[p])
    BY <1>4, ZenonT(30) DEF WriteSend, request, CallNote, ReturnOK, PlaceOK
  <2>4. Balance(p)' = Balance(p)
    BY <1>4, ZenonT(30) DEF WriteSend, request, CallNote, Balance, Bit, Owns,
       TypeOK, ReturnOK
  <2>5. Debt(p)' = Debt(p)
    BY <1>4, Zenon DEF WriteSend, request, CallNote, Debt, Bit, Counted,
       TypeOK, ReturnOK
  <2>6. Tenure(p)' = Tenure(p)
    BY <1>4 DEF WriteSend, request, CallNote, Tenure, Holds, Sends, Bit,
       Phases, isReleased, isClosing, closeOpen, closeRequested,
       closeResourcesReleased, closeCallbackDelivered, Bit, TypeOK, ReturnOK
  <2>7. QED
    BY <2>1, <2>2, <2>3, <2>4, <2>5, <2>6, Zenon DEF After
<1>5. CASE WriteHandOn(p)
  <2>1. Moves(p)
    BY <1>5 DEF WriteHandOn, WriteSubmit, Home, Moves, Labels, Returns,
       ReturnOK
  <2>2. TypeOK'
    BY <1>5, <2>1 DEF WriteHandOn, WriteSubmit, Home, Moves, TypeOK,
       Phases, isReleased, isClosing, closeOpen, closeRequested,
       closeResourcesReleased, closeCallbackDelivered, Bit, Events
  <2>3. ReturnOK(pc'[p], ret'[p]) /\ PlaceOK(p, pc'[p], ret'[p])
    BY <1>5 DEF WriteHandOn, WriteSubmit, Home, ReturnOK, PlaceOK
  <2>4. Balance(p)' = Balance(p)
    BY <1>5, ZenonT(30) DEF WriteHandOn, WriteSubmit, Home, Balance, Bit,
       Owns, TypeOK, ReturnOK
  <2>5. Debt(p)' = Debt(p)
    BY <1>5 DEF WriteHandOn, WriteSubmit, Home, Debt, Bit, Counted, TypeOK,
       ReturnOK
  <2>6. Tenure(p)' = Tenure(p)
    BY <1>5 DEF WriteHandOn, WriteSubmit, Home, Tenure, Holds, Sends, Bit,
       Phases, isReleased, isClosing, closeOpen, closeRequested,
       closeResourcesReleased, closeCallbackDelivered, Bit, TypeOK, ReturnOK
  <2>7. QED
    BY <2>1, <2>2, <2>3, <2>4, <2>5, <2>6, ZenonT(30) DEF After
<1>6. CASE ReleaseWrite(p, "w_done", "w_next")
  <2>1. Moves(p)
    BY <1>6 DEF ReleaseWrite, Moves, Labels, Returns, ReturnOK
  <2>2. TypeOK'
    BY <1>6, <2>1, ZenonT(30) DEF ReleaseWrite, Moves, TypeOK, Phases,
       isReleased,
       isClosing, closeOpen, closeRequested, closeResourcesReleased,
       closeCallbackDelivered, Bit, Events
  <2>3. ReturnOK(pc'[p], ret'[p]) /\ PlaceOK(p, pc'[p], ret'[p])
    BY <1>6 DEF ReleaseWrite, ReturnOK, PlaceOK
  <2>4. Balance(p)' = Balance(p)
    BY <1>6, ZenonT(30) DEF ReleaseWrite, Balance, Bit, Owns, TypeOK, ReturnOK
  <2>5. Debt(p)' = Debt(p)
    BY <1>6, ZenonT(30) DEF ReleaseWrite, Debt, Bit, Counted, TypeOK, ReturnOK
  <2>6. Tenure(p)' = Tenure(p)
    BY <1>6 DEF ReleaseWrite, Tenure, Holds, Sends, Bit, Phases,
       isReleased, isClosing, closeOpen, closeRequested,
       closeResourcesReleased, closeCallbackDelivered, Bit, TypeOK, ReturnOK
  <2>7. QED
    BY <2>1, <2>2, <2>3, <2>4, <2>5, <2>6, ZenonT(30) DEF After
<1>7. CASE ReleaseWrite(p, "w_refused", "w_close")
  <2>1. Moves(p)
    BY <1>7 DEF ReleaseWrite, Moves, Labels, Returns, ReturnOK
  <2>2. TypeOK'
    BY <1>7, <2>1, ZenonT(30) DEF ReleaseWrite, Moves, TypeOK, Phases,
       isReleased,
       isClosing, closeOpen, closeRequested, closeResourcesReleased,
       closeCallbackDelivered, Bit, Events
  <2>3. ReturnOK(pc'[p], ret'[p]) /\ PlaceOK(p, pc'[p], ret'[p])
    BY <1>7 DEF ReleaseWrite, ReturnOK, PlaceOK
  <2>4. Balance(p)' = Balance(p)
    BY <1>7, ZenonT(30) DEF ReleaseWrite, Balance, Bit, Owns, TypeOK, ReturnOK
  <2>5. Debt(p)' = Debt(p)
    BY <1>7, ZenonT(30) DEF ReleaseWrite, Debt, Bit, Counted, TypeOK, ReturnOK
  <2>6. Tenure(p)' = Tenure(p)
    BY <1>7 DEF ReleaseWrite, Tenure, Holds, Sends, Bit, Phases,
       isReleased, isClosing, closeOpen, closeRequested,
       closeResourcesReleased, closeCallbackDelivered, Bit, TypeOK, ReturnOK
  <2>7. QED
    BY <2>1, <2>2, <2>3, <2>4, <2>5, <2>6, Zenon DEF After
<1>8. CASE ReleaseWrite(p, "k_back", "idle")
  <2>1. Moves(p)
    BY <1>8 DEF ReleaseWrite, Moves, Labels, Returns, ReturnOK
  <2>2. TypeOK'
    BY <1>8, <2>1, ZenonT(30) DEF ReleaseWrite, Moves, TypeOK, Phases,
       isReleased, isClosing, closeOpen, closeRequested,
       closeResourcesReleased, closeCallbackDelivered, Bit, Events
  <2>3. ReturnOK(pc'[p], ret'[p]) /\ PlaceOK(p, pc'[p], ret'[p])
    BY <1>8 DEF ReleaseWrite, ReturnOK, PlaceOK
  <2>4. Balance(p)' = Balance(p)
    BY <1>8, ZenonT(30) DEF ReleaseWrite, Balance, Bit, Owns, TypeOK, ReturnOK
  <2>5. Debt(p)' = Debt(p)
    BY <1>8 DEF ReleaseWrite, Debt, Bit, Counted, TypeOK, ReturnOK
  <2>6. Tenure(p)' = Tenure(p)
    BY <1>8 DEF ReleaseWrite, Tenure, Holds, Sends, Bit, Phases,
       isReleased, isClosing, closeOpen, closeRequested,
       closeResourcesReleased, closeCallbackDelivered, Bit, TypeOK, ReturnOK
  <2>7. QED
    BY <2>1, <2>2, <2>3, <2>4, <2>5, <2>6, Zenon DEF After
<1>9. CASE WriteHandBack(p)
  <2>1. Moves(p)
    BY <1>9 DEF WriteHandBack, CallNote, Moves, Labels, Returns, ReturnOK
  <2>2. TypeOK'
    BY <1>9, <2>1, ZenonT(30) DEF WriteHandBack, CallNote, Moves, TypeOK,
       Phases,
       isReleased, isClosing, closeOpen, closeRequested,
       closeResourcesReleased, closeCallbackDelivered, Bit, Events
  <2>3. ReturnOK(pc'[p], ret'[p]) /\ PlaceOK(p, pc'[p], ret'[p])
    BY <1>9, ZenonT(30) DEF WriteHandBack, CallNote, ReturnOK, PlaceOK
  <2>4. Balance(p)' = Balance(p)
    BY <1>9, Zenon DEF WriteHandBack, CallNote, Balance, Bit, Owns, TypeOK,
       ReturnOK
  <2>5. Debt(p)' = Debt(p)
    BY <1>9, ZenonT(30) DEF WriteHandBack, CallNote, Debt, Bit, Counted,
       TypeOK, ReturnOK
  <2>6. Tenure(p)' = Tenure(p)
    BY <1>9, Zenon DEF WriteHandBack, CallNote, Tenure, Holds, Sends, Bit,
       Phases, isReleased, isClosing, closeOpen, closeRequested,
       closeResourcesReleased, closeCallbackDelivered, Bit, TypeOK, ReturnOK
  <2>7. QED
    BY <2>1, <2>2, <2>3, <2>4, <2>5, <2>6, Zenon DEF After
<1>10. CASE WriteNext(p)
  <2>1. Moves(p)
    BY <1>10 DEF WriteNext, Moves, Labels, Returns, ReturnOK
  <2>2. TypeOK'
    BY <1>10, <2>1 DEF WriteNext, Moves, TypeOK, Phases, isReleased,
       isClosing, closeOpen, closeRequested, closeResourcesReleased,
       closeCallbackDelivered, Bit, Events
  <2>3. ReturnOK(pc'[p], ret'[p]) /\ PlaceOK(p, pc'[p], ret'[p])
    BY <1>10, ZenonT(30) DEF WriteNext, ReturnOK, PlaceOK
  <2>4. Balance(p)' = Balance(p)
    BY <1>10, ZenonT(30) DEF WriteNext, Balance, Bit, Owns, TypeOK, ReturnOK
  <2>5. Debt(p)' = Debt(p)
    BY <1>10, Zenon DEF WriteNext, Debt, Bit, Counted, TypeOK, ReturnOK
  <2>6. Tenure(p)' = Tenure(p)
    BY <1>10, ZenonT(30) DEF WriteNext, Tenure, Holds, Sends, Bit, Phases,
       isReleased, isClosing, closeOpen, closeRequested,
       closeResourcesReleased, closeCallbackDelivered, Bit, TypeOK, ReturnOK
  <2>7. QED
    BY <2>1, <2>2, <2>3, <2>4, <2>5, <2>6, ZenonT(30) DEF After
<1>11. CASE WriteAgain(p)
  <2>1. Moves(p)
    BY <1>11 DEF WriteAgain, WriteSubmit, Home, Moves, Labels, Returns,
       ReturnOK
  <2>2. TypeOK'
    BY <1>11, <2>1 DEF WriteAgain, WriteSubmit, Home, Moves, TypeOK,
       Phases, isReleased, isClosing, closeOpen, closeRequested,
       closeResourcesReleased, closeCallbackDelivered, Bit, Events
  <2>3. ReturnOK(pc'[p], ret'[p]) /\ PlaceOK(p, pc'[p], ret'[p])
    BY <1>11 DEF WriteAgain, WriteSubmit, Home, ReturnOK, PlaceOK
  <2>4. Balance(p)' = Balance(p)
    BY <1>11 DEF WriteAgain, WriteSubmit, Home, Balance, Bit, Owns, TypeOK,
       ReturnOK
  <2>5. Debt(p)' = Debt(p)
    BY <1>11 DEF WriteAgain, WriteSubmit, Home, Debt, Bit, Counted, TypeOK,
       ReturnOK
  <2>6. Tenure(p)' = Tenure(p)
    BY <1>11 DEF WriteAgain, WriteSubmit, Home, Tenure, Holds, Sends, Bit,
       Phases, isReleased, isClosing, closeOpen, closeRequested,
       closeResourcesReleased, closeCallbackDelivered, Bit, TypeOK, ReturnOK
  <2>7. QED
    BY <2>1, <2>2, <2>3, <2>4, <2>5, <2>6, Zenon DEF After
<1>12. CASE WriteRefused(p)
  <2>1. Moves(p)
    BY <1>12 DEF WriteRefused, request, CallNote, Moves, Labels, Returns,
       ReturnOK
  <2>2. TypeOK'
    BY <1>12, <2>1 DEF WriteRefused, request, CallNote, Moves, TypeOK,
       Phases, isReleased, isClosing, closeOpen, closeRequested,
       closeResourcesReleased, closeCallbackDelivered, Bit, Events
  <2>3. ReturnOK(pc'[p], ret'[p]) /\ PlaceOK(p, pc'[p], ret'[p])
    BY <1>12 DEF WriteRefused, request, CallNote, ReturnOK, PlaceOK
  <2>4. Balance(p)' = Balance(p)
    BY <1>12 DEF WriteRefused, request, CallNote, Balance, Bit, Owns,
       TypeOK, ReturnOK
  <2>5. Debt(p)' = Debt(p)
    BY <1>12, ZenonT(30) DEF WriteRefused, request, CallNote, Debt, Bit,
       Counted, TypeOK, ReturnOK
  <2>6. Tenure(p)' = Tenure(p)
    BY <1>12 DEF WriteRefused, request, CallNote, Tenure, Holds, Sends,
       Bit, Phases, isReleased, isClosing, closeOpen, closeRequested,
       closeResourcesReleased, closeCallbackDelivered, Bit, TypeOK, ReturnOK
  <2>7. QED
    BY <2>1, <2>2, <2>3, <2>4, <2>5, <2>6, Zenon DEF After
<1>13. QED
  BY <1>1, <1>2, <1>3, <1>4, <1>5, <1>6, <1>7, <1>8, <1>9, <1>10, <1>11,
     <1>12 DEF Write

\* registerConn.
LEMMA RegisterKeeps ==
    ASSUME NEW p \in Procs, Before(p), Register(p)
    PROVE  After(p)
<1> USE DEF At, Go, Arg, Call, Return, task, write, life, loop, calls, local
<1>t. TypeOK
  BY Zenon DEF Before
<1>f. pc \in [Procs -> Labels] /\ ret \in [Procs -> Returns]
  BY Zenon DEF Before
<1>r. ReturnOK(pc[p], ret[p]) /\ PlaceOK(p, pc[p], ret[p])
  BY Zenon DEF Before
<1>o. Owns(p) => claimed /\ queued = 0 /\ rejected = 0
  BY Zenon DEF Before
<1>h. Holds(p) => wclaim /\ wqueued = 0 /\ ~isReleased
  BY Zenon DEF Before
<1>g. /\ pc[Registrar] \in gLabels =>
           wclaim = FALSE /\ wqueued = 0 /\ queued = 0 /\ rejected = 0
      /\ pc[Registrar] \in fLabels => claimed = (pc[Registrar] = "g_put")
  BY Zenon DEF Before
<1>1. CASE RegisterStart(p)
  <2>1. Moves(p)
    BY <1>1, <1>f DEF RegisterStart, Moves, Labels
  <2>2. TypeOK'
    BY <1>1, <1>t, <2>1, Zenon DEF RegisterStart, Moves, TypeOK
  <2>3. ReturnOK(pc'[p], ret'[p]) /\ PlaceOK(p, pc'[p], ret'[p])
    BY <1>1, <1>f, <1>r, Zenon DEF RegisterStart, ReturnOK, PlaceOK, nLabels,
       dLabels, tLabels, sLabels
  <2>4. Balance(p)' = Balance(p)
    BY <1>1, <1>f, Zenon DEF RegisterStart, Balance, Owns
  <2>5. Debt(p)' = Debt(p)
    BY <1>1, <1>f, Zenon DEF RegisterStart, Debt, Counted
  <2>6. Tenure(p)' = Tenure(p)
    BY <1>1, <1>f, Zenon DEF RegisterStart, Tenure, Holds, Sends, isReleased
  <2>7. QED
    BY <2>1, <2>2, <2>3, <2>4, <2>5, <2>6, Zenon DEF After
<1>2. CASE RegisterNote(p)
  <2>1. Moves(p)
    BY <1>2, <1>f DEF RegisterNote, Moves, Labels
  <2>2. TypeOK'
    BY <1>2, <1>t, <2>1 DEF RegisterNote, Moves, TypeOK, Events
  <2>3. ReturnOK(pc'[p], ret'[p]) /\ PlaceOK(p, pc'[p], ret'[p])
    BY <1>2, <1>f, <1>r, Zenon DEF RegisterNote, ReturnOK, PlaceOK, nLabels,
       dLabels, tLabels, sLabels, gLabels
  <2>4. Balance(p)' = Balance(p)
    BY <1>2, <1>f, Zenon DEF RegisterNote, Balance, Owns
  <2>5. Debt(p)' = Debt(p)
    BY <1>2, <1>f, Zenon DEF RegisterNote, Debt, Counted
  <2>6. Tenure(p)' = Tenure(p)
    BY <1>2, <1>f, Zenon DEF RegisterNote, Tenure, Holds, Sends, isReleased
  <2>7. QED
    BY <2>1, <2>2, <2>3, <2>4, <2>5, <2>6, Zenon DEF After
<1>3. CASE RegisterAcquire(p)
  <2>1. Moves(p)
    BY <1>3, <1>f DEF RegisterAcquire, Acquire, Moves, Labels
  <2>2. TypeOK'
    BY <1>3, <1>t, <2>1 DEF RegisterAcquire, Acquire, Moves, TypeOK
  <2>3. ReturnOK(pc'[p], ret'[p]) /\ PlaceOK(p, pc'[p], ret'[p])
    BY <1>3, <1>f, <1>r, Zenon DEF RegisterAcquire, Acquire, ReturnOK,
       PlaceOK, nLabels, dLabels, tLabels, sLabels, gLabels
  <2>4. Balance(p)' = Balance(p)
    <3>1. ~Owns(p) /\ ~claimed
      BY <1>3, <1>r, <1>o, <1>g, Zenon DEF RegisterAcquire, PlaceOK, gLabels,
         fLabels
    <3>2. (Owns(p))' <=> claimed'
      BY <1>3, <1>f, <1>r, Zenon DEF RegisterAcquire, Owns, ReturnOK,
         dLabels, tLabels
    <3>3. UNCHANGED <<queued, rejected>>
      BY <1>3, Zenon DEF RegisterAcquire
    <3>4. claimed' \in BOOLEAN
      BY <2>2, Zenon DEF TypeOK
    <3>5. QED
      BY <3>1, <3>2, <3>3, <3>4 DEF Balance, Bit, TypeOK
  <2>5. Debt(p)' = Debt(p)
    BY <1>3, <1>t, <1>r DEF RegisterAcquire, Acquire, Debt, Bit, Counted,
       TypeOK, ReturnOK, nLabels, dLabels, tLabels
  <2>6. Tenure(p)' = Tenure(p)
    BY <1>3, <1>f, Zenon DEF RegisterAcquire, Acquire, Tenure, Holds, Sends,
       isReleased
  <2>7. QED
    BY <2>1, <2>2, <2>3, <2>4, <2>5, <2>6, ZenonT(30) DEF After
<1>4. CASE RegisterPut(p)
  <2>1. Moves(p)
    BY <1>4, <1>f DEF RegisterPut, Release, Moves, Labels
  <2>2. TypeOK'
    <3>1. events' \subseteq Events /\ claimed' \in BOOLEAN /\ published' \in BOOLEAN
      BY <1>4, <1>t, Zenon DEF RegisterPut, TypeOK
    <3>2. count' \in Int /\ ioStop' \in BOOLEAN /\ ioIdle' \in BOOLEAN
          /\ stage' \in {"serving", "closing", "stopping"}
      BY <1>4, <1>t DEF RegisterPut, Release, TypeOK
    <3>3. QED
      BY <1>4, <1>t, <2>1, <3>1, <3>2, Zenon DEF RegisterPut, Moves, TypeOK
  <2>3. ReturnOK(pc'[p], ret'[p]) /\ PlaceOK(p, pc'[p], ret'[p])
    BY <1>4, <1>f, <1>r, ZenonT(60) DEF RegisterPut, Release, ReturnOK,
       PlaceOK, nLabels, dLabels, tLabels, sLabels, gLabels
  <2>4. Balance(p)' = Balance(p)
    <3>1. Owns(p) /\ claimed
      BY <1>4, <1>o, Zenon DEF RegisterPut, Owns
    <3>2. (Owns(p))' <=> claimed'
      BY <1>4, <1>f, <1>r, <3>1, Zenon DEF RegisterPut, Owns, ReturnOK,
         dLabels, tLabels
    <3>3. UNCHANGED <<queued, rejected>>
      BY <1>4, Zenon DEF RegisterPut
    <3>4. claimed' \in BOOLEAN
      BY <2>2, Zenon DEF TypeOK
    <3>5. QED
      BY <3>1, <3>2, <3>3, <3>4 DEF Balance, Bit, TypeOK
  <2>5. Debt(p)' = Debt(p)
    BY <1>4, <1>t, <1>r DEF RegisterPut, Release, Debt, Bit, Counted, TypeOK,
       ReturnOK, nLabels, dLabels, tLabels
  <2>6. Tenure(p)' = Tenure(p)
    BY <1>4, <1>f, Zenon DEF RegisterPut, Release, Tenure, Holds, Sends,
       isReleased
  <2>7. QED
    BY <2>1, <2>2, <2>3, <2>4, <2>5, <2>6, Zenon DEF After
<1>5. CASE RegisterLook(p)
  <2>1. Moves(p)
    BY <1>5, <1>f, Zenon DEF RegisterLook, Moves, Labels
  <2>2. TypeOK'
    BY <1>5, <1>t, <1>f, <1>r, <2>1, Zenon DEF RegisterLook, Moves, TypeOK,
       Phases, closeOpen, closeRequested, closeResourcesReleased,
       closeCallbackDelivered, Events, ReturnOK, nLabels, dLabels, tLabels
  <2>3. ReturnOK(pc'[p], ret'[p]) /\ PlaceOK(p, pc'[p], ret'[p])
    BY <1>5, <1>f, <1>r, Zenon DEF RegisterLook, ReturnOK, PlaceOK, nLabels,
       dLabels, tLabels, sLabels, gLabels
  <2>4. Balance(p)' = Balance(p)
    BY <1>5, <1>f, Zenon DEF RegisterLook, Balance, Owns
  <2>5. Debt(p)' = Debt(p)
    BY <1>5, <1>f, Zenon DEF RegisterLook, Debt, Counted
  <2>6. Tenure(p)' = Tenure(p)
    BY <1>5, <1>f, Zenon DEF RegisterLook, Tenure, Holds, Sends, isReleased
  <2>7. QED
    BY <2>1, <2>2, <2>3, <2>4, <2>5, <2>6, Zenon DEF After
<1>6. CASE RegisterLeave(p)
  <2>1. Moves(p)
    BY <1>6, <1>f DEF RegisterLeave, abandon, Moves, Labels
  <2>2. TypeOK'
    BY <1>6, <1>t, <1>f, <1>r, <2>1, Zenon DEF RegisterLeave, abandon, Moves,
       TypeOK, Phases, isReleased
  <2>3. ReturnOK(pc'[p], ret'[p]) /\ PlaceOK(p, pc'[p], ret'[p])
    BY <1>6, <1>f, <1>r, Zenon DEF RegisterLeave, abandon, ReturnOK, PlaceOK,
       nLabels, dLabels, tLabels, sLabels, gLabels
  <2>4. Balance(p)' = Balance(p)
    BY <1>6, <1>f, Zenon DEF RegisterLeave, abandon, Balance, Owns
  <2>5. Debt(p)' = Debt(p)
    BY <1>6, <1>f, Zenon DEF RegisterLeave, abandon, Debt, Counted
  <2>6. Tenure(p)' = Tenure(p)
    BY <1>6, <1>f, <1>r, <1>h, <1>g, Zenon DEF RegisterLeave, abandon,
       Tenure, Holds, Sends, PlaceOK, gLabels
  <2>7. QED
    BY <2>1, <2>2, <2>3, <2>4, <2>5, <2>6, Zenon DEF After
<1>7. CASE RegisterDrop(p)
  <2>1. Moves(p)
    BY <1>7, <1>f DEF RegisterDrop, Moves, Labels
  <2>2. TypeOK'
    BY <1>7, <1>t, <1>f, <1>r, <2>1, Zenon DEF RegisterDrop, Moves, TypeOK,
       Events, ReturnOK, nLabels, dLabels, tLabels
  <2>3. ReturnOK(pc'[p], ret'[p]) /\ PlaceOK(p, pc'[p], ret'[p])
    BY <1>7, <1>f, <1>r, Zenon DEF RegisterDrop, ReturnOK, PlaceOK, nLabels,
       dLabels, tLabels, sLabels, gLabels
  <2>4. Balance(p)' = Balance(p)
    BY <1>7, <1>f, <1>r, <1>o DEF RegisterDrop, Balance, Bit, Owns, ReturnOK,
       dLabels, tLabels
  <2>5. Debt(p)' = Debt(p)
    BY <1>7, <1>f, Zenon DEF RegisterDrop, Debt, Counted
  <2>6. Tenure(p)' = Tenure(p)
    BY <1>7, <1>f, Zenon DEF RegisterDrop, Tenure, Holds, Sends, isReleased
  <2>7. QED
    BY <2>1, <2>2, <2>3, <2>4, <2>5, <2>6, Zenon DEF After
<1>8. CASE RegisterClose(p)
  <2>1. Moves(p)
    BY <1>8, <1>f DEF RegisterClose, abandon, Home, Moves, Labels
  <2>2. TypeOK'
    BY <1>8, <1>t, <2>1, Zenon DEF RegisterClose, abandon, Home, Moves,
       TypeOK, Phases
  <2>3. ReturnOK(pc'[p], ret'[p]) /\ PlaceOK(p, pc'[p], ret'[p])
    BY <1>8, <1>f, <1>r, Zenon DEF RegisterClose, abandon, Home, ReturnOK,
       PlaceOK, nLabels, dLabels, tLabels, sLabels, gLabels
  <2>4. Balance(p)' = Balance(p)
    BY <1>8, <1>f, Zenon DEF RegisterClose, abandon, Home, Balance, Owns
  <2>5. Debt(p)' = Debt(p)
    BY <1>8, <1>f, Zenon DEF RegisterClose, abandon, Home, Debt, Counted
  <2>6. Tenure(p)' = Tenure(p)
    BY <1>8, <1>f, <1>r, <1>h, <1>g, Zenon DEF RegisterClose, abandon, Home,
       Tenure, Holds, Sends, PlaceOK, gLabels
  <2>7. QED
    BY <2>1, <2>2, <2>3, <2>4, <2>5, <2>6, Zenon DEF After
<1>9. CASE RegisterSubmit(p)
  <2>1. Moves(p)
    BY <1>9, <1>f DEF RegisterSubmit, Submit, Home, Moves, Labels
  <2>2. TypeOK'
    BY <1>9, <1>t, <2>1 DEF RegisterSubmit, Submit, Home, Moves, TypeOK
  <2>3. ReturnOK(pc'[p], ret'[p]) /\ PlaceOK(p, pc'[p], ret'[p])
    BY <1>9, <1>f, <1>r, Zenon DEF RegisterSubmit, Submit, Home, ReturnOK,
       PlaceOK, nLabels, dLabels, tLabels, sLabels, gLabels
  <2>4. Balance(p)' = Balance(p)
    BY <1>9, <1>t, <1>r DEF RegisterSubmit, Submit, Home, Balance, Bit, Owns,
       TypeOK, ReturnOK, dLabels, tLabels
  <2>5. Debt(p)' = Debt(p)
    BY <1>9, <1>t, <1>r DEF RegisterSubmit, Submit, Home, Debt, Bit, Counted,
       TypeOK, ReturnOK, nLabels, dLabels, tLabels
  <2>6. Tenure(p)' = Tenure(p)
    BY <1>9, <1>f, Zenon DEF RegisterSubmit, Submit, Home, Tenure, Holds,
       Sends, isReleased
  <2>7. QED
    BY <2>1, <2>2, <2>3, <2>4, <2>5, <2>6, Zenon DEF After
<1>10. QED
  BY <1>1, <1>2, <1>3, <1>4, <1>5, <1>6, <1>7, <1>8, <1>9, Zenon DEF Register

\* The loop's shutdown.
LEMMA ShutdownKeeps ==
    ASSUME NEW p \in Procs, Before(p), Shutdown(p)
    PROVE  After(p)
<1> USE DEF At, Go, Arg, Call, Return, task, write, life, loop, calls, local
<1>t. TypeOK
  BY Zenon DEF Before
<1>f. pc \in [Procs -> Labels] /\ ret \in [Procs -> Returns]
  BY Zenon DEF Before
<1>r. ReturnOK(pc[p], ret[p]) /\ PlaceOK(p, pc[p], ret[p])
  BY Zenon DEF Before
<1>1. CASE ShutdownLoops(p)
  <2>1. Moves(p)
    BY <1>1, <1>f DEF ShutdownLoops, Moves, Labels
  <2>2. TypeOK'
    BY <1>1, <1>t, <1>f, <1>r, <2>1, Zenon DEF ShutdownLoops, Moves, TypeOK,
       Events, ReturnOK, nLabels, dLabels, tLabels
  <2>3. ReturnOK(pc'[p], ret'[p]) /\ PlaceOK(p, pc'[p], ret'[p])
    BY <1>1, <1>f, <1>r, Zenon DEF ShutdownLoops, ReturnOK, PlaceOK, nLabels,
       dLabels, tLabels, sLabels, gLabels
  <2>4. Balance(p)' = Balance(p)
    BY <1>1, <1>f, Zenon DEF ShutdownLoops, Balance, Owns
  <2>5. Debt(p)' = Debt(p)
    BY <1>1, <1>f, Zenon DEF ShutdownLoops, Debt, Counted
  <2>6. Tenure(p)' = Tenure(p)
    BY <1>1, <1>f, Zenon DEF ShutdownLoops, Tenure, Holds, Sends, isReleased
  <2>7. QED
    BY <2>1, <2>2, <2>3, <2>4, <2>5, <2>6, Zenon DEF After
<1>2. CASE ClosePoller(p)
  <2>1. Moves(p)
    BY <1>2, <1>f DEF ClosePoller, Moves, Labels
  <2>2. TypeOK'
    BY <1>2, <1>t, <2>1, Zenon DEF ClosePoller, Moves, TypeOK
  <2>3. ReturnOK(pc'[p], ret'[p]) /\ PlaceOK(p, pc'[p], ret'[p])
    BY <1>2, <1>f, <1>r, Zenon DEF ClosePoller, ReturnOK, PlaceOK, nLabels,
       dLabels, tLabels, sLabels, gLabels
  <2>4. Balance(p)' = Balance(p)
    BY <1>2, <1>f, Zenon DEF ClosePoller, Balance, Owns
  <2>5. Debt(p)' = Debt(p)
    BY <1>2, <1>f, Zenon DEF ClosePoller, Debt, Counted
  <2>6. Tenure(p)' = Tenure(p)
    BY <1>2, <1>f, Zenon DEF ClosePoller, Tenure, Holds, Sends, isReleased
  <2>7. QED
    BY <2>1, <2>2, <2>3, <2>4, <2>5, <2>6, Zenon DEF After
<1>3. CASE ShutdownBegin(p)
  <2>1. Moves(p)
    BY <1>3, <1>f DEF ShutdownBegin, request, Moves, Labels
  <2>2. TypeOK'
    BY <1>3, <1>t, <1>f, <1>r, <2>1, Zenon DEF ShutdownBegin, request, Moves,
       TypeOK, Phases, closeOpen, closeRequested, closeResourcesReleased,
       closeCallbackDelivered, Events, ReturnOK, nLabels, dLabels, tLabels
  <2>3. ReturnOK(pc'[p], ret'[p]) /\ PlaceOK(p, pc'[p], ret'[p])
    BY <1>3, <1>f, <1>r, Zenon DEF ShutdownBegin, request, ReturnOK, PlaceOK,
       nLabels, dLabels, tLabels, sLabels, gLabels
  <2>4. Balance(p)' = Balance(p)
    BY <1>3, <1>f, Zenon DEF ShutdownBegin, request, Balance, Owns
  <2>5. Debt(p)' = Debt(p)
    BY <1>3, <1>f, Zenon DEF ShutdownBegin, request, Debt, Counted
  <2>6. Tenure(p)' = Tenure(p)
    BY <1>3, <1>t DEF ShutdownBegin, request, Tenure, Holds, Sends, Phases,
       isReleased, closeOpen, closeRequested, closeResourcesReleased, TypeOK
  <2>7. QED
    BY <2>1, <2>2, <2>3, <2>4, <2>5, <2>6, Zenon DEF After
<1>4. CASE StopIO(p)
  <2>1. Moves(p)
    BY <1>4, <1>f DEF StopIO, Moves, Labels
  <2>2. TypeOK'
    BY <1>4, <1>t, <1>f, <1>r, <2>1, Zenon DEF StopIO, Moves, TypeOK, Events,
       ReturnOK
  <2>3. ReturnOK(pc'[p], ret'[p]) /\ PlaceOK(p, pc'[p], ret'[p])
    BY <1>4, <1>f, <1>r, Zenon DEF StopIO, ReturnOK, PlaceOK, nLabels,
       dLabels, tLabels, sLabels, gLabels
  <2>4. Balance(p)' = Balance(p)
    BY <1>4, <1>f, Zenon DEF StopIO, Balance, Owns
  <2>5. Debt(p)' = Debt(p)
    BY <1>4, <1>f, Zenon DEF StopIO, Debt, Counted
  <2>6. Tenure(p)' = Tenure(p)
    BY <1>4, <1>f, Zenon DEF StopIO, Tenure, Holds, Sends, isReleased
  <2>7. QED
    BY <2>1, <2>2, <2>3, <2>4, <2>5, <2>6, Zenon DEF After
<1>5. CASE StopSum(p)
  <2>1. Moves(p)
    BY <1>5, <1>f DEF StopSum, Moves, Labels
  <2>2. TypeOK'
    BY <1>5, <1>t, <1>f, <1>r, <2>1, Zenon DEF StopSum, Moves, TypeOK,
       Events, ReturnOK, nLabels, dLabels, tLabels
  <2>3. ReturnOK(pc'[p], ret'[p]) /\ PlaceOK(p, pc'[p], ret'[p])
    BY <1>5, <1>f, <1>r, Zenon DEF StopSum, ReturnOK, PlaceOK, nLabels,
       dLabels, tLabels, sLabels, gLabels
  <2>4. Balance(p)' = Balance(p)
    BY <1>5, <1>f, Zenon DEF StopSum, Balance, Owns
  <2>5. Debt(p)' = Debt(p)
    BY <1>5, <1>f, Zenon DEF StopSum, Debt, Counted
  <2>6. Tenure(p)' = Tenure(p)
    BY <1>5, <1>f, Zenon DEF StopSum, Tenure, Holds, Sends, isReleased
  <2>7. QED
    BY <2>1, <2>2, <2>3, <2>4, <2>5, <2>6, Zenon DEF After
<1>6. CASE StopJoined(p)
  <2>1. Moves(p)
    BY <1>6, <1>f DEF StopJoined, Moves, Labels, Returns
  <2>2. TypeOK'
    BY <1>6, <1>t, <1>f, <1>r, <2>1, Zenon DEF StopJoined, Moves, TypeOK,
       ReturnOK, nLabels, dLabels, tLabels
  <2>3. ReturnOK(pc'[p], ret'[p]) /\ PlaceOK(p, pc'[p], ret'[p])
    BY <1>6, <1>f, <1>r DEF StopJoined, ReturnOK, PlaceOK, nLabels, dLabels,
       tLabels, sLabels, gLabels
  <2>4. Balance(p)' = Balance(p)
    BY <1>6, <1>f, <1>r, Zenon DEF StopJoined, Balance, Owns, ReturnOK,
       nLabels, dLabels, tLabels
  <2>5. Debt(p)' = Debt(p)
    BY <1>6, <1>f, <1>r DEF StopJoined, Debt, Bit, Counted, ReturnOK,
       nLabels, dLabels, tLabels
  <2>6. Tenure(p)' = Tenure(p)
    BY <1>6, <1>f, <1>r, Zenon DEF StopJoined, Tenure, Holds, Sends,
       isReleased, ReturnOK, nLabels
  <2>7. QED
    BY <2>1, <2>2, <2>3, <2>4, <2>5, <2>6, Zenon DEF After
<1>7. CASE WaitIODrained(p)
  <2>1. Moves(p)
    BY <1>7, <1>f DEF WaitIODrained, Moves, Labels
  <2>2. TypeOK'
    BY <1>7, <1>t, <2>1, Zenon DEF WaitIODrained, Moves, TypeOK
  <2>3. ReturnOK(pc'[p], ret'[p]) /\ PlaceOK(p, pc'[p], ret'[p])
    BY <1>7, <1>f, <1>r, Zenon DEF WaitIODrained, ReturnOK, PlaceOK, nLabels,
       dLabels, tLabels, sLabels, gLabels
  <2>4. Balance(p)' = Balance(p)
    BY <1>7, <1>f, Zenon DEF WaitIODrained, Balance, Owns
  <2>5. Debt(p)' = Debt(p)
    BY <1>7, <1>f, Zenon DEF WaitIODrained, Debt, Counted
  <2>6. Tenure(p)' = Tenure(p)
    BY <1>7, <1>f, Zenon DEF WaitIODrained, Tenure, Holds, Sends, isReleased
  <2>7. QED
    BY <2>1, <2>2, <2>3, <2>4, <2>5, <2>6, Zenon DEF After
<1>8. QED
  BY <1>1, <1>2, <1>3, <1>4, <1>5, <1>6, <1>7, Zenon DEF Shutdown

\* Readiness, Wake, CloseWith, writes and Close.
LEMMA StartKeeps ==
    ASSUME NEW p \in Procs, Before(p), Start(p)
    PROVE  After(p)
<1> USE DEF At, Go, Arg, Call, Return, task, write, life, loop, calls, local
<1>t. TypeOK
  BY Zenon DEF Before
<1>f. pc \in [Procs -> Labels] /\ ret \in [Procs -> Returns]
  BY Zenon DEF Before
<1>r. ReturnOK(pc[p], ret[p]) /\ PlaceOK(p, pc[p], ret[p])
  BY Zenon DEF Before
<1>1. CASE Signal(p)
  <2>1. Moves(p)
    BY <1>1, <1>f DEF Signal, CallNote, Moves, Labels, Returns
  <2>2. TypeOK'
    BY <1>1, <1>t, <2>1, Zenon DEF Signal, CallNote, Moves, TypeOK, Events
  <2>3. ReturnOK(pc'[p], ret'[p]) /\ PlaceOK(p, pc'[p], ret'[p])
    BY <1>1, <1>f, <1>r, Zenon DEF Signal, CallNote, ReturnOK, PlaceOK,
       nLabels, dLabels, tLabels, sLabels, gLabels
  <2>4. Balance(p)' = Balance(p)
    BY <1>1, <1>f, <1>r, Zenon DEF Signal, CallNote, Balance, Owns, ReturnOK,
       dLabels, tLabels
  <2>5. Debt(p)' = Debt(p)
    BY <1>1, <1>f, <1>r, Zenon DEF Signal, CallNote, Debt, Counted, ReturnOK,
       nLabels, dLabels, tLabels
  <2>6. Tenure(p)' = Tenure(p)
    BY <1>1, <1>f, <1>r, Zenon DEF Signal, CallNote, Tenure, Holds, Sends,
       isReleased, ReturnOK, nLabels
  <2>7. QED
    BY <2>1, <2>2, <2>3, <2>4, <2>5, <2>6, Zenon DEF After
<1>2. CASE CloseWith(p)
  <2>1. Moves(p)
    BY <1>2, <1>f DEF CloseWith, request, CallNote, Moves, Labels, Returns
  <2>2. TypeOK'
    BY <1>2, <1>t, <2>1, Zenon DEF CloseWith, request, CallNote, Moves,
       TypeOK, Phases, Events
  <2>3. ReturnOK(pc'[p], ret'[p]) /\ PlaceOK(p, pc'[p], ret'[p])
    BY <1>2, <1>f, <1>r, Zenon DEF CloseWith, request, CallNote, ReturnOK,
       PlaceOK, nLabels, dLabels, tLabels, sLabels, gLabels
  <2>4. Balance(p)' = Balance(p)
    BY <1>2, <1>f, <1>r, Zenon DEF CloseWith, request, CallNote, Balance,
       Owns, ReturnOK, dLabels, tLabels
  <2>5. Debt(p)' = Debt(p)
    BY <1>2, <1>f, <1>r, Zenon DEF CloseWith, request, CallNote, Debt,
       Counted, ReturnOK, nLabels, dLabels, tLabels
  <2>6. Tenure(p)' = Tenure(p)
    BY <1>2, <1>t, <1>r DEF CloseWith, request, CallNote, Tenure, Holds,
       Sends, Phases, isReleased, closeOpen, closeRequested,
       closeResourcesReleased, TypeOK, ReturnOK, nLabels
  <2>7. QED
    BY <2>1, <2>2, <2>3, <2>4, <2>5, <2>6, Zenon DEF After
<1>3. CASE KickStart(p)
  <2>1. Moves(p)
    BY <1>3, <1>f DEF KickStart, Moves, Labels
  <2>2. TypeOK'
    BY <1>3, <1>t, <2>1, Zenon DEF KickStart, Moves, TypeOK
  <2>3. ReturnOK(pc'[p], ret'[p]) /\ PlaceOK(p, pc'[p], ret'[p])
    BY <1>3, <1>f, <1>r, Zenon DEF KickStart, ReturnOK, PlaceOK, nLabels,
       dLabels, tLabels, sLabels, gLabels
  <2>4. Balance(p)' = Balance(p)
    BY <1>3, <1>f, Zenon DEF KickStart, Balance, Owns
  <2>5. Debt(p)' = Debt(p)
    BY <1>3, <1>f, Zenon DEF KickStart, Debt, Counted
  <2>6. Tenure(p)' = Tenure(p)
    BY <1>3, <1>f, Zenon DEF KickStart, Tenure, Holds, Sends, isReleased
  <2>7. QED
    BY <2>1, <2>2, <2>3, <2>4, <2>5, <2>6, Zenon DEF After
<1>4. CASE ShutdownStart(p)
  <2>1. Moves(p)
    BY <1>4, <1>f DEF ShutdownStart, Moves, Labels
  <2>2. TypeOK'
    BY <1>4, <1>t, <2>1, Zenon DEF ShutdownStart, Moves, TypeOK
  <2>3. ReturnOK(pc'[p], ret'[p]) /\ PlaceOK(p, pc'[p], ret'[p])
    BY <1>4, <1>f, <1>r, Zenon DEF ShutdownStart, ReturnOK, PlaceOK, nLabels,
       dLabels, tLabels, sLabels, gLabels
  <2>4. Balance(p)' = Balance(p)
    BY <1>4, <1>f, Zenon DEF ShutdownStart, Balance, Owns
  <2>5. Debt(p)' = Debt(p)
    BY <1>4, <1>f, Zenon DEF ShutdownStart, Debt, Counted
  <2>6. Tenure(p)' = Tenure(p)
    BY <1>4, <1>f, Zenon DEF ShutdownStart, Tenure, Holds, Sends, isReleased
  <2>7. QED
    BY <2>1, <2>2, <2>3, <2>4, <2>5, <2>6, Zenon DEF After
<1>5. QED
  BY <1>1, <1>2, <1>3, <1>4, Zenon DEF Start

\* A step of p changes nobody else's argument.
LEMMA ArgMoves ==
    ASSUME TypeOK, NEW p \in Procs, Step(p) \/ Start(p)
    PROVE  \A q \in Procs \ {p} : arg'[q] = arg[q]
<1> USE DEF TypeOK, Arg, CallNote, local
<1>1. CASE Note(p)
  BY <1>1, Zenon DEF Note, NoteCheck, NoteFold, NoteAcquire, NoteClaim, End
<1>2. CASE Close(p)
  BY <1>2, Zenon DEF Close, CloseClaim, CloseTaken, CloseSpin, CloseWait,
     CloseRetry, CloseRelease, CloseFlush, FireCloseCallback, ScheduleClose,
     ScheduleCloseClaim
<1>3. CASE Turn(p)
  BY <1>3, Zenon DEF Turn, TurnStart, TurnOpen, TurnBody, TurnClose,
     FinishLoad, FinishDrop, FinishLeft, FinishReclaim
<1>4. CASE Reject(p)
  BY <1>4, Zenon DEF Reject, RejectStart, RejectPhase, RejectBegun,
     RejectDrop, RejectLeft
<1>5. CASE Write(p)
  BY <1>5, Zenon DEF Write, KickClaim, KickAcquire, WriteStart, WriteSend,
     WriteHandOn, ReleaseWrite, WriteHandBack, WriteNext, WriteAgain,
     WriteRefused
<1>6. CASE Register(p)
  BY <1>6, Zenon DEF Register, RegisterStart, RegisterNote, RegisterAcquire,
     RegisterPut, RegisterLook, RegisterLeave, RegisterDrop, RegisterClose,
     RegisterSubmit
<1>7. CASE Shutdown(p)
  BY <1>7, Zenon DEF Shutdown, ShutdownLoops, ClosePoller, ShutdownBegin,
     StopIO, StopSum, StopJoined, WaitIODrained
<1>8. CASE Start(p)
  BY <1>8, Zenon DEF Start, Signal, CloseWith, KickStart, ShutdownStart
<1>9. QED
  BY <1>1, <1>2, <1>3, <1>4, <1>5, <1>6, <1>7, <1>8, Zenon DEF Step

----------------------------------------------------------------------------
(* Steps outside the counts.                                               *)

\* Where the goroutines that take each kind of step are.
LEMMA Where ==
    ASSUME NEW p \in Procs
    PROVE  /\ Note(p) => pc[p] \in nLabels \cup {"end"}
           /\ Close(p) => pc[p] \in dLabels \cup {"c_claim"}
           /\ Turn(p) => \/ p \in Workers /\ pc[p] = "idle" /\ queued > 0
                         \/ pc[p] \in tLabels \cup {"fin", "f_drop", "f_left",
                                                    "f_reclaim"}
           /\ Reject(p) => \/ p \in Workers /\ pc[p] = "idle" /\ rejected > 0
                           \/ pc[p] \in {"h_phase", "h_begun", "h_drop", "h_left"}
           /\ Write(p) => \/ p \in Workers /\ pc[p] = "idle" /\ wqueued > 0
                          \/ pc[p] \in {"k_claim", "k_acquire", "k_back", "w_send",
                                        "w_done", "w_refused", "w_hand", "w_next",
                                        "w_again", "w_close"}
           /\ Register(p) => pc[p] \in gLabels
           /\ Shutdown(p) => pc[p] \in sLabels
           /\ Start(p) => \/ p \in Producers /\ pc[p] = "idle"
                          \/ p = Stopper /\ pc[p] = "s_start"
<1> USE DEF At
<1>1. Note(p) => pc[p] \in nLabels \cup {"end"}
  BY Zenon DEF Note, NoteCheck, NoteFold, NoteAcquire, NoteClaim, End, nLabels
<1>2. Close(p) => pc[p] \in dLabels \cup {"c_claim"}
  BY Zenon DEF Close, CloseClaim, CloseTaken, CloseSpin, CloseWait,
     CloseRetry, CloseRelease, CloseFlush, FireCloseCallback, ScheduleClose,
     ScheduleCloseClaim, dLabels
<1>3. Turn(p) => \/ p \in Workers /\ pc[p] = "idle" /\ queued > 0
                 \/ pc[p] \in tLabels \cup {"fin", "f_drop", "f_left",
                                            "f_reclaim"}
  BY Zenon DEF Turn, TurnStart, TurnOpen, TurnBody, TurnClose, FinishLoad,
     FinishDrop, FinishLeft, FinishReclaim, tLabels
<1>4. Reject(p) => \/ p \in Workers /\ pc[p] = "idle" /\ rejected > 0
                   \/ pc[p] \in {"h_phase", "h_begun", "h_drop", "h_left"}
  BY Zenon DEF Reject, RejectStart, RejectPhase, RejectBegun, RejectDrop,
     RejectLeft
<1>5. Write(p) => \/ p \in Workers /\ pc[p] = "idle" /\ wqueued > 0
                  \/ pc[p] \in {"k_claim", "k_acquire", "k_back", "w_send",
                                "w_done", "w_refused", "w_hand", "w_next",
                                "w_again", "w_close"}
  BY Zenon DEF Write, KickClaim, KickAcquire, WriteStart, WriteSend,
     WriteHandOn, ReleaseWrite, WriteHandBack, WriteNext, WriteAgain,
     WriteRefused
<1>6. Register(p) => pc[p] \in gLabels
  BY Zenon DEF Register, RegisterStart, RegisterNote, RegisterAcquire,
     RegisterPut, RegisterLook, RegisterLeave, RegisterDrop, RegisterClose,
     RegisterSubmit, gLabels
<1>7. Shutdown(p) => pc[p] \in sLabels
  BY Zenon DEF Shutdown, ShutdownLoops, ClosePoller, ShutdownBegin, StopIO,
     StopSum, StopJoined, WaitIODrained, sLabels
<1>8. Start(p) => \/ p \in Producers /\ pc[p] = "idle"
                  \/ p = Stopper /\ pc[p] = "s_start"
  BY Zenon DEF Start, Signal, CloseWith, KickStart, ShutdownStart
<1>9. QED
  BY <1>1, <1>2, <1>3, <1>4, <1>5, <1>6, <1>7, <1>8, Zenon

\* The Stopper shuts down, and releases the connection in the pass.
LEMMA StopperActs ==
    ASSUME Before(Stopper), Step(Stopper) \/ Start(Stopper)
    PROVE  \/ ShutdownStart(Stopper) \/ Shutdown(Stopper)
           \/ Close(Stopper) /\ inPass
<1>1. Stopper \in Procs /\ Stopper \notin Producers \cup Workers /\ Stopper # Registrar
  BY ProcsAssumption, Zenon DEF Procs
<1>2. /\ ReturnOK(pc[Stopper], ret[Stopper])
      /\ pc[Stopper] \in sLabels \/ ret[Stopper] = "s_drain"
      /\ pc[Stopper] \notin gLabels
  BY <1>1, Zenon DEF Before, PlaceOK
<1>3. ~Note(Stopper) /\ ~Turn(Stopper) /\ ~Reject(Stopper) /\ ~Write(Stopper)
      /\ ~Register(Stopper)
  BY <1>1, <1>2, Where, ZenonT(30) DEF ReturnOK, nLabels, dLabels, tLabels,
     sLabels, gLabels, fLabels, takers
<1>4. Start(Stopper) => ShutdownStart(Stopper)
  BY <1>1, Zenon DEF Start, Signal, CloseWith, KickStart
<1>5. Close(Stopper) => inPass
  BY <1>1, <1>2, Where, Zenon DEF inPass, ReturnOK, nLabels, dLabels, tLabels,
     sLabels, gLabels, fLabels, takers
<1>6. QED
  BY <1>3, <1>4, <1>5, Zenon DEF Step

\* Somebody else changes the loop's count only before the loop stopped or
\* while the count is positive.
Counts(p) ==
    \/ UNCHANGED <<count, ioStop, ioIdle>>
    \/ count' = count + 1 /\ UNCHANGED <<ioStop, ioIdle>> /\ (~ioStop \/ count > 0)
    \/ count' = count - 1 /\ UNCHANGED ioStop /\ count > 0
       /\ ioIdle' = (ioIdle \/ (ioStop /\ count = 1))

\* Each group of actions by itself.
LEMMA CountSteps ==
    ASSUME NEW p \in Procs, p # Stopper, Before(p), Enough(p), Step(p) \/ Start(p)
    PROVE  Counts(p)
<1> USE DEF At, loop, Counts, Acquire, Release
<1>1. Counted(p) \/ pc[p] = "n_claim" => count > 0
  <2>1. /\ count \in Int /\ queued \in Nat /\ rejected \in Nat /\ wqueued \in Nat
        /\ Bit(Counted(p)) \in Nat /\ Bit(pc[p] = "n_claim") \in Nat
    BY Zenon DEF Before, TypeOK, Bit
  <2>2. count >= Bit(Counted(p)) /\ count >= Bit(pc[p] = "n_claim")
    BY <2>1 DEF Enough
  <2>3. QED
    BY <2>1, <2>2 DEF Bit
<1>2. CASE Note(p)
  BY <1>1, <1>2, Zenon DEF Note, NoteCheck, NoteFold, NoteAcquire, Acquire,
     NoteClaim, Submit, Release, End, Home, Counted
<1>3. CASE Close(p)
  <2>1. CASE ScheduleCloseClaim(p)
    <3>1. Counted(p)
      BY <2>1, Zenon DEF ScheduleCloseClaim, Counted, Before, ReturnOK,
         PlaceOK
    <3>2. QED
      BY <1>1, <2>1, <3>1, Zenon DEF ScheduleCloseClaim
  <2>2. CASE ~ScheduleCloseClaim(p)
    BY <1>3, <2>2, Zenon DEF Close, CloseClaim, CloseTaken, CloseSpin,
       CloseWait, CloseRetry, CloseRelease, CloseFlush, FireCloseCallback,
       ScheduleClose
  <2>3. QED
    BY <2>1, <2>2, Zenon
<1>4. CASE Turn(p)
  BY <1>4, Zenon DEF Turn, TurnStart, TurnOpen, TurnBody, TurnClose,
     FinishLoad, FinishDrop, FinishLeft, FinishReclaim
<1>5. CASE Reject(p)
  BY <1>5, Zenon DEF Reject, RejectStart, RejectPhase, RejectBegun,
     RejectDrop, RejectLeft
<1>6. CASE Write(p)
  BY <1>6, Zenon DEF Write, KickClaim, KickAcquire, WriteStart, WriteSend,
     WriteHandOn, ReleaseWrite, WriteHandBack, WriteNext, WriteAgain,
     WriteRefused
<1>7. CASE Register(p)
  BY <1>1, <1>7, Zenon DEF Register, RegisterStart, RegisterNote,
     RegisterAcquire, RegisterPut, RegisterLook, RegisterLeave, RegisterDrop,
     RegisterClose, RegisterSubmit, Counted
<1>8. CASE Start(p)
  BY <1>8, Zenon DEF Start, Signal, CloseWith, KickStart, ShutdownStart
<1>9. CASE Shutdown(p)
  BY <1>9, Where, Zenon DEF Before, PlaceOK
<1>10. QED
  BY <1>2, <1>3, <1>4, <1>5, <1>6, <1>7, <1>8, <1>9, Zenon DEF Step

\* Nobody comes back to registering.
LEMMA RegisteredOnce ==
    ASSUME NEW p \in Procs, Before(p), Step(p) \/ Start(p), pc'[p] \in gLabels
    PROVE  Register(p)
<1> USE DEF At, Go, Call, Return, Home, Before, nLabels, dLabels, tLabels,
       sLabels, gLabels, fLabels, takers
<1>1. ~Note(p)
  <2>1. ~NoteCheck(p)
    BY Zenon DEF NoteCheck, ReturnOK
  <2>2. ~NoteFold(p)
    BY Zenon DEF NoteFold, ReturnOK
  <2>3. ~NoteAcquire(p)
    BY Zenon DEF NoteAcquire, Acquire, ReturnOK
  <2>4. ~NoteClaim(p)
    BY Zenon DEF NoteClaim, Submit, ReturnOK
  <2>5. ~End(p)
    BY Zenon DEF End, Release, ReturnOK
  <2>6. QED
    BY <2>1, <2>2, <2>3, <2>4, <2>5, Zenon DEF Note
<1>2. ~Close(p)
  <2>1. ~CloseClaim(p)
    BY Zenon DEF CloseClaim, ReturnOK
  <2>2. ~CloseTaken(p)
    BY Zenon DEF CloseTaken, request, ReturnOK
  <2>3. ~CloseSpin(p)
    BY Zenon DEF CloseSpin, ReturnOK
  <2>4. ~CloseWait(p)
    BY Zenon DEF CloseWait, ReturnOK
  <2>5. ~CloseRetry(p)
    BY Zenon DEF CloseRetry, ReturnOK
  <2>6. ~CloseRelease(p)
    BY Zenon DEF CloseRelease, ReturnOK
  <2>7. ~CloseFlush(p)
    BY Zenon DEF CloseFlush, ReturnOK
  <2>8. ~FireCloseCallback(p)
    BY Zenon DEF FireCloseCallback, delivered, ReturnOK
  <2>9. ~ScheduleClose(p)
    BY Zenon DEF ScheduleClose, ReturnOK
  <2>10. ~ScheduleCloseClaim(p)
    BY Zenon DEF ScheduleCloseClaim, Acquire, Submit, ReturnOK
  <2>11. QED
    BY <2>1, <2>2, <2>3, <2>4, <2>5, <2>6, <2>7,
       <2>8, <2>9, <2>10, Zenon DEF Close
<1>3. ~Turn(p)
  <2>1. ~TurnStart(p)
    BY Zenon DEF TurnStart, ReturnOK
  <2>2. ~TurnOpen(p)
    BY Zenon DEF TurnOpen, ReturnOK
  <2>3. ~TurnBody(p)
    BY Zenon DEF TurnBody, request, ReturnOK
  <2>4. ~TurnClose(p)
    BY Zenon DEF TurnClose, ReturnOK
  <2>5. ~FinishLoad(p)
    BY ZenonT(30) DEF FinishLoad, ReturnOK
  <2>6. ~FinishDrop(p)
    BY Zenon DEF FinishDrop, ReturnOK
  <2>7. ~FinishLeft(p)
    BY Zenon DEF FinishLeft, ReturnOK
  <2>8. ~FinishReclaim(p)
    BY Zenon DEF FinishReclaim, Submit, ReturnOK
  <2>9. QED
    BY <2>1, <2>2, <2>3, <2>4, <2>5, <2>6, <2>7, <2>8, Zenon DEF Turn
<1>4. ~Reject(p)
  <2>1. ~RejectStart(p)
    BY Zenon DEF RejectStart, ReturnOK
  <2>2. ~RejectPhase(p)
    BY Zenon DEF RejectPhase, request, ReturnOK
  <2>3. ~RejectBegun(p)
    BY Zenon DEF RejectBegun, ReturnOK
  <2>4. ~RejectDrop(p)
    BY Zenon DEF RejectDrop, ReturnOK
  <2>5. ~RejectLeft(p)
    BY Zenon DEF RejectLeft, CallNote, ReturnOK
  <2>6. QED
    BY <2>1, <2>2, <2>3, <2>4, <2>5, Zenon DEF Reject
<1>5. ~Write(p)
  <2>1. ~KickClaim(p)
    BY Zenon DEF KickClaim, ReturnOK
  <2>2. ~KickAcquire(p)
    BY Zenon DEF KickAcquire, Acquire, WriteSubmit, ReturnOK
  <2>3. ~WriteStart(p)
    BY Zenon DEF WriteStart, ReturnOK
  <2>4. ~WriteSend(p)
    BY Zenon DEF WriteSend, request, CallNote, ReturnOK
  <2>5. ~WriteHandOn(p)
    BY Zenon DEF WriteHandOn, WriteSubmit, ReturnOK
  <2>6. /\ ~ReleaseWrite(p, "w_done", "w_next")
       /\ ~ReleaseWrite(p, "w_refused", "w_close")
       /\ ~ReleaseWrite(p, "k_back", "idle")
    BY Zenon DEF ReleaseWrite, ReturnOK
  <2>7. ~WriteHandBack(p)
    BY Zenon DEF WriteHandBack, CallNote, ReturnOK
  <2>8. ~WriteNext(p)
    BY Zenon DEF WriteNext, ReturnOK
  <2>9. ~WriteAgain(p)
    BY Zenon DEF WriteAgain, WriteSubmit, ReturnOK
  <2>10. ~WriteRefused(p)
    BY Zenon DEF WriteRefused, CallNote, ReturnOK
  <2>11. QED
    BY <2>1, <2>2, <2>3, <2>4, <2>5, <2>6, <2>7,
       <2>8, <2>9, <2>10, Zenon DEF Write
<1>6. ~Shutdown(p)
  BY ZenonT(30) DEF Shutdown, ShutdownLoops, ClosePoller, ShutdownBegin,
     request, StopIO, StopSum, StopJoined, WaitIODrained, ReturnOK
<1>7. ~Start(p)
  BY Zenon DEF Start, Signal, CallNote, CloseWith, request, KickStart,
     ShutdownStart, ReturnOK
<1>8. QED
  BY <1>1, <1>2, <1>3, <1>4, <1>5, <1>6, <1>7, Zenon DEF Step

\* A step that releases the connection has the claim or registers it; the
\* claim is not given back once the connection is released; and nobody starts
\* to take it then.
Claims(p) ==
    /\ isReleased' => isReleased \/ wclaim'
                      \/ (pc[p] \in gLabels /\ pc'[p] \notin takers)
    /\ wclaim /\ ~wclaim' => ~isReleased /\ UNCHANGED phase
    /\ isReleased /\ ~wclaim => pc'[p] \notin takers

\* Each action by itself.
LEMMA ClaimSteps ==
    ASSUME NEW p \in Procs, Before(p), Step(p) \/ Start(p)
    PROVE  Claims(p)
<1> USE DEF At, Go, Call, Return, CallNote, task, write, life, calls,
       local, Before,
            Claims
<1>0. phase \in Phases /\ wclaim \in BOOLEAN
  BY Zenon DEF TypeOK
<1>1. CASE Note(p)
  <2>1. CASE NoteCheck(p)
    BY <1>0, <2>1 DEF NoteCheck, Holds, Sends, ReturnOK, Phases,
       isReleased, isClosing, closeOpen, closeRequested,
       closeResourcesReleased,
         closeCallbackDelivered,
         nLabels, dLabels, tLabels, sLabels, gLabels, fLabels, takers
  <2>2. CASE NoteFold(p)
    BY <1>0, <2>2, Zenon DEF NoteFold, Holds, Sends, ReturnOK, Phases,
       isReleased, isClosing, closeOpen, closeRequested,
       closeResourcesReleased, closeCallbackDelivered, nLabels, dLabels,
       tLabels, sLabels, gLabels, fLabels, takers
  <2>3. CASE NoteAcquire(p)
    BY <1>0, <2>3, ZenonT(30) DEF NoteAcquire, Acquire, Holds, Sends,
       ReturnOK, Phases, isReleased, isClosing, closeOpen, closeRequested,
       closeResourcesReleased, closeCallbackDelivered, nLabels, dLabels,
       tLabels, sLabels, gLabels, fLabels, takers
  <2>4. CASE NoteClaim(p)
    BY <1>0, <2>4, Zenon DEF NoteClaim, Submit, Release, Holds, Sends,
       ReturnOK, Phases, isReleased, isClosing, closeOpen, closeRequested,
       closeResourcesReleased, closeCallbackDelivered, nLabels, dLabels,
       tLabels, sLabels, gLabels, fLabels, takers
  <2>5. CASE End(p)
    BY <1>0, <2>5, Zenon DEF End, Release, Home, Holds, Sends, ReturnOK,
       Phases, isReleased, isClosing, closeOpen, closeRequested,
       closeResourcesReleased, closeCallbackDelivered, nLabels, dLabels,
       tLabels, sLabels, gLabels, fLabels, takers
  <2>6. QED
    BY <1>1, <2>1, <2>2, <2>3, <2>4, <2>5, Zenon DEF Note
<1>2. CASE Close(p)
  <2>1. CASE CloseClaim(p)
    BY <1>0, <2>1, Zenon DEF CloseClaim, Holds, Sends, ReturnOK, Phases,
       isReleased, isClosing, closeOpen, closeRequested,
       closeResourcesReleased, closeCallbackDelivered, nLabels, dLabels,
       tLabels, sLabels, gLabels, fLabels, takers
  <2>2. CASE CloseTaken(p)
    BY <1>0, <2>2 DEF CloseTaken, request, Holds, Sends, ReturnOK, Phases,
       isReleased, isClosing, closeOpen, closeRequested,
       closeResourcesReleased,
         closeCallbackDelivered,
         nLabels, dLabels, tLabels, sLabels, gLabels, fLabels, takers
  <2>3. CASE CloseSpin(p)
    BY <1>0, <2>3, Zenon DEF CloseSpin, Holds, Sends, ReturnOK, Phases,
       isReleased, isClosing, closeOpen, closeRequested,
       closeResourcesReleased, closeCallbackDelivered, nLabels, dLabels,
       tLabels, sLabels, gLabels, fLabels, takers
  <2>4. CASE CloseWait(p)
    BY <1>0, <2>4, Zenon DEF CloseWait, Holds, Sends, ReturnOK, Phases,
       isReleased, isClosing, closeOpen, closeRequested,
       closeResourcesReleased, closeCallbackDelivered, nLabels, dLabels,
       tLabels, sLabels, gLabels, fLabels, takers
  <2>5. CASE CloseRetry(p)
    BY <1>0, <2>5, Zenon DEF CloseRetry, Holds, Sends, ReturnOK, Phases,
       isReleased, isClosing, closeOpen, closeRequested,
       closeResourcesReleased, closeCallbackDelivered, nLabels, dLabels,
       tLabels, sLabels, gLabels, fLabels, takers
  <2>6. CASE CloseRelease(p)
    BY <1>0, <2>6, Zenon DEF CloseRelease, Holds, Sends, ReturnOK, Phases,
       isReleased, isClosing, closeOpen, closeRequested,
       closeResourcesReleased, closeCallbackDelivered, nLabels, dLabels,
       tLabels, sLabels, gLabels, fLabels, takers
  <2>7. CASE CloseFlush(p)
    BY <1>0, <2>7, ZenonT(30) DEF CloseFlush, Holds, Sends, ReturnOK, Phases,
       isReleased, isClosing, closeOpen, closeRequested,
       closeResourcesReleased, closeCallbackDelivered, nLabels, dLabels,
       tLabels, sLabels, gLabels, fLabels, takers
  <2>8. CASE FireCloseCallback(p)
    BY <1>0, <2>8 DEF FireCloseCallback, delivered, Holds, Sends, ReturnOK,
       Phases, isReleased, isClosing, closeOpen, closeRequested,
       closeResourcesReleased,
         closeCallbackDelivered,
         nLabels, dLabels, tLabels, sLabels, gLabels, fLabels, takers
  <2>9. CASE ScheduleClose(p)
    BY <1>0, <2>9 DEF ScheduleClose, delivered, Holds, Sends, ReturnOK,
       Phases, isReleased, isClosing, closeOpen, closeRequested,
       closeResourcesReleased,
         closeCallbackDelivered,
         nLabels, dLabels, tLabels, sLabels, gLabels, fLabels, takers
  <2>10. CASE ScheduleCloseClaim(p)
    BY <1>0, <2>10, Zenon DEF ScheduleCloseClaim, Acquire, Submit, Holds,
       Sends, ReturnOK, Phases, isReleased, isClosing, closeOpen,
       closeRequested, closeResourcesReleased, closeCallbackDelivered,
       nLabels, dLabels, tLabels, sLabels, gLabels, fLabels, takers
  <2>11. QED
    BY <1>2, <2>1, <2>2, <2>3, <2>4, <2>5, <2>6, <2>7, <2>8, <2>9, <2>10 ,
       ZenonT(30) DEF Close
<1>3. CASE Turn(p)
  <2>1. CASE TurnStart(p)
    BY <1>0, <2>1, Zenon DEF TurnStart, Holds, Sends, ReturnOK, Phases,
       isReleased, isClosing, closeOpen, closeRequested,
       closeResourcesReleased, closeCallbackDelivered, nLabels, dLabels,
       tLabels, sLabels, gLabels, fLabels, takers
  <2>2. CASE TurnOpen(p)
    BY <1>0, <2>2, Zenon DEF TurnOpen, Holds, Sends, ReturnOK, Phases,
       isReleased, isClosing, closeOpen, closeRequested,
       closeResourcesReleased, closeCallbackDelivered, nLabels, dLabels,
       tLabels, sLabels, gLabels, fLabels, takers
  <2>3. CASE TurnBody(p)
    BY <1>0, <2>3 DEF TurnBody, request, Holds, Sends, ReturnOK, Phases,
       isReleased, isClosing, closeOpen, closeRequested,
       closeResourcesReleased,
         closeCallbackDelivered,
         nLabels, dLabels, tLabels, sLabels, gLabels, fLabels, takers
  <2>4. CASE TurnClose(p)
    BY <1>0, <2>4, Zenon DEF TurnClose, Holds, Sends, ReturnOK, Phases,
       isReleased, isClosing, closeOpen, closeRequested,
       closeResourcesReleased, closeCallbackDelivered, nLabels, dLabels,
       tLabels, sLabels, gLabels, fLabels, takers
  <2>5. CASE FinishLoad(p)
    BY <1>0, <2>5 DEF FinishLoad, Submit, Home, Holds, Sends, ReturnOK,
       Phases, isReleased, isClosing, closeOpen, closeRequested,
       closeResourcesReleased,
         closeCallbackDelivered,
         nLabels, dLabels, tLabels, sLabels, gLabels, fLabels, takers
  <2>6. CASE FinishDrop(p)
    BY <1>0, <2>6, Zenon DEF FinishDrop, Holds, Sends, ReturnOK, Phases,
       isReleased, isClosing, closeOpen, closeRequested,
       closeResourcesReleased, closeCallbackDelivered, nLabels, dLabels,
       tLabels, sLabels, gLabels, fLabels, takers
  <2>7. CASE FinishLeft(p)
    BY <1>0, <2>7, Zenon DEF FinishLeft, Holds, Sends, ReturnOK, Phases,
       isReleased, isClosing, closeOpen, closeRequested,
       closeResourcesReleased, closeCallbackDelivered, nLabels, dLabels,
       tLabels, sLabels, gLabels, fLabels, takers
  <2>8. CASE FinishReclaim(p)
    BY <1>0, <2>8, ZenonT(30) DEF FinishReclaim, Submit, Home, Holds, Sends,
       ReturnOK, Phases, isReleased, isClosing, closeOpen, closeRequested,
       closeResourcesReleased, closeCallbackDelivered, nLabels, dLabels,
       tLabels, sLabels, gLabels, fLabels, takers
  <2>9. QED
    BY <1>3, <2>1, <2>2, <2>3, <2>4, <2>5, <2>6, <2>7, <2>8, Zenon DEF Turn
<1>4. CASE Reject(p)
  <2>1. CASE RejectStart(p)
    BY <1>0, <2>1, Zenon DEF RejectStart, Holds, Sends, ReturnOK, Phases,
       isReleased, isClosing, closeOpen, closeRequested,
       closeResourcesReleased, closeCallbackDelivered, nLabels, dLabels,
       tLabels, sLabels, gLabels, fLabels, takers
  <2>2. CASE RejectPhase(p)
    BY <1>0, <2>2 DEF RejectPhase, request, Holds, Sends, ReturnOK, Phases,
       isReleased, isClosing, closeOpen, closeRequested,
       closeResourcesReleased,
         closeCallbackDelivered,
         nLabels, dLabels, tLabels, sLabels, gLabels, fLabels, takers
  <2>3. CASE RejectBegun(p)
    BY <1>0, <2>3, Zenon DEF RejectBegun, Holds, Sends, ReturnOK, Phases,
       isReleased, isClosing, closeOpen, closeRequested,
       closeResourcesReleased, closeCallbackDelivered, nLabels, dLabels,
       tLabels, sLabels, gLabels, fLabels, takers
  <2>4. CASE RejectDrop(p)
    BY <1>0, <2>4, Zenon DEF RejectDrop, Holds, Sends, ReturnOK, Phases,
       isReleased, isClosing, closeOpen, closeRequested,
       closeResourcesReleased, closeCallbackDelivered, nLabels, dLabels,
       tLabels, sLabels, gLabels, fLabels, takers
  <2>5. CASE RejectLeft(p)
    BY <1>0, <2>5, ZenonT(30) DEF RejectLeft, CallNote, Holds, Sends,
       ReturnOK, Phases, isReleased, isClosing, closeOpen, closeRequested,
       closeResourcesReleased, closeCallbackDelivered, nLabels, dLabels,
       tLabels, sLabels, gLabels, fLabels, takers
  <2>6. QED
    BY <1>4, <2>1, <2>2, <2>3, <2>4, <2>5, Zenon DEF Reject
<1>5. CASE Write(p)
  <2>1. CASE KickClaim(p)
    BY <1>0, <2>1, Zenon DEF KickClaim, Holds, Sends, ReturnOK, Phases,
       isReleased, isClosing, closeOpen, closeRequested,
       closeResourcesReleased, closeCallbackDelivered, nLabels, dLabels,
       tLabels, sLabels, gLabels, fLabels, takers
  <2>2. CASE KickAcquire(p)
    BY <1>0, <2>2, Zenon DEF KickAcquire, Acquire, WriteSubmit, Home, Holds,
       Sends, ReturnOK, Phases, isReleased, isClosing, closeOpen,
       closeRequested, closeResourcesReleased, closeCallbackDelivered,
       nLabels, dLabels, tLabels, sLabels, gLabels, fLabels, takers
  <2>3. CASE WriteStart(p)
    BY <1>0, <2>3, Zenon DEF WriteStart, Holds, Sends, ReturnOK, Phases,
       isReleased, isClosing, closeOpen, closeRequested,
       closeResourcesReleased, closeCallbackDelivered, nLabels, dLabels,
       tLabels, sLabels, gLabels, fLabels, takers
  <2>4. CASE WriteSend(p)
    BY <1>0, <2>4, Zenon DEF WriteSend, request, CallNote, Holds, Sends,
       ReturnOK, Phases, isReleased, isClosing, closeOpen, closeRequested,
       closeResourcesReleased, closeCallbackDelivered, nLabels, dLabels,
       tLabels, sLabels, gLabels, fLabels, takers
  <2>5. CASE WriteHandOn(p)
    BY <1>0, <2>5, Zenon DEF WriteHandOn, WriteSubmit, Home, Holds, Sends,
       ReturnOK, Phases, isReleased, isClosing, closeOpen, closeRequested,
       closeResourcesReleased, closeCallbackDelivered, nLabels, dLabels,
       tLabels, sLabels, gLabels, fLabels, takers
  <2>6. CASE ReleaseWrite(p, "w_done", "w_next")
    BY <1>0, <2>6, Zenon DEF ReleaseWrite, Holds, Sends, ReturnOK, Phases,
       isReleased, isClosing, closeOpen, closeRequested,
       closeResourcesReleased, closeCallbackDelivered, nLabels, dLabels,
       tLabels, sLabels, gLabels, fLabels, takers
  <2>7. CASE ReleaseWrite(p, "w_refused", "w_close")
    BY <1>0, <2>7, Zenon DEF ReleaseWrite, Holds, Sends, ReturnOK, Phases,
       isReleased, isClosing, closeOpen, closeRequested,
       closeResourcesReleased, closeCallbackDelivered, nLabels, dLabels,
       tLabels, sLabels, gLabels, fLabels, takers
  <2>8. CASE ReleaseWrite(p, "k_back", "idle")
    BY <1>0, <2>8, Zenon DEF ReleaseWrite, Holds, Sends, ReturnOK, Phases,
       isReleased, isClosing, closeOpen, closeRequested,
       closeResourcesReleased, closeCallbackDelivered, nLabels, dLabels,
       tLabels, sLabels, gLabels, fLabels, takers
  <2>9. CASE WriteHandBack(p)
    BY <1>0, <2>9, Zenon DEF WriteHandBack, CallNote, Holds, Sends, ReturnOK,
       Phases, isReleased, isClosing, closeOpen, closeRequested,
       closeResourcesReleased, closeCallbackDelivered, nLabels, dLabels,
       tLabels, sLabels, gLabels, fLabels, takers
  <2>10. CASE WriteNext(p)
    BY <1>0, <2>10 DEF WriteNext, Holds, Sends, ReturnOK, Phases,
       isReleased, isClosing, closeOpen, closeRequested,
       closeResourcesReleased,
         closeCallbackDelivered,
         nLabels, dLabels, tLabels, sLabels, gLabels, fLabels, takers
  <2>11. CASE WriteAgain(p)
    BY <1>0, <2>11, Zenon DEF WriteAgain, WriteSubmit, Home, Holds, Sends,
       ReturnOK, Phases, isReleased, isClosing, closeOpen, closeRequested,
       closeResourcesReleased, closeCallbackDelivered, nLabels, dLabels,
       tLabels, sLabels, gLabels, fLabels, takers
  <2>12. CASE WriteRefused(p)
    BY <1>0, <2>12 DEF WriteRefused, request, CallNote, Holds, Sends,
       ReturnOK, Phases, isReleased, isClosing, closeOpen, closeRequested,
       closeResourcesReleased,
         closeCallbackDelivered,
         nLabels, dLabels, tLabels, sLabels, gLabels, fLabels, takers
  <2>13. QED
    BY <1>5, <2>1, <2>2, <2>3, <2>4, <2>5, <2>6, <2>7, <2>8, <2>9, <2>10,
       <2>11, <2>12 DEF Write
<1>6. CASE Register(p)
  <2>1. CASE RegisterStart(p)
    BY <1>0, <2>1, Zenon DEF RegisterStart, Holds, Sends, ReturnOK, Phases,
       isReleased, isClosing, closeOpen, closeRequested,
       closeResourcesReleased, closeCallbackDelivered, nLabels, dLabels,
       tLabels, sLabels, gLabels, fLabels, takers
  <2>2. CASE RegisterNote(p)
    BY <1>0, <2>2, Zenon DEF RegisterNote, Holds, Sends, ReturnOK, Phases,
       isReleased, isClosing, closeOpen, closeRequested,
       closeResourcesReleased, closeCallbackDelivered, nLabels, dLabels,
       tLabels, sLabels, gLabels, fLabels, takers
  <2>3. CASE RegisterAcquire(p)
    BY <1>0, <2>3, ZenonT(30) DEF RegisterAcquire, Acquire, Holds, Sends,
       ReturnOK, Phases, isReleased, isClosing, closeOpen, closeRequested,
       closeResourcesReleased, closeCallbackDelivered, nLabels, dLabels,
       tLabels, sLabels, gLabels, fLabels, takers
  <2>4. CASE RegisterPut(p)
    BY <1>0, <2>4, ZenonT(30) DEF RegisterPut, Release, Holds, Sends,
       ReturnOK, Phases, isReleased, isClosing, closeOpen, closeRequested,
       closeResourcesReleased, closeCallbackDelivered, nLabels, dLabels,
       tLabels, sLabels, gLabels, fLabels, takers
  <2>5. CASE RegisterLook(p)
    BY <1>0, <2>5, ZenonT(30) DEF RegisterLook, Holds, Sends, ReturnOK,
       Phases, isReleased, isClosing, closeOpen, closeRequested,
       closeResourcesReleased, closeCallbackDelivered, nLabels, dLabels,
       tLabels, sLabels, gLabels, fLabels, takers
  <2>6. CASE RegisterLeave(p)
    BY <1>0, <2>6, Zenon DEF RegisterLeave, abandon, Holds, Sends, ReturnOK,
       Phases, isReleased, isClosing, closeOpen, closeRequested,
       closeResourcesReleased, closeCallbackDelivered, nLabels, dLabels,
       tLabels, sLabels, gLabels, fLabels, takers
  <2>7. CASE RegisterDrop(p)
    BY <1>0, <2>7, Zenon DEF RegisterDrop, Holds, Sends, ReturnOK, Phases,
       isReleased, isClosing, closeOpen, closeRequested,
       closeResourcesReleased, closeCallbackDelivered, nLabels, dLabels,
       tLabels, sLabels, gLabels, fLabels, takers
  <2>8. CASE RegisterClose(p)
    BY <1>0, <2>8, ZenonT(30) DEF RegisterClose, abandon, Home, Holds, Sends,
       ReturnOK, Phases, isReleased, isClosing, closeOpen, closeRequested,
       closeResourcesReleased, closeCallbackDelivered, nLabels, dLabels,
       tLabels, sLabels, gLabels, fLabels, takers
  <2>9. CASE RegisterSubmit(p)
    BY <1>0, <2>9, ZenonT(30) DEF RegisterSubmit, Submit, Home, Holds, Sends,
       ReturnOK, Phases, isReleased, isClosing, closeOpen, closeRequested,
       closeResourcesReleased, closeCallbackDelivered, nLabels, dLabels,
       tLabels, sLabels, gLabels, fLabels, takers
  <2>10. QED
    BY <1>6, <2>1, <2>2, <2>3, <2>4, <2>5, <2>6, <2>7, <2>8, <2>9, ZenonT(30)
       DEF Register
<1>7. CASE Shutdown(p)
  <2>1. CASE ShutdownLoops(p)
    BY <1>0, <2>1, ZenonT(30) DEF ShutdownLoops, Holds, Sends, ReturnOK,
       Phases, isReleased, isClosing, closeOpen, closeRequested,
       closeResourcesReleased, closeCallbackDelivered, nLabels, dLabels,
       tLabels, sLabels, gLabels, fLabels, takers
  <2>2. CASE ClosePoller(p)
    BY <1>0, <2>2, ZenonT(30) DEF ClosePoller, Holds, Sends, ReturnOK, Phases,
       isReleased, isClosing, closeOpen, closeRequested,
       closeResourcesReleased, closeCallbackDelivered, nLabels, dLabels,
       tLabels, sLabels, gLabels, fLabels, takers
  <2>3. CASE ShutdownBegin(p)
    BY <1>0, <2>3 DEF ShutdownBegin, request, Holds, Sends, ReturnOK,
       Phases, isReleased, isClosing, closeOpen, closeRequested,
       closeResourcesReleased,
         closeCallbackDelivered,
         nLabels, dLabels, tLabels, sLabels, gLabels, fLabels, takers
  <2>4. CASE StopIO(p)
    BY <1>0, <2>4, Zenon DEF StopIO, Holds, Sends, ReturnOK, Phases,
       isReleased, isClosing, closeOpen, closeRequested,
       closeResourcesReleased, closeCallbackDelivered, nLabels, dLabels,
       tLabels, sLabels, gLabels, fLabels, takers
  <2>5. CASE StopSum(p)
    BY <1>0, <2>5, Zenon DEF StopSum, Holds, Sends, ReturnOK, Phases,
       isReleased, isClosing, closeOpen, closeRequested,
       closeResourcesReleased, closeCallbackDelivered, nLabels, dLabels,
       tLabels, sLabels, gLabels, fLabels, takers
  <2>6. CASE StopJoined(p)
    BY <1>0, <2>6, ZenonT(30) DEF StopJoined, Holds, Sends, ReturnOK, Phases,
       isReleased, isClosing, closeOpen, closeRequested,
       closeResourcesReleased, closeCallbackDelivered, nLabels, dLabels,
       tLabels, sLabels, gLabels, fLabels, takers
  <2>7. CASE WaitIODrained(p)
    BY <1>0, <2>7, Zenon DEF WaitIODrained, Holds, Sends, ReturnOK, Phases,
       isReleased, isClosing, closeOpen, closeRequested,
       closeResourcesReleased, closeCallbackDelivered, nLabels, dLabels,
       tLabels, sLabels, gLabels, fLabels, takers
  <2>8. QED
    BY <1>7, <2>1, <2>2, <2>3, <2>4, <2>5, <2>6, <2>7, ZenonT(30) DEF Shutdown
<1>8. CASE Start(p)
  <2>1. CASE Signal(p)
    BY <1>0, <2>1, Zenon DEF Signal, CallNote, Holds, Sends, ReturnOK, Phases,
       isReleased, isClosing, closeOpen, closeRequested,
       closeResourcesReleased, closeCallbackDelivered, nLabels, dLabels,
       tLabels, sLabels, gLabels, fLabels, takers
  <2>2. CASE CloseWith(p)
    BY <1>0, <2>2 DEF CloseWith, request, CallNote, Holds, Sends, ReturnOK,
       Phases, isReleased, isClosing, closeOpen, closeRequested,
       closeResourcesReleased,
         closeCallbackDelivered,
         nLabels, dLabels, tLabels, sLabels, gLabels, fLabels, takers
  <2>3. CASE KickStart(p)
    BY <1>0, <2>3 DEF KickStart, Holds, Sends, ReturnOK, Phases,
       isReleased, isClosing, closeOpen, closeRequested,
       closeResourcesReleased,
         closeCallbackDelivered,
         nLabels, dLabels, tLabels, sLabels, gLabels, fLabels, takers
  <2>4. CASE ShutdownStart(p)
    BY <1>0, <2>4, Zenon DEF ShutdownStart, Holds, Sends, ReturnOK, Phases,
       isReleased, isClosing, closeOpen, closeRequested,
       closeResourcesReleased, closeCallbackDelivered, nLabels, dLabels,
       tLabels, sLabels, gLabels, fLabels, takers
  <2>5. QED
    BY <1>8, <2>1, <2>2, <2>3, <2>4, ZenonT(30) DEF Start
<1>9. QED
  BY <1>1, <1>2, <1>3, <1>4, <1>5, <1>6, <1>7, <1>8, Zenon DEF Step

=============================================================================

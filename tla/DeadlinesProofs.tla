--------------------------- MODULE DeadlinesProofs --------------------------
(***************************************************************************)
(* Proofs about deadlines, for any number of callbacks, setter calls and   *)
(* instants.                                                               *)
(***************************************************************************)
EXTENDS Deadlines, Integers, TLAPS

\* The variables have their types.
TypeOK ==
    /\ now \in Nat \ {0}
    /\ dl \in [Kinds -> [when : Nat, gen : Nat, timerGen : Nat, timer : Nat]]
    /\ cb \in [Callbacks -> [pc : {"idle", "expire", "timeout", "close"},
                             kind : Kinds, gen : Nat]]
    /\ conn \in {"open", "closing", "released"}
    /\ cause \in [when : Nat, at : Nat]

\* A kind's timer carries its present generation and is never set for an
\* instant before its deadline.
TimersOK ==
    \A k \in Kinds :
        /\ dl[k].timerGen = dl[k].gen
        /\ dl[k].timer # 0 => dl[k].when # 0 /\ dl[k].timer >= dl[k].when

IInv == TypeOK /\ TimersOK /\ NotEarly /\ DeadlineKept

\* The greater of two numbers.
LEMMA MaxOfTwo ==
    ASSUME NEW a \in Nat, NEW b \in Nat
    PROVE  /\ Max({a, b}) \in {a, b}
           /\ Max({a, b}) >= a /\ Max({a, b}) >= b
<1>1. \E x \in {a, b} : \A y \in {a, b} : x >= y
  <2>1. CASE a >= b
    BY <2>1
  <2>2. CASE b >= a
    BY <2>2
  <2>3. QED
    BY <2>1, <2>2
<1>2. Max({a, b}) \in {a, b} /\ \A y \in {a, b} : Max({a, b}) >= y
  BY <1>1, Zenon DEF Max
<1>3. QED
  BY <1>2

\* The initial state.
LEMMA InitIInv == Init => IInv
  BY DEF Init, IInv, TypeOK, TimersOK, NotEarly, DeadlineKept, Kinds

\* Every step keeps the types and the timers.
LEMMA TimersKeep ==
    ASSUME TypeOK, TimersOK, [Next]_vars
    PROVE  TypeOK' /\ TimersOK'
<1>1. CASE SetDeadline
  <2>1. PICK ks \in {{"read"}, {"write"}, Kinds}, when \in 0..MaxNow :
           applyDeadline(ks, when)
    BY <1>1 DEF SetDeadline
  <2>2. when \in Nat /\ now \in Nat
    BY DEF TypeOK
  <2>3. resetDeadlineTimer(when) \in Nat
    BY <2>2, MaxOfTwo DEF resetDeadlineTimer
  <2>4. resetDeadlineTimer(when) # 0 => when # 0 /\ resetDeadlineTimer(when) >= when
    BY <2>2, MaxOfTwo DEF resetDeadlineTimer
  <2>5. TypeOK'
    BY <1>1, <2>1, <2>2, <2>3 DEF SetDeadline, applyDeadline, TypeOK
  <2>6. TimersOK'
    BY <2>1, <2>4 DEF applyDeadline, TimersOK
  <2>7. QED
    BY <2>5, <2>6
<1>2. CASE Close \/ stopDeadlines \/ Pass
  BY <1>2 DEF Close, stopDeadlines, Pass, TypeOK, TimersOK
<1>3. CASE \E g \in Callbacks, k \in Kinds : Fire(g, k)
  <2>1. TypeOK'
    BY <1>3 DEF Fire, TypeOK
  <2>2. TimersOK'
    BY <1>3 DEF Fire, TypeOK, TimersOK
  <2>3. QED
    BY <2>1, <2>2
<1>4. CASE \E g \in Callbacks : expireDeadline(g)
  <2>1. PICK g \in Callbacks : expireDeadline(g)
    BY <1>4
  <2>2. dl[cb[g].kind].timerGen \in Nat
    BY DEF TypeOK
  <2>3. cb' \in [Callbacks -> [pc : {"idle", "expire", "timeout", "close"},
                               kind : Kinds, gen : Nat]]
    <3>1. CASE conn = "open"
      BY <2>1, <2>2, <3>1, Zenon DEF expireDeadline, TypeOK
    <3>2. CASE conn # "open"
      BY <2>1, <3>2 DEF expireDeadline, TypeOK
    <3>3. QED
      BY <3>1, <3>2
  <2>4. QED
    BY <2>1, <2>3 DEF expireDeadline, TypeOK, TimersOK
<1>5. CASE \E g \in Callbacks : handleTimeout(g)
  BY <1>5 DEF handleTimeout, TypeOK, TimersOK
<1>6. CASE \E g \in Callbacks : TimeoutClose(g)
  BY <1>6 DEF TimeoutClose, TypeOK, TimersOK
<1>7. CASE UNCHANGED vars
  BY <1>7 DEF vars, TypeOK, TimersOK
<1>8. QED
  BY <1>1, <1>2, <1>3, <1>4, <1>5, <1>6, <1>7 DEF Next, Resting

\* A timeout's cause is set when the deadline stands.
LEMMA CauseKeeps ==
    ASSUME TypeOK, NotEarly, [Next]_vars
    PROVE  NotEarly'
<1>1. CASE \E g \in Callbacks : handleTimeout(g)
  BY <1>1 DEF handleTimeout, Stands, TypeOK, NotEarly
<1>2. CASE UNCHANGED cause
  BY <1>2 DEF NotEarly
<1>3. QED
  BY <1>1, <1>2 DEF Next, Resting, vars, SetDeadline, Close, stopDeadlines, Pass,
     Fire, expireDeadline, TimeoutClose

\* g's callback will find k's deadline standing and passed.
Sees(g, k) ==
    /\ cb[g].kind = k
    /\ \/ cb[g].pc = "expire" /\ now >= dl[k].when
       \/ cb[g].pc = "timeout" /\ Stands(g)
       \/ cb[g].pc = "close"

\* A deadline that stands keeps its timer or its callback.  The timer never
\* fires before its deadline, so the callback finds it passed; the generation
\* is the timer's until a setter comes, which sets the timer again.
LEMMA KeptKeeps ==
    ASSUME TypeOK, TimersOK, DeadlineKept, [Next]_vars, NEW k \in Kinds,
           conn' = "open", dl'[k].when # 0, dl'[k].timer = 0
    PROVE  \E g \in Callbacks : Sees(g, k)'
<1>1. conn = "open"
  BY DEF Next, Resting, vars, SetDeadline, Close, stopDeadlines, Pass, Fire,
     expireDeadline, handleTimeout, TimeoutClose, TypeOK
<1>2. dl[k].when # 0 => dl[k].timer # 0 \/ \E g \in Callbacks : Sees(g, k)
  BY <1>1 DEF DeadlineKept, Sees
<1>3. CASE SetDeadline
  <2>1. PICK ks \in {{"read"}, {"write"}, Kinds}, when \in 0..MaxNow :
           applyDeadline(ks, when)
    BY <1>3 DEF SetDeadline
  <2>2. k \notin ks
    <3>1. when \in Nat /\ now \in Nat /\ now # 0
      BY DEF TypeOK
    <3>2. when # 0 => resetDeadlineTimer(when) # 0
      BY <3>1, MaxOfTwo DEF resetDeadlineTimer
    <3>3. QED
      BY <2>1, <3>2 DEF applyDeadline
  <2>3. dl'[k] = dl[k] /\ UNCHANGED <<now, cb>>
    BY <1>3, <2>1, <2>2 DEF SetDeadline, applyDeadline
  <2>4. QED
    BY <1>2, <2>3 DEF Sees, Stands
<1>4. CASE Pass
  BY <1>2, <1>4 DEF Pass, Sees, Stands, TypeOK
<1>5. CASE \E g \in Callbacks, j \in Kinds : Fire(g, j)
  <2>1. PICK g \in Callbacks, j \in Kinds : Fire(g, j)
    BY <1>5
  <2>2. CASE j = k
    <3>1. cb'[g].kind = k /\ cb'[g].pc = "expire"
      BY <2>1, <2>2 DEF Fire, TypeOK
    <3>2. now' >= dl'[k].when
      BY <2>1, <2>2 DEF Fire, TypeOK, TimersOK
    <3>3. QED
      BY <3>1, <3>2 DEF Sees
  <2>3. CASE j # k
    <3>1. dl'[k] = dl[k] /\ now' = now
      BY <2>1, <2>3 DEF Fire, TypeOK
    <3>2. PICK h \in Callbacks : Sees(h, k)
      BY <1>2, <3>1
    <3>3. cb'[h] = cb[h]
      BY <2>1, <3>2 DEF Fire, Sees, TypeOK
    <3>4. QED
      BY <3>1, <3>2, <3>3 DEF Sees, Stands
  <2>4. QED
    BY <2>2, <2>3
<1>6. CASE \E g \in Callbacks : expireDeadline(g)
  <2>1. PICK g \in Callbacks : expireDeadline(g)
    BY <1>6
  <2>2. UNCHANGED <<now, dl>>
    BY <2>1 DEF expireDeadline
  <2>3. PICK h \in Callbacks : Sees(h, k)
    BY <1>2, <2>2
  <2>4. CASE h = g
    <3>1. /\ cb'[h].kind = k /\ cb'[h].pc = "timeout"
          /\ cb'[h].gen = dl[k].timerGen /\ now >= dl[k].when
      BY <1>1, <2>1, <2>3, <2>4 DEF expireDeadline, Sees, TypeOK
    <3>2. QED
      BY <2>2, <3>1 DEF Sees, Stands, TimersOK
  <2>5. CASE h # g
    <3>1. cb'[h] = cb[h]
      BY <2>1, <2>5 DEF expireDeadline, TypeOK
    <3>2. QED
      BY <2>2, <2>3, <3>1 DEF Sees, Stands
  <2>6. QED
    BY <2>4, <2>5
<1>7. CASE \E g \in Callbacks : handleTimeout(g)
  <2>1. PICK g \in Callbacks : handleTimeout(g)
    BY <1>7
  <2>2. UNCHANGED <<now, dl>>
    BY <2>1 DEF handleTimeout
  <2>3. PICK h \in Callbacks : Sees(h, k)
    BY <1>2, <2>2
  <2>4. CASE h = g
    <3>1. cb'[h].kind = k /\ cb'[h].pc = "close"
      BY <1>1, <2>1, <2>3, <2>4 DEF handleTimeout, Sees, TypeOK
    <3>2. QED
      BY <3>1 DEF Sees
  <2>5. CASE h # g
    <3>1. cb'[h] = cb[h]
      BY <2>1, <2>5 DEF handleTimeout, TypeOK
    <3>2. QED
      BY <2>2, <2>3, <3>1 DEF Sees, Stands
  <2>6. QED
    BY <2>4, <2>5
<1>8. CASE UNCHANGED vars
  BY <1>2, <1>8 DEF vars, Sees, Stands
<1>9. QED
  <2>1. ~Close /\ ~stopDeadlines /\ \A g \in Callbacks : ~TimeoutClose(g)
    BY <1>1 DEF Close, stopDeadlines, TimeoutClose
  <2>2. QED
    BY <1>3, <1>4, <1>5, <1>6, <1>7, <1>8, <2>1 DEF Next, Resting

\* The invariant is inductive.
LEMMA Invariance == Spec => []IInv
<1>1. Init => IInv
  BY InitIInv
<1>2. IInv /\ [Next]_vars => IInv'
  <2> SUFFICES ASSUME IInv, [Next]_vars
               PROVE  IInv'
    OBVIOUS
  <2>1. TypeOK' /\ TimersOK' /\ NotEarly'
    BY TimersKeep, CauseKeeps DEF IInv
  <2>2. DeadlineKept'
    BY KeptKeeps DEF IInv, DeadlineKept, Sees
  <2>3. QED
    BY <2>1, <2>2 DEF IInv
<1>3. QED
  BY <1>1, <1>2, PTL DEF Spec

\* handleTimeout asks for a close only when the deadline it is about stands and
\* has passed, whichever timer's callback it runs in.
THEOREM TimeoutIsDue == Spec => []NotEarly
  BY Invariance, PTL DEF IInv

\* No race of a setter, a firing timer and a late callback loses the timeout
\* of a deadline that stands.
THEOREM DeadlineIsKept == Spec => []DeadlineKept
  BY Invariance, PTL DEF IInv
=============================================================================

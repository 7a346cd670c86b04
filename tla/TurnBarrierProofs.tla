-------------------------- MODULE TurnBarrierProofs --------------------------
(***************************************************************************)
(* That the striped sum is a barrier, for every number of stripes and of   *)
(* goroutines.                                                             *)
(***************************************************************************)
EXTENDS TurnBarrier, FiniteSetTheorems, WellFoundedInduction, TLAPS

----------------------------------------------------------------------------
(* Sums.  SumBelow is a recursive function, so what it computes is shown   *)
(* by induction: of the stripes where a claim fails there would be a least.*)

\* A set of naturals that has a member has a least one.
LEMMA LeastElement ==
    ASSUME NEW T, T \subseteq Nat, T # {}
    PROVE  \E x \in T : \A y \in T : x <= y
<1> DEFINE R == OpToRel(<, Nat)
<1>1. IsWellFoundedOn(R, Nat)
  BY NatLessThanWellFounded
<1>2. PICK x \in T : \A y \in T : <<y, x>> \notin R
  <2> HIDE DEF R
  <2> QED BY <1>1, WFMin, Zenon
<1>3. \A y \in T : <<y, x>> \notin R => x <= y
  BY DEF OpToRel
<1>4. QED
  BY <1>2, <1>3

\* What holds of 0, and of m + 1 if of m, holds of all up to n.
LEMMA InductionUpTo ==
    ASSUME NEW n \in Nat, NEW T, 0 \in T,
           \A m \in 0..(n - 1) : m \in T => m + 1 \in T
    PROVE  0..n \subseteq T
<1> DEFINE U == (0..n) \ T
<1>1. SUFFICES ASSUME U # {} PROVE FALSE
  OBVIOUS
<1>2. PICK m \in U : \A k \in U : m <= k
  <2>1. U \subseteq Nat
    OBVIOUS
  <2> HIDE DEF U
  <2>2. QED
    BY <1>1, <2>1, LeastElement, Zenon
<1>3. m \in 1..n
  BY <1>2
<1>4. m - 1 \in 0..(n - 1) /\ m - 1 \notin U
  BY <1>2, <1>3
<1>5. m - 1 \in T /\ (m - 1) + 1 = m
  BY <1>3, <1>4
<1>6. QED
  BY <1>2, <1>4, <1>5

\* The sums of the stripes below 0, 1, ... n.
Sums(f, n, s) ==
    /\ s \in [0..n -> Int] /\ s[0] = 0
    /\ \A k \in 0..(n - 1) : s[k + 1] = s[k] + f[k]

\* There are such sums.
LEMMA SumsExist ==
    ASSUME NEW f \in [Indices -> Int]
    PROVE  \E s : Sums(f, Stripes, s)
<1> USE BarrierAssumption DEF Indices
<1> DEFINE T == {m \in 0..Stripes : \E s : Sums(f, m, s)}
<1>1. 0 \in T
  <2>1. Sums(f, 0, [k \in 0..0 |-> 0])
    BY DEF Sums
  <2>2. QED
    BY <2>1
<1>2. ASSUME NEW m \in 0..(Stripes - 1), m \in T
      PROVE  m + 1 \in T
  <2>1. PICK s : Sums(f, m, s)
    BY <1>2
  <2> DEFINE t == [k \in 0..(m + 1) |-> IF k = m + 1 THEN s[m] + f[m] ELSE s[k]]
  <2>2. Sums(f, m + 1, t)
    <3>1. \A k \in 0..m : t[k] = s[k] /\ s[k] \in Int
      BY <2>1 DEF Sums
    <3>2. t[m + 1] = s[m] + f[m] /\ f[m] \in Int
      OBVIOUS
    <3>3. t \in [0..(m + 1) -> Int]
      <4>1. s[m] + f[m] \in Int
        <5>1. s[m] \in Int
          BY <2>1 DEF Sums
        <5>2. QED
          BY <3>2, <5>1
      <4>2. \A k \in 0..(m + 1) : k = m + 1 \/ k \in 0..m
        OBVIOUS
      <4>3. QED
        BY <3>1, <4>1, <4>2, Zenon
    <3>4. ASSUME NEW k \in 0..m PROVE t[k + 1] = t[k] + f[k]
      BY <2>1, <3>1, <3>2 DEF Sums
    <3>5. t[0] = 0
      BY <2>1, <3>1 DEF Sums
    <3> HIDE DEF t
    <3>6. QED
      BY <3>3, <3>4, <3>5 DEF Sums
  <2>3. QED
    BY <2>2
<1>3. Stripes \in T
  <2> HIDE DEF T
  <2>1. 0..Stripes \subseteq T
    BY <1>1, <1>2, InductionUpTo, Zenon
  <2>2. QED
    BY <2>1
<1>4. QED
  BY <1>3

\* SumBelow gives them.
LEMMA SumBelowSums ==
    ASSUME NEW f \in [Indices -> Int]
    PROVE  Sums(f, Stripes, SumBelow(f))
<1> USE BarrierAssumption DEF Indices
<1> DEFINE Eq(s) == s = [k \in 0..Stripes |-> IF k = 0 THEN 0 ELSE s[k - 1] + f[k - 1]]
<1>1. PICK s : Sums(f, Stripes, s)
  BY SumsExist
<1>2. Eq(s)
  <2>1. \A k \in 1..Stripes : s[k] = s[k - 1] + f[k - 1]
    <3>1. \A k \in 1..Stripes : k - 1 \in 0..(Stripes - 1) /\ (k - 1) + 1 = k
      OBVIOUS
    <3>2. QED
      BY <1>1, <3>1 DEF Sums
  <2>2. QED
    BY <1>1, <2>1 DEF Sums
<1> DEFINE g == SumBelow(f)
<1>3. Eq(g)
  <2>1. g = CHOOSE h : Eq(h)
    BY DEF SumBelow
  <2> HIDE DEF Eq, g
  <2>2. QED
    BY <1>2, <2>1
<1> HIDE DEF g
<1>4. \A k \in 0..Stripes : g[k] = IF k = 0 THEN 0 ELSE g[k - 1] + f[k - 1]
  BY <1>3
<1>5. \A k \in 0..(Stripes - 1) : g[k + 1] = g[k] + f[k]
  <2>1. ASSUME NEW k \in 0..(Stripes - 1) PROVE g[k + 1] = g[k] + f[k]
    <3>1. k + 1 \in 0..Stripes /\ k + 1 # 0 /\ (k + 1) - 1 = k
      OBVIOUS
    <3>2. QED
      BY <1>4, <3>1
  <2>2. QED
    BY <2>1
<1>6. \A k \in 0..Stripes : g[k] \in Int
  <2> DEFINE T == {k \in 0..Stripes : g[k] \in Int}
  <2>1. 0 \in T
    BY <1>4
  <2>2. \A m \in 0..(Stripes - 1) : m \in T => m + 1 \in T
    BY <1>5
  <2>3. 0..Stripes \subseteq T
    <3> HIDE DEF T
    <3> QED BY <2>1, <2>2, InductionUpTo, Zenon
  <2>4. QED
    BY <2>3
<1>7. g \in [0..Stripes -> Int]
  BY <1>3, <1>6
<1>8. Sums(f, Stripes, g)
  BY <1>4, <1>5, <1>7 DEF Sums
<1>9. QED
  BY <1>8 DEF g

\* A count on stripe i moves the sums above i by as much, and no other.
LEMMA SumBelowAdd ==
    ASSUME NEW f \in [Indices -> Int], NEW g \in [Indices -> Int],
           NEW i \in Indices, NEW n \in Int,
           \A j \in Indices : g[j] = f[j] + (IF j = i THEN n ELSE 0)
    PROVE  \A k \in 0..Stripes :
               SumBelow(g)[k] = SumBelow(f)[k] + (IF i < k THEN n ELSE 0)
<1> USE BarrierAssumption DEF Indices
<1> DEFINE a == SumBelow(f)
           b == SumBelow(g)
           T == {k \in 0..Stripes : b[k] = a[k] + (IF i < k THEN n ELSE 0)}
<1>1. \A j \in Indices : g[j] = f[j] + (IF j = i THEN n ELSE 0)
  OBVIOUS
<1>2. Sums(f, Stripes, a) /\ Sums(g, Stripes, b)
  BY SumBelowSums
<1> HIDE DEF a, b
<1>3. 0 \in T
  BY <1>2 DEF Sums
<1>4. ASSUME NEW m \in 0..(Stripes - 1), m \in T
      PROVE  m + 1 \in T
  <2>1. a[m + 1] = a[m] + f[m] /\ b[m + 1] = b[m] + g[m]
    BY <1>2 DEF Sums
  <2>2. a[m] \in Int /\ f[m] \in Int /\ g[m] = f[m] + (IF m = i THEN n ELSE 0)
    <3>1. a[m] \in Int
      BY <1>2 DEF Sums
    <3>2. f[m] \in Int /\ g[m] = f[m] + (IF m = i THEN n ELSE 0)
      BY <1>1
    <3>3. QED
      BY <3>1, <3>2
  <2>3. b[m] = a[m] + (IF i < m THEN n ELSE 0)
    BY <1>4
  <2>4. b[m + 1] = a[m + 1] + (IF i < m + 1 THEN n ELSE 0)
    BY <2>1, <2>2, <2>3
  <2>5. QED
    BY <2>4
<1>5. 0..Stripes \subseteq T
  <2> HIDE DEF T
  <2> QED BY <1>3, <1>4, InductionUpTo, Zenon
<1>6. QED
  BY <1>5 DEF a, b

\* Nothing counted adds up to nothing.
LEMMA SumBelowZero == SumBelow([i \in Indices |-> 0])[Stripes] = 0
<1> USE BarrierAssumption DEF Indices
<1> DEFINE f == [i \in Indices |-> 0]
           a == SumBelow(f)
           T == {k \in 0..Stripes : a[k] = 0}
<1>1. f \in [Indices -> Int] /\ \A j \in Indices : f[j] = 0
  OBVIOUS
<1>2. Sums(f, Stripes, a)
  <2> HIDE DEF f
  <2> QED BY <1>1, SumBelowSums
<1> HIDE DEF f, a
<1>3. 0 \in T
  BY <1>2 DEF Sums
<1>4. \A m \in 0..(Stripes - 1) : m \in T => m + 1 \in T
  BY <1>1, <1>2 DEF Sums
<1>5. 0..Stripes \subseteq T
  <2> HIDE DEF T
  <2> QED BY <1>3, <1>4, InductionUpTo, Zenon
<1>6. QED
  BY <1>5 DEF a, f

----------------------------------------------------------------------------
(* The inductive invariant.                                                *)

Bit(b) == IF b THEN 1 ELSE 0

\* What is counted on the stripes from k on, which a sum at k has yet to read.
Above(f, k) == SumBelow(f)[Stripes] - SumBelow(f)[k]
Rest(k) == Above(ioTurns, k)

Holds(g) == pc[g] \in {"check", "run", "hand", "give"}
Runs(g) == pc[g] \in {"run", "hand"}

\* A goroutine that will give its count back on a stripe from k on.
Owes(g, k) == pc[g] \in {"check", "give"} /\ stripe[g] >= k
owing(k) == {g \in Goroutines : Owes(g, k)}

gLabels == {"idle", "enter", "check", "run", "hand", "give", "look", "sum"}

\* Where goroutines and the shutdown are, and what has been set by then.
Control ==
    /\ \A g \in Goroutines : pc[g] \in gLabels
    /\ pc[Stopper] \in Labels \ gLabels
    /\ ioStop <=> pc[Stopper] \notin {"s_start", "s_stop"}
    /\ \A g \in Goroutines : pc[g] = "sum" => ioStop
    /\ ioIdle => ioStop
    /\ pc[Stopper] \in {"s_pass", "s_drain", "s_done"} => ioIdle
    /\ closing # 0 => pc[Stopper] \in {"s_pass", "s_drain", "s_done"}

\* A sum that may yet end a wait.
Scanning(q) == pc[q] \in {"s_sum", "s_drain"} \/ (pc[q] = "sum" /\ ~ioIdle)

\* What such a sum has read and has yet to read covers every turn that is
\* queued or runs, and every count that goes back on a stripe it has yet to
\* read.  A count taken and given back on a stripe it has read is not seen,
\* and needs not be.
Covered(q) ==
    turns[q] + Rest(at[q]) >= queued + Cardinality(running) + Cardinality(owing(at[q]))

Cover == \A q \in Procs : Scanning(q) => Covered(q)

\* Once a wait has ended nothing begins a turn again but the shutdown pass.
Quiet ==
    (ioIdle /\ closing = 0) \/ pc[Stopper] = "s_done" => running = {} /\ queued = 0

IInv == TypeOK /\ Control /\ SumExact /\ Cover /\ Quiet

\* Of every goroutine but p the step changes nothing that is its own.
Moves(p) ==
    /\ stripe' = stripe
    /\ \A q \in Procs \ {p} : pc'[q] = pc[q] /\ at'[q] = at[q] /\ turns'[q] = turns[q]

----------------------------------------------------------------------------
(* Counting.                                                               *)

\* Sets that agree but for p have cardinalities that differ by p.
LEMMA CardDelta ==
    ASSUME NEW S, NEW T, NEW p, IsFiniteSet(S), IsFiniteSet(T),
           S \ {p} = T \ {p}
    PROVE  /\ Cardinality(S) \in Nat /\ Cardinality(T) \in Nat
           /\ Cardinality(T) + Bit(p \in S) = Cardinality(S) + Bit(p \in T)
<1>1. Cardinality(S) \in Nat /\ Cardinality(T) \in Nat
  BY FS_CardinalityType
<1>2. Cardinality(S \ {p}) = Cardinality(S) - Bit(p \in S)
  BY <1>1, FS_RemoveElement DEF Bit
<1>3. Cardinality(T \ {p}) = Cardinality(T) - Bit(p \in T)
  BY <1>1, FS_RemoveElement DEF Bit
<1>4. QED
  BY <1>1, <1>2, <1>3 DEF Bit

LEMMA SetsFinite ==
    /\ IsFiniteSet(held) /\ IsFiniteSet(running)
    /\ \A k : IsFiniteSet(owing(k))
<1>1. /\ held \subseteq Goroutines /\ running \subseteq Goroutines
      /\ \A k : owing(k) \subseteq Goroutines
  BY DEF held, running, owing
<1>2. QED
  BY <1>1, BarrierAssumption, FS_Subset

\* What the stripes from k on add up to.
LEMMA AboveSums ==
    ASSUME NEW f \in [Indices -> Int]
    PROVE  /\ \A k \in 0..Stripes : Above(f, k) \in Int
           /\ Above(f, 0) = SumBelow(f)[Stripes] /\ Above(f, Stripes) = 0
           /\ \A k \in Indices : Above(f, k) = f[k] + Above(f, k + 1)
<1> USE BarrierAssumption
<1> DEFINE a == SumBelow(f)
<1>1. Sums(f, Stripes, a)
  BY SumBelowSums
<1> HIDE DEF a
<1>2. /\ \A k \in 0..Stripes : a[k] \in Int
      /\ a[0] = 0 /\ a[Stripes] \in Int
      /\ \A k \in 0..(Stripes - 1) : a[k + 1] = a[k] + f[k]
  BY <1>1 DEF Sums
<1>3. \A k \in 0..Stripes : a[Stripes] - a[k] \in Int
  BY <1>2
<1>4. a[Stripes] - a[0] = a[Stripes] /\ a[Stripes] - a[Stripes] = 0
  BY <1>2
<1>5. ASSUME NEW k \in Indices
      PROVE  a[Stripes] - a[k] = f[k] + (a[Stripes] - a[k + 1])
  <2>1. a[k] \in Int /\ f[k] \in Int /\ a[k + 1] = a[k] + f[k]
    BY <1>2 DEF Indices
  <2>2. QED
    BY <1>2, <2>1
<1>6. QED
  BY <1>3, <1>4, <1>5 DEF Above, a

\* A count on p's stripe is among what a sum has yet to read, or is not.
LEMMA RestAdd ==
    ASSUME TypeOK, NEW p \in Procs, NEW n \in Int, Add(p, n)
    PROVE  \A k \in 0..Stripes :
               Rest(k)' = Rest(k) + (IF stripe[p] >= k THEN n ELSE 0)
<1> USE BarrierAssumption
<1>1. SUFFICES ASSUME NEW k \in 0..Stripes
               PROVE  Rest(k)' = Rest(k) + (IF stripe[p] >= k THEN n ELSE 0)
  OBVIOUS
<1> DEFINE a == SumBelow(ioTurns)
           b == SumBelow(ioTurns')
<1>2. stripe[p] \in Indices /\ ioTurns \in [Indices -> Int]
  BY DEF TypeOK
<1>3. \A j \in 0..Stripes : b[j] = a[j] + (IF stripe[p] < j THEN n ELSE 0)
  <2>1. /\ ioTurns' \in [Indices -> Int]
        /\ \A j \in Indices : ioTurns'[j] = ioTurns[j] + (IF j = stripe[p] THEN n ELSE 0)
    BY <1>2 DEF Add
  <2>2. QED
    BY <1>2, <2>1, SumBelowAdd
<1>4. \A j \in 0..Stripes : a[j] \in Int
  BY <1>2, SumBelowSums DEF Sums
<1> HIDE DEF a, b
<1>5. b[Stripes] - b[k] = (a[Stripes] - a[k]) + (IF stripe[p] >= k THEN n ELSE 0)
  <2>1. /\ b[Stripes] = a[Stripes] + n
        /\ b[k] = a[k] + (IF stripe[p] < k THEN n ELSE 0)
    BY <1>2, <1>3 DEF Indices
  <2>2. a[Stripes] \in Int /\ a[k] \in Int /\ stripe[p] \in Int
    BY <1>2, <1>4, SMTT(30) DEF Indices
  <2>3. QED
    BY <2>1, <2>2
<1>6. QED
  BY <1>5 DEF Rest, Above, a, b

\* A step of p changes the sets by p alone.
LEMMA CardStep ==
    ASSUME Control, Control', NEW p \in Procs, Moves(p)
    PROVE  /\ Cardinality(held) \in Nat /\ Cardinality(held') \in Nat
           /\ Cardinality(held') + Bit(Holds(p)) = Cardinality(held) + Bit(Holds(p)')
           /\ Cardinality(running) \in Nat /\ Cardinality(running') \in Nat
           /\ Cardinality(running') + Bit(Runs(p)) = Cardinality(running) + Bit(Runs(p)')
           /\ \A k : /\ Cardinality(owing(k)) \in Nat /\ Cardinality(owing(k)') \in Nat
                     /\ Cardinality(owing(k)') + Bit(Owes(p, k))
                          = Cardinality(owing(k)) + Bit(Owes(p, k)')
<1>1. \A q \in Goroutines \ {p} : pc'[q] = pc[q] /\ stripe'[q] = stripe[q]
  BY DEF Moves, Procs
<1>2. /\ IsFiniteSet(held) /\ IsFiniteSet(running) /\ \A k : IsFiniteSet(owing(k))
  BY SetsFinite
<1>3. /\ IsFiniteSet(held') /\ IsFiniteSet(running') /\ \A k : IsFiniteSet(owing(k)')
  <2>1. /\ held' \subseteq Goroutines /\ running' \subseteq Goroutines
        /\ \A k : owing(k)' \subseteq Goroutines
    BY DEF held, running, owing
  <2>2. QED
    BY <2>1, BarrierAssumption, FS_Subset
<1>4. /\ held \ {p} = held' \ {p} /\ running \ {p} = running' \ {p}
      /\ \A k : owing(k) \ {p} = owing(k)' \ {p}
  BY <1>1 DEF held, running, owing, Owes
<1>5. CASE p \in Goroutines
  <2>1. /\ (p \in held) = Holds(p) /\ (p \in held') = Holds(p)'
        /\ (p \in running) = Runs(p) /\ (p \in running') = Runs(p)'
        /\ \A k : (p \in owing(k)) = Owes(p, k) /\ (p \in owing(k)') = Owes(p, k)'
    BY <1>5 DEF held, running, owing, Holds, Runs, Owes
  <2>2. QED
    BY <1>2, <1>3, <1>4, <2>1, CardDelta
<1>6. CASE p \notin Goroutines
  <2>1. pc[p] \notin gLabels /\ pc'[p] \notin gLabels
    BY <1>6 DEF Control, Procs
  <2>2. /\ (p \in held) = Holds(p) /\ (p \in held') = Holds(p)'
        /\ (p \in running) = Runs(p) /\ (p \in running') = Runs(p)'
        /\ \A k : (p \in owing(k)) = Owes(p, k) /\ (p \in owing(k)') = Owes(p, k)'
    BY <1>6, <2>1 DEF held, running, owing, Holds, Runs, Owes, gLabels
  <2>3. QED
    BY <1>2, <1>3, <1>4, <2>2, CardDelta
<1>7. QED
  BY <1>5, <1>6

\* A sum that begins has all of the counts before it.
LEMMA FreshCovered ==
    ASSUME TypeOK', SumExact', NEW q \in Procs, at'[q] = 0, turns'[q] = 0
    PROVE  Covered(q)'
<1>1. /\ owing(0)' \subseteq held' /\ running' \subseteq held'
      /\ owing(0)' \cap running' = {}
  BY DEF owing, Owes, running, held
<1>2. /\ IsFiniteSet(held') /\ IsFiniteSet(running') /\ IsFiniteSet(owing(0)')
  <2>1. held' \subseteq Goroutines
    BY DEF held
  <2>2. QED
    BY <1>1, <2>1, BarrierAssumption, FS_Subset
<1>3. /\ Cardinality(held') \in Nat /\ Cardinality(running') \in Nat
      /\ Cardinality(owing(0)') \in Nat
  BY <1>2, FS_CardinalityType
<1>4. Cardinality(owing(0)' \cup running') = Cardinality(owing(0)') + Cardinality(running')
  <2>1. Cardinality(owing(0)' \cap running') = 0
    BY <1>1, FS_EmptySet
  <2>2. Cardinality(owing(0)' \cup running')
          = Cardinality(owing(0)') + Cardinality(running') - Cardinality(owing(0)' \cap running')
    BY <1>2, FS_Union
  <2>3. QED
    BY <1>3, <2>1, <2>2
<1>5. Cardinality(owing(0)' \cup running') <= Cardinality(held')
  BY <1>1, <1>2, FS_Subset
<1>6. Above(ioTurns', 0) = queued' + Cardinality(held') /\ queued' \in Nat
  BY AboveSums DEF SumExact, TypeOK
<1>7. 0 + Above(ioTurns', 0) >= queued' + Cardinality(running') + Cardinality(owing(0)')
  BY <1>3, <1>4, <1>5, <1>6
<1>8. QED
  <2>1. owing(at[q])' = owing(0)'
    BY DEF owing, Owes
  <2>2. QED
    BY <1>7, <2>1 DEF Covered, Rest

\* A step of p that counts n on its stripe, and what it has to keep to.
Pays(p, n) ==
    /\ Moves(p) /\ Add(p, n)
    /\ queued' + Bit(Holds(p)') = queued + Bit(Holds(p)) + n
    /\ \A q \in Procs, k \in 0..Stripes : Scanning(q)' /\ at'[q] = k =>
         \/ k = 0 /\ turns'[q] = 0
         \/ /\ Scanning(q) /\ at[q] = k /\ turns'[q] = turns[q]
            /\ queued' + Bit(Runs(p)') + Bit(Owes(p, k)')
                 <= queued + Bit(Runs(p)) + Bit(Owes(p, k))
                      + (IF stripe[p] >= k THEN n ELSE 0)

LEMMA PaysKeeps ==
    ASSUME TypeOK, Control, SumExact, Cover, TypeOK', Control',
           NEW p \in Procs, NEW n \in Int, Pays(p, n)
    PROVE  SumExact' /\ Cover'
<1>1. \A k \in 0..Stripes : /\ Rest(k) \in Int
                            /\ Rest(k)' = Rest(k) + (IF stripe[p] >= k THEN n ELSE 0)
  <2>1. \A k \in 0..Stripes : Rest(k) \in Int
    BY AboveSums DEF Rest, TypeOK
  <2>2. QED
    BY <2>1, RestAdd DEF Pays
<1>2. queued \in Nat /\ queued' \in Nat /\ \A q \in Procs : turns[q] \in Int /\ at'[q] \in 0..Stripes
  BY DEF TypeOK
<1>3. SumExact'
  <2>1. Rest(0) = queued + Cardinality(held) /\ Rest(0) \in Int
    BY AboveSums, BarrierAssumption DEF SumExact, Rest, TypeOK
  <2>2. Rest(0)' = Rest(0) + n
    <3>1. stripe[p] >= 0 /\ 0 \in 0..Stripes
      BY BarrierAssumption DEF TypeOK, Indices
    <3>2. QED
      BY <1>1, <3>1
  <2>3. /\ Cardinality(held) \in Nat /\ Cardinality(held') \in Nat
        /\ Cardinality(held') + Bit(Holds(p)) = Cardinality(held) + Bit(Holds(p)')
    BY CardStep DEF Pays
  <2>4. queued' + Bit(Holds(p)') = queued + Bit(Holds(p)) + n
    BY DEF Pays
  <2>5. Bit(Holds(p)) \in Nat /\ Bit(Holds(p)') \in Nat
    BY DEF Bit
  <2>6. Rest(0)' = queued' + Cardinality(held')
    BY <1>2, <2>1, <2>2, <2>3, <2>4, <2>5
  <2>7. Rest(0)' = (SumBelow(ioTurns)[Stripes])'
    BY AboveSums DEF Rest, TypeOK
  <2>8. QED
    BY <2>6, <2>7 DEF SumExact
<1>4. ASSUME NEW q \in Procs, Scanning(q)' PROVE Covered(q)'
  <2>1. CASE at'[q] = 0 /\ turns'[q] = 0
    BY <1>3, <2>1, FreshCovered
  <2>2. CASE ~(at'[q] = 0 /\ turns'[q] = 0)
    <3>k. PICK k \in 0..Stripes : k = at'[q]
      BY <1>2
    <3>1. /\ Scanning(q) /\ at[q] = k /\ turns'[q] = turns[q]
          /\ queued' + Bit(Runs(p)') + Bit(Owes(p, k)')
               <= queued + Bit(Runs(p)) + Bit(Owes(p, k))
                    + (IF stripe[p] >= k THEN n ELSE 0)
      BY <1>4, <2>2, <3>k DEF Pays
    <3>2. turns[q] + Rest(k) >= queued + Cardinality(running) + Cardinality(owing(k))
      BY <3>1 DEF Cover, Covered
    <3>3. /\ Cardinality(running) \in Nat /\ Cardinality(running') \in Nat
          /\ Cardinality(running') + Bit(Runs(p)) = Cardinality(running) + Bit(Runs(p)')
          /\ Cardinality(owing(k)) \in Nat /\ Cardinality(owing(k)') \in Nat
          /\ Cardinality(owing(k)') + Bit(Owes(p, k)) = Cardinality(owing(k)) + Bit(Owes(p, k)')
      BY CardStep DEF Pays
    <3>4. Rest(k) \in Int /\ Rest(k)' = Rest(k) + (IF stripe[p] >= k THEN n ELSE 0)
      BY <1>1
    <3>5. /\ Bit(Runs(p)) \in Nat /\ Bit(Runs(p)') \in Nat
          /\ Bit(Owes(p, k)) \in Nat /\ Bit(Owes(p, k)') \in Nat
      BY DEF Bit
    <3>6. turns[q] + Rest(k)' >= queued' + Cardinality(running') + Cardinality(owing(k)')
      BY <1>2, <3>1, <3>2, <3>3, <3>4, <3>5
    <3>7. owing(at[q])' = owing(k)' /\ Rest(at[q])' = Rest(k)'
      BY <3>k DEF owing, Owes, Rest
    <3>8. QED
      BY <3>1, <3>6, <3>7 DEF Covered
  <2>3. QED
    BY <2>1, <2>2
<1>5. QED
  BY <1>3, <1>4 DEF Cover





----------------------------------------------------------------------------
(* Every step keeps the invariant.                                         *)

\* A step that counts nothing.
LEMMA AddNothing ==
    ASSUME TypeOK, NEW p \in Procs, UNCHANGED ioTurns
    PROVE  Add(p, 0)
<1>1. stripe[p] \in Indices /\ ioTurns \in [Indices -> Int]
  BY DEF TypeOK
<1>2. ioTurns[stripe[p]] + 0 = ioTurns[stripe[p]]
  BY <1>1
<1>3. QED
  BY <1>1, <1>2 DEF Add

\* A sum of zero, read to the end: every turn has ended.
LEMMA ZeroJoins ==
    ASSUME TypeOK, Cover, NEW p \in Procs, Scanning(p), at[p] = Stripes, turns[p] = 0
    PROVE  running = {} /\ queued = 0
<1>1. Rest(Stripes) = 0
  BY AboveSums DEF Rest, TypeOK
<1>2. 0 + 0 >= queued + Cardinality(running) + Cardinality(owing(Stripes))
  BY <1>1 DEF Cover, Covered
<1>3. /\ queued \in Nat /\ Cardinality(running) \in Nat
      /\ Cardinality(owing(Stripes)) \in Nat
  BY SetsFinite, FS_CardinalityType DEF TypeOK
<1>4. queued = 0 /\ Cardinality(running) = 0
  BY <1>2, <1>3
<1>5. QED
  BY <1>4, SetsFinite, FS_EmptySet

\* A turn is asked for, counted, submitted or refused.
LEMMA TurnKeeps ==
    ASSUME IInv, NEW p \in Procs,
           Enter(p) \/ AcquireIO(p) \/ CheckStop(p)
    PROVE  IInv'
<1> USE DEF At, Go, asked, flags, scan
<1>i. TypeOK /\ Control /\ SumExact /\ Cover /\ Quiet
  BY DEF IInv
<1>1. CASE Enter(p)
  <2>1. TypeOK'
    BY <1>i, <1>1, BarrierAssumption DEF Enter, TypeOK, Labels, Procs, Control
  <2>2. Control'
    BY <1>i, <1>1 DEF Enter, TypeOK, Labels, Procs, Control, gLabels
  <2>3. Moves(p) /\ Add(p, 0)
    BY <1>i, <1>1, AddNothing DEF Enter, Moves, TypeOK
  <2>4. queued' + Bit(Holds(p)') = queued + Bit(Holds(p)) + 0
    BY <1>i, <1>1 DEF Enter, TypeOK, Bit, Holds
  <2>5. ASSUME NEW q \in Procs, NEW k \in 0..Stripes, Scanning(q)', at'[q] = k,
               ~(k = 0 /\ turns'[q] = 0)
        PROVE  /\ Scanning(q) /\ at[q] = k /\ turns'[q] = turns[q]
               /\ queued' + Bit(Runs(p)') + Bit(Owes(p, k)')
                    <= queued + Bit(Runs(p)) + Bit(Owes(p, k))
                         + (IF stripe[p] >= k THEN 0 ELSE 0)
    <3>1. Scanning(q) /\ at[q] = k /\ turns'[q] = turns[q]
      BY <1>i, <1>1, <2>5 DEF Enter, TypeOK, Scanning, Control, Procs, gLabels
    <3>2. ioStop /\ (~ioIdle \/ q = Stopper)
      BY <1>i, <3>1 DEF Scanning, Control, Procs, gLabels
    <3>3. stripe[p] \in Int /\ queued \in Nat /\ stripe' = stripe
      BY <1>i, <1>1, BarrierAssumption DEF Enter, TypeOK, Indices
    <3>4. queued' + Bit(Runs(p)') + Bit(Owes(p, k)')
            <= queued + Bit(Runs(p)) + Bit(Owes(p, k))
                 + (IF stripe[p] >= k THEN 0 ELSE 0)
      BY <1>i, <1>1, <3>1, <3>2, <3>3 DEF Enter, TypeOK, Scanning, Control, Bit, Runs, Owes
    <3>5. QED
      BY <3>1, <3>4
  <2>6. SumExact' /\ Cover'
    <3>1. Pays(p, 0) /\ 0 \in Int
      BY <2>3, <2>4, <2>5 DEF Pays
    <3>2. QED
      BY <1>i, <2>1, <2>2, <3>1, PaysKeeps
  <2>7. Quiet'
    BY <1>i, <1>1, Zenon DEF Enter, TypeOK, Control, Quiet, running, Procs, gLabels
  <2>8. QED
    BY <2>1, <2>2, <2>6, <2>7 DEF IInv
<1>2. CASE AcquireIO(p)
  <2>1. TypeOK'
    BY <1>i, <1>2, BarrierAssumption DEF AcquireIO, Add, TypeOK, Labels, Procs, Control
  <2>2. Control'
    BY <1>i, <1>2 DEF AcquireIO, Add, TypeOK, Labels, Procs, Control, gLabels
  <2>3. Moves(p) /\ Add(p, 1)
    BY <1>i, <1>2 DEF AcquireIO, Add, Moves, TypeOK
  <2>4. queued' + Bit(Holds(p)') = queued + Bit(Holds(p)) + 1
    BY <1>i, <1>2 DEF AcquireIO, Add, TypeOK, Bit, Holds
  <2>5. ASSUME NEW q \in Procs, NEW k \in 0..Stripes, Scanning(q)', at'[q] = k,
               ~(k = 0 /\ turns'[q] = 0)
        PROVE  /\ Scanning(q) /\ at[q] = k /\ turns'[q] = turns[q]
               /\ queued' + Bit(Runs(p)') + Bit(Owes(p, k)')
                    <= queued + Bit(Runs(p)) + Bit(Owes(p, k))
                         + (IF stripe[p] >= k THEN 1 ELSE 0)
    <3>1. Scanning(q) /\ at[q] = k /\ turns'[q] = turns[q]
      BY <1>i, <1>2, <2>5 DEF AcquireIO, Add, TypeOK, Scanning, Control, Procs, gLabels
    <3>2. ioStop /\ (~ioIdle \/ q = Stopper)
      BY <1>i, <3>1 DEF Scanning, Control, Procs, gLabels
    <3>3. stripe[p] \in Int /\ queued \in Nat /\ stripe' = stripe
      BY <1>i, <1>2, BarrierAssumption DEF AcquireIO, Add, TypeOK, Indices
    <3>4. queued' + Bit(Runs(p)') + Bit(Owes(p, k)')
            <= queued + Bit(Runs(p)) + Bit(Owes(p, k))
                 + (IF stripe[p] >= k THEN 1 ELSE 0)
      BY <1>i, <1>2, <3>1, <3>2, <3>3 DEF AcquireIO, Add, TypeOK, Scanning, Control, Bit, Runs, Owes
    <3>5. QED
      BY <3>1, <3>4
  <2>6. SumExact' /\ Cover'
    <3>1. Pays(p, 1) /\ 1 \in Int
      BY <2>3, <2>4, <2>5 DEF Pays
    <3>2. QED
      BY <1>i, <2>1, <2>2, <3>1, PaysKeeps
  <2>7. Quiet'
    BY <1>i, <1>2, Zenon DEF AcquireIO, Add, TypeOK, Control, Quiet, running, Procs, gLabels
  <2>8. QED
    BY <2>1, <2>2, <2>6, <2>7 DEF IInv
<1>3. CASE CheckStop(p)
  <2>1. TypeOK'
    BY <1>i, <1>3, BarrierAssumption DEF CheckStop, TypeOK, Labels, Procs, Control
  <2>2. Control'
    BY <1>i, <1>3 DEF CheckStop, TypeOK, Labels, Procs, Control, gLabels
  <2>3. Moves(p) /\ Add(p, 0)
    BY <1>i, <1>3, AddNothing DEF CheckStop, Moves, TypeOK
  <2>4. queued' + Bit(Holds(p)') = queued + Bit(Holds(p)) + 0
    BY <1>i, <1>3 DEF CheckStop, TypeOK, Bit, Holds
  <2>5. ASSUME NEW q \in Procs, NEW k \in 0..Stripes, Scanning(q)', at'[q] = k,
               ~(k = 0 /\ turns'[q] = 0)
        PROVE  /\ Scanning(q) /\ at[q] = k /\ turns'[q] = turns[q]
               /\ queued' + Bit(Runs(p)') + Bit(Owes(p, k)')
                    <= queued + Bit(Runs(p)) + Bit(Owes(p, k))
                         + (IF stripe[p] >= k THEN 0 ELSE 0)
    <3>1. Scanning(q) /\ at[q] = k /\ turns'[q] = turns[q]
      BY <1>i, <1>3, <2>5 DEF CheckStop, TypeOK, Scanning, Control, Procs, gLabels
    <3>2. ioStop /\ (~ioIdle \/ q = Stopper)
      BY <1>i, <3>1 DEF Scanning, Control, Procs, gLabels
    <3>3. stripe[p] \in Int /\ queued \in Nat /\ stripe' = stripe
      BY <1>i, <1>3, BarrierAssumption DEF CheckStop, TypeOK, Indices
    <3>4. queued' + Bit(Runs(p)') + Bit(Owes(p, k)')
            <= queued + Bit(Runs(p)) + Bit(Owes(p, k))
                 + (IF stripe[p] >= k THEN 0 ELSE 0)
      BY <1>i, <1>3, <3>1, <3>2, <3>3 DEF CheckStop, TypeOK, Scanning, Control, Bit, Runs, Owes
    <3>5. QED
      BY <3>1, <3>4
  <2>6. SumExact' /\ Cover'
    <3>1. Pays(p, 0) /\ 0 \in Int
      BY <2>3, <2>4, <2>5 DEF Pays
    <3>2. QED
      BY <1>i, <2>1, <2>2, <3>1, PaysKeeps
  <2>7. Quiet'
    BY <1>i, <1>3, Zenon DEF CheckStop, TypeOK, Control, Quiet, running, Procs, gLabels
  <2>8. QED
    BY <2>1, <2>2, <2>6, <2>7 DEF IInv
<1>4. QED
  BY <1>1, <1>2, <1>3

\* A turn begins, ends, goes on in another or schedules a close callback.
LEMMA RunKeeps ==
    ASSUME IInv, NEW p \in Procs,
           Begin(p) \/ End(p) \/ HandOn(p) \/ LateCloseIO(p)
    PROVE  IInv'
<1> USE DEF At, Go, asked, flags, scan
<1>i. TypeOK /\ Control /\ SumExact /\ Cover /\ Quiet
  BY DEF IInv
<1>1. CASE Begin(p)
  <2>1. TypeOK'
    BY <1>i, <1>1, BarrierAssumption DEF Begin, TypeOK, Labels, Procs, Control
  <2>2. Control'
    BY <1>i, <1>1 DEF Begin, TypeOK, Labels, Procs, Control, gLabels
  <2>3. Moves(p) /\ Add(p, 0)
    BY <1>i, <1>1, AddNothing DEF Begin, Moves, TypeOK
  <2>4. queued' + Bit(Holds(p)') = queued + Bit(Holds(p)) + 0
    BY <1>i, <1>1 DEF Begin, TypeOK, Bit, Holds
  <2>5. ASSUME NEW q \in Procs, NEW k \in 0..Stripes, Scanning(q)', at'[q] = k,
               ~(k = 0 /\ turns'[q] = 0)
        PROVE  /\ Scanning(q) /\ at[q] = k /\ turns'[q] = turns[q]
               /\ queued' + Bit(Runs(p)') + Bit(Owes(p, k)')
                    <= queued + Bit(Runs(p)) + Bit(Owes(p, k))
                         + (IF stripe[p] >= k THEN 0 ELSE 0)
    <3>1. Scanning(q) /\ at[q] = k /\ turns'[q] = turns[q]
      BY <1>i, <1>1, <2>5 DEF Begin, TypeOK, Scanning, Control, Procs, gLabels
    <3>2. ioStop /\ (~ioIdle \/ q = Stopper)
      BY <1>i, <3>1 DEF Scanning, Control, Procs, gLabels
    <3>3. stripe[p] \in Int /\ queued \in Nat /\ stripe' = stripe
      BY <1>i, <1>1, BarrierAssumption DEF Begin, TypeOK, Indices
    <3>4. queued' + Bit(Runs(p)') + Bit(Owes(p, k)')
            <= queued + Bit(Runs(p)) + Bit(Owes(p, k))
                 + (IF stripe[p] >= k THEN 0 ELSE 0)
      BY <1>i, <1>1, <3>1, <3>2, <3>3 DEF Begin, TypeOK, Scanning, Control, Bit, Runs, Owes
    <3>5. QED
      BY <3>1, <3>4
  <2>6. SumExact' /\ Cover'
    <3>1. Pays(p, 0) /\ 0 \in Int
      BY <2>3, <2>4, <2>5 DEF Pays
    <3>2. QED
      BY <1>i, <2>1, <2>2, <3>1, PaysKeeps
  <2>7. Quiet'
    BY <1>i, <1>1 DEF Begin, TypeOK, Control, Quiet, running, Procs, gLabels
  <2>8. QED
    BY <2>1, <2>2, <2>6, <2>7 DEF IInv
<1>2. CASE End(p)
  <2>1. TypeOK'
    BY <1>i, <1>2, BarrierAssumption DEF End, TypeOK, Labels, Procs, Control
  <2>2. Control'
    BY <1>i, <1>2 DEF End, TypeOK, Labels, Procs, Control, gLabels
  <2>3. Moves(p) /\ Add(p, 0)
    BY <1>i, <1>2, AddNothing DEF End, Moves, TypeOK
  <2>4. queued' + Bit(Holds(p)') = queued + Bit(Holds(p)) + 0
    BY <1>i, <1>2 DEF End, TypeOK, Bit, Holds
  <2>5. ASSUME NEW q \in Procs, NEW k \in 0..Stripes, Scanning(q)', at'[q] = k,
               ~(k = 0 /\ turns'[q] = 0)
        PROVE  /\ Scanning(q) /\ at[q] = k /\ turns'[q] = turns[q]
               /\ queued' + Bit(Runs(p)') + Bit(Owes(p, k)')
                    <= queued + Bit(Runs(p)) + Bit(Owes(p, k))
                         + (IF stripe[p] >= k THEN 0 ELSE 0)
    <3>1. Scanning(q) /\ at[q] = k /\ turns'[q] = turns[q]
      BY <1>i, <1>2, <2>5 DEF End, TypeOK, Scanning, Control, Procs, gLabels
    <3>2. ioStop /\ (~ioIdle \/ q = Stopper)
      BY <1>i, <3>1 DEF Scanning, Control, Procs, gLabels
    <3>3. stripe[p] \in Int /\ queued \in Nat /\ stripe' = stripe
      BY <1>i, <1>2, BarrierAssumption DEF End, TypeOK, Indices
    <3>4. queued' + Bit(Runs(p)') + Bit(Owes(p, k)')
            <= queued + Bit(Runs(p)) + Bit(Owes(p, k))
                 + (IF stripe[p] >= k THEN 0 ELSE 0)
      BY <1>i, <1>2, <3>1, <3>2, <3>3 DEF End, TypeOK, Scanning, Control, Bit, Runs, Owes
    <3>5. QED
      BY <3>1, <3>4
  <2>6. SumExact' /\ Cover'
    <3>1. Pays(p, 0) /\ 0 \in Int
      BY <2>3, <2>4, <2>5 DEF Pays
    <3>2. QED
      BY <1>i, <2>1, <2>2, <3>1, PaysKeeps
  <2>7. Quiet'
    BY <1>i, <1>2, Zenon DEF End, TypeOK, Control, Quiet, running, Procs, gLabels
  <2>8. QED
    BY <2>1, <2>2, <2>6, <2>7 DEF IInv
<1>3. CASE HandOn(p)
  <2>1. TypeOK'
    BY <1>i, <1>3, BarrierAssumption DEF HandOn, TypeOK, Labels, Procs, Control
  <2>2. Control'
    BY <1>i, <1>3 DEF HandOn, TypeOK, Labels, Procs, Control, gLabels
  <2>3. Moves(p) /\ Add(p, 0)
    BY <1>i, <1>3, AddNothing DEF HandOn, Moves, TypeOK
  <2>4. queued' + Bit(Holds(p)') = queued + Bit(Holds(p)) + 0
    BY <1>i, <1>3 DEF HandOn, TypeOK, Bit, Holds
  <2>5. ASSUME NEW q \in Procs, NEW k \in 0..Stripes, Scanning(q)', at'[q] = k,
               ~(k = 0 /\ turns'[q] = 0)
        PROVE  /\ Scanning(q) /\ at[q] = k /\ turns'[q] = turns[q]
               /\ queued' + Bit(Runs(p)') + Bit(Owes(p, k)')
                    <= queued + Bit(Runs(p)) + Bit(Owes(p, k))
                         + (IF stripe[p] >= k THEN 0 ELSE 0)
    <3>1. Scanning(q) /\ at[q] = k /\ turns'[q] = turns[q]
      BY <1>i, <1>3, <2>5 DEF HandOn, TypeOK, Scanning, Control, Procs, gLabels
    <3>2. ioStop /\ (~ioIdle \/ q = Stopper)
      BY <1>i, <3>1 DEF Scanning, Control, Procs, gLabels
    <3>3. stripe[p] \in Int /\ queued \in Nat /\ stripe' = stripe
      BY <1>i, <1>3, BarrierAssumption DEF HandOn, TypeOK, Indices
    <3>4. queued' + Bit(Runs(p)') + Bit(Owes(p, k)')
            <= queued + Bit(Runs(p)) + Bit(Owes(p, k))
                 + (IF stripe[p] >= k THEN 0 ELSE 0)
      BY <1>i, <1>3, <3>1, <3>2, <3>3 DEF HandOn, TypeOK, Scanning, Control, Bit, Runs, Owes
    <3>5. QED
      BY <3>1, <3>4
  <2>6. SumExact' /\ Cover'
    <3>1. Pays(p, 0) /\ 0 \in Int
      BY <2>3, <2>4, <2>5 DEF Pays
    <3>2. QED
      BY <1>i, <2>1, <2>2, <3>1, PaysKeeps
  <2>7. Quiet'
    BY <1>i, <1>3, Zenon DEF HandOn, TypeOK, Control, Quiet, running, Procs, gLabels
  <2>8. QED
    BY <2>1, <2>2, <2>6, <2>7 DEF IInv
<1>4. CASE LateCloseIO(p)
  <2>1. TypeOK'
    BY <1>i, <1>4, BarrierAssumption DEF LateCloseIO, Add, TypeOK, Labels, Procs, Control
  <2>2. Control'
    BY <1>i, <1>4 DEF LateCloseIO, Add, TypeOK, Labels, Procs, Control, gLabels
  <2>3. Moves(p) /\ Add(p, 1)
    BY <1>i, <1>4 DEF LateCloseIO, Add, Moves, TypeOK
  <2>4. queued' + Bit(Holds(p)') = queued + Bit(Holds(p)) + 1
    BY <1>i, <1>4 DEF LateCloseIO, Add, TypeOK, Bit, Holds
  <2>5. ASSUME NEW q \in Procs, NEW k \in 0..Stripes, Scanning(q)', at'[q] = k,
               ~(k = 0 /\ turns'[q] = 0)
        PROVE  /\ Scanning(q) /\ at[q] = k /\ turns'[q] = turns[q]
               /\ queued' + Bit(Runs(p)') + Bit(Owes(p, k)')
                    <= queued + Bit(Runs(p)) + Bit(Owes(p, k))
                         + (IF stripe[p] >= k THEN 1 ELSE 0)
    <3>1. Scanning(q) /\ at[q] = k /\ turns'[q] = turns[q]
      BY <1>i, <1>4, <2>5 DEF LateCloseIO, Add, TypeOK, Scanning, Control, Procs, gLabels
    <3>2. ioStop /\ (~ioIdle \/ q = Stopper)
      BY <1>i, <3>1 DEF Scanning, Control, Procs, gLabels
    <3>3. stripe[p] \in Int /\ queued \in Nat /\ stripe' = stripe
      BY <1>i, <1>4, BarrierAssumption DEF LateCloseIO, Add, TypeOK, Indices
    <3>4. queued' + Bit(Runs(p)') + Bit(Owes(p, k)')
            <= queued + Bit(Runs(p)) + Bit(Owes(p, k))
                 + (IF stripe[p] >= k THEN 1 ELSE 0)
      BY <1>i, <1>4, <3>1, <3>2, <3>3 DEF LateCloseIO, Add, TypeOK, Scanning, Control, Bit, Runs, Owes
    <3>5. QED
      BY <3>1, <3>4
  <2>6. SumExact' /\ Cover'
    <3>1. Pays(p, 1) /\ 1 \in Int
      BY <2>3, <2>4, <2>5 DEF Pays
    <3>2. QED
      BY <1>i, <2>1, <2>2, <3>1, PaysKeeps
  <2>7. Quiet'
    BY <1>i, <1>4, Zenon DEF LateCloseIO, Add, TypeOK, Control, Quiet, running, Procs, gLabels
  <2>8. QED
    BY <2>1, <2>2, <2>6, <2>7 DEF IInv
<1>5. QED
  BY <1>1, <1>2, <1>3, <1>4

\* A count is given back, and summed up.
LEMMA ReleaseKeeps ==
    ASSUME IInv, NEW p \in Procs,
           ReleaseIO(p) \/ ReleaseLook(p) \/ ReleaseWake(p)
    PROVE  IInv'
<1> USE DEF At, Go, asked, flags, scan
<1>i. TypeOK /\ Control /\ SumExact /\ Cover /\ Quiet
  BY DEF IInv
<1>1. CASE ReleaseIO(p)
  <2>1. TypeOK'
    BY <1>i, <1>1, BarrierAssumption DEF ReleaseIO, Add, TypeOK, Labels, Procs, Control
  <2>2. Control'
    BY <1>i, <1>1 DEF ReleaseIO, Add, TypeOK, Labels, Procs, Control, gLabels
  <2>3. Moves(p) /\ Add(p, -1)
    BY <1>i, <1>1 DEF ReleaseIO, Add, Moves, TypeOK
  <2>4. queued' + Bit(Holds(p)') = queued + Bit(Holds(p)) + -1
    BY <1>i, <1>1 DEF ReleaseIO, Add, TypeOK, Bit, Holds
  <2>5. ASSUME NEW q \in Procs, NEW k \in 0..Stripes, Scanning(q)', at'[q] = k,
               ~(k = 0 /\ turns'[q] = 0)
        PROVE  /\ Scanning(q) /\ at[q] = k /\ turns'[q] = turns[q]
               /\ queued' + Bit(Runs(p)') + Bit(Owes(p, k)')
                    <= queued + Bit(Runs(p)) + Bit(Owes(p, k))
                         + (IF stripe[p] >= k THEN -1 ELSE 0)
    <3>1. Scanning(q) /\ at[q] = k /\ turns'[q] = turns[q]
      BY <1>i, <1>1, <2>5 DEF ReleaseIO, Add, TypeOK, Scanning, Control, Procs, gLabels
    <3>2. ioStop /\ (~ioIdle \/ q = Stopper)
      BY <1>i, <3>1 DEF Scanning, Control, Procs, gLabels
    <3>3. stripe[p] \in Int /\ queued \in Nat /\ stripe' = stripe
      BY <1>i, <1>1, BarrierAssumption DEF ReleaseIO, Add, TypeOK, Indices
    <3>4. queued' + Bit(Runs(p)') + Bit(Owes(p, k)')
            <= queued + Bit(Runs(p)) + Bit(Owes(p, k))
                 + (IF stripe[p] >= k THEN -1 ELSE 0)
      BY <1>i, <1>1, <3>1, <3>2, <3>3 DEF ReleaseIO, Add, TypeOK, Scanning, Control, Bit, Runs, Owes
    <3>5. QED
      BY <3>1, <3>4
  <2>6. SumExact' /\ Cover'
    <3>1. Pays(p, -1) /\ -1 \in Int
      BY <2>3, <2>4, <2>5 DEF Pays
    <3>2. QED
      BY <1>i, <2>1, <2>2, <3>1, PaysKeeps
  <2>7. Quiet'
    BY <1>i, <1>1, Zenon DEF ReleaseIO, Add, TypeOK, Control, Quiet, running, Procs, gLabels
  <2>8. QED
    BY <2>1, <2>2, <2>6, <2>7 DEF IInv
<1>2. CASE ReleaseLook(p)
  <2>1. TypeOK'
    BY <1>i, <1>2, BarrierAssumption DEF ReleaseLook, Scan, TypeOK, Labels, Procs, Control
  <2>2. Control'
    BY <1>i, <1>2 DEF ReleaseLook, Scan, TypeOK, Labels, Procs, Control, gLabels
  <2>3. Moves(p) /\ Add(p, 0)
    BY <1>i, <1>2, AddNothing DEF ReleaseLook, Scan, Moves, TypeOK
  <2>4. queued' + Bit(Holds(p)') = queued + Bit(Holds(p)) + 0
    BY <1>i, <1>2 DEF ReleaseLook, Scan, TypeOK, Bit, Holds
  <2>5. ASSUME NEW q \in Procs, NEW k \in 0..Stripes, Scanning(q)', at'[q] = k,
               ~(k = 0 /\ turns'[q] = 0)
        PROVE  /\ Scanning(q) /\ at[q] = k /\ turns'[q] = turns[q]
               /\ queued' + Bit(Runs(p)') + Bit(Owes(p, k)')
                    <= queued + Bit(Runs(p)) + Bit(Owes(p, k))
                         + (IF stripe[p] >= k THEN 0 ELSE 0)
    <3>1. Scanning(q) /\ at[q] = k /\ turns'[q] = turns[q]
      BY <1>i, <1>2, <2>5 DEF ReleaseLook, Scan, TypeOK, Scanning, Control, Procs, gLabels
    <3>2. ioStop /\ (~ioIdle \/ q = Stopper)
      BY <1>i, <3>1 DEF Scanning, Control, Procs, gLabels
    <3>3. stripe[p] \in Int /\ queued \in Nat /\ stripe' = stripe
      BY <1>i, <1>2, BarrierAssumption DEF ReleaseLook, Scan, TypeOK, Indices
    <3>4. queued' + Bit(Runs(p)') + Bit(Owes(p, k)')
            <= queued + Bit(Runs(p)) + Bit(Owes(p, k))
                 + (IF stripe[p] >= k THEN 0 ELSE 0)
      BY <1>i, <1>2, <3>1, <3>2, <3>3 DEF ReleaseLook, Scan, TypeOK, Scanning, Control, Bit, Runs, Owes
    <3>5. QED
      BY <3>1, <3>4
  <2>6. SumExact' /\ Cover'
    <3>1. Pays(p, 0) /\ 0 \in Int
      BY <2>3, <2>4, <2>5 DEF Pays
    <3>2. QED
      BY <1>i, <2>1, <2>2, <3>1, PaysKeeps
  <2>7. Quiet'
    BY <1>i, <1>2, Zenon DEF ReleaseLook, Scan, TypeOK, Control, Quiet, running, Procs, gLabels
  <2>8. QED
    BY <2>1, <2>2, <2>6, <2>7 DEF IInv
<1>3. CASE ReleaseWake(p)
  <2>1. TypeOK'
    BY <1>i, <1>3, BarrierAssumption DEF ReleaseWake, Scan, TypeOK, Labels, Procs, Control
  <2>2. Control'
    BY <1>i, <1>3 DEF ReleaseWake, Scan, TypeOK, Labels, Procs, Control, gLabels
  <2>3. Moves(p) /\ Add(p, 0)
    BY <1>i, <1>3, AddNothing DEF ReleaseWake, Scan, Moves, TypeOK
  <2>4. queued' + Bit(Holds(p)') = queued + Bit(Holds(p)) + 0
    BY <1>i, <1>3 DEF ReleaseWake, Scan, TypeOK, Bit, Holds
  <2>5. ASSUME NEW q \in Procs, NEW k \in 0..Stripes, Scanning(q)', at'[q] = k,
               ~(k = 0 /\ turns'[q] = 0)
        PROVE  /\ Scanning(q) /\ at[q] = k /\ turns'[q] = turns[q]
               /\ queued' + Bit(Runs(p)') + Bit(Owes(p, k)')
                    <= queued + Bit(Runs(p)) + Bit(Owes(p, k))
                         + (IF stripe[p] >= k THEN 0 ELSE 0)
    <3>1. Scanning(q) /\ at[q] = k /\ turns'[q] = turns[q]
      BY <1>i, <1>3, <2>5 DEF ReleaseWake, Scan, TypeOK, Scanning, Control, Procs, gLabels
    <3>2. ioStop /\ (~ioIdle \/ q = Stopper)
      BY <1>i, <3>1 DEF Scanning, Control, Procs, gLabels
    <3>3. stripe[p] \in Int /\ queued \in Nat /\ stripe' = stripe
      BY <1>i, <1>3, BarrierAssumption DEF ReleaseWake, Scan, TypeOK, Indices
    <3>4. queued' + Bit(Runs(p)') + Bit(Owes(p, k)')
            <= queued + Bit(Runs(p)) + Bit(Owes(p, k))
                 + (IF stripe[p] >= k THEN 0 ELSE 0)
      <4>1. queued' = queued /\ ~Runs(p)' /\ ~Owes(p, k)'
        BY <1>i, <1>3, Zenon DEF ReleaseWake, Scan, Go, TypeOK, Runs, Owes
      <4>2. QED
        BY <3>3, <4>1 DEF Bit
    <3>5. QED
      BY <3>1, <3>4
  <2>6. SumExact' /\ Cover'
    <3>1. Pays(p, 0) /\ 0 \in Int
      BY <2>3, <2>4, <2>5 DEF Pays
    <3>2. QED
      BY <1>i, <2>1, <2>2, <3>1, PaysKeeps
  <2>7. Scanning(p) /\ turns[p] = 0 => running = {} /\ queued = 0
    BY <1>i, <1>3, ZeroJoins, Zenon DEF ReleaseWake
  <2>8. Quiet'
    BY <1>i, <1>3, <2>7, Zenon DEF ReleaseWake, Scan, TypeOK, Control, Quiet, Scanning, running, Procs, gLabels
  <2>9. QED
    BY <2>1, <2>2, <2>6, <2>8 DEF IInv
<1>4. QED
  BY <1>1, <1>2, <1>3

\* The shutdown waits for the turns.
LEMMA StopKeeps ==
    ASSUME IInv, NEW p \in Procs,
           Shutdown(p) \/ StopIO(p) \/ StopSum(p) \/ Joined(p)
    PROVE  IInv'
<1> USE DEF At, Go, asked, flags, scan
<1>i. TypeOK /\ Control /\ SumExact /\ Cover /\ Quiet
  BY DEF IInv
<1>1. CASE Shutdown(p)
  <2>1. TypeOK'
    BY <1>i, <1>1, BarrierAssumption DEF Shutdown, TypeOK, Labels, Procs, Control
  <2>2. Control'
    BY <1>i, <1>1 DEF Shutdown, TypeOK, Labels, Procs, Control, gLabels
  <2>3. Moves(p) /\ Add(p, 0)
    BY <1>i, <1>1, AddNothing DEF Shutdown, Moves, TypeOK
  <2>4. queued' + Bit(Holds(p)') = queued + Bit(Holds(p)) + 0
    BY <1>i, <1>1 DEF Shutdown, TypeOK, Bit, Holds
  <2>5. ASSUME NEW q \in Procs, NEW k \in 0..Stripes, Scanning(q)', at'[q] = k,
               ~(k = 0 /\ turns'[q] = 0)
        PROVE  /\ Scanning(q) /\ at[q] = k /\ turns'[q] = turns[q]
               /\ queued' + Bit(Runs(p)') + Bit(Owes(p, k)')
                    <= queued + Bit(Runs(p)) + Bit(Owes(p, k))
                         + (IF stripe[p] >= k THEN 0 ELSE 0)
    <3>1. Scanning(q) /\ at[q] = k /\ turns'[q] = turns[q]
      BY <1>i, <1>1, <2>5 DEF Shutdown, TypeOK, Scanning, Control, Procs, gLabels
    <3>2. ioStop /\ (~ioIdle \/ q = Stopper)
      BY <1>i, <3>1 DEF Scanning, Control, Procs, gLabels
    <3>3. stripe[p] \in Int /\ queued \in Nat /\ stripe' = stripe
      BY <1>i, <1>1, BarrierAssumption DEF Shutdown, TypeOK, Indices
    <3>4. queued' + Bit(Runs(p)') + Bit(Owes(p, k)')
            <= queued + Bit(Runs(p)) + Bit(Owes(p, k))
                 + (IF stripe[p] >= k THEN 0 ELSE 0)
      BY <1>i, <1>1, <3>1, <3>2, <3>3 DEF Shutdown, TypeOK, Scanning, Control, Bit, Runs, Owes
    <3>5. QED
      BY <3>1, <3>4
  <2>6. SumExact' /\ Cover'
    <3>1. Pays(p, 0) /\ 0 \in Int
      BY <2>3, <2>4, <2>5 DEF Pays
    <3>2. QED
      BY <1>i, <2>1, <2>2, <3>1, PaysKeeps
  <2>7. Quiet'
    BY <1>i, <1>1, Zenon DEF Shutdown, TypeOK, Control, Quiet, running, Procs, gLabels
  <2>8. QED
    BY <2>1, <2>2, <2>6, <2>7 DEF IInv
<1>2. CASE StopIO(p)
  <2>1. TypeOK'
    BY <1>i, <1>2, BarrierAssumption DEF StopIO, Scan, TypeOK, Labels, Procs, Control
  <2>2. Control'
    BY <1>i, <1>2 DEF StopIO, Scan, TypeOK, Labels, Procs, Control, gLabels
  <2>3. Moves(p) /\ Add(p, 0)
    BY <1>i, <1>2, AddNothing DEF StopIO, Scan, Moves, TypeOK
  <2>4. queued' + Bit(Holds(p)') = queued + Bit(Holds(p)) + 0
    BY <1>i, <1>2 DEF StopIO, Scan, TypeOK, Bit, Holds
  <2>5. ASSUME NEW q \in Procs, NEW k \in 0..Stripes, Scanning(q)', at'[q] = k,
               ~(k = 0 /\ turns'[q] = 0)
        PROVE  /\ Scanning(q) /\ at[q] = k /\ turns'[q] = turns[q]
               /\ queued' + Bit(Runs(p)') + Bit(Owes(p, k)')
                    <= queued + Bit(Runs(p)) + Bit(Owes(p, k))
                         + (IF stripe[p] >= k THEN 0 ELSE 0)
    <3>1. Scanning(q) /\ at[q] = k /\ turns'[q] = turns[q]
      BY <1>i, <1>2, <2>5 DEF StopIO, Scan, TypeOK, Scanning, Control, Procs, gLabels
    <3>2. ioStop /\ (~ioIdle \/ q = Stopper)
      BY <1>i, <3>1 DEF Scanning, Control, Procs, gLabels
    <3>3. stripe[p] \in Int /\ queued \in Nat /\ stripe' = stripe
      BY <1>i, <1>2, BarrierAssumption DEF StopIO, Scan, TypeOK, Indices
    <3>4. queued' + Bit(Runs(p)') + Bit(Owes(p, k)')
            <= queued + Bit(Runs(p)) + Bit(Owes(p, k))
                 + (IF stripe[p] >= k THEN 0 ELSE 0)
      BY <1>i, <1>2, <3>1, <3>2, <3>3 DEF StopIO, Scan, TypeOK, Scanning, Control, Bit, Runs, Owes
    <3>5. QED
      BY <3>1, <3>4
  <2>6. SumExact' /\ Cover'
    <3>1. Pays(p, 0) /\ 0 \in Int
      BY <2>3, <2>4, <2>5 DEF Pays
    <3>2. QED
      BY <1>i, <2>1, <2>2, <3>1, PaysKeeps
  <2>7. Quiet'
    BY <1>i, <1>2, Zenon DEF StopIO, Scan, TypeOK, Control, Quiet, running, Procs, gLabels
  <2>8. QED
    BY <2>1, <2>2, <2>6, <2>7 DEF IInv
<1>3. CASE StopSum(p)
  <2>1. TypeOK'
    BY <1>i, <1>3, BarrierAssumption DEF StopSum, Scan, TypeOK, Labels, Procs, Control
  <2>2. Control'
    BY <1>i, <1>3 DEF StopSum, Scan, TypeOK, Labels, Procs, Control, gLabels
  <2>3. Moves(p) /\ Add(p, 0)
    BY <1>i, <1>3, AddNothing DEF StopSum, Scan, Moves, TypeOK
  <2>4. queued' + Bit(Holds(p)') = queued + Bit(Holds(p)) + 0
    BY <1>i, <1>3 DEF StopSum, Scan, TypeOK, Bit, Holds
  <2>5. ASSUME NEW q \in Procs, NEW k \in 0..Stripes, Scanning(q)', at'[q] = k,
               ~(k = 0 /\ turns'[q] = 0)
        PROVE  /\ Scanning(q) /\ at[q] = k /\ turns'[q] = turns[q]
               /\ queued' + Bit(Runs(p)') + Bit(Owes(p, k)')
                    <= queued + Bit(Runs(p)) + Bit(Owes(p, k))
                         + (IF stripe[p] >= k THEN 0 ELSE 0)
    <3>1. Scanning(q) /\ at[q] = k /\ turns'[q] = turns[q]
      BY <1>i, <1>3, <2>5 DEF StopSum, Scan, TypeOK, Scanning, Control, Procs, gLabels
    <3>2. ioStop /\ (~ioIdle \/ q = Stopper)
      BY <1>i, <3>1 DEF Scanning, Control, Procs, gLabels
    <3>3. stripe[p] \in Int /\ queued \in Nat /\ stripe' = stripe
      BY <1>i, <1>3, BarrierAssumption DEF StopSum, Scan, TypeOK, Indices
    <3>4. queued' + Bit(Runs(p)') + Bit(Owes(p, k)')
            <= queued + Bit(Runs(p)) + Bit(Owes(p, k))
                 + (IF stripe[p] >= k THEN 0 ELSE 0)
      <4>1. queued' = queued /\ ~Runs(p)' /\ ~Owes(p, k)'
        BY <1>i, <1>3, Zenon DEF StopSum, Scan, Go, TypeOK, Runs, Owes
      <4>2. QED
        BY <3>3, <4>1 DEF Bit
    <3>5. QED
      BY <3>1, <3>4
  <2>6. SumExact' /\ Cover'
    <3>1. Pays(p, 0) /\ 0 \in Int
      BY <2>3, <2>4, <2>5 DEF Pays
    <3>2. QED
      BY <1>i, <2>1, <2>2, <3>1, PaysKeeps
  <2>7. Scanning(p) /\ turns[p] = 0 => running = {} /\ queued = 0
    BY <1>i, <1>3, ZeroJoins, Zenon DEF StopSum
  <2>8. Quiet'
    BY <1>i, <1>3, <2>7, Zenon DEF StopSum, Scan, TypeOK, Control, Quiet, Scanning, running, Procs, gLabels
  <2>9. QED
    BY <2>1, <2>2, <2>6, <2>8 DEF IInv
<1>4. CASE Joined(p)
  <2>1. TypeOK'
    BY <1>i, <1>4, BarrierAssumption DEF Joined, TypeOK, Labels, Procs, Control
  <2>2. Control'
    BY <1>i, <1>4 DEF Joined, TypeOK, Labels, Procs, Control, gLabels
  <2>3. Moves(p) /\ Add(p, 0)
    BY <1>i, <1>4, AddNothing DEF Joined, Moves, TypeOK
  <2>4. queued' + Bit(Holds(p)') = queued + Bit(Holds(p)) + 0
    BY <1>i, <1>4 DEF Joined, TypeOK, Bit, Holds
  <2>5. ASSUME NEW q \in Procs, NEW k \in 0..Stripes, Scanning(q)', at'[q] = k,
               ~(k = 0 /\ turns'[q] = 0)
        PROVE  /\ Scanning(q) /\ at[q] = k /\ turns'[q] = turns[q]
               /\ queued' + Bit(Runs(p)') + Bit(Owes(p, k)')
                    <= queued + Bit(Runs(p)) + Bit(Owes(p, k))
                         + (IF stripe[p] >= k THEN 0 ELSE 0)
    <3>1. Scanning(q) /\ at[q] = k /\ turns'[q] = turns[q]
      BY <1>i, <1>4, <2>5 DEF Joined, TypeOK, Scanning, Control, Procs, gLabels
    <3>2. ioStop /\ (~ioIdle \/ q = Stopper)
      BY <1>i, <3>1 DEF Scanning, Control, Procs, gLabels
    <3>3. stripe[p] \in Int /\ queued \in Nat /\ stripe' = stripe
      BY <1>i, <1>4, BarrierAssumption DEF Joined, TypeOK, Indices
    <3>4. queued' + Bit(Runs(p)') + Bit(Owes(p, k)')
            <= queued + Bit(Runs(p)) + Bit(Owes(p, k))
                 + (IF stripe[p] >= k THEN 0 ELSE 0)
      BY <1>i, <1>4, <3>1, <3>2, <3>3 DEF Joined, TypeOK, Scanning, Control, Bit, Runs, Owes
    <3>5. QED
      BY <3>1, <3>4
  <2>6. SumExact' /\ Cover'
    <3>1. Pays(p, 0) /\ 0 \in Int
      BY <2>3, <2>4, <2>5 DEF Pays
    <3>2. QED
      BY <1>i, <2>1, <2>2, <3>1, PaysKeeps
  <2>7. Quiet'
    BY <1>i, <1>4, Zenon DEF Joined, TypeOK, Control, Quiet, running, Procs, gLabels
  <2>8. QED
    BY <2>1, <2>2, <2>6, <2>7 DEF IInv
<1>5. QED
  BY <1>1, <1>2, <1>3, <1>4

\* The shutdown pass, and its wait.
LEMMA PassKeeps ==
    ASSUME IInv, NEW p \in Procs,
           AcquireCloseIO(p) \/ WaitIODrained(p) \/ Drained(p)
    PROVE  IInv'
<1> USE DEF At, Go, asked, flags, scan
<1>i. TypeOK /\ Control /\ SumExact /\ Cover /\ Quiet
  BY DEF IInv
<1>1. CASE AcquireCloseIO(p)
  <2>1. TypeOK'
    BY <1>i, <1>1, BarrierAssumption DEF AcquireCloseIO, Add, TypeOK, Labels, Procs, Control
  <2>2. Control'
    BY <1>i, <1>1 DEF AcquireCloseIO, Add, TypeOK, Labels, Procs, Control, gLabels
  <2>3. Moves(p) /\ Add(p, 1)
    BY <1>i, <1>1 DEF AcquireCloseIO, Add, Moves, TypeOK
  <2>4. queued' + Bit(Holds(p)') = queued + Bit(Holds(p)) + 1
    BY <1>i, <1>1 DEF AcquireCloseIO, Add, TypeOK, Bit, Holds
  <2>5. ASSUME NEW q \in Procs, NEW k \in 0..Stripes, Scanning(q)', at'[q] = k,
               ~(k = 0 /\ turns'[q] = 0)
        PROVE  /\ Scanning(q) /\ at[q] = k /\ turns'[q] = turns[q]
               /\ queued' + Bit(Runs(p)') + Bit(Owes(p, k)')
                    <= queued + Bit(Runs(p)) + Bit(Owes(p, k))
                         + (IF stripe[p] >= k THEN 1 ELSE 0)
    <3>1. Scanning(q) /\ at[q] = k /\ turns'[q] = turns[q]
      BY <1>i, <1>1, <2>5 DEF AcquireCloseIO, Add, TypeOK, Scanning, Control, Procs, gLabels
    <3>2. ioStop /\ (~ioIdle \/ q = Stopper)
      BY <1>i, <3>1 DEF Scanning, Control, Procs, gLabels
    <3>3. stripe[p] \in Int /\ queued \in Nat /\ stripe' = stripe
      BY <1>i, <1>1, BarrierAssumption DEF AcquireCloseIO, Add, TypeOK, Indices
    <3>4. queued' + Bit(Runs(p)') + Bit(Owes(p, k)')
            <= queued + Bit(Runs(p)) + Bit(Owes(p, k))
                 + (IF stripe[p] >= k THEN 1 ELSE 0)
      BY <1>i, <1>1, <3>1, <3>2, <3>3 DEF AcquireCloseIO, Add, TypeOK, Scanning, Control, Bit, Runs, Owes, Procs, gLabels
    <3>5. QED
      BY <3>1, <3>4
  <2>6. SumExact' /\ Cover'
    <3>1. Pays(p, 1) /\ 1 \in Int
      BY <2>3, <2>4, <2>5 DEF Pays
    <3>2. QED
      BY <1>i, <2>1, <2>2, <3>1, PaysKeeps
  <2>7. Quiet'
    BY <1>i, <1>1 DEF AcquireCloseIO, Add, TypeOK, Control, Quiet, running, Procs, gLabels
  <2>8. QED
    BY <2>1, <2>2, <2>6, <2>7 DEF IInv
<1>2. CASE WaitIODrained(p)
  <2>1. TypeOK'
    BY <1>i, <1>2, BarrierAssumption DEF WaitIODrained, Scan, TypeOK, Labels, Procs, Control
  <2>2. Control'
    BY <1>i, <1>2 DEF WaitIODrained, Scan, TypeOK, Labels, Procs, Control, gLabels
  <2>3. Moves(p) /\ Add(p, 0)
    BY <1>i, <1>2, AddNothing DEF WaitIODrained, Scan, Moves, TypeOK
  <2>4. queued' + Bit(Holds(p)') = queued + Bit(Holds(p)) + 0
    BY <1>i, <1>2 DEF WaitIODrained, Scan, TypeOK, Bit, Holds
  <2>5. ASSUME NEW q \in Procs, NEW k \in 0..Stripes, Scanning(q)', at'[q] = k,
               ~(k = 0 /\ turns'[q] = 0)
        PROVE  /\ Scanning(q) /\ at[q] = k /\ turns'[q] = turns[q]
               /\ queued' + Bit(Runs(p)') + Bit(Owes(p, k)')
                    <= queued + Bit(Runs(p)) + Bit(Owes(p, k))
                         + (IF stripe[p] >= k THEN 0 ELSE 0)
    <3>1. Scanning(q) /\ at[q] = k /\ turns'[q] = turns[q]
      BY <1>i, <1>2, <2>5 DEF WaitIODrained, Scan, TypeOK, Scanning, Control, Procs, gLabels
    <3>2. ioStop /\ (~ioIdle \/ q = Stopper)
      BY <1>i, <3>1 DEF Scanning, Control, Procs, gLabels
    <3>3. stripe[p] \in Int /\ queued \in Nat /\ stripe' = stripe
      BY <1>i, <1>2, BarrierAssumption DEF WaitIODrained, Scan, TypeOK, Indices
    <3>4. queued' + Bit(Runs(p)') + Bit(Owes(p, k)')
            <= queued + Bit(Runs(p)) + Bit(Owes(p, k))
                 + (IF stripe[p] >= k THEN 0 ELSE 0)
      <4>1. queued' = queued /\ ~Runs(p)' /\ ~Owes(p, k)'
        BY <1>i, <1>2, Zenon DEF WaitIODrained, Scan, Go, TypeOK, Runs, Owes
      <4>2. QED
        BY <3>3, <4>1 DEF Bit
    <3>5. QED
      BY <3>1, <3>4
  <2>6. SumExact' /\ Cover'
    <3>1. Pays(p, 0) /\ 0 \in Int
      BY <2>3, <2>4, <2>5 DEF Pays
    <3>2. QED
      BY <1>i, <2>1, <2>2, <3>1, PaysKeeps
  <2>7. Quiet'
    BY <1>i, <1>2, Zenon DEF WaitIODrained, Scan, TypeOK, Control, Quiet, running, Procs, gLabels
  <2>8. QED
    BY <2>1, <2>2, <2>6, <2>7 DEF IInv
<1>3. CASE Drained(p)
  <2>1. TypeOK'
    BY <1>i, <1>3, BarrierAssumption DEF Drained, Scan, TypeOK, Labels, Procs, Control
  <2>2. Control'
    BY <1>i, <1>3 DEF Drained, Scan, TypeOK, Labels, Procs, Control, gLabels
  <2>3. Moves(p) /\ Add(p, 0)
    BY <1>i, <1>3, AddNothing DEF Drained, Scan, Moves, TypeOK
  <2>4. queued' + Bit(Holds(p)') = queued + Bit(Holds(p)) + 0
    BY <1>i, <1>3 DEF Drained, Scan, TypeOK, Bit, Holds
  <2>5. ASSUME NEW q \in Procs, NEW k \in 0..Stripes, Scanning(q)', at'[q] = k,
               ~(k = 0 /\ turns'[q] = 0)
        PROVE  /\ Scanning(q) /\ at[q] = k /\ turns'[q] = turns[q]
               /\ queued' + Bit(Runs(p)') + Bit(Owes(p, k)')
                    <= queued + Bit(Runs(p)) + Bit(Owes(p, k))
                         + (IF stripe[p] >= k THEN 0 ELSE 0)
    <3>1. Scanning(q) /\ at[q] = k /\ turns'[q] = turns[q]
      BY <1>i, <1>3, <2>5 DEF Drained, Scan, TypeOK, Scanning, Control, Procs, gLabels
    <3>2. ioStop /\ (~ioIdle \/ q = Stopper)
      BY <1>i, <3>1 DEF Scanning, Control, Procs, gLabels
    <3>3. stripe[p] \in Int /\ queued \in Nat /\ stripe' = stripe
      BY <1>i, <1>3, BarrierAssumption DEF Drained, Scan, TypeOK, Indices
    <3>4. queued' + Bit(Runs(p)') + Bit(Owes(p, k)')
            <= queued + Bit(Runs(p)) + Bit(Owes(p, k))
                 + (IF stripe[p] >= k THEN 0 ELSE 0)
      <4>1. queued' = queued /\ ~Runs(p)' /\ ~Owes(p, k)'
        BY <1>i, <1>3, Zenon DEF Drained, Scan, Go, TypeOK, Runs, Owes
      <4>2. QED
        BY <3>3, <4>1 DEF Bit
    <3>5. QED
      BY <3>1, <3>4
  <2>6. SumExact' /\ Cover'
    <3>1. Pays(p, 0) /\ 0 \in Int
      BY <2>3, <2>4, <2>5 DEF Pays
    <3>2. QED
      BY <1>i, <2>1, <2>2, <3>1, PaysKeeps
  <2>7. Scanning(p) /\ turns[p] = 0 => running = {} /\ queued = 0
    BY <1>i, <1>3, ZeroJoins, Zenon DEF Drained
  <2>8. Quiet'
    BY <1>i, <1>3, <2>7, Zenon DEF Drained, Scan, TypeOK, Control, Quiet, Scanning, running, Procs, gLabels
  <2>9. QED
    BY <2>1, <2>2, <2>6, <2>8 DEF IInv
<1>4. QED
  BY <1>1, <1>2, <1>3

\* A sum reads a stripe.
LEMMA LoadKeeps ==
    ASSUME IInv, NEW p \in Procs, Load(p)
    PROVE  IInv'
<1> USE DEF asked, flags
<1>i. TypeOK /\ Control /\ SumExact /\ Cover /\ Quiet
  BY DEF IInv
<1>k. PICK k \in Indices : k = at[p]
  BY BarrierAssumption DEF Load, IInv, TypeOK, Indices
<1>1. /\ at' = [at EXCEPT ![p] = k + 1] /\ turns' = [turns EXCEPT ![p] = @ + ioTurns[k]]
      /\ UNCHANGED <<stripe, ioTurns, stopping, ioStop, ioIdle, queued, entered, late,
                     closing, pc>>
  BY <1>k DEF Load
<1>2. TypeOK'
  <2>1. k + 1 \in 0..Stripes /\ turns[p] + ioTurns[k] \in Int
    BY <1>i, <1>k, BarrierAssumption DEF TypeOK, Indices
  <2>2. QED
    BY <1>i, <1>1, <2>1 DEF TypeOK
<1>3. Control' /\ SumExact' /\ Quiet'
  BY <1>i, <1>1 DEF Control, SumExact, held, Quiet, running
<1>4. \A j : Rest(j)' = Rest(j) /\ owing(j)' = owing(j)
  BY <1>1 DEF Rest, owing, Owes
<1>5. running' = running /\ \A q \in Procs : Scanning(q)' <=> Scanning(q)
  BY <1>1 DEF running, Scanning
<1>6. ASSUME NEW q \in Procs, Scanning(q)', q # p PROVE Covered(q)'
  <2>1. Scanning(q) /\ at'[q] = at[q] /\ turns'[q] = turns[q]
    BY <1>i, <1>1, <1>5, <1>6, Zenon DEF TypeOK
  <2>2. Rest(at[q])' = Rest(at[q]) /\ owing(at[q])' = owing(at[q])
    BY <1>1, <2>1 DEF Rest, owing, Owes
  <2>3. QED
    BY <1>i, <1>1, <1>5, <2>1, <2>2 DEF Cover, Covered
<1>7. ASSUME Scanning(p)' PROVE Covered(p)'
  <2>1. turns[p] + Rest(k) >= queued + Cardinality(running) + Cardinality(owing(k))
    BY <1>i, <1>k, <1>5, <1>7 DEF Cover, Covered
  <2>2. /\ Rest(k) = ioTurns[k] + Rest(k + 1) /\ Rest(k + 1) \in Int
        /\ turns[p] \in Int /\ ioTurns[k] \in Int /\ queued \in Nat
    <3>1. k + 1 \in 0..Stripes
      BY BarrierAssumption DEF Indices
    <3>2. QED
      BY <1>i, <3>1, AboveSums DEF Rest, TypeOK
  <2>3. /\ Cardinality(owing(k + 1)) <= Cardinality(owing(k))
        /\ Cardinality(owing(k)) \in Nat /\ Cardinality(owing(k + 1)) \in Nat
        /\ Cardinality(running) \in Nat
    <3>1. owing(k + 1) \subseteq owing(k)
      <4>1. \A g \in Goroutines : stripe[g] \in Int
        BY <1>i, BarrierAssumption DEF TypeOK, Procs, Indices
      <4>2. \A g \in Goroutines : stripe[g] >= k + 1 => stripe[g] >= k
        BY <4>1, BarrierAssumption, SMTT(30) DEF Indices
      <4>3. QED
        BY <4>2, Zenon DEF owing, Owes
    <3>2. QED
      BY <3>1, SetsFinite, FS_Subset, FS_CardinalityType
  <2>4. (turns[p] + ioTurns[k]) + Rest(k + 1)
          >= queued + Cardinality(running) + Cardinality(owing(k + 1))
    BY <2>1, <2>2, <2>3
  <2>5. at'[p] = k + 1 /\ turns'[p] = turns[p] + ioTurns[k]
    BY <1>i, <1>1 DEF TypeOK
  <2>6. Rest(at[p])' = Rest(k + 1) /\ owing(at[p])' = owing(k + 1)
    BY <1>1, <2>5 DEF Rest, owing, Owes
  <2>7. QED
    BY <1>1, <1>5, <2>4, <2>5, <2>6 DEF Covered
<1>8. QED
  BY <1>2, <1>3, <1>6, <1>7 DEF IInv, Cover

----------------------------------------------------------------------------
(* The theorems.                                                           *)

LEMMA InitIInv == Init => IInv
<1> SUFFICES ASSUME Init PROVE IInv
  OBVIOUS
<1>1. TypeOK
  <2>1. /\ 0 \in 0..Stripes /\ 0 \in 0..MaxTurns /\ 0 \in 0..MaxLate /\ 0 \in 0..MaxClosing
    BY BarrierAssumption
  <2>2. pc \in [Procs -> Labels]
    BY DEF Init, Labels
  <2>3. stripe \in [Procs -> Indices] /\ ioTurns \in [Indices -> Int]
    BY DEF Init
  <2>4. at \in [Procs -> 0..Stripes] /\ turns \in [Procs -> Int]
    BY <2>1 DEF Init
  <2>5. /\ stopping \in BOOLEAN /\ ioStop \in BOOLEAN /\ ioIdle \in BOOLEAN
        /\ queued \in Nat /\ entered \in 0..MaxTurns
        /\ late \in 0..MaxLate /\ closing \in 0..MaxClosing
    BY <2>1, Zenon DEF Init
  <2>6. QED
    BY <2>2, <2>3, <2>4, <2>5 DEF TypeOK
<1>2. Control
  BY BarrierAssumption DEF Init, Control, Labels, gLabels, Procs
<1>3. SumExact
  <2>1. held = {}
    BY BarrierAssumption DEF Init, held, Procs
  <2>2. QED
    BY <2>1, SumBelowZero, FS_EmptySet DEF Init, SumExact
<1>4. Cover /\ Quiet
  <2>1. ~ioIdle /\ \A q \in Procs : pc[q] \in {"s_start", "idle"}
    BY DEF Init
  <2>2. QED
    BY <2>1 DEF Cover, Quiet, Scanning, Procs
<1>5. QED
  BY <1>1, <1>2, <1>3, <1>4 DEF IInv

LEMMA NextIInv == IInv /\ [Next]_vars => IInv'
<1> SUFFICES ASSUME IInv, [Next]_vars PROVE IInv'
  OBVIOUS
<1>1. CASE UNCHANGED vars
  <2> USE <1>1 DEF vars, asked
  <2>1. TypeOK' /\ Control' /\ SumExact' /\ Quiet'
    BY DEF IInv, TypeOK, Control, SumExact, held, Quiet, running
  <2>2. ASSUME NEW q \in Procs, Scanning(q)' PROVE Covered(q)'
    <3>1. Covered(q)
      BY <2>2 DEF IInv, Cover, Scanning
    <3>2. Rest(at[q])' = Rest(at[q]) /\ owing(at[q])' = owing(at[q]) /\ running' = running
      BY DEF Rest, owing, Owes, running
    <3>3. QED
      BY <3>1, <3>2 DEF Covered
  <2>3. QED
    BY <2>1, <2>2 DEF IInv, Cover
<1>2. ASSUME NEW p \in Procs, Step(p) \/ Enter(p) \/ Shutdown(p) PROVE IInv'
  BY <1>2, LoadKeeps, TurnKeeps, RunKeeps, ReleaseKeeps, StopKeeps, PassKeeps DEF Step
<1>3. QED
  BY <1>1, <1>2 DEF Next, Terminated

\* TypeOK holds of every reachable state.
THEOREM TypeCorrect == Spec => []TypeOK
  BY InitIInv, NextIInv, PTL DEF Spec, IInv

\* SumExact: however many stripes there are, and whichever of them acquireIO
\* and releaseIO count on, they add up to the turns queued and held.
THEOREM SumIsExact == Spec => []SumExact
  BY InitIInv, NextIInv, PTL DEF Spec, IInv

\* BarrierJoins: a sum that stopIO, releaseIO or waitIODrained reads stripe by
\* stripe, while others count, is zero only when every turn has ended.
THEOREM ZeroMeansEnded == Spec => []BarrierJoins
<1>1. IInv => BarrierJoins
  BY DEF IInv, Quiet, Control, BarrierJoins, At
<1>2. QED
  BY <1>1, InitIInv, NextIInv, PTL DEF Spec
=============================================================================

-------------------------- MODULE LoopCloserProofs --------------------------
(***************************************************************************)
(* Proofs about the loop's closer: a released descriptor is closed once,   *)
(* by whoever took it out of the queue, and none is left when stop         *)
(* returns, for any set of descriptor numbers and any number of            *)
(* connections.                                                            *)
(***************************************************************************)
EXTENDS LoopCloser, Integers, TLAPS

\* A number is in a queue; a queue has it once.
In(s, n) == \E i \in 1..Len(s) : s[i] = n
Once(s) == \A i, j \in 1..Len(s) : s[i] = s[j] => i = j

\* What deferClose's append does to a queue.
LEMMA AppendIn ==
    ASSUME NEW S, NEW s \in Seq(S), NEW n \in S
    PROVE  /\ \A m : In(Append(s, n), m) <=> In(s, m) \/ m = n
           /\ Once(s) /\ ~In(s, n) => Once(Append(s, n))
<1>1. /\ Append(s, n) \in Seq(S) /\ Len(s) \in Nat
      /\ Len(Append(s, n)) = Len(s) + 1 /\ Append(s, n)[Len(s) + 1] = n
      /\ \A i \in 1..Len(s) : Append(s, n)[i] = s[i]
  OBVIOUS
<1>2. QED
  BY <1>1 DEF In, Once

\* What taking the first descriptor leaves.
LEMMA TailIn ==
    ASSUME NEW S, NEW s \in Seq(S), s # <<>>
    PROVE  /\ Head(s) \in S /\ Tail(s) \in Seq(S)
           /\ \A m : In(s, m) <=> m = Head(s) \/ In(Tail(s), m)
           /\ Once(s) => Once(Tail(s)) /\ ~In(Tail(s), Head(s))
<1>1. /\ Head(s) \in S /\ Tail(s) \in Seq(S) /\ Len(s) \in Nat /\ Len(s) >= 1
      /\ Len(Tail(s)) = Len(s) - 1 /\ s[1] = Head(s)
      /\ \A i \in 1..(Len(s) - 1) : Tail(s)[i] = s[i + 1]
  OBVIOUS
<1>2. \A m : In(s, m) => m = Head(s) \/ In(Tail(s), m)
  <2> SUFFICES ASSUME NEW m, NEW i \in 1..Len(s), s[i] = m, i # 1
               PROVE  In(Tail(s), m)
    BY <1>1 DEF In
  <2>1. i - 1 \in 1..Len(Tail(s)) /\ Tail(s)[i - 1] = m
    BY <1>1
  <2>2. QED
    BY <2>1 DEF In
<1>3. \A m : m = Head(s) \/ In(Tail(s), m) => In(s, m)
  <2>1. In(s, Head(s))
    BY <1>1 DEF In
  <2>2. \A i \in 1..Len(Tail(s)) : i + 1 \in 1..Len(s) /\ s[i + 1] = Tail(s)[i]
    BY <1>1
  <2>3. QED
    BY <2>1, <2>2 DEF In
<1>4. Once(s) => Once(Tail(s)) /\ ~In(Tail(s), Head(s))
  BY <1>1 DEF Once, In
<1>5. QED
  BY <1>1, <1>2, <1>3, <1>4

\* Two queues one after the other.
LEMMA ConcatIn ==
    ASSUME NEW S, NEW s \in Seq(S), NEW t \in Seq(S)
    PROVE  /\ s \o t \in Seq(S)
           /\ \A m : In(s \o t, m) <=> In(s, m) \/ In(t, m)
           /\ Once(s) /\ Once(t) /\ (\A m : ~(In(s, m) /\ In(t, m))) => Once(s \o t)
<1>1. /\ s \o t \in Seq(S) /\ Len(s) \in Nat /\ Len(t) \in Nat
      /\ Len(s \o t) = Len(s) + Len(t)
      /\ \A i \in 1..Len(s) : (s \o t)[i] = s[i]
      /\ \A i \in 1..Len(t) : (s \o t)[Len(s) + i] = t[i]
  OBVIOUS
<1>2. \A i \in 1..Len(s \o t) :
         \/ i \in 1..Len(s) /\ (s \o t)[i] = s[i]
         \/ i - Len(s) \in 1..Len(t) /\ (s \o t)[i] = t[i - Len(s)]
  <2> SUFFICES ASSUME NEW i \in 1..Len(s \o t), i \notin 1..Len(s)
               PROVE  i - Len(s) \in 1..Len(t) /\ (s \o t)[i] = t[i - Len(s)]
    BY <1>1
  <2>1. i - Len(s) \in 1..Len(t) /\ Len(s) + (i - Len(s)) = i
    BY <1>1
  <2>2. QED
    BY <1>1, <2>1
<1>3. \A m : In(s \o t, m) => In(s, m) \/ In(t, m)
  BY <1>2 DEF In
<1>4. \A m : In(s, m) \/ In(t, m) => In(s \o t, m)
  <2>1. \A i \in 1..Len(s) : i \in 1..Len(s \o t)
    BY <1>1
  <2>2. \A i \in 1..Len(t) : Len(s) + i \in 1..Len(s \o t)
    BY <1>1
  <2>3. QED
    BY <1>1, <2>1, <2>2 DEF In
<1>5. ASSUME Once(s), Once(t), \A m : ~(In(s, m) /\ In(t, m))
      PROVE  Once(s \o t)
  <2> SUFFICES ASSUME NEW i \in 1..Len(s \o t), NEW j \in 1..Len(s \o t),
                      (s \o t)[i] = (s \o t)[j]
               PROVE  i = j
    BY DEF Once
  <2>1. CASE i \in 1..Len(s) /\ j \in 1..Len(s)
    BY <1>1, <1>5, <2>1 DEF Once
  <2>2. CASE i \notin 1..Len(s) /\ j \notin 1..Len(s)
    <3>1. i - Len(s) = j - Len(s)
      BY <1>2, <1>5, <2>2 DEF Once
    <3>2. QED
      BY <1>1, <3>1
  <2>3. CASE i \in 1..Len(s) /\ j \notin 1..Len(s)
    <3>1. In(s, (s \o t)[i]) /\ In(t, (s \o t)[j])
      BY <1>1, <1>2, <2>3, Zenon DEF In
    <3>2. QED
      BY <1>5, <3>1
  <2>4. CASE i \notin 1..Len(s) /\ j \in 1..Len(s)
    <3>1. In(s, (s \o t)[j]) /\ In(t, (s \o t)[i])
      BY <1>1, <1>2, <2>4 DEF In
    <3>2. QED
      BY <1>5, <3>1
  <2>5. QED
    BY <2>1, <2>2, <2>3, <2>4
<1>6. QED
  BY <1>1, <1>3, <1>4, <1>5

-----------------------------------------------------------------------------
(* The inductive invariant.                                                *)

\* The goroutines that drain: the closer's run and stop.
Places == {"run", "stop"}

\* The variables have their types.
TypeOK ==
    /\ fd \in [Fds -> {"free", "conn", "held", "turn"}]
    /\ queue \in Seq(Fds) /\ hands \in [Places -> Seq(Fds)]
    /\ open \in BOOLEAN /\ kick \in BOOLEAN
    /\ at \in [run : {"wait", "drain", "close", "done"},
               stop : {"idle", "join", "drain", "close", "done"}]

\* A descriptor held for closing is in the queue or in one pair of hands.
HeldOK ==
    /\ Once(queue) /\ Once(hands["run"]) /\ Once(hands["stop"])
    /\ \A n \in Fds :
          /\ fd[n] = "held" <=> In(queue, n) \/ In(hands["run"], n) \/ In(hands["stop"], n)
          /\ ~(In(queue, n) /\ In(hands["run"], n))
          /\ ~(In(queue, n) /\ In(hands["stop"], n))
          /\ ~(In(hands["run"], n) /\ In(hands["stop"], n))

\* How far the closer and stop have come: hands are empty but while closing,
\* and stop drains after the closer returned and the queue was closed.
StagesOK ==
    /\ open <=> at.stop = "idle"
    /\ at.stop \in {"drain", "close", "done"} => at.run = "done"
    /\ at.stop \in {"close", "done"} => queue = <<>>
    /\ at.run # "close" => hands["run"] = <<>>
    /\ at.stop # "close" => hands["stop"] = <<>>
    /\ queue # <<>> => kick \/ at.run = "drain" \/ at.stop \in {"join", "drain"}

\* The inductive invariant.
IInv == TypeOK /\ HeldOK /\ StagesOK

\* The initial state.
LEMMA InitIInv == Init => IInv
<1> SUFFICES ASSUME Init PROVE IInv
  OBVIOUS
<1>1. TypeOK
  <2>1. /\ fd \in [Fds -> {"free", "conn", "held", "turn"}]
        /\ open \in BOOLEAN /\ kick \in BOOLEAN
    BY Zenon DEF Init
  <2>2. queue \in Seq(Fds) /\ hands \in [Places -> Seq(Fds)]
    BY DEF Init, Places
  <2>3. at \in [run : {"wait", "drain", "close", "done"},
               stop : {"idle", "join", "drain", "close", "done"}]
    BY DEF Init
  <2>4. QED
    BY <2>1, <2>2, <2>3 DEF TypeOK
<1>2. \A n : ~In(<<>>, n)
  BY DEF In
<1>3. Once(<<>>)
  BY DEF Once
<1>4. HeldOK
  BY <1>2, <1>3 DEF Init, HeldOK, Places
<1>5. StagesOK
  BY DEF Init, StagesOK, Places
<1>6. QED
  BY <1>1, <1>4, <1>5 DEF IInv

\* Every step, action by action.
LEMMA NextIInv == IInv /\ [Next]_vars => IInv'
<1> SUFFICES ASSUME IInv, [Next]_vars PROVE IInv'
  OBVIOUS
<1> USE DEF IInv
<1>1. CASE \E n \in Fds : Open(n)
  <2>1. PICK n \in Fds : Open(n)
    BY <1>1
  <2>2. TypeOK' /\ StagesOK'
    BY <2>1 DEF Open, TypeOK, StagesOK
  <2>3. HeldOK'
    BY <2>1 DEF Open, TypeOK, HeldOK
  <2>4. QED
    BY <2>2, <2>3
<1>2. CASE \E n \in Fds : deferClose(n)
  <2>1. PICK n \in Fds : deferClose(n)
    BY <1>2
  <2>2. CASE open
    <3>1. queue' = Append(queue, n) /\ fd' = [fd EXCEPT ![n] = "held"] /\ kick' = TRUE
      BY <2>1, <2>2 DEF deferClose
    <3>2. UNCHANGED <<open, hands, at>> /\ fd[n] = "conn"
      BY <2>1 DEF deferClose
    <3>3. TypeOK'
      BY <3>1, <3>2 DEF TypeOK
    <3>4. ~In(queue, n) /\ ~In(hands["run"], n) /\ ~In(hands["stop"], n)
      BY <3>2 DEF HeldOK
    <3>5. Once(queue') /\ \A m : In(queue', m) <=> In(queue, m) \/ m = n
      BY <3>1, <3>4, AppendIn DEF TypeOK, HeldOK
    <3>6. HeldOK'
      BY <3>1, <3>2, <3>4, <3>5 DEF TypeOK, HeldOK
    <3>7. StagesOK'
      BY <2>2, <3>1, <3>2 DEF TypeOK, StagesOK
    <3>8. QED
      BY <3>3, <3>6, <3>7
  <2>3. CASE ~open
    BY <2>1, <2>3 DEF deferClose, TypeOK, HeldOK, StagesOK
  <2>4. QED
    BY <2>2, <2>3
<1>3. CASE \E n \in Fds : TurnCloses(n)
  BY <1>3 DEF TurnCloses, TypeOK, HeldOK, StagesOK
<1>4. CASE Kicked \/ Stop \/ Join
  <2>1. UNCHANGED <<fd, queue, hands>>
    BY <1>4 DEF Kicked, Stop, Join
  <2>2. TypeOK'
    BY <1>4, Zenon DEF Kicked, Stop, Join, TypeOK
  <2>3. HeldOK'
    BY <2>1 DEF HeldOK
  <2>4. StagesOK'
    BY <1>4 DEF Kicked, Stop, Join, TypeOK, StagesOK
  <2>5. QED
    BY <2>2, <2>3, <2>4
<1>5. CASE \E p \in Places : drain(p)
  <2>1. PICK p \in Places : drain(p)
    BY <1>5
  <2>2. hands[p] = <<>> /\ hands' = [hands EXCEPT ![p] = queue] /\ queue' = <<>>
    BY <2>1 DEF drain, StagesOK, Places, TypeOK
  <2>3. TypeOK'
    BY <2>1, <2>2 DEF drain, TypeOK, Places
  <2>4. HeldOK'
    <3>1. Once(<<>>) /\ \A n : ~In(<<>>, n)
      BY DEF Once, In
    <3>2. QED
      BY <2>1, <2>2, <3>1 DEF drain, HeldOK, TypeOK, Places
  <2>5. StagesOK'
    BY <2>1, <2>2 DEF drain, StagesOK, TypeOK, Places
  <2>6. QED
    BY <2>3, <2>4, <2>5
<1>6. CASE \E p \in Places : CloseOne(p)
  <2>1. PICK p \in Places : CloseOne(p)
    BY <1>6
  <2>2. CASE hands[p] = <<>>
    <3>1. UNCHANGED <<fd, hands, queue, open, kick>>
      BY <2>1, <2>2 DEF CloseOne
    <3>2. TypeOK' /\ StagesOK'
      BY <2>1, <2>2, <3>1 DEF CloseOne, TypeOK, StagesOK, Places
    <3>3. HeldOK'
      BY <3>1 DEF HeldOK
    <3>4. QED
      BY <3>2, <3>3
  <2>3. CASE hands[p] # <<>>
    <3>1. /\ fd' = [fd EXCEPT ![Head(hands[p])] = "free"]
          /\ hands' = [hands EXCEPT ![p] = Tail(hands[p])]
          /\ UNCHANGED <<queue, open, kick, at>>
      BY <2>1, <2>3 DEF CloseOne
    <3>2. /\ hands[p] \in Seq(Fds)
      BY DEF TypeOK
    <3>3. /\ Head(hands[p]) \in Fds /\ Tail(hands[p]) \in Seq(Fds)
          /\ \A m : In(hands[p], m) <=> m = Head(hands[p]) \/ In(Tail(hands[p]), m)
          /\ Once(hands[p]) => Once(Tail(hands[p])) /\ ~In(Tail(hands[p]), Head(hands[p]))
      BY <2>3, <3>2, TailIn
    <3>4. TypeOK'
      BY <3>1, <3>3 DEF TypeOK
    <3>5. HeldOK'
      BY <3>1, <3>3 DEF TypeOK, HeldOK, Places
    <3>6. StagesOK'
      BY <2>1, <2>3, <3>1 DEF CloseOne, TypeOK, StagesOK, Places
    <3>7. QED
      BY <3>4, <3>5, <3>6
  <2>4. QED
    BY <2>2, <2>3
<1>7. CASE UNCHANGED vars
  BY <1>7 DEF vars, TypeOK, HeldOK, StagesOK
<1>8. QED
  BY <1>1, <1>2, <1>3, <1>4, <1>5, <1>6, <1>7 DEF Next, Resting, Places

\* The invariant holds in every reachable state.
LEMMA Invariance == Spec => []IInv
  BY InitIInv, NextIInv, PTL DEF Spec

\* The closer and stop never close a number twice: what waits for them is in
\* one place, once, and is nobody else's, although turns queue, the closer
\* drains and stop drains the rest in any order.
THEOREM DescriptorsClosedOnce == Spec => []ClosedOnce
<1>1. IInv => ClosedOnce
  <2> SUFFICES ASSUME IInv PROVE ClosedOnce
    OBVIOUS
  <2> DEFINE w == queue \o hands["run"] \o hands["stop"]
  <2>1. queue \in Seq(Fds) /\ hands["run"] \in Seq(Fds) /\ hands["stop"] \in Seq(Fds)
    BY DEF IInv, TypeOK, Places
  <2>2. \A s \in Seq(Fds) : \A m : In(s, m) => m \in Fds
    BY DEF In
  <2>3. /\ w \in Seq(Fds) /\ Once(w)
        /\ \A m : In(w, m) <=> In(queue, m) \/ In(hands["run"], m) \/ In(hands["stop"], m)
    <3>1. /\ queue \o hands["run"] \in Seq(Fds)
          /\ \A m : In(queue \o hands["run"], m) <=> In(queue, m) \/ In(hands["run"], m)
          /\ Once(queue \o hands["run"])
      BY <2>1, <2>2, ConcatIn DEF IInv, HeldOK
    <3>2. QED
      <4>1. \A m : ~(In(queue \o hands["run"], m) /\ In(hands["stop"], m))
        BY <2>1, <2>2, <3>1 DEF IInv, HeldOK
      <4>2. Once(hands["stop"])
        BY DEF IInv, HeldOK
      <4> DEFINE v == queue \o hands["run"]
      <4> HIDE DEF v
      <4>3. v \in Seq(Fds) /\ Once(v) /\ \A m : ~(In(v, m) /\ In(hands["stop"], m))
        BY <3>1, <4>1 DEF v
      <4>4. /\ v \o hands["stop"] \in Seq(Fds) /\ Once(v \o hands["stop"])
            /\ \A m : In(v \o hands["stop"], m) <=> In(v, m) \/ In(hands["stop"], m)
        BY <2>1, <4>2, <4>3, ConcatIn
      <4>5. QED
        BY <3>1, <4>4 DEF v
  <2> HIDE DEF w
  <2>4. DOMAIN w = 1..Len(w)
    BY <2>3
  <2>5. Range(w) = {n \in Fds : fd[n] = "held"}
    <3>1. \A m : m \in Range(w) <=> In(w, m)
      BY <2>4 DEF Range, In
    <3>2. QED
      BY <2>1, <2>2, <2>3, <3>1 DEF IInv, HeldOK
  <2>6. IsInjective(w)
    BY <2>3, <2>4 DEF IsInjective, Once
  <2>7. QED
    BY <2>5, <2>6 DEF ClosedOnce, w
<1>2. QED
  BY <1>1, Invariance, PTL

\* A queued descriptor has a drain to come, and when stop returned no
\* descriptor is held for closing.
THEOREM DescriptorsDrained == Spec => []QueueDrained
<1>1. IInv => QueueDrained
  <2> SUFFICES ASSUME IInv PROVE QueueDrained
    OBVIOUS
  <2>1. \A n : ~In(<<>>, n)
    BY DEF In
  <2>2. QED
    BY <2>1 DEF IInv, HeldOK, StagesOK, QueueDrained, TypeOK
<1>2. QED
  BY <1>1, Invariance, PTL
=============================================================================

----------------------------- MODULE LoopCloser -----------------------------
(***************************************************************************)
(* The loop's closer: turns queue the descriptors they release, one        *)
(* goroutine closes them, and the shutdown stops it.  A closed number is   *)
(* given to the next connection at once, so a number closed twice would    *)
(* close another connection's socket.                                      *)
(***************************************************************************)
EXTENDS Naturals, Sequences, SequencesExt, FiniteSets

CONSTANTS Fds,      \* descriptor numbers
          MaxOpens  \* connections opened

VARIABLES
    fd,     \* per number: free, a connection's, held for the closer, or its turn's own to close
    queue, open, kick,
    hands,  \* the descriptors the closer and the stop have taken
    at,     \* the places of the closer's goroutine and of stop
    opens

vars == <<fd, queue, open, kick, hands, at, opens>>

Init ==
    /\ fd = [n \in Fds |-> "free"]
    /\ queue = <<>> /\ open = TRUE /\ kick = FALSE
    /\ hands = [p \in {"run", "stop"} |-> <<>>]
    /\ at = [run |-> "wait", stop |-> "idle"]
    /\ opens = MaxOpens

Open(n) ==
    /\ fd[n] = "free" /\ opens > 0
    /\ fd' = [fd EXCEPT ![n] = "conn"]
    /\ opens' = opens - 1
    /\ UNCHANGED <<queue, open, kick, hands, at>>

\* deferClose from the turn that releases the connection.
deferClose(n) ==
    /\ fd[n] = "conn"
    /\ IF open THEN /\ queue' = Append(queue, n)
                    /\ kick' = TRUE
                    /\ fd' = [fd EXCEPT ![n] = "held"]
       ELSE fd' = [fd EXCEPT ![n] = "turn"] /\ UNCHANGED <<queue, kick>>
    /\ UNCHANGED <<open, hands, at, opens>>

\* The caller of a refused deferClose closes it itself.
TurnCloses(n) ==
    /\ fd[n] = "turn"
    /\ fd' = [fd EXCEPT ![n] = "free"]
    /\ UNCHANGED <<queue, open, kick, hands, at, opens>>

\* run: a kick, or the closed channel's end.
Kicked ==
    /\ at.run = "wait" /\ (kick \/ ~open)
    /\ kick' = FALSE
    /\ at' = [at EXCEPT !.run = IF kick THEN "drain" ELSE "done"]
    /\ UNCHANGED <<fd, queue, open, hands, opens>>

\* drain takes what is queued, in the closer or in stop, ...
drain(p) ==
    /\ at[p] = "drain"
    /\ hands' = [hands EXCEPT ![p] = queue]
    /\ queue' = <<>>
    /\ at' = [at EXCEPT ![p] = "close"]
    /\ UNCHANGED <<fd, open, kick, opens>>

\* ... and closes it.
CloseOne(p) ==
    /\ at[p] = "close"
    /\ IF hands[p] = <<>>
       THEN /\ at' = [at EXCEPT ![p] = IF p = "run" THEN "wait" ELSE "done"]
            /\ UNCHANGED <<fd, hands>>
       ELSE /\ fd' = [fd EXCEPT ![Head(hands[p])] = "free"]
            /\ hands' = [hands EXCEPT ![p] = Tail(@)]
            /\ UNCHANGED at
    /\ UNCHANGED <<queue, open, kick, opens>>

\* stop refuses what comes later, ...
Stop ==
    /\ at.stop = "idle"
    /\ open' = FALSE
    /\ at' = [at EXCEPT !.stop = "join"]
    /\ UNCHANGED <<fd, queue, kick, hands, opens>>


\* ... waits for the closer and drains the rest.
Join ==
    /\ at.stop = "join" /\ at.run = "done"
    /\ at' = [at EXCEPT !.stop = "drain"]
    /\ UNCHANGED <<fd, queue, open, kick, hands, opens>>

Resting == at.stop = "done" /\ UNCHANGED vars

Next ==
    \/ Kicked \/ Stop \/ Join \/ Resting
    \/ \E n \in Fds : Open(n) \/ deferClose(n) \/ TurnCloses(n)
    \/ \E p \in {"run", "stop"} : drain(p) \/ CloseOne(p)

Spec == Init /\ [][Next]_vars

-----------------------------------------------------------------------------
(* Properties                                                              *)

\* Every descriptor held for closing is in exactly one place, once, and no
\* place holds a number that is another connection's by now.
ClosedOnce ==
    LET waiting == queue \o hands["run"] \o hands["stop"]
    IN  /\ IsInjective(waiting)
        /\ Range(waiting) = {n \in Fds : fd[n] = "held"}

\* A queued descriptor has a drain to come, and none is left once stop
\* returned.
QueueDrained ==
    /\ queue # <<>> => kick \/ at.run = "drain" \/ at.stop \in {"join", "drain"}
    /\ at.stop = "done" => \A n \in Fds : fd[n] # "held"
=============================================================================

------------------------------ MODULE ReadTurn ------------------------------
(***************************************************************************)
(* The input path of one plain stream connection of the native backend:    *)
(* edges the poller reports or drops, the turn that reads the socket in    *)
(* rounds, what OnRead leaves behind, yields and their continuations,      *)
(* pauses of several owners and their releases, the hold at                *)
(* MaxInboundBuffered, hangups, and the end of the stream, which waits for *)
(* its consumer.  Bytes are counted.  Which turns run is ConnTurn's and    *)
(* what they send is Outbound's: here the claim is one flag, and output    *)
(* never waits.                                                            *)
(***************************************************************************)
EXTENDS Naturals, FiniteSets

CONSTANTS
    Owners,    \* the read control's owners; each pauses and resumes from outside
    Buffer,    \* the size of a read buffer
    MaxCalls,  \* reads of one round (256 in the code)
    Settings   \* records: AllowHalfOpen, MaxInboundBuffered (0: none), bytes the peer
               \* sends, how it may end, what callbacks do, outside calls, tagged events

VARIABLES
    opt,
    sock,    \* bytes in the socket, how its stream ended, bytes still to come
    edge,    \* the poller holds an edge, or a waiter took it with these events
    task,    \* taskState: event bits, and taskScheduledBit
    turn,    \* the turn: place, its events, turn bits, and the round's locals
    input,   \* inbound and inboundTail, and whether OnRead ran since the end was read
    flags,   \* "held", "eof", "stalled"
    control, \* the owners of pauses, the owner count, owed, each owner's place
    half,    \* the writing half: "open", "shut" (CloseWrite called), "done"
    close,   \* the cause of the close, or "open"
    calls    \* outside calls left: Wake, and a pause of each owner

vars == <<opt, sock, edge, task, turn, input, flags, control, half, close, calls>>

Least(a, b) == IF a < b THEN a ELSE b

Init ==
    /\ opt \in Settings
    /\ sock = [bytes |-> 0, end |-> "no", more |-> opt.bytes]
    /\ edge = [set |-> FALSE, taken |-> {}]
    /\ task = [events |-> {"open"}, claimed |-> TRUE]
    /\ turn = [pc |-> "queued", ev |-> {}, bits |-> {}, ret |-> "none", n |-> 0, mark |-> 0, reported |-> FALSE]
    /\ input = [in |-> 0, tail |-> 0, told |-> FALSE]
    /\ flags = {}
    /\ control = [paused |-> {}, owners |-> 0, owed |-> FALSE, at |-> [o \in Owners |-> "idle"]]
    /\ half = "open"
    /\ close = "open"
    /\ calls = [wake |-> opt.wakes, pause |-> [o \in Owners |-> IF o \in opt.owners THEN 1 ELSE 0]]

isClosing == close # "open"

ReadsPaused == control.owners # 0

Held == ReadsPaused \/ control.owed

\* readEnded: the end was read and everything before it consumed.
readEnded == "eof" \in flags /\ input.in = 0 /\ input.tail = 0

inputLimit == opt.limit

(***************************************************************************)
(* The peer, and the poller.  An arrival raises an edge; what a waiter     *)
(* takes says what holds by then.  The events of an edge may include       *)
(* writability, with which it is never dropped.                            *)
(***************************************************************************)
Arrive ==
    /\ sock.end = "no" /\ sock.more > 0 /\ ~isClosing
    /\ \E n \in 1 .. sock.more :
          sock' = [sock EXCEPT !.bytes = @ + n, !.more = @ - n]
    /\ edge' = [edge EXCEPT !.set = TRUE]
    /\ UNCHANGED <<opt, task, turn, input, flags, control, half, close, calls>>

\* A FIN, or a reset, which may also follow the FIN.
PeerEnds(how) ==
    /\ how \in opt.ends /\ ~isClosing
    /\ sock.end = "no" \/ (sock.end = "fin" /\ how = "reset")
    /\ sock' = [sock EXCEPT !.end = how, !.more = 0]
    /\ edge' = [edge EXCEPT !.set = TRUE]
    /\ UNCHANGED <<opt, task, turn, input, flags, control, half, close, calls>>

Wait ==
    /\ edge.set /\ edge.taken = {}
    /\ edge' = [set |-> FALSE, taken |-> {"read"} \cup (IF sock.end = "no" THEN {} ELSE {"hangup"})]
    /\ UNCHANGED <<opt, sock, task, turn, input, flags, control, half, close, calls>>

skipsEdge(events) ==
    /\ events \cap {"write", "hangup"} = {}
    /\ flags # {} \/ ReadsPaused

\* noteIO: the events are folded in; the idle connection's task is claimed.
Fold(events) == task' = [events |-> task.events \cup events, claimed |-> TRUE]

Submit ==
    IF task.claimed THEN UNCHANGED turn ELSE turn' = [turn EXCEPT !.pc = "queued"]

\* The poller's waiter hands the edge to the connection, or drops it.
Dispatch ==
    /\ edge.taken # {}
    /\ edge' = [edge EXCEPT !.taken = {}]
    /\ \E writable \in {{}, {"write"}} :
          IF skipsEdge(edge.taken \cup writable) \/ isClosing
          THEN UNCHANGED <<task, turn>>
          ELSE Fold(edge.taken) /\ Submit
    /\ UNCHANGED <<opt, sock, input, flags, control, half, close, calls>>

(***************************************************************************)
(* Goroutines outside the turn: Wake, and an owner's Pause and Resume.     *)
(* Resume marks the turn it owes before the count drops, and asks for the  *)
(* turn after its lock.                                                    *)
(***************************************************************************)
Wake ==
    /\ calls.wake > 0 /\ ~isClosing
    /\ calls' = [calls EXCEPT !.wake = @ - 1]
    /\ Fold({"wake"}) /\ Submit
    /\ UNCHANGED <<opt, sock, edge, input, flags, control, half, close>>

Paused(c, o) == [c EXCEPT !.paused = @ \cup {o}, !.owners = @ + 1]

Pause(o) ==
    /\ control.at[o] = "idle" /\ o \notin control.paused
    /\ calls.pause[o] > 0 /\ ~isClosing
    /\ calls' = [calls EXCEPT !.pause[o] = @ - 1]
    /\ control' = Paused(control, o)
    /\ UNCHANGED <<opt, sock, edge, task, turn, input, flags, half, close>>

Resume(o) ==
    /\ control.at[o] = "idle" /\ o \in control.paused
    /\ control' = [control EXCEPT !.paused = @ \ {o}, !.owed = TRUE, !.at[o] = "release"]
    /\ UNCHANGED <<opt, sock, edge, task, turn, input, flags, half, close, calls>>

ResumeRelease(o) ==
    /\ control.at[o] = "release"
    /\ control' = [control EXCEPT !.owners = @ - 1,
                                  !.at[o] = IF control.owners = 1 THEN "kick" ELSE "idle"]
    /\ UNCHANGED <<opt, sock, edge, task, turn, input, flags, half, close, calls>>

\* The last release asks for a resume turn, unless the connection closes.
ResumeKick(o) ==
    /\ control.at[o] = "kick"
    /\ control' = [control EXCEPT !.at[o] = "idle"]
    /\ IF isClosing THEN UNCHANGED <<task, turn>> ELSE Fold({"resume"}) /\ Submit
    /\ UNCHANGED <<opt, sock, edge, input, flags, half, close, calls>>

(***************************************************************************)
(* The turn.                                                               *)
(***************************************************************************)
At(place) == turn.pc = place

Go(place) == turn' = [turn EXCEPT !.pc = place]

requestClose(cause) == close' = IF isClosing THEN close ELSE cause

\* The turn begins; a continuation, or a released pause, gets what was
\* retained before anything is read.
takeIOEvents ==
    /\ At("queued")
    /\ LET opens == "open" \in task.events
           stale == opens /\ ~opt.tagged /\ "hangup" \in task.events
           resumes == "resume" \in task.events /\ ~isClosing
       IN  turn' = [turn EXCEPT
              !.pc = IF resumes THEN "fire" ELSE "read", !.ret = IF resumes THEN "resumed" ELSE "none",
              !.reported = "hangup" \in task.events,
              !.ev = (task.events \ ({"open"} \cup IF stale THEN {"hangup"} ELSE {}))
                     \cup (IF opens THEN {"read"} ELSE {}),
              !.bits = IF stale THEN @ \cup {"toEnd"} ELSE @,
              !.mark = IF resumes THEN input.in ELSE 0]
    /\ task' = [task EXCEPT !.events = {}]
    /\ UNCHANGED <<opt, sock, edge, input, flags, control, half, close, calls>>

\* consumerMayRun: a paused consumer's OnRead does not run.
consumerMayRun ==
    /\ At("fire")
    /\ Go(IF ReadsPaused THEN turn.ret ELSE "callback")
    /\ UNCHANGED <<opt, sock, edge, task, input, flags, control, half, close, calls>>

\* ConsumerRuns, then OnRead: it consumes, may yield, may pause its own
\* connection as the application's owner, may shut the writing half once the
\* stream ended, and may fail.
fireOnRead ==
    /\ At("callback")
    /\ \E k \in {0, 1, input.in + input.tail}, yields, pauses, shuts, fails \in BOOLEAN, o \in opt.owners :
          /\ k <= input.in + input.tail
          /\ yields => "yield" \in opt.acts
          /\ pauses => "pause" \in opt.acts /\ o \notin control.paused /\ control.at[o] = "idle"
          /\ (shuts \/ fails) => ~(yields \/ pauses) /\ ~(shuts /\ fails)
          /\ shuts => half = "open" /\ readEnded
          /\ fails => "fail" \in opt.acts
          /\ input' = [input EXCEPT !.in = @ - Least(k, @), !.tail = @ - (k - Least(k, input.in)),
                                    !.told = "eof" \in flags]
          /\ flags' = IF yields THEN flags \cup {"stalled"} ELSE flags
          /\ control' = LET c == [control EXCEPT !.owed = FALSE] IN IF pauses THEN Paused(c, o) ELSE c
          /\ half' = IF shuts THEN "shut" ELSE half
          /\ task' = IF shuts THEN [task EXCEPT !.events = @ \cup {"shut"}] ELSE task
          /\ IF fails THEN requestClose("callback") ELSE UNCHANGED close
    /\ Go(turn.ret)
    /\ UNCHANGED <<opt, sock, edge, calls>>

\* closeDeferredReadEOF, then closeIfEnded.
deferredEnds ==
    \/ "eof" \in flags /\ ~opt.halfOpen /\ "stalled" \notin flags /\ ~Held
    \/ half = "done" /\ readEnded /\ ~Held /\ "stalled" \notin flags

closeDeferredReadEOF ==
    IF deferredEnds THEN requestClose("eof") ELSE UNCHANGED close

\* resumeHeldRead: flags and events after it.
resumesHeld == "held" \in flags /\ input.in < inputLimit /\ ~isClosing

resumeHeldRead ==
    IF resumesHeld
    THEN flags' = flags \ {"held"} /\ task' = [task EXCEPT !.events = @ \cup {"read"}]
    ELSE UNCHANGED <<flags, task>>

Resumed ==
    /\ At("resumed")
    /\ resumeHeldRead
    /\ closeDeferredReadEOF
    /\ Go("continue")
    /\ UNCHANGED <<opt, sock, edge, input, control, half, calls>>

\* What a continuation that paused, finished, waits for bytes, or moved on does next.
Continue ==
    /\ At("continue")
    /\ LET waits == ~ReadsPaused /\ "stalled" \in flags /\ input.in = turn.mark
           ended == waits /\ "eof" \in flags
       IN  /\ turn' = [turn EXCEPT !.pc = "read",
                 !.ev = CASE ReadsPaused \/ ended -> @
                          [] "stalled" \notin flags \/ waits -> @ \cup {"read"}
                          [] OTHER -> @ \ {"read"},
                 !.bits = IF waits /\ ~ended THEN @ \cup {"pastYield"} ELSE @]
           /\ IF ended THEN requestClose("eof") ELSE UNCHANGED close
    /\ UNCHANGED <<opt, sock, edge, task, input, flags, control, half, calls>>

\* onRead, the look past an end already read, or neither.
ReadBranch ==
    /\ At("read")
    /\ LET hangup == "hangup" \in turn.ev
           bits == turn.bits \cup (IF hangup THEN {"hangup"} ELSE {})
           reads == "read" \in turn.ev /\ ~isClosing
           rounds == /\ reads /\ flags \cap {"held", "eof"} = {} /\ ~ReadsPaused
                     /\ "stalled" \in flags => "pastYield" \in bits
           probes == reads /\ "eof" \in flags /\ hangup
       IN  /\ turn' = [turn EXCEPT !.pc = IF rounds THEN "recv" ELSE "probe", !.n = 0,
                                   !.bits = IF probes THEN bits \cup {"drained"} ELSE bits]
           /\ IF probes /\ sock.end = "reset" THEN requestClose("reset") ELSE UNCHANGED close
    /\ UNCHANGED <<opt, sock, edge, task, input, flags, control, half, calls>>

\* A read that meets a would-block or an error, and one that gets bytes.
RecvNone ==
    /\ At("recv") /\ sock.bytes = 0 /\ sock.end # "fin"
    /\ turn' = [turn EXCEPT !.pc = "probe",
                            !.bits = (@ \ IF sock.end = "no" THEN {"toEnd"} ELSE {}) \cup {"drained"}]
    /\ IF sock.end = "reset" THEN requestClose("reset") ELSE UNCHANGED close
    /\ UNCHANGED <<opt, sock, edge, task, input, flags, control, half, calls>>

RecvBytes ==
    /\ At("recv") /\ sock.bytes > 0
    /\ sock' = [sock EXCEPT !.bytes = @ - Least(@, Buffer)]
    /\ input' = [input EXCEPT !.tail = Least(sock.bytes, Buffer)]
    /\ turn' = [turn EXCEPT !.pc = "fire", !.ret = "received", !.n = @ + 1,
                            !.mark = Least(sock.bytes, Buffer)]
    /\ UNCHANGED <<opt, edge, task, flags, control, half, close, calls>>

Drained == turn.mark < Buffer /\ turn.bits \cap {"hangup", "toEnd"} = {}

\* The tail is kept, and the round goes on, holds, stops short or spends its calls.
Received ==
    /\ At("received")
    /\ LET all == input.in + input.tail
           holds == ~isClosing /\ input.tail > 0 /\ inputLimit > 0 /\ all >= inputLimit
           stops == isClosing \/ holds \/ "stalled" \in flags \/ ReadsPaused \/ Drained
           spent == ~stops /\ turn.n = MaxCalls
       IN  /\ input' = [input EXCEPT !.in = IF isClosing THEN @ ELSE all, !.tail = 0]
           /\ flags' = flags \cup (IF holds THEN {"held"} ELSE IF spent THEN {"stalled"} ELSE {})
           /\ Go(IF stops \/ spent THEN "probe" ELSE "recv")
    /\ UNCHANGED <<opt, sock, edge, task, control, half, close, calls>>

\* onReadEOF: with nothing to see the end closes at once; otherwise it is
\* recorded and OnRead runs.
onReadEOF ==
    /\ At("recv") /\ sock.bytes = 0 /\ sock.end = "fin"
    /\ IF ~opt.halfOpen /\ "stalled" \notin flags /\ ~Held /\ input.in = 0
       THEN /\ requestClose("eof")
            /\ turn' = [turn EXCEPT !.pc = "probe", !.bits = @ \cup {"drained"}]
            /\ UNCHANGED flags
       ELSE /\ flags' = flags \cup {"eof"}
            /\ turn' = [turn EXCEPT !.pc = "fire", !.ret = "ended", !.bits = @ \cup {"drained"}]
            /\ UNCHANGED close
    /\ UNCHANGED <<opt, sock, edge, task, input, control, half, calls>>

Ended ==
    /\ At("ended")
    /\ closeDeferredReadEOF
    /\ Go("probe")
    /\ UNCHANGED <<opt, sock, edge, task, input, flags, control, half, calls>>

\* A hangup no read of the turn reached: a reset must still end the
\* connection.  Then a Wake's OnRead.
pendingSocketError ==
    /\ At("probe")
    /\ LET failed == turn.reported /\ "drained" \notin turn.bits /\ sock.end = "reset"
           wakes == "wake" \in turn.ev /\ ~isClosing /\ ~failed /\ "stalled" \notin flags
       IN  /\ IF failed THEN requestClose("reset") ELSE UNCHANGED close
           /\ turn' = [turn EXCEPT !.pc = IF wakes THEN "fire" ELSE "shut", !.ret = "woken",
                                   !.n = 0, !.mark = 0, !.bits = @ \cap {"hangup", "toEnd"},
                                   !.ev = {}, !.reported = FALSE]
    /\ UNCHANGED <<opt, sock, edge, task, input, flags, control, half, calls>>

Woken ==
    /\ At("woken")
    /\ resumeHeldRead
    /\ closeDeferredReadEOF
    /\ Go("shut")
    /\ UNCHANGED <<opt, sock, edge, input, control, half, calls>>

\* A CloseWrite of this turn's callbacks is carried out; with both halves
\* ended the connection closes.
shutWrite ==
    /\ At("shut")
    /\ Go("end")
    /\ IF half = "shut" /\ ~isClosing
       THEN /\ half' = "done"
            /\ task' = [task EXCEPT !.events = @ \ {"shut"}]
            /\ IF readEnded /\ ~Held /\ "stalled" \notin flags
               THEN requestClose("eof") ELSE UNCHANGED close
       ELSE UNCHANGED <<half, task, close>>
    /\ UNCHANGED <<opt, sock, edge, input, flags, control, calls>>

\* Mutant: the turn owed is a read turn, which looks at the socket only.
SettleForRead(events) == IF ReadsPaused THEN events ELSE events \cup {"read"}

\* settleInterest: a yield or a spent budget is owed a resume turn.
Settled(events) == IF ReadsPaused THEN events ELSE events \cup {"resume"}

\* The turn's end: the owed read is handed on, and the task is resubmitted
\* for what came meanwhile, or given up.
finishIOTask ==
    /\ At("end")
    /\ LET owes == "stalled" \in flags /\ ~isClosing
           events == IF owes THEN Settled(task.events) ELSE task.events
           again == events # {} /\ ~isClosing
       IN  /\ flags' = IF owes THEN flags \ {"stalled"} ELSE flags
           /\ task' = [events |-> events, claimed |-> again]
           /\ Go(IF again THEN "queued" ELSE "idle")
    /\ UNCHANGED <<opt, sock, edge, input, control, half, close, calls>>

(***************************************************************************)
(* Nothing runs or is about to: no task, no edge, no release on its way.   *)
(***************************************************************************)
Quiet ==
    /\ ~task.claimed /\ ~edge.set /\ edge.taken = {}
    /\ \A o \in Owners : control.at[o] = "idle"

Resting == Quiet /\ UNCHANGED vars

Next ==
    \/ Arrive \/ (\E how \in {"fin", "reset"} : PeerEnds(how)) \/ Wait \/ Dispatch \/ Wake
    \/ \E o \in Owners : Pause(o) \/ Resume(o) \/ ResumeRelease(o) \/ ResumeKick(o)
    \/ takeIOEvents \/ consumerMayRun \/ fireOnRead \/ Resumed \/ Continue
    \/ ReadBranch \/ RecvNone \/ RecvBytes \/ Received \/ onReadEOF \/ Ended
    \/ pendingSocketError \/ Woken \/ shutWrite \/ finishIOTask \/ Resting

Spec == Init /\ [][Next]_vars

\* InputReached: an open connection at rest has read what its socket holds,
\* or reads are paused or held at a buffer that is still full; no
\* continuation and no released pause is left owed; an end it read has closed
\* it or waits for the other half; and a reset has ended it, paused or not.
InputReached ==
    Quiet /\ ~isClosing =>
        /\ sock.end # "reset"
        /\ "stalled" \notin flags /\ task.events = {}
        /\ "held" \in flags => inputLimit > 0 /\ input.in >= inputLimit
        /\ ~ReadsPaused =>
              /\ ~control.owed
              /\ "held" \notin flags => sock.bytes = 0 /\ (sock.end = "fin" => "eof" \in flags)
              /\ "eof" \in flags => opt.halfOpen /\ (half = "open" \/ ~readEnded)

\* EndBehindInput: the end of the stream closes the connection only after
\* every byte was read, and a consumer that kept bytes, or that must answer
\* the end, has had OnRead run after it.
EndBehindInput ==
    close = "eof" =>
        /\ sock.bytes = 0 /\ input.tail = 0
        /\ (input.in > 0 \/ opt.halfOpen) => input.told

\* InputWithinLimit: a hold keeps what callbacks left within one read of the limit.
InputWithinLimit == inputLimit > 0 => input.in + input.tail < inputLimit + Buffer
=============================================================================

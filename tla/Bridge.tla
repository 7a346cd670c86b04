------------------------------- MODULE Bridge -------------------------------
(***************************************************************************)
(* One pair of a Bridge: a client leg and its upstream leg, relayed both   *)
(* ways.  Each leg's callbacks run in its own turn, one at a time, and its *)
(* write reports on whichever goroutine sent: OnRead forwards, waits and   *)
(* holds; a drain of the destination lets its source go on; OnClose passes *)
(* an abort on as an abort and a clean end as an end.  A leg is what       *)
(* ReadTurn and Outbound make of a connection: a callback runs when input  *)
(* came, when woken, and when the last pause was released.                 *)
(***************************************************************************)
EXTENDS Naturals, FiniteSets

CONSTANTS
    Client, Upstream,
    InboundLimit,
    Settings   \* records: bytes each leg receives, legs whose peer ends its stream, legs
               \* the application pauses, the closes the application makes of a leg

VARIABLES
    opt,
    leg,   \* per leg: input to come and received, end, output queue, writing half,
           \* connection, its next callback, drains, waiting, and who paused it
    turn,  \* the callback of each leg: its place and the drains it saw
    out,   \* the report of each leg's sends: its place in resumeSource
    pairs, \* the legs the bridge finds a pair for
    closed,\* pair.closed
    app    \* what the application has still to do: pauses and closes

vars == <<opt, leg, turn, out, pairs, closed, app>>

Legs == {Client, Upstream}
Other(x) == IF x = Client THEN Upstream ELSE Client

Init ==
    /\ opt \in Settings
    /\ leg = [x \in Legs |->
          [more |-> opt.bytes[x], in |-> 0, ended |-> FALSE, queue |-> 0, half |-> "open",
           conn |-> "open", cause |-> "none", wake |-> FALSE, drains |-> 0, waiting |-> FALSE,
           paused |-> {}]]
    /\ turn = [x \in Legs |-> [pc |-> IF x = Client THEN "dialed" ELSE "idle", drains |-> 0]]
    /\ out = [x \in Legs |-> "idle"]
    /\ pairs = {} /\ closed = FALSE
    /\ app = [pauses |-> opt.pauses, closes |-> opt.closes]

(***************************************************************************)
(* The connection of a leg.                                                *)
(***************************************************************************)
isOpen(x) == leg[x].conn = "open"

\* bridgeConnGone: closing or closed.
bridgeConnGone(x) == leg[x].conn # "open"

Woken(r) == [r EXCEPT !.wake = @ \/ r.conn \in {"open", "draining"}]

\* Pause and Resume of one owner; the last release asks for a callback.
Released(r, o) ==
    LET s == [r EXCEPT !.paused = @ \ {o}]
    IN  IF o \in r.paused /\ s.paused = {} THEN Woken(s) ELSE s

CloseWrite(r) == IF r.conn = "open" /\ r.half = "open" THEN [r EXCEPT !.half = "shut"] ELSE r

CloseGracefully(r) ==
    IF r.conn = "open" THEN [r EXCEPT !.conn = "draining", !.cause = "nil"] ELSE r

\* CloseWith: output still queued is dropped.
CloseWith(r, cause) ==
    IF r.conn \in {"open", "draining"} THEN [r EXCEPT !.conn = "closing", !.cause = cause, !.queue = 0] ELSE r

\* The socket delivers while nobody pauses the leg and its bound has room.
Receive(x) ==
    /\ leg[x].conn \in {"open", "draining"} /\ turn[x].pc = "idle"
    /\ leg[x].paused = {} /\ leg[x].in < InboundLimit
    /\ \/ /\ leg[x].more > 0
          /\ leg' = [leg EXCEPT ![x] = Woken([@ EXCEPT !.more = @ - 1, !.in = @ + 1])]
       \/ /\ leg[x].more = 0 /\ x \in opt.ends /\ ~leg[x].ended
          /\ leg' = [leg EXCEPT ![x] = Woken([@ EXCEPT !.ended = TRUE])]
    /\ UNCHANGED <<opt, turn, out, pairs, closed, app>>

\* A send takes a byte of the queue, and reports it.
Send(x) ==
    /\ leg[x].conn \in {"open", "draining"} /\ leg[x].queue > 0 /\ out[x] = "idle"
    /\ leg' = [leg EXCEPT ![x].queue = @ - 1]
    /\ out' = [out EXCEPT ![x] = "sent"]
    /\ UNCHANGED <<opt, turn, pairs, closed, app>>

\* The writing half is shut behind the queue; both halves ended, or a
\* graceful close drained, close the connection.
Ends(x) ==
    /\ leg[x].queue = 0 /\ out[x] = "idle" /\ turn[x].pc = "idle"
    /\ \/ /\ leg[x].conn = "draining"
          /\ leg' = [leg EXCEPT ![x].conn = "closing"]
       \/ /\ isOpen(x) /\ leg[x].half = "shut" /\ leg[x].ended /\ leg[x].in = 0
          /\ leg[x].paused = {} /\ ~leg[x].wake
          /\ leg' = [leg EXCEPT ![x] = CloseWith(@, "eof")]
    /\ UNCHANGED <<opt, turn, out, pairs, closed, app>>

(***************************************************************************)
(* The application pauses and resumes a leg, and closes one.               *)
(***************************************************************************)
AppPause(x) ==
    /\ x \in app.pauses /\ isOpen(x)
    /\ app' = [app EXCEPT !.pauses = @ \ {x}]
    /\ leg' = [leg EXCEPT ![x].paused = @ \cup {"app"}]
    /\ UNCHANGED <<opt, turn, out, pairs, closed>>

AppResume(x) ==
    /\ "app" \in leg[x].paused
    /\ leg' = [leg EXCEPT ![x] = Released(@, "app")]
    /\ UNCHANGED <<opt, turn, out, pairs, closed, app>>

AppClose(x, cause) ==
    /\ <<x, cause>> \in app.closes
    /\ app' = [app EXCEPT !.closes = @ \ {<<x, cause>>}]
    /\ leg' = [leg EXCEPT ![x] = IF cause = "nil" THEN CloseGracefully(@) ELSE CloseWith(@, cause)]
    /\ UNCHANGED <<opt, turn, out, pairs, closed>>

(***************************************************************************)
(* Pair, from the client's OnOpen once the dial returned.                  *)
(***************************************************************************)
Pair ==
    /\ turn[Client].pc = "dialed"
    /\ pairs' = Legs
    /\ turn' = [turn EXCEPT ![Client].pc = "paired"]
    /\ UNCHANGED <<opt, leg, out, closed, app>>

\* A leg that closed before the pair was published is not told: look again.
PairCheck ==
    /\ turn[Client].pc = "paired"
    /\ turn' = [turn EXCEPT ![Client].pc = "idle"]
    /\ IF closed \/ \E x \in Legs : bridgeConnGone(x)
       THEN /\ closed' = TRUE
            /\ pairs' = {}
            /\ leg' = [x \in Legs |-> CloseWith(leg[x], "abort")]
       ELSE /\ leg' = [x \in Legs |-> Woken(leg[x])]
            /\ UNCHANGED <<pairs, closed>>
    /\ UNCHANGED <<opt, out, app>>

(***************************************************************************)
(* OnRead of leg x: the source; its partner is the destination.            *)
(***************************************************************************)
Goto(x, place) == turn' = [turn EXCEPT ![x].pc = place]

\* The callback starts unless the leg is paused, which its release redoes.
OnRead(x) ==
    /\ turn[x].pc = "idle" /\ leg[x].wake /\ leg[x].conn \in {"open", "draining"}
    /\ LET r == [leg[x] EXCEPT !.wake = FALSE]
       IN  IF leg[x].paused # {} \/ x \notin pairs
           THEN leg' = [leg EXCEPT ![x] = r] /\ UNCHANGED turn
           ELSE IF closed
           THEN /\ leg' = [leg EXCEPT ![x] = LET d == [r EXCEPT !.in = 0]
                                             IN  IF r.ended THEN CloseGracefully(d) ELSE d]
                /\ UNCHANGED turn
           ELSE /\ leg' = [leg EXCEPT ![x] = r]
                /\ turn' = [turn EXCEPT ![x].pc = "forward", ![x].drains = leg[x].drains]
    /\ UNCHANGED <<opt, out, pairs, closed, app>>

\* WriteTo the destination while it is below the limit; it may refuse a part,
\* but an empty one takes a prefix.
Forward(x) ==
    /\ turn[x].pc = "forward"
    /\ LET y == Other(x)
       IN  IF leg[y].queue >= InboundLimit
           THEN Goto(x, "behind") /\ UNCHANGED leg
           ELSE IF leg[x].in > 0 /\ (~isOpen(y) \/ leg[y].half # "open")
           THEN Goto(x, "idle") /\ UNCHANGED leg
           ELSE \E n \in 0 .. leg[x].in :
                   /\ leg[y].queue = 0 /\ leg[x].in > 0 => n > 0
                   /\ n < leg[x].in => opt.refuses
                   /\ leg' = [leg EXCEPT ![x].in = @ - n, ![y].queue = @ + n]
                   /\ Goto(x, "behind")
    /\ UNCHANGED <<opt, out, pairs, closed, app>>

\* Everything forwarded: the end follows.  Otherwise the leg marks that it waits.
Behind(x) ==
    /\ turn[x].pc = "behind"
    /\ IF leg[x].in = 0
       THEN /\ leg' = IF leg[x].ended THEN [leg EXCEPT ![Other(x)] = CloseWrite(@)] ELSE leg
            /\ Goto(x, "idle")
       ELSE leg' = [leg EXCEPT ![x].waiting = TRUE] /\ Goto(x, "waiting")
    /\ UNCHANGED <<opt, out, pairs, closed, app>>

\* A drain that came before the mark did not see it: the leg goes on by itself.
Wait(x) ==
    /\ turn[x].pc = "waiting"
    /\ IF leg[x].drains # turn[x].drains
       THEN /\ leg' = IF leg[x].waiting THEN [leg EXCEPT ![x] = Woken([@ EXCEPT !.waiting = FALSE])] ELSE leg
            /\ Goto(x, "idle")
       ELSE Goto(x, IF leg[x].in >= InboundLimit THEN "hold" ELSE "idle") /\ UNCHANGED leg
    /\ UNCHANGED <<opt, out, pairs, closed, app>>

\* hold: pause, refused to a closing leg, and look at the mark once more.
hold(x) ==
    /\ turn[x].pc = "hold"
    /\ IF isOpen(x)
       THEN leg' = [leg EXCEPT ![x].paused = @ \cup {"bridge"}] /\ Goto(x, "held")
       ELSE Goto(x, "idle") /\ UNCHANGED leg
    /\ UNCHANGED <<opt, out, pairs, closed, app>>

\* Mutant: a drain that came before the pause is not looked for.
HoldRest(x) ==
    /\ turn[x].pc = "held"
    /\ Goto(x, "idle")
    /\ UNCHANGED <<opt, leg, out, pairs, closed, app>>

HoldAgain(x) ==
    /\ turn[x].pc = "held"
    /\ leg' = IF leg[x].waiting THEN leg ELSE [leg EXCEPT ![x] = Released(@, "bridge")]
    /\ Goto(x, "idle")
    /\ UNCHANGED <<opt, out, pairs, closed, app>>

(***************************************************************************)
(* resumeSource, on a report that leg y sent: y is the destination.        *)
(***************************************************************************)
Step(y, place) == out' = [out EXCEPT ![y] = place]

resumeSource(y) ==
    /\ out[y] = "sent"
    /\ IF leg[y].queue > InboundLimit \div 2 \/ y \notin pairs
       THEN Step(y, "idle") /\ UNCHANGED leg
       ELSE /\ leg' = [leg EXCEPT ![Other(y)].drains = @ + 1]
            /\ Step(y, "claim")
    /\ UNCHANGED <<opt, turn, pairs, closed, app>>

ClaimWaiting(y) ==
    /\ out[y] = "claim"
    /\ leg' = [leg EXCEPT ![Other(y)].waiting = FALSE]
    /\ Step(y, IF leg[Other(y)].waiting THEN "release" ELSE "idle")
    /\ UNCHANGED <<opt, turn, pairs, closed, app>>

\* A paused source goes on through the release, another through Wake.
ReleaseSource(y) ==
    /\ out[y] = "release"
    /\ leg' = [leg EXCEPT ![Other(y)] = IF "bridge" \in @.paused THEN Released(@, "bridge") ELSE Woken(@)]
    /\ Step(y, "idle")
    /\ UNCHANGED <<opt, turn, pairs, closed, app>>

(***************************************************************************)
(* OnClose of leg y, in its last turn.                                     *)
(***************************************************************************)
OnClose(y) ==
    /\ leg[y].conn = "closing" /\ turn[y].pc = "idle" /\ out[y] = "idle"
    /\ pairs' = pairs \ {y}
    /\ closed' = (closed \/ y \in pairs)
    /\ LET told == y \in pairs /\ ~closed
           clean == leg[y].cause \in {"nil", "eof"}
           x == Other(y)
       IN  /\ Goto(y, IF told /\ clean THEN "unmark" ELSE "idle")
           /\ leg' = [leg EXCEPT ![y].conn = "closed", ![y].wake = FALSE,
                         ![x] = IF ~told THEN @ ELSE IF clean THEN CloseWrite(@) ELSE CloseWith(@, "abort")]
    /\ UNCHANGED <<opt, out, app>>

\* The partner's next callback takes the orphan path: clear its mark, and
\* release the bridge's pause or wake it.
Unmark(y) ==
    /\ turn[y].pc = "unmark"
    /\ leg' = [leg EXCEPT ![Other(y)].waiting = FALSE]
    /\ Goto(y, "unpause")
    /\ UNCHANGED <<opt, out, pairs, closed, app>>

Unpause(y) ==
    /\ turn[y].pc = "unpause"
    /\ leg' = [leg EXCEPT ![Other(y)] = IF "bridge" \in @.paused THEN Released(@, "bridge") ELSE Woken(@)]
    /\ Goto(y, "idle")
    /\ UNCHANGED <<opt, out, pairs, closed, app>>

\* Nothing is on its way: no callback runs or is due, no report, no close.
AtRest ==
    \A x \in Legs :
        /\ turn[x].pc = "idle" /\ out[x] = "idle"
        /\ leg[x].conn \in {"open", "draining"} => ~leg[x].wake
        /\ leg[x].conn # "closing"
        /\ \/ leg[x].conn = "draining"
           \/ isOpen(x) /\ leg[x].half = "shut" /\ leg[x].ended /\ leg[x].in = 0 /\ leg[x].paused = {}
           => leg[x].queue > 0

Resting == AtRest /\ UNCHANGED vars

Next ==
    \/ Pair \/ PairCheck \/ Resting
    \/ \E x \in Legs :
          \/ Receive(x) \/ Send(x) \/ Ends(x) \/ AppPause(x) \/ AppResume(x)
          \/ \E cause \in {"nil", "eof", "abort"} : AppClose(x, cause)
          \/ OnRead(x) \/ Forward(x) \/ Behind(x) \/ Wait(x) \/ hold(x) \/ HoldAgain(x)
          \/ resumeSource(x) \/ ClaimWaiting(x) \/ ReleaseSource(x)
          \/ OnClose(x) \/ Unmark(x) \/ Unpause(x)

Spec == Init /\ [][Next]_vars

\* BridgeFlows: with both legs of a pair open, input left unforwarded by a
\* leg the application does not pause is waiting for a destination that has
\* output queued, so a drain will come for it, and the bridge's own pause never
\* outlives that wait; and an end of stream with everything before it
\* forwarded has been passed on.
BridgeFlows ==
    AtRest /\ ~closed /\ (\A x \in Legs : isOpen(x)) =>
        \A x \in Legs :
            /\ "bridge" \in leg[x].paused => leg[x].waiting
            /\ "app" \notin leg[x].paused /\ leg[x].in > 0 =>
                  leg[x].waiting /\ leg[Other(x)].queue > 0
            /\ "app" \notin leg[x].paused /\ leg[x].in = 0 /\ leg[x].ended =>
                  leg[Other(x)].half = "shut"

\* OrphanEnds: once one leg has closed, the other is not left paused by the
\* bridge; its output half is ended, what it still receives is dropped, and
\* it has closed if its stream ended or its partner aborted.
OrphanEnds ==
    AtRest /\ closed =>
        \A x \in Legs : isOpen(x) =>
            /\ leg[Other(x)].conn = "closed" /\ leg[Other(x)].cause # "abort"
            /\ leg[x].half = "shut"
            /\ "bridge" \notin leg[x].paused
            /\ leg[x].paused = {} => leg[x].in = 0 /\ ~leg[x].ended

\* PairedOrClosed: a leg that stays open has its pair, and the pair knows
\* whether the other leg has closed, also when that close came before the
\* pair was published.
PairedOrClosed ==
    AtRest => \A x \in Legs : isOpen(x) => x \in pairs /\ (closed <=> leg[Other(x)].conn = "closed")
=============================================================================

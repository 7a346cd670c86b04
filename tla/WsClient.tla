------------------------------ MODULE WsClient ------------------------------
(***************************************************************************)
(* The pull client of uws and the Dialer it comes from: DialClient, the    *)
(* queue between OnMessage and ReadMessage, the two channels that release  *)
(* a callback blocked on it, and Dialer.Close racing a dial at every step. *)
(***************************************************************************)
EXTENDS Naturals, Sequences, FiniteSets

CONSTANTS Messages,  \* messages the peer sends
          Cap,       \* clientQueueMessages
          Closes     \* what may happen: "app" Client.Close, "dialer" Dialer.Close,
                     \* "peer" the peer's end, "deadline" the read deadline, "heartbeat"

Threads == {"dial", "turn", "read", "app", "dialer"}

VARIABLES
    th,   \* the operations each goroutine has still to run
    d,    \* the Dialer: closed, lifecycle canceled, once, start's result, Events' state
    cl,   \* the client: queue, done, stop, ended, event, tracked, ready, read deadline
    net,  \* the connection: none, connecting, open, closing, gone; messages sent by the
          \* peer; whether OnOpen ran; closing by this end
    out   \* what DialClient returned, what ReadMessage returned

vars == <<th, d, cl, net, out>>

Init ==
    /\ th = [t \in Threads |-> IF t = "dial" THEN <<"closedCause", "attempt", "start", "connect", "ready">>
                               ELSE IF t = "read" THEN <<"dialed">> ELSE <<>>]
    /\ d = [closed |-> FALSE, canceled |-> FALSE, started |-> "no", result |-> "none", events |-> "none"]
    /\ cl = [queue |-> <<>>, done |-> FALSE, stop |-> FALSE, ended |-> FALSE, event |-> FALSE,
             tracked |-> FALSE, ready |-> "none", deadline |-> FALSE]
    /\ net = [raw |-> "none", sent |-> 0, closing |-> FALSE, held |-> 0, used |-> {}]
    /\ out = [dial |-> "none", got |-> <<>>, end |-> FALSE]

At(t, op) == th[t] # <<>> /\ Head(th[t]) = op
Go(t, ops) == th' = [th EXCEPT ![t] = ops \o Tail(@)]
Drop(t) == th' = [th EXCEPT ![t] = <<>>]

\* The transport is asked to close; OnClose follows on the turn.
Closing(n) == [n EXCEPT !.raw = IF @ = "open" THEN "closing" ELSE @]

-----------------------------------------------------------------------------
(* Dialer: DialClient, start, and its Events.                              *)

closedCause ==
    /\ At("dial", "closedCause")
    /\ IF d.closed THEN Drop("dial") /\ out' = [out EXCEPT !.dial = "error"]
       ELSE Go("dial", <<>>) /\ UNCHANGED out
    /\ UNCHANGED <<d, cl, net>>

\* newAttemptContext: checked under closeMu, so Close cancels what it misses.
newAttemptContext ==
    /\ At("dial", "attempt")
    /\ IF d.closed THEN Drop("dial") /\ out' = [out EXCEPT !.dial = "error"]
       ELSE Go("dial", <<>>) /\ UNCHANGED out
    /\ UNCHANGED <<d, cl, net>>

\* start: once, then its result or the attempt's context.
start ==
    /\ At("dial", "start")
    /\ IF d.started = "no"
       THEN /\ d' = IF d.closed THEN [d EXCEPT !.started = "done", !.result = "error"]
                    ELSE [d EXCEPT !.started = "serving", !.events = "new"]
            /\ UNCHANGED <<th, out>>
       ELSE /\ UNCHANGED d
            /\ \/ /\ d.result # "none"
                  /\ IF d.result = "ok" THEN Go("dial", <<>>) /\ UNCHANGED out
                     ELSE Drop("dial") /\ out' = [out EXCEPT !.dial = "error"]
               \/ d.canceled /\ Drop("dial") /\ out' = [out EXCEPT !.dial = "error"]
    /\ UNCHANGED <<cl, net>>

publishStartResult(r) == IF d.result = "none" THEN r ELSE d.result

\* The Serve goroutine: OnStart publishes; a Serve that fails or ends
\* publishes an error and closes the Dialer.
OnStart ==
    /\ d.events = "new"
    /\ d' = [d EXCEPT !.events = IF d.closed THEN "closed" ELSE "up",
                      !.result = publishStartResult(IF d.closed THEN "error" ELSE "ok")]
    /\ UNCHANGED <<th, cl, net, out>>

ServeEnds ==
    /\ d.events \in {"closed", "new"} /\ th["dialer"] = <<>>
    /\ d' = [d EXCEPT !.events = "over", !.result = publishStartResult("error")]
    /\ th' = [th EXCEPT !["dialer"] = IF d.closed THEN <<>> ELSE <<"lock", "releaseClients", "closeEvents">>]
    /\ UNCHANGED <<cl, net, out>>

\* DialContext: an attempt canceled, or Events closed, makes no connection.
connect ==
    /\ At("dial", "connect")
    /\ \/ /\ d.canceled \/ d.events # "up"
          /\ Drop("dial") /\ out' = [out EXCEPT !.dial = "error"] /\ UNCHANGED <<net, cl>>
       \/ /\ d.events = "up" /\ ~d.canceled
          /\ net' = [net EXCEPT !.raw = "connecting"]
          /\ Go("dial", <<>>) /\ UNCHANGED <<out, cl>>
    /\ UNCHANGED d

\* DialClient waits for ready: nil after OnOpen, the close otherwise.
ready ==
    /\ At("dial", "ready") /\ cl.ready # "none"
    /\ out' = [out EXCEPT !.dial = IF cl.ready = "open" THEN "client" ELSE "error"]
    /\ cl' = [cl EXCEPT !.ready = "none"]
    /\ Go("dial", <<>>) /\ UNCHANGED <<d, net>>

\* Dialer.Close.
DialerClose ==
    /\ "dialer" \in Closes \ net.used /\ th["dialer"] = <<>>
    /\ net' = [net EXCEPT !.used = @ \cup {"dialer"}]
    /\ th' = [th EXCEPT !["dialer"] = <<"lock", "releaseClients", "closeEvents">>]
    /\ UNCHANGED <<d, cl, out>>

closeLocked ==
    /\ At("dialer", "lock")
    /\ IF d.closed THEN Drop("dialer") /\ UNCHANGED <<d, net>>
       ELSE /\ d' = [d EXCEPT !.closed = TRUE, !.canceled = TRUE]
            /\ net' = IF net.raw = "connecting" THEN [net EXCEPT !.raw = "failing"] ELSE net
            /\ Go("dialer", <<>>)
    /\ UNCHANGED <<cl, out>>

releaseClients ==
    /\ At("dialer", "releaseClients")
    /\ cl' = [cl EXCEPT !.stop = @ \/ cl.tracked]
    /\ Go("dialer", <<>>) /\ UNCHANGED <<d, net, out>>

closeEvents ==
    /\ At("dialer", "closeEvents")
    /\ d' = [d EXCEPT !.events = IF @ = "up" THEN "closed" ELSE @]
    /\ net' = IF d.events = "up" THEN Closing(net) ELSE net
    /\ Go("dialer", <<>>) /\ UNCHANGED <<cl, out>>

-----------------------------------------------------------------------------
(* pullHandler: the connection's callbacks, one after the other.           *)

\* The handshake is done. trackClient registers first and checks after.
OnOpen ==
    /\ th["turn"] = <<>> /\ net.raw = "connecting"
    /\ net' = [net EXCEPT !.raw = "open"]
    /\ th' = [th EXCEPT !["turn"] = <<"track", "trackCheck", "opened">>]
    /\ UNCHANGED <<d, cl, out>>

track ==
    /\ At("turn", "track") /\ cl' = [cl EXCEPT !.tracked = TRUE]
    /\ Go("turn", <<>>) /\ UNCHANGED <<d, net, out>>

trackCheck ==
    /\ At("turn", "trackCheck") /\ cl' = [cl EXCEPT !.stop = @ \/ d.closed]
    /\ Go("turn", <<>>) /\ UNCHANGED <<d, net, out>>

opened ==
    /\ At("turn", "opened") /\ cl' = [cl EXCEPT !.ready = "open"]
    /\ Go("turn", <<>>) /\ UNCHANGED <<d, net, out>>

\* OnMessage: a connection this end is closing drops the message unseen.
OnMessage ==
    /\ th["turn"] = <<>> /\ net.raw \in {"open", "closing"} /\ net.sent < Messages
    /\ net' = [net EXCEPT !.sent = @ + 1, !.held = IF net.closing THEN 0 ELSE net.sent + 1]
    /\ th' = [th EXCEPT !["turn"] = IF net.closing THEN <<>> ELSE <<"enqueue", "offer">>]
    /\ UNCHANGED <<d, cl, out>>

\* enqueue gives up first, whatever room there is;
enqueue ==
    /\ At("turn", "enqueue")
    /\ IF cl.stop \/ cl.done THEN Drop("turn") ELSE Go("turn", <<>>)
    /\ UNCHANGED <<d, cl, net, out>>

\* then it takes room, or waits for it, for an end, or for the heartbeat.
offer ==
    /\ At("turn", "offer")
    /\ IF Len(cl.queue) < Cap THEN cl' = [cl EXCEPT !.queue = Append(@, net.held)] /\ Go("turn", <<>>)
       ELSE Go("turn", <<"wait">>) /\ UNCHANGED cl
    /\ UNCHANGED <<d, net, out>>

waitForRoom ==
    /\ At("turn", "wait")
    /\ \/ /\ Len(cl.queue) < Cap
          /\ cl' = [cl EXCEPT !.queue = Append(@, net.held)] /\ Go("turn", <<>>) /\ UNCHANGED net
       \/ /\ cl.done \/ cl.stop
          /\ Go("turn", <<>>) /\ UNCHANGED <<cl, net>>
       \/ /\ "heartbeat" \in Closes \ net.used
          /\ net' = Closing([net EXCEPT !.used = @ \cup {"heartbeat"}, !.closing = TRUE])
          /\ cl' = [cl EXCEPT !.stop = TRUE] /\ UNCHANGED th
    /\ UNCHANGED <<d, out>>

\* OnClose: the event is stored before intake ends, and before ended.
OnClose ==
    /\ th["turn"] = <<>> /\ net.raw \in {"closing", "failing"}
    /\ net' = [net EXCEPT !.raw = "gone"]
    /\ th' = [th EXCEPT !["turn"] = <<"stopDeadlines", "event", "finish", "ended", "closedReady">>]
    /\ UNCHANGED <<d, cl, out>>

closeStep ==
    /\ th["turn"] # <<>> /\ Head(th["turn"]) \in {"stopDeadlines", "event", "finish", "ended", "closedReady"}
    /\ LET op == Head(th["turn"]) IN
        cl' = CASE op = "stopDeadlines" -> [cl EXCEPT !.tracked = FALSE, !.deadline = FALSE]
                [] op = "event" -> [cl EXCEPT !.event = TRUE]
                [] op = "finish" -> [cl EXCEPT !.done = TRUE]
                [] op = "ended" -> [cl EXCEPT !.ended = TRUE]
                [] op = "closedReady" -> [cl EXCEPT !.ready = IF @ = "none" THEN "closed" ELSE @]
    /\ Go("turn", <<>>) /\ UNCHANGED <<d, net, out>>

\* The connection ends at the peer's, or a handshake fails.
PeerEnds ==
    /\ "peer" \in Closes \ net.used /\ net.raw \in {"connecting", "open"}
    /\ net' = [net EXCEPT !.used = @ \cup {"peer"}, !.raw = IF @ = "open" THEN "closing" ELSE "failing"]
    /\ UNCHANGED <<th, d, cl, out>>

-----------------------------------------------------------------------------
(* The application: Client.Close, the read deadline, ReadMessage.          *)

ClientClose ==
    /\ "app" \in Closes \ net.used /\ out.dial = "client" /\ th["app"] = <<>>
    /\ net' = [net EXCEPT !.used = @ \cup {"app"}]
    /\ th' = [th EXCEPT !["app"] = <<"finishApp", "markClosing">>]
    /\ UNCHANGED <<d, cl, out>>

finish ==
    /\ At("app", "finishApp") /\ cl' = [cl EXCEPT !.done = TRUE]
    /\ Go("app", <<>>) /\ UNCHANGED <<d, net, out>>

\* Conn.Close, or the failStream of the deadline: markClosing and
\* abortTransport both release the pull client.
markClosing ==
    /\ At("app", "markClosing")
    /\ net' = Closing([net EXCEPT !.closing = TRUE])
    /\ cl' = [cl EXCEPT !.stop = TRUE]
    /\ Go("app", <<>>) /\ UNCHANGED <<d, out>>

setReadDeadline ==
    /\ "deadline" \in Closes \ net.used /\ out.dial = "client"
    /\ net' = [net EXCEPT !.used = @ \cup {"deadline"}]
    /\ cl' = [cl EXCEPT !.deadline = ~cl.ended]
    /\ UNCHANGED <<th, d, out>>

expireReadDeadline ==
    /\ cl.deadline /\ th["app"] = <<>>
    /\ cl' = [cl EXCEPT !.deadline = FALSE]
    /\ th' = [th EXCEPT !["app"] = <<"markClosing">>]
    /\ UNCHANGED <<d, net, out>>

\* ReadMessage, called until it reports the close.
ReadMessage ==
    /\ At("read", "dialed")
    /\ IF out.dial = "client" THEN Go("read", <<"select">>) ELSE out.dial = "error" /\ Drop("read")
    /\ UNCHANGED <<d, cl, net, out>>

Take == cl' = [cl EXCEPT !.queue = Tail(@)] /\ out' = [out EXCEPT !.got = Append(@, Head(cl.queue))]

select ==
    /\ At("read", "select")
    /\ \/ cl.queue # <<>> /\ Take /\ UNCHANGED th
       \/ cl.done /\ Go("read", <<"drain">>) /\ UNCHANGED <<cl, out>>
    /\ UNCHANGED <<d, net>>

drain ==
    /\ At("read", "drain")
    /\ IF cl.queue # <<>> THEN Take /\ Go("read", <<"select">>)
       ELSE Go("read", <<"closed">>) /\ UNCHANGED <<cl, out>>
    /\ UNCHANGED <<d, net>>

reportClose ==
    /\ At("read", "closed") /\ cl.event
    /\ out' = [out EXCEPT !.end = TRUE]
    /\ Go("read", <<>>) /\ UNCHANGED <<d, cl, net>>

\* Nothing is left to do: the client was never dialed, or it is over; or the
\* connection is open and nobody closes it.
Resting ==
    /\ th["dial"] = <<>> /\ th["turn"] = <<>> /\ th["app"] = <<>> /\ th["dialer"] = <<>>
    /\ net.raw \in {"none", "gone", "open"} /\ UNCHANGED vars

Next ==
    \/ closedCause \/ newAttemptContext \/ start \/ OnStart \/ ServeEnds \/ connect \/ ready
    \/ DialerClose \/ closeLocked \/ releaseClients \/ closeEvents
    \/ OnOpen \/ track \/ trackCheck \/ opened \/ OnMessage \/ enqueue \/ offer \/ waitForRoom \/ OnClose \/ closeStep
    \/ PeerEnds \/ ClientClose \/ finish \/ markClosing \/ setReadDeadline \/ expireReadDeadline
    \/ ReadMessage \/ select \/ drain \/ reportClose \/ Resting

Spec == Init /\ [][Next]_vars

-----------------------------------------------------------------------------
(* Properties                                                              *)

\* What ReadMessage returned and what waits is the beginning of what the peer
\* sent: a close loses messages from one point on, never one between two
\* others (enqueue).
NoGaps == \A i \in DOMAIN (out.got \o cl.queue) : (out.got \o cl.queue)[i] = i

\* A full queue holds up no close this end started: once Client.Close, a
\* deadline, the heartbeat or Dialer.Close is through, a callback that waits
\* for room has a channel to leave by (release, releaseClients, trackClient).
CloseReleases ==
    /\ (net.closing /\ th["app"] = <<>>) => cl.stop
    /\ (d.closed /\ th["dialer"] = <<>> /\ At("turn", "wait")) => cl.stop \/ cl.done
    /\ (net.raw = "gone" /\ th["turn"] = <<>>) =>
         cl.event /\ cl.done /\ cl.ended /\ ~cl.tracked /\ (out.dial # "none" \/ cl.ready # "none")
=============================================================================

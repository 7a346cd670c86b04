------------------------------- MODULE UDPPeers -----------------------------
(***************************************************************************)
(* The children of a UDP server: logical connections that share its socket *)
(* and its turns.  A datagram of a new source creates one, DialPeer        *)
(* another, which is owed its OnOpen; a close or a Wake from any goroutine *)
(* is queued for the server's turn, which opens, releases and wakes them;  *)
(* the server's release takes every child and every queue.                 *)
(***************************************************************************)
EXTENDS Naturals, Sequences, SequencesExt

CONSTANTS
    Children,  \* the connections that may come to be
    Keys,      \* source addresses
    Settings   \* records: datagrams, DialPeer calls, closes and wakes, whether callbacks
               \* close or wake their child, and whether the server closes

VARIABLES
    opt,
    child,  \* per child: its key, close phase, openOwed, ioEventClose, and callbacks so far
    peers,  \* udp.peers: the child of each key
    queue,  \* udp.opening, udp.closing, udp.waking
    server, \* close phase, ioEventPeers, an unread datagram's event, the task's claim
    turn,   \* the server's turn: its place, and what it took from the queues
    hand,   \* a caller's place per child: about to queue its request, or to schedule
    left    \* what the environment has still to do

vars == <<opt, child, peers, queue, server, turn, hand, left>>

None == "none"

Init ==
    /\ opt \in Settings
    /\ child = [c \in Children |-> [key |-> None, phase |-> "unborn", owed |-> FALSE, due |-> FALSE,
                                    opens |-> 0, closes |-> 0, misread |-> FALSE]]
    /\ peers = [k \in Keys |-> None]
    /\ queue = [opening |-> <<>>, closing |-> <<>>, waking |-> <<>>]
    /\ server = [phase |-> "open", asked |-> FALSE, claimed |-> FALSE]
    /\ turn = [pc |-> "idle", opening |-> <<>>, remaining |-> 0]
    /\ hand = [c \in Children |-> "idle"]
    /\ left = [packets |-> opt.packets, dials |-> opt.dials, calls |-> opt.calls]

isClosing(c) == child[c].phase # "open"

Unborn == {c \in Children : child[c].phase = "unborn"}

Fresh == CHOOSE c \in Unborn : TRUE

Born(k, owed) == [child[Fresh] EXCEPT !.key = k, !.phase = "open", !.owed = owed]

\* fireOnOpen of a child that is owed it, or new.
Opened(r) == [r EXCEPT !.owed = FALSE, !.opens = @ + 1]

OpenedIfOwed(r) == IF r.owed THEN Opened(r) ELSE r

\* fireOnRead: noted if it runs outside the child's life.
Read(r) == [r EXCEPT !.misread = @ \/ r.opens # 1 \/ r.closes # 0]

\* fireCloseCallback: OnOpen first when it is owed.
fireCloseCallback(r) ==
    [OpenedIfOwed(r) EXCEPT !.phase = "delivered", !.due = FALSE, !.closes = @ + 1]

\* scheduleIO(ioEventPeers): folded in, and the idle server's task claimed.
scheduleIO == server' = IF server.phase = "open" THEN [server EXCEPT !.asked = TRUE, !.claimed = TRUE] ELSE server

(***************************************************************************)
(* Callers of any goroutine.                                               *)
(***************************************************************************)
\* Mutant: a closing child leaves the map without a place in the closing queue.
NothingDisplaced(k) == <<>>

Displaced(k) == IF peers[k] = None THEN <<>> ELSE <<peers[k]>>

\* dialPeer: a closing child in the way moves to the closing queue.
dialPeer(k) ==
    /\ left.dials > 0 /\ Unborn # {} /\ server.phase = "open"
    /\ IF peers[k] = None THEN TRUE ELSE isClosing(peers[k])
    /\ left' = [left EXCEPT !.dials = @ - 1]
    /\ child' = [child EXCEPT ![Fresh] = Born(k, TRUE)]
    /\ peers' = [peers EXCEPT ![k] = Fresh]
    /\ queue' = [queue EXCEPT !.opening = Append(@, Fresh),
                              !.closing = @ \o Displaced(k)]
    /\ hand' = [hand EXCEPT ![Fresh] = "schedule"]
    /\ UNCHANGED <<opt, server, turn>>

\* CloseWith, or a Wake, of a child; queuePeer follows.
Request(c) ==
    /\ hand[c] = "idle" /\ child[c].phase = "open" /\ left.calls > 0 /\ server.phase = "open"
    /\ left' = [left EXCEPT !.calls = @ - 1]
    /\ \/ /\ child' = [child EXCEPT ![c].phase = "requested"]
          /\ hand' = [hand EXCEPT ![c] = "close"]
       \/ hand' = [hand EXCEPT ![c] = "wake"] /\ UNCHANGED child
    /\ UNCHANGED <<opt, peers, queue, server, turn>>

\* queuePeer: the released server owns every child and every request already.
queuePeer(c) ==
    /\ hand[c] \in {"close", "wake"}
    /\ IF server.phase = "released"
       THEN hand' = [hand EXCEPT ![c] = "idle"] /\ UNCHANGED queue
       ELSE /\ queue' = IF hand[c] = "wake" THEN [queue EXCEPT !.waking = Append(@, c)]
                                            ELSE [queue EXCEPT !.closing = Append(@, c)]
            /\ hand' = [hand EXCEPT ![c] = "schedule"]
    /\ UNCHANGED <<opt, child, peers, server, turn, left>>

Schedule(c) ==
    /\ hand[c] = "schedule"
    /\ scheduleIO
    /\ hand' = [hand EXCEPT ![c] = "idle"]
    /\ UNCHANGED <<opt, child, peers, queue, turn, left>>

\* Listener.Close, which the server's turn carries out.
CloseServer ==
    /\ opt.closes /\ server.phase = "open"
    /\ server' = [server EXCEPT !.phase = "requested", !.claimed = TRUE]
    /\ UNCHANGED <<opt, child, peers, queue, turn, hand, left>>

(***************************************************************************)
(* The server's turn.  A callback of a child may close it or wake it, and  *)
(* then queues the request itself.                                         *)
(***************************************************************************)
At(place) == turn.pc = place

\* What OnRead did: nothing, or a request the child's own callback queued.
Answer(r, what) == IF what = "close" THEN [Read(r) EXCEPT !.phase = "requested"] ELSE Read(r)

Queued(q, c, what) ==
    CASE what = "close" -> [q EXCEPT !.closing = Append(@, c)]
      [] what = "wake"  -> [q EXCEPT !.waking = Append(@, c)]
      [] OTHER          -> q

Answers == {"nothing"} \cup (IF opt.answers THEN {"close", "wake"} ELSE {})

\* A readable socket starts a turn, which takes a datagram of source k: it
\* resolves or creates the child, opens it if that is owed, and reads.
handleUDPPacket(k) ==
    /\ (At("idle") /\ server.phase = "open") \/ At("settle")
    /\ left.packets > 0
    /\ left' = [left EXCEPT !.packets = @ - 1]
    /\ IF peers[k] = None
       THEN /\ Unborn # {}
            /\ child' = [child EXCEPT ![Fresh] = Read(Opened(Born(k, FALSE)))]
            /\ peers' = [peers EXCEPT ![k] = Fresh]
            /\ UNCHANGED <<queue, server>>
       ELSE /\ \E what \in (IF isClosing(peers[k]) THEN {"nothing"} ELSE Answers) :
                  LET r == OpenedIfOwed(child[peers[k]])
                  IN  /\ child' = [child EXCEPT ![peers[k]] = IF isClosing(peers[k]) THEN r ELSE Answer(r, what)]
                      /\ queue' = Queued(queue, peers[k], what)
                      /\ server' = IF what = "nothing" THEN server ELSE [server EXCEPT !.asked = TRUE]
            /\ UNCHANGED peers
    /\ turn' = [turn EXCEPT !.pc = "settle"]
    /\ UNCHANGED <<opt, hand>>

\* A turn for the requests alone.
Begin ==
    /\ At("idle") /\ server.claimed
    /\ server' = [server EXCEPT !.asked = FALSE]
    /\ turn' = [turn EXCEPT !.pc = "settle"]
    /\ UNCHANGED <<opt, child, peers, queue, hand, left>>

\* settlePeers takes the openings, and counts the requests it will take.
settlePeers ==
    /\ At("settle")
    /\ turn' = [pc |-> "open", opening |-> queue.opening, remaining |-> Len(queue.closing) + Len(queue.waking)]
    /\ queue' = [queue EXCEPT !.opening = <<>>]
    /\ UNCHANGED <<opt, child, peers, server, hand, left>>

SettleOpen ==
    /\ At("open")
    /\ IF turn.opening = <<>>
       THEN turn' = [turn EXCEPT !.pc = "take"] /\ UNCHANGED child
       ELSE /\ child' = [child EXCEPT ![Head(turn.opening)] = OpenedIfOwed(@)]
            /\ turn' = [turn EXCEPT !.opening = Tail(@)]
    /\ UNCHANGED <<opt, peers, queue, server, hand, left>>

\* releaseResources of a child: it leaves the map unless it was replaced.
LeavePeers(c) == IF peers[child[c].key] = c THEN [peers EXCEPT ![child[c].key] = None] ELSE peers

Released(c) == child[c].phase \in {"released", "delivered"}

SettleClose ==
    /\ At("take") /\ turn.remaining > 0 /\ queue.closing # <<>>
    /\ LET c == Head(queue.closing)
       IN  IF Released(c) THEN UNCHANGED <<child, peers>>
           ELSE /\ peers' = LeavePeers(c)
                /\ child' = [child EXCEPT ![c] = fireCloseCallback(@)]
    /\ queue' = [queue EXCEPT !.closing = Tail(@)]
    /\ turn' = [turn EXCEPT !.remaining = @ - 1]
    /\ UNCHANGED <<opt, server, hand, left>>

SettleWake ==
    /\ At("take") /\ turn.remaining > 0 /\ queue.closing = <<>> /\ queue.waking # <<>>
    /\ LET c == Head(queue.waking)
           q == [queue EXCEPT !.waking = Tail(@)]
       IN  IF isClosing(c) THEN queue' = q /\ UNCHANGED <<child, server>>
           ELSE \E what \in Answers :
                   /\ child' = [child EXCEPT ![c] = Answer(@, what)]
                   /\ queue' = Queued(q, c, what)
                   /\ server' = IF what = "nothing" THEN server ELSE [server EXCEPT !.asked = TRUE]
    /\ turn' = [turn EXCEPT !.remaining = @ - 1]
    /\ UNCHANGED <<opt, peers, hand, left>>

\* What was queued meanwhile keeps ioEventPeers set for the next turn.
StillAsked == queue # [opening |-> <<>>, closing |-> <<>>, waking |-> <<>>]

SettleDone ==
    /\ At("take")
    /\ turn.remaining = 0 \/ (queue.closing = <<>> /\ queue.waking = <<>>)
    /\ server' = [server EXCEPT !.asked = StillAsked]
    /\ turn' = [turn EXCEPT !.pc = "end"]
    /\ UNCHANGED <<opt, child, peers, queue, hand, left>>

\* The turn ends; it goes on with a new one when asked.
finishIOTask ==
    /\ At("end") /\ server.phase = "open"
    /\ server' = [server EXCEPT !.claimed = server.asked]
    /\ turn' = [pc |-> "idle", opening |-> <<>>, remaining |-> 0]
    /\ UNCHANGED <<opt, child, peers, queue, hand, left>>

\* releaseResources of the server, at the end of its turn: every child of the
\* map and of the queues is released, and its OnClose scheduled.
releaseResources ==
    /\ At("end") /\ server.phase = "requested"
    /\ LET owned == {peers[k] : k \in Keys} \cup ToSet(queue.opening) \cup ToSet(queue.closing)
                    \cup ToSet(queue.waking)
       IN  child' = [c \in Children |->
              IF c \in owned /\ ~Released(c) THEN [child[c] EXCEPT !.phase = "released", !.due = TRUE]
              ELSE child[c]]
    /\ peers' = [k \in Keys |-> None]
    /\ queue' = [opening |-> <<>>, closing |-> <<>>, waking |-> <<>>]
    /\ server' = [phase |-> "released", asked |-> FALSE, claimed |-> FALSE]
    /\ turn' = [pc |-> "idle", opening |-> <<>>, remaining |-> 0]
    /\ UNCHANGED <<opt, hand, left>>

\* A child's own last turn.
CloseTurn(c) ==
    /\ child[c].due
    /\ child' = [child EXCEPT ![c] = fireCloseCallback(@)]
    /\ UNCHANGED <<opt, peers, queue, server, turn, hand, left>>

Quiet == At("idle") /\ ~server.claimed /\ \A c \in Children : hand[c] = "idle" /\ ~child[c].due

Resting == Quiet /\ UNCHANGED vars

Next ==
    \/ \E k \in Keys : dialPeer(k) \/ handleUDPPacket(k)
    \/ \E c \in Children : Request(c) \/ queuePeer(c) \/ Schedule(c) \/ CloseTurn(c)
    \/ CloseServer \/ Begin \/ settlePeers \/ SettleOpen \/ SettleClose \/ SettleWake
    \/ SettleDone \/ finishIOTask \/ releaseResources \/ Resting

Spec == Init /\ [][Next]_vars

\* PeerLife: a child's callbacks are one OnOpen, then its OnReads, then one
\* OnClose, whichever of the datagram, the opening queue, the close and the
\* server's release comes first.
PeerLife ==
    \A c \in Children :
        /\ child[c].opens <= 1 /\ child[c].closes <= child[c].opens
        /\ ~child[c].misread

\* PeerKnown: the datagrams of an open child's source reach it: it is in the
\* map under its key until it closes or its server is released.
PeerKnown ==
    \A c \in Children : child[c].phase = "open" => peers[child[c].key] = c

\* PeersServed: at rest no request is left in a queue, every child had its
\* OnOpen, every closing one its OnClose, and a released server's children
\* have all closed.
PeersServed ==
    Quiet => /\ ~StillAsked
             /\ \A c \in Children \ Unborn :
                   /\ child[c].phase \in {"open", "delivered"} /\ child[c].opens = 1
                   /\ server.phase = "released" => child[c].closes = 1
=============================================================================

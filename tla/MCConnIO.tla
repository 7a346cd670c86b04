------------------------------ MODULE MCConnIO ------------------------------
(***************************************************************************)
(* A connection's output, and with it its input, the bridge of two         *)
(* connections and the children of a UDP server, each checked on its own:  *)
(* part says which one a behaviour is of.  Parts share a variable of one name. *)
(***************************************************************************)
EXTENDS Outbound, TLC

CONSTANTS
    user, layer, Owners,  \* the owners of read pauses
    Client, Upstream,     \* the legs of a bridge
    Children, Keys        \* a UDP server's children, and their addresses

\* Large writes on an open connection, and every way of closing one.
OutputSettings ==
    {[size |-> 2, cap |-> 2, limit |-> 3, bytes |-> 4, calls |-> 1, edges |-> 0, closes |-> {}, fails |-> FALSE],
     [size |-> 1, cap |-> 1, limit |-> 2, bytes |-> 1, calls |-> 1, edges |-> 0,
      closes |-> {"write", "abort", "graceful"}, fails |-> TRUE]}

R(h, l, b, e, a, o, w, t) ==
    [halfOpen |-> h, limit |-> l, bytes |-> b, ends |-> e, acts |-> a, owners |-> o, wakes |-> w, tagged |-> t]
ReadSettings ==
    {R(FALSE, 0, 3, {"fin"}, {"yield"}, {user}, 0, TRUE),
     R(FALSE, 2, 3, {"fin", "reset"}, {}, {user}, 1, FALSE),
     R(TRUE, 2, 3, {"fin", "reset"}, {"yield"}, {user}, 0, TRUE),
     R(FALSE, 0, 2, {"fin"}, {"fail", "pause"}, {user}, 0, TRUE),
     R(FALSE, 0, 1, {"fin"}, {"fail", "pause"}, {user, layer}, 0, TRUE)}

B(m, n, e, p, c, r) ==
    [bytes |-> (Client :> m @@ Upstream :> n), ends |-> e, pauses |-> p, closes |-> c, refuses |-> r]
BridgeSettings ==
    {B(4, 0, {Client}, {Client}, {}, TRUE),
     B(2, 2, {Client, Upstream}, {}, {}, FALSE),
     B(3, 1, {Client}, {Upstream}, {<<Upstream, "nil">>}, FALSE),
     B(3, 0, {Client}, {}, {<<Upstream, "abort">>}, TRUE)}

U(p, d, c, a, s) == [packets |-> p, dials |-> d, calls |-> c, answers |-> a, closes |-> s]
PeerSettings == {U(2, 2, 3, TRUE, FALSE), U(1, 2, 2, FALSE, TRUE)}

VARIABLES
    part, sock, task, turn, input, flags, control, half, close, leg, out, pairs, closed, app, child,
    peers, queue, server, hand, left

allVars == <<part, sock, task, turn, input, flags, control, half, close, leg, out, pairs, closed, app,
             child, peers, queue, server, hand, left, vars>>

Read == INSTANCE ReadTurn WITH Settings <- ReadSettings, Buffer <- 2, MaxCalls <- 2
Bridge == INSTANCE Bridge WITH Settings <- BridgeSettings, InboundLimit <- 2
Peers == INSTANCE UDPPeers WITH Settings <- PeerSettings

\* A variable the part does not have.
Off == "off"

PartInit ==
    \/ /\ part = "output" /\ Init
       /\ sock = Off /\ task = Off /\ turn = Off /\ input = Off /\ flags = Off /\ control = Off
       /\ half = Off /\ close = Off /\ leg = Off /\ out = Off /\ pairs = Off /\ closed = Off
       /\ app = Off /\ child = Off /\ peers = Off /\ queue = Off /\ server = Off /\ hand = Off
       /\ left = Off
    \/ /\ part = "read" /\ Read!Init
       /\ owner = Off /\ held = Off /\ blocked = Off /\ opened = Off /\ shut = Off
       /\ shutDone = Off /\ closeWait = Off /\ failed = Off /\ pending = Off /\ outbound = Off
       /\ inflight = Off /\ scratch = Off /\ direct = Off /\ sent = Off /\ next = Off /\ room = Off
       /\ nospace = Off /\ fin = Off /\ edgeReady = Off /\ edges = Off /\ phase = Off
       /\ linger = Off /\ events = Off /\ taken = Off /\ wturn = Off /\ wrote = Off /\ err = Off
       /\ pc = Off /\ ret = Off /\ leg = Off /\ out = Off /\ pairs = Off /\ closed = Off
       /\ app = Off /\ child = Off /\ peers = Off /\ queue = Off /\ server = Off /\ hand = Off
       /\ left = Off
    \/ /\ part = "bridge" /\ Bridge!Init
       /\ owner = Off /\ held = Off /\ blocked = Off /\ edge = Off /\ opened = Off /\ shut = Off
       /\ shutDone = Off /\ closeWait = Off /\ failed = Off /\ pending = Off /\ outbound = Off
       /\ inflight = Off /\ scratch = Off /\ direct = Off /\ sent = Off /\ next = Off /\ room = Off
       /\ nospace = Off /\ fin = Off /\ edgeReady = Off /\ edges = Off /\ phase = Off
       /\ linger = Off /\ events = Off /\ taken = Off /\ wturn = Off /\ calls = Off /\ wrote = Off
       /\ err = Off /\ pc = Off /\ ret = Off /\ sock = Off /\ task = Off /\ input = Off
       /\ flags = Off /\ control = Off /\ half = Off /\ close = Off /\ child = Off /\ peers = Off
       /\ queue = Off /\ server = Off /\ hand = Off /\ left = Off
    \/ /\ part = "peers" /\ Peers!Init
       /\ owner = Off /\ held = Off /\ blocked = Off /\ edge = Off /\ opened = Off /\ shut = Off
       /\ shutDone = Off /\ closeWait = Off /\ failed = Off /\ pending = Off /\ outbound = Off
       /\ inflight = Off /\ scratch = Off /\ direct = Off /\ sent = Off /\ next = Off /\ room = Off
       /\ nospace = Off /\ fin = Off /\ edgeReady = Off /\ edges = Off /\ phase = Off
       /\ linger = Off /\ events = Off /\ taken = Off /\ wturn = Off /\ calls = Off /\ wrote = Off
       /\ err = Off /\ pc = Off /\ ret = Off /\ sock = Off /\ task = Off /\ input = Off
       /\ flags = Off /\ control = Off /\ half = Off /\ close = Off /\ leg = Off /\ out = Off
       /\ pairs = Off /\ closed = Off /\ app = Off

OutputNext ==
    /\ part = "output" /\ Next
    /\ UNCHANGED <<part, sock, task, turn, input, flags, control, half, close, leg, out, pairs,
                   closed, app, child, peers, queue, server, hand, left>>

ReadNext ==
    /\ part = "read" /\ Read!Next
    /\ UNCHANGED <<part, owner, held, blocked, opened, shut, shutDone, closeWait, failed, pending,
                   outbound, inflight, scratch, direct, sent, next, room, nospace, fin, edgeReady,
                   edges, phase, linger, events, taken, wturn, wrote, err, pc, ret, leg, out,
                   pairs, closed, app, child, peers, queue, server, hand, left>>

BridgeNext ==
    /\ part = "bridge" /\ Bridge!Next
    /\ UNCHANGED <<part, owner, held, blocked, edge, opened, shut, shutDone, closeWait, failed,
                   pending, outbound, inflight, scratch, direct, sent, next, room, nospace, fin,
                   edgeReady, edges, phase, linger, events, taken, wturn, calls, wrote, err, pc,
                   ret, sock, task, input, flags, control, half, close, child, peers, queue,
                   server, hand, left>>

PeersNext ==
    /\ part = "peers" /\ Peers!Next
    /\ UNCHANGED <<part, owner, held, blocked, edge, opened, shut, shutDone, closeWait, failed,
                   pending, outbound, inflight, scratch, direct, sent, next, room, nospace, fin,
                   edgeReady, edges, phase, linger, events, taken, wturn, calls, wrote, err, pc,
                   ret, sock, task, input, flags, control, half, close, leg, out, pairs, closed, app>>

PartNext == OutputNext \/ ReadNext \/ BridgeNext \/ PeersNext

PartSpec == PartInit /\ [][PartNext]_allVars

-----------------------------------------------------------------------------
(* Properties                                                              *)

\* A connection's bytes keep their order: what is left to send is what was
\* accepted and not sent, in order; the FIN goes out behind all of it; and the
\* end of the peer's stream closes the connection behind all of its input.
IoOrdered ==
    /\ part = "output" => Ordered /\ FinLast
    /\ part = "read" => Read!EndBehindInput

\* One goroutine at a time sends, under the write claim, and pending counts
\* every byte accepted and not retired.
SenderExact == part = "output" => OneSender /\ PendingExact

\* No output, CloseWrite, drain or close waits for nobody.
OutputSeenTo == part = "output" => OutputOwed /\ ShutOwed /\ CloseOwed

\* A connection at rest has read what it may and acted on the end or the
\* reset it met, and what callbacks left stays within one read of the limit.
InputReached == part = "read" => Read!InputReached /\ Read!InputWithinLimit

\* A bridge relays: no input waits for a drain that has come and gone, a leg
\* that stays open knows its partner, and a leg whose partner closed is neither
\* left paused nor half open.
BridgeFlows == part = "bridge" => Bridge!BridgeFlows /\ Bridge!PairedOrClosed /\ Bridge!OrphanEnds

\* Every child of a UDP server has one OnOpen, its OnReads and one OnClose, is
\* known by its address while it is open, and has no request left unserved.
PeersServed == part = "peers" => Peers!PeerLife /\ Peers!PeerKnown /\ Peers!PeersServed
=============================================================================

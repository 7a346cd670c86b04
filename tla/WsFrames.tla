------------------------------ MODULE WsFrames ------------------------------
(***************************************************************************)
(* How a uws connection turns the bytes it receives into callbacks: the    *)
(* handshake and the frames behind it, frames that end inside a chunk or   *)
(* span several, fragmented messages, the frame budget of a round and      *)
(* PauseReads.  A position counts units: a frame has two units of prefix,  *)
(* one of length and mask when it needs it, and its payload.               *)
(***************************************************************************)
EXTENDS Naturals, Sequences, FiniteSets, FiniteSetsExt, SequencesExt

CONSTANTS
    MaxChunks,     \* bound: the chunks that wait in the transport
    Settings       \* what a peer sends and how it is read, as records of
                   \*   hand: the units of the handshake;  frames;
                   \*   budget: maxFramesPerDataEvent;  max: MaxMessageSize;
                   \*   layer: the connection is a layer of a stack;
                   \*   pauses, closes: the calls the application may make

VARIABLES
    opt,
    in,    \* the transport: units that arrived, the ends of its chunks, the
           \* units taken from it, whether a turn is owed
    st,    \* opened, closing, closed, failed, paused, and the calls left
    rd,    \* parser, assembler, and the staged tail of the handshake
    turn,  \* the round: where its data comes from, the range left, readFrames
    ev     \* the callbacks made

vars == <<opt, in, st, rd, turn, ev>>

None == [from |-> 0, to |-> 0]
Idle == [src |-> "none", at |-> 0, to |-> 0, n |-> 0]
NoParser == [i |-> 0, held |-> 0]
NoMessage == [op |-> "none", size |-> 0]

Init ==
    /\ opt \in Settings
    /\ in = [avail |-> 0, cuts |-> {}, pos |-> 0, wake |-> FALSE]
    /\ st = [opened |-> FALSE, closing |-> FALSE, closed |-> FALSE, failed |-> FALSE, paused |-> FALSE,
             pauses |-> opt.pauses, closes |-> opt.closes]
    /\ rd = [parser |-> NoParser, asm |-> NoMessage, staged |-> None, held |-> None]
    /\ turn = Idle
    /\ ev = <<>>

Frame(i) == opt.frames[i]
Units(i) == Frame(i).head + Frame(i).size
Start[i \in Nat] == IF i = 1 THEN opt.hand ELSE Start[i - 1] + Units(i - 1)
Total == Start[Len(opt.frames) + 1]
FrameAt(p) == CHOOSE i \in 1..Len(opt.frames) : Start[i] <= p /\ p < Start[i + 1]

\* The error that h units of a frame show: the prefix and the extended length
\* are validated as soon as they are complete.
ParseError(i, h) ==
    CASE Frame(i).bad = "prefix" /\ h >= 2 -> "protocol"
      [] Frame(i).bad = "big" /\ h >= Frame(i).head -> "too big"
      [] Frame(i).bad = "payload" /\ Frame(i).op = "close" /\ h = Units(i) -> "protocol"
      [] OTHER -> "none"

\* What a frame does to the message being assembled: acceptFrame, AcceptSingle
\* and Assembler.Accept.
exceedsPayloadLimit(asm, f) == asm.size + f.size > opt.max
Accept(asm, f) ==
    LET r(e, a, o) == [err |-> e, asm |-> a, out |-> o]
        whole == [op |-> IF f.op = "cont" THEN asm.op ELSE f.op, size |-> asm.size + f.size]
    IN  CASE f.op \in {"ping", "pong", "close"} -> r("none", asm, <<f.op>>)
          [] f.op = "data" /\ asm # NoMessage -> r("protocol", NoMessage, <<>>)
          [] f.op = "cont" /\ asm = NoMessage -> r("protocol", NoMessage, <<>>)
          [] exceedsPayloadLimit(asm, f) -> r("too big", NoMessage, <<>>)
          [] ~f.fin -> r("none", whole, <<>>)
          [] f.bad = "payload" -> r("utf8", NoMessage, <<>>)
          [] OTHER -> r("none", NoMessage, <<<<"message", whole.size>>>>)

-----------------------------------------------------------------------------
(* The transport and the application.                                      *)

\* A read adds a chunk and asks for a turn.
Arrive ==
    /\ in.avail < Total /\ ~st.closed /\ Cardinality(in.cuts) < MaxChunks
    /\ \E n \in 1..(Total - in.avail) :
         in' = [in EXCEPT !.avail = @ + n, !.cuts = @ \cup {in.avail + n}, !.wake = TRUE]
    /\ UNCHANGED <<opt, st, rd, turn, ev>>

PauseReads ==
    /\ st.opened /\ ~st.closing /\ ~st.closed /\ ~st.paused /\ st.pauses > 0
    /\ st' = [st EXCEPT !.paused = TRUE, !.pauses = @ - 1]
    /\ UNCHANGED <<opt, in, rd, turn, ev>>

\* The pause is cleared before the turn that its end schedules.
ResumeReads ==
    /\ st.paused /\ ~st.closing /\ ~st.closed
    /\ st' = [st EXCEPT !.paused = FALSE] /\ in' = [in EXCEPT !.wake = TRUE]
    /\ UNCHANGED <<opt, rd, turn, ev>>

\* Conn.Close: messages are dropped from here on; the pauses are released so
\* that the peer's Close can be read.
Close ==
    /\ st.opened /\ ~st.closing /\ ~st.closed /\ st.closes > 0
    /\ st' = [st EXCEPT !.closing = TRUE, !.paused = FALSE, !.closes = @ - 1]
    /\ in' = [in EXCEPT !.wake = @ \/ st.paused]
    /\ UNCHANGED <<opt, rd, turn, ev>>

\* onClose: releaseReadState.
onClose ==
    /\ st.closing /\ ~st.closed /\ turn = Idle
    /\ st' = [st EXCEPT !.closed = TRUE]
    /\ rd' = [parser |-> NoParser, asm |-> NoMessage, staged |-> None, held |-> None]
    /\ UNCHANGED <<opt, in, turn, ev>>

-----------------------------------------------------------------------------
(* A round.                                                                *)

Empty(r) == r.from = r.to
\* The frames that a layer held behind its handshake go first, with no budget.
OnRead ==
    /\ in.wake /\ turn = Idle /\ ~st.closed /\ ~st.failed
    /\ in' = [in EXCEPT !.wake = FALSE]
    /\ turn' = IF Empty(rd.held) THEN [Idle EXCEPT !.src = "top"]
               ELSE [src |-> "layer", at |-> rd.held.from, to |-> rd.held.to, n |-> 0]
    /\ rd' = [rd EXCEPT !.held = None]
    /\ UNCHANGED <<opt, st, ev>>

\* The end of a turn: a stack opens the layers above and asks for the round
\* that feeds them.
EndTurn(wake) ==
    /\ turn' = Idle
    /\ in' = [in EXCEPT !.wake = @ \/ wake \/ ~Empty(rd'.held)]
    /\ ev' = IF opt.layer /\ st.opened /\ ev = <<>> THEN <<"open">> ELSE ev

\* readRound's choice: the staged tail precedes the transport's input.
PeekChunk == Min({c \in in.cuts : c > in.pos})
readRound ==
    /\ turn.src = "top"
    /\ \/ /\ ~Empty(rd.staged) /\ ~st.paused
          /\ turn' = [turn EXCEPT !.src = "staged", !.at = rd.staged.from, !.to = rd.staged.to]
          /\ UNCHANGED <<in, ev, rd>>
       \/ /\ Empty(rd.staged) /\ in.pos < in.avail /\ (~st.paused \/ ~st.opened)
          /\ turn' = [turn EXCEPT !.src = IF st.opened THEN "chunk" ELSE "handshake",
                                  !.at = in.pos, !.to = PeekChunk]
          /\ UNCHANGED <<in, ev, rd>>
       \/ /\ IF Empty(rd.staged) THEN in.pos = in.avail \/ (st.paused /\ st.opened) ELSE st.paused
          /\ UNCHANGED rd /\ EndTurn(FALSE)
    /\ UNCHANGED <<opt, st>>

Discard(p) == [in EXCEPT !.pos = p, !.cuts = {c \in in.cuts : c > p}]

\* consumeHandshake: the bytes behind it were read with it, and are fed now or
\* held for the layers above.
consumeHandshake ==
    /\ turn.src = "handshake"
    /\ in' = Discard(turn.to)
    /\ IF turn.to < opt.hand
       THEN turn' = [turn EXCEPT !.src = "top"] /\ UNCHANGED <<st, rd, ev>>
       ELSE /\ st' = [st EXCEPT !.opened = TRUE]
            /\ ev' = IF opt.layer THEN ev ELSE Append(ev, "open")
            /\ rd' = [rd EXCEPT !.held = IF opt.layer THEN [from |-> opt.hand, to |-> turn.to] ELSE @]
            /\ turn' = IF opt.layer \/ turn.to = opt.hand THEN [turn EXCEPT !.src = "top"]
                       ELSE [turn EXCEPT !.src = "behind", !.at = opt.hand]
    /\ UNCHANGED opt

\* Where the data is consumed from: staged input is cut, a chunk discarded.
Consume(p) ==
    in' = IF turn.src = "chunk" THEN Discard(p) ELSE in
StagedFrom(p) ==
    IF turn.src \in {"staged", "extra"} THEN [from |-> p, to |-> turn.to] ELSE rd.staged

\* feedBehindHandshake: OnOpen may have paused the reads.
feedBehindHandshake ==
    /\ turn.src = "behind"
    /\ IF st.paused THEN rd' = [rd EXCEPT !.staged = [from |-> turn.at, to |-> turn.to]]
                         /\ turn' = [turn EXCEPT !.src = "top"]
       ELSE turn' = [turn EXCEPT !.src = "extra"] /\ UNCHANGED rd
    /\ UNCHANGED <<opt, in, st, ev>>

\* protocolClose: the first error is the one reported.
fail(p, err) ==
    /\ Consume(p)
    /\ st' = [st EXCEPT !.closing = TRUE, !.failed = TRUE, !.paused = FALSE]
    /\ rd' = [rd EXCEPT !.parser = NoParser, !.asm = NoMessage, !.staged = None]
    /\ turn' = Idle
    /\ ev' = IF st.closing THEN ev ELSE Append(ev, err)

\* What the connection makes of a frame's result: a close that has begun drops
\* messages, and a Pong is the heartbeat's.
Told(out) == IF st.closing \/ out = <<"pong">> THEN <<>> ELSE out

\* The frame that ends at p goes to acceptFrame and is charged to the round's
\* budget: a pause or a spent budget ends the round behind it.
deliver(i, p) ==
    LET a == Accept(rd.asm, Frame(i))
        n == turn.n + 1
        stop == turn.src # "layer" /\ (st.paused \/ n >= opt.budget)
    IN  IF a.err # "none" THEN fail(p, a.err)
        ELSE /\ st' = [st EXCEPT !.closing = @ \/ Frame(i).op = "close",
                                 !.paused = IF Frame(i).op = "close" THEN FALSE ELSE @]
             /\ rd' = [rd EXCEPT !.parser = NoParser, !.asm = a.asm,
                                 !.staged = IF turn.src = "staged" \/ stop THEN StagedFrom(p) ELSE @]
             /\ ev' = ev \o Told(a.out)
             /\ in' = [(IF turn.src = "chunk" THEN Discard(p) ELSE in) EXCEPT !.wake = @ \/ (stop /\ ~st.paused)]
             /\ turn' = IF stop THEN IF turn.src = "extra" THEN [turn EXCEPT !.src = "top", !.n = n] ELSE Idle
                        ELSE IF p = turn.to THEN [turn EXCEPT !.src = "top", !.n = n]
                        ELSE [turn EXCEPT !.at = p, !.n = n]

\* The incremental parser takes what its frame still needs, or all there is.
feedTo(i, held) == Min({turn.to - turn.at, Units(i) - held})

\* The next frame of the data, or the rest of the one that the parser holds:
\* delivered when it is whole, kept in the incremental parser when it is not.
consumeFrames ==
    /\ turn.src \in {"layer", "extra", "staged", "chunk"} /\ turn.at < turn.to
    /\ IF st.closed THEN turn' = Idle /\ UNCHANGED <<in, st, rd, ev>>
       ELSE LET held == rd.parser.held
                i == IF held > 0 THEN rd.parser.i ELSE FrameAt(turn.at)
                n == feedTo(i, held)
                err == ParseError(i, held + n)
                p == turn.at + n
            IN  IF err # "none" THEN fail(IF held > 0 THEN p ELSE turn.at, err)
                ELSE IF held + n = Units(i) THEN deliver(i, p)
                ELSE /\ rd' = [rd EXCEPT !.parser = [i |-> i, held |-> held + n],
                                         !.staged = IF turn.src = "staged" THEN None ELSE @]
                     /\ Consume(p) /\ turn' = [turn EXCEPT !.src = "top"]
                     /\ UNCHANGED <<st, ev>>
    /\ UNCHANGED opt

Quiet == turn = Idle /\ (~in.wake \/ st.failed \/ st.closed) /\ (in.avail = Total \/ st.closed)
Resting == Quiet /\ ~st.paused /\ (st.closing => st.closed) /\ UNCHANGED vars

Next ==
    \/ Arrive \/ PauseReads \/ ResumeReads \/ Close \/ onClose
    \/ OnRead \/ readRound \/ consumeHandshake \/ feedBehindHandshake \/ consumeFrames \/ Resting

Spec == Init /\ [][Next]_vars

-----------------------------------------------------------------------------
(* Properties                                                              *)

\* The callbacks of a connection that reads the same frames one by one, all in
\* one piece.
Decode[i \in Nat] ==
    IF i = 0 THEN [asm |-> NoMessage, ev |-> <<"open">>, stop |-> FALSE]
    ELSE LET d == Decode[i - 1]
             e == ParseError(i, Units(i))
             a == Accept(d.asm, Frame(i))
             out == IF e # "none" THEN <<e>> ELSE IF a.err # "none" THEN <<a.err>>
                    ELSE IF a.out = <<"pong">> THEN <<>> ELSE a.out
         IN  IF d.stop THEN d
             ELSE [asm |-> a.asm, ev |-> d.ev \o out,
                   stop |-> e # "none" \/ a.err # "none" \/ Frame(i).op = "close"]
Expected == Decode[Len(opt.frames)].ev

\* However the input is cut into chunks, and wherever rounds stop for their
\* budget, a pause or the layers above, the callbacks are those of the frames
\* in order, each once, with the same error at the same place; and when
\* nothing is owed, none is missing.
Decoded ==
    /\ IsPrefix(ev, Expected)
    /\ Quiet /\ ~st.paused /\ ~st.closing => ev = Expected
=============================================================================

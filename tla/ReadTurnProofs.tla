--------------------------- MODULE ReadTurnProofs ---------------------------
(***************************************************************************)
(* Proofs about ReadTurn: an open connection at rest has read what it may  *)
(* and acted on the end or the reset it met, the end of the stream closes  *)
(* it behind all of its input, and a hold keeps what callbacks left within *)
(* one read of the limit.  They hold for any number of owners that pause,  *)
(* any size of a read and any number of bytes.                             *)
(*                                                                         *)
(* The invariant says, for each thing a rest must not leave behind, where  *)
(* on its way it is while the connection does not rest: bytes in the       *)
(* socket, a FIN, a reset, an end that was read, a released pause.         *)
(***************************************************************************)
EXTENDS ReadTurn, FiniteSetTheorems, TLAPS

\* The instances: a read asks for at least a byte, and the owners are finitely many.
Setting(s) ==
    /\ s.bytes \in Nat /\ s.limit \in Nat /\ s.wakes \in Nat
    /\ s.halfOpen \in BOOLEAN /\ s.owners \subseteq Owners

Instances ==
    /\ Buffer \in Nat /\ Buffer > 0 /\ IsFiniteSet(Owners)
    /\ \A s \in Settings : Setting(s)

----------------------------------------------------------------------------
(* Types.                                                                  *)

Events == {"open", "read", "hangup", "wake", "resume", "shut"}
Bits == {"hangup", "toEnd", "drained", "pastYield"}
Places == {"idle", "queued", "fire", "callback", "resumed", "continue", "read", "recv", "received",
           "ended", "probe", "woken", "shut", "end"}
Returns == {"none", "resumed", "received", "ended", "woken"}

SockState == [bytes : Nat, end : {"no", "fin", "reset"}, more : Nat]
EdgeState == [set : BOOLEAN, taken : SUBSET {"read", "hangup"}]
TaskState == [events : SUBSET Events, claimed : BOOLEAN]
TurnState == [pc : Places, ev : SUBSET Events, bits : SUBSET Bits, ret : Returns, n : Nat,
              mark : Nat, reported : BOOLEAN]
InputState == [in : Nat, tail : Nat, told : BOOLEAN]
ControlState == [paused : SUBSET Owners, owners : Nat, owed : BOOLEAN,
                 at : [Owners -> {"idle", "release", "kick"}]]
CallState == [wake : Nat, pause : [Owners -> Nat]]

\* TypeOK: every variable has its type, and OnRead knows where it returns to.
TypeOK ==
    /\ opt \in Settings
    /\ sock \in SockState
    /\ edge \in EdgeState
    /\ task \in TaskState
    /\ turn \in TurnState
    /\ input \in InputState
    /\ flags \in SUBSET {"held", "eof", "stalled"}
    /\ control \in ControlState
    /\ half \in {"open", "shut", "done"}
    /\ close \in {"open", "callback", "eof", "reset"}
    /\ calls \in CallState

----------------------------------------------------------------------------
(* The inductive invariant.                                                *)

\* OnRead is about to run, or runs, and returns to r.
Calls(r) == turn.pc \in {"fire", "callback"} /\ turn.ret = r

\* Owners between the count they still hold and its release, or before the turn they ask for.
Releasing == {o \in Owners : control.at[o] = "release"}
Kicking == \E o \in Owners : control.at[o] = "kick"

\* The turn is in a round of reads: before a read, or behind it.
Receiving == Calls("received") \/ turn.pc = "received"
InRound == turn.pc = "recv" \/ Receiving

\* What the turn reports of a hangup is in its bits once it looked at its events.
PastBranch == InRound \/ Calls("ended") \/ turn.pc \in {"ended", "probe"}

\* The claim is the turn's, and an idle connection has no event.
PlaceOK ==
    /\ task.claimed <=> turn.pc # "idle"
    /\ turn.pc = "idle" /\ ~isClosing => task.events = {}
    /\ turn.pc \in {"fire", "callback"} => turn.ret # "none"

\* The count is that of the owners who pause or have not released yet.
CountOK == control.owners = Cardinality(control.paused) + Cardinality(Releasing)

\* A round has no hold and no end; the tail is a round's; a yield or spent
\* budget lasts to the end of the turn at most.
RoundOK ==
    /\ "eof" \in flags => sock.bytes = 0 /\ sock.end # "no"
    /\ InRound => flags \cap {"held", "eof"} = {}
    /\ Calls("ended") \/ turn.pc = "ended" => "eof" \in flags /\ "held" \notin flags
    /\ input.tail # 0 => Receiving
    /\ "stalled" \in flags =>
          /\ ~Calls("resumed")
          /\ turn.pc \in {"idle", "queued"} => isClosing

\* A hangup is reported with a readable edge, and stays known across turns.
HangupOK ==
    /\ edge.taken # {} => "read" \in edge.taken
    /\ "hangup" \in task.events => "read" \in task.events
    /\ PastBranch /\ "hangup" \in turn.ev => "hangup" \in turn.bits
    /\ turn.pc \in {"idle", "queued", "woken", "shut", "end"} \/ Calls("woken") =>
          turn.bits \subseteq {"hangup", "toEnd"}

\* What is buffered passes the limit by less than a read, and then reads are held.
LimitOK ==
    /\ input.tail <= Buffer
    /\ opt.limit > 0 => input.in < opt.limit + Buffer
    /\ opt.limit > 0 /\ "held" \notin flags => input.in < opt.limit
    /\ "held" \in flags => opt.limit > 0
    /\ "held" \in flags /\ ~isClosing =>
          input.in >= opt.limit \/ turn.pc \in {"resumed", "woken"}

\* A reset is on its way to the turn that probes for it.
ResetOK ==
    ~isClosing /\ sock.end = "reset" =>
        \/ edge.set \/ "hangup" \in edge.taken \/ "hangup" \in task.events
        \/ /\ turn.reported /\ "drained" \notin turn.bits
           /\ \/ turn.pc \in {"resumed", "continue", "read"} \/ PastBranch
              \/ Calls("resumed")

\* A FIN not read yet is reported, or remembered in the turn's bits.
FinOK ==
    ~isClosing /\ sock.end = "fin" /\ "eof" \notin flags =>
        \/ edge.set \/ "hangup" \in edge.taken \/ "hangup" \in task.events
        \/ turn.bits \cap {"hangup", "toEnd"} # {}
        \/ /\ "hangup" \in turn.ev
           /\ turn.pc \in {"resumed", "continue", "read"} \/ Calls("resumed")

\* The turn a released pause is owed.
OwedOK ==
    ~isClosing /\ control.owed =>
        ReadsPaused \/ Kicking \/ "resume" \in task.events \/ turn.pc \in {"fire", "callback"}

\* What the socket holds is reported, or waits for a release, a drain or a
\* continuation, or is about to be read.
Unread == sock.bytes > 0 \/ (sock.end = "fin" /\ "eof" \notin flags)

Noticed ==
    \/ edge.set \/ edge.taken # {} \/ task.events \cap {"read", "resume"} # {}
    \/ ReadsPaused \/ Kicking \/ flags \cap {"held", "stalled"} # {}

Reading ==
    \/ Calls("resumed") \/ turn.pc \in {"resumed", "continue", "recv"}
    \/ turn.pc = "read" /\ "read" \in turn.ev
    \/ Receiving /\ ~Drained

UnreadOK == ~isClosing /\ Unread => Noticed \/ Reading

\* An end that was read, of a connection that ends with it, waits for its consumer.
Deferred ==
    \/ Held \/ "stalled" \in flags \/ Kicking \/ "resume" \in task.events
    \/ turn.pc \in {"fire", "callback", "resumed", "ended", "woken"}

EofOK ==
    ~isClosing =>
        /\ "eof" \in flags /\ ~opt.halfOpen => Deferred
        /\ half = "done" /\ readEnded => Deferred
        /\ half = "shut" => turn.pc \notin {"idle", "queued", "end"}

\* Until OnRead ran after the end, the end waits for it: a release that is
\* under way cannot have been counted as its run.
ToldOK ==
    /\ "eof" \in flags /\ ~input.told => control.owed \/ control.paused # {} \/ Calls("ended")
    /\ turn.pc = "recv" \/ Calls("received") \/ Calls("ended") => control.owed \/ Releasing = {}
    /\ turn.pc \in {"resumed", "continue"} /\ {"eof", "stalled"} \subseteq flags => input.told

EndOK ==
    /\ EndBehindInput
    /\ close = "eof" /\ (input.in > 0 \/ opt.halfOpen) => "eof" \in flags

IInv ==
    /\ TypeOK /\ PlaceOK /\ CountOK /\ RoundOK /\ HangupOK /\ LimitOK /\ ResetOK /\ FinOK
    /\ OwedOK /\ UnreadOK /\ EofOK /\ ToldOK /\ EndOK

----------------------------------------------------------------------------
(* Records: what a field may become.                                       *)

\* A turn's fields.
LEMMA TurnChanges ==
    ASSUME NEW r \in TurnState
    PROVE  /\ \A v \in Places : [r EXCEPT !.pc = v] \in TurnState
           /\ \A v \in SUBSET Events : [r EXCEPT !.ev = v] \in TurnState
           /\ \A v \in SUBSET Bits : [r EXCEPT !.bits = v] \in TurnState
           /\ \A v \in Returns : [r EXCEPT !.ret = v] \in TurnState
           /\ \A v \in Nat : [r EXCEPT !.n = v] \in TurnState
           /\ \A v \in Nat : [r EXCEPT !.mark = v] \in TurnState
           /\ \A v \in BOOLEAN : [r EXCEPT !.reported = v] \in TurnState
<1>1. /\ \A v \in Places : [r EXCEPT !.pc = v] \in TurnState
      /\ \A v \in SUBSET Events : [r EXCEPT !.ev = v] \in TurnState
      /\ \A v \in SUBSET Bits : [r EXCEPT !.bits = v] \in TurnState
      /\ \A v \in Returns : [r EXCEPT !.ret = v] \in TurnState
  BY Zenon DEF TurnState
<1>2. /\ \A v \in Nat : [r EXCEPT !.n = v] \in TurnState
      /\ \A v \in Nat : [r EXCEPT !.mark = v] \in TurnState
      /\ \A v \in BOOLEAN : [r EXCEPT !.reported = v] \in TurnState
  BY Zenon DEF TurnState
<1>3. QED
  BY <1>1, <1>2, Zenon

\* The socket's, the edge's and the task's.
LEMMA OuterChanges ==
    /\ \A r \in SockState :
          /\ \A v \in Nat : [r EXCEPT !.bytes = v] \in SockState
          /\ \A v \in {"no", "fin", "reset"} : [r EXCEPT !.end = v] \in SockState
          /\ \A v \in Nat : [r EXCEPT !.more = v] \in SockState
    /\ \A r \in EdgeState :
          /\ \A v \in BOOLEAN : [r EXCEPT !.set = v] \in EdgeState
          /\ \A v \in SUBSET {"read", "hangup"} : [r EXCEPT !.taken = v] \in EdgeState
    /\ \A r \in TaskState : \A v \in SUBSET Events : [r EXCEPT !.events = v] \in TaskState
    /\ \A v \in SUBSET Events, b \in BOOLEAN : [events |-> v, claimed |-> b] \in TaskState
<1>1. \A r \in SockState :
          /\ \A v \in Nat : [r EXCEPT !.bytes = v] \in SockState
          /\ \A v \in {"no", "fin", "reset"} : [r EXCEPT !.end = v] \in SockState
          /\ \A v \in Nat : [r EXCEPT !.more = v] \in SockState
  BY Zenon DEF SockState
<1>2. \A r \in EdgeState :
          /\ \A v \in BOOLEAN : [r EXCEPT !.set = v] \in EdgeState
          /\ \A v \in SUBSET {"read", "hangup"} : [r EXCEPT !.taken = v] \in EdgeState
  BY Zenon DEF EdgeState
<1>3. /\ \A r \in TaskState : \A v \in SUBSET Events : [r EXCEPT !.events = v] \in TaskState
      /\ \A v \in SUBSET Events, b \in BOOLEAN : [events |-> v, claimed |-> b] \in TaskState
  BY Zenon DEF TaskState
<1>4. QED
  BY <1>1, <1>2, <1>3, Zenon

\* The input's, the read control's and the calls'.
LEMMA InnerChanges ==
    /\ \A r \in InputState :
          /\ \A v \in Nat : [r EXCEPT !.in = v] \in InputState
          /\ \A v \in Nat : [r EXCEPT !.tail = v] \in InputState
          /\ \A v \in BOOLEAN : [r EXCEPT !.told = v] \in InputState
    /\ \A r \in ControlState :
          /\ \A v \in SUBSET Owners : [r EXCEPT !.paused = v] \in ControlState
          /\ \A v \in Nat : [r EXCEPT !.owners = v] \in ControlState
          /\ \A v \in BOOLEAN : [r EXCEPT !.owed = v] \in ControlState
          /\ \A o \in Owners, v \in {"idle", "release", "kick"} :
                [r EXCEPT !.at[o] = v] \in ControlState
<1>1. \A r \in InputState :
          /\ \A v \in Nat : [r EXCEPT !.in = v] \in InputState
          /\ \A v \in Nat : [r EXCEPT !.tail = v] \in InputState
          /\ \A v \in BOOLEAN : [r EXCEPT !.told = v] \in InputState
  BY Zenon DEF InputState
<1>2. \A r \in ControlState :
          /\ \A v \in SUBSET Owners : [r EXCEPT !.paused = v] \in ControlState
          /\ \A v \in Nat : [r EXCEPT !.owners = v] \in ControlState
          /\ \A v \in BOOLEAN : [r EXCEPT !.owed = v] \in ControlState
  BY Zenon DEF ControlState
<1>3. \A r \in ControlState : \A o \in Owners, v \in {"idle", "release", "kick"} :
          [r EXCEPT !.at[o] = v] \in ControlState
  BY Zenon DEF ControlState
<1>4. QED
  BY <1>1, <1>2, <1>3, Zenon

----------------------------------------------------------------------------
(* Types are kept.                                                         *)

\* What the code computes for a field is of its type.
LEMMA Values ==
    ASSUME Instances, TypeOK
    PROVE  /\ opt.limit \in Nat /\ opt.halfOpen \in BOOLEAN /\ opt.owners \subseteq Owners
           /\ sock.bytes \in Nat /\ sock.more \in Nat /\ sock.end \in {"no", "fin", "reset"}
           /\ input.in \in Nat /\ input.tail \in Nat /\ input.told \in BOOLEAN
           /\ turn.pc \in Places /\ turn.ev \subseteq Events /\ turn.bits \subseteq Bits
           /\ turn.ret \in Returns /\ turn.n \in Nat /\ turn.mark \in Nat /\ turn.reported \in BOOLEAN
           /\ task.events \subseteq Events /\ task.claimed \in BOOLEAN
           /\ edge.set \in BOOLEAN /\ edge.taken \subseteq {"read", "hangup"}
           /\ control.paused \subseteq Owners /\ control.owners \in Nat /\ control.owed \in BOOLEAN
           /\ control.at \in [Owners -> {"idle", "release", "kick"}]
<1>1. Setting(opt)
  BY Zenon DEF Instances, TypeOK
<1>2. opt.limit \in Nat /\ opt.halfOpen \in BOOLEAN /\ opt.owners \subseteq Owners
  BY <1>1, Zenon DEF Setting
<1>3. sock.bytes \in Nat /\ sock.more \in Nat /\ sock.end \in {"no", "fin", "reset"}
  BY Zenon DEF TypeOK, SockState
<1>4. input.in \in Nat /\ input.tail \in Nat /\ input.told \in BOOLEAN
  BY Zenon DEF TypeOK, InputState
<1>5. /\ turn.pc \in Places /\ turn.ev \subseteq Events /\ turn.bits \subseteq Bits
      /\ turn.ret \in Returns /\ turn.n \in Nat /\ turn.mark \in Nat /\ turn.reported \in BOOLEAN
  BY Zenon DEF TypeOK, TurnState
<1>6. /\ task.events \subseteq Events /\ task.claimed \in BOOLEAN
      /\ edge.set \in BOOLEAN /\ edge.taken \subseteq {"read", "hangup"}
  BY Zenon DEF TypeOK, TaskState, EdgeState
<1>7. /\ control.paused \subseteq Owners /\ control.owners \in Nat /\ control.owed \in BOOLEAN
      /\ control.at \in [Owners -> {"idle", "release", "kick"}]
  BY Zenon DEF TypeOK, ControlState
<1>8. QED
  BY <1>2, <1>3, <1>4, <1>5, <1>6, <1>7, Zenon

\* The lesser of two numbers.
LEMMA Least2 ==
    ASSUME NEW a \in Nat, NEW b \in Nat
    PROVE  Least(a, b) \in Nat /\ Least(a, b) <= a /\ Least(a, b) <= b /\ a - Least(a, b) \in Nat
  BY DEF Least

\* The claim and the events of a task that takes events in.
LEMMA NoteTypes ==
    ASSUME TypeOK, NEW S \in SUBSET Events, Fold(S), Submit
    PROVE  task' \in TaskState /\ turn' \in TurnState
<1>1. task.events \cup S \in SUBSET Events
  BY Zenon DEF TypeOK, TaskState
<1>2. task' \in TaskState
  BY <1>1, OuterChanges, Zenon DEF Fold
<1>3. turn' \in TurnState
  BY TurnChanges, Zenon DEF Submit, TypeOK, Places
<1>4. QED
  BY <1>2, <1>3, Zenon

\* Bytes arrive.
LEMMA ArriveTypes == ASSUME Instances, TypeOK, Arrive PROVE TypeOK'
<1>1. PICK n \in 1 .. sock.more : sock' = [sock EXCEPT !.bytes = @ + n, !.more = @ - n]
  BY Zenon DEF Arrive
<1>2. sock.bytes + n \in Nat /\ sock.more - n \in Nat
  BY Values
<1>3. sock' \in SockState
  BY <1>1, <1>2, OuterChanges, Zenon DEF TypeOK
<1>4. edge' \in EdgeState
  BY OuterChanges, Zenon DEF Arrive, TypeOK
<1>5. QED
  BY <1>3, <1>4, Zenon DEF Arrive, TypeOK

\* The stream ends.
LEMMA PeerTypes ==
    ASSUME TypeOK, NEW how \in {"fin", "reset"}, PeerEnds(how)
    PROVE  TypeOK'
<1>1. 0 \in Nat
  OBVIOUS
<1>2. sock' \in SockState
  BY <1>1, OuterChanges, Zenon DEF PeerEnds, TypeOK
<1>3. edge' \in EdgeState
  BY OuterChanges, Zenon DEF PeerEnds, TypeOK
<1>4. QED
  BY <1>2, <1>3, Zenon DEF PeerEnds, TypeOK

\* A waiter takes the edge.
LEMMA WaitTypes == ASSUME TypeOK, Wait PROVE TypeOK'
<1>1. edge' \in EdgeState
  BY Zenon DEF Wait, EdgeState
<1>2. QED
  BY <1>1, Zenon DEF Wait, TypeOK

\* It is handed on, or dropped.
LEMMA DispatchTypes == ASSUME TypeOK, Dispatch PROVE TypeOK'
<1>1. edge' \in EdgeState
  BY OuterChanges, Zenon DEF Dispatch, TypeOK
<1>2. edge.taken \in SUBSET Events
  BY Zenon DEF TypeOK, EdgeState, Events
<1>3. task' \in TaskState /\ turn' \in TurnState
  BY <1>2, NoteTypes, Zenon DEF Dispatch, TypeOK
<1>4. QED
  BY <1>1, <1>3, Zenon DEF Dispatch, TypeOK

\* A Wake.
LEMMA WakeTypes == ASSUME TypeOK, Wake PROVE TypeOK'
<1>1. {"wake"} \in SUBSET Events
  BY Zenon DEF Events
<1>2. task' \in TaskState /\ turn' \in TurnState
  BY <1>1, NoteTypes, Zenon DEF Wake
<1>3. calls' \in CallState
  BY SMT DEF Wake, TypeOK, CallState
<1>4. QED
  BY <1>2, <1>3, Zenon DEF Wake, TypeOK

\* An owner pauses.
LEMMA PauseTypes == ASSUME Instances, TypeOK, NEW o \in Owners, Pause(o) PROVE TypeOK'
<1>1. control.owners + 1 \in Nat /\ control.paused \cup {o} \in SUBSET Owners
  BY Values
<1>2. control' \in ControlState
  BY <1>1, InnerChanges, Zenon DEF Pause, Paused, TypeOK
<1>3. calls' \in CallState
  BY SMT DEF Pause, TypeOK, CallState
<1>4. QED
  BY <1>2, <1>3, Zenon DEF Pause, TypeOK

\* It resumes.
LEMMA ResumeTypes ==
    ASSUME Instances, TypeOK, NEW o \in Owners, Resume(o)
    PROVE  TypeOK'
<1>1. control.paused \ {o} \in SUBSET Owners
  BY Values
<1>2. control' \in ControlState
  BY <1>1, InnerChanges, Zenon DEF Resume, TypeOK
<1>3. QED
  BY <1>2, Zenon DEF Resume, TypeOK

\* Its release drops the count.
LEMMA ReleaseTypes ==
    ASSUME Instances, TypeOK, NEW o \in Owners, ResumeRelease(o), control.owners > 0 PROVE TypeOK'
<1>1. control.owners - 1 \in Nat
  BY Values
<1>2. control' \in ControlState
  BY <1>1, InnerChanges, Zenon DEF ResumeRelease, TypeOK
<1>3. QED
  BY <1>2, Zenon DEF ResumeRelease, TypeOK

\* It asks for a turn.
LEMMA KickTypes == ASSUME TypeOK, NEW o \in Owners, ResumeKick(o) PROVE TypeOK'
<1>1. {"resume"} \in SUBSET Events
  BY Zenon DEF Events
<1>2. task' \in TaskState /\ turn' \in TurnState
  BY <1>1, NoteTypes, Zenon DEF ResumeKick, TypeOK
<1>3. control' \in ControlState
  BY InnerChanges, Zenon DEF ResumeKick, TypeOK
<1>4. QED
  BY <1>2, <1>3, Zenon DEF ResumeKick, TypeOK

\* The turn begins.
LEMMA TakeTypes == ASSUME Instances, TypeOK, takeIOEvents PROVE TypeOK'
<1> DEFINE opens == "open" \in task.events
           stale == opens /\ ~opt.tagged /\ "hangup" \in task.events
           resumes == "resume" \in task.events /\ ~isClosing
           pc == IF resumes THEN "fire" ELSE "read"
           ret == IF resumes THEN "resumed" ELSE "none"
           rep == "hangup" \in task.events
           ev == (task.events \ ({"open"} \cup IF stale THEN {"hangup"} ELSE {}))
                     \cup (IF opens THEN {"read"} ELSE {})
           bits == IF stale THEN turn.bits \cup {"toEnd"} ELSE turn.bits
           mark == IF resumes THEN input.in ELSE 0
<1>1. turn' = [turn EXCEPT !.pc = pc, !.ret = ret, !.reported = rep, !.ev = ev,
                           !.bits = bits, !.mark = mark]
  BY Zenon DEF takeIOEvents
<1>2. pc \in Places /\ ret \in Returns
  BY Zenon DEF Places, Returns
<1>3. ev \in SUBSET Events /\ bits \in SUBSET Bits
  BY Values, Zenon DEF Events, Bits
<1>4. mark \in Nat /\ rep \in BOOLEAN
  BY Values
<1>5. task' \in TaskState
  BY OuterChanges, Zenon DEF takeIOEvents, TypeOK
<1> HIDE DEF pc, ret, rep, ev, bits, mark
<1>6. turn' \in TurnState
  <2> DEFINE t == [turn EXCEPT !.pc = pc, !.ret = ret, !.reported = rep]
  <2>1. t \in TurnState
    BY <1>2, <1>4, TurnChanges, Zenon DEF TypeOK
  <2>2. turn' = [t EXCEPT !.ev = ev, !.bits = bits, !.mark = mark]
    BY <1>1, Zenon
  <2> HIDE DEF t
  <2>3. QED
    BY <1>3, <1>4, <2>1, <2>2, TurnChanges, Zenon
<1>7. QED
  BY <1>5, <1>6, Zenon DEF takeIOEvents, TypeOK

\* OnRead returns to a place of the turn.
LEMMA MayRunTypes ==
    ASSUME Instances, TypeOK, consumerMayRun, turn.ret # "none"
    PROVE  TypeOK'
<1>1. turn.ret \in Places /\ "callback" \in Places
  BY Values, Zenon DEF Returns, Places
<1>2. turn' \in TurnState
  BY <1>1, TurnChanges, Zenon DEF consumerMayRun, Go, TypeOK
<1>3. QED
  BY <1>2, Zenon DEF consumerMayRun, TypeOK

\* Closing gives a cause, and a place is a place.
LEMMA CloseTypes ==
    ASSUME TypeOK, NEW c \in {"callback", "eof", "reset"}, requestClose(c)
    PROVE  close' \in {"open", "callback", "eof", "reset"}
  BY Zenon DEF requestClose, TypeOK

\* A place of the turn.
LEMMA GoTypes ==
    ASSUME TypeOK, NEW p \in Places, Go(p)
    PROVE  turn' \in TurnState
  BY TurnChanges, Zenon DEF Go, TypeOK

\* A deferred end.
LEMMA DeferredTypes ==
    ASSUME TypeOK, closeDeferredReadEOF
    PROVE  close' \in {"open", "callback", "eof", "reset"}
  BY CloseTypes, Zenon DEF closeDeferredReadEOF, TypeOK

\* A hold that ends.
LEMMA HeldTypes ==
    ASSUME TypeOK, resumeHeldRead
    PROVE  flags' \in SUBSET {"held", "eof", "stalled"} /\ task' \in TaskState
<1>1. task.events \cup {"read"} \in SUBSET Events
  BY Zenon DEF TypeOK, TaskState, Events
<1>2. QED
  BY <1>1, OuterChanges, Zenon DEF resumeHeldRead, TypeOK

\* The turn after OnRead.
LEMMA ResumedTypes == ASSUME TypeOK, Resumed PROVE TypeOK'
<1>1. turn' \in TurnState
  BY GoTypes, Zenon DEF Resumed, Places
<1>2. QED
  BY <1>1, HeldTypes, DeferredTypes, Zenon DEF Resumed, TypeOK

\* A continuation goes on to the read.
LEMMA ContinueTypes == ASSUME Instances, TypeOK, Continue PROVE TypeOK'
<1>1. PICK ev \in SUBSET Events, bits \in SUBSET Bits :
          turn' = [turn EXCEPT !.pc = "read", !.ev = ev, !.bits = bits]
  <2> DEFINE waits == ~ReadsPaused /\ "stalled" \in flags /\ input.in = turn.mark
             ended == waits /\ "eof" \in flags
             ev == CASE ReadsPaused \/ ended -> turn.ev
                     [] "stalled" \notin flags \/ waits -> turn.ev \cup {"read"}
                     [] OTHER -> turn.ev \ {"read"}
             bits == IF waits /\ ~ended THEN turn.bits \cup {"pastYield"} ELSE turn.bits
  <2>1. turn' = [turn EXCEPT !.pc = "read", !.ev = ev, !.bits = bits]
    BY Zenon DEF Continue
  <2>2. ev \in SUBSET Events
    BY Values, Zenon DEF Events
  <2>3. bits \in SUBSET Bits
    BY Values, Zenon DEF Bits
  <2>4. QED
    BY <2>1, <2>2, <2>3, Zenon
<1>2. "read" \in Places
  BY Zenon DEF Places
<1>3. turn' \in TurnState
  BY <1>1, <1>2, TurnChanges, Zenon DEF TypeOK
<1>4. QED
  BY <1>3, CloseTypes, Zenon DEF Continue, TypeOK

\* The turn reads, or does not.
LEMMA BranchTypes == ASSUME Instances, TypeOK, ReadBranch PROVE TypeOK'
<1>1. PICK p \in {"recv", "probe"}, bits \in SUBSET Bits :
          turn' = [turn EXCEPT !.pc = p, !.n = 0, !.bits = bits]
  <2> DEFINE hangup == "hangup" \in turn.ev
             seen == turn.bits \cup (IF hangup THEN {"hangup"} ELSE {})
             reads == "read" \in turn.ev /\ ~isClosing
             rounds == /\ reads /\ flags \cap {"held", "eof"} = {} /\ ~ReadsPaused
                       /\ "stalled" \in flags => "pastYield" \in seen
             probes == reads /\ "eof" \in flags /\ hangup
             p == IF rounds THEN "recv" ELSE "probe"
             bits == IF probes THEN seen \cup {"drained"} ELSE seen
  <2>1. turn' = [turn EXCEPT !.pc = p, !.n = 0, !.bits = bits]
    BY Zenon DEF ReadBranch
  <2>2. bits \in SUBSET Bits
    BY Values, Zenon DEF Bits
  <2>3. p \in {"recv", "probe"}
    BY Zenon
  <2>4. QED
    BY <2>1, <2>2, <2>3, Zenon
<1>2. p \in Places /\ 0 \in Nat
  BY DEF Places
<1>3. turn' \in TurnState
  BY <1>1, <1>2, TurnChanges, Zenon DEF TypeOK
<1>4. QED
  BY <1>3, CloseTypes, Zenon DEF ReadBranch, TypeOK

\* A read meets a would-block or an error.
LEMMA NoneTypes == ASSUME Instances, TypeOK, RecvNone PROVE TypeOK'
<1>1. "probe" \in Places
  BY Zenon DEF Places
<1>2. (turn.bits \ IF sock.end = "no" THEN {"toEnd"} ELSE {}) \cup {"drained"} \in SUBSET Bits
  BY Values, Zenon DEF Bits
<1>3. turn' \in TurnState
  BY <1>1, <1>2, TurnChanges, Zenon DEF RecvNone, TypeOK
<1>4. QED
  BY <1>3, CloseTypes, Zenon DEF RecvNone, TypeOK

\* A read gets bytes.
LEMMA BytesTypes == ASSUME Instances, TypeOK, RecvBytes PROVE TypeOK'
<1>1. Least(sock.bytes, Buffer) \in Nat /\ sock.bytes - Least(sock.bytes, Buffer) \in Nat
  BY Values, Least2, Zenon DEF Instances
<1>2. sock' \in SockState
  BY <1>1, OuterChanges, Zenon DEF RecvBytes, TypeOK
<1>3. input' \in InputState
  BY <1>1, InnerChanges, Zenon DEF RecvBytes, TypeOK
<1>4. "fire" \in Places /\ "received" \in Returns
  BY Zenon DEF Places, Returns
<1>5. turn.n + 1 \in Nat
  BY Values
<1>6. turn' \in TurnState
  BY <1>1, <1>4, <1>5, TurnChanges, Zenon DEF RecvBytes, TypeOK
<1>7. QED
  BY <1>2, <1>3, <1>6, Zenon DEF RecvBytes, TypeOK

\* They are kept.
LEMMA ReceivedTypes == ASSUME Instances, TypeOK, Received PROVE TypeOK'
<1>1. 0 \in Nat /\ input.in + input.tail \in Nat
  BY Values
<1>2. (IF isClosing THEN input.in ELSE input.in + input.tail) \in Nat
  BY <1>1, Values, Zenon
<1>3. input' \in InputState
  BY <1>1, <1>2, InnerChanges, Zenon DEF Received, TypeOK
<1>4. PICK p \in {"probe", "recv"} : Go(p)
  BY Zenon DEF Received
<1>5. turn' \in TurnState
  BY <1>4, GoTypes, Zenon DEF Places
<1>6. flags' \in SUBSET {"held", "eof", "stalled"}
  BY Zenon DEF Received, TypeOK
<1>7. QED
  BY <1>3, <1>5, <1>6, Zenon DEF Received, TypeOK

\* A read meets the end.
LEMMA EOFTypes == ASSUME Instances, TypeOK, onReadEOF PROVE TypeOK'
<1>1. "probe" \in Places /\ "fire" \in Places /\ "ended" \in Returns
  BY Zenon DEF Places, Returns
<1>2. turn.bits \cup {"drained"} \in SUBSET Bits
  BY Values, Zenon DEF Bits
<1>3. turn' \in TurnState
  <2>1. \/ turn' = [turn EXCEPT !.pc = "probe", !.bits = @ \cup {"drained"}]
        \/ turn' = [turn EXCEPT !.pc = "fire", !.ret = "ended", !.bits = @ \cup {"drained"}]
    BY Zenon DEF onReadEOF
  <2>2. [turn EXCEPT !.pc = "probe", !.bits = @ \cup {"drained"}] \in TurnState
    BY <1>1, <1>2, TurnChanges, Zenon DEF TypeOK
  <2>3. [turn EXCEPT !.pc = "fire", !.ret = "ended", !.bits = @ \cup {"drained"}] \in TurnState
    BY <1>1, <1>2, TurnChanges, Zenon DEF TypeOK
  <2>4. QED
    BY <2>1, <2>2, <2>3, Zenon
<1>4. flags' \in SUBSET {"held", "eof", "stalled"}
  BY Zenon DEF onReadEOF, TypeOK
<1>5. QED
  BY <1>3, <1>4, CloseTypes, Zenon DEF onReadEOF, TypeOK

\* OnRead has had the end.
LEMMA EndedTypes == ASSUME TypeOK, Ended PROVE TypeOK'
<1>1. turn' \in TurnState
  BY GoTypes, Zenon DEF Ended, Places
<1>2. QED
  BY <1>1, DeferredTypes, Zenon DEF Ended, TypeOK

\* A hangup is probed, and a Wake seen.
LEMMA PendingTypes == ASSUME Instances, TypeOK, pendingSocketError PROVE TypeOK'
<1>1. PICK p \in {"fire", "shut"} :
          turn' = [turn EXCEPT !.pc = p, !.ret = "woken", !.n = 0, !.mark = 0,
                               !.bits = @ \cap {"hangup", "toEnd"}, !.ev = {}, !.reported = FALSE]
  BY Zenon DEF pendingSocketError
<1>2. p \in Places /\ "woken" \in Returns /\ {} \in SUBSET Events /\ FALSE \in BOOLEAN
  BY Zenon DEF Places, Returns
<1>3. turn.bits \cap {"hangup", "toEnd"} \in SUBSET Bits
  BY Values, Zenon
<1>4. 0 \in Nat
  OBVIOUS
<1>5. turn' \in TurnState
  BY <1>1, <1>2, <1>3, <1>4, TurnChanges, Zenon DEF TypeOK
<1>6. QED
  BY <1>5, CloseTypes, Zenon DEF pendingSocketError, TypeOK

\* OnRead after a Wake.
LEMMA WokenTypes == ASSUME TypeOK, Woken PROVE TypeOK'
<1>1. turn' \in TurnState
  BY GoTypes, Zenon DEF Woken, Places
<1>2. QED
  BY <1>1, HeldTypes, DeferredTypes, Zenon DEF Woken, TypeOK

\* The writing half is shut.
LEMMA ShutTypes == ASSUME Instances, TypeOK, shutWrite PROVE TypeOK'
<1>1. turn' \in TurnState
  BY GoTypes, Zenon DEF shutWrite, Places
<1>2. task.events \ {"shut"} \in SUBSET Events
  BY Values, Zenon
<1>3. task' \in TaskState
  BY <1>2, OuterChanges, Zenon DEF shutWrite, TypeOK
<1>4. half' \in {"open", "shut", "done"}
  BY Zenon DEF shutWrite, TypeOK
<1>5. QED
  BY <1>1, <1>3, <1>4, CloseTypes, Zenon DEF shutWrite, TypeOK

\* The turn gives up its claim, or is queued again.
LEMMA FinishTypes == ASSUME Instances, TypeOK, finishIOTask PROVE TypeOK'
<1>1. task.events \in SUBSET Events /\ Settled(task.events) \in SUBSET Events
  BY Values, Zenon DEF Settled, Events
<1>2. task' \in TaskState
  BY <1>1, OuterChanges, Zenon DEF finishIOTask
<1>3. PICK p \in {"queued", "idle"} : Go(p)
  BY Zenon DEF finishIOTask
<1>4. turn' \in TurnState
  BY <1>3, GoTypes, Zenon DEF Places
<1>5. flags' \in SUBSET {"held", "eof", "stalled"}
  BY Zenon DEF finishIOTask, TypeOK
<1>6. QED
  BY <1>2, <1>4, <1>5, Zenon DEF finishIOTask, TypeOK

----------------------------------------------------------------------------
(* The count.                                                              *)

\* The count is zero exactly when nobody pauses or has a release before it.
LEMMA CountZero ==
    ASSUME Instances, TypeOK, CountOK
    PROVE  /\ IsFiniteSet(control.paused) /\ IsFiniteSet(Releasing)
           /\ Cardinality(control.paused) \in Nat /\ Cardinality(Releasing) \in Nat
           /\ ReadsPaused <=> control.paused # {} \/ Releasing # {}
<1>1. control.paused \subseteq Owners /\ Releasing \subseteq Owners
  BY Values, Zenon DEF Releasing
<1>2. IsFiniteSet(control.paused) /\ IsFiniteSet(Releasing)
  BY <1>1, FS_Subset, Zenon DEF Instances
<1>3. /\ Cardinality(control.paused) \in Nat /\ Cardinality(Releasing) \in Nat
      /\ Cardinality(control.paused) = 0 <=> control.paused = {}
      /\ Cardinality(Releasing) = 0 <=> Releasing = {}
  BY <1>2, FS_CardinalityType, FS_EmptySet, Zenon
<1>4. ReadsPaused <=> control.paused # {} \/ Releasing # {}
  BY <1>3 DEF CountOK, ReadsPaused
<1>5. QED
  BY <1>2, <1>3, <1>4, Zenon

\* One more, or one less.
LEMMA PauseCount ==
    ASSUME Instances, TypeOK, CountOK, NEW o \in Owners, o \notin control.paused,
           NEW c, c = Paused(control, o), control' \in {c, [c EXCEPT !.owed = FALSE]}
    PROVE  CountOK'
<1>1. /\ control'.paused = control.paused \cup {o} /\ control'.owners = control.owners + 1
      /\ control'.at = control.at
  BY Zenon DEF TypeOK, ControlState, Paused
<1>2. Releasing' = Releasing
  BY <1>1, Zenon DEF Releasing
<1>3. Cardinality(control'.paused) = Cardinality(control.paused) + 1
  BY <1>1, CountZero, FS_AddElement, Zenon
<1>4. QED
  BY <1>1, <1>2, <1>3, CountZero DEF CountOK

\* A resume moves its owner from the pausing to the releasing.
LEMMA ResumeCount ==
    ASSUME Instances, TypeOK, CountOK, NEW o \in Owners, Resume(o)
    PROVE  CountOK'
<1>1. /\ control'.paused = control.paused \ {o} /\ control'.owners = control.owners
      /\ control'.at = [control.at EXCEPT ![o] = "release"]
  BY Zenon DEF TypeOK, ControlState, Resume
<1>2. Releasing' = Releasing \cup {o} /\ o \notin Releasing /\ o \in control.paused
  BY <1>1, Values DEF Releasing, Resume
<1>3. /\ Cardinality(control'.paused) = Cardinality(control.paused) - 1
      /\ Cardinality(Releasing') = Cardinality(Releasing) + 1
  BY <1>1, <1>2, CountZero, FS_AddElement, FS_RemoveElement, Zenon
<1>4. QED
  BY <1>1, <1>3, CountZero DEF CountOK

\* A release takes its owner out of the count, which was not zero.
LEMMA ReleaseCount ==
    ASSUME Instances, TypeOK, CountOK, NEW o \in Owners, ResumeRelease(o)
    PROVE  CountOK' /\ control.owners > 0
<1>1. /\ control'.paused = control.paused /\ control'.owners = control.owners - 1
      /\ \E v \in {"kick", "idle"} : control'.at = [control.at EXCEPT ![o] = v]
  BY Zenon DEF TypeOK, ControlState, ResumeRelease
<1>2. Releasing' = Releasing \ {o} /\ o \in Releasing
  BY <1>1, Values DEF Releasing, ResumeRelease
<1>3. Cardinality(Releasing') = Cardinality(Releasing) - 1
  BY <1>2, CountZero, FS_RemoveElement, Zenon
<1>4. control.owners > 0
  BY <1>2, CountZero, Values DEF ReadsPaused
<1>5. QED
  BY <1>1, <1>3, <1>4, CountZero DEF CountOK

\* The turn an owner asks for is not in the count.
LEMMA KickCount ==
    ASSUME Instances, TypeOK, CountOK, NEW o \in Owners, ResumeKick(o)
    PROVE  CountOK' /\ Releasing' = Releasing
<1>1. /\ control'.paused = control.paused /\ control'.owners = control.owners
      /\ control'.at = [control.at EXCEPT ![o] = "idle"]
  BY Zenon DEF TypeOK, ControlState, ResumeKick
<1>2. Releasing' = Releasing
  BY <1>1, Values DEF Releasing, ResumeKick
<1>3. QED
  BY <1>1, <1>2, Zenon DEF CountOK

\* What OnRead may do, whatever it consumes.
LEMMA FireMoves ==
    ASSUME Instances, TypeOK, PlaceOK, CountOK, fireOnRead
    PROVE  /\ TypeOK' /\ turn.pc = "callback" /\ turn'.pc = turn.ret
           /\ turn.ret \in {"resumed", "received", "ended", "woken"}
           /\ turn'.ev = turn.ev /\ turn'.bits = turn.bits /\ turn'.reported = turn.reported
           /\ turn'.ret = turn.ret /\ turn'.mark = turn.mark
           /\ ~control'.owed /\ control'.at = control.at
           /\ control.paused # {} => control'.paused # {}
           /\ ReadsPaused => ReadsPaused'
           /\ flags \subseteq flags' /\ flags' \subseteq flags \cup {"stalled"}
           /\ input'.told = ("eof" \in flags)
           /\ input'.in <= input.in /\ input'.tail <= input.tail
           /\ input.in = 0 => input'.in = 0
           /\ input.tail = 0 => input'.tail = 0
           /\ task'.claimed = task.claimed
           /\ task'.events \in {task.events, task.events \cup {"shut"}}
           /\ close' = close \/ (close = "open" /\ close' = "callback")
           /\ UNCHANGED <<opt, sock, edge, calls>> /\ CountOK'
<1>1. PICK k \in {0, 1, input.in + input.tail}, yields \in BOOLEAN, pauses \in BOOLEAN,
           shuts \in BOOLEAN, fails \in BOOLEAN, o \in opt.owners :
          /\ k <= input.in + input.tail
          /\ yields => "yield" \in opt.acts
          /\ pauses => "pause" \in opt.acts /\ o \notin control.paused /\ control.at[o] = "idle"
          /\ (shuts \/ fails) => ~(yields \/ pauses) /\ ~(shuts /\ fails)
          /\ shuts => half = "open" /\ readEnded
          /\ fails => "fail" \in opt.acts
          /\ input' = [input EXCEPT !.in = @ - Least(k, @), !.tail = @ - (k - Least(k, input.in)),
                                    !.told = "eof" \in flags]
          /\ flags' = IF yields THEN flags \cup {"stalled"} ELSE flags
          /\ control' = LET c == [control EXCEPT !.owed = FALSE] IN IF pauses THEN Paused(c, o) ELSE c
          /\ half' = IF shuts THEN "shut" ELSE half
          /\ task' = IF shuts THEN [task EXCEPT !.events = @ \cup {"shut"}] ELSE task
          /\ IF fails THEN requestClose("callback") ELSE UNCHANGED close
  BY Zenon DEF fireOnRead
<1>2. /\ input' \in InputState /\ input'.told = ("eof" \in flags)
      /\ input'.in <= input.in /\ input'.tail <= input.tail
      /\ input.in = 0 => input'.in = 0
      /\ input.tail = 0 => input'.tail = 0
  <2>1. k \in Nat /\ k <= input.in + input.tail
    <3>1. k <= input.in + input.tail
      BY <1>1, Zenon
    <3>2. QED
      BY <3>1, Values
  <2>2. input' = [input EXCEPT !.in = @ - Least(k, @), !.tail = @ - (k - Least(k, input.in)),
                               !.told = "eof" \in flags]
    BY <1>1, Zenon
  <2>3. /\ input'.told = ("eof" \in flags) /\ input'.in = input.in - Least(k, input.in)
        /\ input'.tail = input.tail - (k - Least(k, input.in))
    BY <2>2, Zenon DEF TypeOK, InputState
  <2>4. input.in \in Nat /\ input.tail \in Nat
    BY Values, Zenon
  <2>5. /\ input'.in <= input.in /\ input'.tail <= input.tail
        /\ input.in = 0 => input'.in = 0
        /\ input.tail = 0 => input'.tail = 0
        /\ input.in - Least(k, input.in) \in Nat
        /\ input.tail - (k - Least(k, input.in)) \in Nat /\ ("eof" \in flags) \in BOOLEAN
    BY <2>1, <2>3, <2>4 DEF Least
  <2>6. input' \in InputState
    BY <2>2, <2>5, InnerChanges, Zenon DEF TypeOK
  <2>7. QED
    BY <2>3, <2>5, <2>6, Zenon
<1>3. /\ control' \in ControlState /\ ~control'.owed /\ control'.at = control.at
      /\ control.paused # {} => control'.paused # {}
      /\ ReadsPaused => ReadsPaused'
      /\ CountOK'
  <2>1. CASE pauses
    <3> DEFINE c == [control EXCEPT !.owed = FALSE]
    <3>1. control' = Paused(c, o) /\ o \notin control.paused /\ o \in Owners
      BY <1>1, <2>1, Values, Zenon
    <3>2. control' = [Paused(control, o) EXCEPT !.owed = FALSE]
      BY <3>1, Zenon DEF TypeOK, ControlState, Paused
    <3>3. CountOK'
      BY <3>1, <3>2, PauseCount, Zenon
    <3>4. /\ ~control'.owed /\ control'.at = control.at
          /\ control'.owners = control.owners + 1 /\ control'.paused = control.paused \cup {o}
      BY <3>1, Zenon DEF TypeOK, ControlState, Paused
    <3>5. control.owners \in Nat
      BY Values, Zenon
    <3>6. ReadsPaused'
      BY <3>4, <3>5 DEF ReadsPaused
    <3>7. control' \in ControlState
      <4>1. c \in ControlState /\ c.owners = control.owners /\ c.paused = control.paused
        BY InnerChanges, Zenon DEF TypeOK, ControlState
      <4>2. c.owners + 1 \in Nat /\ c.paused \cup {o} \in SUBSET Owners
        BY <3>1, <4>1, Values
      <4> HIDE DEF c
      <4>3. QED
        BY <3>1, <4>1, <4>2, InnerChanges, Zenon DEF Paused
    <3>8. QED
      BY <3>3, <3>4, <3>6, <3>7, Zenon
  <2>2. CASE ~pauses
    <3>1. control' = [control EXCEPT !.owed = FALSE]
      BY <1>1, <2>2, Zenon
    <3>2. /\ ~control'.owed /\ control'.at = control.at
          /\ control'.owners = control.owners /\ control'.paused = control.paused
      BY <3>1, Zenon DEF TypeOK, ControlState
    <3>3. control' \in ControlState
      BY <3>1, InnerChanges, Zenon DEF TypeOK
    <3>4. QED
      BY <3>2, <3>3, Zenon DEF CountOK, Releasing, ReadsPaused
  <2>3. QED
    BY <2>1, <2>2, Zenon
<1>4. /\ task' \in TaskState /\ task'.claimed = task.claimed
      /\ task'.events \in {task.events, task.events \cup {"shut"}}
  <2>1. task.events \cup {"shut"} \in SUBSET Events
    BY Values, Zenon DEF Events
  <2>2. QED
    BY <1>1, <2>1, OuterChanges, Zenon DEF TypeOK, TaskState
<1>5. flags \subseteq flags' /\ flags' \subseteq flags \cup {"stalled"}
  BY <1>1, Zenon
<1>6. close' = close \/ (close = "open" /\ close' = "callback")
  BY <1>1, Zenon DEF requestClose, isClosing
<1>7. /\ turn.pc = "callback" /\ turn' = [turn EXCEPT !.pc = turn.ret]
      /\ UNCHANGED <<opt, sock, edge, calls>>
  BY Zenon DEF fireOnRead, At, Go
<1>8. turn.ret \in {"resumed", "received", "ended", "woken"}
  BY <1>7, Values, Zenon DEF Returns, PlaceOK
<1>9. /\ turn'.pc = turn.ret /\ turn'.ev = turn.ev /\ turn'.bits = turn.bits
      /\ turn'.reported = turn.reported /\ turn'.ret = turn.ret /\ turn'.mark = turn.mark
  BY <1>7, Zenon DEF TypeOK, TurnState
<1>10. turn' \in TurnState
  <2>1. turn.ret \in Places
    BY <1>8, Zenon DEF Places
  <2>2. QED
    BY <1>7, <2>1, TurnChanges, Zenon DEF TypeOK
<1>11. half' \in {"open", "shut", "done"} /\ close' \in {"open", "callback", "eof", "reset"}
  <2>1. half' = half \/ half' = "shut"
    BY <1>1, Zenon
  <2>2. QED
    BY <1>6, <2>1, Zenon DEF TypeOK
<1>12. flags' \in SUBSET {"held", "eof", "stalled"}
  BY <1>1, Zenon DEF TypeOK
<1>13. TypeOK'
  BY <1>2, <1>3, <1>4, <1>7, <1>10, <1>11, <1>12, Zenon DEF TypeOK
<1>14. QED
  BY <1>2, <1>3, <1>4, <1>5, <1>6, <1>7, <1>8, <1>9, <1>13, Zenon

\* What the end of the stream does: it closes at once, or waits for its consumer.
LEMMA EOFMoves ==
    ASSUME TypeOK, onReadEOF
    PROVE  /\ turn.pc = "recv" /\ sock.bytes = 0 /\ sock.end = "fin"
           /\ turn'.ev = turn.ev /\ turn'.reported = turn.reported
           /\ turn'.bits = turn.bits \cup {"drained"}
           /\ \/ /\ ~opt.halfOpen /\ input.in = 0 /\ flags' = flags /\ turn'.pc = "probe"
                 /\ isClosing' /\ close' = (IF isClosing THEN close ELSE "eof")
              \/ /\ flags' = flags \cup {"eof"} /\ turn'.pc = "fire" /\ turn'.ret = "ended"
                 /\ close' = close
           /\ UNCHANGED <<opt, sock, edge, task, input, control, half, calls>>
<1> DEFINE t == [turn EXCEPT !.pc = "probe", !.bits = @ \cup {"drained"}]
           u == [turn EXCEPT !.pc = "fire", !.ret = "ended", !.bits = @ \cup {"drained"}]
<1>1. /\ t.ev = turn.ev /\ t.reported = turn.reported
      /\ t.bits = turn.bits \cup {"drained"} /\ t.pc = "probe"
  BY Zenon DEF TypeOK, TurnState
<1>2. /\ u.ev = turn.ev /\ u.reported = turn.reported
      /\ u.bits = turn.bits \cup {"drained"} /\ u.pc = "fire" /\ u.ret = "ended"
  BY Zenon DEF TypeOK, TurnState
<1>3. \/ /\ ~opt.halfOpen /\ input.in = 0 /\ flags' = flags /\ turn' = t
         /\ isClosing' /\ close' = (IF isClosing THEN close ELSE "eof")
      \/ flags' = flags \cup {"eof"} /\ turn' = u /\ close' = close
  BY Zenon DEF onReadEOF, requestClose, isClosing
<1>4. /\ turn.pc = "recv" /\ sock.bytes = 0 /\ sock.end = "fin"
      /\ UNCHANGED <<opt, sock, edge, task, input, control, half, calls>>
  BY Zenon DEF onReadEOF, At
<1> HIDE DEF t, u
<1>5. QED
  BY <1>1, <1>2, <1>3, <1>4, Zenon

\* An end that nobody holds back has been told.
LEMMA EndTold ==
    ASSUME Instances, IInv, "eof" \in flags, ~Held,
           turn.pc \in {"resumed", "ended", "woken", "shut"}
    PROVE  sock.bytes = 0 /\ input.tail = 0 /\ input.told
<1>1. control.paused = {} /\ ~control.owed
  BY CountZero, Zenon DEF IInv, Held
<1>2. ~Calls("ended") /\ ~Receiving
  BY Zenon DEF Calls, Receiving
<1>3. QED
  BY <1>1, <1>2, Zenon DEF IInv, ToldOK, RoundOK

\* Whether the deferred end closes the connection now.
LEMMA DeferredMoves ==
    ASSUME closeDeferredReadEOF
    PROVE  \/ /\ close' = close
              /\ ~isClosing => /\ "eof" \in flags /\ ~opt.halfOpen => "stalled" \in flags \/ Held
                               /\ half = "done" /\ readEnded => "stalled" \in flags \/ Held
           \/ close = "open" /\ close' = "eof" /\ "eof" \in flags /\ ~Held
  BY Zenon DEF closeDeferredReadEOF, deferredEnds, requestClose, isClosing, readEnded

----------------------------------------------------------------------------
(* Every action keeps the invariant.                                        *)

\* Bytes arrive: an edge says so.
LEMMA ArriveKeeps == ASSUME Instances, IInv, Arrive PROVE IInv'
<1>1. TypeOK'
  BY ArriveTypes, Zenon DEF IInv
<1>2. PlaceOK' /\ CountOK' /\ LimitOK' /\ OwedOK' /\ EofOK' /\ ToldOK'
  BY DEF IInv, Arrive, PlaceOK, isClosing, CountOK, Releasing, LimitOK, InRound,
     Receiving, Calls, OwedOK, ReadsPaused, Kicking, EofOK, Deferred, readEnded, Held,
     ToldOK
<1>3. RoundOK'
  BY DEF IInv, Arrive, isClosing, RoundOK, InRound, Receiving, Calls, PlaceOK, TypeOK,
     SockState
<1>4. HangupOK'
  BY DEF IInv, Arrive, isClosing, HangupOK, PastBranch, InRound, Receiving, Calls,
     TypeOK, EdgeState
<1>5. ResetOK'
  BY DEF IInv, Arrive, isClosing, ResetOK, PastBranch, InRound, Receiving, Calls,
     HangupOK, PlaceOK, TypeOK, SockState, EdgeState
<1>6. FinOK'
  BY DEF IInv, Arrive, isClosing, FinOK, PastBranch, InRound, Receiving, Calls,
     HangupOK, PlaceOK, TypeOK, SockState, EdgeState
<1>7. UnreadOK'
  BY DEF IInv, Arrive, isClosing, UnreadOK, Unread, Noticed, Reading, Drained,
     ReadsPaused, Kicking, InRound, Receiving, Calls, RoundOK, HangupOK, FinOK, PlaceOK,
     TypeOK, SockState, EdgeState
<1>8. EndOK'
  BY DEF IInv, Arrive, isClosing, EndOK, EndBehindInput, Calls, InRound, Receiving,
     RoundOK, ToldOK, TypeOK, SockState
<1>9. QED
  BY <1>1, <1>2, <1>3, <1>4, <1>5, <1>6, <1>7, <1>8, Zenon DEF IInv

\* A FIN or a reset: an edge says so.
LEMMA PeerKeeps ==
    ASSUME Instances, IInv, NEW how \in {"fin", "reset"}, PeerEnds(how)
    PROVE  IInv'
<1>1. TypeOK'
  BY PeerTypes, Zenon DEF IInv
<1>2. PlaceOK' /\ CountOK' /\ LimitOK' /\ OwedOK' /\ EofOK' /\ ToldOK'
  BY DEF IInv, PeerEnds, PlaceOK, isClosing, CountOK, Releasing, LimitOK, InRound,
     Receiving, Calls, OwedOK, ReadsPaused, Kicking, EofOK, Deferred, readEnded, Held,
     ToldOK
<1>3. RoundOK'
  BY DEF IInv, PeerEnds, isClosing, RoundOK, InRound, Receiving, Calls, PlaceOK,
     TypeOK, SockState
<1>4. HangupOK'
  BY DEF IInv, PeerEnds, isClosing, HangupOK, PastBranch, InRound, Receiving, Calls,
     TypeOK, EdgeState
<1>5. ResetOK'
  BY DEF IInv, PeerEnds, isClosing, ResetOK, PastBranch, InRound, Receiving, Calls,
     HangupOK, PlaceOK, TypeOK, SockState, EdgeState
<1>6. FinOK'
  BY DEF IInv, PeerEnds, isClosing, FinOK, PastBranch, InRound, Receiving, Calls,
     HangupOK, PlaceOK, TypeOK, SockState, EdgeState
<1>7. UnreadOK'
  BY DEF IInv, PeerEnds, isClosing, UnreadOK, Unread, Noticed, Reading, Drained,
     ReadsPaused, Kicking, InRound, Receiving, Calls, RoundOK, HangupOK, FinOK, PlaceOK,
     TypeOK, SockState, EdgeState
<1>8. EndOK'
  BY DEF IInv, PeerEnds, isClosing, EndOK, EndBehindInput, Calls, InRound, Receiving,
     RoundOK, ToldOK, TypeOK, SockState
<1>9. QED
  BY <1>1, <1>2, <1>3, <1>4, <1>5, <1>6, <1>7, <1>8, Zenon DEF IInv

\* A waiter takes the edge, with a hangup if there is one by then.
LEMMA WaitKeeps == ASSUME Instances, IInv, Wait PROVE IInv'
<1>1. TypeOK'
  BY WaitTypes, Zenon DEF IInv
<1>2. PlaceOK' /\ CountOK' /\ RoundOK' /\ LimitOK' /\ OwedOK' /\ EofOK' /\ ToldOK' /\ EndOK'
  BY DEF IInv, Wait, PlaceOK, isClosing, CountOK, Releasing, RoundOK, InRound,
     Receiving, Calls, LimitOK, OwedOK, ReadsPaused, Kicking, EofOK, Deferred, readEnded,
     Held, ToldOK, EndOK, EndBehindInput
<1>3. HangupOK'
  BY DEF IInv, Wait, HangupOK, PastBranch, InRound, Receiving, Calls, TypeOK,
     EdgeState
<1>4. ResetOK'
  BY DEF IInv, Wait, ResetOK, isClosing, PastBranch, InRound, Receiving, Calls,
     HangupOK, PlaceOK, TypeOK, EdgeState
<1>5. FinOK'
  BY DEF IInv, Wait, FinOK, isClosing, PastBranch, InRound, Receiving, Calls,
     HangupOK, PlaceOK, TypeOK, EdgeState
<1>6. UnreadOK'
  BY DEF IInv, Wait, UnreadOK, isClosing, Unread, Noticed, Reading, Drained,
     ReadsPaused, Kicking, InRound, Receiving, Calls, RoundOK, HangupOK, FinOK, PlaceOK,
     TypeOK, EdgeState
<1>7. QED
  BY <1>1, <1>2, <1>3, <1>4, <1>5, <1>6, Zenon DEF IInv

\* An edge is dropped only where a flag or a pause sees to the bytes.
LEMMA DispatchKeeps == ASSUME Instances, IInv, Dispatch PROVE IInv'
<1>1. TypeOK'
  BY DispatchTypes, Zenon DEF IInv
<1>2. CountOK' /\ EndOK'
  BY DEF IInv, Dispatch, CountOK, Releasing, EndOK, EndBehindInput, isClosing, Calls,
     InRound, Receiving
<1>3. PlaceOK'
  BY DEF IInv, Dispatch, Fold, Submit, skipsEdge, isClosing, ReadsPaused, PlaceOK,
     TypeOK, TaskState, TurnState
<1>4. RoundOK'
  BY DEF IInv, Dispatch, Fold, Submit, skipsEdge, isClosing, ReadsPaused, RoundOK,
     InRound, Receiving, Calls, PlaceOK, TypeOK, TurnState
<1>5. HangupOK'
  BY DEF IInv, Dispatch, Fold, Submit, skipsEdge, isClosing, ReadsPaused, HangupOK,
     PastBranch, InRound, Receiving, Calls, PlaceOK, TypeOK, EdgeState, TaskState,
     TurnState
<1>6. LimitOK'
  BY DEF IInv, Dispatch, Fold, Submit, skipsEdge, isClosing, ReadsPaused, LimitOK,
     InRound, Receiving, Calls, RoundOK, PlaceOK, TypeOK, TurnState, InputState,
     Instances, Setting
<1>7. ResetOK'
  BY DEF IInv, Dispatch, Fold, Submit, skipsEdge, isClosing, ReadsPaused, ResetOK,
     PastBranch, InRound, Receiving, Calls, HangupOK, PlaceOK, TypeOK, EdgeState,
     TaskState, TurnState
<1>8. FinOK'
  BY DEF IInv, Dispatch, Fold, Submit, skipsEdge, isClosing, ReadsPaused, FinOK,
     PastBranch, InRound, Receiving, Calls, HangupOK, PlaceOK, TypeOK, EdgeState,
     TaskState, TurnState
<1>9. OwedOK'
  BY DEF IInv, Dispatch, Fold, Submit, skipsEdge, isClosing, ReadsPaused, OwedOK,
     Kicking, CountOK, PlaceOK, TypeOK, TaskState, TurnState
<1>10. UnreadOK'
  BY DEF IInv, Dispatch, Fold, Submit, skipsEdge, isClosing, ReadsPaused, UnreadOK,
     Unread, Noticed, Reading, Drained, Kicking, InRound, Receiving, Calls, RoundOK,
     HangupOK, FinOK, PlaceOK, TypeOK, EdgeState, TaskState, TurnState
<1>11. EofOK'
  BY DEF IInv, Dispatch, Fold, Submit, skipsEdge, isClosing, ReadsPaused, EofOK,
     Deferred, readEnded, Held, Kicking, InRound, Receiving, Calls, RoundOK, OwedOK,
     PlaceOK, TypeOK, TaskState, TurnState
<1>12. ToldOK'
  BY DEF IInv, Dispatch, Fold, Submit, skipsEdge, isClosing, ReadsPaused, ToldOK,
     Releasing, Calls, InRound, Receiving, RoundOK, CountOK, PlaceOK, TypeOK, TurnState
<1>13. QED
  BY <1>1, <1>2, <1>3, <1>4, <1>5, <1>6, <1>7, <1>8, <1>9, <1>10, <1>11, <1>12, Zenon
     DEF IInv

\* A Wake brings a turn.
LEMMA WakeKeeps == ASSUME Instances, IInv, Wake PROVE IInv'
<1>1. TypeOK'
  BY WakeTypes, Zenon DEF IInv
<1>2. CountOK' /\ EndOK'
  BY DEF IInv, Wake, CountOK, Releasing, EndOK, EndBehindInput, isClosing, Calls,
     InRound, Receiving
<1>3. PlaceOK'
  BY DEF IInv, Wake, Fold, Submit, isClosing, PlaceOK, TypeOK, TaskState, TurnState
<1>4. RoundOK'
  BY DEF IInv, Wake, Fold, Submit, isClosing, RoundOK, InRound, Receiving, Calls,
     PlaceOK, TypeOK, TurnState
<1>5. HangupOK'
  BY DEF IInv, Wake, Fold, Submit, isClosing, HangupOK, PastBranch, InRound,
     Receiving, Calls, PlaceOK, TypeOK, TaskState, TurnState
<1>6. LimitOK'
  BY DEF IInv, Wake, Fold, Submit, isClosing, LimitOK, InRound, Receiving, Calls,
     RoundOK, PlaceOK, TypeOK, TurnState, InputState, Instances, Setting
<1>7. ResetOK'
  BY DEF IInv, Wake, Fold, Submit, isClosing, ResetOK, PastBranch, InRound, Receiving,
     Calls, HangupOK, PlaceOK, TypeOK, TaskState, TurnState
<1>8. FinOK'
  BY DEF IInv, Wake, Fold, Submit, isClosing, FinOK, PastBranch, InRound, Receiving,
     Calls, HangupOK, PlaceOK, TypeOK, TaskState, TurnState
<1>9. OwedOK'
  BY DEF IInv, Wake, Fold, Submit, isClosing, OwedOK, ReadsPaused, Kicking, CountOK,
     PlaceOK, TypeOK, TaskState, TurnState
<1>10. UnreadOK'
  BY DEF IInv, Wake, Fold, Submit, isClosing, UnreadOK, Unread, Noticed, Reading,
     Drained, ReadsPaused, Kicking, InRound, Receiving, Calls, RoundOK, HangupOK, FinOK,
     PlaceOK, TypeOK, TaskState, TurnState
<1>11. EofOK'
  BY DEF IInv, Wake, Fold, Submit, isClosing, EofOK, Deferred, readEnded, Held,
     ReadsPaused, Kicking, InRound, Receiving, Calls, RoundOK, OwedOK, PlaceOK, TypeOK,
     TaskState, TurnState
<1>12. ToldOK'
  BY DEF IInv, Wake, Fold, Submit, isClosing, ToldOK, Releasing, Calls, InRound,
     Receiving, RoundOK, CountOK, PlaceOK, TypeOK, TurnState
<1>13. QED
  BY <1>1, <1>2, <1>3, <1>4, <1>5, <1>6, <1>7, <1>8, <1>9, <1>10, <1>11, <1>12, Zenon
     DEF IInv

\* A pause takes over what the socket holds.
LEMMA PauseKeeps == ASSUME Instances, IInv, NEW o \in Owners, Pause(o) PROVE IInv'
<1>1. TypeOK'
  BY PauseTypes, Zenon DEF IInv
<1>2. PlaceOK' /\ RoundOK' /\ HangupOK' /\ LimitOK' /\ ResetOK' /\ FinOK' /\ EndOK'
  BY DEF IInv, Pause, PlaceOK, isClosing, RoundOK, InRound, Receiving, Calls,
     HangupOK, PastBranch, LimitOK, ResetOK, FinOK, EndOK, EndBehindInput
<1>3. CountOK'
  BY PauseCount, Zenon DEF IInv, Pause
<1>4. OwedOK'
  BY DEF IInv, Pause, Paused, isClosing, OwedOK, ReadsPaused, Kicking, CountOK,
     TypeOK, ControlState
<1>5. UnreadOK'
  BY DEF IInv, Pause, Paused, isClosing, UnreadOK, Unread, Noticed, Reading, Drained,
     ReadsPaused, Kicking, InRound, Receiving, Calls, RoundOK, HangupOK, FinOK, PlaceOK,
     TypeOK, ControlState
<1>6. EofOK'
  BY DEF IInv, Pause, Paused, isClosing, EofOK, Deferred, readEnded, Held,
     ReadsPaused, Kicking, InRound, Receiving, Calls, RoundOK, OwedOK, PlaceOK, TypeOK,
     ControlState
<1>7. ToldOK'
  BY DEF IInv, Pause, Paused, isClosing, ToldOK, Releasing, Calls, InRound, Receiving,
     RoundOK, CountOK, TypeOK, ControlState
<1>8. QED
  BY <1>1, <1>2, <1>3, <1>4, <1>5, <1>6, <1>7, Zenon DEF IInv

\* A resume owes a turn before its count drops.
LEMMA ResumeKeeps == ASSUME Instances, IInv, NEW o \in Owners, Resume(o) PROVE IInv'
<1>1. TypeOK'
  BY ResumeTypes, Zenon DEF IInv
<1>2. PlaceOK' /\ RoundOK' /\ HangupOK' /\ LimitOK' /\ ResetOK' /\ FinOK' /\ EndOK'
  BY DEF IInv, Resume, PlaceOK, isClosing, RoundOK, InRound, Receiving, Calls,
     HangupOK, PastBranch, LimitOK, ResetOK, FinOK, EndOK, EndBehindInput
<1>3. CountOK'
  BY ResumeCount, Zenon DEF IInv
<1>4. OwedOK'
  BY CountZero DEF IInv, Resume, OwedOK, isClosing, ReadsPaused, Kicking, CountOK,
     TypeOK, ControlState, Releasing
<1>5. UnreadOK'
  BY DEF IInv, Resume, UnreadOK, isClosing, Unread, Noticed, Reading, Drained,
     ReadsPaused, Kicking, InRound, Receiving, Calls, RoundOK, HangupOK, FinOK, PlaceOK,
     TypeOK, ControlState
<1>6. EofOK'
  BY DEF IInv, Resume, EofOK, isClosing, Deferred, readEnded, Held, ReadsPaused,
     Kicking, InRound, Receiving, Calls, RoundOK, OwedOK, PlaceOK, TypeOK, ControlState
<1>7. ToldOK'
  BY DEF IInv, Resume, ToldOK, Releasing, Calls, InRound, Receiving, RoundOK, CountOK,
     TypeOK, ControlState
<1>8. QED
  BY <1>1, <1>2, <1>3, <1>4, <1>5, <1>6, <1>7, Zenon DEF IInv

\* The last release is about to ask for that turn.
LEMMA ReleaseKeeps ==
    ASSUME Instances, IInv, NEW o \in Owners, ResumeRelease(o)
    PROVE  IInv'
<1>1. TypeOK'
  BY ReleaseTypes, ReleaseCount, Zenon DEF IInv
<1>2. PlaceOK' /\ RoundOK' /\ HangupOK' /\ LimitOK' /\ ResetOK' /\ FinOK' /\ EndOK'
  BY DEF IInv, ResumeRelease, PlaceOK, isClosing, RoundOK, InRound, Receiving, Calls,
     HangupOK, PastBranch, LimitOK, ResetOK, FinOK, EndOK, EndBehindInput
<1>3. CountOK'
  BY ReleaseCount, Zenon DEF IInv
<1>4. OwedOK'
  BY DEF IInv, ResumeRelease, OwedOK, isClosing, ReadsPaused, Kicking, CountOK,
     TypeOK, ControlState
<1>5. UnreadOK'
  BY DEF IInv, ResumeRelease, UnreadOK, isClosing, Unread, Noticed, Reading, Drained,
     ReadsPaused, Kicking, InRound, Receiving, Calls, RoundOK, HangupOK, FinOK, PlaceOK,
     TypeOK, ControlState
<1>6. EofOK'
  BY DEF IInv, ResumeRelease, EofOK, isClosing, Deferred, readEnded, Held,
     ReadsPaused, Kicking, InRound, Receiving, Calls, RoundOK, OwedOK, PlaceOK, TypeOK,
     ControlState
<1>7. ToldOK'
  BY DEF IInv, ResumeRelease, ToldOK, Releasing, Calls, InRound, Receiving, RoundOK,
     CountOK, TypeOK, ControlState
<1>8. QED
  BY <1>1, <1>2, <1>3, <1>4, <1>5, <1>6, <1>7, Zenon DEF IInv

\* It asks for the turn.
LEMMA KickKeeps == ASSUME Instances, IInv, NEW o \in Owners, ResumeKick(o) PROVE IInv'
<1>1. TypeOK'
  BY KickTypes, Zenon DEF IInv
<1>2. EndOK'
  BY Zenon DEF IInv, ResumeKick, EndOK, EndBehindInput, isClosing, Calls, InRound,
     Receiving
<1>3. PlaceOK'
  BY DEF IInv, ResumeKick, Fold, Submit, isClosing, PlaceOK, TypeOK, TaskState,
     TurnState
<1>4. CountOK'
  BY KickCount, Zenon DEF IInv
<1>5. RoundOK'
  BY DEF IInv, ResumeKick, Fold, Submit, isClosing, RoundOK, InRound, Receiving,
     Calls, PlaceOK, TypeOK, TurnState
<1>6. HangupOK'
  BY DEF IInv, ResumeKick, Fold, Submit, isClosing, HangupOK, PastBranch, InRound,
     Receiving, Calls, PlaceOK, TypeOK, TaskState, TurnState
<1>7. LimitOK'
  BY DEF IInv, ResumeKick, Fold, Submit, isClosing, LimitOK, InRound, Receiving,
     Calls, RoundOK, PlaceOK, TypeOK, TurnState, InputState, Instances, Setting
<1>8. ResetOK'
  BY DEF IInv, ResumeKick, Fold, Submit, isClosing, ResetOK, PastBranch, InRound,
     Receiving, Calls, HangupOK, PlaceOK, TypeOK, TaskState, TurnState
<1>9. FinOK'
  BY DEF IInv, ResumeKick, Fold, Submit, isClosing, FinOK, PastBranch, InRound,
     Receiving, Calls, HangupOK, PlaceOK, TypeOK, TaskState, TurnState
<1>10. OwedOK'
  BY DEF IInv, ResumeKick, Fold, Submit, isClosing, OwedOK, ReadsPaused, Kicking,
     CountOK, PlaceOK, TypeOK, ControlState, TaskState, TurnState
<1>11. UnreadOK'
  BY DEF IInv, ResumeKick, Fold, Submit, isClosing, UnreadOK, Unread, Noticed,
     Reading, Drained, ReadsPaused, Kicking, InRound, Receiving, Calls, RoundOK,
     HangupOK, FinOK, PlaceOK, TypeOK, ControlState, TaskState, TurnState
<1>12. EofOK'
  BY DEF IInv, ResumeKick, Fold, Submit, isClosing, EofOK, Deferred, readEnded, Held,
     ReadsPaused, Kicking, InRound, Receiving, Calls, RoundOK, OwedOK, PlaceOK, TypeOK,
     ControlState, TaskState, TurnState
<1>13. ToldOK'
  BY DEF IInv, ResumeKick, Fold, Submit, isClosing, ToldOK, Releasing, Calls, InRound,
     Receiving, RoundOK, CountOK, PlaceOK, TypeOK, ControlState, TurnState
<1>14. QED
  BY <1>1, <1>2, <1>3, <1>4, <1>5, <1>6, <1>7, <1>8, <1>9, <1>10, <1>11, <1>12, <1>13,
     Zenon DEF IInv

\* The turn takes the events over.
LEMMA TakeKeeps == ASSUME Instances, IInv, takeIOEvents PROVE IInv'
<1>1. TypeOK'
  BY TakeTypes, Zenon DEF IInv
<1>2. CountOK' /\ EndOK'
  BY DEF IInv, takeIOEvents, CountOK, Releasing, EndOK, EndBehindInput, isClosing,
     Calls, InRound, Receiving
<1>3. PlaceOK'
  BY DEF IInv, takeIOEvents, At, isClosing, PlaceOK, TypeOK, TurnState, TaskState
<1>4. RoundOK'
  BY DEF IInv, takeIOEvents, At, isClosing, RoundOK, InRound, Receiving, Calls,
     PlaceOK, TypeOK, TurnState
<1>5. HangupOK'
  BY DEF IInv, takeIOEvents, At, isClosing, HangupOK, PastBranch, InRound, Receiving,
     Calls, TypeOK, TurnState, TaskState
<1>6. LimitOK'
  BY DEF IInv, takeIOEvents, At, isClosing, LimitOK, InRound, Receiving, Calls,
     RoundOK, TypeOK, TurnState
<1>7. ResetOK'
  BY DEF IInv, takeIOEvents, At, isClosing, ResetOK, PastBranch, InRound, Receiving,
     Calls, HangupOK, PlaceOK, TypeOK, TurnState, TaskState
<1>8. FinOK'
  BY DEF IInv, takeIOEvents, At, isClosing, FinOK, PastBranch, InRound, Receiving,
     Calls, HangupOK, PlaceOK, TypeOK, TurnState, TaskState
<1>9. OwedOK'
  BY DEF IInv, takeIOEvents, At, isClosing, OwedOK, ReadsPaused, Kicking, CountOK,
     TypeOK, TurnState, TaskState
<1>10. UnreadOK'
  BY DEF IInv, takeIOEvents, At, isClosing, UnreadOK, Unread, Noticed, Reading,
     Drained, ReadsPaused, Kicking, InRound, Receiving, Calls, RoundOK, HangupOK, FinOK,
     PlaceOK, TypeOK, TurnState, TaskState
<1>11. EofOK'
  BY DEF IInv, takeIOEvents, At, isClosing, EofOK, Deferred, readEnded, Held,
     ReadsPaused, Kicking, InRound, Receiving, Calls, RoundOK, OwedOK, PlaceOK, TypeOK,
     TurnState, TaskState
<1>12. ToldOK'
  BY DEF IInv, takeIOEvents, At, isClosing, ToldOK, Releasing, Calls, InRound,
     Receiving, RoundOK, CountOK, TypeOK, TurnState
<1>13. QED
  BY <1>1, <1>2, <1>3, <1>4, <1>5, <1>6, <1>7, <1>8, <1>9, <1>10, <1>11, <1>12, Zenon
     DEF IInv

\* A paused consumer is passed over, and is owed its turn.
LEMMA MayRunKeeps == ASSUME Instances, IInv, consumerMayRun PROVE IInv'
<1>1. TypeOK'
  BY MayRunTypes, Zenon DEF IInv, PlaceOK, At, consumerMayRun
<1>2. CountOK' /\ EndOK'
  BY DEF IInv, consumerMayRun, CountOK, Releasing, EndOK, EndBehindInput, isClosing,
     Calls, InRound, Receiving
<1>3. PlaceOK'
  BY DEF IInv, consumerMayRun, At, Go, ReadsPaused, PlaceOK, isClosing, TypeOK,
     TurnState, Returns, Places
<1>4. RoundOK'
  BY DEF IInv, consumerMayRun, At, Go, ReadsPaused, RoundOK, InRound, Receiving,
     Calls, isClosing, PlaceOK, TypeOK, TurnState, Returns, Places
<1>5. HangupOK'
  BY DEF IInv, consumerMayRun, At, Go, ReadsPaused, HangupOK, PastBranch, InRound,
     Receiving, Calls, PlaceOK, TypeOK, TurnState, Returns, Places
<1>6. LimitOK'
  BY DEF IInv, consumerMayRun, At, Go, ReadsPaused, LimitOK, isClosing, InRound,
     Receiving, Calls, RoundOK, TypeOK, TurnState
<1>7. ResetOK'
  BY DEF IInv, consumerMayRun, At, Go, ReadsPaused, ResetOK, isClosing, PastBranch,
     InRound, Receiving, Calls, HangupOK, PlaceOK, TypeOK, TurnState
<1>8. FinOK'
  BY DEF IInv, consumerMayRun, At, Go, ReadsPaused, FinOK, isClosing, PastBranch,
     InRound, Receiving, Calls, HangupOK, PlaceOK, TypeOK, TurnState
<1>9. OwedOK'
  BY DEF IInv, consumerMayRun, At, Go, ReadsPaused, OwedOK, isClosing, Kicking,
     CountOK, TypeOK, TurnState
<1>10. UnreadOK'
  BY DEF IInv, consumerMayRun, At, Go, ReadsPaused, UnreadOK, isClosing, Unread,
     Noticed, Reading, Drained, Kicking, InRound, Receiving, Calls, RoundOK, HangupOK,
     FinOK, PlaceOK, TypeOK, TurnState
<1>11. EofOK'
  BY DEF IInv, consumerMayRun, At, Go, ReadsPaused, EofOK, isClosing, Deferred,
     readEnded, Held, Kicking, InRound, Receiving, Calls, RoundOK, OwedOK, PlaceOK,
     TypeOK, TurnState, Returns, Places
<1>12. ToldOK'
  BY CountZero DEF IInv, consumerMayRun, At, Go, ReadsPaused, ToldOK, Releasing,
     Calls, InRound, Receiving, RoundOK, CountOK, PlaceOK, TypeOK, TurnState, Returns,
     Places
<1>13. QED
  BY <1>1, <1>2, <1>3, <1>4, <1>5, <1>6, <1>7, <1>8, <1>9, <1>10, <1>11, <1>12, Zenon
     DEF IInv

\* OnRead: what was owed to the consumer is paid, and it may have made room.
LEMMA FireKeeps == ASSUME Instances, IInv, fireOnRead PROVE IInv'
<1>1. TypeOK' /\ CountOK'
  BY FireMoves, Zenon DEF IInv
<1>2. /\ turn.pc = "callback" /\ turn'.pc = turn.ret
      /\ turn'.pc \in {"resumed", "received", "ended", "woken"}
      /\ turn'.ev = turn.ev /\ turn'.bits = turn.bits /\ turn'.reported = turn.reported
      /\ turn'.ret = turn.ret /\ turn'.mark = turn.mark
  BY FireMoves, Zenon DEF IInv
<1>3. /\ turn.pc \in {"fire", "callback"} /\ \A r : ~Calls(r)'
      /\ \A r \in {"resumed", "received", "ended", "woken"} : Calls(r) <=> turn'.pc = r
  BY <1>2, Zenon DEF Calls
<1>4. /\ ("held" \in flags' <=> "held" \in flags) /\ ("eof" \in flags' <=> "eof" \in flags)
      /\ "stalled" \in flags => "stalled" \in flags'
  <2>1. flags \subseteq flags' /\ flags' \subseteq flags \cup {"stalled"}
    BY FireMoves, Zenon DEF IInv
  <2>2. QED
    BY <2>1, Zenon
<1>5. /\ input.in = 0 => input'.in = 0
      /\ input.tail = 0 => input'.tail = 0
      /\ input'.told = ("eof" \in flags)
  BY FireMoves, Zenon DEF IInv
<1>6. /\ close' = "eof" => close = "eof"
      /\ isClosing => isClosing'
  BY FireMoves, Zenon DEF IInv, isClosing
<1>7. /\ task'.claimed = task.claimed
      /\ \A e \in {"read", "resume", "hangup"} : e \in task'.events <=> e \in task.events
  <2>1. task'.claimed = task.claimed /\ task'.events \in {task.events, task.events \cup {"shut"}}
    BY FireMoves, Zenon DEF IInv
  <2>2. QED
    BY <2>1, Zenon
<1>8. UNCHANGED <<opt, sock, edge>>
  BY FireMoves, Zenon DEF IInv
<1>9. /\ ~control'.owed /\ control'.at = control.at
      /\ ReadsPaused => ReadsPaused'
      /\ control.paused # {} => control'.paused # {}
  BY FireMoves, Zenon DEF IInv
<1>10. PlaceOK'
  BY <1>2, <1>7, Zenon DEF IInv, PlaceOK
<1>11. RoundOK'
  BY <1>2, <1>3, <1>4, <1>5, <1>8, Zenon DEF IInv, RoundOK, InRound, Receiving
<1>12. HangupOK'
  BY <1>2, <1>3, <1>7, <1>8, Zenon DEF IInv, HangupOK, PastBranch, InRound, Receiving
<1>13. LimitOK'
  <2>1. input'.in <= input.in /\ input'.tail <= input.tail
    BY FireMoves, Zenon DEF IInv
  <2>2. "held" \in flags => turn'.pc \in {"resumed", "woken"}
    BY <1>2, <1>3, Zenon DEF IInv, RoundOK, InRound, Receiving
  <2>3. input.in \in Nat /\ input.tail \in Nat /\ opt.limit \in Nat /\ Buffer \in Nat
    BY Values, Zenon DEF IInv, Instances
  <2>4. input'.in \in Nat /\ input'.tail \in Nat
    BY <1>1, Zenon DEF TypeOK, InputState
  <2>5. QED
    BY <1>4, <1>6, <1>8, <2>1, <2>2, <2>3, <2>4 DEF IInv, LimitOK, isClosing
<1>14. ResetOK'
  BY <1>2, <1>3, <1>6, <1>7, <1>8, Zenon DEF IInv, ResetOK, PastBranch, InRound, Receiving
<1>15. FinOK'
  BY <1>2, <1>3, <1>4, <1>6, <1>7, <1>8, Zenon DEF IInv, FinOK
<1>16. OwedOK'
  BY <1>9, Zenon DEF OwedOK
<1>17. UnreadOK'
  <2>1. (Kicking' <=> Kicking) /\ (Drained' <=> Drained)
    BY <1>2, <1>9, Zenon DEF Kicking, Drained
  <2>2. QED
    BY <1>2, <1>3, <1>4, <1>6, <1>7, <1>8, <1>9, <2>1, Zenon
       DEF IInv, UnreadOK, Unread, Noticed, Reading, Receiving
<1>18. EofOK'
  <2>1. turn'.pc # "received" => Deferred'
    BY <1>2, Zenon DEF Deferred
  <2>2. turn'.pc = "received" => "eof" \notin flags'
    BY <1>3, <1>4, Zenon DEF IInv, RoundOK, InRound, Receiving
  <2>3. turn'.pc \notin {"idle", "queued", "end"}
    BY <1>2, Zenon
  <2>4. QED
    BY <2>1, <2>2, <2>3, Zenon DEF EofOK, readEnded
<1>19. ToldOK'
  BY <1>2, <1>3, <1>4, <1>5, Zenon DEF ToldOK
<1>20. EndOK'
  <2>1. input'.in > 0 => input.in > 0
    <3>1. input.in \in Nat
      BY Values, Zenon DEF IInv
    <3>2. QED
      BY <1>5, <3>1
  <2>2. QED
    BY <1>4, <1>5, <1>6, <1>8, <2>1, Zenon DEF IInv, EndOK, EndBehindInput
<1>21. QED
  BY <1>1, <1>10, <1>11, <1>12, <1>13, <1>14, <1>15, <1>16, <1>17, <1>18, <1>19, <1>20,
     Zenon DEF IInv

\* After OnRead a hold may end, and the deferred end may close.
LEMMA ResumedKeeps == ASSUME Instances, IInv, Resumed PROVE IInv'
<1>1. TypeOK'
  BY ResumedTypes, Zenon DEF IInv
<1>2. CountOK'
  BY Zenon DEF IInv, Resumed, CountOK, Releasing
<1>3. PlaceOK'
  BY DEF IInv, Resumed, At, Go, resumeHeldRead, resumesHeld, closeDeferredReadEOF,
     deferredEnds, requestClose, isClosing, readEnded, Held, ReadsPaused, inputLimit,
     PlaceOK, TypeOK, TaskState, TurnState
<1>4. RoundOK'
  BY DEF IInv, Resumed, At, Go, resumeHeldRead, resumesHeld, closeDeferredReadEOF,
     deferredEnds, requestClose, isClosing, readEnded, Held, ReadsPaused, inputLimit,
     RoundOK, InRound, Receiving, Calls, PlaceOK, TypeOK, TurnState
<1>5. HangupOK'
  BY DEF IInv, Resumed, At, Go, resumeHeldRead, resumesHeld, closeDeferredReadEOF,
     deferredEnds, requestClose, isClosing, readEnded, Held, ReadsPaused, inputLimit,
     HangupOK, PastBranch, InRound, Receiving, Calls, TypeOK, TaskState, TurnState
<1>6. LimitOK'
  BY DEF IInv, Resumed, At, Go, resumeHeldRead, resumesHeld, closeDeferredReadEOF,
     deferredEnds, requestClose, isClosing, readEnded, Held, ReadsPaused, inputLimit,
     LimitOK, InRound, Receiving, Calls, RoundOK, TypeOK, TurnState, InputState,
     Instances, Setting, SockState
<1>7. ResetOK'
  BY DEF IInv, Resumed, At, Go, resumeHeldRead, resumesHeld, closeDeferredReadEOF,
     deferredEnds, requestClose, isClosing, readEnded, Held, ReadsPaused, inputLimit,
     ResetOK, PastBranch, InRound, Receiving, Calls, HangupOK, PlaceOK, TypeOK,
     TaskState, TurnState
<1>8. FinOK'
  BY DEF IInv, Resumed, At, Go, resumeHeldRead, resumesHeld, closeDeferredReadEOF,
     deferredEnds, requestClose, isClosing, readEnded, Held, ReadsPaused, inputLimit,
     FinOK, PastBranch, InRound, Receiving, Calls, HangupOK, PlaceOK, TypeOK, TaskState,
     TurnState
<1>9. OwedOK'
  BY DEF IInv, Resumed, At, Go, resumeHeldRead, resumesHeld, closeDeferredReadEOF,
     deferredEnds, requestClose, isClosing, readEnded, Held, ReadsPaused, inputLimit,
     OwedOK, Kicking, CountOK, TypeOK, TaskState, TurnState
<1>10. UnreadOK'
  BY DEF IInv, Resumed, At, Go, resumeHeldRead, resumesHeld, closeDeferredReadEOF,
     deferredEnds, requestClose, isClosing, readEnded, Held, ReadsPaused, inputLimit,
     UnreadOK, Unread, Noticed, Reading, Drained, Kicking, InRound, Receiving, Calls,
     RoundOK, HangupOK, FinOK, PlaceOK, TypeOK, TaskState, TurnState
<1>11. EofOK'
  BY DEF IInv, Resumed, At, Go, resumeHeldRead, resumesHeld, closeDeferredReadEOF,
     deferredEnds, requestClose, isClosing, readEnded, Held, ReadsPaused, inputLimit,
     EofOK, Deferred, Kicking, InRound, Receiving, Calls, RoundOK, OwedOK, PlaceOK,
     TypeOK, TaskState, TurnState
<1>12. ToldOK'
  BY DEF IInv, Resumed, At, Go, resumeHeldRead, resumesHeld, closeDeferredReadEOF,
     deferredEnds, requestClose, isClosing, readEnded, Held, ReadsPaused, inputLimit,
     ToldOK, Releasing, Calls, InRound, Receiving, RoundOK, CountOK, TypeOK, TurnState
<1>13. EndOK'
  <2>1. close' = close \/ (close' = "eof" /\ "eof" \in flags /\ ~Held)
    BY DeferredMoves, Zenon DEF Resumed
  <2>2. QED
    BY <2>1, EndTold, Zenon DEF IInv, EndOK, EndBehindInput, Resumed, At, resumeHeldRead
<1>14. QED
  BY <1>1, <1>2, <1>3, <1>4, <1>5, <1>6, <1>7, <1>8, <1>9, <1>10, <1>11, <1>12, <1>13,
     Zenon DEF IInv

\* A continuation reads on, waits for bytes or leaves a yield behind.
LEMMA ContinueKeeps == ASSUME Instances, IInv, Continue PROVE IInv'
<1>1. TypeOK'
  BY ContinueTypes, Zenon DEF IInv
<1>2. CountOK'
  BY Zenon DEF IInv, Continue, CountOK, Releasing
<1>3. PlaceOK'
  BY DEF IInv, Continue, At, requestClose, isClosing, ReadsPaused, PlaceOK, TypeOK,
     TurnState
<1>4. RoundOK'
  BY DEF IInv, Continue, At, requestClose, isClosing, ReadsPaused, RoundOK, InRound,
     Receiving, Calls, PlaceOK, TypeOK, TurnState
<1>5. HangupOK'
  BY DEF IInv, Continue, At, requestClose, isClosing, ReadsPaused, HangupOK,
     PastBranch, InRound, Receiving, Calls, TypeOK, TurnState
<1>6. LimitOK'
  BY DEF IInv, Continue, At, requestClose, isClosing, ReadsPaused, LimitOK, InRound,
     Receiving, Calls, RoundOK, TypeOK, TurnState
<1>7. ResetOK'
  BY DEF IInv, Continue, At, requestClose, isClosing, ReadsPaused, ResetOK,
     PastBranch, InRound, Receiving, Calls, HangupOK, PlaceOK, TypeOK, TurnState
<1>8. FinOK'
  BY DEF IInv, Continue, At, requestClose, isClosing, ReadsPaused, FinOK, PastBranch,
     InRound, Receiving, Calls, HangupOK, PlaceOK, TypeOK, TurnState
<1>9. OwedOK'
  BY DEF IInv, Continue, At, requestClose, isClosing, ReadsPaused, OwedOK, Kicking,
     CountOK, TypeOK, TurnState
<1>10. UnreadOK'
  BY DEF IInv, Continue, At, requestClose, isClosing, ReadsPaused, UnreadOK, Unread,
     Noticed, Reading, Drained, Kicking, InRound, Receiving, Calls, RoundOK, HangupOK,
     FinOK, PlaceOK, TypeOK, TurnState
<1>11. EofOK'
  BY DEF IInv, Continue, At, requestClose, isClosing, ReadsPaused, EofOK, Deferred,
     readEnded, Held, Kicking, InRound, Receiving, Calls, RoundOK, OwedOK, PlaceOK,
     TypeOK, TurnState
<1>12. ToldOK'
  BY DEF IInv, Continue, At, requestClose, isClosing, ReadsPaused, ToldOK, Releasing,
     Calls, InRound, Receiving, RoundOK, CountOK, TypeOK, TurnState
<1>13. EndOK'
  BY DEF IInv, Continue, At, requestClose, isClosing, ReadsPaused, EndOK,
     EndBehindInput, Calls, InRound, Receiving, RoundOK, ToldOK, TypeOK
<1>14. QED
  BY <1>1, <1>2, <1>3, <1>4, <1>5, <1>6, <1>7, <1>8, <1>9, <1>10, <1>11, <1>12, <1>13,
     Zenon DEF IInv

\* A turn that does not read leaves the bytes to a hold, a pause or a yield.
LEMMA BranchKeeps == ASSUME Instances, IInv, ReadBranch PROVE IInv'
<1>1. TypeOK'
  BY BranchTypes, Zenon DEF IInv
<1>2. CountOK'
  BY Zenon DEF IInv, ReadBranch, CountOK, Releasing
<1>3. PlaceOK'
  BY DEF IInv, ReadBranch, At, requestClose, isClosing, ReadsPaused, PlaceOK, TypeOK,
     TurnState
<1>4. RoundOK'
  BY DEF IInv, ReadBranch, At, requestClose, isClosing, ReadsPaused, RoundOK, InRound,
     Receiving, Calls, PlaceOK, TypeOK, TurnState
<1>5. HangupOK'
  BY DEF IInv, ReadBranch, At, requestClose, isClosing, ReadsPaused, HangupOK,
     PastBranch, InRound, Receiving, Calls, TypeOK, TurnState
<1>6. LimitOK'
  BY DEF IInv, ReadBranch, At, requestClose, isClosing, ReadsPaused, LimitOK, InRound,
     Receiving, Calls, RoundOK, TypeOK, TurnState
<1>7. ResetOK'
  BY DEF IInv, ReadBranch, At, requestClose, isClosing, ReadsPaused, ResetOK,
     PastBranch, InRound, Receiving, Calls, HangupOK, PlaceOK, TypeOK, TurnState
<1>8. FinOK'
  BY DEF IInv, ReadBranch, At, requestClose, isClosing, ReadsPaused, FinOK,
     PastBranch, InRound, Receiving, Calls, HangupOK, PlaceOK, TypeOK, TurnState
<1>9. OwedOK'
  BY DEF IInv, ReadBranch, At, requestClose, isClosing, ReadsPaused, OwedOK, Kicking,
     CountOK, TypeOK, TurnState
<1>10. UnreadOK'
  BY DEF IInv, ReadBranch, At, requestClose, isClosing, ReadsPaused, UnreadOK, Unread,
     Noticed, Reading, Drained, Kicking, InRound, Receiving, Calls, RoundOK, HangupOK,
     FinOK, PlaceOK, TypeOK, TurnState
<1>11. EofOK'
  BY DEF IInv, ReadBranch, At, requestClose, isClosing, ReadsPaused, EofOK, Deferred,
     readEnded, Held, Kicking, InRound, Receiving, Calls, RoundOK, OwedOK, PlaceOK,
     TypeOK, TurnState
<1>12. ToldOK'
  BY CountZero DEF IInv, ReadBranch, At, requestClose, isClosing, ReadsPaused, ToldOK,
     Releasing, Calls, InRound, Receiving, RoundOK, CountOK, TypeOK, TurnState
<1>13. EndOK'
  BY DEF IInv, ReadBranch, At, requestClose, isClosing, ReadsPaused, EndOK,
     EndBehindInput, Calls, InRound, Receiving, RoundOK, ToldOK, TypeOK
<1>14. QED
  BY <1>1, <1>2, <1>3, <1>4, <1>5, <1>6, <1>7, <1>8, <1>9, <1>10, <1>11, <1>12, <1>13,
     Zenon DEF IInv

\* A would-block has emptied the socket; a reset closes.
LEMMA NoneKeeps == ASSUME Instances, IInv, RecvNone PROVE IInv'
<1>1. TypeOK'
  BY NoneTypes, Zenon DEF IInv
<1>2. CountOK'
  BY Zenon DEF IInv, RecvNone, CountOK, Releasing
<1>3. PlaceOK'
  BY DEF IInv, RecvNone, At, requestClose, isClosing, PlaceOK, TypeOK, TurnState
<1>4. RoundOK'
  BY DEF IInv, RecvNone, At, requestClose, isClosing, RoundOK, InRound, Receiving,
     Calls, PlaceOK, TypeOK, TurnState
<1>5. HangupOK'
  BY DEF IInv, RecvNone, At, requestClose, isClosing, HangupOK, PastBranch, InRound,
     Receiving, Calls, TypeOK, TurnState
<1>6. LimitOK'
  BY DEF IInv, RecvNone, At, requestClose, isClosing, LimitOK, InRound, Receiving,
     Calls, RoundOK, TypeOK, TurnState
<1>7. ResetOK'
  BY DEF IInv, RecvNone, At, requestClose, isClosing, ResetOK, PastBranch, InRound,
     Receiving, Calls, HangupOK, PlaceOK, TypeOK, TurnState
<1>8. FinOK'
  BY DEF IInv, RecvNone, At, requestClose, isClosing, FinOK, PastBranch, InRound,
     Receiving, Calls, HangupOK, PlaceOK, TypeOK, TurnState
<1>9. OwedOK'
  BY DEF IInv, RecvNone, At, requestClose, isClosing, OwedOK, ReadsPaused, Kicking,
     CountOK, TypeOK, TurnState
<1>10. UnreadOK'
  BY DEF IInv, RecvNone, At, requestClose, isClosing, UnreadOK, Unread, Noticed,
     Reading, Drained, ReadsPaused, Kicking, InRound, Receiving, Calls, RoundOK,
     HangupOK, FinOK, PlaceOK, TypeOK, TurnState
<1>11. EofOK'
  BY DEF IInv, RecvNone, At, requestClose, isClosing, EofOK, Deferred, readEnded,
     Held, ReadsPaused, Kicking, InRound, Receiving, Calls, RoundOK, OwedOK, PlaceOK,
     TypeOK, TurnState
<1>12. ToldOK'
  BY DEF IInv, RecvNone, At, requestClose, isClosing, ToldOK, Releasing, Calls,
     InRound, Receiving, RoundOK, CountOK, TypeOK, TurnState
<1>13. EndOK'
  BY DEF IInv, RecvNone, At, requestClose, isClosing, EndOK, EndBehindInput, Calls,
     InRound, Receiving, RoundOK, ToldOK, TypeOK
<1>14. QED
  BY <1>1, <1>2, <1>3, <1>4, <1>5, <1>6, <1>7, <1>8, <1>9, <1>10, <1>11, <1>12, <1>13,
     Zenon DEF IInv

\* A short read has emptied the socket.
LEMMA BytesKeeps == ASSUME Instances, IInv, RecvBytes PROVE IInv'
<1>1. TypeOK'
  BY BytesTypes, Zenon DEF IInv
<1>2. CountOK'
  BY Zenon DEF IInv, RecvBytes, CountOK, Releasing
<1>3. PlaceOK'
  BY DEF IInv, RecvBytes, At, Least, PlaceOK, isClosing, TypeOK, TurnState
<1>4. RoundOK'
  BY DEF IInv, RecvBytes, At, Least, RoundOK, InRound, Receiving, Calls, isClosing,
     PlaceOK, TypeOK, SockState, InputState, TurnState
<1>5. HangupOK'
  BY DEF IInv, RecvBytes, At, Least, HangupOK, PastBranch, InRound, Receiving, Calls,
     TypeOK, TurnState
<1>6. LimitOK'
  BY DEF IInv, RecvBytes, At, Least, LimitOK, isClosing, InRound, Receiving, Calls,
     RoundOK, TypeOK, InputState, TurnState, Instances, Setting, SockState
<1>7. ResetOK'
  BY DEF IInv, RecvBytes, At, Least, ResetOK, isClosing, PastBranch, InRound,
     Receiving, Calls, HangupOK, PlaceOK, TypeOK, SockState, TurnState
<1>8. FinOK'
  BY DEF IInv, RecvBytes, At, Least, FinOK, isClosing, PastBranch, InRound, Receiving,
     Calls, HangupOK, PlaceOK, TypeOK, SockState, TurnState
<1>9. OwedOK'
  BY DEF IInv, RecvBytes, At, Least, OwedOK, isClosing, ReadsPaused, Kicking, CountOK,
     TypeOK, TurnState
<1>10. UnreadOK'
  BY DEF IInv, RecvBytes, At, Least, UnreadOK, isClosing, Unread, Noticed, Reading,
     Drained, ReadsPaused, Kicking, InRound, Receiving, Calls, RoundOK, HangupOK, FinOK,
     PlaceOK, TypeOK, SockState, TurnState, Instances
<1>11. EofOK'
  BY DEF IInv, RecvBytes, At, Least, EofOK, isClosing, Deferred, readEnded, Held,
     ReadsPaused, Kicking, InRound, Receiving, Calls, RoundOK, OwedOK, PlaceOK, TypeOK,
     InputState, TurnState
<1>12. ToldOK'
  BY DEF IInv, RecvBytes, At, Least, ToldOK, Releasing, Calls, InRound, Receiving,
     RoundOK, CountOK, TypeOK, InputState, TurnState
<1>13. EndOK'
  BY DEF IInv, RecvBytes, At, Least, EndOK, EndBehindInput, isClosing, Calls, InRound,
     Receiving, RoundOK, ToldOK, TypeOK, SockState, InputState
<1>14. QED
  BY <1>1, <1>2, <1>3, <1>4, <1>5, <1>6, <1>7, <1>8, <1>9, <1>10, <1>11, <1>12, <1>13,
     Zenon DEF IInv

\* A round stops only where something sees to the rest.
LEMMA ReceivedKeeps == ASSUME Instances, IInv, Received PROVE IInv'
<1>1. TypeOK'
  BY ReceivedTypes, Zenon DEF IInv
<1>2. CountOK'
  BY Zenon DEF IInv, Received, CountOK, Releasing
<1>3. PlaceOK'
  BY DEF IInv, Received, At, Go, Drained, isClosing, ReadsPaused, inputLimit, PlaceOK,
     TypeOK, TurnState
<1>4. RoundOK'
  BY DEF IInv, Received, At, Go, Drained, isClosing, ReadsPaused, inputLimit, RoundOK,
     InRound, Receiving, Calls, PlaceOK, TypeOK, InputState, TurnState
<1>5. HangupOK'
  BY DEF IInv, Received, At, Go, Drained, isClosing, ReadsPaused, inputLimit,
     HangupOK, PastBranch, InRound, Receiving, Calls, TypeOK, TurnState
<1>6. LimitOK'
  BY DEF IInv, Received, At, Go, Drained, isClosing, ReadsPaused, inputLimit, LimitOK,
     InRound, Receiving, Calls, RoundOK, TypeOK, InputState, TurnState, Instances,
     Setting, SockState
<1>7. ResetOK'
  BY DEF IInv, Received, At, Go, Drained, isClosing, ReadsPaused, inputLimit, ResetOK,
     PastBranch, InRound, Receiving, Calls, HangupOK, PlaceOK, TypeOK, TurnState
<1>8. FinOK'
  BY DEF IInv, Received, At, Go, Drained, isClosing, ReadsPaused, inputLimit, FinOK,
     PastBranch, InRound, Receiving, Calls, HangupOK, PlaceOK, TypeOK, TurnState
<1>9. OwedOK'
  BY DEF IInv, Received, At, Go, Drained, isClosing, ReadsPaused, inputLimit, OwedOK,
     Kicking, CountOK, TypeOK, TurnState
<1>10. UnreadOK'
  BY DEF IInv, Received, At, Go, Drained, isClosing, ReadsPaused, inputLimit,
     UnreadOK, Unread, Noticed, Reading, Kicking, InRound, Receiving, Calls, RoundOK,
     HangupOK, FinOK, PlaceOK, TypeOK, TurnState
<1>11. EofOK'
  BY DEF IInv, Received, At, Go, Drained, isClosing, ReadsPaused, inputLimit, EofOK,
     Deferred, readEnded, Held, Kicking, InRound, Receiving, Calls, RoundOK, OwedOK,
     PlaceOK, TypeOK, InputState, TurnState
<1>12. ToldOK'
  BY CountZero DEF IInv, Received, At, Go, Drained, isClosing, ReadsPaused,
     inputLimit, ToldOK, Releasing, Calls, InRound, Receiving, RoundOK, CountOK, TypeOK,
     InputState, TurnState
<1>13. EndOK'
  BY DEF IInv, Received, At, Go, Drained, isClosing, ReadsPaused, inputLimit, EndOK,
     EndBehindInput, Calls, InRound, Receiving, RoundOK, ToldOK, TypeOK, InputState
<1>14. QED
  BY <1>1, <1>2, <1>3, <1>4, <1>5, <1>6, <1>7, <1>8, <1>9, <1>10, <1>11, <1>12, <1>13,
     Zenon DEF IInv

\* The end closes, or waits for its consumer.
LEMMA EOFKeeps == ASSUME Instances, IInv, onReadEOF PROVE IInv'
<1>1. TypeOK'
  BY EOFTypes, Zenon DEF IInv
<1>2. CountOK'
  BY Zenon DEF IInv, onReadEOF, CountOK, Releasing
<1>3. PlaceOK'
  BY EOFMoves, Zenon DEF IInv, PlaceOK, isClosing
<1>4. RoundOK'
  BY EOFMoves, Zenon DEF IInv, RoundOK, InRound, Receiving, Calls, isClosing, PlaceOK
<1>5. HangupOK'
  BY EOFMoves, Zenon DEF IInv, HangupOK, PastBranch, InRound, Receiving, Calls
<1>6. LimitOK'
  BY EOFMoves, Zenon DEF IInv, LimitOK, isClosing, InRound, Receiving, Calls, RoundOK
<1>7. ResetOK'
  BY EOFMoves, Zenon DEF IInv, ResetOK, isClosing, PastBranch, InRound, Receiving,
     Calls, HangupOK, PlaceOK
<1>8. FinOK'
  BY EOFMoves, Zenon DEF IInv, FinOK, isClosing, PastBranch, InRound, Receiving,
     Calls, HangupOK, PlaceOK
<1>9. OwedOK'
  BY EOFMoves, Zenon DEF IInv, OwedOK, isClosing, ReadsPaused, Kicking, CountOK
<1>10. UnreadOK'
  BY EOFMoves DEF IInv, UnreadOK, isClosing, Unread, Noticed, Reading, Drained,
     ReadsPaused, Kicking, InRound, Receiving, Calls, RoundOK, HangupOK, FinOK, PlaceOK
<1>11. EofOK'
  BY EOFMoves, Zenon DEF IInv, EofOK, isClosing, Deferred, readEnded, Held,
     ReadsPaused, Kicking, InRound, Receiving, Calls, RoundOK, OwedOK, PlaceOK
<1>12. ToldOK'
  BY EOFMoves, CountZero, Zenon DEF IInv, ToldOK, Releasing, Calls, RoundOK, InRound,
     Receiving
<1>13. EndOK'
  BY EOFMoves DEF IInv, EndOK, EndBehindInput, isClosing, Calls, InRound, Receiving,
     RoundOK, ToldOK
<1>14. QED
  BY <1>1, <1>2, <1>3, <1>4, <1>5, <1>6, <1>7, <1>8, <1>9, <1>10, <1>11, <1>12, <1>13,
     Zenon DEF IInv

\* The consumer has had the end, or is paused.
LEMMA EndedKeeps == ASSUME Instances, IInv, Ended PROVE IInv'
<1>1. TypeOK'
  BY EndedTypes, Zenon DEF IInv
<1>2. CountOK'
  BY Zenon DEF IInv, Ended, CountOK, Releasing
<1>3. PlaceOK'
  BY DEF IInv, Ended, At, Go, closeDeferredReadEOF, deferredEnds, requestClose,
     isClosing, readEnded, Held, ReadsPaused, PlaceOK, TypeOK, TurnState
<1>4. RoundOK'
  BY DEF IInv, Ended, At, Go, closeDeferredReadEOF, deferredEnds, requestClose,
     isClosing, readEnded, Held, ReadsPaused, RoundOK, InRound, Receiving, Calls,
     PlaceOK, TypeOK, TurnState
<1>5. HangupOK'
  BY DEF IInv, Ended, At, Go, closeDeferredReadEOF, deferredEnds, requestClose,
     isClosing, readEnded, Held, ReadsPaused, HangupOK, PastBranch, InRound, Receiving,
     Calls, TypeOK, TurnState
<1>6. LimitOK'
  BY DEF IInv, Ended, At, Go, closeDeferredReadEOF, deferredEnds, requestClose,
     isClosing, readEnded, Held, ReadsPaused, LimitOK, InRound, Receiving, Calls,
     RoundOK, TypeOK, TurnState
<1>7. ResetOK'
  BY DEF IInv, Ended, At, Go, closeDeferredReadEOF, deferredEnds, requestClose,
     isClosing, readEnded, Held, ReadsPaused, ResetOK, PastBranch, InRound, Receiving,
     Calls, HangupOK, PlaceOK, TypeOK, TurnState
<1>8. FinOK'
  BY DEF IInv, Ended, At, Go, closeDeferredReadEOF, deferredEnds, requestClose,
     isClosing, readEnded, Held, ReadsPaused, FinOK, PastBranch, InRound, Receiving,
     Calls, HangupOK, PlaceOK, TypeOK, TurnState
<1>9. OwedOK'
  BY DEF IInv, Ended, At, Go, closeDeferredReadEOF, deferredEnds, requestClose,
     isClosing, readEnded, Held, ReadsPaused, OwedOK, Kicking, CountOK, TypeOK, TurnState
<1>10. UnreadOK'
  BY DEF IInv, Ended, At, Go, closeDeferredReadEOF, deferredEnds, requestClose,
     isClosing, readEnded, Held, ReadsPaused, UnreadOK, Unread, Noticed, Reading,
     Drained, Kicking, InRound, Receiving, Calls, RoundOK, HangupOK, FinOK, PlaceOK,
     TypeOK, TurnState
<1>11. EofOK'
  BY DEF IInv, Ended, At, Go, closeDeferredReadEOF, deferredEnds, requestClose,
     isClosing, readEnded, Held, ReadsPaused, EofOK, Deferred, Kicking, InRound,
     Receiving, Calls, RoundOK, OwedOK, PlaceOK, TypeOK, TurnState
<1>12. ToldOK'
  BY DEF IInv, Ended, At, Go, closeDeferredReadEOF, deferredEnds, requestClose,
     isClosing, readEnded, Held, ReadsPaused, ToldOK, Releasing, Calls, InRound,
     Receiving, RoundOK, CountOK, TypeOK, TurnState
<1>13. EndOK'
  <2>1. close' = close \/ (close' = "eof" /\ "eof" \in flags /\ ~Held)
    BY DeferredMoves, Zenon DEF Ended
  <2>2. QED
    BY <2>1, EndTold, Zenon DEF IInv, EndOK, EndBehindInput, Ended, At
<1>14. QED
  BY <1>1, <1>2, <1>3, <1>4, <1>5, <1>6, <1>7, <1>8, <1>9, <1>10, <1>11, <1>12, <1>13,
     Zenon DEF IInv

\* A reset nobody read is probed for before the turn forgets the hangup.
LEMMA PendingKeeps == ASSUME Instances, IInv, pendingSocketError PROVE IInv'
<1>1. TypeOK'
  BY PendingTypes, Zenon DEF IInv
<1>2. CountOK'
  BY Zenon DEF IInv, pendingSocketError, CountOK, Releasing
<1>3. PlaceOK'
  BY DEF IInv, pendingSocketError, At, requestClose, isClosing, PlaceOK, TypeOK,
     TurnState
<1>4. RoundOK'
  BY DEF IInv, pendingSocketError, At, requestClose, isClosing, RoundOK, InRound,
     Receiving, Calls, PlaceOK, TypeOK, TurnState
<1>5. HangupOK'
  BY DEF IInv, pendingSocketError, At, requestClose, isClosing, HangupOK, PastBranch,
     InRound, Receiving, Calls, TypeOK, TurnState
<1>6. LimitOK'
  BY DEF IInv, pendingSocketError, At, requestClose, isClosing, LimitOK, InRound,
     Receiving, Calls, RoundOK, TypeOK, TurnState
<1>7. ResetOK'
  BY DEF IInv, pendingSocketError, At, requestClose, isClosing, ResetOK, PastBranch,
     InRound, Receiving, Calls, HangupOK, PlaceOK, TypeOK, TurnState
<1>8. FinOK'
  BY DEF IInv, pendingSocketError, At, requestClose, isClosing, FinOK, PastBranch,
     InRound, Receiving, Calls, HangupOK, PlaceOK, TypeOK, TurnState
<1>9. OwedOK'
  BY DEF IInv, pendingSocketError, At, requestClose, isClosing, OwedOK, ReadsPaused,
     Kicking, CountOK, TypeOK, TurnState
<1>10. UnreadOK'
  BY DEF IInv, pendingSocketError, At, requestClose, isClosing, UnreadOK, Unread,
     Noticed, Reading, Drained, ReadsPaused, Kicking, InRound, Receiving, Calls, RoundOK,
     HangupOK, FinOK, PlaceOK, TypeOK, TurnState
<1>11. EofOK'
  BY DEF IInv, pendingSocketError, At, requestClose, isClosing, EofOK, Deferred,
     readEnded, Held, ReadsPaused, Kicking, InRound, Receiving, Calls, RoundOK, OwedOK,
     PlaceOK, TypeOK, TurnState
<1>12. ToldOK'
  BY DEF IInv, pendingSocketError, At, requestClose, isClosing, ToldOK, Releasing,
     Calls, InRound, Receiving, RoundOK, CountOK, TypeOK, TurnState
<1>13. EndOK'
  BY DEF IInv, pendingSocketError, At, requestClose, isClosing, EndOK, EndBehindInput,
     Calls, InRound, Receiving, RoundOK, ToldOK, TypeOK
<1>14. QED
  BY <1>1, <1>2, <1>3, <1>4, <1>5, <1>6, <1>7, <1>8, <1>9, <1>10, <1>11, <1>12, <1>13,
     Zenon DEF IInv

\* A Wake's OnRead may end a hold and let the deferred end close.
LEMMA WokenKeeps == ASSUME Instances, IInv, Woken PROVE IInv'
<1>1. TypeOK'
  BY WokenTypes, Zenon DEF IInv
<1>2. CountOK'
  BY Zenon DEF IInv, Woken, CountOK, Releasing
<1>3. PlaceOK'
  BY DEF IInv, Woken, At, Go, resumeHeldRead, resumesHeld, closeDeferredReadEOF,
     deferredEnds, requestClose, isClosing, readEnded, Held, ReadsPaused, inputLimit,
     PlaceOK, TypeOK, TaskState, TurnState
<1>4. RoundOK'
  BY DEF IInv, Woken, At, Go, resumeHeldRead, resumesHeld, closeDeferredReadEOF,
     deferredEnds, requestClose, isClosing, readEnded, Held, ReadsPaused, inputLimit,
     RoundOK, InRound, Receiving, Calls, PlaceOK, TypeOK, TurnState
<1>5. HangupOK'
  BY DEF IInv, Woken, At, Go, resumeHeldRead, resumesHeld, closeDeferredReadEOF,
     deferredEnds, requestClose, isClosing, readEnded, Held, ReadsPaused, inputLimit,
     HangupOK, PastBranch, InRound, Receiving, Calls, TypeOK, TaskState, TurnState
<1>6. LimitOK'
  BY DEF IInv, Woken, At, Go, resumeHeldRead, resumesHeld, closeDeferredReadEOF,
     deferredEnds, requestClose, isClosing, readEnded, Held, ReadsPaused, inputLimit,
     LimitOK, InRound, Receiving, Calls, RoundOK, TypeOK, TurnState, InputState,
     Instances, Setting, SockState
<1>7. ResetOK'
  BY DEF IInv, Woken, At, Go, resumeHeldRead, resumesHeld, closeDeferredReadEOF,
     deferredEnds, requestClose, isClosing, readEnded, Held, ReadsPaused, inputLimit,
     ResetOK, PastBranch, InRound, Receiving, Calls, HangupOK, PlaceOK, TypeOK,
     TaskState, TurnState
<1>8. FinOK'
  BY DEF IInv, Woken, At, Go, resumeHeldRead, resumesHeld, closeDeferredReadEOF,
     deferredEnds, requestClose, isClosing, readEnded, Held, ReadsPaused, inputLimit,
     FinOK, PastBranch, InRound, Receiving, Calls, HangupOK, PlaceOK, TypeOK, TaskState,
     TurnState
<1>9. OwedOK'
  BY DEF IInv, Woken, At, Go, resumeHeldRead, resumesHeld, closeDeferredReadEOF,
     deferredEnds, requestClose, isClosing, readEnded, Held, ReadsPaused, inputLimit,
     OwedOK, Kicking, CountOK, TypeOK, TaskState, TurnState
<1>10. UnreadOK'
  BY DEF IInv, Woken, At, Go, resumeHeldRead, resumesHeld, closeDeferredReadEOF,
     deferredEnds, requestClose, isClosing, readEnded, Held, ReadsPaused, inputLimit,
     UnreadOK, Unread, Noticed, Reading, Drained, Kicking, InRound, Receiving, Calls,
     RoundOK, HangupOK, FinOK, PlaceOK, TypeOK, TaskState, TurnState
<1>11. EofOK'
  BY DEF IInv, Woken, At, Go, resumeHeldRead, resumesHeld, closeDeferredReadEOF,
     deferredEnds, requestClose, isClosing, readEnded, Held, ReadsPaused, inputLimit,
     EofOK, Deferred, Kicking, InRound, Receiving, Calls, RoundOK, OwedOK, PlaceOK,
     TypeOK, TaskState, TurnState
<1>12. ToldOK'
  BY DEF IInv, Woken, At, Go, resumeHeldRead, resumesHeld, closeDeferredReadEOF,
     deferredEnds, requestClose, isClosing, readEnded, Held, ReadsPaused, inputLimit,
     ToldOK, Releasing, Calls, InRound, Receiving, RoundOK, CountOK, TypeOK, TurnState
<1>13. EndOK'
  <2>1. close' = close \/ (close' = "eof" /\ "eof" \in flags /\ ~Held)
    BY DeferredMoves, Zenon DEF Woken
  <2>2. QED
    BY <2>1, EndTold, Zenon DEF IInv, EndOK, EndBehindInput, Woken, At, resumeHeldRead
<1>14. QED
  BY <1>1, <1>2, <1>3, <1>4, <1>5, <1>6, <1>7, <1>8, <1>9, <1>10, <1>11, <1>12, <1>13,
     Zenon DEF IInv

\* With both halves ended the connection closes.
LEMMA ShutKeeps == ASSUME Instances, IInv, shutWrite PROVE IInv'
<1>1. TypeOK'
  BY ShutTypes, Zenon DEF IInv
<1>2. CountOK'
  BY Zenon DEF IInv, shutWrite, CountOK, Releasing
<1>3. PlaceOK'
  BY DEF IInv, shutWrite, At, Go, requestClose, isClosing, readEnded, Held,
     ReadsPaused, PlaceOK, TypeOK, TurnState, TaskState
<1>4. RoundOK'
  BY DEF IInv, shutWrite, At, Go, requestClose, isClosing, readEnded, Held,
     ReadsPaused, RoundOK, InRound, Receiving, Calls, PlaceOK, TypeOK, TurnState
<1>5. HangupOK'
  BY DEF IInv, shutWrite, At, Go, requestClose, isClosing, readEnded, Held,
     ReadsPaused, HangupOK, PastBranch, InRound, Receiving, Calls, TypeOK, TurnState,
     TaskState
<1>6. LimitOK'
  BY DEF IInv, shutWrite, At, Go, requestClose, isClosing, readEnded, Held,
     ReadsPaused, LimitOK, InRound, Receiving, Calls, RoundOK, TypeOK, TurnState
<1>7. ResetOK'
  BY DEF IInv, shutWrite, At, Go, requestClose, isClosing, readEnded, Held,
     ReadsPaused, ResetOK, PastBranch, InRound, Receiving, Calls, HangupOK, PlaceOK,
     TypeOK, TurnState, TaskState
<1>8. FinOK'
  BY DEF IInv, shutWrite, At, Go, requestClose, isClosing, readEnded, Held,
     ReadsPaused, FinOK, PastBranch, InRound, Receiving, Calls, HangupOK, PlaceOK,
     TypeOK, TurnState, TaskState
<1>9. OwedOK'
  BY DEF IInv, shutWrite, At, Go, requestClose, isClosing, readEnded, Held,
     ReadsPaused, OwedOK, Kicking, CountOK, TypeOK, TurnState, TaskState
<1>10. UnreadOK'
  BY DEF IInv, shutWrite, At, Go, requestClose, isClosing, readEnded, Held,
     ReadsPaused, UnreadOK, Unread, Noticed, Reading, Drained, Kicking, InRound,
     Receiving, Calls, RoundOK, HangupOK, FinOK, PlaceOK, TypeOK, TurnState, TaskState
<1>11. EofOK'
  BY DEF IInv, shutWrite, At, Go, requestClose, isClosing, readEnded, Held,
     ReadsPaused, EofOK, Deferred, Kicking, InRound, Receiving, Calls, RoundOK, OwedOK,
     PlaceOK, TypeOK, TurnState, TaskState
<1>12. ToldOK'
  BY DEF IInv, shutWrite, At, Go, requestClose, isClosing, readEnded, Held,
     ReadsPaused, ToldOK, Releasing, Calls, InRound, Receiving, RoundOK, CountOK, TypeOK,
     TurnState
<1>13. EndOK'
  <2>1. close' = close \/ (close' = "eof" /\ "eof" \in flags /\ ~Held)
    BY Zenon DEF shutWrite, requestClose, readEnded
  <2>2. QED
    BY <2>1, EndTold, Zenon DEF IInv, EndOK, EndBehindInput, shutWrite, At
<1>14. QED
  BY <1>1, <1>2, <1>3, <1>4, <1>5, <1>6, <1>7, <1>8, <1>9, <1>10, <1>11, <1>12, <1>13,
     Zenon DEF IInv

\* A yield, or what came meanwhile, brings another turn.
LEMMA FinishKeeps == ASSUME Instances, IInv, finishIOTask PROVE IInv'
<1>1. TypeOK'
  BY FinishTypes, Zenon DEF IInv
<1>2. CountOK'
  BY Zenon DEF IInv, finishIOTask, CountOK, Releasing
<1>3. PlaceOK'
  BY Zenon DEF IInv, finishIOTask, At, Go, Settled, isClosing, ReadsPaused, PlaceOK,
     TypeOK, TaskState, TurnState
<1>4. RoundOK'
  BY DEF IInv, finishIOTask, At, Go, Settled, isClosing, ReadsPaused, RoundOK,
     InRound, Receiving, Calls, PlaceOK, TypeOK, TurnState
<1>5. HangupOK'
  BY DEF IInv, finishIOTask, At, Go, Settled, isClosing, ReadsPaused, HangupOK,
     PastBranch, InRound, Receiving, Calls, TypeOK, TaskState, TurnState
<1>6. LimitOK'
  BY DEF IInv, finishIOTask, At, Go, Settled, isClosing, ReadsPaused, LimitOK,
     InRound, Receiving, Calls, RoundOK, TypeOK, TurnState
<1>7. ResetOK'
  BY DEF IInv, finishIOTask, At, Go, Settled, isClosing, ReadsPaused, ResetOK,
     PastBranch, InRound, Receiving, Calls, HangupOK, PlaceOK, TypeOK, TaskState,
     TurnState
<1>8. FinOK'
  BY DEF IInv, finishIOTask, At, Go, Settled, isClosing, ReadsPaused, FinOK,
     PastBranch, InRound, Receiving, Calls, HangupOK, PlaceOK, TypeOK, TaskState,
     TurnState
<1>9. OwedOK'
  BY DEF IInv, finishIOTask, At, Go, Settled, isClosing, ReadsPaused, OwedOK, Kicking,
     CountOK, TypeOK, TaskState, TurnState
<1>10. UnreadOK'
  BY DEF IInv, finishIOTask, At, Go, Settled, isClosing, ReadsPaused, UnreadOK,
     Unread, Noticed, Reading, Drained, Kicking, InRound, Receiving, Calls, RoundOK,
     HangupOK, FinOK, PlaceOK, TypeOK, TaskState, TurnState
<1>11. EofOK'
  BY DEF IInv, finishIOTask, At, Go, Settled, isClosing, ReadsPaused, EofOK, Deferred,
     readEnded, Held, Kicking, InRound, Receiving, Calls, RoundOK, OwedOK, PlaceOK,
     TypeOK, TaskState, TurnState
<1>12. ToldOK'
  BY DEF IInv, finishIOTask, At, Go, Settled, isClosing, ReadsPaused, ToldOK,
     Releasing, Calls, InRound, Receiving, RoundOK, CountOK, TypeOK, TurnState
<1>13. EndOK'
  BY DEF IInv, finishIOTask, At, Go, Settled, isClosing, ReadsPaused, EndOK,
     EndBehindInput, Calls, InRound, Receiving, RoundOK, ToldOK, TypeOK
<1>14. QED
  BY <1>1, <1>2, <1>3, <1>4, <1>5, <1>6, <1>7, <1>8, <1>9, <1>10, <1>11, <1>12, <1>13,
     Zenon DEF IInv

\* A step that changes nothing.
LEMMA StutterKeeps == ASSUME IInv, UNCHANGED vars PROVE IInv'
<1>1. TypeOK'
  BY Zenon DEF vars, IInv, TypeOK
<1>2. PlaceOK'
  BY Zenon DEF vars, IInv, PlaceOK, isClosing
<1>3. CountOK'
  BY Zenon DEF vars, IInv, CountOK, Releasing
<1>4. RoundOK'
  BY Zenon DEF vars, IInv, RoundOK, InRound, Receiving, Calls, isClosing
<1>5. HangupOK'
  BY Zenon DEF vars, IInv, HangupOK, PastBranch, InRound, Receiving, Calls
<1>6. LimitOK'
  BY Zenon DEF vars, IInv, LimitOK, isClosing, InRound, Receiving, Calls
<1>7. ResetOK'
  BY Zenon DEF vars, IInv, ResetOK, isClosing, PastBranch, InRound, Receiving, Calls
<1>8. FinOK'
  BY Zenon DEF vars, IInv, FinOK, isClosing, PastBranch, InRound, Receiving, Calls
<1>9. OwedOK'
  BY Zenon DEF vars, IInv, OwedOK, isClosing, ReadsPaused, Kicking
<1>10. UnreadOK'
  BY Zenon DEF vars, IInv, UnreadOK, isClosing, Unread, Noticed, Reading, Drained,
     ReadsPaused, Kicking, InRound, Receiving, Calls
<1>11. EofOK'
  BY Zenon DEF vars, IInv, EofOK, isClosing, Deferred, readEnded, Held, ReadsPaused,
     Kicking, InRound, Receiving, Calls
<1>12. ToldOK'
  BY Zenon DEF vars, IInv, ToldOK, Releasing, Calls, InRound, Receiving
<1>13. EndOK'
  BY Zenon DEF vars, IInv, EndOK, EndBehindInput, isClosing, Calls, InRound, Receiving
<1>14. QED
  BY <1>1, <1>2, <1>3, <1>4, <1>5, <1>6, <1>7, <1>8, <1>9, <1>10, <1>11, <1>12, <1>13,
     Zenon DEF IInv

----------------------------------------------------------------------------
(* The theorems.                                                           *)

\* The connection starts with its opening turn queued.
LEMMA InitIInv == ASSUME Instances, Init PROVE IInv
<1>1. /\ opt.bytes \in Nat /\ opt.limit \in Nat /\ opt.wakes \in Nat /\ Buffer \in Nat /\ Buffer > 0
  BY Zenon DEF Instances, Setting, Init
<1>2. /\ turn.pc = "queued" /\ turn.bits = {} /\ turn.ret = "none" /\ turn.ev = {}
      /\ task.events = {"open"} /\ task.claimed /\ edge.taken = {} /\ ~edge.set
      /\ sock.end = "no" /\ sock.bytes = 0 /\ input.in = 0 /\ input.tail = 0 /\ flags = {}
      /\ control.paused = {} /\ control.owners = 0 /\ ~control.owed /\ close = "open" /\ half = "open"
      /\ control.at = [o \in Owners |-> "idle"]
  BY Zenon DEF Init
<1>3. TypeOK
  <2>1. calls \in CallState
    BY <1>1 DEF Init, CallState
  <2>2. sock \in SockState /\ input \in InputState
    BY <1>1 DEF Init, SockState, InputState
  <2>3. edge \in EdgeState /\ task \in TaskState
    BY DEF Init, EdgeState, TaskState, Events
  <2>4. turn \in TurnState
    BY DEF Init, TurnState, Places, Returns, Events, Bits
  <2>5. control \in ControlState
    BY DEF Init, ControlState
  <2>6. QED
    BY <2>1, <2>2, <2>3, <2>4, <2>5 DEF Init, TypeOK
<1>4. CountOK
  <2>1. Releasing = {}
    BY <1>2 DEF Releasing
  <2>2. QED
    BY <1>2, <2>1, FS_EmptySet DEF CountOK
<1>5. PlaceOK /\ RoundOK /\ HangupOK
  BY <1>2, Zenon DEF PlaceOK, RoundOK, HangupOK, PastBranch, InRound, Receiving, Calls, isClosing
<1>6. LimitOK
  BY <1>1, <1>2 DEF LimitOK
<1>7. ResetOK /\ FinOK /\ OwedOK /\ EofOK /\ ToldOK
  BY <1>2, Zenon DEF ResetOK, FinOK, OwedOK, EofOK, ToldOK, readEnded, Calls
<1>8. UnreadOK /\ EndOK
  BY <1>2 DEF UnreadOK, Unread, EndOK, EndBehindInput
<1>9. QED
  BY <1>3, <1>4, <1>5, <1>6, <1>7, <1>8, Zenon DEF IInv

\* Every step keeps the invariant.
LEMMA NextIInv == ASSUME Instances, IInv, Next PROVE IInv'
<1>1. CASE Arrive \/ Wait \/ Dispatch \/ Wake \/ \E how \in {"fin", "reset"} : PeerEnds(how)
  BY <1>1, ArriveKeeps, WaitKeeps, DispatchKeeps, WakeKeeps, PeerKeeps, Zenon
<1>2. ASSUME NEW o \in Owners, Pause(o) \/ Resume(o) \/ ResumeRelease(o) \/ ResumeKick(o)
      PROVE  IInv'
  BY <1>2, PauseKeeps, ResumeKeeps, ReleaseKeeps, KickKeeps, Zenon
<1>3. CASE takeIOEvents \/ consumerMayRun \/ fireOnRead \/ Resumed \/ Continue \/ ReadBranch
  BY <1>3, TakeKeeps, MayRunKeeps, FireKeeps, ResumedKeeps, ContinueKeeps, BranchKeeps, Zenon
<1>4. CASE RecvNone \/ RecvBytes \/ Received \/ onReadEOF \/ Ended
  BY <1>4, NoneKeeps, BytesKeeps, ReceivedKeeps, EOFKeeps, EndedKeeps, Zenon
<1>5. CASE pendingSocketError \/ Woken \/ shutWrite \/ finishIOTask
  BY <1>5, PendingKeeps, WokenKeeps, ShutKeeps, FinishKeeps, Zenon
<1>6. CASE Resting
  BY <1>6, StutterKeeps, Zenon DEF Resting
<1>7. QED
  BY <1>1, <1>2, <1>3, <1>4, <1>5, <1>6, Zenon DEF Next

\* So it holds in every reachable state.
LEMMA Invariance ==
    ASSUME Instances
    PROVE  Spec => []IInv
<1>1. Init => IInv
  BY InitIInv
<1>2. IInv /\ [Next]_vars => IInv'
  BY NextIInv, StutterKeeps, Zenon
<1>3. QED
  BY <1>1, <1>2, PTL DEF Spec

\* An open connection at rest has read what its socket holds, or reads are
\* paused or held at a full buffer; no continuation and no released pause is
\* left owed; an end it read has closed it or waits for the other half; and a
\* reset has ended it: whatever edges were dropped, and wherever pauses,
\* releases, wakes and yields fell in the turn.
THEOREM RestMeansRead == Instances => (Spec => []InputReached)
<1> SUFFICES ASSUME Instances PROVE Spec => []InputReached
  OBVIOUS
<1>1. IInv => InputReached
  <2> SUFFICES ASSUME IInv, Quiet, ~isClosing PROVE InputReached
    BY Zenon DEF InputReached
  <2>1. /\ turn.pc = "idle" /\ ~edge.set /\ edge.taken = {} /\ task.events = {}
        /\ ~Kicking
    BY Zenon DEF IInv, Quiet, PlaceOK, Kicking
  <2>2. \A r : ~Calls(r)
    BY <2>1, Zenon DEF Calls
  <2>3. ~PastBranch /\ ~Receiving
    BY <2>1, <2>2, Zenon DEF PastBranch, InRound, Receiving
  <2>4. sock.end # "reset"
    BY <2>1, <2>2, <2>3, Zenon DEF IInv, ResetOK
  <2>5. "stalled" \notin flags
    BY <2>1, Zenon DEF IInv, RoundOK
  <2>6. "held" \in flags => inputLimit > 0 /\ input.in >= inputLimit
    BY <2>1, Zenon DEF IInv, LimitOK, inputLimit
  <2>7. ~ReadsPaused => ~control.owed
    BY <2>1, Zenon DEF IInv, OwedOK
  <2>8. ~ReadsPaused /\ "held" \notin flags => ~Unread
    BY <2>1, <2>2, <2>3, <2>5, Zenon DEF IInv, UnreadOK, Noticed, Reading
  <2>9. ~ReadsPaused => ("eof" \in flags => opt.halfOpen /\ (half = "open" \/ ~readEnded))
    <3>1. ~ReadsPaused => ~Deferred
      BY <2>1, <2>5, <2>7, Zenon DEF Deferred, Held
    <3>2. half # "shut" /\ half \in {"open", "shut", "done"}
      BY <2>1, Zenon DEF IInv, EofOK, TypeOK
    <3>3. QED
      BY <3>1, <3>2, Zenon DEF IInv, EofOK
  <2>10. ~Unread => sock.bytes = 0 /\ (sock.end = "fin" => "eof" \in flags)
    <3>1. sock.bytes \in Nat
      BY Values, Zenon DEF IInv
    <3>2. QED
      BY <3>1 DEF Unread
  <2>11. QED
    BY <2>1, <2>4, <2>5, <2>6, <2>7, <2>8, <2>9, <2>10, Zenon DEF InputReached
<1>2. QED
  BY <1>1, Invariance, PTL

\* The end of the stream closes the connection only after every byte was read,
\* and after an OnRead that a consumer who kept bytes, or who answers the end,
\* is due: a pause released while the end is deferred cannot stand in for it.
THEOREM EndComesLast == Instances => (Spec => []EndBehindInput)
<1> SUFFICES ASSUME Instances PROVE Spec => []EndBehindInput
  OBVIOUS
<1>1. IInv => EndBehindInput
  BY Zenon DEF IInv, EndOK
<1>2. QED
  BY <1>1, Invariance, PTL

\* What callbacks leave buffered passes MaxInboundBuffered by less than one read.
THEOREM BufferIsBounded == Instances => (Spec => []InputWithinLimit)
<1> SUFFICES ASSUME Instances PROVE Spec => []InputWithinLimit
  OBVIOUS
<1>1. IInv => InputWithinLimit
  <2> SUFFICES ASSUME IInv PROVE InputWithinLimit
    OBVIOUS
  <2>1. input.tail # 0 => "held" \notin flags
    BY Zenon DEF IInv, RoundOK, InRound
  <2>2. input.in \in Nat /\ input.tail \in Nat /\ opt.limit \in Nat /\ Buffer \in Nat
    BY Values, Zenon DEF IInv, Instances
  <2>3. QED
    BY <2>1, <2>2 DEF IInv, LimitOK, InputWithinLimit, inputLimit
<1>2. QED
  BY <1>1, Invariance, PTL
=============================================================================

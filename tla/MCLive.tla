------------------------------- MODULE MCLive -------------------------------
(***************************************************************************)
(* What must eventually happen, under the fairness the scheduler gives:    *)
(* the shutdown barrier opens, and output leaves.  part says which of the  *)
(* two a behaviour is of; the other stays as it began.                     *)
(***************************************************************************)
EXTENDS TurnBarrier

CONSTANTS
    g1, g2,                          \* the goroutines of the barrier
    Producers, Turn, Writer, Poller  \* and of the output

OutputSetting == [size |-> 1, cap |-> 1, limit |-> 2, bytes |-> 1, calls |-> 0, edges |-> 1,
                  closes |-> {"write", "graceful"}, fails |-> FALSE]

VARIABLES
    part, opt, owner, outHeld, blocked, edge, opened, shut, shutDone, closeWait, failed, pending,
    outbound, inflight, scratch, direct, sent, next, room, nospace, fin, edgeReady, edges, phase,
    linger, events, taken, wturn, calls, wrote, err, outPc, ret

outVars == <<opt, owner, outHeld, blocked, edge, opened, shut, shutDone, closeWait, failed, pending,
             outbound, inflight, scratch, direct, sent, next, room, nospace, fin, edgeReady, edges,
             phase, linger, events, taken, wturn, calls, wrote, err, outPc, ret>>
allVars == <<part, outVars, vars>>

Output == INSTANCE Outbound WITH Settings <- {OutputSetting}, held <- outHeld, pc <- outPc

PartInit ==
    /\ Init /\ Output!Init
    /\ \/ part = "barrier" /\ stripe[g1] <= stripe[g2]   \* g1 and g2 are alike
       \/ part = "output" /\ stripe = [p \in Procs |-> 0]

BarrierNext == part = "barrier" /\ Next /\ UNCHANGED <<part, outVars>>
OutputNext == part = "output" /\ Output!Next /\ UNCHANGED <<part, vars>>

PartNext == BarrierNext \/ OutputNext

\* The steps that are fair: every goroutine keeps running, every turn submitted
\* begins, and a peer that is there reads.
BarrierStep(p) == part = "barrier" /\ Step(p) /\ UNCHANGED <<part, outVars>>
TurnBegins == part = "barrier" /\ (\E p \in Goroutines : Begin(p)) /\ UNCHANGED <<part, outVars>>
OutputStep(p) == part = "output" /\ Output!Step(p) /\ UNCHANGED <<part, opt, vars>>
PeerReads == part = "output" /\ Output!socketDrains /\ UNCHANGED <<part, opt, vars>>

PartFairness ==
    /\ \A p \in Procs : WF_allVars(BarrierStep(p))
    /\ SF_allVars(TurnBegins)
    /\ \A p \in Output!Procs : WF_allVars(OutputStep(p))
    /\ WF_allVars(PeerReads)

PartSpec == PartInit /\ [][PartNext]_allVars /\ PartFairness

\* While the peer reads, output ends: it is sent to its last byte, a CloseWrite
\* shuts its half behind it, and a graceful close releases the connection.
OutputEnds == Output!OutputEnds
=============================================================================

--------------------------- MODULE ConnLifecycle ----------------------------
(***************************************************************************)
(* What a connection's user may rely on, whoever closes it: OnOpen at most *)
(* once and never once its resources are released; a close requested,      *)
(* carried out and reported, in this order; and OnClose exactly for a      *)
(* connection that had OnOpen.  A connection that fails to register is     *)
(* abandoned without a callback.                                           *)
(***************************************************************************)
EXTENDS Naturals

VARIABLES phase, opens, closes

vars == <<phase, opens, closes>>

\* The phases of connCloseState.
closeOpen == 0
closeRequested == 2
closeResourcesReleased == 3
closeCallbackDelivered == 4

Init == phase = closeOpen /\ opens = 0 /\ closes = 0

Open ==
    /\ opens = 0 /\ phase < closeResourcesReleased
    /\ opens' = 1
    /\ UNCHANGED <<phase, closes>>

Request ==
    /\ phase = closeOpen /\ phase' = closeRequested
    /\ UNCHANGED <<opens, closes>>

Release ==
    /\ phase = closeRequested /\ phase' = closeResourcesReleased
    /\ UNCHANGED <<opens, closes>>

Deliver ==
    /\ phase = closeResourcesReleased /\ phase' = closeCallbackDelivered
    /\ closes' = opens
    /\ UNCHANGED opens

Abandon ==
    /\ opens = 0 /\ phase < closeResourcesReleased
    /\ phase' = closeCallbackDelivered
    /\ UNCHANGED <<opens, closes>>

Next == Open \/ Request \/ Release \/ Deliver \/ Abandon

Spec == Init /\ [][Next]_vars
=============================================================================

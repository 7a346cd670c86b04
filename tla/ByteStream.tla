----------------------------- MODULE ByteStream ------------------------------
(***************************************************************************)
(* What a reliable transport promises of one direction of a connection:    *)
(* the bytes the reader gets are, in order and once, the first bytes that  *)
(* the writer was told were taken; the reader sees the end of the stream   *)
(* only behind the last of them; and nothing is taken behind the end.      *)
(***************************************************************************)
EXTENDS Sequences, SequencesExt

VARIABLES
    sent,   \* the bytes taken from the writer
    got,    \* the bytes handed to the reader
    shut,   \* the writer ended its stream
    gone,   \* the writer's end of the connection is gone
    ended   \* the reader saw the end

vars == <<sent, got, shut, gone, ended>>

Init == sent = <<>> /\ got = <<>> /\ ~shut /\ ~gone /\ ~ended

\* A step of either end may do several of these.
Step ==
    /\ IsPrefix(sent, sent') /\ (sent' # sent => ~shut)
    /\ IsPrefix(got, got') /\ IsPrefix(got', sent') /\ (got' # got => ~ended)
    /\ (shut => shut') /\ (gone => gone') /\ (ended => ended')
    /\ ended' /\ ~ended => gone' \/ (shut' /\ got' = sent')

Spec == Init /\ [][Step]_vars
=============================================================================

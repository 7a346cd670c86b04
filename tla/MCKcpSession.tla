---------------------------- MODULE MCKcpSession -----------------------------
(***************************************************************************)
(* Settings for checking KcpSession: the client writes two bytes in        *)
(* segments of one and ends its stream, so that three segments share       *)
(* windows of two, over sequence numbers that wrap behind the first.       *)
(***************************************************************************)
EXTENDS KcpSession

Plain == [packet |-> TRUE, keepAlive |-> FALSE, congestion |-> FALSE, resend |-> 1,
          sendWindow |-> 2, recvWindow |-> 2, bytes |-> 2, closes |-> FALSE]

MCOptions ==
    {Plain,
     [Plain EXCEPT !.recvWindow = 1, !.resend = 0, !.bytes = 1], \* a window that closes
     [Plain EXCEPT !.congestion = TRUE, !.resend = 0, !.bytes = 1],
     [Plain EXCEPT !.keepAlive = TRUE, !.sendWindow = 1, !.resend = 0, !.bytes = 1],
     [Plain EXCEPT !.closes = TRUE, !.bytes = 1],
     [Plain EXCEPT !.packet = FALSE, !.closes = TRUE, !.bytes = 1]}

\* Data is reordered; one acknowledgement at a time is enough to be stale.
MCMaxWire == [e \in Ends |-> IF e = Server THEN 2 ELSE 1]
=============================================================================

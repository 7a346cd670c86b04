------------------------------- MODULE MCMux --------------------------------
(***************************************************************************)
(* Settings for checking Mux: one or two streams, windows and budgets of a *)
(* few bytes, a transport that takes two frames.  Each setting lets the    *)
(* two applications make the calls whose meeting it is about.              *)
(***************************************************************************)
EXTENDS Mux

Plain == [window |-> [e \in Ends |-> 2], session |-> 2, handler |-> [e \in Ends |-> FALSE],
          opens |-> 1, frame |-> 1, streams |-> 2, backlog |-> 1, keepAlive |-> FALSE,
          causes |-> {"eof", "err"}, data |-> [client |-> 1, server |-> 0],
          ops |-> [client |-> {"open", "fin", "read"}, server |-> {"read", "fin"}]]
Ops(r, c, s) == [r EXCEPT !.ops = [client |-> {"open"} \cup c, server |-> s]]
Served(r) == [r EXCEPT !.handler[Server] = TRUE]
Sends(r, n) == [r EXCEPT !.data.client = n]

MCSettings ==
    { \* both ends read, write and end; a window closes, or is wider at one end
      Sends(Plain, 2),
      [Plain EXCEPT !.data.server = 1],
      [Sends(Plain, 3) EXCEPT !.window = [client |-> 1, server |-> 3]],
      Served(Sends(Ops(Plain, {"fin", "read"}, {"fin"}), 2)),
      \* the session's budget holds reads back, for two streams too
      [Sends(Plain, 3) EXCEPT !.session = 1],
      [Ops(Plain, {"fin"}, {"read"}) EXCEPT !.session = 1, !.opens = 2],
      Served([Ops(Plain, {"abort"}, {"read"}) EXCEPT !.session = 1, !.opens = 2, !.streams = 1]),
      \* a handler that pauses and yields, or fails
      Served(Sends(Ops(Plain, {"fin"}, {"fin", "pause", "yield"}), 2)),
      Served(Ops(Plain, {"fin"}, {"abort", "error"})),
      \* aborts, refusals and opens given up
      Ops(Plain, {"abort", "cancel", "flush"}, {"read", "abort", "veto"}),
      \* shutdowns, closes and a transport that dies
      Ops(Plain, {"fin", "shutdown"}, {"fin"}),
      Ops(Plain, {"shutdown", "force"}, {"read"}),
      Served(Sends(Ops(Plain, {"fin"}, {"fin", "shutdown"}), 0)),
      Ops(Plain, {"fin", "close"}, {"read", "die"}),
      \* timeouts, deadlines, alarms and keepalives
      Ops(Plain, {"time"}, {"time", "fin", "read", "deadline"}),
      Served(Ops(Plain, {}, {"time", "alarm", "read"})),
      [Ops(Plain, {"time"}, {"read"}) EXCEPT !.keepAlive = TRUE] }

=============================================================================

---------------------------- MODULE MCLayerStack -----------------------------
(***************************************************************************)
(* Instances of LayerStack for TLC: two layers, and settings that put two  *)
(* application goroutines and the Handler's callback against each other.   *)
(***************************************************************************)
EXTENDS LayerStack, TLC

With(kind, a, b, h, turns) ==
    [kind |-> kind, limit |-> 0, turns |-> turns, observes |-> FALSE, fails |-> {}, says |-> {},
     linger |-> FALSE, reset |-> FALSE, prog |-> ("a" :> a @@ "b" :> b @@ Turn :> h)]

Plain == <<"pass", "pass">>
BatchTop == <<"pass", "batch">>
BatchLow == <<"batch", "pass">>
Window == <<"pass", "window">>
Both == <<"batch", "batch">>

MCSettings ==
    { \* writers against the end of the writing half
      With(BatchTop, <<"write">>, <<"shut">>, <<>>, 0),
      With(BatchLow, <<"write", "flush">>, <<"shut">>, <<>>, 0),
      With(Window, <<"write">>, <<"shut">>, <<>>, 1),
      With(Both, <<"write">>, <<"flush">>, <<"shut">>, 1),
      \* writers against the limit
      [With(Plain, <<"write", "write">>, <<"write">>, <<>>, 0) EXCEPT !.limit = 2],
      [With(Window, <<"write">>, <<"write">>, <<>>, 2) EXCEPT !.limit = 1],
      [With(BatchTop, <<"write">>, <<"write">>, <<"write">>, 1) EXCEPT !.limit = 1],
      \* tracked writes against the wire
      With(Plain, <<"tracked">>, <<"write">>, <<>>, 0),
      [With(Window, <<"tracked">>, <<"flush">>, <<>>, 1) EXCEPT !.observes = TRUE],
      \* a close from above, and what cuts it short
      [With(Both, <<"write", "gracefully">>, <<"write">>, <<>>, 1) EXCEPT !.says = {1, 2}],
      [With(BatchTop, <<"write", "gracefully">>, <<"closeErr">>, <<>>, 1) EXCEPT !.says = {2}],
      [With(BatchLow, <<"write", "close">>, <<"close">>, <<>>, 0) EXCEPT !.linger = TRUE],
      [With(BatchTop, <<"write">>, <<"close">>, <<"shut">>, 1) EXCEPT !.reset = TRUE],
      With(BatchTop, <<"shut">>, <<"write", "gracefully">>, <<>>, 0),
      \* a turn that fails, or that ends the stream, against a close from above
      [With(BatchTop, <<"write">>, <<"close">>, <<"write">>, 1) EXCEPT !.fails = {TRUE}],
      [With(BatchLow, <<"write">>, <<"shut">>, <<>>, 1) EXCEPT !.fails = {FALSE}],
      \* a close a layer begins, against one from above
      [With(BatchTop, <<"write", "gracefully">>, <<"layerClose">>, <<"write">>, 1) EXCEPT !.says = {2}],
      With(BatchTop, <<"layerAbort">>, <<"close">>, <<"write", "close">>, 1)}

\* An end of stream on the turn against a close the bottom layer begins.
MCStuck == {[With(Plain, <<"layerClose">>, <<>>, <<>>, 1) EXCEPT !.fails = {TRUE}]}

=============================================================================

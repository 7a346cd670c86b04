\* The shutdown barrier opens and output leaves.
SPECIFICATION PartSpec
CONSTANTS
  g1 = g1
  g2 = g2
  Goroutines = {g1, g2}
  Stopper = stopper
  Stripes = 2
  MaxTurns = 2
  MaxClosing = 1
  MaxLate = 1
  Producers = {producer}
  Turn = ioTurn
  Writer = writer
  Poller = poller
INVARIANTS SumExact BarrierJoins
PROPERTIES StopEnds OutputEnds

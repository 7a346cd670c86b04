SPECIFICATION Spec
CONSTANTS
  Producers = {p1}
  Workers = {w1, w2}
  Registrar = registrar
  Stopper = stopper
  Accepted = FALSE
  MayRefuse = TRUE
  MayPanic = TRUE
SYMMETRY Symmetry
INVARIANTS
  OneTask OneSender CountExact PassAlone NothingLost
PROPERTIES Implements

SPECIFICATION Spec
CONSTANTS
  Producers = {p1}
  Workers = {w1, w2}
  Registrar = registrar
  Stopper = stopper
  Accepted = FALSE
  MayRefuse = FALSE
  MayPanic = TRUE
INVARIANT ShutdownComplete

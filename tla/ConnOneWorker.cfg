SPECIFICATION FairSpec
CONSTANTS
  Producers = {p1}
  Workers = {w1}
  Registrar = registrar
  Stopper = stopper
  Accepted = FALSE
  MayRefuse = FALSE
  MayPanic = FALSE
CHECK_DEADLOCK FALSE
PROPERTY ShutdownEnds

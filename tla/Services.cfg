\* The pool, the timers, accepting and the closer.
SPECIFICATION PartSpec
CONSTANTS
  Settings <- PoolSettings
  Capacity = 2
  Blocking = {t1}
  MaxRescues = 1
  t1 = t1
  t2 = t2
  Workers = {w1, w2}
  Tasks = {t1, t2, t3}
  Submitters = {u1}
  Monitors = {m1, m2}
  Rescuer = rescuer
  Stopper = stopper
  e1 = e1
  e2 = e2
  Entries = {e1, e2}
  v1 = v1
  v2 = v2
  Polling = {v1, v2}
  Callbacks = {g, h}
  l1 = l1
  l2 = l2
  Listeners = {l1, l2}
  Collectors = {w}
  Fds = {n1, n2, n3}
SYMMETRY Symmetry
INVARIANTS PoolWakes PoolStops TimersKept  BacklogTaken 

SPECIFICATION Spec
CONSTANTS
  c1 = c1
  c2 = c2
  s1 = s1
  s2 = s2
INVARIANTS   WsNothingStuck WsTimersAimed 

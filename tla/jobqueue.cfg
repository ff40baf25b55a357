CONSTANTS
  Keys = {k1}
  Workers = {w1, w2}
  LeaseS = 1
  Caps = {1}
  JobKinds = {"inbound_hold", "sched_send"}
  Times = {1, 2}
  MaxClock = 3
SPECIFICATION Spec
SYMMETRY Symmetry
INVARIANTS TypeOK AtMostOnce FenceDurable OneSender OneCurrentClaim
PROPERTIES TerminalIsFinal ImplementsDelivery
CHECK_DEADLOCK FALSE

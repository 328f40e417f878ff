SPECIFICATION Spec
CONSTANTS
  IPs = {ip1, ip2}
  Window = 3
  RateMax = 2
  MaxTime = 7
INVARIANTS RateHeld LimiterIsExact RequestsBounded
CHECK_DEADLOCK FALSE

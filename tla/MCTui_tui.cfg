CONSTANTS
  TickInterval = 2
  FetchTimeout = 1
  ActionTimeout = 2
  MaxKeys = 3
  MaxTime = 6
SPECIFICATION Spec
INVARIANTS TypeOK KeysTakeEffectInOrder KeyActsOnce NotRespondingIsChecked OneTickBehind
\* time is bounded
CHECK_DEADLOCK FALSE

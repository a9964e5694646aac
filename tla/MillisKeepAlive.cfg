CONSTANTS
  Half = 16
  Timeouts = {10}
SPECIFICATION ClockSpec
INVARIANT KeepAliveIsCalled
\* Nothing is checked beyond half the range past the end of a wait.
CHECK_DEADLOCK FALSE

SPECIFICATION Spec
CONSTANTS
  Starts = {start}
  Stops = {stop}
  Restarts = {restart}
  Pids = {4242, 4343}
  None = None
CHECK_DEADLOCK FALSE
INVARIANT StopEndsProcess

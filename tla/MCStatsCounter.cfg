\* Two runs of two messages together, the second of a run being over the limit.
SPECIFICATION FairSpec
CHECK_DEADLOCK FALSE
CONSTANTS
  Runs = 2
  Messages = 2
  MaxMessages = 1
  Quantities = {2}
INVARIANT ReportExact
PROPERTY MonitorCatchesUp

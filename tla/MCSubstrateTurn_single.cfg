\* A dashboard alone: two turns, two new sessions, abandoned anywhere.
SPECIFICATION FairSpec
CONSTANTS
  chat = chat dashboard = dashboard
  Procs = {dashboard}
  Tracers = {dashboard}
  MaxRepair = 2
  MaxTurns = 2
  MaxSessions = 2
CHECK_DEADLOCK FALSE
INVARIANTS TypeOK ReceiptIsApplied CountCoversReceipts TraceIsOwn
PROPERTIES TurnsEnd

\* Two processes that trace nothing, on one state directory.
SPECIFICATION Spec
CONSTANTS
  chat = chat dashboard = dashboard
  Procs = {chat, dashboard}
  Tracers = {}
  MaxRepair = 2
  MaxTurns = 2
  MaxSessions = 2
SYMMETRY Alike
CHECK_DEADLOCK FALSE
INVARIANTS OneConversation HistoryIsLast RepairedOnce

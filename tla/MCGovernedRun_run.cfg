\* Every reply to two cells, restarts; one cell published while it runs, a branch that moves.
SPECIFICATION Spec
CONSTANTS
  c0 = c0 c1 = c1
  Cells <- MCCells
  Unpaired = {c0}
  NoReply = NoReply
  Setups <- MCSetups
CHECK_DEADLOCK FALSE
INVARIANTS PublishedIsCommitted InvokedOnce ReportIsBacked

\* Two tasks in every mode of the two programs.
SPECIFICATION Spec
CONSTANTS
  t1 = t1 t2 = t2
  Tasks <- MCTasks
  Unseen = Unseen
  Setups <- MCSetups
  Failures = {"timeout", "transport_error"}
  MaxEdits = 1
  MaxTurns = 2
INVARIANTS ReportIsWhole HeadlineIsComparable MeansAreObserved

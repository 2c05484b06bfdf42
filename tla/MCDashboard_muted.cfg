\* A first flow turn that gets no words, then one that does.
SPECIFICATION Spec
CONSTANTS
  Texts <- MCTexts
  Relevant <- MCRelevant
  Canonical <- MCCanonical
  Threads <- MCThreads
  MaxElements = 3
  MaxLive = 2
  ByteBudget = 60
  Handlers = {h1, h2}
  Watchers = {w1}
  Modes = {"pipeline", "flow"}
  Stages <- MCStages
  Setups <- MCSetups
  MaxTurns = 2
  MaxClears = 1
  MaxConnections = 2
CHECK_DEADLOCK FALSE
INVARIANT SpokenIsShown

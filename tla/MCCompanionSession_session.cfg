\* Small talk, things told and asked for again, and state questions under trims.
SPECIFICATION Spec
CONSTANTS
  Messages <- MCMessages
  Answers <- MCAnswers
  Within <- MCWithin
  Brief <- MCBrief
  IdOrder <- MCIdOrder
  Bytes <- MCBytes
  Profile <- MCProfile
  RingTurns = 2
  Setups <- MCSetups
  MaxTurns = 3
CHECK_DEADLOCK FALSE
INVARIANTS StateIsAnswered EvidenceIsHeld RepeatIsAskedAgain

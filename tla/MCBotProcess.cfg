CONSTANTS
  WaitingRoom = 3
  EmptyRoom = 5
  AloneGrace = 4
  MaxRecord = 7
  Confirm = 3
  SlowPoll = 2
  Horizon = 15
SPECIFICATION ProcessSpec
INVARIANTS
  ProcessTypeOK
  RecordingBounded
  AloneIsWitnessed
  ReasonFitsHistory
  RecordingIsKept
  LiveMicHasCause
  ConsentSignals
PROPERTIES BotEnds
CHECK_DEADLOCK FALSE

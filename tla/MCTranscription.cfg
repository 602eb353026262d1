CONSTANTS
  Speakers = {0, 1}
  Bad = Bad
  Places <- MCPlaces
  UploadTimes = {5, 350}
  SourceTimes = {1, 20}
  AnswerTimes = {2, 670}
  FileTimes = {1500}
  Codes = {200, 202, 302, 400, 402, 429, 504}
  Bodies <- AllBodies
  PresignTTL = 1350
SPECIFICATION Spec
INVARIANTS
  TypeOK
  LandsInTime
  LinkCoversAttempts
  TranscriptFaithful
PROPERTIES AnswerIsKept
CHECK_DEADLOCK FALSE

CONSTANTS
  LastMsg = 3
  Keys = {1, 2, 3}
  Contact <- OneContact
  Undecodable = {1}
  Oversize = {}
  PollMax = 2
  ReleaseMax = 2
  MaxReplay = 1
  Slots = 2
  Horizon = 3
  MaxAge = 1
  CheckEvery = 1
  LeaseS = 1
  CacheFor = 1
  MaxCrashes = 1
  OtherWriters = TRUE
SPECIFICATION Spec
INVARIANTS TypeOK AnsweredOnce InTurnNotHeld
PROPERTIES HandsOverAtMostOnce SkipsOnlyOvertaken

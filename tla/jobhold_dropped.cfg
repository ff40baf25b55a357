CONSTANTS
  LastMsg = 2
  Keys = {1, 2}
  Contact <- OneContact
  Undecodable = {}
  Oversize = {}
  PollMax = 2
  ReleaseMax = 2
  MaxReplay = 1
  Slots = 2
  Horizon = 3
  MaxAge = 1
  CheckEvery = 1
  LeaseS = 1
  CacheFor = 1
  MaxCrashes = 0
  OtherWriters = FALSE
SPECIFICATION Spec
PROPERTY NoDroppedReplies

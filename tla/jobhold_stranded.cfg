CONSTANTS
  LastMsg = 1
  Keys = {1}
  Contact <- OneContact
  Undecodable = {}
  Oversize = {}
  PollMax = 2
  ReleaseMax = 2
  MaxReplay = 1
  Slots = 2
  Horizon = 4
  MaxAge = 2
  CheckEvery = 1
  LeaseS = 1
  CacheFor = 2
  MaxCrashes = 1
  OtherWriters = FALSE
SPECIFICATION Spec
PROPERTY HeldResolved

CONSTANTS
  TokenTries = 2
  KeyTries = 2
  MaxLogin = 1
  MaxReq = 2
  MaxPush = 1
SPECIFICATION Spec
INVARIANT KeyForRequestedTrack

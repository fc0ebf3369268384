CONSTANTS
  MaxConn = 2
  MaxTries = 2
  MaxSend = 1
  MaxRecv = 3
  MaxFrames = 1
  BodyLens = {0, 2}
  LoginCap = 1
  Caps = {1, 2}
  Relogin = FALSE
SPECIFICATION FairSpec
INVARIANTS
  SendNonceFresh
  ReceiveInSync
  NoFrameRefused
  ConnectedMeansGranted
  GrantMissedOnlyByBudget
  NoSocketLeak
PROPERTIES
  ImplementsChannel
  LoginReturns

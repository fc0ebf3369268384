CONSTANTS
    TokenTries = 2
    KeyTries = 2
    MaxLogin = 2
    MaxReq = 3
    MaxPush = 2
    Users = {u1, u2}
    Names = {u1}
    NoUser = nobody
    MaxHandles = 2
    MaxStarts = 2
    MaxLogins = 2
    Timeout = 2
SPECIFICATION ApiSpec
INVARIANTS
    EachAnswerEndsOneCall
    AnswerLag
    ConnectedMeansLastLogin
    NothingElseLeft
PROPERTIES
    CallReturns
    StopReleases

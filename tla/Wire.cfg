CONSTANTS
    BodyLens = {0, 1, 2, 5, 8}
    MaxFrames = 2
    Builds = {"posix", "esp32"}
    NullArg = NullArg
    Msgs <- HandshakeMsgs
    Tags <- MCTags
    Calls <- MCCalls
    Users <- MCNames
    ServerKeys <- MCServerKeys
    Extra <- MCExtra
    Creds <- MCCreds
    Garbled <- MCGarbled
    DhLen = 3
    DigestLen = 2
    KeyLen = 3
    AuthMin = 2
    AuthMax = 12
    ArMax = 24
    NameMax = 3
    CredMax = 4
SPECIFICATION WireSpec
INVARIANTS
    SentAsReference
    FirstWordReadBack
    RequestsRead
    KeysAgree
    
    DescriptorReadBack
CHECK_DEADLOCK FALSE

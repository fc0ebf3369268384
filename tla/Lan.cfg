CONSTANTS
    Users = {u1, u2}
    Order <- UserFirst
    MaxGen = 2
    MaxPosts = 2
    MaxOther = 1
    Backlog = 2
    Damage = TRUE
    Stale = TRUE
    Capacity = 160
    TableSize = 16
    MaxRefs = 16
    MaxSubstrings = 64
    Devices <- MCDevices
    Type <- MCType
    Port = 7864
    Address <- MCAddress
    Txts <- MCTxts
    Announcement <- AnnouncementOf
    Datagrams <- MCDatagrams
    Queries <- MCQueries
    Services <- MCServices
SPECIFICATION LanSpec
INVARIANTS
    CredentialsOfOneUser
    NoUseAfterFree
    AnnounceReadBack
    QueriesAnswered
PROPERTIES
    PostPairs
    StopReturns
    GoesOnAnnouncing

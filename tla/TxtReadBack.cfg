CONSTANTS
    Capacity = 160
    TableSize = 16
    MaxRefs = 16
    MaxSubstrings = 64
    Devices <- MCDevices
    Type <- MCType
    Port = 7864
    Address <- MCAddress
    Txts <- MCTxts
    Announcement <- AnnouncementOf
    Datagrams <- MCDatagrams
    Queries <- MCQueries
    Services <- MCServices
SPECIFICATION Spec
INVARIANT TxtReadBack

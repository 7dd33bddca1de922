SPECIFICATION FairSpec
CONSTANTS
    Ids = {i1}
    Objects = {o1}
    Clients = {c1, c2}
    Devices = {j1}
    Configs = {f1}
    Deletes = {d1}
    Logouts = {l1}
    Polls = {p1}
    NoId = NoId
    NoObject = NoObject
    NoClient = NoClient
    NoDevice = NoDevice
    NoRow = NoRow
    Multi = TRUE
    StoreMayFail = TRUE
    CallersMayLeave = FALSE
    NetworkMayDrop = FALSE
    PhoneMayUnlink = TRUE
    MayRestart = FALSE
    MayStop = FALSE
    MaxRebuilds = 1
    MaxConnects = 1
PROPERTIES
    DeletesEnd
    DeadServiceReplaced

SPECIFICATION Spec
CONSTANTS
    Ids = {i1}
    Objects = {o1}
    Clients = {c1, c2, c3}
    Devices = {j1, j2}
    Configs = {f1}
    Deletes = {}
    Logouts = {l1, l2}
    Polls = {p1}
    NoId = NoId
    NoObject = NoObject
    NoClient = NoClient
    NoDevice = NoDevice
    NoRow = NoRow
    Multi = FALSE
    StoreMayFail = TRUE
    CallersMayLeave = TRUE
    NetworkMayDrop = TRUE
    PhoneMayUnlink = TRUE
    MayRestart = FALSE
    MayStop = TRUE
    MaxRebuilds = 1
    MaxConnects = 1
SYMMETRY Symmetry
VIEW SingleView
CONSTRAINT ThreeAtATime
INVARIANTS
    OneDeviceInSingleMode
    LogoutAnnounced

SPECIFICATION Spec
CONSTANTS
    Ids = {i1, i2}
    Objects = {o1, o2}
    Clients = {c1, c2, c3}
    Devices = {j1, j2}
    Configs = {f1, f2}
    Deletes = {}
    Logouts = {}
    Polls = {p1}
    NoId = NoId
    NoObject = NoObject
    NoClient = NoClient
    NoDevice = NoDevice
    NoRow = NoRow
    Multi = TRUE
    StoreMayFail = FALSE
    CallersMayLeave = FALSE
    NetworkMayDrop = TRUE
    PhoneMayUnlink = TRUE
    MayRestart = FALSE
    MayStop = FALSE
    MaxRebuilds = 1
    MaxConnects = 1
SYMMETRY Symmetry
INVARIANTS
    RowsMatchDevices
PROPERTIES
    LoginSurvivesRebuild

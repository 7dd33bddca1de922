SPECIFICATION Spec
CONSTANTS
    Ids = {i1}
    Objects = {o1, o2}
    Clients = {c1, c2}
    Devices = {j1}
    Configs = {f1}
    Deletes = {d1, d2}
    Logouts = {}
    Polls = {p1, p2}
    NoId = NoId
    NoObject = NoObject
    NoClient = NoClient
    NoDevice = NoDevice
    NoRow = NoRow
    Multi = TRUE
    StoreMayFail = TRUE
    CallersMayLeave = FALSE
    NetworkMayDrop = TRUE
    PhoneMayUnlink = TRUE
    MayRestart = TRUE
    MayStop = TRUE
    MaxRebuilds = 1
    MaxConnects = 2
SYMMETRY Symmetry
INVARIANTS
    TypeOK
    MarkerOwned
    LetGoStaysDown
    StoreFirst
    OneConnectionPerDevice
VIEW DeleteView
CONSTRAINT TwoAtATime

SPECIFICATION FairSpec
CONSTANTS
    Requests = {r1, r2, r3}
    Caps = {0, 1, 2}
    MaxFileSize = 1
    FileSizes = {1, 2}
    MaxLen <- Widths
    MediaTypes <- Types
    Infos <- SomeInfos
INVARIANTS
    SlotPerDownload
    WorksOnWhatWasSent
PROPERTIES
    EveryoneServed
    IsLimiter

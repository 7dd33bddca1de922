SPECIFICATION Spec
CONSTANTS
    logged_in = logged_in
    message = message
    history_sync = history_sync
    u1 = u1
    u2 = u2
    w1 = w1
    w2 = w2
    Blank = Blank
    NoMessage = NoMessage
    NoUrl = NoUrl
    NoConfig = NoConfig
    SystemTypes = {logged_in}
    DataTypes = {message, history_sync}
    Message = message
    HistoryBatch = history_sync
    Workers = {w1, w2}
    MessageIds = {x1}
    Urls = {u1}
    Via = "webhook"
    Scenarios <- PassScenarios
INVARIANTS
    DeliveredOnce
PROPERTIES
    RestartKeepsConfig

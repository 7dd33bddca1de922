SPECIFICATION Spec
CONSTANTS
    alice = alice
    bob = bob
    carol = carol
    Group = group
    NoUser = nouser
    Stray = stray
    Accounts <- MCAccounts
    People <- MCPeople
    FirstRequests <- MCFirstRequests
    FromPhones <- MCFromPhones
    Notices <- MCNotices
    MaxBegun = 2
INVARIANTS
    SentIsPublished
    AnswersReach
    StatusTellsTruth
PROPERTIES
    OneChatPerPerson
CHECK_DEADLOCK FALSE

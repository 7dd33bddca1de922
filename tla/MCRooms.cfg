SPECIFICATION Spec
CONSTANTS
    alice = alice
    bob = bob
    carol = carol
    NoUser = nouser
    Stray = stray
    Me = alice
    People <- MCPeople
    Contacts <- MCContacts
    Groups <- MCGroups
    Mode <- MCMode
    Founded <- MCFounded
    Requests <- MCRequests
    Others <- MCOthers
    MixedChanges = FALSE
    MaxTime = 1
    MaxSteps = 3
INVARIANTS
    MembershipFollows
    SettingsAgree
CHECK_DEADLOCK FALSE

SPECIFICATION Spec
CONSTANTS
    Processes = {p1, p2}
    Files <- MCFiles
    Environments <- MCEnvironments
    Uploads = {0, 2}
INVARIANTS
    SchemaComplete
    StartsAgain
    SettingsTakeEffect
    CutsAreAnnounced

SPECIFICATION FairSpec
CONSTANTS
    None = None
    Account <- AccountOf
    Tours = {{"flows", "kb"}, {"flows", "settings"}}
    Docs = {"d"}
    Stocked = {"a"}
    MaxLogins = 2
    MaxCalls = 1
INVARIANTS
    TypeOK
    ReadYourWrites
    NothingFromBeforeTheReload
PROPERTIES
    PageCatchesUp
CHECK_DEADLOCK FALSE

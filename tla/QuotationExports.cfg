\* Exports against edits and approval; decisions reach the log.
SPECIFICATION FairSpec
CONSTANTS
    Leads = {l1}
    Owners = {o1}
    Spaces = {s1}
    InitialSpaces = {s1}
    Entries = {filled, empty}
    InitialEntry = filled
    Blocked = {}
    Discounts = {full, cut}
    Full = full
    None = None
    Operations <- Exporting
    MaxVersion = 2
    MaxRevision = 1
    RequestsMayFail = FALSE
INVARIANTS
    ExportsAreFrozen
PROPERTIES
    DecisionsReachLog

\* Two browsers edit, extend, generate and reopen a draft; requests may die.
SPECIFICATION Spec
CONSTANTS
    Leads = {l1, l2}
    Owners = {}
    Spaces = {s1, s2}
    InitialSpaces = {s1}
    Entries = {filled, empty}
    InitialEntry = filled
    Blocked = {empty}
    Discounts = {full}
    Full = full
    None = None
    Operations <- Editing
    MaxVersion = 2
    MaxRevision = 1
    RequestsMayFail = TRUE
SYMMETRY Symmetry
INVARIANTS
    PricedAsStored
PROPERTIES
    NoLostUpdate

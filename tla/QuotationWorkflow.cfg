\* One browser of the lead designer and one of the owner, up to three versions,
\* each edited once.
SPECIFICATION Spec
CONSTANTS
    Leads = {l1}
    Owners = {o1}
    Spaces = {s1}
    InitialSpaces = {s1}
    Entries = {filled, empty}
    InitialEntry = filled
    Blocked = {empty}
    Discounts = {full, cut}
    Full = full
    None = None
    Operations <- Revising
    MaxVersion = 3
    MaxRevision = 1
    RequestsMayFail = FALSE
INVARIANTS
    TypeOK
    DiscountProvenance
    TransitionsLogged
    CurrentIsNewest
    DecisionKeepsOffer
PROPERTIES
    SnapshotsFrozen
    ImplementsFlow

\* One designer adjusts the spaces while the other works on the draft.
SPECIFICATION FairSpec
CONSTANTS
    c1 = c1
    c2 = c2
    Clients = {c1, c2}
    Spaces = {s1, s2}
    InitialSpaces = {s1}
    Measures = {m1, m2}
    InitialMeasure = m1
    None = None
    Operations <- Sharing
    MaxVersion = 2
    MaxRequests <- TwoAndFour
CHECK_DEADLOCK FALSE
INVARIANTS
    TypeOK
PROPERTIES
    RevisionTellsChange
    UpdateReachesDraft
    GeneratedTotalsFrozen
    RequestsEnd

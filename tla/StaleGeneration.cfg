\* A page of an older version generates the draft of a newer one.
SPECIFICATION Spec
CONSTANTS
    Leads = {l1, l2}
    Owners = {}
    Spaces = {s1}
    InitialSpaces = {s1}
    Entries = {filled}
    InitialEntry = filled
    Blocked = {}
    Discounts = {full}
    Full = full
    None = None
    Operations <- Workflow
    MaxVersion = 2
    MaxRevision = 0
    RequestsMayFail = FALSE
PROPERTIES
    GeneratedFromCurrentPage

\* Two managers upload and publish while a project's quotation is edited.
SPECIFICATION FairSpec
CONSTANTS
    Browsers = {b1, b2}
    f1 = f1
    f2 = f2
    bad = bad
    Files = {f1, f2, bad}
    Workbook <- Contents
    KnownBlankRows = {2}
    Projects = {p1}
    Scopes = {general, room}
    FirstScopes = {general}
    None = None
    RequestsMayFail = TRUE
INVARIANTS
    TypeOK
    BatchesAndVersionsAgree
    PublicationsDoNotCollide
    PricesPinned
PROPERTIES
    RequestsEnd

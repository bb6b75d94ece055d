\* Two requests for a PDF or a workbook of versions with few and with many
\* rows, discounted or not; reads of templates fail and the process restarts.
SPECIFICATION Spec
CONSTANTS
    Requests = {r1, r2}
    Version <- SomeQuotations
    GlyphWidth <- Widths
    None = None
INVARIANTS
    TypeOK
    NothingPricedIsLost
    PagesFollowOneAnother
    FileExplainsPrice
SYMMETRY Symmetry

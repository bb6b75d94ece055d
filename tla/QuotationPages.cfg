\* A designer's and an owner's tab send two requests on two lines, one of
\* them picked from a list, with one discount.
SPECIFICATION FairSpec
CONSTANTS
    Designers = {t1}
    Owners = {t2}
    Lines = {l1, l2}
    Options = {l2}
    Texts = {"priced"}
    Rates = {95, 100}
    FullPrice = 100
    None = None
    MaxRequests = 2
INVARIANTS
    TypeOK
PROPERTIES
    AppliedAsShown
    ShownForward
    ControlsReturn

\* A bedroom and a kitchen are edited, resized and deleted, and the
\* quotation is generated, adjusted, decided and reopened; one decimal.
SPECIFICATION Spec
CONSTANTS
    Scale = 10
    Template <- Items
    bedroom = bedroom
    kitchen = kitchen
    Spaces = {bedroom, kitchen}
    Kind <- SpaceKinds
    Sizes <- SomeSizes
    FirstSize <- Small
    FrameArea = 33
    ManagementRate = 1
    Quantities = {15}
    Touched <- EditedItems
    Discounts <- SomeDiscounts
    None = None
INVARIANTS
    TypeOK
    StoredIsCalculated
    ComparisonExplainsTotal
    OfferIsComplete

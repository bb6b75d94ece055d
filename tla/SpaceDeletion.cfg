\* A space of a draft that kept its discount is deleted;
\* one decimal.
SPECIFICATION Spec
CONSTANTS
    Scale = 10
    Template <- Items
    bedroom = bedroom
    kitchen = kitchen
    Spaces = {bedroom, kitchen}
    Kind <- SpaceKinds
    Sizes <- SomeSizes
    FirstSize <- Small
    FrameArea = 33
    ManagementRate = 1
    Quantities = {15}
    Touched <- EditedItems
    Discounts <- SomeDiscounts
    None = None
INVARIANTS
    DraftSpacesDeletable

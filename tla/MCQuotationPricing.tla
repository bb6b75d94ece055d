------------------------- MODULE MCQuotationPricing -------------------------
EXTENDS QuotationPricing

Entry(section, name, sale, cost) ==
    [section |-> section, name |-> name, sale |-> sale, cost |-> cost]

\* Every rule, prices whose products have to be rounded, and an item that
\* kitchens do not have.
Items ==
    {Entry("WALL", "double partition", 13, 9),
     Entry("WALL", "partition insulation", 7, 5),
     Entry("PAINT", "cabinet paint", 11, 8),
     Entry("BEDROOM", "ceiling base", 15, 12),
     Entry("BEDROOM", "ceiling paint", 9, 4),
     Entry("BEDROOM", "wall base", 6, 7),
     Entry("KITCHEN_BATHROOM", "sunken shower", 21, 20),
     Entry("KITCHEN_BATHROOM", "tiles", 17, 11)}

CONSTANTS bedroom, kitchen

SpaceKinds == [s \in {bedroom, kitchen} |->
                 [type |-> IF s = bedroom THEN "BEDROOM" ELSE "KITCHEN",
                  balcony |-> FALSE]]

Small == [area |-> 13, perimeter |-> 15, height |-> 27]
Large == [area |-> 25, perimeter |-> 21, height |-> 27]
SomeSizes == {Small, Large}

Cut == [rate |-> 9, writeOff |-> 4]
Half == [rate |-> 5, writeOff |-> 0]
SomeDiscounts == {Cut, Half}

EditedItems == {"double partition", "partition insulation", "ceiling base"}
=============================================================================

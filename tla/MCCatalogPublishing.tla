------------------------- MODULE MCCatalogPublishing -------------------------
EXTENDS CatalogPublishing, TLC

CONSTANTS f1, f2, bad

Entry(item, price, remarks) == [item |-> item, price |-> price, remarks |-> remarks]

\* Two workbooks with the same items, one item twice in the second, other
\* prices and remarks, and one that lacks remarks it must have.
Contents ==
    f1 :> [sheet |-> TRUE, headers |-> TRUE,
           rows |-> <<Entry("a", 1, "old"), Entry("b", 1, None)>>]
    @@ f2 :> [sheet |-> TRUE, headers |-> TRUE,
              rows |-> <<Entry("a", 2, "new"), Entry("b", 1, None), Entry("a", 3, "new")>>]
    @@ bad :> [sheet |-> TRUE, headers |-> TRUE,
               rows |-> <<Entry("a", 1, None), Entry("b", 1, None)>>]
=============================================================================

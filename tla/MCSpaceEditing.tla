--------------------------- MODULE MCSpaceEditing ---------------------------
(***************************************************************************)
(* Instances of SpaceEditing for TLC.                                      *)
(***************************************************************************)
EXTENDS SpaceEditing, TLC

CONSTANTS c1, c2

\* One designer adjusts the spaces, the other works on the quotation.
Sharing ==
    (c1 :> {"addSpace", "updateSpace", "deleteSpace"}) @@
    (c2 :> {"deleteSpace", "getOrCreateDraft", "updateLine", "submit",
            "continueEditing"})

Requests(n1, n2) == (c1 :> n1) @@ (c2 :> n2)
TwoAndFour == Requests(2, 4)
TwoEach == Requests(2, 2)

\* Both designers only delete.
Deleting == [c \in {c1, c2} |-> {"deleteSpace"}]
=============================================================================

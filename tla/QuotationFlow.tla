---------------------------- MODULE QuotationFlow ---------------------------
(***************************************************************************)
(* What the quotation of a project looks like from outside: one version at *)
(* a time, in one of five stages, with an offer of lines and a discount.   *)
(* Only a draft is edited; a decision, or going back to editing, makes the *)
(* next version and carries the offer over.  QuotationRefinement shows     *)
(* that the rows and transactions of QuotationLifecycle implement this.    *)
(***************************************************************************)
EXTENDS Naturals

CONSTANTS Lines, NoLines, Discounts, Full

VARIABLES number,     \* of the current version, 0 while there is none
          stage,
          lines,
          discount

vars == <<number, stage, lines, discount>>

Stages == {"none", "draft", "quoted", "pending", "returned", "approved"}

Init ==
    /\ number = 0
    /\ stage = "none"
    /\ lines = NoLines
    /\ discount = Full

Create ==
    /\ stage = "none"
    /\ stage' = "draft"
    /\ number' = 1
    /\ lines' \in Lines
    /\ discount' = Full

Edit ==
    /\ stage = "draft"
    /\ lines' \in Lines
    /\ UNCHANGED <<number, stage, discount>>

Generate ==
    /\ stage = "draft"
    /\ stage' = "quoted"
    /\ UNCHANGED <<number, lines, discount>>

SubmitDiscount ==
    /\ stage = "quoted"
    /\ stage' = "pending"
    /\ discount' \in Discounts
    /\ UNCHANGED <<number, lines>>

\* The owner sets the discount and approves in one go.
Confirm ==
    /\ stage = "quoted"
    /\ stage' = "approved"
    /\ number' = number + 1
    /\ discount' \in Discounts
    /\ UNCHANGED lines

Approve ==
    /\ stage = "pending"
    /\ stage' = "approved"
    /\ number' = number + 1
    /\ UNCHANGED <<lines, discount>>

Return ==
    /\ stage \in {"pending", "approved"}
    /\ stage' = "returned"
    /\ number' = number + 1
    /\ UNCHANGED <<lines, discount>>

\* A returned offer keeps its discount in the new draft, a quoted one loses it.
\* The documented flow has no way from "pending" to here; the code has one
\* (see PendingLeftToOwner of QuotationLifecycle), and the discount is lost.
Continue ==
    /\ stage \in {"quoted", "returned", "pending"}
    /\ stage' = "draft"
    /\ number' = number + 1
    /\ discount' = IF stage = "returned" THEN discount ELSE Full
    /\ UNCHANGED lines

Next ==
    \/ Create \/ Edit \/ Generate \/ SubmitDiscount \/ Confirm
    \/ Approve \/ Return \/ Continue

Spec == Init /\ [][Next]_vars
=============================================================================

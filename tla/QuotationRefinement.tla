------------------------- MODULE QuotationRefinement ------------------------
(***************************************************************************)
(* The mapping under which QuotationLifecycle implements QuotationFlow:    *)
(* the state of the flow is the row of the newest version.                 *)
(***************************************************************************)
EXTENDS QuotationLifecycle

StageOf(r) ==
    CASE r.status = "DRAFT" -> "draft"
      [] r.status = "QUOTED" /\ r.adjustmentStatus = "PENDING_APPROVAL" -> "pending"
      [] r.status = "QUOTED" /\ r.adjustmentStatus # "PENDING_APPROVAL" -> "quoted"
      [] r.status = "RETURNED" -> "returned"
      [] r.status = "APPROVED" -> "approved"
      [] OTHER -> "none"

Newest == IF latest = 0 THEN NoRow ELSE row[latest]

Flow == INSTANCE QuotationFlow WITH
            number <- latest,
            stage <- StageOf(Newest),
            lines <- Newest.lines,
            discount <- Newest.discountRate

\* Every transaction on half_package_quotations is a step of the flow, and
\* every other step of a request leaves the flow alone: in particular no
\* stale, concurrent or failing request makes the offer jump.
ImplementsFlow == Flow!Spec
=============================================================================

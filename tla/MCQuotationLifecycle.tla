----------------------- MODULE MCQuotationLifecycle -------------------------
(***************************************************************************)
(* Instances of QuotationLifecycle for TLC.                                *)
(***************************************************************************)
EXTENDS QuotationRefinement, TLC

\* The requests of the approval workflow, without edits of lines and spaces.
Workflow ==
    {"getOrCreateDraft", "submit", "SUBMIT_FOR_APPROVAL", "CONFIRM",
     "APPROVED", "RETURNED", "continueEditing"}

\* The workflow and the edits of its drafts.
Revising == Workflow \cup {"updateLine"}

\* The same with the exports of the versions.
Exporting == Revising \cup {"createExport"}

\* The requests that change a draft, and those that end and restart it.
Editing ==
    {"getOrCreateDraft", "updateLine", "addSpace", "submit", "continueEditing"}

\* Browsers of one role are interchangeable.
Symmetry == Permutations(Leads) \cup Permutations(Owners)
=============================================================================

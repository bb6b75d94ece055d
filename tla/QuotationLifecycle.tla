------------------------- MODULE QuotationLifecycle -------------------------
(***************************************************************************)
(* The half-package quotation of one project: its versions in PostgreSQL,  *)
(* and the HTTP requests that read and write them.                         *)
(*                                                                         *)
(* A request of the API is a sequence of database round trips.  Between    *)
(* two of them any other request may run: the service (QuotationService)   *)
(* reads a version and checks it, and only later opens the transaction of  *)
(* the repository (PgQuotationRepository) that writes.  Each transaction   *)
(* of the repository takes the row lock of the quotation (or project) it   *)
(* works on in its first statement, so that it is one step here.  After    *)
(* the COMMIT the repository reloads the version and the service appends   *)
(* an audit event on a connection of its own; the two are one step,        *)
(* Finish..., because only the page returned depends on the reload.        *)
(*                                                                         *)
(* A request the first check of its handler refuses writes nothing; it is  *)
(* not a step.                                                             *)
(*                                                                         *)
(* Two writers of lines are not here: updateSpace (SpaceEditing) and the   *)
(* remarks of a publication (CatalogPublishing).  Begun while a version is *)
(* a draft they may still change its lines after it was generated, so what *)
(* is said of lines below is said of the requests of this module.          *)
(***************************************************************************)
EXTENDS Integers, FiniteSets

CONSTANTS
    Leads,            \* browsers of the project's LEAD_DESIGNER
    Owners,           \* browsers of OWNER and ADMIN accounts
    Spaces,           \* the spaces the project may have
    InitialSpaces,    \* those it was created with
    Entries,          \* what the lines of one space may hold
    InitialEntry,     \* what buildScope puts there
    Blocked,          \* the entries with a selected line that has no quantity
    Discounts,        \* discount and write-off of a version, together
    Full,             \* discount 1.0000 and write-off 0.0000
    None,             \* no space, no entry, no discount
    Operations,       \* the operations the browsers use
    MaxVersion,       \* bound: no request is sent that could exceed it
    MaxRevision,      \* bound: no line is edited at this revision
    RequestsMayFail   \* whether a request may die between two round trips

Clients == Leads \cup Owners

AllOperations ==
    {"getOrCreateDraft", "updateLine", "submit", "SUBMIT_FOR_APPROVAL",
     "CONFIRM", "APPROVED", "RETURNED", "continueEditing", "createExport",
     "addSpace"}

ASSUME ConstantsAssumption ==
    /\ Leads \cap Owners = {}
    /\ InitialSpaces \subseteq Spaces /\ InitialSpaces # {}
    /\ Blocked \subseteq Entries
    /\ InitialEntry \in Entries \ Blocked
    /\ Full \in Discounts
    /\ None \notin Entries \cup Spaces \cup Discounts
    /\ Operations \subseteq AllOperations
    /\ MaxVersion \in Nat \ {0} /\ MaxRevision \in Nat
    /\ RequestsMayFail \in BOOLEAN

VARIABLES
    spaces,      \* project_spaces that are not deleted
    row,         \* half_package_quotations with their lines, by row id
    latest,      \* how many rows exist; ids are taken in insertion order
    decisions,   \* half_package_approval_decisions
    audit,       \* audit_events about quotation versions
    exports,     \* half_package_exports
    page,        \* the version and revision a browser shows
    req          \* the request a browser waits for

vars == <<spaces, row, latest, decisions, audit, exports, page, req>>
database == <<spaces, row, latest, decisions, audit, exports>>

Ids == 1..MaxVersion

Statuses == {"DRAFT", "QUOTED", "RETURNED", "APPROVED"}
AdjustmentStatuses == {"AWAITING_SUBMISSION", "PENDING_APPROVAL", "CONFIRMED"}

Lines == [Spaces -> Entries \cup {None}]
NoLines == [s \in Spaces |-> None]

\* "lines" are the line items of the version, space by space; None where the
\* version has no scope for the space.  "priced" are the lines from which the
\* totals in the header were calculated.
Row ==
    [status           : Statuses \cup {"NONE"},
     adjustmentStatus : AdjustmentStatuses,
     isCurrent        : BOOLEAN,
     versionNumber    : Nat,
     parentVersionId  : Ids \cup {0},
     revision         : Nat,
     lines            : Lines,
     priced           : Lines,
     discountRate     : Discounts]

\* A row id that no INSERT has used yet.
NoRow ==
    [status |-> "NONE", adjustmentStatus |-> "AWAITING_SUBMISSION",
     isCurrent |-> FALSE, versionNumber |-> 0, parentVersionId |-> 0,
     revision |-> 0, lines |-> NoLines, priced |-> NoLines,
     discountRate |-> Full]

Phases == {"idle", "findDraft", "findLatest", "probe", "write", "finish", "error"}

Request ==
    [op               : AllOperations \cup {"none", "addMissingProjectScopes"},
     phase            : Phases,
     target           : Ids \cup {0},
     expectedRevision : Nat,
     knownSpaces      : SUBSET Spaces,
     space            : Spaces \cup {None},
     lines            : Lines,
     discountRate     : Discounts \cup {None}]

NoRequest ==
    [op |-> "none", phase |-> "idle", target |-> 0, expectedRevision |-> 0,
     knownSpaces |-> {}, space |-> None, lines |-> NoLines,
     discountRate |-> None]

Actions ==
    {"QUOTATION_DRAFT_CREATED", "QUOTATION_SCOPES_SYNCED",
     "QUOTATION_LINE_UPDATED", "QUOTATION_GENERATED",
     "QUOTATION_ADJUSTMENT_SUBMITTED", "QUOTATION_ADJUSTMENT_CONFIRMED",
     "QUOTATION_RETURNED", "QUOTATION_APPROVED",
     "QUOTATION_EDITING_CONTINUED", "QUOTATION_EXPORTED"}

Decision == [action : {"QUOTED", "APPROVED", "RETURNED"},
             quotation : Ids, actor : Clients]

Export == [quotation : Ids, lines : Lines, discountRate : Discounts]

TypeOK ==
    /\ spaces \subseteq Spaces
    /\ row \in [Ids -> Row]
    /\ latest \in 0..MaxVersion
    /\ decisions \subseteq Decision
    /\ audit \subseteq [action : Actions, target : Ids]
    /\ exports \subseteq Export
    /\ page \in [Clients -> [id : Ids \cup {0}, revision : Nat]]
    /\ req \in [Clients -> Request]

Init ==
    /\ spaces = InitialSpaces
    /\ row = [id \in Ids |-> NoRow]
    /\ latest = 0
    /\ decisions = {}
    /\ audit = {}
    /\ exports = {}
    /\ page = [c \in Clients |-> [id |-> 0, revision |-> 0]]
    /\ req = [c \in Clients |-> NoRequest]

-----------------------------------------------------------------------------
(***************************************************************************)
(* What the SQL of the repository and the checks of the service say of a   *)
(* row.                                                                    *)
(***************************************************************************)

\* The rows findDraft and findLatest select; the unique index on is_current
\* allows one at most, CurrentIsNewest says that it never has to refuse one.
CurrentRows == {id \in Ids : row[id].isCurrent}
DraftRows == {id \in CurrentRows : row[id].status = "DRAFT"}

\* Mutant of IsDraftAt: the save does not compare the revision.
AnyRevisionIsDraftAt(id, revision) ==
    /\ row[id].status = "DRAFT"
    /\ row[id].isCurrent

\* WHERE status = 'DRAFT' AND is_current AND revision = expected
IsDraftAt(id, revision) ==
    /\ row[id].status = "DRAFT"
    /\ row[id].isCurrent
    /\ row[id].revision = revision

\* Mutant of IsAdjustableAt: a superseded version passes.
SupersededIsAdjustableAt(id, revision) ==
    /\ row[id].status = "QUOTED"
    /\ row[id].adjustmentStatus = "AWAITING_SUBMISSION"
    /\ row[id].revision = revision

\* WHERE status = 'QUOTED' AND is_current
\*   AND adjustment_status = 'AWAITING_SUBMISSION' AND revision = expected
IsAdjustableAt(id, revision) ==
    /\ row[id].status = "QUOTED"
    /\ row[id].isCurrent
    /\ row[id].adjustmentStatus = "AWAITING_SUBMISSION"
    /\ row[id].revision = revision

\* Mutant of IsDecidable: any quoted version can be decided on.
AnyQuotedIsDecidable(id, action) ==
    /\ row[id].isCurrent
    /\ row[id].status = "QUOTED" \/ (row[id].status = "APPROVED" /\ action = "RETURNED")

\* A decision without adjustment: a pending discount, or taking back an
\* approval.
IsDecidable(id, action) ==
    /\ row[id].isCurrent
    /\ \/ /\ row[id].status = "QUOTED"
          /\ row[id].adjustmentStatus = "PENDING_APPROVAL"
       \/ /\ row[id].status = "APPROVED"
          /\ action = "RETURNED"

\* Mutant of IsExportable: a draft can be exported.
DraftIsExportable(r) ==
    /\ r.isCurrent
    /\ \/ r.status \in {"DRAFT", "QUOTED"} /\ r.adjustmentStatus = "AWAITING_SUBMISSION"
       \/ r.status = "APPROVED" /\ r.adjustmentStatus = "CONFIRMED"

IsExportable(r) ==
    /\ r.isCurrent
    /\ \/ r.status = "QUOTED" /\ r.adjustmentStatus = "AWAITING_SUBMISSION"
       \/ r.status = "APPROVED" /\ r.adjustmentStatus = "CONFIRMED"

\* The service's test in continueEditing; the lock in the repository asks for
\* less (ContinueEditing below).
MayContinue(r) ==
    /\ r.isCurrent
    /\ r.status \in {"QUOTED", "RETURNED"}
    /\ ~(r.status = "QUOTED" /\ r.adjustmentStatus = "PENDING_APPROVAL")

\* Mutant of IsContinuable: the lock does not ask for the current version.
SupersededIsContinuable(id) == row[id].status \in {"QUOTED", "RETURNED"}

IsContinuable(id) == row[id].isCurrent /\ row[id].status \in {"QUOTED", "RETURNED"}

\* submissionCheck: no selected line lacks a quantity.
HasBlockers(lines) == \E s \in Spaces : lines[s] \in Blocked

Quoted(lines) == {s \in Spaces : lines[s] # None}

\* buildDraft and buildScope: the given spaces at their initial entry.
WithScopes(lines, added) ==
    [s \in Spaces |-> IF s \in added THEN InitialEntry ELSE lines[s]]

\* Mutant of Cloned: the discount is always inherited.
ClonedWithDiscount(id, preserveAdjustment) ==
    [row[id] EXCEPT
        !.status = "DRAFT",
        !.adjustmentStatus = IF preserveAdjustment THEN @
                             ELSE "AWAITING_SUBMISSION",
        !.isCurrent = TRUE, !.versionNumber = @ + 1, !.parentVersionId = id,
        !.revision = 0]

\* cloneAsVersion: a new draft row made from row id.
Cloned(id, preserveAdjustment) ==
    [row[id] EXCEPT
        !.status = "DRAFT",
        !.adjustmentStatus = IF preserveAdjustment THEN @
                             ELSE "AWAITING_SUBMISSION",
        !.isCurrent = TRUE,
        !.versionNumber = @ + 1,
        !.parentVersionId = id,
        !.revision = 0,
        !.discountRate = IF preserveAdjustment THEN @ ELSE Full]

\* The row id a clone or a first draft gets.
NextId == latest + 1

\* UPDATE ... SET is_current = false on row id, then INSERT of its successor.
Superseded(id, successor) ==
    [row EXCEPT ![id].isCurrent = FALSE, ![NextId] = successor]

-----------------------------------------------------------------------------
(***************************************************************************)
(* Requests.                                                               *)
(***************************************************************************)
Sending(c, operation) ==
    /\ req[c].phase = "idle"
    /\ operation \in Operations

Waiting(c, operation, phase) ==
    /\ req[c].op = operation
    /\ req[c].phase = phase

\* The handler has read all it checks and is about to open its transaction.
Checked(c, request) == req' = [req EXCEPT ![c] = request]

\* Mutant of Committed: the request is answered without its audit event.
CommittedWithoutAudit(c) == req' = [req EXCEPT ![c] = NoRequest]

\* The transaction has committed: the request moves on to reload and audit.
Committed(c) == req' = [req EXCEPT ![c].phase = "finish"]

\* The request is answered without a page: a conflict, or the end of one that
\* returns no version.
Answered(c) == req' = [req EXCEPT ![c] = NoRequest]

\* An error no handler expects; the browser gets status 500.
Broken(c) == req' = [req EXCEPT ![c].phase = "error"]

\* The browser shows version id as it is now.
Shown(c, id) ==
    page' = [page EXCEPT ![c] = [id |-> id, revision |-> row[id].revision]]

\* An audit event about version id. The event of a line edit names the line and
\* the event of an export names the export: both stand here under their version.
Audited(action, id) ==
    audit' = audit \cup {[action |-> action, target |-> id]}

\* Mutant of Decided: the operation of the request is recorded as the action.
DecidedAsRequested(c, action, id) ==
    decisions' = decisions \cup
        {[action |-> req[c].op, quotation |-> id, actor |-> c]}

Decided(c, action, id) ==
    decisions' = decisions \cup
        {[action |-> action, quotation |-> id, actor |-> c]}

\* GET of a version page or of the approval list: the newest version is shown.
ViewVersion(c) ==
    /\ req[c].phase = "idle"
    /\ \E id \in CurrentRows : Shown(c, id)
    /\ UNCHANGED <<database, req>>

-----------------------------------------------------------------------------
(* getOrCreateDraft: project, draft, latest version, then one transaction. *)

GetProject(c) ==
    /\ Sending(c, "getOrCreateDraft")
    /\ Checked(c, [NoRequest EXCEPT !.op = "getOrCreateDraft",
                                    !.phase = "findDraft",
                                    !.knownSpaces = spaces])
    /\ UNCHANGED <<database, page>>

\* A draft that has all the spaces the request knows of is shown; the others
\* are to be added to it (addMissingProjectScopes).
FindDraft(c) ==
    /\ Waiting(c, "getOrCreateDraft", "findDraft")
    /\ \/ \E id \in DraftRows :
             IF req[c].knownSpaces \subseteq Quoted(row[id].lines)
             THEN Answered(c) /\ Shown(c, id)
             ELSE /\ Checked(c, [req[c] EXCEPT
                                    !.op = "addMissingProjectScopes",
                                    !.phase = "write",
                                    !.target = id,
                                    !.expectedRevision = row[id].revision,
                                    !.lines = row[id].lines])
                  /\ UNCHANGED page
       \/ /\ DraftRows = {}
          /\ Checked(c, [req[c] EXCEPT !.phase = "findLatest"])
          /\ UNCHANGED page
    /\ UNCHANGED database

FindLatest(c) ==
    /\ Waiting(c, "getOrCreateDraft", "findLatest")
    /\ \/ \E id \in CurrentRows : Answered(c) /\ Shown(c, id)
       \/ /\ CurrentRows = {}
          /\ Checked(c, [req[c] EXCEPT !.phase = "write"])
          /\ UNCHANGED page
    /\ UNCHANGED database

\* The transaction holds the row lock of the project, so that the second of
\* two first requests finds the draft of the first.
CreateDraft(c) ==
    /\ Waiting(c, "getOrCreateDraft", "write")
    /\ IF CurrentRows # {}
       THEN Committed(c) /\ UNCHANGED <<row, latest>>
       ELSE LET lines == WithScopes(NoLines, req[c].knownSpaces)
            IN  /\ row' = [row EXCEPT ![NextId] =
                      [NoRow EXCEPT !.status = "DRAFT", !.isCurrent = TRUE,
                                    !.versionNumber = 1,
                                    !.lines = lines, !.priced = lines]]
                /\ latest' = NextId
                /\ req' = [req EXCEPT ![c].phase = "finish",
                                      ![c].target = NextId]
    /\ UNCHANGED <<spaces, decisions, audit, exports, page>>

\* Only the added scopes are inserted; the totals are those of the draft the
\* request read, with the added scopes.
AddDraftScopes(c) ==
    LET id == req[c].target
        added == req[c].knownSpaces \ Quoted(req[c].lines)
    IN  /\ Waiting(c, "addMissingProjectScopes", "write")
        /\ IF IsDraftAt(id, req[c].expectedRevision)
           THEN /\ row' = [row EXCEPT
                      ![id].lines = WithScopes(@, added),
                      ![id].priced = WithScopes(req[c].lines, added),
                      ![id].revision = req[c].expectedRevision + 1]
                /\ Committed(c)
           ELSE Answered(c) /\ UNCHANGED row
        /\ UNCHANGED <<spaces, latest, decisions, audit, exports, page>>

\* Both writers reload with findDraft, which finds nothing once another request
\* has generated the quotation: the answer is an error and nothing is audited.
FinishDraft(c) ==
    /\ \/ Waiting(c, "getOrCreateDraft", "finish")
       \/ Waiting(c, "addMissingProjectScopes", "finish")
    /\ \/ \E id \in DraftRows :
             /\ IF req[c].op = "addMissingProjectScopes"
                THEN Audited("QUOTATION_SCOPES_SYNCED", id)
                ELSE IF id = req[c].target
                     THEN Audited("QUOTATION_DRAFT_CREATED", id)
                     ELSE UNCHANGED audit
             /\ Shown(c, id)
             /\ Answered(c)
       \/ /\ DraftRows = {}
          /\ Broken(c)
          /\ UNCHANGED <<audit, page>>
    /\ UNCHANGED <<spaces, row, latest, decisions, exports>>

-----------------------------------------------------------------------------
(* updateLine: the draft is read, changed, and written back as a whole.    *)

\* The line belongs to one version, the one the page shows: the handler finds
\* it only while that version is the draft.
ReadLine(c) ==
    /\ Sending(c, "updateLine")
    /\ page[c].revision < MaxRevision
    /\ \E id \in DraftRows, s \in Spaces, entry \in Entries :
          /\ page[c].id = id
          /\ row[id].lines[s] # None
          /\ Checked(c, [NoRequest EXCEPT
                 !.op = "updateLine", !.phase = "write", !.target = id,
                 !.expectedRevision = page[c].revision, !.space = s,
                 !.lines = [row[id].lines EXCEPT ![s] = entry]])
    /\ UNCHANGED <<database, page>>

SaveDraft(c) ==
    LET id == req[c].target
    IN  /\ Waiting(c, "updateLine", "write")
        /\ IF IsDraftAt(id, req[c].expectedRevision)
           THEN /\ row' = [row EXCEPT
                      ![id].lines = req[c].lines,
                      ![id].priced = req[c].lines,
                      ![id].revision = req[c].expectedRevision + 1]
                /\ Committed(c)
           ELSE Answered(c) /\ UNCHANGED row
        /\ UNCHANGED <<spaces, latest, decisions, audit, exports, page>>

\* The reload is findDraft again.
FinishLine(c) ==
    /\ Waiting(c, "updateLine", "finish")
    /\ \/ \E id \in DraftRows :
             /\ Audited("QUOTATION_LINE_UPDATED", req[c].target)
             /\ Shown(c, id)
             /\ Answered(c)
       \/ /\ DraftRows = {}
          /\ Broken(c)
          /\ UNCHANGED <<audit, page>>
    /\ UNCHANGED <<spaces, row, latest, decisions, exports>>

-----------------------------------------------------------------------------
(* submit: the request names the project and a revision, not the version.  *)

ReadForSubmit(c) ==
    /\ Sending(c, "submit")
    /\ page[c].id # 0
    /\ \E id \in DraftRows :
          /\ ~HasBlockers(row[id].lines)
          /\ Checked(c, [NoRequest EXCEPT
                 !.op = "submit", !.phase = "write", !.target = id,
                 !.expectedRevision = page[c].revision])
    /\ UNCHANGED <<database, page>>

SubmitDraft(c) ==
    LET id == req[c].target
    IN  /\ Waiting(c, "submit", "write")
        /\ IF IsDraftAt(id, req[c].expectedRevision)
           THEN /\ row' = [row EXCEPT ![id].status = "QUOTED"]
                /\ Decided(c, "QUOTED", id)
                /\ Committed(c)
           ELSE Answered(c) /\ UNCHANGED <<row, decisions>>
        /\ UNCHANGED <<spaces, latest, audit, exports, page>>

-----------------------------------------------------------------------------
(* updateAdjustment: a lead designer submits discount and write-off for    *)
(* approval, an owner confirms them, which approves the quotation.         *)

ReadForAdjustment(c) ==
    /\ \/ Sending(c, "SUBMIT_FOR_APPROVAL") /\ c \in Leads
       \/ Sending(c, "CONFIRM") /\ c \in Owners /\ page[c].id < MaxVersion
    /\ \E id \in CurrentRows, discount \in Discounts :
          /\ page[c].id = id
          /\ row[id].status = "QUOTED"
          /\ row[id].adjustmentStatus = "AWAITING_SUBMISSION"
          /\ Checked(c, [NoRequest EXCEPT
                 !.op = IF c \in Leads THEN "SUBMIT_FOR_APPROVAL" ELSE "CONFIRM",
                 !.phase = "write", !.target = id,
                 !.expectedRevision = page[c].revision,
                 !.discountRate = discount])
    /\ UNCHANGED <<database, page>>

SaveAdjustment(c) ==
    LET id == req[c].target
    IN  /\ Waiting(c, "SUBMIT_FOR_APPROVAL", "write")
        /\ IF IsAdjustableAt(id, req[c].expectedRevision)
           THEN /\ row' = [row EXCEPT
                      ![id].discountRate = req[c].discountRate,
                      ![id].adjustmentStatus = "PENDING_APPROVAL",
                      ![id].revision = @ + 1]
                /\ Committed(c)
           ELSE Answered(c) /\ UNCHANGED row
        /\ UNCHANGED <<spaces, latest, decisions, audit, exports, page>>

\* repository.decide with an adjustment: the quoted row is adjusted, superseded
\* by a copy, and the copy approved.
ConfirmAdjustment(c) ==
    LET id == req[c].target
    IN  /\ Waiting(c, "CONFIRM", "write")
        /\ IF IsAdjustableAt(id, req[c].expectedRevision)
           THEN LET approved ==
                      [Cloned(id, TRUE) EXCEPT
                          !.status = "APPROVED",
                          !.adjustmentStatus = "CONFIRMED",
                          !.discountRate = req[c].discountRate]
                IN  /\ row' = [Superseded(id, approved) EXCEPT
                          ![id].adjustmentStatus = "CONFIRMED",
                          ![id].discountRate = req[c].discountRate,
                          ![id].revision = @ + 1]
                    /\ latest' = NextId
                    /\ Decided(c, "APPROVED", NextId)
                    /\ req' = [req EXCEPT ![c].phase = "finish",
                                          ![c].target = NextId]
           ELSE Answered(c) /\ UNCHANGED <<row, latest, decisions>>
        /\ UNCHANGED <<spaces, audit, exports, page>>

-----------------------------------------------------------------------------
(* decide: an owner approves or returns; either way a new version is made. *)

ReadForDecision(c) ==
    /\ c \in Owners
    /\ page[c].id < MaxVersion
    /\ \E id \in CurrentRows, action \in {"APPROVED", "RETURNED"} :
          /\ Sending(c, action)
          /\ page[c].id = id
          /\ IsDecidable(id, action)
          /\ Checked(c, [NoRequest EXCEPT
                 !.op = action, !.phase = "write", !.target = id])
    /\ UNCHANGED <<database, page>>

Decide(c) ==
    LET id == req[c].target
        action == req[c].op
        decided ==
            [Cloned(id, TRUE) EXCEPT
                !.status = action,
                !.adjustmentStatus = IF action = "RETURNED"
                                     THEN "AWAITING_SUBMISSION"
                                     ELSE "CONFIRMED"]
    IN  /\ req[c].phase = "write"
        /\ action \in {"APPROVED", "RETURNED"}
        /\ IF IsDecidable(id, action)
           THEN /\ row' = Superseded(id, decided)
                /\ latest' = NextId
                /\ Decided(c, action, NextId)
                /\ req' = [req EXCEPT ![c].phase = "finish",
                                      ![c].target = NextId]
           ELSE Answered(c) /\ UNCHANGED <<row, latest, decisions>>
        /\ UNCHANGED <<spaces, audit, exports, page>>

-----------------------------------------------------------------------------
(* continueEditing: the service checks, looks for a draft, then clones.    *)

ReadForEditing(c) ==
    /\ Sending(c, "continueEditing")
    /\ page[c].id < MaxVersion
    /\ \E id \in CurrentRows :
          /\ page[c].id = id
          /\ MayContinue(row[id])
          /\ Checked(c, [NoRequest EXCEPT !.op = "continueEditing",
                                          !.phase = "probe", !.target = id])
    /\ UNCHANGED <<database, page>>

ProbeDraft(c) ==
    /\ Waiting(c, "continueEditing", "probe")
    /\ IF DraftRows = {}
       THEN Checked(c, [req[c] EXCEPT !.phase = "write"])
       ELSE Answered(c)
    /\ UNCHANGED <<database, page>>

\* The row lock asks for a current QUOTED or RETURNED version, whatever its
\* adjustment_status; the service does not translate the conflict.
ContinueEditing(c) ==
    LET id == req[c].target
    IN  /\ Waiting(c, "continueEditing", "write")
        /\ IF IsContinuable(id)
           THEN /\ row' = Superseded(id, Cloned(id, row[id].status = "RETURNED"))
                /\ latest' = NextId
                /\ req' = [req EXCEPT ![c].phase = "finish",
                                      ![c].target = NextId]
           ELSE Broken(c) /\ UNCHANGED <<row, latest>>
        /\ UNCHANGED <<spaces, decisions, audit, exports, page>>

-----------------------------------------------------------------------------
(* The end of the requests that reload their version by id.                *)

\* Mutant of AuditAction: a confirmation is logged as a submission.
AuditActionOfSubmission ==
    [submit |-> "QUOTATION_GENERATED",
     SUBMIT_FOR_APPROVAL |-> "QUOTATION_ADJUSTMENT_SUBMITTED",
     CONFIRM |-> "QUOTATION_ADJUSTMENT_SUBMITTED",
     APPROVED |-> "QUOTATION_APPROVED",
     RETURNED |-> "QUOTATION_RETURNED",
     continueEditing |-> "QUOTATION_EDITING_CONTINUED"]

AuditAction ==
    [submit |-> "QUOTATION_GENERATED",
     SUBMIT_FOR_APPROVAL |-> "QUOTATION_ADJUSTMENT_SUBMITTED",
     CONFIRM |-> "QUOTATION_ADJUSTMENT_CONFIRMED",
     APPROVED |-> "QUOTATION_APPROVED",
     RETURNED |-> "QUOTATION_RETURNED",
     continueEditing |-> "QUOTATION_EDITING_CONTINUED"]

FinishVersion(c) ==
    /\ req[c].phase = "finish"
    /\ req[c].op \in DOMAIN AuditAction
    /\ Audited(AuditAction[req[c].op], req[c].target)
    /\ Shown(c, req[c].target)
    /\ Answered(c)
    /\ UNCHANGED <<spaces, row, latest, decisions, exports>>

-----------------------------------------------------------------------------
(* createExport: the file is generated between the check and the insert.   *)

ReadForExport(c) ==
    /\ Sending(c, "createExport")
    /\ \E id \in CurrentRows :
          /\ page[c].id = id
          /\ IsExportable(row[id])
          /\ Checked(c, [NoRequest EXCEPT
                 !.op = "createExport", !.phase = "write", !.target = id,
                 !.lines = row[id].lines,
                 !.discountRate = row[id].discountRate])
    /\ UNCHANGED <<database, page>>

CreateExport(c) ==
    /\ Waiting(c, "createExport", "write")
    /\ exports' = exports \cup
          {[quotation |-> req[c].target, lines |-> req[c].lines,
            discountRate |-> req[c].discountRate]}
    /\ Committed(c)
    /\ UNCHANGED <<spaces, row, latest, decisions, audit, page>>

FinishExport(c) ==
    /\ Waiting(c, "createExport", "finish")
    /\ Audited("QUOTATION_EXPORTED", req[c].target)
    /\ Answered(c)
    /\ UNCHANGED <<spaces, row, latest, decisions, exports, page>>

-----------------------------------------------------------------------------
(* addSpace of ProjectsService: the only writer of project_spaces here.    *)
(* Its audit event is about a space and not kept in audit.                 *)

ReadForSpace(c) ==
    /\ Sending(c, "addSpace")
    /\ \A id \in CurrentRows : row[id].status = "DRAFT"
    /\ \E s \in Spaces \ spaces :
          Checked(c, [NoRequest EXCEPT !.op = "addSpace", !.phase = "write",
                                       !.knownSpaces = spaces, !.space = s])
    /\ UNCHANGED <<database, page>>

\* The sort order of the new space is the number of spaces read; the unique
\* index refuses it when another space was added in between.
AddSpace(c) ==
    /\ Waiting(c, "addSpace", "write")
    /\ spaces' = IF spaces = req[c].knownSpaces
                 THEN spaces \cup {req[c].space} ELSE spaces
    /\ Answered(c)
    /\ UNCHANGED <<row, latest, decisions, audit, exports, page>>

-----------------------------------------------------------------------------
\* Status 500 reaches the browser; its page stays as it was.
ReportError(c) ==
    /\ req[c].phase = "error"
    /\ Answered(c)
    /\ UNCHANGED <<database, page>>

\* The API process or the connection dies between two round trips; what the
\* request has committed stays.
Fail(c) ==
    /\ RequestsMayFail
    /\ req[c].phase # "idle"
    /\ Answered(c)
    /\ UNCHANGED <<database, page>>

\* What the server does once a request has come in.
Serve(c) ==
    \/ FindDraft(c) \/ FindLatest(c) \/ CreateDraft(c) \/ AddDraftScopes(c)
    \/ FinishDraft(c)
    \/ SaveDraft(c) \/ FinishLine(c)
    \/ SubmitDraft(c) \/ SaveAdjustment(c) \/ ConfirmAdjustment(c)
    \/ Decide(c) \/ ProbeDraft(c) \/ ContinueEditing(c) \/ FinishVersion(c)
    \/ CreateExport(c) \/ FinishExport(c)
    \/ AddSpace(c)
    \/ ReportError(c)

\* What a user does: look, and send a request.
Browse(c) ==
    \/ ViewVersion(c) \/ GetProject(c) \/ ReadLine(c) \/ ReadForSubmit(c)
    \/ ReadForAdjustment(c) \/ ReadForDecision(c) \/ ReadForEditing(c)
    \/ ReadForExport(c) \/ ReadForSpace(c)

Next == \E c \in Clients : Browse(c) \/ Serve(c) \/ Fail(c)

Spec == Init /\ [][Next]_vars

\* The server goes on with a request it has accepted; users need not act.
FairSpec == Spec /\ \A c \in Clients : WF_vars(Serve(c))

-----------------------------------------------------------------------------
(***************************************************************************)
(* Properties that hold.                                                   *)
(***************************************************************************)
Made == {id \in Ids : row[id].status # "NONE"}

\* The versions of a project form one chain: numbered 1, 2, 3... in the order
\* they were made, each the child of the one before, and the newest is the
\* only current one.  No unique index of half_package_quotations ever has to
\* refuse a row, whatever the interleaving of createDraft, decide and
\* continueEditing.
CurrentIsNewest ==
    /\ Made = 1..latest
    /\ \A id \in Made : /\ row[id].versionNumber = id
                        /\ row[id].parentVersionId = id - 1
                        /\ row[id].isCurrent <=> id = latest

\* The stage of a version: only the newest version can be a draft, a draft has
\* no discount under way, a discount waits for approval on a quoted version
\* only, and "approved" and "confirmed" go together, but for the quoted version
\* that a confirmation has superseded.
StageShape ==
    \A id \in Made :
        /\ row[id].status = "DRAFT" => row[id].isCurrent
        /\ row[id].status \in {"DRAFT", "RETURNED"} =>
              row[id].adjustmentStatus = "AWAITING_SUBMISSION"
        /\ row[id].status = "APPROVED" => row[id].adjustmentStatus = "CONFIRMED"
        /\ row[id].status = "QUOTED" /\ row[id].adjustmentStatus = "CONFIRMED" =>
              ~row[id].isCurrent

\* What is approved or returned is the offer that was quoted: the same lines,
\* the same discount, from the version right before it, and nobody decided
\* on an offer whose discount was still open.  Said of the transactions of
\* QuotationService: an updateSpace that was under way at the generation may
\* change either version's lines (GeneratedScopesFrozen of SpaceEditing).
DecisionKeepsOffer ==
    \A id \in Made :
        row[id].status \in {"APPROVED", "RETURNED"} =>
            LET source == row[id - 1]
            IN  /\ source.lines = row[id].lines
                /\ source.discountRate = row[id].discountRate
                /\ ~source.isCurrent
                /\ \/ /\ source.status = "QUOTED"
                      /\ source.adjustmentStatus \in
                             {"PENDING_APPROVAL", "CONFIRMED"}
                   \/ /\ source.status = "APPROVED"
                      /\ row[id].status = "RETURNED"

\* A discount on a version nobody has decided on is either waiting for the
\* owner or inherited from the version the owner returned: cloneAsVersion
\* resets the discount in every other case.
DiscountProvenance ==
    \A id \in Made :
        (/\ row[id].status \in {"DRAFT", "QUOTED"}
         /\ row[id].adjustmentStatus = "AWAITING_SUBMISSION"
         /\ row[id].discountRate # Full) =>
            /\ id > 1
            /\ row[id - 1].status = "RETURNED"
            /\ row[id - 1].discountRate = row[id].discountRate

\* The totals in the header are those of the stored lines, although saveDraft
\* and addDraftScopes write totals calculated from an earlier read.  Said of
\* these two: updateSpace and deleteSpace calculate in SQL (QuotationPricing),
\* and an updateSpace that meets the generation leaves lines that have no
\* part in the totals (SpaceEditing).
PricedAsStored == \A id \in Made : row[id].priced = row[id].lines

\* Without failures, every transition of a version is in the audit log, or the
\* request that made it is about to write it.
Underway(operations, id) ==
    \E c \in Clients : /\ req[c].op \in operations
                       /\ req[c].phase = "finish"
                       /\ req[c].target = id

Logged(actions, id) == \E a \in actions : [action |-> a, target |-> id] \in audit

TransitionsLogged ==
    /\ \A d \in decisions :
          \/ Logged({"QUOTATION_GENERATED"}, d.quotation)
             /\ d.action = "QUOTED"
          \/ Logged({"QUOTATION_APPROVED", "QUOTATION_ADJUSTMENT_CONFIRMED",
                     "QUOTATION_RETURNED"}, d.quotation)
             /\ d.action # "QUOTED"
          \/ Underway({"submit", "APPROVED", "RETURNED", "CONFIRM"}, d.quotation)
    /\ \A id \in Made :
          /\ row[id].adjustmentStatus = "PENDING_APPROVAL" =>
                \/ Logged({"QUOTATION_ADJUSTMENT_SUBMITTED"}, id)
                \/ Underway({"SUBMIT_FOR_APPROVAL"}, id)
          /\ row[id].status \in {"DRAFT", "QUOTED"} /\ id > 1 =>
                \/ Logged({"QUOTATION_EDITING_CONTINUED"}, id)
                \/ Underway({"continueEditing"}, id)

\* An exported file shows the lines its version has, which no request of this
\* module changes any more, and of an approved version the discount that was
\* approved.  Lines can still be changed by an updateSpace that was under way
\* at the generation (GeneratedScopesFrozen), remarks by a publication
\* (QuotedLinesFrozen of CatalogPublishing).
ExportsAreFrozen ==
    \A x \in exports :
        /\ row[x.quotation].status \in {"QUOTED", "APPROVED"}
        /\ x.lines = row[x.quotation].lines
        /\ row[x.quotation].status = "APPROVED" =>
              x.discountRate = row[x.quotation].discountRate

\* A version that left the draft stage never changes again, but for its
\* discount, opened or confirmed once and while the version is current, and for
\* being superseded: the transactions of saveDraft, saveAdjustment, decide and
\* continueEditing never reach a version they should not, whoever came first.
\* Those of updateSpace and of publications may; they are not in this module.
KeepsSnapshots ==
    \A id \in Made : row[id].status # "DRAFT" =>
        /\ row'[id].status = row[id].status
        /\ row'[id].lines = row[id].lines
        /\ row'[id].priced = row[id].priced
        /\ row'[id].isCurrent => row[id].isCurrent
        /\ \/ /\ row'[id].discountRate = row[id].discountRate
              /\ row'[id].adjustmentStatus = row[id].adjustmentStatus
           \/ /\ row[id].isCurrent
              /\ row[id].adjustmentStatus = "AWAITING_SUBMISSION"
              /\ row'[id].adjustmentStatus # "AWAITING_SUBMISSION"

SnapshotsFrozen == [][KeepsSnapshots]_vars

\* No lost update: lines of a draft change only under a save of that very
\* space, by a browser that shows this version at this revision, or when the
\* scopes of a new space are added.
NoLostUpdate ==
    [][\A id \in Made, s \in Spaces :
          row'[id].lines[s] # row[id].lines[s] =>
              \/ row[id].lines[s] = None
              \/ \E c \in Clients :
                    /\ Waiting(c, "updateLine", "write")
                    /\ req'[c].phase = "finish"
                    /\ req[c].space = s
                    /\ page[c] = [id |-> id, revision |-> row[id].revision]]_vars

\* As long as no request dies, a decision that was made reaches the audit log.
DecisionsReachLog ==
    \A id \in Ids :
        row[id].status \in {"QUOTED", "APPROVED", "RETURNED"} ~>
            Logged({"QUOTATION_GENERATED", "QUOTATION_APPROVED",
                    "QUOTATION_ADJUSTMENT_CONFIRMED", "QUOTATION_RETURNED"}, id)

(***************************************************************************)
(* What the documentation says and the code does not do.                   *)
(***************************************************************************)

\* A version whose discount waits for approval leaves that stage by the
\* owner's decision only.
PendingLeftToOwner ==
    [][\A id \in Made :
          /\ row[id].adjustmentStatus = "PENDING_APPROVAL"
          /\ row[id].isCurrent
          /\ ~row'[id].isCurrent
          => row'[latest'].status \in {"APPROVED", "RETURNED"}]_vars

\* A quotation is generated from a page that shows it as it is.
GeneratedFromCurrentPage ==
    [][\A id \in Made :
          row[id].status = "DRAFT" /\ row'[id].status = "QUOTED" =>
              \E c \in Clients :
                  /\ Waiting(c, "submit", "write")
                  /\ req'[c].phase = "finish"
                  /\ page[c] = [id |-> id, revision |-> row[id].revision]]_vars

\* No generated quotation has a selected line without quantity.
NoBlockersQuoted ==
    \A id \in Made : row[id].status # "DRAFT" => ~HasBlockers(row[id].lines)

\* No customer file is stored for a version whose discount waits for approval.
NoExportWhilePending ==
    [][\A x \in exports' \ exports :
          row[x.quotation].adjustmentStatus # "PENDING_APPROVAL"]_vars

\* Every decision is in the audit log once its request has ended.
DecisionsLogged ==
    (\A c \in Clients : req[c].phase = "idle") =>
        \A d \in decisions :
            Logged({"QUOTATION_GENERATED", "QUOTATION_APPROVED",
                    "QUOTATION_ADJUSTMENT_CONFIRMED", "QUOTATION_RETURNED"},
                   d.quotation)
=============================================================================

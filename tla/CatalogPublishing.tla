--------------------------- MODULE CatalogPublishing ---------------------------
(***************************************************************************)
(* Import and publication of the half-package catalog: CatalogService,     *)
(* PgCatalogRepository and the import page, with the drafts that take      *)
(* their items from the newest version.                                    *)
(*                                                                         *)
(* A workbook is uploaded and checked; its batch is kept under the hash    *)
(* of the file.  Publishing a batch without blockers makes it the newest   *)
(* version and copies its remarks to the lines of the drafts there are.    *)
(* A publication holds the batch's row, then the table of versions, until  *)
(* it commits; its statements are steps of their own, for generations and  *)
(* new scopes of drafts do not wait for them.                              *)
(*                                                                         *)
(* The items of a version are copies of the rows of its batch that         *)
(* triggers make immutable, so a version is its number and its batch.      *)
(* Audit events and the reading of the published catalog change no state   *)
(* of the model.                                                           *)
(***************************************************************************)
EXTENDS Naturals, FiniteSets, Sequences

CONSTANTS
    Browsers,         \* browsers of owners and administrators
    Files,            \* contents a workbook can have; the hash tells them apart
    Workbook,         \* what each of them holds
    KnownBlankRows,   \* rows that may come without remarks
    Projects,
    Scopes,           \* the parts of a quotation
    FirstScopes,      \* those a new draft has; the others come with new spaces
    None,
    RequestsMayFail   \* whether a request may die before it is answered

Statuses == {"FAILED", "VALIDATED", "PUBLISHED"}

\* A workbook lacks the sheet, or has it with rows; a row names an item by
\* its section, name and unit, with a price and remarks, either of them
\* perhaps None.
ASSUME ConstantsAssumption ==
    /\ \A f \in Files :
         /\ {Workbook[f].sheet, Workbook[f].headers} \subseteq BOOLEAN
         /\ Len(Workbook[f].rows) \in Nat
    /\ FirstScopes \subseteq Scopes
    /\ None \notin Browsers \cup Files \cup Statuses
    /\ RequestsMayFail \in BOOLEAN

VARIABLES
    batch,       \* status of the import batch of a file, None where there is none
    version,     \* number of the version published from a file, 0 if none
    quotation,   \* the current quotation of a project
    opening,     \* the file whose version a project's first draft is built from
    batchLock,   \* the browser whose transaction holds the row of a batch
    tableLock,   \* the one that holds half_package_template_versions
    page,        \* the batch the import page shows
    req          \* the request the import page waits for

vars == <<batch, version, quotation, opening, batchLock, tableLock, page, req>>
database == <<batch, version, quotation, opening>>

Published == {f \in Files : version[f] > 0}

\* SELECT max(version_number)
LastNumber == IF Published = {} THEN 0
              ELSE CHOOSE n \in {version[f] : f \in Published} :
                     \A f \in Published : version[f] <= n

NewestBatch == CHOOSE f \in Files : batch[f] \in Statuses

\* ORDER BY version_number DESC LIMIT 1
Newest == CHOOSE f \in Published : version[f] = LastNumber

-----------------------------------------------------------------------------
(***************************************************************************)
(* Workbooks.                                                              *)
(***************************************************************************)
Rows(f) == Workbook[f].rows

\* What validateHalfPackageWorkbook reports, as places it points at.
Blockers(f) ==
    IF ~Workbook[f].sheet THEN {"sheet"}
    ELSE (IF Workbook[f].headers THEN {} ELSE {"headers"})
         \cup {i \in DOMAIN Rows(f) :
                 \/ Rows(f)[i].price = None
                 \/ Rows(f)[i].remarks = None /\ i \notin KnownBlankRows}

\* The standard item of a row: items of the same section, name and unit are
\* told apart by how many of them come before, in every version anew.
StandardItem(f, i) ==
    [base |-> Rows(f)[i].item,
     occurrence |-> Cardinality({j \in 1..i : Rows(f)[j].item = Rows(f)[i].item})]

Places(f) == IF Workbook[f].sheet THEN DOMAIN Rows(f) ELSE {}
StandardItems(f) == {StandardItem(f, i) : i \in Places(f)}
PlaceOf(f, item) == CHOOSE i \in Places(f) : StandardItem(f, i) = item

Price(f, item) == Rows(f)[PlaceOf(f, item)].price
Remarks(f, item) == Rows(f)[PlaceOf(f, item)].remarks

\* The lines buildScope makes of a version.
LinesOf(f) == [item \in StandardItems(f) |->
                 [price |-> Price(f, item), remarks |-> Remarks(f, item)]]

-----------------------------------------------------------------------------
(***************************************************************************)
(* State.                                                                  *)
(***************************************************************************)
NoQuotation == [status |-> "NONE", template |-> None, lines |-> [s \in {} |-> {}]]

Line(p, s, item) == quotation[p].lines[s][item]

\* The lines of quotation p, as pairs of a scope and an item.
LinePlaces(p) == UNION {{<<s, item>> : item \in DOMAIN quotation[p].lines[s]} :
                          s \in DOMAIN quotation[p].lines}

AllItems == UNION {StandardItems(f) : f \in Files}
Targets == SUBSET (Projects \X (Scopes \X AllItems))

Request ==
    [op : {"validate", "publish"}, at : {"hash", "insert", "find", "batch",
     "table", "sync", "apply", "commit"},
     file : Files, number : Nat, targets : Targets]

TypeOK ==
    /\ batch \in [Files -> Statuses \cup {None}]
    /\ version \in [Files -> Nat]
    /\ \A p \in Projects :
         quotation[p] = NoQuotation
         \/ /\ quotation[p].status \in {"DRAFT", "QUOTED"}
            /\ quotation[p].template \in Published
            /\ FirstScopes \subseteq DOMAIN quotation[p].lines
    /\ opening \in [Projects -> Files \cup {None}]
    /\ batchLock \in [Files -> Browsers \cup {None}]
    /\ tableLock \in Browsers \cup {None}
    /\ page \in [Browsers -> [file : Files, status : Statuses] \cup {None}]
    /\ req \in [Browsers -> Request \cup {None}]

Init ==
    /\ batch = [f \in Files |-> None]
    /\ version = [f \in Files |-> 0]
    /\ quotation = [p \in Projects |-> NoQuotation]
    /\ opening = [p \in Projects |-> None]
    /\ batchLock = [f \in Files |-> None]
    /\ tableLock = None
    /\ page = [b \in Browsers |-> None]
    /\ req = [b \in Browsers |-> None]

-----------------------------------------------------------------------------
(***************************************************************************)
(* Requests of the import page.                                            *)
(***************************************************************************)
At(b, step) == req[b] # None /\ req[b].at = step

Asks(b, op, step, f) ==
    req' = [req EXCEPT ![b] = [op |-> op, at |-> step, file |-> f,
                               number |-> 0, targets |-> {}]]

GoesOn(b, step) == req' = [req EXCEPT ![b].at = step]

AnsweredKeepingLocks(b) ==
    /\ req' = [req EXCEPT ![b] = None]
    /\ UNCHANGED <<batchLock, tableLock>>

\* The end of a request and of its transaction, and so of its locks.
Answered(b) ==
    /\ req' = [req EXCEPT ![b] = None]
    /\ batchLock' = [f \in Files |-> IF batchLock[f] = b THEN None ELSE batchLock[f]]
    /\ tableLock' = IF tableLock = b THEN None ELSE tableLock

\* An error is shown and leaves the tables alone.
Refused(b) == Answered(b) /\ UNCHANGED <<database, page>>

-----------------------------------------------------------------------------
(***************************************************************************)
(* Validation.                                                             *)
(***************************************************************************)
\* handleValidate forgets the batch shown and uploads the file.
Upload(b, f) ==
    /\ req[b] = None
    /\ page' = [page EXCEPT ![b] = None]
    /\ Asks(b, "validate", "hash", f)
    /\ UNCHANGED <<database, batchLock, tableLock>>

Shown(b, f, status) == page' = [page EXCEPT ![b] = [file |-> f, status |-> status]]

\* A file that is known keeps its batch, in whatever state that is.
FindByHash(b) ==
    /\ At(b, "hash")
    /\ LET f == req[b].file IN
       \/ /\ batch[f] # None
          /\ Shown(b, f, batch[f])
          /\ Answered(b)
          /\ UNCHANGED database
       \/ /\ batch[f] = None
          /\ GoesOn(b, "insert")
          /\ UNCHANGED <<database, page, batchLock, tableLock>>

InsertUnchecked(b) ==
    /\ At(b, "insert")
    /\ LET f == req[b].file IN
       IF batch[f] # None THEN Refused(b)
       ELSE /\ batch' = [batch EXCEPT ![f] = "VALIDATED"]
            /\ Shown(b, f, "VALIDATED")
            /\ Answered(b)
            /\ UNCHANGED <<version, quotation, opening>>

\* Two uploads of one file may both get here; the unique hash stops one.
InsertBatch(b) ==
    /\ At(b, "insert")
    /\ LET f == req[b].file
           status == IF Blockers(f) = {} THEN "VALIDATED" ELSE "FAILED" IN
       IF batch[f] # None THEN Refused(b)
       ELSE /\ batch' = [batch EXCEPT ![f] = status]
            /\ Shown(b, f, status)
            /\ Answered(b)
            /\ UNCHANGED <<version, quotation, opening>>

-----------------------------------------------------------------------------
(***************************************************************************)
(* Publication.                                                            *)
(***************************************************************************)
\* handlePublish, once the manager has ticked that the report is right; the
\* page tells the status of the batch when it was uploaded.
AskToPublish(b) ==
    /\ req[b] = None
    /\ page[b] # None
    /\ page[b].status = "VALIDATED"
    /\ Asks(b, "publish", "find", page[b].file)
    /\ UNCHANGED <<database, page, batchLock, tableLock>>

FindBatch(b) ==
    /\ At(b, "find")
    /\ IF batch[req[b].file] = "VALIDATED"
       THEN /\ GoesOn(b, "batch")
            /\ UNCHANGED <<database, page, batchLock, tableLock>>
       ELSE Refused(b)

\* SELECT ... FOR UPDATE of the batch, and the check that it still waits.
LockBatch(b) ==
    /\ At(b, "batch")
    /\ LET f == req[b].file IN
       /\ batchLock[f] = None
       /\ IF batch[f] = "VALIDATED"
          THEN /\ batchLock' = [batchLock EXCEPT ![f] = b]
               /\ GoesOn(b, "table")
               /\ UNCHANGED <<database, page, tableLock>>
          ELSE Refused(b)

WaitForNoTable(b) ==
    /\ At(b, "table")
    /\ req' = [req EXCEPT ![b].at = "sync", ![b].number = LastNumber + 1]
    /\ UNCHANGED <<database, page, batchLock, tableLock>>

\* LOCK TABLE ... IN EXCLUSIVE MODE; then the version's number is chosen and
\* its sections, items and prices are inserted, to be seen at the commit.
LockTable(b) ==
    /\ At(b, "table")
    /\ tableLock = None
    /\ tableLock' = b
    /\ req' = [req EXCEPT ![b].at = "sync", ![b].number = LastNumber + 1]
    /\ UNCHANGED <<database, page, batchLock>>

\* The lines of current drafts whose remarks differ, as the UPDATE finds them.
Differs(f, p, l) ==
    /\ quotation[p].status = "DRAFT"
    /\ l \in LinePlaces(p)
    /\ l[2] \in StandardItems(f)
    /\ Line(p, l[1], l[2]).remarks # Remarks(f, l[2])

SyncRemarks(b) ==
    /\ At(b, "sync")
    /\ LET targets == {t \in Projects \X (Scopes \X AllItems) :
                         Differs(req[b].file, t[1], t[2])} IN
       req' = [req EXCEPT ![b].at = "apply", ![b].targets = targets]
    /\ UNCHANGED <<database, page, batchLock, tableLock>>

\* The trigger on each line looks again whether its quotation is a draft;
\* when one is not, the whole publication fails.
ApplyRemarks(b) ==
    /\ At(b, "apply")
    /\ IF \A t \in req[b].targets : quotation[t[1]].status = "DRAFT"
       THEN /\ GoesOn(b, "commit")
            /\ UNCHANGED <<database, page, batchLock, tableLock>>
       ELSE Refused(b)

\* COMMIT, with the batch PUBLISHED, unless a row has no price or the number
\* is taken, which is unique.  The page moves on to the catalog.
Commit(b) ==
    /\ At(b, "commit")
    /\ LET f == req[b].file
           Synced(p, s, item) ==
             IF <<p, <<s, item>>>> \in req[b].targets
             THEN [Line(p, s, item) EXCEPT !.remarks = Remarks(f, item)]
             ELSE Line(p, s, item) IN
       IF \/ \E i \in Places(f) : Rows(f)[i].price = None
          \/ \E g \in Files : version[g] = req[b].number
       THEN Refused(b)
       ELSE /\ version' = [version EXCEPT ![f] = req[b].number]
            /\ batch' = [batch EXCEPT ![f] = "PUBLISHED"]
            /\ quotation' =
                 [p \in Projects |->
                    [quotation[p] EXCEPT !.lines =
                       [s \in DOMAIN @ |->
                          [item \in DOMAIN @[s] |-> Synced(p, s, item)]]]]
            /\ page' = [page EXCEPT ![b] = None]
            /\ Answered(b)
            /\ UNCHANGED opening

-----------------------------------------------------------------------------
(***************************************************************************)
(* Quotations.  Their requests are one step each, except the first draft,  *)
(* which is built from the version that was newest when it was read.       *)
(***************************************************************************)
Manager == <<batch, version, batchLock, tableLock, page, req>>

ReadCatalog(p) ==
    /\ quotation[p] = NoQuotation
    /\ opening[p] = None
    /\ Published # {}
    /\ opening' = [opening EXCEPT ![p] = Newest]
    /\ UNCHANGED <<Manager, quotation>>

\* A foreign key to the version: the insert waits for the table's lock.
CreateDraft(p) ==
    /\ opening[p] # None
    /\ tableLock = None
    /\ quotation' = [quotation EXCEPT ![p] =
         [status |-> "DRAFT", template |-> opening[p],
          lines |-> [s \in FirstScopes |-> LinesOf(opening[p])]]]
    /\ opening' = [opening EXCEPT ![p] = None]
    /\ UNCHANGED Manager

WithScope(p, s, f) ==
    quotation' = [quotation EXCEPT ![p].lines =
                    [t \in DOMAIN @ \cup {s} |-> IF t = s THEN LinesOf(f) ELSE @[t]]]

AddNewestScope(p, s) ==
    /\ quotation[p].status = "DRAFT"
    /\ s \notin DOMAIN quotation[p].lines
    /\ WithScope(p, s, Newest)
    /\ UNCHANGED <<Manager, opening>>

\* The scope of a new space comes from the version the draft was built from.
AddScope(p, s) ==
    /\ quotation[p].status = "DRAFT"
    /\ s \notin DOMAIN quotation[p].lines
    /\ WithScope(p, s, quotation[p].template)
    /\ UNCHANGED <<Manager, opening>>

\* It waits for a publication that has updated its lines, and is skipped by
\* one that has only found them.
DeleteScope(p, s) ==
    LET Its(t) == t[1] = p /\ t[2][1] = s IN
    /\ quotation[p].status = "DRAFT"
    /\ s \in DOMAIN quotation[p].lines \ FirstScopes
    /\ \A b \in Browsers : At(b, "commit") => ~\E t \in req[b].targets : Its(t)
    /\ quotation' = [quotation EXCEPT ![p].lines =
                       [t \in DOMAIN @ \ {s} |-> @[t]]]
    /\ req' = [b \in Browsers |->
                 IF req[b] = None THEN None
                 ELSE [req[b] EXCEPT !.targets = {t \in @ : ~Its(t)}]]
    /\ UNCHANGED <<batch, version, batchLock, tableLock, page, opening>>

\* submitDraft updates the header alone.
Generate(p) ==
    /\ quotation[p].status = "DRAFT"
    /\ quotation' = [quotation EXCEPT ![p].status = "QUOTED"]
    /\ UNCHANGED <<Manager, opening>>

\* The next version is a copy with the same template; its header's foreign
\* key waits for the table's lock, too.
ContinueEditing(p) ==
    /\ quotation[p].status = "QUOTED"
    /\ tableLock = None
    /\ quotation' = [quotation EXCEPT ![p].status = "DRAFT"]
    /\ UNCHANGED <<Manager, opening>>

-----------------------------------------------------------------------------
\* A request that dies rolls its transaction back.
Fail(b) ==
    /\ RequestsMayFail
    /\ req[b] # None
    /\ Refused(b)

Serve(b) ==
    \/ FindByHash(b)
    \/ InsertBatch(b)
    \/ FindBatch(b)
    \/ LockBatch(b)
    \/ LockTable(b)
    \/ SyncRemarks(b)
    \/ ApplyRemarks(b)
    \/ Commit(b)

Next ==
    \/ \E b \in Browsers :
         \/ \E f \in Files : Upload(b, f)
         \/ AskToPublish(b)
         \/ Serve(b)
         \/ Fail(b)
    \/ \E p \in Projects :
         \/ ReadCatalog(p)
         \/ CreateDraft(p)
         \/ \E s \in Scopes : AddScope(p, s) \/ DeleteScope(p, s)
         \/ Generate(p)
         \/ ContinueEditing(p)

Spec == Init /\ [][Next]_vars

\* Every request that was sent is served; the database gives its locks in
\* the order they were asked for, so nobody waits while others pass.
FairSpec == Spec /\ \A b \in Browsers : SF_vars(Serve(b))

-----------------------------------------------------------------------------
(***************************************************************************)
(* Properties.                                                             *)
(***************************************************************************)
\* A batch is PUBLISHED exactly when a version was made of it, versions are
\* numbered from 1 without gaps, and no version has a blocker, whoever
\* publishes what at the same time.
BatchesAndVersionsAgree ==
    /\ \A f \in Files : batch[f] = "PUBLISHED" <=> version[f] > 0
    /\ {version[f] : f \in Published} = 1..Cardinality(Published)
    /\ \A f \in Published : Blockers(f) = {}

\* What the lock of the table is for: the number a publication has taken is
\* free when it commits, so no manager is refused because another one
\* publishes a different batch.
PublicationsDoNotCollide ==
    \A b \in Browsers :
      req[b] # None /\ req[b].number > 0 => req[b].number = LastNumber + 1

\* A quotation is priced by the version its first draft was built from:
\* neither a later publication nor a new scope brings in other prices.
PricesPinned ==
    \A p \in Projects :
      \A l \in LinePlaces(p) :
        /\ l[2] \in StandardItems(quotation[p].template)
        /\ Line(p, l[1], l[2]).price = Price(quotation[p].template, l[2])

\* A quotation that is generated keeps its remarks, whatever is published.
QuotedLinesFrozen ==
    [][\A p \in Projects :
         quotation[p].status = "QUOTED" => quotation'[p].lines = quotation[p].lines]_vars

\* Every request of the import page is answered, and no lock is left behind:
\* the locks of batches and of the table of versions, that is.  Those on the
\* lines whose remarks a publication copies are taken and given up in one
\* step here; PostgreSQL ends a deadlock of a publication and a save over
\* them by an abort.
RequestsEnd == \A b \in Browsers : req[b] # None ~> req[b] = None
=============================================================================

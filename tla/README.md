# The quotation service of Shanyu ERP, in TLA+

Shanyu ERP (`src/shanyu_erp`) lets a lead designer draw up the half-package
quotation of a renovation project, generate it, submit a discount, and have the
owner approve or return it. The API is a NestJS process on PostgreSQL; several
browsers work on one project at once, and operators back up, restore and upgrade
the server while it runs. This directory holds TLA+ modules of what can go wrong
there, model-checked with TLC and, for the core, proved with TLAPS.

## 1. The system

| Part | Where | State it keeps | Operations |
| --- | --- | --- | --- |
| Quotation versions | `apps/api/src/quotation/quotation.service.ts`, `pg-quotation.repository.ts` | `half_package_quotations` with scopes and lines, `half_package_approval_decisions`, `half_package_exports` | getOrCreateDraft, addMissingProjectScopes, updateLine, submit, updateAdjustment, decide, continueEditing, createExport, updateMarginBenchmark; reads: versions, comparison, cost margin |
| Calculator | `quotation/half-package-calculator.ts` | none | quantities, amounts and totals of a version, to four decimals |
| Exporter | `quotation/quotation-exporter.ts` | two promises of parsed templates | the customer's PDF or XLSX of a version |
| Projects and spaces | `project/projects.service.ts`, `pg-projects.repository.ts` | `projects`, `project_spaces` | create, get, addSpace, updateSpace, deleteSpace (the last two also write the draft) |
| Catalog | `catalog/*.ts` | import batches, template versions, their items | validateWorkbook, publishBatch |
| Users and sessions | `access/*.ts` | `users`, `user_credentials`, `auth_sessions` | login, logout, getSessionUser, create, update, resetPassword, remove |
| Access policy | `access/access.policy.ts` | none | which role may do what |
| Audit log | `access/pg-audit.repository.ts` | `audit_events` | append, query |
| Database client | `database/database.client.ts` | a pool of connections | autocommit query; transaction (READ COMMITTED) |
| Schema | `migrations/*.mjs` | constraints, unique indexes, snapshot triggers | |
| Web client | `apps/web/src` | what each page loaded and what was typed | requests that do not block the page |
| Operations | `scripts/deployment`, `scripts/run-migrations.mjs` | backups and their seals, the selected release, an operation lock | back up, upload, prune, clear, restore, import, deploy, upgrade, roll back |

**How the parts interact.** A page sends a request with what it shows: a version
or line id, and for edits, generation and discounts the revision. The service
resolves the session, reads the project and the version with autocommit queries
and checks role, stage and input. It then calls one method of a repository, which
runs one transaction, commits, and reloads. Last, the service appends an audit
event, by a query of its own. Nothing is shared between requests but the tables
and, in the exporter, the parsed templates. Operational scripts share the database
and the backup directory with the service and each other.

**What is hard.** The check and the write are different round trips, so whatever
was checked may be outdated when it is used. Versions are optimistic: the WHERE of
the write repeats some of the check, with the revision of the *page*. A version
past the draft stage must never change, while a decision copies it into a new
version and moves the `is_current` mark. `updateSpace` and `deleteSpace` write the
draft from the other side, with statements that take their locks in another order,
and compute its amounts in SQL where the service computes them in TypeScript.
Publishing a catalog rewrites remarks in drafts. A request can die between commit
and audit, a script between the drop of a database and its restore. Answers reach
a page late, out of order or never.

**What makes each part correct.** *Versions*: one chain, exactly the newest current;
a snapshot never changes; an approved offer is the quoted one; a discount does not
outlive its decision; no lost update; transitions are recorded. *Spaces*: a change
of the draft shows by its revision and reaches the draft as a whole. *Prices*: what
is stored is what the calculator makes of the entries. *Exports*: a file lists
every priced line and its numbers explain the price. *Catalog*: batches and
versions agree; a quotation keeps the prices it started from. *Users*: an
administrator remains; a deleted user acts no more. *Pages*: what is carried out is
what the page showed, but for a discount submitted between a check and its write.
*Operations*: no committed row is lost without a backup, no data are replaced before
one, and the service returns unless compose itself fails or the script is killed.

The hazards, each at its line, are in `PROJECT.json` with the properties that
cover them.

## 2. The modules

| Module | What it is |
| --- | --- |
| `QuotationLifecycle` | one project's quotation versions and the requests of its browsers, one action per database round trip or transaction |
| `QuotationFlow` | what a user sees: one current version in one of five stages, with an offer of lines and a discount |
| `QuotationRefinement` | the mapping under which `QuotationLifecycle` implements `QuotationFlow` |
| `QuotationLifecycleProofs` | theorems about `QuotationLifecycle`: the chain of versions and what requests carry; lines, totals, discounts, files and the log; that it implements `QuotationFlow` |
| `SpaceEditing` | spaces against the draft, one action per SQL statement, with row locks |
| `SpaceEditingProofs` | theorems about `SpaceEditing` |
| `QuotationPricing` | quantities, amounts, totals, adjustments: calculator, service and SQL on scaled integers |
| `QuotationPricingProofs` | theorems about `QuotationPricing` |
| `QuotationExport` | the files of a version and the templates requests share |
| `QuotationExportProofs` | theorems about `QuotationExport` |
| `QuotationPages` | the browser's side: pages, what is typed, requests under way, late answers |
| `QuotationPagesProofs` | theorems about `QuotationPages` |
| `CatalogPublishing` | import batches, publication with its locks, remarks copied into drafts |
| `CatalogPublishingProofs` | theorems about `CatalogPublishing` |
| `UserSessions` | accounts, logins, sessions, the advisory lock of user management |
| `UserSessionsProofs` | theorems about `UserSessions` |
| `DataOperations` | the operational scripts, command by command |
| `DataOperationsProofs` | theorems about `DataOperations` |
| `MC...` | instances for TLC: sets of operations, workbooks, templates, versions |

The modules meet at the same rows and leave out what another one has.
`QuotationLifecycle` treats the lines of a space as one opaque entry and a
transaction as one step; `SpaceEditing` opens the transactions of spaces and keeps
the quotation's requests as coarse as the header lock makes them;
`QuotationPricing` gives the entries their amounts and lets requests follow one
another; `QuotationPages` gives each browser several requests at once and takes
the API as one step per request, two where the check is not part of the write.

Lines are written from three sides. `QuotationLifecycle` has the requests of the
quotation service only; `updateSpace` is in `SpaceEditing` and `QuotationPricing`, the
remarks a publication copies are in `CatalogPublishing`. The latter two may reach a
version they found as a draft after it was generated (section 4: `GeneratedScopesFrozen`,
`QuotedLinesFrozen`). So `SnapshotsFrozen`, `DecisionKeepsOffer`, `PricedAsStored` and
`ExportsAreFrozen`, and the theorems about them, say what the service's own transactions
do to each other's versions, and not that no statement of the program touches the
lines of a generated version.

### QuotationLifecycle

| Variable | Code |
| --- | --- |
| `row`, `latest` | rows of `half_package_quotations` with their scopes and lines; ids in insertion order |
| `row[id].lines` | per space, one of a few *entries* (what the lines of the scope hold); `None` without a scope |
| `row[id].priced` | the lines from which direct cost, fee, total, adjusted total were calculated |
| `row[id].discountRate` | discount rate and write-off together |
| `decisions`, `exports`, `audit` | `half_package_approval_decisions`, `half_package_exports`, events of `audit_events` about versions |
| `spaces` | undeleted `project_spaces` |
| `page` | version and revision a browser shows; it sends them back |
| `req` | the request a browser waits for: operation, phase, and the local variables of the handler that survive an `await` |

Each action is a whole stretch of the code between two points where other requests
can run:

| Request | Checks | Transaction | Reload and audit |
| --- | --- | --- | --- |
| getOrCreateDraft | `GetProject`, `FindDraft`, `FindLatest` | `CreateDraft`, `AddDraftScopes` | `FinishDraft` |
| updateLine | `ReadLine` | `SaveDraft` | `FinishLine` |
| submit | `ReadForSubmit` | `SubmitDraft` | `FinishVersion` |
| updateAdjustment | `ReadForAdjustment` | `SaveAdjustment`, `ConfirmAdjustment` | `FinishVersion` |
| decide | `ReadForDecision` | `Decide` | `FinishVersion` |
| continueEditing | `ReadForEditing`, `ProbeDraft` | `ContinueEditing` | `FinishVersion` |
| createExport | `ReadForExport` | `CreateExport` | `FinishExport` |
| addSpace | `ReadForSpace` | `AddSpace` | (event about a space, not kept) |

Abstractions, and why they are sound:

- **A transaction is one step.** The first statement of each transaction here locks
  the row everything else depends on (the quotation, or for `createDraft` the
  project), and its WHERE is evaluated again after a wait for that lock.
- **A read of a version is one step** although `hydrateDraft` reads header, scopes
  and lines by three queries. The header comes first, every writer moves the
  revision, and the write compares a revision no older than the header read, so a
  torn read never gets through. `createExport` compares nothing, but only uses versions
  whose lines no request of this module changes any more. An `updateSpace` or a
  publication that is under way at the generation still may (section 4); then the file
  can show other lines than the version has, or half of the change.
- **A refused first check is not a step.** It writes nothing.
- **Reload and audit are one step.** Only the page shown depends on the reload, and
  the audit event only on whether it found a row, which the step distinguishes.
- **A page may be any that was once shown.** `ViewVersion` refreshes it; users are
  free to send any request their page offers, and to send it late.
- **Templates, prices, reasons and the margin benchmark** are left out: the
  workflow does not branch on them.

`QuotationFlow` has eight actions (create, edit, generate, submit discount, confirm,
approve, return, continue) over four variables. `QuotationRefinement` maps the newest
row to them. Because the code allows it, the flow has a `Continue` from the stage
"pending"; section 4 says why that is not what the documentation describes.

### SpaceEditing

`db` holds the committed rows by key (spaces, headers, scopes), `tx` the rows an open
transaction has written, which are its locks and its own view of them; `req` is
where a request stands. A statement waits while another transaction holds a row it
writes, sees what was committed when it began, and looks again only at the row it
waited for (READ COMMITTED). `updateSpace` is the ten steps `ReadForUpdateSpace`,
`AssertSpaceAdjustable`, `UpdateSpaceRow`, `FindDraftOfScope`, `UpdateScopeArea`,
`UpdateQuantities`, `UpdateAmounts`, `UpdateSubtotal`, `SumScopes`, `UpdateTotals`;
`deleteSpace` runs from `ReadForDeleteSpace` over `FindHeader`, `LockHeader`, `SoftDelete`,
`DropScope`, `ReorderScopes`, `ResumTotals`, `ShiftOrders` to `RenumberSpaces`. `Abort` is
the deadlock detector and the loss of a connection. An amount stands for the
measure it was calculated from. Two requests never give the same name, so the
unique index on names and the confirmation of a second balcony are left out; the
one on sort orders is kept. The UPDATE of the header in `UpdateTotals` does not test the
status again after its wait. A version generated meanwhile is written, with a new revision, if its
totals are the same; otherwise the snapshot trigger (`SnapshotGuard`) raises and the whole
update is rolled back. Audit events come after the commit and are left out.
Of the alternatives of `RenumberSpaces`, the collision of two renumberings needs
three requests for one order and does not occur in the instance. `Row` and `Over` say
how written rows lie over others: `tx` over `db` for its own transaction, `tx` into
`db` at the commit.

### QuotationPricing

`line`, `scope`, `header`, `size`, `status`, `previous` are the current version, the sizes
of its spaces and the version before. Decimals are scaled integers; `Multiply4` rounds
as the calculator does, half up, and the SQL of `Requantified`, `Repriced` and
`AfterDeletionOf` as `round(numeric, 4)` does. Rules are the code's: frame area, space
area, perimeter by height, references to other lines, manual. Margin rates are
quotients of stored amounts and are left out, and so is the profit of a line, which
SQL rounds once and the calculator as a difference of two rounded amounts: they may
differ in the last decimal, and nothing reads the stored one. `FloatProduct` is the
binary product of `updateAdjustment`; at a tie it may round either way.
`LineValues` and `AdjustmentValues` are the check constraints of the tables; the rows
of the first draft satisfy them as well (`Init`), or they would not have been stored.

The assumptions on the constants are what the code tests. `ConstantsAssumption`: sizes and
the frame area are positive (`projects_building_area_positive` and
`project_spaces_metrics_positive` of `migrations/002`), so are manual quantities, rates are
at most one and write-offs not negative (the patterns and tests of `updateAdjustment`
and `half_package_quotations_values` of `migrations/004`).
`ReferencesAssumption`: a line whose quantity is another line's finds that one in its
section, for otherwise `quantityRuleFor` throws and there is no draft.

### QuotationExport

`template` and `material` are the promises of the two parsed workbooks: unread, being
read, ready, or failed, which is remembered until the process restarts. `request` is
where each export stands. A file is a pure function of its version: `Workbook` gives its
rows, `Pdf` each row with the page and the height at which it is placed, by the loop of
`generatePdf` (`Laid`, one row at a time by `Placed`). `SectionRows` are the rows both kinds of
file have of the sections. Glyphs have widths only. The pages of the budget notes,
styles, pictures and column widths are left out.

`VersionsAreCalculated` says which versions there are to export: lines with an amount are
selected and have a quantity, a subtotal is the sum of its lines, the direct cost that of the
subtotals, and the adjusted total follows from total, rate and write-off. That is what
the calculator returns, and `QuotationPricing` shows that what is stored stays so.

### CatalogPublishing

`batch` and `version` are import batches and template versions by file, `quotation` a
project's current version with its lines, `batchLock` and `tableLock` the locks of an
open publication, `page` and `req` the import page. Items are model values, told apart
by section, name, unit and occurrence as `stableItemBaseKey` does. A workbook is
reduced to what `validateHalfPackageWorkbook` reports on: sheet, headers, prices and
remarks. The locks that a publication and a save take on single lines are left out: a
deadlock over those, which PostgreSQL ends by aborting one of the two, is outside of
`RequestsEnd`.

### UserSessions

`user`, `credential`, `session`, `cookie` are the tables and the browser's cookie,
`advisory` the holder of `pg_advisory_xact_lock(73102026)`, `req` a request with what it has read:
the acting user's role and the account before. A name that is taken is one way a
write fails. `disabledBefore` is history: who was deleted when the request was sent.

### QuotationPages

`server` is the current version, `page` what each tab shows, has typed and has disabled,
`calls` the requests under way. An answer finds its page, a tab that has moved on, or
nobody. The API is one step per request where the WHERE of the write repeats every check
(`Serve`): it applies a request or refuses it, by the rules of `QuotationLifecycle`.
Where the service checks by queries of their own and the write repeats less, or nothing,
it is two (`Check`, then `Serve`), and any other request may come in between: a new
draft, whose lock asks for the version and the stage but not for a discount that waits;
an export, whose file is made of the version that was checked and stored whatever has
happened since; and the spaces, whose change may find a generated version (`updateSpace`,
which then writes it, passes it by or is refused by the triggers) or a version that was
superseded (`deleteSpace`, which then leaves the quotation alone).

| Page | Controls |
| --- | --- |
| editor | `Type`, `Blur`, `Toggle` (`saveLine`) |
| confirmation before a generation (`submit`) | `SubmitQuotation` |
| project | `ContinueEditing`, `SubmitAdjustment`, `ExportFiles`, and of a draft the space manager: `AddSpace`, `UpdateSpace`, `DeleteSpace`, `CloseDialog` |
| history of versions | `Compare`, `ExportFiles` |
| cost margin | `SaveBenchmark` |
| approval | `DecideQuotation` |

Loading a page of a draft may write: `getOrCreateDraft` adds scopes for spaces that have
none, which `unpriced` says. `router.refresh` runs the loader of whatever the tab shows
by then (`Refreshes`, `Elsewhere`), also when the page that asked for it was left, but not
after an error (`GoesOn`). The pages in `Reloaded` show what the loader brings then; the
editor and the approval keep what they opened with until they are answered. Whether a
draft is complete enough to be generated is `QuotationLifecycle`'s: any confirmation page
may offer it. Left out: the project page opened at an old version (`?quotationId=`),
whose controls are those of the current one and are refused by the API; and
`prepareAdjustment` of the space manager, which no page can reach, for the project page
has a space manager for drafts only.

### DataOperations

`db` is the database (business rows by number, published catalogs, newest migration,
whole, partial or empty), `files` the backup directory with seals, counts and COS
markers, `lock` the operation lock, `release` the selected images, `script` where each
kind of script stands. A command may fail, which runs the script's traps. Three things are
counted as mishaps, for nothing in the scripts repairs them: a script is killed, which runs
no trap; `compose stop` fails or is cut off after it has stopped containers, when
`services_stopped` is not yet set, so that the trap starts nothing (`Stop` and
`NoteStopped` are two steps); and `compose up` fails, in the trap (`|| true`) or in the
script (`Compose`). A deployment makes a backup before it
migrates, unless the database has no tables, and one after the application is healthy;
the second ends it. `expired` and `exposed` are history: rows whose
retention ended, and rows committed after a clear or restore took its backup and
before it stopped the application.

## 3. What is checked

| Run | Instance | Shows |
| --- | --- | --- |
| `QuotationWorkflow` | 1 designer, 1 owner, 3 versions with edits, 2 discounts | types; discounts have a decision behind them; transitions logged; one chain, newest current; decided offers are the quoted ones; snapshots frozen; the rows implement `QuotationFlow` |
| `QuotationEditing` | 2 designers, 2 spaces, 2 versions, requests die | totals belong to lines; no lost update |
| `QuotationExports` | 1 designer, 1 owner, 2 versions, fair server | stored files show frozen lines and the approved discount; decisions reach the log |
| `SpaceEditing` | 1 designer changes 2 spaces (2 requests), 1 works on the draft (4 requests), 2 versions | changes show by the revision; updates reach the draft whole; generated totals stay; every request is answered (124,713 states, depth 42) |
| `QuotationPricing` | 2 spaces, 8 items with every rule, 2 sizes, 2 discounts, one decimal | stored = calculated; a comparison without differences means an equal total; offers are complete |
| `QuotationExport` | 2 requests, 12 versions in all states of their discount, with few lines and with lists whose rows cross the end of a page in different places | no priced line lost; pages follow one another; numbers explain the price |
| `QuotationPages` | 1 designer's tab, 1 owner's, 2 lines, 2 rates, 2 requests, any stage | what is carried out was shown; no page goes back; controls return (624,402 states, depth 14) |
| `CatalogPublishing` | 2 managers, 3 workbooks, 1 project with 2 scopes, requests die | batches and versions agree; publications do not collide; prices pinned; requests end |
| `UserSessions` | 2 browsers, 2 accounts, 2 roles, 2 sessions, requests die | an administrator remains; the deleted act no more |
| `DataOperations` | 2 scripts of any kind, 1 row, 3 backups, 2 releases, 1 mishap | loss is bounded; restores keep their sources; backup first; services return unless there was a mishap (752,008 states, depth 30) |
| `StaleGeneration` | 2 designers, 2 versions | a counterexample, section 4 |
| `SpaceDeletion` | as `QuotationPricing` | a counterexample, section 4 |

**Bounds.** `MaxVersion` bounds versions by refusing requests whose page is at the
last one; `MaxRevision` refuses edits of a page at that revision. Two versions let
two writers compete for one successor; three are needed to return an offer, edit
it and quote it again. One designer and one owner can race for one version, for the
owner confirms, decides and returns what the designer reopens; races of equals
are in `QuotationEditing`, and the theorems of section 5 hold for any number. Two
entries make a stale write visible. In `SpaceEditing` two requests on spaces
against four on the draft suffice for every pair of transactions to overlap
and for a generation and a reopening in the middle of an update. `QuotationPricing`
works with one decimal instead of four (`Scale`), so that small numbers meet every
rounding. In `QuotationPages` two requests are the fewest whose answers can be out
of order. `DataOperations` starts two scripts: more add runs one after the other;
three backups let each make one beside the first. The theorems of section 5 hold for
any numbers of both. In `UserSessions` two accounts suffice to demote each other, and
two tokens to keep an old session beside a new one.
Interchangeable browsers, and requests for exports, are symmetric (`Symmetry`) in runs
without liveness. `LinesFit` of `MCQuotationExport` has TLC evaluate, for all of its versions, the
hypothesis of the theorem about pages.

**Deadlock** is checked, except in `SpaceEditing` and `DataOperations`, whose requests
and scripts are counted and run out; there `RequestsEnd` and `ServicesReturn` say
that what has begun ends.

**Fairness.** Nothing is assumed of users, operators or failures. Weak fairness of
`Serve(c)` in `QuotationLifecycle` and of `Progress` in `QuotationPages`
says that Node goes on with a request whose query has returned and the browser
handles an answer, or learns that there is none; a refresh is owed to nobody.
`Progress` is one condition for all requests, which is enough: as long as one is under
way some step of one is due, and there are only as many as `MaxRequests` allows.
`ControlsReturn` says `[]<>` of a page without disabled controls, which is the same as
that each control that is disabled is enabled again, for the bound on requests ends
all of them. `SpaceEditing` and
`CatalogPublishing` need strong fairness of `Serve`: a transaction that waits for a
row may find it taken again and again, and PostgreSQL's queue for a lock is what
excludes that. In `DataOperations` a command ends, in success or failure; a prompt
for the operator's confirmation need not. `ServicesReturn` says that an application that
is down comes up again while there was no mishap; after one it is the operator's to start
it. `DecisionsReachLog` is checked with
`RequestsMayFail = FALSE`: with failures it is false (section 4).

Each property has a mutant, a plausible bug in a definition of the model under which
TLC finds it violated; mutants are defined right before what they replace.

## 4. Where the code and its documentation disagree

Two runs check a statement of the documentation and end with a counterexample:

- `StaleGeneration`: submit is addressed by project and revision, and revisions
  restart at 0 in every clone. A page of version 1 at revision 0 generates the draft
  of version 2 at revision 0, although operations of an outdated page are to be
  refused.
- `SpaceDeletion`: `deleteSpace` sets `adjusted_total` to the total without discount
  and write-off. On a draft that was continued from a returned version and kept
  its discount, the check constraint of the table refuses that, and the deletion
  fails with an unexpected error.

### Statements the code does not keep

These definitions state what a document or the interface says; TLC finds a
counterexample to each. They are not among the runs; to reproduce one, copy the
configuration, replace its properties by the name, and change what the last column
says.

| Statement | Module | Where it is said | How to see it broken |
|---|---|---|---|
| `PendingLeftToOwner` | `QuotationLifecycle` | docs/contexts/quotation/CONTEXT.md:23, after the submission the owner approves or returns | `QuotationWorkflow.cfg`, `PROPERTY`: the lead continues editing a version that is waiting |
| `NoBlockersQuoted` | `QuotationLifecycle` | docs/testing/v1-acceptance-test-cases.md:89, a selected line without quantity blocks the submission | `QuotationWorkflow.cfg`, `INVARIANT`: the service does not repeat the check of the page |
| `NoExportWhilePending` | `QuotationLifecycle` | docs/contexts/quotation/CONTEXT.md:92, no exports while a discount waits | `QuotationExports.cfg`, `PROPERTY`: the discount is submitted while the file is made |
| `DecisionsLogged` | `QuotationLifecycle` | docs/architecture/data-persistence.md:23, one action on several tables is one transaction | `QuotationWorkflow.cfg`, `INVARIANT`, with `RequestsMayFail = TRUE`: the request dies between the decision and the audit event |
| `GeneratedScopesFrozen` | `SpaceEditing` | apps/web/src/app/projects/[projectId]/space-manager.tsx:182, spaces change in drafts only | `SpaceEditing.cfg`, `PROPERTY`: `updateSpace` writes lines after the version was generated |
| `SpaceLeft` | `SpaceEditing` | projects.service.ts:210 and space-manager.tsx:182, a project keeps a space | `SpaceEditing.cfg`, `INVARIANT`, with `Operations <- Deleting`, `InitialSpaces = {s1, s2}`, `MaxRequests <- TwoEach`: two deletions counted the same spaces |
| `ResetEndsSessions` | `UserSessions` | apps/web/src/app/users/user-management.tsx:528, the sessions of the account have ended | `UserSessions.cfg`, `INVARIANT`: a login that read the old password opens its session after the reset |
| `NotesComplete` | `QuotationExport` | docs/reviews/v1-phase6-review.md:48, the PDF shows the notes as the workbook does | `QuotationExport.cfg`, `INVARIANT`, with `Version <- PunctuatedQuotations`: text is cut where the estimate of its lines is too low |
| `StoppedUntilChecked` | `DataOperations` | server-restore-backup.sh:120–130, checks precede the start | `DataOperations.cfg`, `INVARIANT`: `clear` fails after its transaction, and its exit handler starts the application on data no check has passed; so does a failed restore |
| `ConflictShowsCurrent` | `QuotationPages` | docs/architecture/data-persistence.md:25, a conflict returns the current version | `QuotationPages.cfg`, `PROPERTY`: the editor stays on the revision that was refused |
| `QuotedLinesFrozen` | `CatalogPublishing` | docs/contexts/quotation/CONTEXT.md:78, a publication leaves generated versions alone | `CatalogPublishing.cfg`, `PROPERTY`: the statement that copies the remarks has no condition on the status when the version is generated in between |

Seen while modelling and present in the model: a conflict in `continueEditing` is not
translated and reaches the browser as status 500 (`ContinueEditing`); a save whose
draft is generated before the reload is stored but answered with an error and not
audited (`FinishLine`); a template that could not be read once fails every later
export until the process restarts (`ReadTemplate`); an `updateSpace` that waited for
the header while the version was generated raises the revision of the generated version, or
fails as a whole by the snapshot trigger (`UpdateTotals`); a `compose stop` that fails half
way leaves containers down that the trap does not start (`Stop`, `NoteStopped`); a row that does not fit on its page
is moved to the next one without a test that it fits there, so a line higher than a page,
with a note of some fourteen hundred characters, runs over the lower margin (`Placed`); the
workbook keeps the carriage returns of notes, the PDF does not (`SheetLine`, `PdfLine`).

## 5. What is proved

The proof modules hold for any sets of browsers, tabs, spaces, measures, entries, lines,
items, prices, versions, discounts, accounts, tokens, workbooks, projects and scopes, any
bounds on rows, requests, backups, images, scripts and mishaps, and with or without failing
requests, each from the assumption `ConstantsAssumption` of the module it extends (the
constants are what their comments say). `QuotationPricing` has `ReferencesAssumption`
besides, and `QuotationExport` has `VersionsAreCalculated` instead; section 2 says why the code
justifies both. Two theorems have a further hypothesis. `TransitionsReachLog` requires that
no request dies (`RequestsMayFail = FALSE`): with failures its statement is false (section 4,
`DecisionsLogged`). `PagesAreOrdered` requires that no line is higher than a page (`RowsFit`):
the loop of `generatePdf` does not test it, and a higher line is drawn over the margin.

| Module | Theorem | Statement |
| --- | --- | --- |
| `QuotationLifecycleProofs` | `Invariance` | `Spec => []IInv` |
| | `TypeCorrect` | `Spec => []TypeOK` |
| | `OneCurrentVersion` | `Spec => []CurrentIsNewest` |
| | `StagesFit` | `Spec => []StageShape` |
| | `SnapshotsStay` | `Spec => SnapshotsFrozen` |
| | `DecisionsKeepOffers` | `Spec => []DecisionKeepsOffer` |
| | `DiscountsComeFromReturns` | `Spec => []DiscountProvenance` |
| | `TotalsFollowLines` | `Spec => []PricedAsStored` |
| | `EditsAreNotLost` | `Spec => NoLostUpdate` |
| | `ExportsStayTrue` | `Spec => []ExportsAreFrozen` |
| | `TransitionsReachLog` | `Spec => []TransitionsLogged`, if no request dies |
| | `Implementation` | `Spec => ImplementsFlow` |
| `QuotationPricingProofs` | `TypeCorrect` | `Spec => []TypeOK` |
| | `StoredCalculated` | `Spec => []StoredIsCalculated` |
| | `ComparisonExplained` | `Spec => []ComparisonExplainsTotal` |
| | `OffersComplete` | `Spec => []OfferIsComplete` |
| `QuotationExportProofs` | `TypeCorrect` | `Spec => []TypeOK` |
| | `PricedLinesAreExported` | `Spec => []NothingPricedIsLost` |
| | `PagesAreOrdered` | `Spec => []PagesFollowOneAnother`, if every line fits on a page |
| | `PriceIsExplained` | `Spec => []FileExplainsPrice` |
| `QuotationPagesProofs` | `TypeCorrect` | `Spec => []TypeOK` |
| | `AppliedFromShown` | `Spec => AppliedAsShown` |
| | `PagesGoForward` | `Spec => ShownForward` |
| `SpaceEditingProofs` | `TypeCorrect` | `Spec => []TypeOK` |
| | `ChangesTold` | `Spec => RevisionTellsChange` |
| | `GeneratedKept` | `Spec => GeneratedTotalsFrozen` |
| | `DraftReached` | `Spec => UpdateReachesDraft` |
| `UserSessionsProofs` | `TypeCorrect` | `Spec => []TypeOK` |
| | `AnAdministratorRemains` | `Spec => []AdministratorRemains` |
| | `OneManager` | `Spec => []OneManagesAtATime` |
| | `DeletedUsersActNoMore` | `Spec => []DeletedActNoMore` |
| `CatalogPublishingProofs` | `TypeCorrect` | `Spec => []TypeOK` |
| | `BatchesAgree` | `Spec => []BatchesAndVersionsAgree` |
| | `NumbersFree` | `Spec => []PublicationsDoNotCollide` |
| | `PricesStayPinned` | `Spec => []PricesPinned` |
| `DataOperationsProofs` | `TypeCorrect` | `Spec => []TypeOK` |
| | `LossBounded` | `Spec => []LossIsBounded` |
| | `SourcesStay` | `Spec => []SourcesKept` |
| | `BackedUpFirst` | `Spec => BackupFirst` |

**QuotationLifecycle.** The inductive invariant `IInv` has three parts. `Rows`: types,
the chain stated for every row id (an id is used iff it is at most `latest`, is
current iff it equals `latest`), and `StageShape`. `Requests`: what a request carries
from its checks to its writes, in particular that the target of a superseding
request is below `MaxVersion`. This is needed because the guard that bounds versions
is evaluated when the request is sent and used when it writes: the writer's own
condition says only that the target is current, hence `latest`, hence that
`latest + 1` is an id. `Records`: types of the tables that only grow.
`CurrentIsNewest` alone is not inductive: a step may add a row only where none is,
and it is `Chain` on *unused* ids that says so. `SnapshotsStay` then follows step by
step: the writers of drafts miss other rows by their WHERE, superseding steps change
only currency, and the two discount writers require a current version that awaits
submission.

**The offers of versions.** `RowStep` says once what any step
does to the rows, field by field: nothing, or one of `Creates`, `Saves`, `Generates`, `Adjusts`,
`Confirms`, `Decides`, `Continues`. Everything after it, the refinement included, reasons
about these and opens no action again. The properties need four invariants beside
`IInv`:

- `OffersKept`: `DecisionKeepsOffer` and `DiscountProvenance` look at the version before, so
  the step that adds a version needs that a first version is never a decision.
- `EditsAgree`: `PricedAsStored` is not inductive, for a save writes lines *and* totals that
  it calculated from a read some steps ago. `DraftsAgree` says what makes that right: a
  request that is about to write, and whose revision is still the row's, holds the
  row's lines but for those of the one space it changes. Every save of lines moves the
  revision, so the WHERE of `saveDraft` finds either that revision or no row.
  `addDraftScopes` merges into what is stored. `PagesBehind` adds that no page is ahead of
  its version and that a save still belongs to the page it was sent from; with
  it `NoLostUpdate` holds of each step.
- `FilesFrozen`: what `ExportsAreFrozen` says of stored files holds already of the file a
  request is making, since no step leads a version that is QUOTED or APPROVED back to DRAFT.
- `OnRecord`: splits `TransitionsLogged` by the kind of decision. Without that a
  decision could be vouched for by the request or the event of another kind on the
  same version, which may end without writing this one's.

**Refinement.** Under the mapping of `QuotationRefinement` each of the seven ways to change
rows is one action of `QuotationFlow` or a stutter. `QuotationFlow` has no fairness, so this
is all of `ImplementsFlow`.

**QuotationPages.** `AppliedAsShown` says of a request that names a version, or a version
and a revision, what it finds when it is carried out. A line, a discount and a decision:
*everything* the page showed (`SameOffer`, all but the revision). A new draft: the same, or
the same with a discount submitted since the check, which it drops. A file: it was made
of what the page showed, though by the time it is stored a discount may be waiting. The
two exceptions are the interleavings by which `PendingLeftToOwner` and
`NoExportWhilePending` fail (section 4). What makes the rest true is how a quotation can
change without its version changing: in a draft every change moves the revision, and
once it is generated only a discount may be submitted, or the revision alone be raised by a
late `updateSpace`. `Came` is that order, and `Past` says that every page, request and answer
is behind the server in it, and that a checked export holds what its page showed
(`AdmittedIsCurrent`); with `Shaped` (a request fits the stage its page showed) what is
accepted is what was shown (`AcceptedIsCurrent`, `ContinuedIsCurrent`). `ShownForward` needs
more: an answer replaces what its page shows *when it arrives*. `Ahead` says that from
the moment such a request is accepted until its answer is handled its page is strictly
behind the server (by a version if a decision is to come, `Behind`), and not ahead of the answer
once that was read; `Alone`, that no page waits for two such answers: the second request was
sent from a page that was behind the server, and is refused.
`InPlace` keeps the two kinds of pages apart, those that show what answers bring and those
that show what their loader brings. `ShownInv`, all of these with `TypeOK`, `Shaped` and
`Numbered`, is inductive; TLC checked it on the instance of the run before it was proved.

**QuotationPricing.** `StoredIsCalculated` compares what SQL statements and partial updates
left behind with what the calculator makes of the entries. `IInv` says of the rows one by
one what that amounts to. `Calculated`: every row has the quantity its rule gives and the
amounts of that quantity. A reference names a line that is no reference itself, so it
ends after one step, and the quantity has a closed form (`Resolved`), which is all later
steps use of the calculator. `LineValues` and `HeaderPriced` add what the tables' checks
say, the latter also that the header's amounts come from the totals of the scopes under
an adjustment with a rate of at most one: without it the adjusted total could exceed the
total. `PreviousPriced` says the same of the version before, for `ComparisonExplainsTotal`:
equal quantities and prices of every line give equal totals only if the older total was the
sum of those amounts too. `NothingBlocked` is what is left of the service's check once the
version is no draft. The hard steps are those of `updateSpace`: its statements visit only
rows of the space whose rule looks at a measure, and rows that refer to others;
`RequantifiedRow` and `RepricedRow` show that the rest would be calculated as it is stored.
Totals are folds over finite sets; that such a fold exists, is a natural number and
does not change with values that are equal is proved by the least number at which it
would fail (`SumsExist`, `SumEquation`, `SumIsNat`).

**QuotationExport.** The properties say what recursion over sequences of any length
computes. The library's induction theorems take an operator as a parameter, which the
provers cannot instantiate; so the module states induction with the *set* of numbers
reached (`Induction`, `SequenceInduction`) and recursion with a *function* for its step
(`Recursion`: the recursive function exists), and shows by the latter that each recursive
function of the model satisfies its equation (`AtSteps`, `TotalSteps`, `FlattenSteps`, `LaidSteps`).
What a file says is then shown by induction over three things. Over the sections:
`Listed` says which lines, subtotals and sections the rows have, and that they are in
order, and adding a section keeps it (`ListedStep`). Over the scopes of a version: `Exported`
says that the sections have the priced lines of the scopes, and their sum; a scope whose
lines are all left out has a subtotal of 0, since a line with an amount is never left out
(here `VersionsAreCalculated` is needed). Over the rows of the PDF: `OrderedTo` says that the
rows so far are in their places *and* where the next one would go, which makes it
inductive. `FileExplainsPrice` needs besides that each number shown is within half a unit
of what it stands for, so a sum of n is within n halves and the number it is compared
with adds one more (`RoundedSum`), and that the price is that of the summary whichever of
its two forms a version has. The requests themselves only need `TypeOK`, which is
inductive.

**SpaceEditing.** The argument is that of rely and guarantee. `Sound(c)` says of each
transaction what it has read and written at the statement where it stands: which keys
it may hold, that headers it holds are drafts with a revision no smaller than the
committed one (`HeadersHeld`), which columns of its scope already have the new measure
(`Updating`, `Written`), that a deletion has raised the revision before it moves orders
(`Removing`), that a save knows the scopes while the revision is the one it read
(`Saving`). Only the commit of another request can disturb it, and there are two
reasons why none does. Rows it holds are left alone (`Undisturbed`, from `LocksDisjoint`
and the locks each statement waits for); all other rows change only in certain ways
(`Evolves`): deleted spaces stay deleted, no version that has left the draft becomes
the draft again, the revision of a draft never falls and rises with every change of its
scopes, generated versions keep totals and set of scopes (for `updateSpace`, whose UPDATE
does not look at the status again, by `SnapshotGuard`), and a scope goes only
with its space. `OthersStaySound` shows these two to be enough, once for all requests;
each action then has one lemma, that it keeps `IInv` and satisfies `Evolves`.
`ChangesTold` and `GeneratedKept` are parts of `Evolves`. `DraftReached` rests on
`Updating`: the transaction holds its space from the first UPDATE on, so no other drops the
scope; and should another version become the draft in between, the statements that
follow write to that one, while the version of `scopeOf` is no draft at the commit.
`IInv` was first checked by TLC, for two browsers over all states and for three by
simulation.

**UserSessions.** The write that demotes or disables an administrator does not repeat
the check for another one, so `AdministratorRemains` is not inductive. `IInv` adds that
between check and write another administrator is there (`AnotherRemains`), which
stays true because only one transaction is past the advisory lock
(`OneManagesAtATime`), that a request carries what its checks established (`Carried`),
and that sessions belong to accounts. `DeletedActNoMore` needs besides that accounts
once disabled stay disabled and that `disabledBefore` only names disabled accounts;
it then rests on the status test of `getSessionUser` alone.

**CatalogPublishing.** A publication takes its number, and the batch it publishes, some
steps before it commits them. What makes `BatchesAndVersionsAgree` inductive is
therefore what a request holds in between (`Carried`): past the statement that
locks the table, that lock and the number after the last one; past the statement
that locks the row, that lock and a batch still `VALIDATED`. `Batches` adds that a
batch which may be published has no blockers, `Numbered` that versions are numbered
1 to their count, so the maximum the code selects is the count (`LastIsCount`).
`PricesPinned` is inductive with the record shape of quotations and with the fact
that a first draft is opened from a version already published (`Quotations`): a
publication changes remarks only. `Commit` also tests the unique number, as the
index does; `NumbersFree` shows that this test is never what refuses a publication.

**DataOperations.** `LossIsBounded` and `SourcesKept` are not inductive: pruning would take
the backups in use if the lock did not exclude it. `IInv` says what each script
carries at each step (`Carried`: from its backup on, clear and restore rely on a
complete one), that they hold the lock throughout and other scripts while they back
up (`Held`), that the source of a restore verifies (`SourceThere`), that a torn
database or backup has no rows (`TornIsEmpty`), and that the backup of a clear or
restore covers the rows of the database, save those exposed or restored (`Covered`).
`BackupFirst` follows for each step that replaces data. Its second disjunct is real:
a deployment that found no tables makes no backup, and a restore that comes between
its check and its migration brings data that are then migrated without one.
Two scripts do not show this, for the database must first have lost its tables;
with `MaxStarts = 3` TLC does.

Model-checked only: `DecisionsReachLog`, `RequestsEnd`, `ServicesReturn` and `ControlsReturn`,
for liveness under fairness and ENABLED are beyond the proof system. All other
properties of the passing runs are theorems. `TypeOK` of `DataOperations` is a theorem and
not among the properties of its run, which are the four that say something about the
scripts.

## 6. What is not modelled

- The margin benchmark itself: `updateMarginBenchmark` is one UPDATE of a column that one
  page shows and nothing else reads; its control and request are in `QuotationPages`.
- Creation of a project (the initial state), lists and reports: they only read.
- User management, project creation and login of the web client: each sends one
  request and reloads what it shows.
- What the forms of spaces contain: the form that renames a space sends all fields as
  loaded, so of two such forms the later one wins; the API has no revision for spaces
  (`SpaceEditing` has the same update).
- Drawing of the budget pages, styles and pictures of exported files; cells of
  uploaded workbooks beyond what blocks a batch.
- Validation of request bodies, wiring of modules, transfer types.
- The seed, the repair migrations, the timer's installation, reports on the
  environment: run once, or without effect on data.
- The connection pool: its limit of connections is not reached by one request per
  browser, and no transaction waits for a second connection.

## 7. What could come next

1. A statement of `NotesComplete` that holds, for notes without punctuation, and its proof:
   what `WrapText` keeps of a text whose lines were estimated high enough.
2. That `SpaceEditing` implements the transactions of spaces as `QuotationLifecycle` has
   them, one step each, where the properties above say it does.
3. User management and project creation as pages of the web client.

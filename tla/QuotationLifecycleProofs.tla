----------------------- MODULE QuotationLifecycleProofs ---------------------
(***************************************************************************)
(* Proofs about QuotationLifecycle, for any browsers, spaces, entries and  *)
(* discounts and any bounds: first the chain of versions and what requests *)
(* carry; then what a version offers, its lines, its totals and its        *)
(* discount, from the edits of the draft to the decision, the exported     *)
(* files and the audit log.  The second part says once what any step does  *)
(* to the rows; the proofs after it never open an action for its rows      *)
(* again; the last part proves that the rows implement QuotationFlow.      *)
(***************************************************************************)
EXTENDS QuotationRefinement, TLAPS

\* The version chain, said of every row id: an unused row is never current.
Chain ==
    \A id \in Ids :
        /\ row[id].status # "NONE" <=> id <= latest
        /\ row[id].isCurrent <=> id = latest
        /\ id <= latest => /\ row[id].versionNumber = id
                           /\ row[id].parentVersionId = id - 1

\* The operations that write to a version they have read.
Targeting ==
    {"addMissingProjectScopes", "updateLine", "submit", "SUBMIT_FOR_APPROVAL",
     "CONFIRM", "APPROVED", "RETURNED", "continueEditing", "createExport"}

\* Those that make a new version from it.
Superseding == {"CONFIRM", "APPROVED", "RETURNED", "continueEditing"}

\* What a request under way carries from its checks to its writes.
Carries(r) ==
    /\ r.op \in Targeting => r.target \in Ids
    /\ r.op \in Superseding /\ r.phase \in {"probe", "write"} =>
          r.target < MaxVersion
    /\ r.op \in {"SUBMIT_FOR_APPROVAL", "CONFIRM", "createExport"} =>
          r.discountRate \in Discounts
    /\ r.op = "addSpace" => r.space \in Spaces

Carried == \A c \in Clients : Carries(req[c])

\* The inductive invariant, in three parts: half_package_quotations, the
\* requests under way, and the tables and pages that only grow or follow.
Rows == row \in [Ids -> Row] /\ latest \in 0..MaxVersion /\ Chain /\ StageShape

Requests == req \in [Clients -> Request] /\ Carried

Records ==
    /\ spaces \subseteq Spaces
    /\ decisions \subseteq Decision
    /\ audit \subseteq [action : Actions, target : Ids]
    /\ exports \subseteq Export
    /\ page \in [Clients -> [id : Ids \cup {0}, revision : Nat]]

IInv == Rows /\ Requests /\ Records

-----------------------------------------------------------------------------
(***************************************************************************)
(* The operators of the model are well typed.                              *)
(***************************************************************************)

\* buildDraft adds initial entries and keeps the others.
LEMMA WithScopesTyped ==
    ASSUME NEW l \in Lines, NEW added
    PROVE  WithScopes(l, added) \in Lines
  BY ConstantsAssumption DEF WithScopes, Lines

\* An unused row and an idle browser are well typed.
LEMMA NothingTyped == NoRow \in Row /\ NoRequest \in Request
  <1>1. NoLines \in Lines
    BY DEF NoLines, Lines
  <1>2. NoRow \in Row
    BY <1>1, ConstantsAssumption
    DEF NoRow, Row, Statuses, AdjustmentStatuses
  <1>3. NoRequest \in Request
    BY <1>1 DEF NoRequest, Request, Phases
  <1> QED BY <1>2, <1>3

\* cloneAsVersion makes a draft with the next number whose parent is the source.
LEMMA ClonedTyped ==
    ASSUME row \in [Ids -> Row], NEW id \in Ids, NEW preserve
    PROVE  /\ Cloned(id, preserve) \in Row
           /\ Cloned(id, preserve).status = "DRAFT"
           /\ Cloned(id, preserve).adjustmentStatus =
                 IF preserve THEN row[id].adjustmentStatus
                 ELSE "AWAITING_SUBMISSION"
           /\ Cloned(id, preserve).isCurrent
           /\ Cloned(id, preserve).versionNumber = row[id].versionNumber + 1
           /\ Cloned(id, preserve).parentVersionId = id
  <1>1. /\ row[id] \in Row
        /\ Full \in Discounts
    BY ConstantsAssumption
  <1>2. ASSUME NEW r \in Row, NEW discount \in Discounts,
               NEW s \in AdjustmentStatuses
        PROVE  [r EXCEPT !.status = "DRAFT", !.adjustmentStatus = s,
                         !.isCurrent = TRUE,
                         !.versionNumber = r.versionNumber + 1,
                         !.parentVersionId = id, !.revision = 0,
                         !.discountRate = discount] \in Row
    <2> DEFINE n == r.versionNumber + 1
               yes == TRUE
    <2>1. n \in Nat /\ yes \in BOOLEAN
      BY DEF Row
    <2> HIDE DEF n, yes
    <2>2. [r EXCEPT !.status = "DRAFT", !.adjustmentStatus = s,
                    !.isCurrent = yes, !.versionNumber = n,
                    !.parentVersionId = id, !.revision = 0,
                    !.discountRate = discount] \in Row
      BY <2>1 DEF Row, Statuses
    <2> QED BY <2>2 DEF n, yes
  <1>3. /\ row[id].adjustmentStatus \in AdjustmentStatuses
        /\ row[id].discountRate \in Discounts
    BY <1>1 DEF Row
  <1>4. "AWAITING_SUBMISSION" \in AdjustmentStatuses
    BY DEF AdjustmentStatuses
  <1>5. Cloned(id, preserve) \in Row
    <2>1. CASE preserve
      BY <1>1, <1>2, <1>3, <2>1 DEF Cloned
    <2>2. CASE ~preserve
      BY <1>1, <1>2, <1>4, <2>2 DEF Cloned
    <2> QED BY <2>1, <2>2
  <1>6. /\ Cloned(id, preserve).status = "DRAFT"
        /\ Cloned(id, preserve).adjustmentStatus =
              IF preserve THEN row[id].adjustmentStatus
              ELSE "AWAITING_SUBMISSION"
        /\ Cloned(id, preserve).isCurrent
        /\ Cloned(id, preserve).versionNumber = row[id].versionNumber + 1
        /\ Cloned(id, preserve).parentVersionId = id
    BY <1>1 DEF Cloned, Row
  <1> QED BY <1>5, <1>6

\* A request that moves on to a well-typed record that carries what it must.
LEMMA RequestStep ==
    ASSUME Requests, NEW c \in Clients, NEW r \in Request, Carries(r),
           Checked(c, r)
    PROVE  Requests'
  BY DEF Requests, Checked, Carried, Carries

\* A request that ends, commits or breaks.
LEMMA RequestEnds ==
    ASSUME Requests, NEW c \in Clients,
           Answered(c) \/ Committed(c) \/ Broken(c)
    PROVE  Requests'
  <1>1. CASE Answered(c)
    <2>1. Carries(NoRequest)
      BY DEF Carries, NoRequest, Targeting, Superseding
    <2> QED BY <1>1, <2>1, NothingTyped, RequestStep DEF Answered, Checked
  <1>2. CASE Committed(c)
    <2> DEFINE r == [req[c] EXCEPT !.phase = "finish"]
    <2>1. r \in Request
      BY DEF Requests, Request, Phases
    <2>2. Carries(r)
      BY DEF Requests, Carried, Carries, Request
    <2>3. Checked(c, r)
      BY <1>2 DEF Committed, Checked
    <2> QED BY <2>1, <2>2, <2>3, RequestStep
  <1>3. CASE Broken(c)
    <2> DEFINE r == [req[c] EXCEPT !.phase = "error"]
    <2>1. r \in Request
      BY DEF Requests, Request, Phases
    <2>2. Carries(r)
      BY DEF Requests, Carried, Carries, Request
    <2>3. Checked(c, r)
      BY <1>3 DEF Broken, Checked
    <2> QED BY <2>1, <2>2, <2>3, RequestStep
  <1> QED BY <1>1, <1>2, <1>3

-----------------------------------------------------------------------------
(***************************************************************************)
(* What the transactions do to the rows.                                   *)
(***************************************************************************)

\* StageShape, said of one row.
Shape(r) ==
    /\ r.status = "DRAFT" => r.isCurrent
    /\ r.status \in {"DRAFT", "RETURNED"} =>
          r.adjustmentStatus = "AWAITING_SUBMISSION"
    /\ r.status = "APPROVED" => r.adjustmentStatus = "CONFIRMED"
    /\ r.status = "QUOTED" /\ r.adjustmentStatus = "CONFIRMED" => ~r.isCurrent

\* Row r keeps the place of row id in the chain.
KeepsPlace(r, id) ==
    /\ r.status # "NONE"
    /\ r.versionNumber = row[id].versionNumber
    /\ r.parentVersionId = row[id].parentVersionId

\* A step that leaves the rows and their number alone keeps what IInv says of
\* them.
LEMMA RowsUnchanged ==
    ASSUME Rows, UNCHANGED <<row, latest>>
    PROVE  Rows'
  BY DEF Rows, Chain, StageShape, Made

\* An UPDATE of a version in use that leaves is_current alone.
LEMMA RowUpdated ==
    ASSUME Rows, NEW id \in Ids, row[id].status # "NONE",
           NEW r \in Row, KeepsPlace(r, id), Shape(r),
           r.isCurrent <=> row[id].isCurrent,
           row' = [row EXCEPT ![id] = r], latest' = latest
    PROVE  Rows'
  <1>1. row' \in [Ids -> Row] /\ latest' \in 0..MaxVersion
    BY DEF Rows
  <1>2. \A i \in Ids : row'[i] = IF i = id THEN r ELSE row[i]
    BY DEF Rows
  <1>3. Chain'
    BY <1>2 DEF Rows, Chain, KeepsPlace, Ids
  <1>4. StageShape'
    BY <1>2 DEF Rows, StageShape, Shape, Made
  <1> QED BY <1>1, <1>3, <1>4 DEF Rows

\* The newest version is superseded: it becomes old, and new follows it.
LEMMA RowSuperseded ==
    ASSUME Rows, NEW id \in Ids, id = latest, id < MaxVersion,
           NEW old \in Row, KeepsPlace(old, id), ~old.isCurrent, Shape(old),
           NEW new \in Row, new.status # "NONE", new.isCurrent, Shape(new),
           new.versionNumber = id + 1, new.parentVersionId = id,
           row' = [row EXCEPT ![id] = old, ![NextId] = new],
           latest' = NextId
    PROVE  Rows'
  <1>1. /\ MaxVersion \in Nat /\ latest \in Nat
        /\ NextId \in Ids /\ NextId = id + 1 /\ NextId # id
    BY ConstantsAssumption DEF Rows, Ids, NextId
  <1>2. row' \in [Ids -> Row] /\ latest' \in 0..MaxVersion
    BY <1>1 DEF Rows, Ids
  <1>3. \A i \in Ids : row'[i] = IF i = NextId THEN new
                                 ELSE IF i = id THEN old ELSE row[i]
    BY <1>1 DEF Rows
  <1>4. Chain'
    <2> SUFFICES ASSUME NEW i \in Ids
                 PROVE  /\ row'[i].status # "NONE" <=> i <= latest'
                        /\ row'[i].isCurrent <=> i = latest'
                        /\ i <= latest' => /\ row'[i].versionNumber = i
                                           /\ row'[i].parentVersionId = i - 1
      BY DEF Chain
    <2>1. CASE i = NextId
      <3>1. row'[i] = new
        BY <1>3, <2>1
      <3>2. i = latest' /\ i <= latest' /\ id = i - 1
        BY <1>1, <2>1
      <3> QED BY <1>1, <2>1, <3>1, <3>2
    <2>2. CASE i = id
      <3>1. row'[i] = old
        BY <1>1, <1>3, <2>2
      <3>2. row[id].versionNumber = id /\ row[id].parentVersionId = id - 1
        BY <1>1 DEF Rows, Chain, Ids
      <3>3. i <= latest' /\ i # latest'
        BY <1>1, <2>2
      <3> QED BY <2>2, <3>1, <3>2, <3>3 DEF KeepsPlace
    <2>3. CASE i # NextId /\ i # id
      BY <1>1, <1>3, <2>3 DEF Rows, Chain, Ids
    <2> QED BY <2>1, <2>2, <2>3
  <1>5. StageShape'
    BY <1>3 DEF Rows, StageShape, Shape, Made
  <1> QED BY <1>2, <1>4, <1>5 DEF Rows

\* A request that has made a new version goes on with that version.
LEMMA RequestFollows ==
    ASSUME Requests, NEW c \in Clients, NEW id \in Ids,
           req' = [req EXCEPT ![c].phase = "finish", ![c].target = id]
    PROVE  Requests'
  <1> DEFINE r == [req[c] EXCEPT !.phase = "finish", !.target = id]
  <1>1. r \in Request
    BY DEF Requests, Request, Phases
  <1>2. Carries(r)
    BY DEF Requests, Carried, Carries, Request
  <1>3. Checked(c, r)
    BY DEF Checked, Requests
  <1> QED BY <1>1, <1>2, <1>3, RequestStep

\* The current version is the newest, and it is in use.
LEMMA CurrentIsLatest ==
    ASSUME Rows, NEW id \in Ids, row[id].isCurrent
    PROVE  id = latest /\ row[id].status # "NONE"
  BY DEF Rows, Chain, Ids

-----------------------------------------------------------------------------
(***************************************************************************)
(* What is written to the other tables and shown in the browsers.          *)
(***************************************************************************)
LEMMA ShownTyped ==
    ASSUME Rows, Records, NEW c \in Clients, NEW id \in Ids, Shown(c, id)
    PROVE  page' \in [Clients -> [id : Ids \cup {0}, revision : Nat]]
  <1>1. row[id].revision \in Nat
    BY DEF Rows, Row
  <1> QED BY <1>1 DEF Records, Shown

\* An audit event about an existing version keeps the log well typed.
LEMMA AuditedTyped ==
    ASSUME Records, NEW action \in Actions, NEW id \in Ids, Audited(action, id)
    PROVE  audit' \subseteq [action : Actions, target : Ids]
  BY DEF Records, Audited

\* A decision about an existing version keeps the decisions well typed.
LEMMA DecidedTyped ==
    ASSUME Records, NEW c \in Clients, NEW id \in Ids,
           NEW action \in {"QUOTED", "APPROVED", "RETURNED"},
           Decided(c, action, id)
    PROVE  decisions' \subseteq Decision
  BY DEF Records, Decided, Decision

\* Tables and pages that a step leaves alone.
LEMMA RecordsUnchanged ==
    ASSUME Records, UNCHANGED <<spaces, decisions, audit, exports, page>>
    PROVE  Records'
  BY DEF Records

-----------------------------------------------------------------------------
(***************************************************************************)
(* Every step preserves the invariant: one lemma per operation.            *)
(***************************************************************************)
LEMMA ViewVersionStep ==
    ASSUME IInv, NEW c \in Clients, ViewVersion(c)
    PROVE  IInv'
  <1>1. Rows'
    BY RowsUnchanged DEF IInv, ViewVersion, database
  <1>2. Requests'
    BY DEF IInv, ViewVersion, Requests, Carried, Carries
  <1>3. Records'
    <2>1. PICK id \in CurrentRows : Shown(c, id)
      BY DEF ViewVersion
    <2>2. id \in Ids
      BY DEF CurrentRows
    <2>3. page' \in [Clients -> [id : Ids \cup {0}, revision : Nat]]
      BY <2>1, <2>2, ShownTyped DEF IInv
    <2> QED BY <2>3 DEF IInv, ViewVersion, database, Records
  <1> QED BY <1>1, <1>2, <1>3 DEF IInv

\* getOrCreateDraft up to its transactions only reads.
LEMMA FindStep ==
    ASSUME IInv, NEW c \in Clients,
           GetProject(c) \/ FindDraft(c) \/ FindLatest(c)
    PROVE  IInv'
  <1>1. Rows'
    BY RowsUnchanged DEF IInv, GetProject, FindDraft, FindLatest, database
  <1>2. CASE GetProject(c)
    <2> DEFINE r == [NoRequest EXCEPT !.op = "getOrCreateDraft",
                                      !.phase = "findDraft",
                                      !.knownSpaces = spaces]
    <2>1. r \in Request
      BY NothingTyped DEF IInv, Records, Request, AllOperations, Phases
    <2>2. Carries(r)
      BY DEF NoRequest, Carries, Targeting, Superseding
    <2>3. Requests'
      BY <1>2, <2>1, <2>2, RequestStep DEF IInv, GetProject
    <2>4. Records'
      BY <1>2, RecordsUnchanged DEF IInv, GetProject, database
    <2> QED BY <1>1, <2>3, <2>4 DEF IInv
  <1>3. CASE FindDraft(c)
    <2>1. ASSUME NEW id \in DraftRows, Answered(c), Shown(c, id)
          PROVE  Requests' /\ Records'
      <3>1. id \in Ids
        BY DEF DraftRows, CurrentRows
      <3>2. Requests'
        BY <2>1, RequestEnds DEF IInv
      <3>3. page' \in [Clients -> [id : Ids \cup {0}, revision : Nat]]
        BY <2>1, <3>1, ShownTyped DEF IInv
      <3> QED BY <1>3, <3>2, <3>3 DEF IInv, Records, FindDraft, database
    <2>2. ASSUME NEW id \in DraftRows, UNCHANGED page,
                 Checked(c, [req[c] EXCEPT
                                !.op = "addMissingProjectScopes",
                                !.phase = "write",
                                !.target = id,
                                !.expectedRevision = row[id].revision,
                                !.lines = row[id].lines])
          PROVE  Requests' /\ Records'
      <3> DEFINE r == [req[c] EXCEPT
                          !.op = "addMissingProjectScopes",
                          !.phase = "write",
                          !.target = id,
                          !.expectedRevision = row[id].revision,
                          !.lines = row[id].lines]
      <3>1. id \in Ids /\ row[id].revision \in Nat /\ row[id].lines \in Lines
        BY DEF IInv, Rows, Row, DraftRows, CurrentRows
      <3>2. r \in Request
        BY <3>1 DEF IInv, Requests, Request, Phases
      <3>3. Carries(r)
        BY <3>1 DEF IInv, Requests, Request, Carries, Superseding
      <3>4. Requests'
        BY <2>2, <3>2, <3>3, RequestStep DEF IInv
      <3>5. Records'
        BY <1>3, <2>2, RecordsUnchanged DEF IInv, FindDraft, database
      <3> QED BY <3>4, <3>5
    <2>3. ASSUME Checked(c, [req[c] EXCEPT !.phase = "findLatest"]),
                 UNCHANGED page,
                 req[c].op = "getOrCreateDraft"
          PROVE  Requests' /\ Records'
      <3> DEFINE r == [req[c] EXCEPT !.phase = "findLatest"]
      <3>1. r \in Request
        BY DEF IInv, Requests, Request, Phases
      <3>2. Carries(r)
        BY <2>3 DEF IInv, Requests, Request, Carries, Targeting, Superseding
      <3>3. Requests'
        BY <2>3, <3>1, <3>2, RequestStep DEF IInv
      <3>4. Records'
        BY <1>3, <2>3, RecordsUnchanged DEF IInv, FindDraft, database
      <3> QED BY <3>3, <3>4
    <2>4. Requests' /\ Records'
      BY <1>3, <2>1, <2>2, <2>3 DEF FindDraft, Waiting
    <2> QED BY <1>1, <2>4 DEF IInv
  <1>4. CASE FindLatest(c)
    <2>1. ASSUME NEW id \in CurrentRows, Answered(c), Shown(c, id)
          PROVE  Requests' /\ Records'
      <3>1. id \in Ids
        BY DEF CurrentRows
      <3>2. Requests'
        BY <2>1, RequestEnds DEF IInv
      <3>3. page' \in [Clients -> [id : Ids \cup {0}, revision : Nat]]
        BY <2>1, <3>1, ShownTyped DEF IInv
      <3> QED BY <1>4, <3>2, <3>3 DEF IInv, Records, FindLatest, database
    <2>2. ASSUME Checked(c, [req[c] EXCEPT !.phase = "write"]),
                 UNCHANGED page,
                 req[c].op = "getOrCreateDraft"
          PROVE  Requests' /\ Records'
      <3> DEFINE r == [req[c] EXCEPT !.phase = "write"]
      <3>1. r \in Request
        BY DEF IInv, Requests, Request, Phases
      <3>2. Carries(r)
        BY <2>2 DEF IInv, Requests, Request, Carries, Targeting, Superseding
      <3>3. Requests'
        BY <2>2, <3>1, <3>2, RequestStep DEF IInv
      <3>4. Records'
        BY <1>4, <2>2, RecordsUnchanged DEF IInv, FindLatest, database
      <3> QED BY <3>3, <3>4
    <2>3. Requests' /\ Records'
      BY <1>4, <2>1, <2>2 DEF FindLatest, Waiting
    <2> QED BY <1>1, <2>3 DEF IInv
  <1> QED BY <1>2, <1>3, <1>4

\* The first draft of a project is made only when it has no version at all.
LEMMA CreateDraftStep ==
    ASSUME IInv, NEW c \in Clients, CreateDraft(c)
    PROVE  IInv'
  <1>1. Records'
    BY RecordsUnchanged DEF IInv, CreateDraft
  <1>2. CASE CurrentRows # {}
    <2>1. Rows'
      BY <1>2, RowsUnchanged DEF IInv, CreateDraft
    <2>2. Requests'
      BY <1>2, RequestEnds DEF IInv, CreateDraft
    <2> QED BY <1>1, <2>1, <2>2 DEF IInv
  <1>3. CASE CurrentRows = {}
    <2>1. latest = 0 /\ NextId = 1 /\ NextId \in Ids
      <3>1. latest \in Ids => row[latest].isCurrent
        BY DEF IInv, Rows, Chain
      <3>2. latest \notin Ids
        BY <1>3, <3>1 DEF CurrentRows
      <3> QED BY <3>2, ConstantsAssumption DEF IInv, Rows, Ids, NextId
    <2> DEFINE lines == WithScopes(NoLines, req[c].knownSpaces)
               r == [NoRow EXCEPT !.status = "DRAFT", !.isCurrent = TRUE,
                                  !.versionNumber = 1,
                                  !.lines = lines, !.priced = lines]
    <2>2. lines \in Lines
      <3>1. NoLines \in Lines
        BY DEF NoLines, Lines
      <3> QED BY <3>1, WithScopesTyped
    <2>3. row' = [row EXCEPT ![NextId] = r] /\ latest' = NextId
      BY <1>3 DEF CreateDraft
    <2> HIDE DEF lines
    <2>4. r \in Row
      BY <2>2, NothingTyped DEF Row, Statuses
    <2>5. /\ r.status = "DRAFT" /\ r.adjustmentStatus = "AWAITING_SUBMISSION"
          /\ r.isCurrent /\ r.versionNumber = 1 /\ r.parentVersionId = 0
      BY DEF NoRow
    <2> HIDE DEF r
    <2>6. \A i \in Ids : row'[i] = IF i = 1 THEN r ELSE row[i]
      BY <2>1, <2>3 DEF IInv, Rows
    <2>7. row' \in [Ids -> Row] /\ latest' \in 0..MaxVersion
      BY <2>1, <2>3, <2>4 DEF IInv, Rows, Ids
    <2>8. Chain'
      <3> SUFFICES ASSUME NEW i \in Ids
                   PROVE  /\ row'[i].status # "NONE" <=> i <= latest'
                          /\ row'[i].isCurrent <=> i = latest'
                          /\ i <= latest' => /\ row'[i].versionNumber = i
                                             /\ row'[i].parentVersionId = i - 1
        BY DEF Chain
      <3>1. CASE i = 1
        BY <2>1, <2>3, <2>5, <2>6, <3>1
      <3>2. CASE i # 1
        BY <2>1, <2>3, <2>6, <3>2 DEF IInv, Rows, Chain, Ids
      <3> QED BY <3>1, <3>2
    <2>9. StageShape'
      BY <2>5, <2>6 DEF IInv, Rows, StageShape, Made
    <2>10. Requests'
      BY <1>3, <2>1, RequestFollows DEF IInv, CreateDraft
    <2> QED BY <1>1, <2>7, <2>8, <2>9, <2>10 DEF IInv, Rows
  <1> QED BY <1>2, <1>3

\* A save that finds its revision replaces the lines of the draft.
LEMMA AddDraftScopesStep ==
    ASSUME IInv, NEW c \in Clients, AddDraftScopes(c)
    PROVE  IInv'
  <1> DEFINE id == req[c].target
             added == req[c].knownSpaces \ Quoted(req[c].lines)
             revision == req[c].expectedRevision
  <1>1. Records'
    BY RecordsUnchanged DEF IInv, AddDraftScopes
  <1>2. CASE IsDraftAt(id, revision)
    <2> DEFINE l == WithScopes(row[id].lines, added)
               p == WithScopes(req[c].lines, added)
               n == revision + 1
               r == [row[id] EXCEPT !.lines = l, !.priced = p,
                                    !.revision = n]
    <2>1. id \in Ids /\ n \in Nat /\ req[c].lines \in Lines
      BY DEF IInv, Requests, Carried, Carries, Targeting, Request,
             AddDraftScopes, Waiting
    <2>2. l \in Lines /\ p \in Lines /\ row[id] \in Row
      BY <2>1, WithScopesTyped DEF IInv, Rows, Row
    <2>3. row' = [row EXCEPT ![id] = r] /\ latest' = latest /\ Committed(c)
      BY <1>2, <2>1 DEF AddDraftScopes, IInv, Rows
    <2> HIDE DEF n, l, p, id, revision
    <2>4. r \in Row
      BY <2>1, <2>2 DEF Row
    <2>5. KeepsPlace(r, id) /\ Shape(r) /\ (r.isCurrent <=> row[id].isCurrent)
      BY <1>2, <2>1, <2>2
      DEF Row, KeepsPlace, Shape, IsDraftAt, IInv, Rows, StageShape, Made
    <2>6. Rows'
      BY <1>2, <2>1, <2>3, <2>4, <2>5, RowUpdated DEF IInv, IsDraftAt
    <2>7. Requests'
      BY <2>3, RequestEnds DEF IInv
    <2> QED BY <1>1, <2>6, <2>7 DEF IInv
  <1>3. CASE ~IsDraftAt(id, revision)
    <2>1. Rows'
      BY <1>3, RowsUnchanged DEF IInv, AddDraftScopes
    <2>2. Requests'
      BY <1>3, RequestEnds DEF IInv, AddDraftScopes
    <2> QED BY <1>1, <2>1, <2>2 DEF IInv
  <1> QED BY <1>2, <1>3

\* updateLine's save: the draft changes in place, at its own revision.
LEMMA SaveDraftStep ==
    ASSUME IInv, NEW c \in Clients, SaveDraft(c)
    PROVE  IInv'
  <1> DEFINE id == req[c].target
             revision == req[c].expectedRevision
  <1>1. Records'
    BY RecordsUnchanged DEF IInv, SaveDraft
  <1>2. CASE IsDraftAt(id, revision)
    <2> DEFINE l == req[c].lines
               n == revision + 1
               r == [row[id] EXCEPT !.lines = l, !.priced = l,
                                    !.revision = n]
    <2>1. id \in Ids /\ n \in Nat /\ l \in Lines /\ row[id] \in Row
      BY DEF IInv, Rows, Requests, Carried, Carries, Targeting, Request,
             SaveDraft, Waiting
    <2>2. row' = [row EXCEPT ![id] = r] /\ latest' = latest /\ Committed(c)
      BY <1>2, <2>1 DEF SaveDraft, IInv, Rows
    <2> HIDE DEF n, l, id, revision
    <2>3. r \in Row
      BY <2>1 DEF Row
    <2>4. KeepsPlace(r, id) /\ Shape(r) /\ (r.isCurrent <=> row[id].isCurrent)
      BY <1>2, <2>1
      DEF Row, KeepsPlace, Shape, IsDraftAt, IInv, Rows, StageShape, Made
    <2>5. Rows'
      BY <1>2, <2>1, <2>2, <2>3, <2>4, RowUpdated DEF IInv, IsDraftAt
    <2>6. Requests'
      BY <2>2, RequestEnds DEF IInv
    <2> QED BY <1>1, <2>5, <2>6 DEF IInv
  <1>3. CASE ~IsDraftAt(id, revision)
    <2>1. Rows'
      BY <1>3, RowsUnchanged DEF IInv, SaveDraft
    <2>2. Requests'
      BY <1>3, RequestEnds DEF IInv, SaveDraft
    <2> QED BY <1>1, <2>1, <2>2 DEF IInv
  <1> QED BY <1>2, <1>3

\* The requests that reload with findDraft.
LEMMA FinishEditStep ==
    ASSUME IInv, NEW c \in Clients, FinishDraft(c) \/ FinishLine(c)
    PROVE  IInv'
  <1>1. Rows'
    BY RowsUnchanged DEF IInv, FinishDraft, FinishLine
  <1>2. /\ UNCHANGED <<spaces, decisions, exports>>
        /\ \/ \E id \in DraftRows : Shown(c, id) /\ Answered(c)
           \/ Broken(c) /\ UNCHANGED page
    BY DEF FinishDraft, FinishLine
  <1>3. Requests'
    BY <1>2, RequestEnds DEF IInv
  <1>4. page' \in [Clients -> [id : Ids \cup {0}, revision : Nat]]
    <2>1. ASSUME NEW id \in DraftRows, Shown(c, id)
          PROVE  page' \in [Clients -> [id : Ids \cup {0}, revision : Nat]]
      BY <2>1, ShownTyped DEF IInv, DraftRows, CurrentRows
    <2> QED BY <1>2, <2>1 DEF IInv, Records
  <1>5. audit' \subseteq [action : Actions, target : Ids]
    <2>1. DraftRows \subseteq Ids
      BY DEF DraftRows, CurrentRows
    <2>2. CASE FinishDraft(c)
      <3>1. \/ UNCHANGED audit
            \/ \E id \in DraftRows : \/ Audited("QUOTATION_SCOPES_SYNCED", id)
                                     \/ Audited("QUOTATION_DRAFT_CREATED", id)
        BY <2>2 DEF FinishDraft
      <3> QED BY <2>1, <3>1, AuditedTyped DEF IInv, Records, Actions
    <2>3. CASE FinishLine(c)
      <3>1. req[c].target \in Ids
        BY <2>3 DEF FinishLine, Waiting, IInv, Requests, Carried, Carries,
                    Targeting
      <3>2. UNCHANGED audit \/ Audited("QUOTATION_LINE_UPDATED", req[c].target)
        BY <2>3 DEF FinishLine
      <3> QED BY <3>1, <3>2, AuditedTyped DEF IInv, Records, Actions
    <2> QED BY <2>2, <2>3
  <1>6. Records'
    BY <1>2, <1>4, <1>5 DEF IInv, Records
  <1> QED BY <1>1, <1>3, <1>6 DEF IInv

\* The handlers that read a version, check it and go on to write it.
LEMMA ReadStep ==
    ASSUME IInv, NEW c \in Clients,
           \/ ReadLine(c) \/ ReadForSubmit(c) \/ ReadForAdjustment(c)
           \/ ReadForDecision(c) \/ ReadForEditing(c) \/ ReadForExport(c)
           \/ ReadForSpace(c)
    PROVE  IInv'
  <1>1. UNCHANGED database /\ UNCHANGED page
    BY DEF ReadLine, ReadForSubmit, ReadForAdjustment, ReadForDecision,
           ReadForEditing, ReadForExport, ReadForSpace
  <1>2. Rows' /\ Records'
    BY <1>1, RowsUnchanged, RecordsUnchanged DEF IInv, database
  <1>3. DraftRows \subseteq Ids /\ CurrentRows \subseteq Ids
    BY DEF DraftRows, CurrentRows
  <1>4. page[c].id \in Ids \cup {0} /\ page[c].revision \in Nat
    BY DEF IInv, Records
  <1>5. \A id \in Ids : /\ row[id].lines \in Lines
                        /\ row[id].discountRate \in Discounts
    BY DEF IInv, Rows, Row
  <1>6. CASE ReadLine(c)
    <2>1. PICK id \in DraftRows, s \in Spaces, entry \in Entries :
             Checked(c, [NoRequest EXCEPT
                 !.op = "updateLine", !.phase = "write", !.target = id,
                 !.expectedRevision = page[c].revision, !.space = s,
                 !.lines = [row[id].lines EXCEPT ![s] = entry]])
      BY <1>6 DEF ReadLine
    <2> DEFINE l == [row[id].lines EXCEPT ![s] = entry]
               r == [NoRequest EXCEPT
                        !.op = "updateLine", !.phase = "write", !.target = id,
                        !.expectedRevision = page[c].revision, !.space = s,
                        !.lines = l]
    <2>2. l \in Lines
      BY <1>3, <1>5 DEF Lines
    <2>3. Checked(c, r)
      BY <2>1
    <2> HIDE DEF l
    <2>4. r \in Request
      BY <1>3, <1>4, <2>2, NothingTyped DEF Request, AllOperations, Phases
    <2>5. Carries(r)
      BY <1>3 DEF Carries, NoRequest, Superseding
    <2> QED BY <1>2, <2>3, <2>4, <2>5, RequestStep DEF IInv
  <1>7. CASE ReadForSubmit(c)
    <2>1. PICK id \in DraftRows :
             Checked(c, [NoRequest EXCEPT
                 !.op = "submit", !.phase = "write", !.target = id,
                 !.expectedRevision = page[c].revision])
      BY <1>7 DEF ReadForSubmit
    <2> DEFINE r == [NoRequest EXCEPT
                        !.op = "submit", !.phase = "write", !.target = id,
                        !.expectedRevision = page[c].revision]
    <2>2. r \in Request
      BY <1>3, <1>4, NothingTyped DEF Request, AllOperations, Phases
    <2>3. Carries(r)
      BY <1>3 DEF Carries, NoRequest, Superseding
    <2> QED BY <1>2, <2>1, <2>2, <2>3, RequestStep DEF IInv
  <1>8. CASE ReadForAdjustment(c)
    <2>1. PICK id \in CurrentRows, discount \in Discounts,
               op \in {"SUBMIT_FOR_APPROVAL", "CONFIRM"} :
             /\ page[c].id = id
             /\ op = "CONFIRM" => page[c].id < MaxVersion
             /\ Checked(c, [NoRequest EXCEPT
                    !.op = op, !.phase = "write", !.target = id,
                    !.expectedRevision = page[c].revision,
                    !.discountRate = discount])
      <3>1. CASE c \in Leads
        <4>1. c \notin Owners
          BY <3>1, ConstantsAssumption
        <4>2. \E id \in CurrentRows, discount \in Discounts :
                 /\ page[c].id = id
                 /\ Checked(c, [NoRequest EXCEPT
                        !.op = "SUBMIT_FOR_APPROVAL",
                        !.phase = "write", !.target = id,
                        !.expectedRevision = page[c].revision,
                        !.discountRate = discount])
          BY <1>8, <3>1 DEF ReadForAdjustment
        <4> QED BY <4>2
      <3>2. CASE c \notin Leads
        <4>1. page[c].id < MaxVersion
          BY <1>8, <3>2 DEF ReadForAdjustment
        <4>2. \E id \in CurrentRows, discount \in Discounts :
                 /\ page[c].id = id
                 /\ Checked(c, [NoRequest EXCEPT
                        !.op = "CONFIRM",
                        !.phase = "write", !.target = id,
                        !.expectedRevision = page[c].revision,
                        !.discountRate = discount])
          BY <1>8, <3>2 DEF ReadForAdjustment
        <4> QED BY <4>1, <4>2
      <3> QED BY <3>1, <3>2
    <2> DEFINE r == [NoRequest EXCEPT
                        !.op = op, !.phase = "write", !.target = id,
                        !.expectedRevision = page[c].revision,
                        !.discountRate = discount]
    <2>2. r \in Request
      BY <1>3, <1>4, NothingTyped DEF Request, AllOperations, Phases
    <2>3. Carries(r)
      BY <1>3, <2>1 DEF Carries, NoRequest, Superseding
    <2> QED BY <1>2, <2>1, <2>2, <2>3, RequestStep DEF IInv
  <1>9. CASE ReadForDecision(c)
    <2>1. PICK id \in CurrentRows, action \in {"APPROVED", "RETURNED"} :
             /\ id < MaxVersion
             /\ Checked(c, [NoRequest EXCEPT
                    !.op = action, !.phase = "write", !.target = id])
      BY <1>9 DEF ReadForDecision
    <2> DEFINE r == [NoRequest EXCEPT
                        !.op = action, !.phase = "write", !.target = id]
    <2>2. r \in Request
      BY <1>3, NothingTyped DEF Request, AllOperations, Phases
    <2>3. Carries(r)
      BY <1>3, <2>1 DEF Carries, NoRequest, Superseding
    <2> QED BY <1>2, <2>1, <2>2, <2>3, RequestStep DEF IInv
  <1>10. CASE ReadForEditing(c)
    <2>1. PICK id \in CurrentRows :
             /\ id < MaxVersion
             /\ Checked(c, [NoRequest EXCEPT
                    !.op = "continueEditing", !.phase = "probe", !.target = id])
      BY <1>10 DEF ReadForEditing
    <2> DEFINE r == [NoRequest EXCEPT !.op = "continueEditing",
                                      !.phase = "probe", !.target = id]
    <2>2. r \in Request
      BY <1>3, NothingTyped DEF Request, AllOperations, Phases
    <2>3. Carries(r)
      BY <1>3, <2>1 DEF Carries, NoRequest, Superseding
    <2> QED BY <1>2, <2>1, <2>2, <2>3, RequestStep DEF IInv
  <1>11. CASE ReadForExport(c)
    <2>1. PICK id \in CurrentRows :
             Checked(c, [NoRequest EXCEPT
                 !.op = "createExport", !.phase = "write", !.target = id,
                 !.lines = row[id].lines,
                 !.discountRate = row[id].discountRate])
      BY <1>11 DEF ReadForExport
    <2> DEFINE l == row[id].lines
               d == row[id].discountRate
               r == [NoRequest EXCEPT
                        !.op = "createExport", !.phase = "write", !.target = id,
                        !.lines = l, !.discountRate = d]
    <2>2. l \in Lines /\ d \in Discounts /\ id \in Ids
      BY <1>3, <1>5
    <2>3. Checked(c, r)
      BY <2>1
    <2> HIDE DEF l, d
    <2>4. r \in Request
      BY <2>2, NothingTyped DEF Request, AllOperations, Phases
    <2>5. Carries(r)
      BY <2>2 DEF Carries, NoRequest, Superseding
    <2> QED BY <1>2, <2>3, <2>4, <2>5, RequestStep DEF IInv
  <1>12. CASE ReadForSpace(c)
    <2>1. PICK s \in Spaces :
             Checked(c, [NoRequest EXCEPT !.op = "addSpace", !.phase = "write",
                                          !.knownSpaces = spaces, !.space = s])
      BY <1>12 DEF ReadForSpace
    <2> DEFINE r == [NoRequest EXCEPT !.op = "addSpace", !.phase = "write",
                                      !.knownSpaces = spaces, !.space = s]
    <2>2. r \in Request
      BY NothingTyped DEF Request, AllOperations, Phases, IInv, Records
    <2>3. Carries(r)
      BY DEF Carries, NoRequest, Targeting, Superseding
    <2> QED BY <1>2, <2>1, <2>2, <2>3, RequestStep DEF IInv
  <1> QED BY <1>6, <1>7, <1>8, <1>9, <1>10, <1>11, <1>12

\* submitDraft: the draft becomes the quoted version, its lines untouched.
LEMMA SubmitDraftStep ==
    ASSUME IInv, NEW c \in Clients, SubmitDraft(c)
    PROVE  IInv'
  <1> DEFINE id == req[c].target
  <1>1. id \in Ids
    BY DEF IInv, Requests, Carried, Carries, Targeting, SubmitDraft, Waiting
  <1> HIDE DEF id
  <1>2. CASE IsDraftAt(id, req[c].expectedRevision)
    <2> DEFINE r == [row[id] EXCEPT !.status = "QUOTED"]
    <2>1. /\ row' = [row EXCEPT ![id] = r] /\ latest' = latest
          /\ Decided(c, "QUOTED", id) /\ Committed(c)
          /\ UNCHANGED <<spaces, audit, exports, page>>
      BY <1>1, <1>2 DEF SubmitDraft, IInv, Rows, id
    <2>2. row[id] \in Row
      BY <1>1 DEF IInv, Rows
    <2>3. r \in Row
      BY <2>2 DEF Row, Statuses
    <2>4. KeepsPlace(r, id) /\ Shape(r) /\ (r.isCurrent <=> row[id].isCurrent)
      BY <1>1, <1>2, <2>2
      DEF Row, KeepsPlace, Shape, IsDraftAt, IInv, Rows, StageShape, Made
    <2>5. Rows'
      BY <1>1, <1>2, <2>1, <2>3, <2>4, RowUpdated DEF IInv, IsDraftAt
    <2>6. Requests'
      BY <2>1, RequestEnds DEF IInv
    <2>7. Records'
      BY <1>1, <2>1, DecidedTyped DEF IInv, Records
    <2> QED BY <2>5, <2>6, <2>7 DEF IInv
  <1>3. CASE ~IsDraftAt(id, req[c].expectedRevision)
    <2>1. /\ UNCHANGED <<row, latest>> /\ Answered(c)
          /\ UNCHANGED <<spaces, decisions, audit, exports, page>>
      BY <1>3 DEF SubmitDraft, id
    <2> QED BY <2>1, RowsUnchanged, RequestEnds, RecordsUnchanged DEF IInv
  <1> QED BY <1>2, <1>3

\* saveAdjustment: a quoted version starts to wait for the owner.
LEMMA SaveAdjustmentStep ==
    ASSUME IInv, NEW c \in Clients, SaveAdjustment(c)
    PROVE  IInv'
  <1> DEFINE id == req[c].target
             revision == req[c].expectedRevision
             d == req[c].discountRate
  <1>1. id \in Ids /\ d \in Discounts
    BY DEF IInv, Requests, Carried, Carries, Targeting, SaveAdjustment, Waiting
  <1>2. UNCHANGED <<spaces, latest, decisions, audit, exports, page>>
    BY DEF SaveAdjustment
  <1>3. Records'
    BY <1>2, RecordsUnchanged DEF IInv
  <1>4. CASE IsAdjustableAt(id, revision)
    <2> DEFINE n == row[id].revision + 1
               r == [row[id] EXCEPT !.discountRate = d,
                                    !.adjustmentStatus = "PENDING_APPROVAL",
                                    !.revision = n]
    <2>1. /\ row' = [row EXCEPT ![id] = r] /\ Committed(c)
      BY <1>1, <1>4 DEF SaveAdjustment, IInv, Rows
    <2>2. row[id] \in Row /\ n \in Nat
      BY <1>1 DEF IInv, Rows, Row
    <2> HIDE DEF id, revision, d, n
    <2>3. r \in Row
      BY <1>1, <2>2 DEF Row, AdjustmentStatuses
    <2>4. KeepsPlace(r, id) /\ Shape(r) /\ (r.isCurrent <=> row[id].isCurrent)
      BY <1>1, <1>4, <2>2 DEF Row, KeepsPlace, Shape, IsAdjustableAt
    <2>5. Rows'
      BY <1>1, <1>2, <1>4, <2>1, <2>3, <2>4, RowUpdated DEF IInv, IsAdjustableAt
    <2>6. Requests'
      BY <2>1, RequestEnds DEF IInv
    <2> QED BY <1>3, <2>5, <2>6 DEF IInv
  <1>5. CASE ~IsAdjustableAt(id, revision)
    <2>1. UNCHANGED row /\ Answered(c)
      BY <1>5 DEF SaveAdjustment
    <2> QED BY <1>2, <1>3, <2>1, RowsUnchanged, RequestEnds DEF IInv
  <1> QED BY <1>4, <1>5

\* A row that is superseded only loses is_current.
LEMMA OldRow ==
    ASSUME Rows, NEW id \in Ids, row[id].isCurrent, row[id].status # "DRAFT"
    PROVE  /\ [row[id] EXCEPT !.isCurrent = FALSE] \in Row
           /\ KeepsPlace([row[id] EXCEPT !.isCurrent = FALSE], id)
           /\ ~[row[id] EXCEPT !.isCurrent = FALSE].isCurrent
           /\ Shape([row[id] EXCEPT !.isCurrent = FALSE])
  <1> DEFINE old == [row[id] EXCEPT !.isCurrent = FALSE]
  <1>1. row[id] \in Row /\ row[id].status # "NONE"
    BY CurrentIsLatest DEF Rows
  <1>2. old \in Row
    BY <1>1 DEF Row
  <1>3. KeepsPlace(old, id) /\ ~old.isCurrent
    BY <1>1 DEF Row, KeepsPlace
  <1>4. Shape(old)
    BY <1>1 DEF Row, Shape, Rows, StageShape, Made
  <1> QED BY <1>2, <1>3, <1>4

\* decide with an adjustment: the quoted row is confirmed and superseded by its
\* approved copy.
LEMMA ConfirmAdjustmentStep ==
    ASSUME IInv, NEW c \in Clients, ConfirmAdjustment(c)
    PROVE  IInv'
  <1> DEFINE id == req[c].target
             revision == req[c].expectedRevision
             d == req[c].discountRate
  <1>1. id \in Ids /\ d \in Discounts /\ id < MaxVersion
    BY DEF IInv, Requests, Carried, Carries, Targeting, Superseding,
           ConfirmAdjustment, Waiting
  <1>2. UNCHANGED <<spaces, audit, exports, page>>
    BY DEF ConfirmAdjustment
  <1>3. CASE IsAdjustableAt(id, revision)
    <2> DEFINE n == row[id].revision + 1
               no == FALSE
               old == [row[id] EXCEPT !.isCurrent = no,
                                      !.adjustmentStatus = "CONFIRMED",
                                      !.discountRate = d,
                                      !.revision = n]
               new == [Cloned(id, TRUE) EXCEPT !.status = "APPROVED",
                                               !.adjustmentStatus = "CONFIRMED",
                                               !.discountRate = d]
    <2>1. /\ latest' = NextId
          /\ Decided(c, "APPROVED", NextId)
          /\ req' = [req EXCEPT ![c].phase = "finish", ![c].target = NextId]
      BY <1>3 DEF ConfirmAdjustment
    <2>2. /\ id = latest /\ NextId \in Ids /\ NextId # id
          /\ row[id] \in Row /\ n \in Nat /\ row[id].versionNumber = id
      <3>1. id = latest
        BY <1>1, <1>3, CurrentIsLatest DEF IInv, IsAdjustableAt
      <3>2. row[id] \in Row
        BY <1>1 DEF IInv, Rows
      <3>3. n \in Nat
        BY <3>2 DEF Row
      <3>4. row[id].versionNumber = id
        BY <1>1, <3>1 DEF IInv, Rows, Chain, Ids
      <3>5. NextId \in Ids /\ NextId # id
        BY <1>1, <3>1, ConstantsAssumption DEF NextId, Ids
      <3> QED BY <3>1, <3>2, <3>3, <3>4, <3>5
    <2>3. row' = [row EXCEPT ![id] = old, ![NextId] = new]
      <3> DEFINE gone == [row[id] EXCEPT !.isCurrent = no]
                 base == [row EXCEPT ![id].isCurrent = no, ![NextId] = new]
      <3>1. row' = [base EXCEPT ![id].adjustmentStatus = "CONFIRMED",
                                ![id].discountRate = d,
                                ![id].revision = @ + 1]
        BY <1>3 DEF ConfirmAdjustment, Superseded
      <3>2. row \in [Ids -> Row]
        BY DEF IInv, Rows
      <3>3. base[id] = gone
        BY <1>1, <2>2, <3>2
      <3>4. base = [row EXCEPT ![id] = gone, ![NextId] = new]
        BY <1>1, <2>2, <3>2
      <3>5. gone.revision + 1 = n
        BY <2>2 DEF Row
      <3>6. row' = [base EXCEPT ![id] = [gone EXCEPT
                                           !.adjustmentStatus = "CONFIRMED",
                                           !.discountRate = d,
                                           !.revision = @ + 1]]
        <4>1. id \in DOMAIN base
          BY <1>1, <3>2
        <4> HIDE DEF base
        <4> QED BY <3>1, <3>3, <4>1
      <3>7. old = [gone EXCEPT !.adjustmentStatus = "CONFIRMED",
                               !.discountRate = d,
                               !.revision = @ + 1]
        BY <2>2, <3>5 DEF Row
      <3> HIDE DEF gone, base, old, new
      <3> QED BY <1>1, <2>2, <3>2, <3>4, <3>6, <3>7
    <2>4. /\ Cloned(id, TRUE) \in Row
          /\ Cloned(id, TRUE).isCurrent
          /\ Cloned(id, TRUE).versionNumber = id + 1
          /\ Cloned(id, TRUE).parentVersionId = id
      <3>1. row \in [Ids -> Row]
        BY DEF IInv, Rows
      <3>2. Cloned(id, TRUE) \in Row
        BY <1>1, <3>1, ClonedTyped
      <3>3. Cloned(id, TRUE).isCurrent
        BY <1>1, <3>1, ClonedTyped
      <3>4. Cloned(id, TRUE).versionNumber = row[id].versionNumber + 1
        BY <1>1, <3>1, ClonedTyped
      <3>5. Cloned(id, TRUE).parentVersionId = id
        BY <1>1, <3>1, ClonedTyped
      <3> QED BY <2>2, <3>2, <3>3, <3>4, <3>5
    <2> HIDE DEF id, revision, d, n, no
    <2>5. new \in Row
      BY <1>1, <2>4 DEF Row, Statuses, AdjustmentStatuses
    <2>6. /\ new.status # "NONE" /\ new.isCurrent /\ Shape(new)
          /\ new.versionNumber = id + 1 /\ new.parentVersionId = id
      BY <2>4 DEF Row, Shape
    <2> HIDE DEF new
    <2>7. no \in BOOLEAN /\ ~no
      BY DEF no
    <2>8. old \in Row
      BY <1>1, <2>2, <2>7 DEF Row, AdjustmentStatuses
    <2>9. KeepsPlace(old, id) /\ ~old.isCurrent /\ Shape(old)
      BY <1>3, <2>2, <2>7 DEF Row, KeepsPlace, Shape, IsAdjustableAt
    <2> HIDE DEF old
    <2>10. Rows'
      BY <1>1, <2>1, <2>2, <2>3, <2>5, <2>6, <2>8, <2>9, RowSuperseded DEF IInv
    <2>11. Requests'
      BY <2>1, <2>2, RequestFollows DEF IInv
    <2>12. Records'
      BY <1>2, <2>1, <2>2, DecidedTyped DEF IInv, Records
    <2> QED BY <2>10, <2>11, <2>12 DEF IInv
  <1>4. CASE ~IsAdjustableAt(id, revision)
    <2>1. UNCHANGED <<row, latest, decisions>> /\ Answered(c)
      BY <1>4 DEF ConfirmAdjustment
    <2> QED BY <1>2, <2>1, RowsUnchanged, RequestEnds, RecordsUnchanged DEF IInv
  <1> QED BY <1>3, <1>4

\* decide: the version decided on is superseded by a copy in the new stage.
LEMMA DecideStep ==
    ASSUME IInv, NEW c \in Clients, Decide(c)
    PROVE  IInv'
  <1> DEFINE id == req[c].target
             action == req[c].op
  <1>1. id \in Ids /\ id < MaxVersion /\ action \in {"APPROVED", "RETURNED"}
    BY DEF IInv, Requests, Carried, Carries, Targeting, Superseding, Decide
  <1>2. UNCHANGED <<spaces, audit, exports, page>>
    BY DEF Decide
  <1>3. CASE IsDecidable(id, action)
    <2> DEFINE s == IF action = "RETURNED" THEN "AWAITING_SUBMISSION"
                    ELSE "CONFIRMED"
               old == [row[id] EXCEPT !.isCurrent = FALSE]
               new == [Cloned(id, TRUE) EXCEPT !.status = action,
                                               !.adjustmentStatus = s]
    <2>1. /\ latest' = NextId
          /\ Decided(c, action, NextId)
          /\ req' = [req EXCEPT ![c].phase = "finish", ![c].target = NextId]
      BY <1>3 DEF Decide
    <2>2. /\ id = latest /\ NextId \in Ids /\ NextId # id
          /\ row[id] \in Row /\ row[id].versionNumber = id
      BY <1>1, <1>3, CurrentIsLatest, ConstantsAssumption
      DEF IInv, Rows, IsDecidable, NextId, Ids, Chain
    <2>3. row' = [row EXCEPT ![id] = old, ![NextId] = new]
      BY <1>1, <1>3, <2>2 DEF Decide, Superseded, IInv, Rows
    <2>4. /\ Cloned(id, TRUE) \in Row
          /\ Cloned(id, TRUE).isCurrent
          /\ Cloned(id, TRUE).versionNumber = id + 1
          /\ Cloned(id, TRUE).parentVersionId = id
      <3>1. row \in [Ids -> Row]
        BY DEF IInv, Rows
      <3>2. Cloned(id, TRUE) \in Row
        BY <1>1, <3>1, ClonedTyped
      <3>3. Cloned(id, TRUE).isCurrent
        BY <1>1, <3>1, ClonedTyped
      <3>4. Cloned(id, TRUE).versionNumber = row[id].versionNumber + 1
        BY <1>1, <3>1, ClonedTyped
      <3>5. Cloned(id, TRUE).parentVersionId = id
        BY <1>1, <3>1, ClonedTyped
      <3> QED BY <2>2, <3>2, <3>3, <3>4, <3>5
    <2>5. /\ s \in AdjustmentStatuses
          /\ action = "RETURNED" => s = "AWAITING_SUBMISSION"
          /\ action = "APPROVED" => s = "CONFIRMED"
      BY DEF AdjustmentStatuses
    <2>6. old \in Row /\ KeepsPlace(old, id) /\ ~old.isCurrent /\ Shape(old)
      BY <1>1, <1>3, OldRow DEF IInv, IsDecidable
    <2> HIDE DEF id, action, s, old
    <2>7. new \in Row
      BY <1>1, <2>4, <2>5 DEF Row, Statuses
    <2>8. /\ new.status # "NONE" /\ new.isCurrent /\ Shape(new)
          /\ new.versionNumber = id + 1 /\ new.parentVersionId = id
      BY <1>1, <2>4, <2>5 DEF Row, Shape
    <2> HIDE DEF new
    <2>9. Rows'
      BY <1>1, <2>1, <2>2, <2>3, <2>6, <2>7, <2>8, RowSuperseded DEF IInv
    <2>10. Requests'
      BY <2>1, <2>2, RequestFollows DEF IInv
    <2>11. Records'
      BY <1>1, <1>2, <2>1, <2>2, DecidedTyped DEF IInv, Records
    <2> QED BY <2>9, <2>10, <2>11 DEF IInv
  <1>4. CASE ~IsDecidable(id, action)
    <2>1. UNCHANGED <<row, latest, decisions>> /\ Answered(c)
      BY <1>4 DEF Decide
    <2> QED BY <1>2, <2>1, RowsUnchanged, RequestEnds, RecordsUnchanged DEF IInv
  <1> QED BY <1>3, <1>4

\* continueEditing: the quoted or returned version is superseded by a draft.
LEMMA ContinueEditingStep ==
    ASSUME IInv, NEW c \in Clients, ProbeDraft(c) \/ ContinueEditing(c)
    PROVE  IInv'
  <1> DEFINE id == req[c].target
  <1>1. Records'
    BY RecordsUnchanged DEF IInv, ProbeDraft, ContinueEditing, IsContinuable, database
  <1>2. id \in Ids /\ id < MaxVersion
    BY DEF IInv, Requests, Carried, Carries, Targeting, Superseding,
           ProbeDraft, ContinueEditing, Waiting
  <1>3. CASE ProbeDraft(c)
    <2> DEFINE r == [req[c] EXCEPT !.phase = "write"]
    <2>1. Rows'
      BY <1>3, RowsUnchanged DEF IInv, ProbeDraft, database
    <2>2. r \in Request
      BY DEF IInv, Requests, Request, Phases
    <2>3. Carries(r)
      BY <1>2, <1>3
      DEF IInv, Requests, Request, Carried, Carries, ProbeDraft, Waiting
    <2>4. Checked(c, r) \/ Answered(c)
      BY <1>3 DEF ProbeDraft
    <2>5. Requests'
      BY <2>2, <2>3, <2>4, RequestStep, RequestEnds DEF IInv
    <2> QED BY <1>1, <2>1, <2>5 DEF IInv
  <1>4. CASE ContinueEditing(c) /\ row[id].isCurrent
             /\ row[id].status \in {"QUOTED", "RETURNED"}
    <2> DEFINE preserve == row[id].status = "RETURNED"
               old == [row[id] EXCEPT !.isCurrent = FALSE]
               new == Cloned(id, preserve)
    <2>1. /\ row' = Superseded(id, new)
          /\ latest' = NextId
          /\ req' = [req EXCEPT ![c].phase = "finish", ![c].target = NextId]
      BY <1>4 DEF ContinueEditing, IsContinuable
    <2>2. /\ id = latest /\ NextId \in Ids /\ NextId # id
          /\ row[id] \in Row /\ row[id].versionNumber = id
      <3>1. id = latest
        BY <1>2, <1>4, CurrentIsLatest DEF IInv
      <3>2. row[id] \in Row /\ row[id].versionNumber = id
        BY <1>2, <3>1 DEF IInv, Rows, Chain, Ids
      <3>3. NextId \in Ids /\ NextId # id
        BY <1>2, <3>1, ConstantsAssumption DEF NextId, Ids
      <3> QED BY <3>1, <3>2, <3>3
    <2>3. row' = [row EXCEPT ![id] = old, ![NextId] = new]
      BY <1>2, <2>1, <2>2 DEF Superseded, IInv, Rows
    <2>4. preserve => row[id].adjustmentStatus = "AWAITING_SUBMISSION"
      BY <1>2 DEF IInv, Rows, StageShape, Made
    <2>5. row \in [Ids -> Row]
      BY DEF IInv, Rows
    <2>6. /\ new.status = "DRAFT"
          /\ new.adjustmentStatus = IF preserve THEN row[id].adjustmentStatus
                                    ELSE "AWAITING_SUBMISSION"
          /\ new.versionNumber = row[id].versionNumber + 1
          /\ new.parentVersionId = id
      <3> HIDE DEF preserve
      <3> QED BY <1>2, <2>5, ClonedTyped
    <2>7. new \in Row /\ new.isCurrent
      BY <1>2, <2>5, ClonedTyped
    <2>8. old \in Row /\ KeepsPlace(old, id) /\ ~old.isCurrent /\ Shape(old)
      BY <1>2, <1>4, OldRow DEF IInv
    <2>9. new.adjustmentStatus = "AWAITING_SUBMISSION"
      BY <2>4, <2>6
    <2> HIDE DEF id, old, new
    <2>10. Shape(new) /\ new.status # "NONE" /\ new.versionNumber = id + 1
      BY <2>2, <2>6, <2>7, <2>9 DEF Shape
    <2>11. Rows'
      BY <1>2, <2>1, <2>2, <2>3, <2>6, <2>7, <2>8, <2>10, RowSuperseded DEF IInv
    <2>12. Requests'
      BY <2>1, <2>2, RequestFollows DEF IInv
    <2> QED BY <1>1, <2>11, <2>12 DEF IInv
  <1>5. CASE ContinueEditing(c)
             /\ ~(row[id].isCurrent /\ row[id].status \in {"QUOTED", "RETURNED"})
    <2>1. UNCHANGED <<row, latest>> /\ Broken(c)
      BY <1>5 DEF ContinueEditing, IsContinuable
    <2> QED BY <1>1, <2>1, RowsUnchanged, RequestEnds DEF IInv
  <1> QED BY <1>3, <1>4, <1>5

\* Reload and audit of a request that names its version: no row changes.
LEMMA FinishVersionStep ==
    ASSUME IInv, NEW c \in Clients, FinishVersion(c)
    PROVE  IInv'
  <1> DEFINE id == req[c].target
             action == AuditAction[req[c].op]
  <1>1. /\ req[c].op \in DOMAIN AuditAction
        /\ Audited(action, id) /\ Shown(c, id) /\ Answered(c)
        /\ UNCHANGED <<spaces, row, latest, decisions, exports>>
    BY DEF FinishVersion
  <1>2. req[c].op \in Targeting /\ action \in Actions
    BY <1>1 DEF AuditAction, Targeting, Actions
  <1>3. id \in Ids
    BY <1>2 DEF IInv, Requests, Carried, Carries
  <1>4. Rows'
    BY <1>1, RowsUnchanged DEF IInv
  <1>5. Requests'
    BY <1>1, RequestEnds DEF IInv
  <1>6. page' \in [Clients -> [id : Ids \cup {0}, revision : Nat]]
    BY <1>1, <1>3, ShownTyped DEF IInv
  <1>7. audit' \subseteq [action : Actions, target : Ids]
    BY <1>1, <1>2, <1>3, AuditedTyped DEF IInv
  <1>8. Records'
    BY <1>1, <1>6, <1>7 DEF IInv, Records
  <1> QED BY <1>4, <1>5, <1>8 DEF IInv

\* The three steps of createExport: only the exports and the log change.
LEMMA ExportStep ==
    ASSUME IInv, NEW c \in Clients, CreateExport(c) \/ FinishExport(c)
    PROVE  IInv'
  <1>1. /\ req[c].target \in Ids
        /\ req[c].discountRate \in Discounts
        /\ req[c].lines \in Lines
    BY DEF CreateExport, FinishExport, Waiting, IInv, Requests, Request,
           Carried, Carries, Targeting
  <1>2. Rows'
    BY RowsUnchanged DEF IInv, CreateExport, FinishExport
  <1>3. Requests'
    BY RequestEnds DEF IInv, CreateExport, FinishExport
  <1>4. Records'
    <2>1. CASE CreateExport(c)
      BY <1>1, <2>1 DEF CreateExport, IInv, Records, Export
    <2>2. CASE FinishExport(c)
      <3>1. audit' \subseteq [action : Actions, target : Ids]
        BY <1>1, <2>2, AuditedTyped DEF FinishExport, IInv, Actions
      <3> QED BY <2>2, <3>1 DEF FinishExport, IInv, Records
    <2> QED BY <2>1, <2>2
  <1> QED BY <1>2, <1>3, <1>4 DEF IInv

\* Adding a space, and the requests that end without effect.
LEMMA OtherStep ==
    ASSUME IInv, NEW c \in Clients, AddSpace(c) \/ ReportError(c) \/ Fail(c)
    PROVE  IInv'
  <1>1. UNCHANGED <<row, latest, decisions, audit, exports, page>> /\ Answered(c)
    BY DEF AddSpace, ReportError, Fail, database
  <1>2. spaces' \subseteq Spaces
    BY DEF AddSpace, ReportError, Fail, database, Waiting, IInv, Records,
           Requests, Carried, Carries
  <1>3. Records'
    BY <1>1, <1>2 DEF IInv, Records
  <1> QED BY <1>1, <1>3, RowsUnchanged, RequestEnds DEF IInv

-----------------------------------------------------------------------------
(***************************************************************************)
(* The theorems.                                                           *)
(***************************************************************************)
LEMMA InitIInv == Init => IInv
  <1> SUFFICES ASSUME Init PROVE IInv
    OBVIOUS
  <1>1. \A id \in Ids : row[id] = NoRow
    BY DEF Init
  <1>2. \A c \in Clients : req[c] = NoRequest
    BY DEF Init
  <1>3. Rows
    <2>1. row \in [Ids -> Row] /\ latest \in 0..MaxVersion
      BY NothingTyped, ConstantsAssumption DEF Init
    <2>2. Chain
      BY <1>1 DEF Init, Chain, NoRow, Ids
    <2>3. StageShape
      BY <1>1 DEF StageShape, Made, NoRow
    <2> QED BY <2>1, <2>2, <2>3 DEF Rows
  <1>4. Requests
    BY <1>2, NothingTyped
    DEF Init, Requests, Carried, Carries, NoRequest, Targeting, Superseding
  <1>5. Records
    BY ConstantsAssumption DEF Init, Records
  <1> QED BY <1>3, <1>4, <1>5 DEF IInv

\* Every step of the specification keeps the inductive invariant.
LEMMA NextIInv == IInv /\ [Next]_vars => IInv'
  <1> SUFFICES ASSUME IInv, [Next]_vars PROVE IInv'
    OBVIOUS
  <1>1. CASE UNCHANGED vars
    BY <1>1 DEF vars, IInv, Rows, Chain, StageShape, Made, Requests, Carried,
                Carries, Records
  <1>2. ASSUME NEW c \in Clients, Browse(c)
        PROVE  IInv'
    BY <1>2, ViewVersionStep, FindStep, ReadStep DEF Browse
  <1>3. ASSUME NEW c \in Clients, Serve(c)
        PROVE  IInv'
    BY <1>3, FindStep, CreateDraftStep, AddDraftScopesStep, FinishEditStep,
       SaveDraftStep, SubmitDraftStep, SaveAdjustmentStep,
       ConfirmAdjustmentStep, DecideStep, ContinueEditingStep,
       FinishVersionStep, ExportStep, OtherStep DEF Serve
  <1>4. ASSUME NEW c \in Clients, Fail(c)
        PROVE  IInv'
    BY <1>4, OtherStep
  <1> QED BY <1>1, <1>2, <1>3, <1>4 DEF Next

\* IInv holds in every reachable state, whatever the number of browsers, spaces
\* and versions: all the transactions of the repository keep the chain of
\* versions, the fit of their stages, and what the open requests rely on.
THEOREM Invariance == Spec => []IInv
  BY InitIInv, NextIInv, PTL DEF Spec

\* The state keeps its types: no request ever writes or audits a version that
\* does not exist, and no version number runs past the bound of the requests.
THEOREM TypeCorrect == Spec => []TypeOK
  <1>1. IInv => TypeOK
    BY DEF IInv, Rows, Requests, Records, TypeOK
  <1> QED BY <1>1, Invariance, PTL

\* However the requests of any number of browsers interleave and fail, the
\* versions of a project form one chain and exactly the newest is current.
THEOREM OneCurrentVersion == Spec => []CurrentIsNewest
  <1>1. IInv => CurrentIsNewest
    BY ConstantsAssumption DEF IInv, Rows, Chain, CurrentIsNewest, Made, Ids
  <1> QED BY <1>1, Invariance, PTL

\* Status, adjustment status and currency of a version always fit together.
THEOREM StagesFit == Spec => []StageShape
  <1>1. IInv => StageShape
    BY DEF IInv, Rows
  <1> QED BY <1>1, Invariance, PTL

-----------------------------------------------------------------------------
(***************************************************************************)
(* Versions that left the draft stage are snapshots.                       *)
(***************************************************************************)
\* A row that is replaced leaves every other version as it was.
LEMMA SnapshotsKept ==
    ASSUME Rows, NEW id \in Ids, NEW r,
           \A i \in Made \ {id} : row'[i] = row[i],
           row'[id] = r,
           \/ row[id].status = "DRAFT"
           \/ /\ r.status = row[id].status
              /\ r.lines = row[id].lines
              /\ r.priced = row[id].priced
              /\ row[id].isCurrent
              /\ \/ /\ r.discountRate = row[id].discountRate
                    /\ r.adjustmentStatus = row[id].adjustmentStatus
                 \/ /\ row[id].adjustmentStatus = "AWAITING_SUBMISSION"
                    /\ r.adjustmentStatus # "AWAITING_SUBMISSION"
    PROVE  KeepsSnapshots
  BY DEF KeepsSnapshots, Made

\* The writers of a draft (saveDraft, addDraftScopes, submitDraft) reach no
\* version that has left the draft stage.
LEMMA SaveKeepsSnapshots ==
    ASSUME IInv, NEW c \in Clients,
           AddDraftScopes(c) \/ SaveDraft(c) \/ SubmitDraft(c)
    PROVE  KeepsSnapshots
  <1> DEFINE id == req[c].target
  <1>1. id \in Ids
    BY DEF IInv, Requests, Carried, Carries, Targeting, AddDraftScopes,
           SaveDraft, SubmitDraft, Waiting
  <1>2. \/ UNCHANGED row
        \/ /\ row[id].status = "DRAFT"
           /\ \A i \in Made \ {id} : row'[i] = row[i]
    BY <1>1
    DEF AddDraftScopes, SaveDraft, SubmitDraft, IsDraftAt, IInv, Rows, Made
  <1> QED BY <1>1, <1>2, SnapshotsKept DEF IInv, KeepsSnapshots

\* saveAdjustment opens the discount of the current version only.
LEMMA AdjustmentKeepsSnapshots ==
    ASSUME IInv, NEW c \in Clients, SaveAdjustment(c)
    PROVE  KeepsSnapshots
  <1> DEFINE id == req[c].target
             r == [row[id] EXCEPT !.discountRate = req[c].discountRate,
                                  !.adjustmentStatus = "PENDING_APPROVAL",
                                  !.revision = @ + 1]
  <1>1. id \in Ids
    BY DEF IInv, Requests, Carried, Carries, Targeting, SaveAdjustment, Waiting
  <1>2. CASE IsAdjustableAt(id, req[c].expectedRevision)
    <2>1. row' = [row EXCEPT ![id] = r]
      BY <1>1, <1>2 DEF SaveAdjustment, IInv, Rows
    <2>2. /\ r.status = row[id].status /\ r.lines = row[id].lines
          /\ r.priced = row[id].priced
          /\ r.adjustmentStatus = "PENDING_APPROVAL"
      BY <1>1 DEF IInv, Rows, Row
    <2> HIDE DEF id, r
    <2>3. row'[id] = r /\ \A i \in Made \ {id} : row'[i] = row[i]
      BY <1>1, <2>1 DEF IInv, Rows, Made
    <2> QED BY <1>1, <1>2, <2>2, <2>3, SnapshotsKept DEF IInv, IsAdjustableAt
  <1>3. CASE ~IsAdjustableAt(id, req[c].expectedRevision)
    BY <1>3 DEF SaveAdjustment, KeepsSnapshots
  <1> QED BY <1>2, <1>3

\* decide and continueEditing take the old version's currency and nothing else.
LEMMA SupersedingKeepsSnapshots ==
    ASSUME IInv, NEW c \in Clients,
           ConfirmAdjustment(c) \/ Decide(c) \/ ContinueEditing(c)
    PROVE  KeepsSnapshots
  <1> DEFINE id == req[c].target
  <1>1. id \in Ids
    BY DEF IInv, Requests, Carried, Carries, Targeting, ConfirmAdjustment,
           Decide, ContinueEditing, Waiting
  <1>2. row \in [Ids -> Row] /\ NextId \notin Made
    BY ConstantsAssumption DEF IInv, Rows, Chain, Made, NextId, Ids
  <1>3. CASE UNCHANGED row
    BY <1>3 DEF KeepsSnapshots
  <1>4. ASSUME NEW new, row' = Superseded(id, new), row[id].isCurrent
        PROVE  KeepsSnapshots
    <2>1. id = latest /\ id \in Made /\ id # NextId
      BY <1>1, <1>2, <1>4, CurrentIsLatest DEF IInv, Made
    <2>2. \A i \in Made \ {id} : row'[i] = row[i]
      BY <1>1, <1>2, <1>4 DEF Superseded, Made
    <2>3. row'[id] = [row[id] EXCEPT !.isCurrent = FALSE]
      BY <1>1, <1>2, <1>4, <2>1 DEF Superseded
    <2>4. /\ row'[id].status = row[id].status
          /\ row'[id].lines = row[id].lines
          /\ row'[id].priced = row[id].priced
          /\ row'[id].discountRate = row[id].discountRate
          /\ row'[id].adjustmentStatus = row[id].adjustmentStatus
      BY <1>1, <1>2, <2>3 DEF Row
    <2> HIDE DEF id
    <2> QED BY <1>1, <1>4, <2>2, <2>4, SnapshotsKept DEF IInv
  <1>5. CASE ConfirmAdjustment(c) /\ IsAdjustableAt(id, req[c].expectedRevision)
    <2> DEFINE new == [Cloned(id, TRUE) EXCEPT
                          !.status = "APPROVED",
                          !.adjustmentStatus = "CONFIRMED",
                          !.discountRate = req[c].discountRate]
               base == Superseded(id, new)
               old == [base[id] EXCEPT
                          !.adjustmentStatus = "CONFIRMED",
                          !.discountRate = req[c].discountRate,
                          !.revision = @ + 1]
    <2>1. id \in Made /\ id # NextId /\ DOMAIN base = Ids
      BY <1>1, <1>2, <1>5, CurrentIsLatest
      DEF IInv, Made, IsAdjustableAt, Superseded
    <2>2. row' = [base EXCEPT ![id].adjustmentStatus = "CONFIRMED",
                              ![id].discountRate = req[c].discountRate,
                              ![id].revision = @ + 1]
      BY <1>5 DEF ConfirmAdjustment
    <2>3. base[id] = [row[id] EXCEPT !.isCurrent = FALSE]
      BY <1>1, <1>2, <2>1 DEF Superseded
    <2>4. \A i \in Made \ {id} : base[i] = row[i]
      BY <1>1, <1>2 DEF Superseded, Made
    <2>5. row' = [base EXCEPT ![id] = old]
      <3> HIDE DEF base, id
      <3> QED BY <1>1, <2>1, <2>2
    <2>6. row'[id] = old /\ \A i \in Made \ {id} : row'[i] = row[i]
      <3> HIDE DEF base, id, old
      <3> QED BY <1>1, <2>1, <2>4, <2>5 DEF Made
    <2>7. /\ old.status = row[id].status
          /\ old.lines = row[id].lines
          /\ old.priced = row[id].priced
          /\ old.adjustmentStatus = "CONFIRMED"
      <3> HIDE DEF base
      <3> QED BY <1>1, <1>2, <2>3 DEF Row
    <2> HIDE DEF id, old
    <2> QED BY <1>1, <1>5, <2>6, <2>7, SnapshotsKept DEF IInv, IsAdjustableAt
  <1>6. CASE Decide(c) /\ IsDecidable(id, req[c].op)
    <2>1. row[id].isCurrent /\ \E new : row' = Superseded(id, new)
      BY <1>6 DEF Decide, IsDecidable
    <2> QED BY <1>4, <2>1
  <1>7. CASE ContinueEditing(c) /\ ~UNCHANGED row
    <2>1. row[id].isCurrent /\ \E new : row' = Superseded(id, new)
      BY <1>7 DEF ContinueEditing, IsContinuable
    <2> QED BY <1>4, <2>1
  <1> QED BY <1>3, <1>5, <1>6, <1>7 DEF ConfirmAdjustment, Decide

\* No step rewrites a version that has left the draft stage.
LEMMA NextKeepsSnapshots == IInv /\ [Next]_vars => KeepsSnapshots
  <1> SUFFICES ASSUME IInv, [Next]_vars PROVE KeepsSnapshots
    OBVIOUS
  <1>1. CASE UNCHANGED row
    BY <1>1 DEF KeepsSnapshots
  <1>2. ASSUME NEW c \in Clients, CreateDraft(c)
        PROVE  KeepsSnapshots
    <2>1. CurrentRows = {} => Made = {}
      <3>1. latest \in Ids => row[latest].isCurrent
        BY DEF IInv, Rows, Chain
      <3> QED BY <3>1, ConstantsAssumption
              DEF IInv, Rows, Chain, CurrentRows, Made, Ids
    <2> QED BY <1>1, <1>2, <2>1 DEF CreateDraft, KeepsSnapshots
  <1>3. ASSUME NEW c \in Clients, Browse(c) \/ Serve(c) \/ Fail(c),
               ~UNCHANGED row
        PROVE  \/ CreateDraft(c) \/ AddDraftScopes(c) \/ SaveDraft(c)
               \/ SubmitDraft(c) \/ SaveAdjustment(c) \/ ConfirmAdjustment(c)
               \/ Decide(c) \/ ContinueEditing(c)
    <2>1. ~Browse(c) /\ ~Fail(c)
      BY <1>3
      DEF Browse, Fail, ViewVersion, GetProject, ReadLine, ReadForSubmit,
          ReadForAdjustment, ReadForDecision, ReadForEditing, ReadForExport,
          ReadForSpace, database
    <2> QED
      BY <1>3, <2>1
      DEF Serve, FindDraft, FindLatest, FinishDraft, FinishLine, ProbeDraft,
          FinishVersion, CreateExport, FinishExport, AddSpace, ReportError,
          database
  <1>4. CASE ~UNCHANGED row
    <2>1. PICK c \in Clients : Browse(c) \/ Serve(c) \/ Fail(c)
      BY <1>4 DEF Next, vars
    <2> QED BY <1>2, <1>3, <1>4, <2>1, SaveKeepsSnapshots,
               AdjustmentKeepsSnapshots, SupersedingKeepsSnapshots
  <1> QED BY <1>1, <1>4

\* A generated, returned or approved version is never rewritten by a request
\* of QuotationService: whatever the order of these, its stage and lines stay,
\* and its discount is set at most once and only while the version is the
\* current one.
THEOREM SnapshotsStay == Spec => SnapshotsFrozen
  BY Invariance, NextKeepsSnapshots, PTL DEF Spec, SnapshotsFrozen

-----------------------------------------------------------------------------
(***************************************************************************)
(* What a step does to half_package_quotations.                            *)
(***************************************************************************)

\* An UPDATE of row id: the others, and their number, stay.
Rewrites(id) ==
    /\ id \in Ids /\ id = latest
    /\ row[id].isCurrent /\ row'[id].isCurrent
    /\ latest' = latest
    /\ \A i \in Ids \ {id} : row'[i] = row[i]

\* Row id, the newest, is superseded by a row that holds the same lines.
Supersedes(id) ==
    /\ id \in Ids /\ id = latest
    /\ row[id].isCurrent /\ ~row'[id].isCurrent
    /\ latest' \in Ids /\ latest' = id + 1
    /\ \A i \in Ids \ {id, latest'} : row'[i] = row[i]
    /\ row'[latest'].lines = row[id].lines
    /\ row'[latest'].priced = row[id].priced

\* Row id keeps its lines, its totals and their stage.
KeepsLines(id) ==
    /\ row'[id].lines = row[id].lines
    /\ row'[id].priced = row[id].priced

KeepsDiscount(id) ==
    /\ row'[id].adjustmentStatus = row[id].adjustmentStatus
    /\ row'[id].discountRate = row[id].discountRate

\* createDraft: the first row of the project.
Creates ==
    /\ latest = 0 /\ latest' = 1 /\ 1 \in Ids
    /\ \A i \in Ids \ {1} : row'[i] = row[i]
    /\ row'[1].status = "DRAFT"
    /\ row'[1].adjustmentStatus = "AWAITING_SUBMISSION"
    /\ row'[1].discountRate = Full
    /\ row'[1].lines = row'[1].priced

\* saveDraft and addDraftScopes: the draft changes in place.
Saves(c) ==
    LET id == req[c].target
        added == req[c].knownSpaces \ Quoted(req[c].lines)
    IN  /\ req[c].phase = "write" /\ Committed(c)
        /\ Rewrites(id)
        /\ row[id].status = "DRAFT" /\ row'[id].status = "DRAFT"
        /\ row[id].revision = req[c].expectedRevision
        /\ row'[id].revision = row[id].revision + 1
        /\ KeepsDiscount(id)
        /\ \/ /\ req[c].op = "updateLine"
              /\ row'[id].lines = req[c].lines
              /\ row'[id].priced = req[c].lines
           \/ /\ req[c].op = "addMissingProjectScopes"
              /\ row'[id].lines = WithScopes(row[id].lines, added)
              /\ row'[id].priced = WithScopes(req[c].lines, added)

\* submitDraft: the draft becomes the quoted version.
Generates(c) ==
    LET id == req[c].target
    IN  /\ Waiting(c, "submit", "write") /\ Committed(c)
        /\ Rewrites(id)
        /\ row[id].status = "DRAFT" /\ row'[id].status = "QUOTED"
        /\ row'[id].revision = row[id].revision
        /\ KeepsLines(id) /\ KeepsDiscount(id)

\* saveAdjustment: the quoted version waits for the owner.
Adjusts(c) ==
    LET id == req[c].target
    IN  /\ Waiting(c, "SUBMIT_FOR_APPROVAL", "write") /\ Committed(c)
        /\ Rewrites(id)
        /\ row[id].status = "QUOTED" /\ row'[id].status = "QUOTED"
        /\ row[id].adjustmentStatus = "AWAITING_SUBMISSION"
        /\ row'[id].adjustmentStatus = "PENDING_APPROVAL"
        /\ row'[id].discountRate \in Discounts
        /\ row'[id].revision = row[id].revision + 1
        /\ KeepsLines(id)

\* A request that made a version goes on with it.
Follows(c) ==
    req' = [req EXCEPT ![c].phase = "finish", ![c].target = latest']

\* decide with an adjustment: confirmed, superseded and approved in one go.
Confirms(c) ==
    LET id == req[c].target
    IN  /\ Waiting(c, "CONFIRM", "write") /\ Follows(c)
        /\ Supersedes(id) /\ KeepsLines(id)
        /\ row[id].status = "QUOTED" /\ row'[id].status = "QUOTED"
        /\ row[id].adjustmentStatus = "AWAITING_SUBMISSION"
        /\ row'[id].adjustmentStatus = "CONFIRMED"
        /\ row'[id].revision = row[id].revision + 1
        /\ row'[latest'].status = "APPROVED"
        /\ row'[latest'].discountRate = row'[id].discountRate
        /\ row'[latest'].adjustmentStatus = "CONFIRMED"
        /\ row'[id].discountRate \in Discounts

\* A version is superseded and otherwise stays as it was.
Retires(id) ==
    /\ Supersedes(id) /\ KeepsLines(id) /\ KeepsDiscount(id)
    /\ row'[id].status = row[id].status
    /\ row'[id].revision = row[id].revision

\* decide: the next version is the decision.
Decides(c) ==
    LET id == req[c].target
    IN  /\ req[c].op \in {"APPROVED", "RETURNED"} /\ req[c].phase = "write"
        /\ Follows(c)
        /\ Retires(id)
        /\ \/ /\ row[id].status = "QUOTED"
              /\ row[id].adjustmentStatus = "PENDING_APPROVAL"
           \/ row[id].status = "APPROVED" /\ req[c].op = "RETURNED"
        /\ row'[latest'].status = req[c].op
        /\ row'[latest'].adjustmentStatus # "PENDING_APPROVAL"
        /\ row'[latest'].discountRate = row[id].discountRate

\* continueEditing: the next version is a draft.
Continues(c) ==
    LET id == req[c].target
    IN  /\ Waiting(c, "continueEditing", "write") /\ Follows(c)
        /\ Retires(id)
        /\ row[id].status \in {"QUOTED", "RETURNED"}
        /\ row'[latest'].status = "DRAFT"
        /\ row'[latest'].adjustmentStatus = "AWAITING_SUBMISSION"
        /\ row'[latest'].discountRate =
              IF row[id].status = "RETURNED" THEN row[id].discountRate ELSE Full

\* The first draft.
LEMMA CreateDraftEffect ==
    ASSUME IInv, NEW c \in Clients, CreateDraft(c)
    PROVE  UNCHANGED <<row, latest>> \/ Creates
  <1>1. CASE CurrentRows = {}
    <2> DEFINE lines == WithScopes(NoLines, req[c].knownSpaces)
               r == [NoRow EXCEPT !.status = "DRAFT", !.isCurrent = TRUE,
                                  !.versionNumber = 1,
                                  !.lines = lines, !.priced = lines]
    <2>1. row' = [row EXCEPT ![NextId] = r] /\ latest' = NextId
      BY <1>1 DEF CreateDraft
    <2>2. latest = 0 /\ NextId = 1 /\ 1 \in Ids
      <3>1. latest \in Ids => row[latest].isCurrent
        BY DEF IInv, Rows, Chain
      <3>2. latest \notin Ids
        BY <1>1, <3>1 DEF CurrentRows
      <3> QED BY <3>2, ConstantsAssumption DEF IInv, Rows, Ids, NextId
    <2> HIDE DEF lines
    <2>3. /\ r.status = "DRAFT" /\ r.adjustmentStatus = "AWAITING_SUBMISSION"
          /\ r.discountRate = Full /\ r.lines = r.priced
      BY DEF NoRow
    <2> HIDE DEF r
    <2>4. row'[1] = r /\ \A i \in Ids \ {1} : row'[i] = row[i]
      BY <2>1, <2>2 DEF IInv, Rows
    <2> QED BY <2>1, <2>2, <2>3, <2>4 DEF Creates
  <1>2. CASE CurrentRows # {}
    BY <1>2 DEF CreateDraft
  <1> QED BY <1>1, <1>2

\* A record that replaces the current row.
LEMMA RewriteEffect ==
    ASSUME IInv, NEW id \in Ids, row[id].isCurrent,
           NEW r \in Row, r.isCurrent, latest' = latest,
           row' = [row EXCEPT ![id] = r]
    PROVE  Rewrites(id) /\ row'[id] = r
  <1>1. id = latest
    BY CurrentIsLatest DEF IInv
  <1> QED BY <1>1 DEF Rewrites, IInv, Rows

\* The two saves of a draft.
LEMMA SaveEffect ==
    ASSUME IInv, NEW c \in Clients, SaveDraft(c) \/ AddDraftScopes(c)
    PROVE  UNCHANGED <<row, latest>> \/ Saves(c)
  <1> DEFINE id == req[c].target
             revision == req[c].expectedRevision
  <1>1. latest' = latest
    BY DEF SaveDraft, AddDraftScopes
  <1>2. CASE ~IsDraftAt(id, revision)
    BY <1>1, <1>2 DEF SaveDraft, AddDraftScopes
  <1>3. CASE IsDraftAt(id, revision)
    <2>1. /\ id \in Ids /\ row[id] \in Row /\ revision \in Nat
          /\ req[c].lines \in Lines
      BY DEF IInv, Rows, Requests, Carried, Carries, Targeting, Request,
             SaveDraft, AddDraftScopes, Waiting
    <2> DEFINE n == revision + 1
               added == req[c].knownSpaces \ Quoted(req[c].lines)
    <2>2. n \in Nat
      BY <2>1
    <2>3. ASSUME NEW l \in Lines, NEW p \in Lines,
                 row' = [row EXCEPT ![id] = [row[id] EXCEPT !.lines = l,
                                             !.priced = p, !.revision = n]]
          PROVE  /\ Rewrites(id) /\ row[id].status = "DRAFT"
                 /\ row'[id].status = "DRAFT" /\ row[id].revision = revision
                 /\ row'[id].revision = row[id].revision + 1
                 /\ KeepsDiscount(id)
                 /\ row'[id].lines = l /\ row'[id].priced = p
      <3> DEFINE r == [row[id] EXCEPT !.lines = l, !.priced = p, !.revision = n]
      <3>1. row[id].status = "DRAFT" /\ row[id].isCurrent
            /\ row[id].revision = revision
        BY <1>3 DEF IsDraftAt
      <3> HIDE DEF n
      <3>2. /\ r \in Row /\ r.isCurrent /\ r.status = "DRAFT" /\ r.revision = n
            /\ r.lines = l /\ r.priced = p
            /\ r.adjustmentStatus = row[id].adjustmentStatus
            /\ r.discountRate = row[id].discountRate
        <4> HIDE DEF id, revision
        <4> QED BY <2>1, <2>2, <3>1 DEF Row
      <3> HIDE DEF r
      <3>3. row' = [row EXCEPT ![id] = r]
        BY <2>3 DEF r
      <3>4. Rewrites(id) /\ row'[id] = r
        BY <1>1, <2>1, <3>1, <3>2, <3>3, RewriteEffect
      <3> QED BY <3>1, <3>2, <3>4 DEF KeepsDiscount, n
    <2>4. CASE SaveDraft(c)
      <3>1. /\ row' = [row EXCEPT ![id] = [row[id] EXCEPT
                                     !.lines = req[c].lines,
                                     !.priced = req[c].lines, !.revision = n]]
            /\ Committed(c) /\ Waiting(c, "updateLine", "write")
        BY <1>3, <2>1, <2>4 DEF SaveDraft, IInv, Rows
      <3> HIDE DEF n
      <3>2. /\ Rewrites(id) /\ row[id].status = "DRAFT"
            /\ row'[id].status = "DRAFT" /\ row[id].revision = revision
            /\ row'[id].revision = row[id].revision + 1
            /\ KeepsDiscount(id)
            /\ row'[id].lines = req[c].lines /\ row'[id].priced = req[c].lines
        BY <2>1, <2>3, <3>1
      <3> QED BY <3>1, <3>2 DEF Saves, Waiting
    <2>5. CASE AddDraftScopes(c)
      <3>1. WithScopes(row[id].lines, added) \in Lines
            /\ WithScopes(req[c].lines, added) \in Lines
        BY <2>1, WithScopesTyped DEF Row
      <3>2. /\ row' = [row EXCEPT ![id] = [row[id] EXCEPT
                                     !.lines = WithScopes(row[id].lines, added),
                                     !.priced = WithScopes(req[c].lines, added),
                                     !.revision = n]]
            /\ Committed(c) /\ Waiting(c, "addMissingProjectScopes", "write")
        BY <1>3, <2>1, <2>5 DEF AddDraftScopes, IInv, Rows
      <3> HIDE DEF n, added
      <3>3. /\ Rewrites(id) /\ row[id].status = "DRAFT"
            /\ row'[id].status = "DRAFT" /\ row[id].revision = revision
            /\ row'[id].revision = row[id].revision + 1
            /\ KeepsDiscount(id)
            /\ row'[id].lines = WithScopes(row[id].lines, added)
            /\ row'[id].priced = WithScopes(req[c].lines, added)
        BY <2>3, <3>1, <3>2
      <3> QED BY <3>2, <3>3 DEF Saves, Waiting, added
    <2> QED BY <2>4, <2>5
  <1> QED BY <1>2, <1>3

\* Generating the quotation.
LEMMA SubmitDraftEffect ==
    ASSUME IInv, NEW c \in Clients, SubmitDraft(c)
    PROVE  UNCHANGED <<row, latest>> \/ Generates(c)
  <1> DEFINE id == req[c].target
  <1>1. CASE IsDraftAt(id, req[c].expectedRevision)
    <2> DEFINE r == [row[id] EXCEPT !.status = "QUOTED"]
    <2>1. id \in Ids /\ row[id] \in Row
      BY DEF IInv, Rows, Requests, Carried, Carries, Targeting, SubmitDraft,
             Waiting
    <2>2. /\ row' = [row EXCEPT ![id] = r] /\ latest' = latest
          /\ Committed(c) /\ Waiting(c, "submit", "write")
      BY <1>1, <2>1 DEF SubmitDraft, IInv, Rows
    <2>3. row[id].isCurrent /\ row[id].status = "DRAFT"
      BY <1>1 DEF IsDraftAt
    <2> HIDE DEF id
    <2>4. /\ r \in Row /\ r.isCurrent /\ r.status = "QUOTED"
          /\ r.revision = row[id].revision
          /\ r.lines = row[id].lines /\ r.priced = row[id].priced
          /\ r.adjustmentStatus = row[id].adjustmentStatus
          /\ r.discountRate = row[id].discountRate
      BY <2>1, <2>3 DEF Row, Statuses
    <2> HIDE DEF r
    <2>5. Rewrites(id) /\ row'[id] = r
      BY <2>1, <2>2, <2>3, <2>4, RewriteEffect
    <2> QED BY <2>2, <2>3, <2>4, <2>5
            DEF Generates, KeepsLines, KeepsDiscount, id
  <1>2. CASE ~IsDraftAt(id, req[c].expectedRevision)
    BY <1>2 DEF SubmitDraft
  <1> QED BY <1>1, <1>2

\* Opening a discount.
LEMMA SaveAdjustmentEffect ==
    ASSUME IInv, NEW c \in Clients, SaveAdjustment(c)
    PROVE  UNCHANGED <<row, latest>> \/ Adjusts(c)
  <1> DEFINE id == req[c].target
             d == req[c].discountRate
  <1>1. CASE IsAdjustableAt(id, req[c].expectedRevision)
    <2> DEFINE n == row[id].revision + 1
               r == [row[id] EXCEPT !.discountRate = d,
                                    !.adjustmentStatus = "PENDING_APPROVAL",
                                    !.revision = n]
    <2>1. id \in Ids /\ row[id] \in Row /\ d \in Discounts
      BY DEF IInv, Rows, Requests, Carried, Carries, Targeting, SaveAdjustment,
             Waiting
    <2>2. /\ row' = [row EXCEPT ![id] = r] /\ latest' = latest
          /\ Committed(c) /\ Waiting(c, "SUBMIT_FOR_APPROVAL", "write")
      BY <1>1, <2>1 DEF SaveAdjustment, IInv, Rows
    <2>3. /\ row[id].isCurrent /\ row[id].status = "QUOTED"
          /\ row[id].adjustmentStatus = "AWAITING_SUBMISSION"
      BY <1>1 DEF IsAdjustableAt
    <2>4. n \in Nat
      BY <2>1 DEF Row
    <2> HIDE DEF id, d, n
    <2>5. /\ r \in Row /\ r.isCurrent /\ r.status = "QUOTED"
          /\ r.revision = n
          /\ r.lines = row[id].lines /\ r.priced = row[id].priced
          /\ r.adjustmentStatus = "PENDING_APPROVAL"
          /\ r.discountRate = d
      BY <2>1, <2>3, <2>4 DEF Row, AdjustmentStatuses
    <2> HIDE DEF r
    <2>6. Rewrites(id) /\ row'[id] = r
      BY <2>1, <2>2, <2>3, <2>5, RewriteEffect
    <2> QED BY <2>1, <2>2, <2>3, <2>5, <2>6 DEF Adjusts, KeepsLines, id, n
  <1>2. CASE ~IsAdjustableAt(id, req[c].expectedRevision)
    BY <1>2 DEF SaveAdjustment
  <1> QED BY <1>1, <1>2

\* Superseding the current row, with the record it becomes and its successor.
LEMMA SupersedeEffect ==
    ASSUME IInv, NEW id \in Ids, row[id].isCurrent, id < MaxVersion,
           NEW old \in Row, ~old.isCurrent, NEW new \in Row, new.lines = row[id].lines,
           new.priced = row[id].priced, latest' = NextId,
           row' = [row EXCEPT ![id] = old, ![NextId] = new]
    PROVE  Supersedes(id) /\ row'[id] = old /\ row'[latest'] = new
  <1>1. id = latest
    BY CurrentIsLatest DEF IInv
  <1>2. NextId \in Ids /\ NextId = id + 1 /\ NextId # id
    BY <1>1, ConstantsAssumption DEF NextId, Ids
  <1>3. /\ row'[id] = old /\ row'[NextId] = new
        /\ \A i \in Ids \ {id, NextId} : row'[i] = row[i]
    BY <1>2 DEF IInv, Rows
  <1> QED BY <1>1, <1>2, <1>3 DEF Supersedes

\* What a copy has of its original.
LEMMA ClonedOffer ==
    ASSUME row \in [Ids -> Row], NEW id \in Ids, NEW preserve \in BOOLEAN
    PROVE  /\ Cloned(id, preserve).lines = row[id].lines
           /\ Cloned(id, preserve).priced = row[id].priced
           /\ Cloned(id, preserve).discountRate =
                 IF preserve THEN row[id].discountRate ELSE Full
  <1>1. row[id] \in Row
    OBVIOUS
  <1> QED BY <1>1 DEF Cloned, Row

\* Confirming a discount.
LEMMA ConfirmAdjustmentEffect ==
    ASSUME IInv, NEW c \in Clients, ConfirmAdjustment(c)
    PROVE  UNCHANGED <<row, latest>> \/ Confirms(c)
  <1> DEFINE id == req[c].target
             d == req[c].discountRate
  <1>1. CASE IsAdjustableAt(id, req[c].expectedRevision)
    <2> DEFINE n == row[id].revision + 1
               no == FALSE
               gone == [row[id] EXCEPT !.isCurrent = no]
               old == [gone EXCEPT !.adjustmentStatus = "CONFIRMED",
                                   !.discountRate = d, !.revision = n]
               copy == Cloned(id, TRUE)
               new == [copy EXCEPT !.status = "APPROVED",
                                   !.adjustmentStatus = "CONFIRMED",
                                   !.discountRate = d]
               base == [row EXCEPT ![id].isCurrent = no, ![NextId] = new]
    <2>1. /\ id \in Ids /\ id < MaxVersion /\ d \in Discounts
          /\ row \in [Ids -> Row] /\ row[id] \in Row
      BY DEF IInv, Rows, Requests, Carried, Carries, Targeting, Superseding,
             ConfirmAdjustment, Waiting
    <2>2. /\ row[id].isCurrent /\ row[id].status = "QUOTED"
          /\ row[id].adjustmentStatus = "AWAITING_SUBMISSION"
      BY <1>1 DEF IsAdjustableAt
    <2>3. /\ latest' = NextId /\ Waiting(c, "CONFIRM", "write")
          /\ req' = [req EXCEPT ![c].phase = "finish", ![c].target = NextId]
          /\ row' = [base EXCEPT ![id].adjustmentStatus = "CONFIRMED",
                                 ![id].discountRate = d,
                                 ![id].revision = @ + 1]
      BY <1>1 DEF ConfirmAdjustment, Superseded
    <2>4. id = latest /\ NextId \in Ids /\ NextId # id
      <3>1. id = latest
        BY <2>1, <2>2, CurrentIsLatest DEF IInv
      <3> QED BY <2>1, <3>1, ConstantsAssumption DEF NextId, Ids
    <2>5. copy \in Row /\ copy.lines = row[id].lines
          /\ copy.priced = row[id].priced
      <3>1. copy \in Row
        BY <2>1, ClonedTyped
      <3>2. copy.lines = row[id].lines
        BY <2>1, ClonedOffer
      <3>3. copy.priced = row[id].priced
        BY <2>1, ClonedOffer
      <3> QED BY <3>1, <3>2, <3>3
    <2>6. n \in Nat /\ ~no /\ no \in BOOLEAN
      BY <2>1 DEF Row
    <2>7. row' = [row EXCEPT ![id] = old, ![NextId] = new]
      <3> HIDE DEF new
      <3>1. base[id] = gone /\ id \in DOMAIN base
        BY <2>1, <2>4
      <3>2. base = [row EXCEPT ![id] = gone, ![NextId] = new]
        BY <2>1, <2>4
      <3>3. gone.revision + 1 = n
        BY <2>1 DEF Row
      <3>4. row' = [base EXCEPT ![id] = [gone EXCEPT
                                           !.adjustmentStatus = "CONFIRMED",
                                           !.discountRate = d,
                                           !.revision = @ + 1]]
        <4> HIDE DEF base
        <4> QED BY <2>3, <3>1
      <3>5. old = [gone EXCEPT !.adjustmentStatus = "CONFIRMED",
                               !.discountRate = d, !.revision = @ + 1]
        BY <2>1, <3>3 DEF Row
      <3> HIDE DEF gone, base, old
      <3> QED BY <2>1, <2>4, <3>2, <3>4, <3>5
    <2> HIDE DEF copy, id, d, n, no
    <2>8. /\ new.status = "APPROVED" /\ new.adjustmentStatus = "CONFIRMED"
          /\ new.discountRate = d /\ new.lines = row[id].lines
          /\ new.priced = row[id].priced /\ new \in Row
      BY <2>1, <2>5 DEF Row, Statuses, AdjustmentStatuses
    <2>9. /\ old.status = "QUOTED" /\ old.adjustmentStatus = "CONFIRMED"
          /\ old.discountRate = d /\ old.revision = n
          /\ old.lines = row[id].lines /\ old.priced = row[id].priced
          /\ ~old.isCurrent /\ old \in Row
      BY <2>1, <2>2, <2>6 DEF Row, AdjustmentStatuses
    <2> HIDE DEF new, old
    <2>10. row' = [row EXCEPT ![id] = old, ![NextId] = new] /\ latest' = NextId
      BY <2>3, <2>7
    <2>11. ~old.isCurrent /\ old \in Row
      BY <2>9
    <2>12. Supersedes(id) /\ row'[id] = old /\ row'[latest'] = new
      BY <2>1, <2>2, <2>8, <2>10, <2>11, SupersedeEffect
    <2> QED BY <2>1, <2>2, <2>3, <2>8, <2>9, <2>12
            DEF Confirms, Follows, KeepsLines, id, n
  <1>2. CASE ~IsAdjustableAt(id, req[c].expectedRevision)
    BY <1>2 DEF ConfirmAdjustment
  <1> QED BY <1>1, <1>2

\* The current row is superseded and otherwise left alone.
LEMMA RetireEffect ==
    ASSUME IInv, NEW id \in Ids, row[id].isCurrent, id < MaxVersion,
           NEW new \in Row, new.lines = row[id].lines,
           new.priced = row[id].priced,
           latest' = NextId, row' = Superseded(id, new)
    PROVE  Retires(id) /\ row'[latest'] = new
  <1> DEFINE old == [row[id] EXCEPT !.isCurrent = FALSE]
  <1>1. row[id] \in Row /\ row \in [Ids -> Row]
    BY DEF IInv, Rows
  <1>2. /\ old.status = row[id].status
        /\ old.adjustmentStatus = row[id].adjustmentStatus
        /\ old.discountRate = row[id].discountRate
        /\ old.revision = row[id].revision
        /\ old.lines = row[id].lines /\ old.priced = row[id].priced
        /\ ~old.isCurrent /\ old \in Row
    BY <1>1 DEF Row
  <1>3. id = latest
    BY CurrentIsLatest DEF IInv
  <1>4. NextId \in Ids /\ NextId # id
    BY <1>3, ConstantsAssumption DEF NextId, Ids
  <1>5. row' = [row EXCEPT ![id] = old, ![NextId] = new]
    BY <1>1, <1>4 DEF Superseded
  <1> HIDE DEF old
  <1>6. Supersedes(id) /\ row'[id] = old /\ row'[latest'] = new
    BY <1>2, <1>5, SupersedeEffect
  <1> QED BY <1>2, <1>6 DEF Retires, KeepsLines, KeepsDiscount

\* Approving or returning.
LEMMA DecideEffect ==
    ASSUME IInv, NEW c \in Clients, Decide(c)
    PROVE  UNCHANGED <<row, latest>> \/ Decides(c)
  <1> DEFINE id == req[c].target
             action == req[c].op
  <1>1. CASE IsDecidable(id, action)
    <2> DEFINE s == IF action = "RETURNED" THEN "AWAITING_SUBMISSION"
                    ELSE "CONFIRMED"
               copy == Cloned(id, TRUE)
               new == [copy EXCEPT !.status = action, !.adjustmentStatus = s]
    <2>1. /\ id \in Ids /\ id < MaxVersion
          /\ action \in {"APPROVED", "RETURNED"} /\ req[c].phase = "write"
          /\ row \in [Ids -> Row]
      BY DEF IInv, Rows, Requests, Carried, Carries, Targeting, Superseding,
             Decide
    <2>2. /\ latest' = NextId /\ row' = Superseded(id, new)
          /\ req' = [req EXCEPT ![c].phase = "finish", ![c].target = NextId]
      BY <1>1 DEF Decide
    <2>3. copy \in Row
      BY <2>1, ClonedTyped
    <2>4. copy.lines = row[id].lines
      BY <2>1, ClonedOffer
    <2>5. copy.priced = row[id].priced
      BY <2>1, ClonedOffer
    <2>6. copy.discountRate = row[id].discountRate
      BY <2>1, ClonedOffer
    <2>7. s # "PENDING_APPROVAL" /\ s \in AdjustmentStatuses
      BY DEF AdjustmentStatuses
    <2>8. /\ row[id].isCurrent
          /\ \/ /\ row[id].status = "QUOTED"
                /\ row[id].adjustmentStatus = "PENDING_APPROVAL"
             \/ row[id].status = "APPROVED" /\ action = "RETURNED"
      BY <1>1 DEF IsDecidable
    <2> HIDE DEF copy, id, action, s
    <2>9. /\ new.status = action /\ new.adjustmentStatus = s
          /\ new.lines = row[id].lines /\ new.priced = row[id].priced
          /\ new.discountRate = row[id].discountRate
          /\ new \in Row
      BY <2>1, <2>3, <2>4, <2>5, <2>6, <2>7 DEF Row, Statuses
    <2> HIDE DEF new
    <2>10. Retires(id) /\ row'[latest'] = new
      BY <2>1, <2>2, <2>8, <2>9, RetireEffect
    <2> QED BY <2>1, <2>2, <2>7, <2>8, <2>9, <2>10
            DEF Decides, Follows, id, action
  <1>2. CASE ~IsDecidable(id, action)
    BY <1>2 DEF Decide
  <1> QED BY <1>1, <1>2

\* Going back to editing.
LEMMA ContinueEditingEffect ==
    ASSUME IInv, NEW c \in Clients, ContinueEditing(c)
    PROVE  UNCHANGED <<row, latest>> \/ Continues(c)
  <1> DEFINE id == req[c].target
  <1>1. CASE IsContinuable(id)
    <2> DEFINE preserve == row[id].status = "RETURNED"
               new == Cloned(id, preserve)
    <2>1. /\ id \in Ids /\ id < MaxVersion /\ row \in [Ids -> Row]
          /\ Waiting(c, "continueEditing", "write")
      BY DEF IInv, Rows, Requests, Carried, Carries, Targeting, Superseding,
             ContinueEditing, Waiting
    <2>2. /\ latest' = NextId /\ row' = Superseded(id, new)
          /\ req' = [req EXCEPT ![c].phase = "finish", ![c].target = NextId]
      BY <1>1 DEF ContinueEditing
    <2>3. row[id].isCurrent /\ row[id].status \in {"QUOTED", "RETURNED"}
      BY <1>1 DEF IsContinuable
    <2>4. preserve => row[id].adjustmentStatus = "AWAITING_SUBMISSION"
      BY <2>1 DEF IInv, Rows, StageShape, Made
    <2>5. preserve \in BOOLEAN
      OBVIOUS
    <2> HIDE DEF preserve
    <2>6. /\ new.status = "DRAFT"
          /\ new.adjustmentStatus = IF preserve THEN row[id].adjustmentStatus
                                    ELSE "AWAITING_SUBMISSION"
      BY <2>1, ClonedTyped
    <2>7. /\ new.lines = row[id].lines /\ new.priced = row[id].priced
          /\ new.discountRate = IF preserve THEN row[id].discountRate ELSE Full
      BY <2>1, <2>5, ClonedOffer
    <2>8. new.adjustmentStatus = "AWAITING_SUBMISSION" /\ new \in Row
      BY <2>1, <2>4, <2>6, ClonedTyped
    <2> HIDE DEF new, id
    <2>9. Retires(id) /\ row'[latest'] = new
      BY <2>1, <2>2, <2>3, <2>7, <2>8, RetireEffect
    <2> QED BY <2>1, <2>2, <2>3, <2>6, <2>7, <2>8, <2>9
            DEF Continues, Follows, id, preserve
  <1>2. CASE ~IsContinuable(id)
    BY <1>2 DEF ContinueEditing
  <1> QED BY <1>1, <1>2

\* The seven ways in which a step changes the rows.
LEMMA RowStep ==
    ASSUME IInv, [Next]_vars
    PROVE  \/ UNCHANGED <<row, latest>>
           \/ Creates
           \/ \E c \in Clients : \/ Saves(c) \/ Generates(c) \/ Adjusts(c)
                                 \/ Confirms(c) \/ Decides(c) \/ Continues(c)
  <1>1. CASE UNCHANGED vars
    BY <1>1 DEF vars
  <1>2. ASSUME NEW c \in Clients, Browse(c) \/ Fail(c)
        PROVE  UNCHANGED <<row, latest>>
    BY <1>2
    DEF Browse, Fail, ViewVersion, GetProject, ReadLine, ReadForSubmit,
        ReadForAdjustment, ReadForDecision, ReadForEditing, ReadForExport,
        ReadForSpace, database
  <1>3. ASSUME NEW c \in Clients, Serve(c)
        PROVE  \/ UNCHANGED <<row, latest>>
               \/ CreateDraft(c) \/ AddDraftScopes(c) \/ SaveDraft(c)
               \/ SubmitDraft(c) \/ SaveAdjustment(c) \/ ConfirmAdjustment(c)
               \/ Decide(c) \/ ContinueEditing(c)
    BY <1>3
    DEF Serve, FindDraft, FindLatest, FinishDraft, FinishLine, ProbeDraft,
        FinishVersion, CreateExport, FinishExport, AddSpace, ReportError,
        database
  <1>4. ASSUME NEW c \in Clients, Serve(c)
        PROVE  \/ UNCHANGED <<row, latest>>
               \/ Creates
               \/ Saves(c) \/ Generates(c) \/ Adjusts(c)
               \/ Confirms(c) \/ Decides(c) \/ Continues(c)
    BY <1>3, <1>4, CreateDraftEffect, SaveEffect, SubmitDraftEffect,
       SaveAdjustmentEffect, ConfirmAdjustmentEffect, DecideEffect,
       ContinueEditingEffect
  <1> QED BY <1>1, <1>2, <1>4 DEF Next

-----------------------------------------------------------------------------
(***************************************************************************)
(* The inductive invariants.                                               *)
(***************************************************************************)

\* Decisions and discounts: a first version has never been decided on.
OffersKept ==
    /\ \A id \in Made : row[id].status \in {"APPROVED", "RETURNED"} => id > 1
    /\ DecisionKeepsOffer
    /\ DiscountProvenance

\* The requests that replace lines of a draft.
Drafting == {"updateLine", "addMissingProjectScopes"}

\* The lines that request r is about to write are those of its version, but for
\* the one line it changes, or that version has moved on.
WritesWhatItRead(r) ==
    /\ r.expectedRevision <= row[r.target].revision
    /\ row[r.target].status = "DRAFT"
       /\ r.expectedRevision = row[r.target].revision =>
          \A s \in Spaces :
              r.lines[s] # row[r.target].lines[s] =>
                  r.op = "updateLine" /\ r.space = s

\* A browser never runs ahead of the versions, and the request of a save still
\* has the page it was sent from.
PagesBehind ==
    \A c \in Clients :
        /\ page[c].id <= latest
        /\ page[c].id # 0 => page[c].revision <= row[page[c].id].revision
        /\ req[c].target <= latest
        /\ Waiting(c, "updateLine", "write") =>
              /\ page[c].id = req[c].target
              /\ page[c].revision = req[c].expectedRevision

DraftsAgree ==
    \A c \in Clients :
        req[c].op \in Drafting /\ req[c].phase = "write" => WritesWhatItRead(req[c])

\* A draft is edited, priced and replaced consistently.
EditsAgree == PricedAsStored /\ PagesBehind /\ DraftsAgree

\* A file, or a file being made, shows a version as it is for good.
Shows(x) ==
    /\ row[x.quotation].status \in {"QUOTED", "APPROVED"}
    /\ x.lines = row[x.quotation].lines
    /\ row[x.quotation].status = "APPROVED" =>
          x.discountRate = row[x.quotation].discountRate

FileOf(r) == [quotation |-> r.target, lines |-> r.lines,
              discountRate |-> r.discountRate]

FilesFrozen ==
    /\ \A x \in exports : Shows(x)
    /\ \A c \in Clients :
          Waiting(c, "createExport", "write") => Shows(FileOf(req[c]))

\* What the log, or a request about to write it, says of decisions and stages.
OnRecord ==
    /\ \A d \in decisions :
          IF d.action = "QUOTED"
          THEN \/ Logged({"QUOTATION_GENERATED"}, d.quotation)
               \/ Underway({"submit"}, d.quotation)
          ELSE \/ Logged({"QUOTATION_APPROVED", "QUOTATION_ADJUSTMENT_CONFIRMED",
                          "QUOTATION_RETURNED"}, d.quotation)
               \/ Underway({"APPROVED", "RETURNED", "CONFIRM"}, d.quotation)
    /\ \A id \in Made :
          /\ row[id].adjustmentStatus = "PENDING_APPROVAL" =>
                \/ Logged({"QUOTATION_ADJUSTMENT_SUBMITTED"}, id)
                \/ Underway({"SUBMIT_FOR_APPROVAL"}, id)
          /\ row[id].status \in {"DRAFT", "QUOTED"} /\ id > 1 =>
                \/ Logged({"QUOTATION_EDITING_CONTINUED"}, id)
                \/ Underway({"continueEditing"}, id)

-----------------------------------------------------------------------------
(***************************************************************************)
(* Decisions and discounts.                                                *)
(***************************************************************************)

\* The rows of the versions in use, and their neighbours.
LEMMA MadeAreFirst ==
    ASSUME Rows
    PROVE  /\ Made = 1..latest
           /\ latest \in Nat
           /\ \A id \in Made : id \in Ids /\ id <= latest
           /\ \A id \in Made : id > 1 => id - 1 \in Made
  BY ConstantsAssumption DEF Rows, Chain, Made, Ids

LEMMA MadeNext ==
    ASSUME Rows'
    PROVE  Made' = 1..latest' /\ latest' \in Nat
  BY ConstantsAssumption DEF Rows, Chain, Made, Ids

\* OffersKept, said of one version among the rows r.
OfferKept(r, id) ==
    /\ r[id].status \in {"APPROVED", "RETURNED"} =>
          /\ id > 1
          /\ r[id - 1].lines = r[id].lines
          /\ r[id - 1].discountRate = r[id].discountRate
          /\ ~r[id - 1].isCurrent
          /\ \/ /\ r[id - 1].status = "QUOTED"
                /\ r[id - 1].adjustmentStatus \in
                       {"PENDING_APPROVAL", "CONFIRMED"}
             \/ /\ r[id - 1].status = "APPROVED"
                /\ r[id].status = "RETURNED"
    /\ (/\ r[id].status \in {"DRAFT", "QUOTED"}
        /\ r[id].adjustmentStatus = "AWAITING_SUBMISSION"
        /\ r[id].discountRate # Full) =>
           /\ id > 1
           /\ r[id - 1].status = "RETURNED"
           /\ r[id - 1].discountRate = r[id].discountRate

LEMMA OffersKeptByVersion ==
    /\ OffersKept <=> \A id \in Made : OfferKept(row, id)
    /\ OffersKept' <=> \A id \in Made' : OfferKept(row', id)
  BY DEF OffersKept, DecisionKeepsOffer, DiscountProvenance, OfferKept

\* A version that stays, after a version that stays, is kept.
LEMMA OfferStays ==
    ASSUME NEW id, OfferKept(row, id), row'[id] = row[id],
           id > 1 => row'[id - 1] = row[id - 1]
    PROVE  OfferKept(row', id)
  BY DEF OfferKept

\* An UPDATE of the newest row.
LEMMA RewriteKeepsOffers ==
    ASSUME IInv, IInv', OffersKept, NEW id \in Ids, Rewrites(id),
           OfferKept(row', id)
    PROVE  OffersKept'
  <1>1. Made' = Made
    BY MadeAreFirst, MadeNext DEF IInv, Rewrites
  <1>2. ASSUME NEW i \in Made, i # id
        PROVE  OfferKept(row', i)
    <2>1. i \in Ids /\ i < id /\ id = latest
      BY <1>2, MadeAreFirst DEF IInv, Rewrites, Ids
    <2>2. i > 1 => i - 1 \in Ids /\ i - 1 # id
      BY <2>1, MadeAreFirst DEF IInv, Ids
    <2>3. row'[i] = row[i] /\ (i > 1 => row'[i - 1] = row[i - 1])
      BY <1>2, <2>1, <2>2 DEF Rewrites
    <2> QED BY <2>3, OffersKeptByVersion, OfferStays
  <1>3. \A i \in Made' : OfferKept(row', i)
    BY <1>1, <1>2
  <1> QED BY <1>3, OffersKeptByVersion

\* The newest row is superseded.
LEMMA SupersedeKeepsOffers ==
    ASSUME IInv, IInv', OffersKept, NEW id \in Ids, Supersedes(id),
           OfferKept(row', id), OfferKept(row', latest')
    PROVE  OffersKept'
  <1>1. latest' = id + 1 /\ id = latest /\ Made = 1..id /\ Made' = 1..(id + 1)
    BY MadeAreFirst, MadeNext DEF IInv, Supersedes
  <1>2. ASSUME NEW i \in Made, i # id
        PROVE  OfferKept(row', i)
    <2>1. i \in Ids /\ i < id /\ i # latest'
      BY <1>1, <1>2, MadeAreFirst DEF IInv, Ids
    <2>2. i > 1 => i - 1 \in Ids /\ i - 1 # id /\ i - 1 # latest'
      BY <1>1, <2>1, MadeAreFirst DEF IInv, Ids
    <2>3. row'[i] = row[i] /\ (i > 1 => row'[i - 1] = row[i - 1])
      BY <1>2, <2>1, <2>2 DEF Supersedes
    <2> QED BY <2>3, OffersKeptByVersion, OfferStays
  <1>3. \A i \in Made' : OfferKept(row', i)
    BY <1>1, <1>2 DEF Ids
  <1> QED BY <1>3, OffersKeptByVersion

\* Every step keeps the decisions and the origin of the discounts.
LEMMA NextKeepsOffers ==
    ASSUME IInv, IInv', [Next]_vars, OffersKept
    PROVE  OffersKept'
  <1>1. CASE UNCHANGED <<row, latest>>
    BY <1>1 DEF OffersKept, DecisionKeepsOffer, DiscountProvenance, Made
  <1>2. CASE Creates
    <2>1. Made' = {1}
      BY <1>2, MadeNext DEF IInv, Creates
    <2>2. OfferKept(row', 1)
      BY <1>2 DEF Creates, OfferKept
    <2> QED BY <2>1, <2>2, OffersKeptByVersion
  <1>3. ASSUME NEW c \in Clients, Saves(c) \/ Generates(c)
        PROVE  OffersKept'
    <2> DEFINE id == req[c].target
    <2>1. Rewrites(id) /\ KeepsDiscount(id) /\ id \in Ids
      BY <1>3 DEF Saves, Generates, Rewrites
    <2>2. row[id].status = "DRAFT" /\ row'[id].status \in {"DRAFT", "QUOTED"}
      BY <1>3 DEF Saves, Generates
    <2>3. id \in Made
      BY <2>1, <2>2 DEF Made
    <2>4. id > 1 => row'[id - 1] = row[id - 1]
      BY <2>1, <2>3, MadeAreFirst DEF IInv, Rewrites, Ids
    <2>5. OfferKept(row, id)
      BY <2>3, OffersKeptByVersion
    <2> HIDE DEF id
    <2>6. OfferKept(row', id)
      BY <2>1, <2>2, <2>4, <2>5 DEF OfferKept, KeepsDiscount
    <2> QED BY <2>1, <2>6, RewriteKeepsOffers
  <1>4. ASSUME NEW c \in Clients, Adjusts(c)
        PROVE  OffersKept'
    <2> DEFINE id == req[c].target
    <2>1. Rewrites(id) /\ id \in Ids
      BY <1>4 DEF Adjusts, Rewrites
    <2>2. /\ row'[id].status = "QUOTED"
          /\ row'[id].adjustmentStatus = "PENDING_APPROVAL"
      BY <1>4 DEF Adjusts
    <2> HIDE DEF id
    <2>3. OfferKept(row', id)
      BY <2>2 DEF OfferKept
    <2> QED BY <2>1, <2>3, RewriteKeepsOffers
  <1>5. ASSUME NEW c \in Clients, Confirms(c)
        PROVE  OffersKept'
    <2> DEFINE id == req[c].target
    <2>1. /\ Supersedes(id) /\ id \in Ids /\ latest' = id + 1
          /\ id > 0 /\ latest' - 1 = id /\ latest' > 1
      BY <1>5 DEF Confirms, Supersedes, Ids
    <2>2. /\ row'[id].status = "QUOTED"
          /\ row'[id].adjustmentStatus = "CONFIRMED"
          /\ row'[latest'].status = "APPROVED"
          /\ row'[latest'].discountRate = row'[id].discountRate
          /\ row'[latest'].lines = row'[id].lines
          /\ ~row'[id].isCurrent
      BY <1>5 DEF Confirms, Supersedes, KeepsLines
    <2> HIDE DEF id
    <2>3. OfferKept(row', id)
      BY <2>2 DEF OfferKept
    <2>4. OfferKept(row', latest')
      BY <2>1, <2>2 DEF OfferKept
    <2> QED BY <2>1, <2>3, <2>4, SupersedeKeepsOffers
  <1>6. ASSUME NEW c \in Clients, Decides(c) \/ Continues(c)
        PROVE  OffersKept'
    <2> DEFINE id == req[c].target
    <2>1. /\ Retires(id) /\ Supersedes(id) /\ id \in Ids /\ latest' = id + 1
          /\ id > 0 /\ latest' - 1 = id /\ latest' > 1
      BY <1>6 DEF Decides, Continues, Retires, Supersedes, Ids
    <2>2. /\ row'[id].status = row[id].status
          /\ row'[id].adjustmentStatus = row[id].adjustmentStatus
          /\ row'[id].discountRate = row[id].discountRate
          /\ row'[id].lines = row[id].lines
          /\ row'[latest'].lines = row[id].lines
          /\ ~row'[id].isCurrent
      BY <2>1 DEF Retires, Supersedes, KeepsLines, KeepsDiscount
    <2>3. id \in Made
      BY <1>6, <2>1 DEF Decides, Continues, Made
    <2>4. id > 1 => row'[id - 1] = row[id - 1]
      BY <2>1, <2>3, MadeAreFirst DEF IInv, Supersedes, Ids
    <2>5. OfferKept(row, id)
      BY <2>3, OffersKeptByVersion
    <2>6. OfferKept(row', id)
      <3> HIDE DEF id
      <3> QED BY <2>2, <2>4, <2>5 DEF OfferKept
    <2>7. OfferKept(row', latest')
      <3>1. CASE Decides(c)
        BY <2>1, <2>2, <3>1 DEF Decides, OfferKept
      <3>2. CASE Continues(c)
        BY <2>1, <2>2, <3>2 DEF Continues, OfferKept
      <3> QED BY <1>6, <3>1, <3>2
    <2> HIDE DEF id
    <2> QED BY <2>1, <2>6, <2>7, SupersedeKeepsOffers
  <1> QED BY <1>1, <1>2, <1>3, <1>4, <1>5, <1>6, RowStep

LEMMA InitOffersKept == Init => OffersKept
  <1>1. Init => Made = {}
    BY DEF Init, Made, NoRow
  <1> QED BY <1>1 DEF OffersKept, DecisionKeepsOffer, DiscountProvenance

LEMMA OffersInvariant == Spec => []OffersKept
  <1>1. IInv /\ IInv' /\ [Next]_vars /\ OffersKept => OffersKept'
    BY NextKeepsOffers
  <1> QED BY <1>1, InitOffersKept, Invariance, PTL DEF Spec

\* What is approved or returned is what was quoted, lines and discount, for
\* any number of versions, browsers and interleavings of the requests of
\* QuotationService.
THEOREM DecisionsKeepOffers == Spec => []DecisionKeepsOffer
  <1>1. OffersKept => DecisionKeepsOffer
    BY DEF OffersKept
  <1> QED BY <1>1, OffersInvariant, PTL

\* A discount nobody has decided on comes from the version the owner returned.
THEOREM DiscountsComeFromReturns == Spec => []DiscountProvenance
  <1>1. OffersKept => DiscountProvenance
    BY DEF OffersKept
  <1> QED BY <1>1, OffersInvariant, PTL

-----------------------------------------------------------------------------
(***************************************************************************)
(* Edits: what browsers and requests know of a draft.                      *)
(***************************************************************************)

\* The request and the page of browser k stay as they are.
Stays(k) == req'[k] = req[k] /\ page'[k] = page[k]

\* The page shows a version as it is now; its request, if any, has ended.
Refreshes(k) ==
    /\ UNCHANGED <<row, latest>>
    /\ req'[k].phase = "idle"
    /\ req'[k].target <= latest
    /\ \E id \in Ids : /\ id <= latest
                       /\ page'[k] = [id |-> id, revision |-> row[id].revision]

\* The request goes on, or begins, but not to a save of a draft.
MovesOn(k) ==
    /\ page'[k] = page[k]
    /\ req'[k].op \in Drafting => req'[k].phase # "write"
    /\ req'[k].target <= latest \/ req'[k].target = latest'

\* A request has read the draft it is going to save.
StartsSave(k) ==
    LET r == req'[k]
    IN  /\ UNCHANGED <<row, latest>>
        /\ page'[k] = page[k]
        /\ r.phase = "write" /\ r.target \in DraftRows
        /\ \/ /\ r.op = "addMissingProjectScopes"
              /\ r.expectedRevision = row[r.target].revision
              /\ r.lines = row[r.target].lines
           \/ /\ r.op = "updateLine"
              /\ r.target = page[k].id
              /\ r.expectedRevision = page[k].revision
              /\ r.space \in Spaces
              /\ \E entry \in Entries :
                    r.lines = [row[r.target].lines EXCEPT ![r.space] = entry]

\* Another browser's step.
LEMMA OthersStay ==
    ASSUME Requests, Records, NEW c \in Clients, NEW k \in Clients, k # c,
           Browse(c) \/ Serve(c) \/ Fail(c)
    PROVE  Stays(k)
  <1>1. req'[k] = req[k]
    BY DEF Browse, Serve, Fail, ViewVersion, GetProject, ReadLine,
           ReadForSubmit, ReadForAdjustment, ReadForDecision, ReadForEditing,
           ReadForExport, ReadForSpace, FindDraft, FindLatest, CreateDraft,
           AddDraftScopes, FinishDraft, SaveDraft, FinishLine, SubmitDraft,
           SaveAdjustment, ConfirmAdjustment, Decide, ProbeDraft,
           ContinueEditing, FinishVersion, CreateExport, FinishExport,
           AddSpace, ReportError, Checked, Committed, Answered, Broken,
           Requests
  <1>2. page'[k] = page[k]
    BY DEF Browse, Serve, Fail, ViewVersion, GetProject, ReadLine,
           ReadForSubmit, ReadForAdjustment, ReadForDecision, ReadForEditing,
           ReadForExport, ReadForSpace, FindDraft, FindLatest, CreateDraft,
           AddDraftScopes, FinishDraft, SaveDraft, FinishLine, SubmitDraft,
           SaveAdjustment, ConfirmAdjustment, Decide, ProbeDraft,
           ContinueEditing, FinishVersion, CreateExport, FinishExport,
           AddSpace, ReportError, Shown, Records
  <1> QED BY <1>1, <1>2 DEF Stays

\* The requests that end, break or commit in their own place.
LEMMA EndsMoveOn ==
    ASSUME Requests, PagesBehind, NEW c \in Clients, latest \in Nat,
           Answered(c) \/ Committed(c) \/ Broken(c), page'[c] = page[c]
    PROVE  MovesOn(c)
  <1>1. req[c].target <= latest /\ req[c] \in Request
    BY DEF PagesBehind, Requests
  <1>2. CASE Answered(c)
    BY <1>2 DEF Answered, NoRequest, MovesOn, Requests, Drafting
  <1>3. CASE Committed(c)
    BY <1>1, <1>3 DEF Committed, MovesOn, Requests, Request
  <1>4. CASE Broken(c)
    BY <1>1, <1>4 DEF Broken, MovesOn, Requests, Request
  <1> QED BY <1>2, <1>3, <1>4

\* A request that is answered with a page.
LEMMA AnswerRefreshes ==
    ASSUME Requests, Records, latest \in Nat, NEW c \in Clients, NEW id \in Ids,
           id <= latest, Answered(c), Shown(c, id), UNCHANGED <<row, latest>>
    PROVE  Refreshes(c)
  <1>1. req'[c] = NoRequest
    BY DEF Answered, Requests
  <1>2. page'[c] = [id |-> id, revision |-> row[id].revision]
    BY DEF Shown, Records
  <1> QED BY <1>1, <1>2 DEF Refreshes, NoRequest

\* A request made from its first checks that is not a save of a draft.
LEMMA ReadsMoveOn ==
    ASSUME Requests, NEW c \in Clients, NEW r, Checked(c, r),
           r.op \in Drafting => r.phase # "write",
           r.target <= latest, page'[c] = page[c]
    PROVE  MovesOn(c)
  BY DEF Requests, Checked, MovesOn

\* The requests that make a version follow it.
LEMMA WritersMoveOn ==
    ASSUME Requests, PagesBehind, NEW c \in Clients, latest \in Nat,
           \/ CreateDraft(c) \/ AddDraftScopes(c) \/ SaveDraft(c)
           \/ SubmitDraft(c) \/ SaveAdjustment(c) \/ ConfirmAdjustment(c)
           \/ Decide(c) \/ ContinueEditing(c)
    PROVE  MovesOn(c)
  <1>1. page'[c] = page[c]
    BY DEF CreateDraft, AddDraftScopes, SaveDraft, SubmitDraft,
           SaveAdjustment, ConfirmAdjustment, Decide, ContinueEditing
  <1>2. ASSUME req' = [req EXCEPT ![c].phase = "finish", ![c].target = NextId],
               latest' = NextId
        PROVE  MovesOn(c)
    BY <1>1, <1>2 DEF Requests, Request, MovesOn
  <1>3. \/ Answered(c) \/ Committed(c) \/ Broken(c)
        \/ /\ req' = [req EXCEPT ![c].phase = "finish", ![c].target = NextId]
           /\ latest' = NextId
    BY DEF CreateDraft, AddDraftScopes, SaveDraft, SubmitDraft,
           SaveAdjustment, ConfirmAdjustment, Decide, ContinueEditing
  <1> QED BY <1>1, <1>2, <1>3, EndsMoveOn

\* getOrCreateDraft up to its transactions.
LEMMA FindMoves ==
    ASSUME IInv, PagesBehind, NEW c \in Clients, latest \in Nat,
           GetProject(c) \/ FindDraft(c) \/ FindLatest(c)
    PROVE  Refreshes(c) \/ MovesOn(c) \/ StartsSave(c)
  <1>1. \A id \in CurrentRows : id \in Ids /\ id <= latest
    BY CurrentIsLatest DEF IInv, CurrentRows
  <1>2. UNCHANGED <<row, latest>> /\ req[c].target <= latest
    BY DEF GetProject, FindDraft, FindLatest, database, PagesBehind
  <1>3. CASE GetProject(c)
    <2> DEFINE r == [NoRequest EXCEPT !.op = "getOrCreateDraft",
                                      !.phase = "findDraft",
                                      !.knownSpaces = spaces]
    <2>1. r.op = "getOrCreateDraft" /\ r.target = 0
      BY DEF NoRequest
    <2>2. Checked(c, r) /\ UNCHANGED page
      BY <1>3 DEF GetProject
    <2> HIDE DEF r
    <2> QED BY <2>1, <2>2, ReadsMoveOn DEF IInv, Drafting
  <1>4. CASE FindDraft(c)
    <2>1. ASSUME NEW id \in DraftRows, Answered(c), Shown(c, id)
          PROVE  Refreshes(c)
      BY <1>1, <1>2, <2>1, AnswerRefreshes DEF IInv, DraftRows
    <2>2. ASSUME NEW id \in DraftRows, UNCHANGED page,
                 Checked(c, [req[c] EXCEPT
                                !.op = "addMissingProjectScopes",
                                !.phase = "write",
                                !.target = id,
                                !.expectedRevision = row[id].revision,
                                !.lines = row[id].lines])
          PROVE  StartsSave(c)
      <3> DEFINE r == [req[c] EXCEPT
                          !.op = "addMissingProjectScopes",
                          !.phase = "write",
                          !.target = id,
                          !.expectedRevision = row[id].revision,
                          !.lines = row[id].lines]
      <3>1. /\ r.op = "addMissingProjectScopes" /\ r.phase = "write"
            /\ r.target = id /\ r.expectedRevision = row[id].revision
            /\ r.lines = row[id].lines
        BY DEF IInv, Requests, Request
      <3>2. req'[c] = r
        BY <2>2 DEF Checked, IInv, Requests
      <3> HIDE DEF r
      <3> QED BY <1>2, <2>2, <3>1, <3>2 DEF StartsSave
    <2>3. ASSUME Checked(c, [req[c] EXCEPT !.phase = "findLatest"]),
                 UNCHANGED page
          PROVE  MovesOn(c)
      <3> DEFINE r == [req[c] EXCEPT !.phase = "findLatest"]
      <3>1. r.phase = "findLatest" /\ r.target = req[c].target
        BY DEF IInv, Requests, Request
      <3>2. Checked(c, r)
        BY <2>3
      <3> HIDE DEF r
      <3> QED BY <1>2, <2>3, <3>1, <3>2, ReadsMoveOn DEF IInv
    <2> QED BY <1>4, <2>1, <2>2, <2>3 DEF FindDraft
  <1>5. CASE FindLatest(c)
    <2>1. ASSUME NEW id \in CurrentRows, Answered(c), Shown(c, id)
          PROVE  Refreshes(c)
      BY <1>1, <1>2, <2>1, AnswerRefreshes DEF IInv
    <2>2. ASSUME Checked(c, [req[c] EXCEPT !.phase = "write"]),
                 UNCHANGED page, req[c].op = "getOrCreateDraft"
          PROVE  MovesOn(c)
      <3> DEFINE r == [req[c] EXCEPT !.phase = "write"]
      <3>1. r.op = "getOrCreateDraft" /\ r.target = req[c].target
        BY <2>2 DEF IInv, Requests, Request
      <3>2. Checked(c, r)
        BY <2>2
      <3> HIDE DEF r
      <3> QED BY <1>2, <2>2, <3>1, <3>2, ReadsMoveOn DEF IInv, Drafting
    <2> QED BY <1>5, <2>1, <2>2 DEF FindLatest, Waiting
  <1> QED BY <1>3, <1>4, <1>5

\* The other handlers that read, check and go on.
LEMMA HandlersMoveOn ==
    ASSUME IInv, NEW c \in Clients, latest \in Nat,
           \/ ReadForSubmit(c) \/ ReadForAdjustment(c)
           \/ ReadForDecision(c) \/ ReadForEditing(c) \/ ReadForExport(c)
           \/ ReadForSpace(c)
    PROVE  MovesOn(c)
  <1>1. UNCHANGED page
    BY DEF ReadForSubmit, ReadForAdjustment, ReadForDecision, ReadForEditing,
           ReadForExport, ReadForSpace
  <1>2. \A id \in CurrentRows : id \in Ids /\ id <= latest
    BY CurrentIsLatest DEF IInv, CurrentRows
  <1>3. CASE ReadForSubmit(c)
    <2>1. PICK id \in DraftRows :
             Checked(c, [NoRequest EXCEPT
                 !.op = "submit", !.phase = "write", !.target = id,
                 !.expectedRevision = page[c].revision])
      BY <1>3 DEF ReadForSubmit
    <2> DEFINE r == [NoRequest EXCEPT
                        !.op = "submit", !.phase = "write", !.target = id,
                        !.expectedRevision = page[c].revision]
    <2>2. r.op = "submit" /\ r.target = id
      BY DEF NoRequest
    <2>3. Checked(c, r)
      BY <2>1
    <2> HIDE DEF r
    <2> QED BY <1>1, <1>2, <2>2, <2>3, ReadsMoveOn DEF DraftRows, IInv, Drafting
  <1>4. CASE ReadForAdjustment(c)
    <2>1. PICK id \in CurrentRows, discount \in Discounts :
             Checked(c, [NoRequest EXCEPT
                 !.op = IF c \in Leads THEN "SUBMIT_FOR_APPROVAL" ELSE "CONFIRM",
                 !.phase = "write", !.target = id,
                 !.expectedRevision = page[c].revision,
                 !.discountRate = discount])
      BY <1>4 DEF ReadForAdjustment
    <2> DEFINE r == [NoRequest EXCEPT
                        !.op = IF c \in Leads THEN "SUBMIT_FOR_APPROVAL" ELSE "CONFIRM",
                        !.phase = "write", !.target = id,
                        !.expectedRevision = page[c].revision,
                        !.discountRate = discount]
    <2>2. r.op \in {"SUBMIT_FOR_APPROVAL", "CONFIRM"} /\ r.target = id
      BY DEF NoRequest
    <2>3. Checked(c, r)
      BY <2>1
    <2> HIDE DEF r
    <2> QED BY <1>1, <1>2, <2>2, <2>3, ReadsMoveOn DEF IInv, Drafting
  <1>5. CASE ReadForDecision(c)
    <2>1. PICK id \in CurrentRows, action \in {"APPROVED", "RETURNED"} :
             Checked(c, [NoRequest EXCEPT
                 !.op = action, !.phase = "write", !.target = id])
      BY <1>5 DEF ReadForDecision
    <2> DEFINE r == [NoRequest EXCEPT
                        !.op = action, !.phase = "write", !.target = id]
    <2>2. r.op \in {"APPROVED", "RETURNED"} /\ r.target = id
      BY DEF NoRequest
    <2>3. Checked(c, r)
      BY <2>1
    <2> HIDE DEF r
    <2> QED BY <1>1, <1>2, <2>2, <2>3, ReadsMoveOn DEF IInv, Drafting
  <1>6. CASE ReadForEditing(c)
    <2>1. PICK id \in CurrentRows :
             Checked(c, [NoRequest EXCEPT
                 !.op = "continueEditing", !.phase = "probe", !.target = id])
      BY <1>6 DEF ReadForEditing
    <2> DEFINE r == [NoRequest EXCEPT
                        !.op = "continueEditing", !.phase = "probe", !.target = id]
    <2>2. r.op = "continueEditing" /\ r.target = id
      BY DEF NoRequest
    <2>3. Checked(c, r)
      BY <2>1
    <2> HIDE DEF r
    <2> QED BY <1>1, <1>2, <2>2, <2>3, ReadsMoveOn DEF IInv, Drafting
  <1>7. CASE ReadForExport(c)
    <2>1. PICK id \in CurrentRows :
             Checked(c, [NoRequest EXCEPT
                 !.op = "createExport", !.phase = "write", !.target = id,
                 !.lines = row[id].lines,
                 !.discountRate = row[id].discountRate])
      BY <1>7 DEF ReadForExport
    <2> DEFINE r == [NoRequest EXCEPT
                        !.op = "createExport", !.phase = "write", !.target = id,
                        !.lines = row[id].lines,
                        !.discountRate = row[id].discountRate]
    <2>2. r.op = "createExport" /\ r.target = id
      BY DEF NoRequest
    <2>3. Checked(c, r)
      BY <2>1
    <2> HIDE DEF r
    <2> QED BY <1>1, <1>2, <2>2, <2>3, ReadsMoveOn DEF IInv, Drafting
  <1>8. CASE ReadForSpace(c)
    <2>1. PICK s \in Spaces :
             Checked(c, [NoRequest EXCEPT
                 !.op = "addSpace", !.phase = "write",
                 !.knownSpaces = spaces, !.space = s])
      BY <1>8 DEF ReadForSpace
    <2> DEFINE r == [NoRequest EXCEPT
                        !.op = "addSpace", !.phase = "write",
                        !.knownSpaces = spaces, !.space = s]
    <2>2. r.op = "addSpace" /\ r.target = 0
      BY DEF NoRequest
    <2>3. Checked(c, r)
      BY <2>1
    <2> HIDE DEF r
    <2> QED BY <1>1, <1>2, <2>2, <2>3, ReadsMoveOn DEF IInv, Drafting
  <1> QED BY <1>3, <1>4, <1>5, <1>6, <1>7, <1>8

\* updateLine's handler keeps what it read.
LEMMA ReadLineStarts ==
    ASSUME IInv, NEW c \in Clients, ReadLine(c)
    PROVE  StartsSave(c)
  <1>1. PICK id \in DraftRows, s \in Spaces, entry \in Entries :
           /\ page[c].id = id
           /\ Checked(c, [NoRequest EXCEPT
                  !.op = "updateLine", !.phase = "write", !.target = id,
                  !.expectedRevision = page[c].revision, !.space = s,
                  !.lines = [row[id].lines EXCEPT ![s] = entry]])
    BY DEF ReadLine
  <1> DEFINE l == [row[id].lines EXCEPT ![s] = entry]
             r == [NoRequest EXCEPT
                      !.op = "updateLine", !.phase = "write", !.target = id,
                      !.expectedRevision = page[c].revision, !.space = s,
                      !.lines = l]
  <1>2. req'[c] = r
    BY <1>1 DEF Checked, IInv, Requests
  <1> HIDE DEF l
  <1>3. /\ r.op = "updateLine" /\ r.phase = "write" /\ r.target = id
        /\ r.expectedRevision = page[c].revision /\ r.space = s /\ r.lines = l
    BY DEF NoRequest
  <1> HIDE DEF r
  <1>4. UNCHANGED <<row, latest, page>>
    BY DEF ReadLine, database
  <1> QED BY <1>1, <1>2, <1>3, <1>4 DEF StartsSave, l

\* Reload and audit: the page shows what the request worked on.
LEMMA FinishersMove ==
    ASSUME IInv, PagesBehind, NEW c \in Clients, latest \in Nat,
           \/ FinishDraft(c) \/ FinishLine(c) \/ FinishVersion(c)
           \/ CreateExport(c) \/ FinishExport(c)
    PROVE  Refreshes(c) \/ MovesOn(c)
  <1>1. UNCHANGED <<row, latest>>
    BY DEF FinishDraft, FinishLine, FinishVersion, CreateExport, FinishExport
  <1>2. \A id \in CurrentRows : id \in Ids /\ id <= latest
    BY CurrentIsLatest DEF IInv, CurrentRows
  <1>3. CASE FinishDraft(c) \/ FinishLine(c)
    <2>1. \/ \E id \in DraftRows : Shown(c, id) /\ Answered(c)
          \/ Broken(c) /\ UNCHANGED page
      BY <1>3 DEF FinishDraft, FinishLine
    <2>2. ASSUME NEW id \in DraftRows, Shown(c, id), Answered(c)
          PROVE  Refreshes(c)
      BY <1>1, <1>2, <2>2, AnswerRefreshes DEF IInv, DraftRows
    <2> QED BY <2>1, <2>2, EndsMoveOn DEF IInv
  <1>4. CASE FinishVersion(c)
    <2>1. /\ req[c].target \in Ids /\ req[c].target <= latest
          /\ Shown(c, req[c].target) /\ Answered(c)
      <3>1. req[c].op \in Targeting
        BY <1>4 DEF FinishVersion, AuditAction, Targeting
      <3> QED BY <1>4, <3>1
              DEF FinishVersion, PagesBehind, IInv, Requests, Carried, Carries
    <2> QED BY <1>1, <2>1, AnswerRefreshes DEF IInv
  <1>5. CASE CreateExport(c) \/ FinishExport(c)
    BY <1>5, EndsMoveOn DEF CreateExport, FinishExport, IInv
  <1> QED BY <1>3, <1>4, <1>5

\* What a step does to the request and the page of a browser.
LEMMA ClientStep ==
    ASSUME IInv, PagesBehind, [Next]_vars, NEW k \in Clients
    PROVE  Stays(k) \/ Refreshes(k) \/ MovesOn(k) \/ StartsSave(k)
  <1>1. latest \in Nat
    BY MadeAreFirst DEF IInv
  <1>2. CASE UNCHANGED vars
    BY <1>2 DEF vars, Stays
  <1>3. ASSUME NEW c \in Clients, Browse(c) \/ Serve(c) \/ Fail(c), k # c
        PROVE  Stays(k)
    BY <1>3, OthersStay DEF IInv
  <1>4. CASE ViewVersion(k)
    <2>1. PICK id \in CurrentRows : Shown(k, id)
      BY <1>4 DEF ViewVersion
    <2>2. id \in Ids /\ id <= latest
      BY <1>1, CurrentIsLatest DEF IInv, CurrentRows
    <2>3. page'[k] = [id |-> id, revision |-> row[id].revision]
      BY <2>1 DEF Shown, IInv, Records
    <2> QED BY <1>4, <2>2, <2>3
            DEF ViewVersion, Refreshes, database, PagesBehind
  <1>5. CASE ProbeDraft(k)
    <2>1. UNCHANGED page
      BY <1>5 DEF ProbeDraft
    <2>2. CASE Answered(k)
      BY <1>1, <2>1, <2>2, EndsMoveOn DEF IInv
    <2>3. CASE Checked(k, [req[k] EXCEPT !.phase = "write"])
      <3> DEFINE r == [req[k] EXCEPT !.phase = "write"]
      <3>1. r.op = "continueEditing" /\ r.target = req[k].target
        BY <1>5 DEF ProbeDraft, Waiting, IInv, Requests, Request
      <3>2. Checked(k, r) /\ req[k].target <= latest
        BY <2>3 DEF PagesBehind
      <3> HIDE DEF r
      <3> QED BY <2>1, <3>1, <3>2, ReadsMoveOn DEF IInv, Drafting
    <2> QED BY <1>5, <2>2, <2>3 DEF ProbeDraft
  <1>6. CASE AddSpace(k) \/ ReportError(k) \/ Fail(k)
    BY <1>1, <1>6, EndsMoveOn
    DEF AddSpace, ReportError, Fail, IInv, database
  <1>7. ASSUME Browse(k)
        PROVE  Stays(k) \/ Refreshes(k) \/ MovesOn(k) \/ StartsSave(k)
    <2>1. CASE GetProject(k)
      BY <1>1, <2>1, FindMoves
    <2>2. CASE ReadLine(k)
      BY <2>2, ReadLineStarts
    <2>3. CASE \/ ReadForSubmit(k) \/ ReadForAdjustment(k)
               \/ ReadForDecision(k) \/ ReadForEditing(k)
               \/ ReadForExport(k) \/ ReadForSpace(k)
      BY <1>1, <2>3, HandlersMoveOn
    <2> QED BY <1>4, <1>7, <2>1, <2>2, <2>3 DEF Browse
  <1>8. ASSUME Serve(k)
        PROVE  Stays(k) \/ Refreshes(k) \/ MovesOn(k) \/ StartsSave(k)
    <2>1. CASE FindDraft(k) \/ FindLatest(k)
      BY <1>1, <2>1, FindMoves
    <2>2. CASE \/ CreateDraft(k) \/ AddDraftScopes(k) \/ SaveDraft(k)
               \/ SubmitDraft(k) \/ SaveAdjustment(k) \/ ConfirmAdjustment(k)
               \/ Decide(k) \/ ContinueEditing(k)
      BY <1>1, <2>2, WritersMoveOn DEF IInv
    <2>3. CASE \/ FinishDraft(k) \/ FinishLine(k) \/ FinishVersion(k)
               \/ CreateExport(k) \/ FinishExport(k)
      BY <1>1, <2>3, FinishersMove
    <2> QED BY <1>5, <1>6, <1>8, <2>1, <2>2, <2>3 DEF Serve
  <1>9. ASSUME NEW c \in Clients, Browse(c) \/ Serve(c) \/ Fail(c)
        PROVE  Stays(k) \/ Refreshes(k) \/ MovesOn(k) \/ StartsSave(k)
    BY <1>3, <1>6, <1>7, <1>8, <1>9
  <1> QED BY <1>2, <1>9 DEF Next

\* Revisions and version numbers never go back, and a draft that is at the same
\* revision still has the same lines.
LEMMA RevisionsGrow ==
    ASSUME IInv, IInv', [Next]_vars
    PROVE  /\ latest <= latest'
           /\ \A id \in Ids : id <= latest =>
                 /\ row[id].revision <= row'[id].revision
                 /\ /\ row'[id].status = "DRAFT"
                    /\ row'[id].revision = row[id].revision
                    => /\ row[id].status = "DRAFT"
                       /\ row'[id].lines = row[id].lines
  <1>1. /\ latest \in Nat /\ latest' \in Nat
        /\ \A id \in Ids : row[id].revision \in Nat
    BY MadeAreFirst, MadeNext DEF IInv, Rows, Row
  <1>2. CASE UNCHANGED <<row, latest>>
    BY <1>1, <1>2
  <1>3. CASE Creates
    BY <1>1, <1>3 DEF Creates, Ids
  <1>4. ASSUME NEW c \in Clients, Saves(c) \/ Generates(c) \/ Adjusts(c)
        PROVE  /\ latest <= latest'
               /\ \A id \in Ids : id <= latest =>
                     /\ row[id].revision <= row'[id].revision
                     /\ /\ row'[id].status = "DRAFT"
                        /\ row'[id].revision = row[id].revision
                        => /\ row[id].status = "DRAFT"
                           /\ row'[id].lines = row[id].lines
    <2>1. /\ Rewrites(req[c].target)
          /\ \/ row'[req[c].target].revision = row[req[c].target].revision + 1
             \/ /\ row'[req[c].target].status = "QUOTED"
                /\ row'[req[c].target].revision = row[req[c].target].revision
      BY <1>4 DEF Saves, Generates, Adjusts
    <2> QED BY <1>1, <2>1 DEF Rewrites
  <1>5. ASSUME NEW c \in Clients, Confirms(c) \/ Decides(c) \/ Continues(c)
        PROVE  /\ latest <= latest'
               /\ \A id \in Ids : id <= latest =>
                     /\ row[id].revision <= row'[id].revision
                     /\ /\ row'[id].status = "DRAFT"
                        /\ row'[id].revision = row[id].revision
                        => /\ row[id].status = "DRAFT"
                           /\ row'[id].lines = row[id].lines
    <2>1. /\ Supersedes(req[c].target)
          /\ row'[req[c].target].status # "DRAFT"
          /\ \/ row'[req[c].target].revision = row[req[c].target].revision + 1
             \/ row'[req[c].target].revision = row[req[c].target].revision
      BY <1>5 DEF Confirms, Decides, Continues, Retires
    <2> QED BY <1>1, <2>1 DEF Supersedes, Ids
  <1> QED BY <1>2, <1>3, <1>4, <1>5, RowStep

\* Pages and requests stay behind the versions.
LEMMA NextPagesBehind ==
    ASSUME IInv, IInv', PagesBehind, [Next]_vars
    PROVE  PagesBehind'
  <1> SUFFICES ASSUME NEW k \in Clients
               PROVE  /\ page'[k].id <= latest'
                      /\ page'[k].id # 0 =>
                            page'[k].revision <= row'[page'[k].id].revision
                      /\ req'[k].target <= latest'
                      /\ req'[k].op = "updateLine" /\ req'[k].phase = "write" =>
                            /\ page'[k].id = req'[k].target
                            /\ page'[k].revision = req'[k].expectedRevision
    BY DEF PagesBehind, Waiting
  <1>1. /\ latest \in Nat /\ latest' \in Nat /\ latest <= latest'
        /\ \A id \in Ids : id <= latest => row[id].revision <= row'[id].revision
        /\ \A id \in Ids : row[id].revision \in Nat /\ row'[id].revision \in Nat
    BY MadeAreFirst, MadeNext, RevisionsGrow DEF IInv, Rows, Row
  <1>2. /\ page[k].id <= latest /\ req[k].target <= latest
        /\ page[k].id # 0 => page[k].revision <= row[page[k].id].revision
        /\ page[k].id \in Ids \cup {0} /\ page[k].revision \in Nat
        /\ req[k].target \in Ids \cup {0}
        /\ req'[k].target \in Ids \cup {0}
    BY DEF PagesBehind, IInv, Records, Requests, Request
  <1>3. page'[k] = page[k] =>
           /\ page'[k].id <= latest'
           /\ page'[k].id # 0 => page'[k].revision <= row'[page'[k].id].revision
    BY <1>1, <1>2 DEF Ids
  <1>4. CASE Stays(k)
    BY <1>1, <1>2, <1>3, <1>4 DEF Stays, PagesBehind, Waiting, Ids
  <1>5. CASE Refreshes(k)
    BY <1>1, <1>5 DEF Refreshes
  <1>6. CASE MovesOn(k)
    BY <1>1, <1>2, <1>3, <1>6 DEF MovesOn, Drafting, Ids
  <1>7. CASE StartsSave(k)
    <2>1. req'[k].target \in Ids /\ req'[k].target <= latest
      BY <1>1, <1>7, CurrentIsLatest
      DEF StartsSave, DraftRows, CurrentRows, IInv
    <2> QED BY <1>1, <1>3, <1>7, <2>1 DEF StartsSave, Ids
  <1> QED BY <1>4, <1>5, <1>6, <1>7, ClientStep

\* What a save carries stays true of its version, or its version moves on.
LEMMA NextDraftsAgree ==
    ASSUME IInv, IInv', PagesBehind, DraftsAgree, [Next]_vars
    PROVE  DraftsAgree'
  <1> SUFFICES ASSUME NEW k \in Clients,
                      req'[k].op \in Drafting, req'[k].phase = "write"
               PROVE  /\ req'[k].expectedRevision <= row'[req'[k].target].revision
                      /\ /\ row'[req'[k].target].status = "DRAFT"
                         /\ req'[k].expectedRevision = row'[req'[k].target].revision
                         => \A s \in Spaces :
                               req'[k].lines[s] # row'[req'[k].target].lines[s] =>
                                   req'[k].op = "updateLine" /\ req'[k].space = s
    BY DEF DraftsAgree, WritesWhatItRead
  <1>1. CASE Stays(k)
    <2> DEFINE r == req[k]
    <2>1. r = req'[k] /\ WritesWhatItRead(r) /\ r.op \in Targeting
      BY <1>1 DEF Stays, DraftsAgree, Drafting, Targeting
    <2>2. /\ r.target \in Ids /\ r.target <= latest /\ r.expectedRevision \in Nat
          /\ row[r.target].revision \in Nat /\ row'[r.target].revision \in Nat
      BY <2>1 DEF PagesBehind, IInv, Requests, Request, Carried, Carries, Rows,
                  Row
    <2>3. /\ row[r.target].revision <= row'[r.target].revision
          /\ /\ row'[r.target].status = "DRAFT"
             /\ row'[r.target].revision = row[r.target].revision
             => /\ row[r.target].status = "DRAFT"
                /\ row'[r.target].lines = row[r.target].lines
      BY <2>2, RevisionsGrow
    <2>4. r.expectedRevision <= row[r.target].revision
      BY <2>1 DEF WritesWhatItRead
    <2>5. ASSUME row'[r.target].status = "DRAFT",
                 r.expectedRevision = row'[r.target].revision
          PROVE  \A s \in Spaces :
                    r.lines[s] # row'[r.target].lines[s] =>
                        r.op = "updateLine" /\ r.space = s
      <3>1. row'[r.target].revision = row[r.target].revision
        BY <2>2, <2>3, <2>4, <2>5
      <3> HIDE DEF r
      <3> QED BY <2>1, <2>3, <2>5, <3>1 DEF WritesWhatItRead
    <2> HIDE DEF r
    <2> QED BY <2>1, <2>2, <2>3, <2>4, <2>5
  <1>2. CASE Refreshes(k)
    BY <1>2 DEF Refreshes
  <1>3. CASE MovesOn(k)
    BY <1>3 DEF MovesOn
  <1>4. CASE StartsSave(k)
    <2> DEFINE r == req'[k]
    <2>1. /\ r.target \in Ids /\ row[r.target].revision \in Nat
          /\ row[r.target].lines \in Lines /\ row' = row
      BY <1>4 DEF StartsSave, DraftRows, CurrentRows, IInv, Rows, Row
    <2>2. CASE r.op = "addMissingProjectScopes"
      BY <1>4, <2>1, <2>2 DEF StartsSave
    <2>3. CASE r.op = "updateLine"
      <3>1. /\ r.target = page[k].id /\ r.expectedRevision = page[k].revision
            /\ r.space \in Spaces
            /\ \E entry \in Entries :
                  r.lines = [row[r.target].lines EXCEPT ![r.space] = entry]
        BY <1>4, <2>3 DEF StartsSave
      <3>2. page[k].id # 0 => page[k].revision <= row[page[k].id].revision
        BY DEF PagesBehind
      <3>3. r.target # 0
        BY <2>1 DEF Ids
      <3>4. \A s \in Spaces : s # r.space =>
               r.lines[s] = row[r.target].lines[s]
        <4> HIDE DEF r
        <4> QED BY <2>1, <3>1 DEF Lines
      <3> HIDE DEF r
      <3>5. /\ r.expectedRevision <= row'[r.target].revision
            /\ \A s \in Spaces : r.lines[s] # row'[r.target].lines[s] =>
                  r.op = "updateLine" /\ r.space = s
        BY <2>1, <2>3, <3>1, <3>2, <3>3, <3>4
      <3> QED BY <3>5 DEF r
    <2> QED BY <1>4, <2>2, <2>3 DEF StartsSave
  <1> QED BY <1>1, <1>2, <1>3, <1>4, ClientStep

\* The totals of every version are those of its lines.
LEMMA NextPriced ==
    ASSUME IInv, IInv', EditsAgree, [Next]_vars
    PROVE  PricedAsStored'
  <1>1. /\ Made = 1..latest /\ Made' = 1..latest' /\ latest \in Nat
        /\ \A id \in Made : row[id].priced = row[id].lines
    BY MadeAreFirst, MadeNext DEF IInv, EditsAgree, PricedAsStored
  <1>2. CASE UNCHANGED <<row, latest>>
    BY <1>1, <1>2 DEF PricedAsStored
  <1>3. CASE Creates
    BY <1>1, <1>3 DEF Creates, PricedAsStored
  <1>4. ASSUME NEW c \in Clients, Saves(c)
        PROVE  PricedAsStored'
    <2> DEFINE id == req[c].target
               added == req[c].knownSpaces \ Quoted(req[c].lines)
    <2>1. Rewrites(id) /\ row[id].status = "DRAFT"
      BY <1>4 DEF Saves
    <2>2. row'[id].priced = row'[id].lines
      <3>1. CASE req[c].op = "updateLine"
        BY <1>4, <3>1 DEF Saves
      <3>2. CASE req[c].op = "addMissingProjectScopes"
        <4>1. WritesWhatItRead(req[c]) /\ req[c].expectedRevision = row[id].revision
          BY <1>4, <3>2 DEF Saves, EditsAgree, DraftsAgree, Drafting
        <4>2. \A s \in Spaces : req[c].lines[s] = row[id].lines[s]
          BY <2>1, <3>2, <4>1 DEF WritesWhatItRead
        <4>3. WithScopes(req[c].lines, added) = WithScopes(row[id].lines, added)
          BY <4>2 DEF WithScopes
        <4> QED BY <1>4, <3>2, <4>3 DEF Saves
      <3> QED BY <1>4, <3>1, <3>2 DEF Saves
    <2>3. \A i \in Made' : i # id => i \in Ids /\ i \in Made
      BY <1>1, <2>1 DEF Rewrites, Made
    <2> HIDE DEF id
    <2>4. \A i \in Made' : row'[i].priced = row'[i].lines
      BY <1>1, <2>1, <2>2, <2>3 DEF Rewrites
    <2> QED BY <2>4 DEF PricedAsStored
  <1>5. ASSUME NEW c \in Clients, Generates(c) \/ Adjusts(c)
        PROVE  PricedAsStored'
    <2> DEFINE id == req[c].target
    <2>1. Rewrites(id) /\ KeepsLines(id) /\ row[id].status # "NONE"
      BY <1>5 DEF Generates, Adjusts
    <2>2. \A i \in Made' : i \in Ids /\ i \in Made
      BY <1>1, <2>1 DEF Rewrites, Made
    <2> HIDE DEF id
    <2>3. \A i \in Made' : row'[i].priced = row'[i].lines
      BY <1>1, <2>1, <2>2 DEF Rewrites, KeepsLines
    <2> QED BY <2>3 DEF PricedAsStored
  <1>6. ASSUME NEW c \in Clients, Confirms(c) \/ Decides(c) \/ Continues(c)
        PROVE  PricedAsStored'
    <2> DEFINE id == req[c].target
    <2>1. Supersedes(id) /\ KeepsLines(id) /\ row[id].status # "NONE"
      BY <1>6 DEF Confirms, Decides, Continues, Retires
    <2>2. id \in Made /\ \A i \in Made' : i \in Ids /\ (i # latest' => i \in Made)
      BY <1>1, <2>1 DEF Supersedes, Made
    <2> HIDE DEF id
    <2>3. \A i \in Made' : row'[i].priced = row'[i].lines
      BY <1>1, <2>1, <2>2 DEF Supersedes, KeepsLines
    <2> QED BY <2>3 DEF PricedAsStored
  <1> QED BY <1>2, <1>3, <1>4, <1>5, <1>6, RowStep

LEMMA InitEditsAgree == Init => EditsAgree
  <1> SUFFICES ASSUME Init PROVE EditsAgree
    OBVIOUS
  <1>1. PricedAsStored
    BY DEF Init, PricedAsStored, Made, NoRow
  <1>2. \A c \in Clients : /\ req[c].op = "none" /\ req[c].target = 0
                           /\ page[c].id = 0
    BY DEF Init, NoRequest
  <1>3. PagesBehind /\ DraftsAgree
    BY <1>2 DEF PagesBehind, DraftsAgree, Drafting, Waiting, Init
  <1> QED BY <1>1, <1>3 DEF EditsAgree

LEMMA EditsInvariant == Spec => []EditsAgree
  <1>1. IInv /\ IInv' /\ [Next]_vars /\ EditsAgree => EditsAgree'
    BY NextPriced, NextPagesBehind, NextDraftsAgree DEF EditsAgree
  <1> QED BY <1>1, InitEditsAgree, Invariance, PTL DEF Spec

\* The stored totals are those of the stored lines, although both saves write
\* totals calculated from an earlier read: whoever else saves lines or adds
\* scopes in between.
THEOREM TotalsFollowLines == Spec => []PricedAsStored
  <1>1. EditsAgree => PricedAsStored
    BY DEF EditsAgree
  <1> QED BY <1>1, EditsInvariant, PTL

\* NoLostUpdate, said of one step.
KeepsOthersEdits ==
    \A id \in Made, s \in Spaces :
        row'[id].lines[s] # row[id].lines[s] =>
            \/ row[id].lines[s] = None
            \/ \E c \in Clients :
                  /\ Waiting(c, "updateLine", "write")
                  /\ req'[c].phase = "finish"
                  /\ req[c].space = s
                  /\ page[c] = [id |-> id, revision |-> row[id].revision]

LEMMA NextKeepsEdits ==
    ASSUME IInv, IInv', EditsAgree, [Next]_vars
    PROVE  KeepsOthersEdits
  <1>1. \A id \in Made : id \in Ids /\ id <= latest
    BY MadeAreFirst DEF IInv
  <1>2. CASE UNCHANGED <<row, latest>>
    BY <1>2 DEF KeepsOthersEdits
  <1>3. CASE Creates
    BY <1>1, <1>3 DEF Creates, KeepsOthersEdits, Ids
  <1>4. ASSUME NEW c \in Clients, Saves(c)
        PROVE  KeepsOthersEdits
    <2> DEFINE id == req[c].target
               added == req[c].knownSpaces \ Quoted(req[c].lines)
    <2>1. /\ Rewrites(id) /\ row[id].status = "DRAFT" /\ Committed(c)
          /\ req[c].expectedRevision = row[id].revision
          /\ req[c].op \in Drafting /\ req[c].phase = "write"
      BY <1>4 DEF Saves, Drafting
    <2>2. \A s \in Spaces : req[c].lines[s] # row[id].lines[s] =>
             req[c].op = "updateLine" /\ req[c].space = s
      BY <2>1 DEF EditsAgree, DraftsAgree, WritesWhatItRead
    <2>3. \A i \in Made : i # id => row'[i] = row[i]
      BY <1>1, <2>1 DEF Rewrites
    <2>4. CASE req[c].op = "updateLine"
      <3>1. row'[id].lines = req[c].lines
        BY <1>4, <2>4 DEF Saves
      <3>2. page[c] = [id |-> id, revision |-> row[id].revision]
        <4>1. page[c].id = id /\ page[c].revision = row[id].revision
          BY <2>1, <2>4 DEF EditsAgree, PagesBehind, Waiting
        <4>2. page[c] \in [id : Ids \cup {0}, revision : Nat]
          BY DEF IInv, Records
        <4> HIDE DEF id
        <4> QED BY <4>1, <4>2
      <3>3. req'[c].phase = "finish"
        BY <2>1 DEF Committed, IInv, Requests, Request
      <3>4. Waiting(c, "updateLine", "write")
        BY <2>1, <2>4 DEF Waiting
      <3> HIDE DEF id
      <3> QED BY <2>2, <2>3, <3>1, <3>2, <3>3, <3>4 DEF KeepsOthersEdits
    <2>5. CASE req[c].op = "addMissingProjectScopes"
      <3>1. row'[id].lines = WithScopes(row[id].lines, added)
        BY <1>4, <2>5 DEF Saves
      <3>2. \A s \in Spaces : req[c].lines[s] = row[id].lines[s]
        BY <2>2, <2>5
      <3>3. \A s \in Spaces : row'[id].lines[s] # row[id].lines[s] =>
               row[id].lines[s] = None
        BY <3>1, <3>2 DEF WithScopes, Quoted
      <3> HIDE DEF id
      <3> QED BY <2>3, <3>3 DEF KeepsOthersEdits
    <2> QED BY <2>1, <2>4, <2>5 DEF Drafting
  <1>5. ASSUME NEW c \in Clients, Generates(c) \/ Adjusts(c)
        PROVE  KeepsOthersEdits
    <2>1. Rewrites(req[c].target) /\ KeepsLines(req[c].target)
      BY <1>5 DEF Generates, Adjusts
    <2> QED BY <1>1, <2>1 DEF Rewrites, KeepsLines, KeepsOthersEdits
  <1>6. ASSUME NEW c \in Clients, Confirms(c) \/ Decides(c) \/ Continues(c)
        PROVE  KeepsOthersEdits
    <2>1. Supersedes(req[c].target) /\ KeepsLines(req[c].target)
      BY <1>6 DEF Confirms, Decides, Continues, Retires
    <2>2. \A i \in Made : i # latest'
      BY <1>1, <2>1 DEF Supersedes, Ids
    <2> QED BY <1>1, <2>1, <2>2 DEF Supersedes, KeepsLines, KeepsOthersEdits
  <1> QED BY <1>2, <1>3, <1>4, <1>5, <1>6, RowStep

\* Nobody's edit of a line is overwritten by a request that had not seen it,
\* whatever the number of browsers, and however their requests interleave.
THEOREM EditsAreNotLost == Spec => NoLostUpdate
  <1>1. IInv /\ IInv' /\ EditsAgree /\ [Next]_vars => KeepsOthersEdits
    BY NextKeepsEdits
  <1>2. Spec => [][KeepsOthersEdits]_vars
    BY <1>1, EditsInvariant, Invariance, PTL DEF Spec
  <1>3. KeepsOthersEdits <=>
          \A id \in Made, s \in Spaces :
              row'[id].lines[s] # row[id].lines[s] =>
                  \/ row[id].lines[s] = None
                  \/ \E c \in Clients :
                        /\ Waiting(c, "updateLine", "write")
                        /\ req'[c].phase = "finish"
                        /\ req[c].space = s
                        /\ page[c] = [id |-> id, revision |-> row[id].revision]
    BY DEF KeepsOthersEdits
  <1> QED BY <1>2, <1>3, PTL DEF NoLostUpdate

-----------------------------------------------------------------------------
(***************************************************************************)
(* Exported files.                                                         *)
(***************************************************************************)

\* Shows, said of the rows r.
ShownAmong(r, x) ==
    /\ r[x.quotation].status \in {"QUOTED", "APPROVED"}
    /\ x.lines = r[x.quotation].lines
    /\ r[x.quotation].status = "APPROVED" =>
          x.discountRate = r[x.quotation].discountRate

\* What a file shows of a version stays so.
LEMMA FileStays ==
    ASSUME IInv, KeepsSnapshots, NEW x, x.quotation \in Ids, ShownAmong(row, x)
    PROVE  ShownAmong(row', x)
  <1> DEFINE id == x.quotation
  <1>1. id \in Made /\ row[id].status # "DRAFT"
    BY DEF ShownAmong, Made
  <1>2. row'[id].status = row[id].status /\ row'[id].lines = row[id].lines
    BY <1>1 DEF KeepsSnapshots
  <1>3. row[id].status = "APPROVED" => row'[id].discountRate = row[id].discountRate
    <2>1. row[id].status = "APPROVED" => row[id].adjustmentStatus = "CONFIRMED"
      BY <1>1 DEF IInv, Rows, StageShape
    <2> QED BY <1>1, <2>1 DEF KeepsSnapshots
  <1> QED BY <1>2, <1>3 DEF ShownAmong

\* The request of an export, after a step.
LEMMA ExportRequest ==
    ASSUME IInv, [Next]_vars, NEW k \in Clients,
           req'[k].op = "createExport", req'[k].phase = "write"
    PROVE  \/ req'[k] = req[k]
           \/ UNCHANGED row /\ ShownAmong(row, FileOf(req'[k]))
  <1>1. CASE UNCHANGED vars
    BY <1>1 DEF vars
  <1>2. ASSUME NEW c \in Clients, Browse(c) \/ Serve(c) \/ Fail(c), k # c
        PROVE  req'[k] = req[k]
    BY <1>2, OthersStay DEF IInv, Stays
  <1>3. CASE ReadForExport(k)
    <2>1. PICK id \in CurrentRows :
             /\ IsExportable(row[id])
             /\ Checked(k, [NoRequest EXCEPT
                    !.op = "createExport", !.phase = "write", !.target = id,
                    !.lines = row[id].lines,
                    !.discountRate = row[id].discountRate])
      BY <1>3 DEF ReadForExport
    <2> DEFINE r == [NoRequest EXCEPT
                        !.op = "createExport", !.phase = "write", !.target = id,
                        !.lines = row[id].lines,
                        !.discountRate = row[id].discountRate]
    <2>2. /\ r.target = id /\ r.lines = row[id].lines
          /\ r.discountRate = row[id].discountRate
      BY DEF NoRequest
    <2>3. req'[k] = r
      BY <2>1 DEF Checked, IInv, Requests
    <2> HIDE DEF r
    <2>4. row[id].status \in {"QUOTED", "APPROVED"}
      BY <2>1 DEF IsExportable
    <2> QED BY <1>3, <2>2, <2>3, <2>4
            DEF ReadForExport, database, ShownAmong, FileOf
  <1>4. CASE Browse(k) /\ ~ReadForExport(k)
    <2>1. \/ req'[k] = req[k]
          \/ \E r \in Request : req'[k] = r /\ r.op # "createExport"
      <3>1. req'[k] \in Request
        BY NextIInv DEF IInv, Requests
      <3>2. req'[k] = req[k] \/ req'[k].op # "createExport"
        BY <1>4
        DEF Browse, ViewVersion, GetProject, ReadLine, ReadForSubmit,
            ReadForAdjustment, ReadForDecision, ReadForEditing, ReadForSpace,
            Checked, IInv, Requests, NoRequest
      <3> QED BY <3>1, <3>2
    <2> QED BY <2>1
  <1>5. CASE Serve(k) \/ Fail(k)
    <2>1. req[k] \in Request /\ req'[k] \in Request
      BY NextIInv DEF IInv, Requests
    <2>2. CASE Answered(k) \/ Committed(k) \/ Broken(k)
      BY <1>5, <2>2
      DEF Answered, Committed, Broken, IInv, Requests, Request, NoRequest
    <2>3. CASE req' = [req EXCEPT ![k].phase = "finish", ![k].target = NextId]
      BY <2>3 DEF IInv, Requests, Request
    <2>4. CASE FindDraft(k) \/ FindLatest(k) \/ ProbeDraft(k)
      <3>1. \/ Answered(k)
            \/ Checked(k, [req[k] EXCEPT !.phase = "findLatest"])
            \/ /\ Checked(k, [req[k] EXCEPT !.phase = "write"])
               /\ req[k].op # "createExport"
            \/ \E id \in DraftRows :
                  Checked(k, [req[k] EXCEPT
                                !.op = "addMissingProjectScopes",
                                !.phase = "write",
                                !.target = id,
                                !.expectedRevision = row[id].revision,
                                !.lines = row[id].lines])
        BY <2>4 DEF FindDraft, FindLatest, ProbeDraft, Waiting
      <3>2. CASE Checked(k, [req[k] EXCEPT !.phase = "findLatest"])
        BY <2>1, <3>2 DEF Checked, IInv, Requests, Request
      <3>3. CASE Checked(k, [req[k] EXCEPT !.phase = "write"])
                 /\ req[k].op # "createExport"
        BY <2>1, <3>3 DEF Checked, IInv, Requests, Request
      <3>4. ASSUME NEW id \in DraftRows,
                   Checked(k, [req[k] EXCEPT
                                !.op = "addMissingProjectScopes",
                                !.phase = "write",
                                !.target = id,
                                !.expectedRevision = row[id].revision,
                                !.lines = row[id].lines])
            PROVE  FALSE
        BY <2>1, <3>4 DEF Checked, IInv, Requests, Request
      <3> QED BY <2>2, <3>1, <3>2, <3>3, <3>4
    <2>5. \/ FindDraft(k) \/ FindLatest(k) \/ ProbeDraft(k)
          \/ Answered(k) \/ Committed(k) \/ Broken(k)
          \/ req' = [req EXCEPT ![k].phase = "finish", ![k].target = NextId]
      BY <1>5
      DEF Serve, Fail, CreateDraft, AddDraftScopes, FinishDraft, SaveDraft,
          FinishLine, SubmitDraft, SaveAdjustment, ConfirmAdjustment, Decide,
          ContinueEditing, FinishVersion, CreateExport, FinishExport, AddSpace,
          ReportError
    <2> QED BY <2>2, <2>3, <2>4, <2>5
  <1>6. ASSUME NEW c \in Clients, Browse(c) \/ Serve(c) \/ Fail(c)
        PROVE  \/ req'[k] = req[k]
               \/ UNCHANGED row /\ ShownAmong(row, FileOf(req'[k]))
    BY <1>2, <1>3, <1>4, <1>5, <1>6
  <1> QED BY <1>1, <1>6 DEF Next

\* The files of a step: those there were, and one a request has made.
LEMMA NewExports ==
    ASSUME IInv, [Next]_vars
    PROVE  \/ UNCHANGED exports
           \/ \E c \in Clients : /\ Waiting(c, "createExport", "write")
                                 /\ exports' = exports \cup {FileOf(req[c])}
  <1>1. ASSUME NEW c \in Clients, Browse(c) \/ Serve(c) \/ Fail(c),
               ~CreateExport(c)
        PROVE  UNCHANGED exports
    BY <1>1
    DEF Browse, Serve, Fail, ViewVersion, GetProject, ReadLine, ReadForSubmit,
        ReadForAdjustment, ReadForDecision, ReadForEditing, ReadForExport,
        ReadForSpace, FindDraft, FindLatest, CreateDraft, AddDraftScopes,
        FinishDraft, SaveDraft, FinishLine, SubmitDraft, SaveAdjustment,
        ConfirmAdjustment, Decide, ProbeDraft, ContinueEditing, FinishVersion,
        FinishExport, AddSpace, ReportError, database
  <1>2. ASSUME NEW c \in Clients, CreateExport(c)
        PROVE  /\ Waiting(c, "createExport", "write")
               /\ exports' = exports \cup {FileOf(req[c])}
    BY <1>2 DEF CreateExport, FileOf
  <1> QED BY <1>1, <1>2 DEF Next, vars

LEMMA FilesFrozenByFile ==
    /\ FilesFrozen <=>
          /\ \A x \in exports : ShownAmong(row, x)
          /\ \A c \in Clients : Waiting(c, "createExport", "write") =>
                ShownAmong(row, FileOf(req[c]))
    /\ FilesFrozen' <=>
          /\ \A x \in exports' : ShownAmong(row', x)
          /\ \A c \in Clients :
                req'[c].op = "createExport" /\ req'[c].phase = "write" =>
                    ShownAmong(row', FileOf(req'[c]))
  BY DEF FilesFrozen, Shows, ShownAmong, FileOf, Waiting

\* Every step keeps the files, made and in the making, true to their versions.
LEMMA NextFilesFrozen ==
    ASSUME IInv, [Next]_vars, FilesFrozen
    PROVE  FilesFrozen'
  <1>1. KeepsSnapshots
    BY NextKeepsSnapshots
  <1>2. ASSUME NEW c \in Clients, req[c].op = "createExport"
        PROVE  FileOf(req[c]).quotation \in Ids
    BY <1>2 DEF FileOf, IInv, Requests, Carried, Carries, Targeting
  <1>3. ASSUME NEW x \in exports'
        PROVE  ShownAmong(row', x)
    <2>1. CASE x \in exports
      <3>1. x.quotation \in Ids
        BY <2>1 DEF IInv, Records, Export
      <3> QED BY <1>1, <2>1, <3>1, FilesFrozenByFile, FileStays
    <2>2. CASE x \notin exports
      <3>1. PICK c \in Clients : /\ Waiting(c, "createExport", "write")
                                 /\ x = FileOf(req[c])
        BY <2>2, NewExports
      <3> QED BY <1>1, <1>2, <3>1, FilesFrozenByFile, FileStays DEF Waiting
    <2> QED BY <2>1, <2>2
  <1>4. ASSUME NEW k \in Clients, req'[k].op = "createExport",
               req'[k].phase = "write"
        PROVE  ShownAmong(row', FileOf(req'[k]))
    <2>1. CASE req'[k] = req[k]
      <3>1. Waiting(k, "createExport", "write")
        BY <1>4, <2>1 DEF Waiting
      <3>2. ShownAmong(row', FileOf(req[k]))
        BY <1>1, <1>2, <3>1, FilesFrozenByFile, FileStays DEF Waiting
      <3> QED BY <2>1, <3>2
    <2>2. CASE UNCHANGED row /\ ShownAmong(row, FileOf(req'[k]))
      BY <2>2
    <2> QED BY <1>4, <2>1, <2>2, ExportRequest
  <1> QED BY <1>3, <1>4, FilesFrozenByFile

LEMMA InitFilesFrozen == Init => FilesFrozen
  BY DEF Init, FilesFrozen, Waiting, NoRequest

\* A file handed to the customer shows lines that stay under all requests of
\* QuotationService, and of an approved version the discount that was
\* approved, although the file is made between the check of the version and
\* the insert of the export.
THEOREM ExportsStayTrue == Spec => []ExportsAreFrozen
  <1>1. IInv /\ [Next]_vars /\ FilesFrozen => FilesFrozen'
    BY NextFilesFrozen
  <1>2. Spec => []FilesFrozen
    BY <1>1, InitFilesFrozen, Invariance, PTL DEF Spec
  <1>3. FilesFrozen => ExportsAreFrozen
    BY DEF FilesFrozen, ExportsAreFrozen, Shows
  <1> QED BY <1>2, <1>3, PTL

-----------------------------------------------------------------------------
(***************************************************************************)
(* The audit log, as long as no request dies between its transaction and   *)
(* its audit event.                                                        *)
(***************************************************************************)

\* Events about version id are logged, or one of the operations is about to.
Recorded(operations, actions, id) ==
    Logged(actions, id) \/ Underway(operations, id)

\* A request that has committed waits until it has written its event.
LEMMA FinishLogs ==
    ASSUME IInv, [Next]_vars, RequestsMayFail = FALSE, NEW c \in Clients,
           req[c].op \in DOMAIN AuditAction, req[c].phase = "finish"
    PROVE  \/ req'[c] = req[c]
           \/ [action |-> AuditAction[req[c].op], target |-> req[c].target]
                 \in audit'
  <1>1. CASE UNCHANGED vars
    BY <1>1 DEF vars
  <1>2. ASSUME NEW k \in Clients, Browse(k) \/ Serve(k) \/ Fail(k), k # c
        PROVE  req'[c] = req[c]
    BY <1>2, OthersStay DEF IInv, Stays
  <1>3. CASE Browse(c)
    BY <1>3
    DEF Browse, ViewVersion, GetProject, ReadLine, ReadForSubmit,
        ReadForAdjustment, ReadForDecision, ReadForEditing, ReadForExport,
        ReadForSpace, Sending
  <1>4. CASE Serve(c)
    <2>1. FinishVersion(c)
      BY <1>4
      DEF Serve, FindDraft, FindLatest, CreateDraft, AddDraftScopes,
          FinishDraft, SaveDraft, FinishLine, SubmitDraft, SaveAdjustment,
          ConfirmAdjustment, Decide, ProbeDraft, ContinueEditing,
          CreateExport, FinishExport, AddSpace, ReportError, Waiting,
          AuditAction
    <2> QED BY <2>1 DEF FinishVersion, Audited
  <1>5. CASE Fail(c)
    BY <1>5 DEF Fail
  <1>6. ASSUME NEW k \in Clients, Browse(k) \/ Serve(k) \/ Fail(k)
        PROVE  \/ req'[c] = req[c]
               \/ [action |-> AuditAction[req[c].op], target |-> req[c].target]
                     \in audit'
    BY <1>2, <1>3, <1>4, <1>5, <1>6
  <1> QED BY <1>1, <1>6 DEF Next

\* Events are never taken out of the log.
LEMMA LogGrows ==
    ASSUME [Next]_vars
    PROVE  audit \subseteq audit'
  <1>1. ASSUME NEW c \in Clients, Browse(c) \/ Fail(c)
        PROVE  audit' = audit
    BY <1>1
    DEF Browse, Fail, ViewVersion, GetProject, ReadLine, ReadForSubmit,
        ReadForAdjustment, ReadForDecision, ReadForEditing, ReadForExport,
        ReadForSpace, database
  <1>2. ASSUME NEW c \in Clients, Serve(c)
        PROVE  UNCHANGED audit \/ \E action, id : Audited(action, id)
    BY <1>2
    DEF Serve, FindDraft, FindLatest, CreateDraft, AddDraftScopes,
        FinishDraft, SaveDraft, FinishLine, SubmitDraft, SaveAdjustment,
        ConfirmAdjustment, Decide, ProbeDraft, ContinueEditing, FinishVersion,
        CreateExport, FinishExport, AddSpace, ReportError, database
  <1>3. ASSUME NEW c \in Clients, Serve(c)
        PROVE  audit \subseteq audit'
    BY <1>2, <1>3 DEF Audited
  <1> QED BY <1>1, <1>3 DEF Next, vars

\* What is on record stays on record.
LEMMA RecordStays ==
    ASSUME IInv, [Next]_vars, RequestsMayFail = FALSE,
           NEW operations, operations \subseteq DOMAIN AuditAction,
           NEW actions, \A op \in operations : AuditAction[op] \in actions,
           NEW id, Recorded(operations, actions, id)
    PROVE  Recorded(operations, actions, id)'
  <1>1. CASE Logged(actions, id)
    BY <1>1, LogGrows DEF Logged, Recorded
  <1>2. CASE Underway(operations, id)
    <2>1. PICK c \in Clients : /\ req[c].op \in operations
                               /\ req[c].phase = "finish"
                               /\ req[c].target = id
      BY <1>2 DEF Underway
    <2>2. CASE req'[c] = req[c]
      BY <2>1, <2>2 DEF Recorded, Underway
    <2>3. CASE [action |-> AuditAction[req[c].op], target |-> req[c].target]
                  \in audit'
      <3>1. AuditAction[req[c].op] \in actions
        BY <2>1
      <3> QED BY <2>1, <2>3, <3>1 DEF Recorded, Logged
    <2> QED BY <2>1, <2>2, <2>3, FinishLogs
  <1> QED BY <1>1, <1>2 DEF Recorded

\* A request whose transaction has committed is under way.
LEMMA CommittedUnderway ==
    ASSUME Requests, NEW c \in Clients, NEW operations,
           req[c].op \in operations, NEW id,
           \/ Committed(c) /\ req[c].target = id
           \/ req' = [req EXCEPT ![c].phase = "finish", ![c].target = id]
    PROVE  Underway(operations, id)'
  <1>1. /\ req'[c].op = req[c].op /\ req'[c].phase = "finish"
        /\ req'[c].target = id
    BY DEF Requests, Request, Committed
  <1> QED BY <1>1 DEF Underway

\* The decisions of a step: those there were, and one a request has made.
LEMMA NewDecisions ==
    ASSUME IInv, [Next]_vars
    PROVE  \A d \in decisions' \ decisions :
              \/ d.action = "QUOTED" /\ Underway({"submit"}, d.quotation)'
              \/ /\ d.action # "QUOTED"
                 /\ Underway({"APPROVED", "RETURNED", "CONFIRM"}, d.quotation)'
  <1>1. ASSUME NEW c \in Clients, Browse(c) \/ Serve(c) \/ Fail(c),
               ~SubmitDraft(c), ~ConfirmAdjustment(c), ~Decide(c)
        PROVE  UNCHANGED decisions
    BY <1>1
    DEF Browse, Serve, Fail, ViewVersion, GetProject, ReadLine, ReadForSubmit,
        ReadForAdjustment, ReadForDecision, ReadForEditing, ReadForExport,
        ReadForSpace, FindDraft, FindLatest, CreateDraft, AddDraftScopes,
        FinishDraft, SaveDraft, FinishLine, SaveAdjustment, ProbeDraft,
        ContinueEditing, FinishVersion, CreateExport, FinishExport, AddSpace,
        ReportError, database
  <1>2. ASSUME NEW c \in Clients, SubmitDraft(c), NEW d \in decisions' \ decisions
        PROVE  d.action = "QUOTED" /\ Underway({"submit"}, d.quotation)'
    <2>1. /\ d = [action |-> "QUOTED", quotation |-> req[c].target, actor |-> c]
          /\ Committed(c) /\ req[c].op = "submit"
      BY <1>2 DEF SubmitDraft, Decided, Waiting
    <2>2. d.action = "QUOTED" /\ d.quotation = req[c].target
      BY <2>1
    <2> QED BY <2>1, <2>2, CommittedUnderway DEF IInv
  <1>3. ASSUME NEW c \in Clients, ConfirmAdjustment(c) \/ Decide(c),
               NEW d \in decisions' \ decisions
        PROVE  /\ d.action # "QUOTED"
               /\ Underway({"APPROVED", "RETURNED", "CONFIRM"}, d.quotation)'
    <2>1. PICK action \in {"APPROVED", "RETURNED"} :
             /\ Decided(c, action, NextId)
             /\ req' = [req EXCEPT ![c].phase = "finish", ![c].target = NextId]
      BY <1>3 DEF ConfirmAdjustment, Decide
    <2>2. d = [action |-> action, quotation |-> NextId, actor |-> c]
      BY <2>1 DEF Decided
    <2>3. d.action = action /\ d.quotation = NextId
      BY <2>2
    <2>4. req[c].op \in {"APPROVED", "RETURNED", "CONFIRM"}
      BY <1>3 DEF ConfirmAdjustment, Decide, Waiting
    <2> QED BY <2>1, <2>3, <2>4, CommittedUnderway DEF IInv
  <1> QED BY <1>1, <1>2, <1>3 DEF Next, vars

\* A step makes a version pending, or a draft that is not the first, only with
\* a request under way that will log it.
LEMMA NewStages ==
    ASSUME IInv, IInv', [Next]_vars, NEW id \in Made'
    PROVE  /\ row'[id].adjustmentStatus = "PENDING_APPROVAL" =>
                 \/ /\ id \in Made
                    /\ row[id].adjustmentStatus = "PENDING_APPROVAL"
                 \/ Underway({"SUBMIT_FOR_APPROVAL"}, id)'
           /\ row'[id].status \in {"DRAFT", "QUOTED"} /\ id > 1 =>
                 \/ id \in Made /\ row[id].status \in {"DRAFT", "QUOTED"}
                 \/ Underway({"continueEditing"}, id)'
  <1>1. /\ Made = 1..latest /\ Made' = 1..latest' /\ latest \in Nat
        /\ id \in Ids
    BY MadeAreFirst, MadeNext DEF IInv, Made
  <1>2. CASE UNCHANGED <<row, latest>>
    BY <1>1, <1>2
  <1>3. CASE Creates
    BY <1>1, <1>3 DEF Creates
  <1>4. ASSUME NEW c \in Clients, Saves(c) \/ Generates(c)
        PROVE  /\ row'[id].adjustmentStatus = row[id].adjustmentStatus
               /\ row'[id].status \in {"DRAFT", "QUOTED"} =>
                     row[id].status \in {"DRAFT", "QUOTED"}
               /\ id \in Made
    <2>1. /\ Rewrites(req[c].target) /\ KeepsDiscount(req[c].target)
          /\ row[req[c].target].status = "DRAFT"
      BY <1>4 DEF Saves, Generates
    <2> QED BY <1>1, <2>1 DEF Rewrites, KeepsDiscount
  <1>5. ASSUME NEW c \in Clients, Adjusts(c)
        PROVE  /\ \/ row'[id].adjustmentStatus = row[id].adjustmentStatus
                  \/ Underway({"SUBMIT_FOR_APPROVAL"}, id)'
               /\ row'[id].status = row[id].status
               /\ id \in Made
    <2>1. CASE id = req[c].target
      <3>1. Committed(c) /\ req[c].op \in {"SUBMIT_FOR_APPROVAL"}
        BY <1>5 DEF Adjusts, Waiting
      <3>2. Underway({"SUBMIT_FOR_APPROVAL"}, id)'
        BY <2>1, <3>1, CommittedUnderway DEF IInv
      <3> QED BY <1>1, <1>5, <2>1, <3>2 DEF Adjusts, Rewrites
    <2>2. CASE id # req[c].target
      BY <1>1, <1>5, <2>2 DEF Adjusts, Rewrites
    <2> QED BY <2>1, <2>2
  <1>6. ASSUME NEW c \in Clients, Confirms(c) \/ Decides(c) \/ Continues(c)
        PROVE  \/ /\ id \in Made
                  /\ row'[id].status = row[id].status
                  /\ \/ row'[id].adjustmentStatus = row[id].adjustmentStatus
                     \/ row'[id].adjustmentStatus = "CONFIRMED"
               \/ /\ row'[id].adjustmentStatus # "PENDING_APPROVAL"
                  /\ \/ row'[id].status \notin {"DRAFT", "QUOTED"}
                     \/ Underway({"continueEditing"}, id)'
    <2>1. Supersedes(req[c].target) /\ Follows(c)
      BY <1>6 DEF Confirms, Decides, Continues, Retires
    <2>2. CASE id = latest'
      <3>1. CASE Continues(c)
        <4>1. req[c].op \in {"continueEditing"}
          BY <3>1 DEF Continues, Waiting
        <4>2. req' = [req EXCEPT ![c].phase = "finish", ![c].target = id]
          BY <2>1, <2>2 DEF Follows
        <4>3. Underway({"continueEditing"}, id)'
          BY <4>1, <4>2, CommittedUnderway DEF IInv
        <4> QED BY <2>2, <3>1, <4>3 DEF Continues
      <3>2. CASE Confirms(c) \/ Decides(c)
        BY <2>2, <3>2 DEF Confirms, Decides
      <3> QED BY <1>6, <3>1, <3>2
    <2>3. CASE id # latest'
      <3>1. id \in Made
        BY <1>1, <2>1, <2>3 DEF Supersedes
      <3>2. CASE id = req[c].target
        BY <1>6, <3>1, <3>2
        DEF Confirms, Decides, Continues, Retires, KeepsDiscount
      <3>3. CASE id # req[c].target
        BY <1>1, <2>1, <2>3, <3>1, <3>3 DEF Supersedes
      <3> QED BY <3>2, <3>3
    <2> QED BY <2>2, <2>3
  <1>7. CASE \E c \in Clients : \/ Saves(c) \/ Generates(c) \/ Adjusts(c)
                                \/ Confirms(c) \/ Decides(c) \/ Continues(c)
    BY <1>4, <1>5, <1>6, <1>7
  <1> QED BY <1>2, <1>3, <1>7, RowStep

DecisionEvents ==
    {"QUOTATION_APPROVED", "QUOTATION_ADJUSTMENT_CONFIRMED", "QUOTATION_RETURNED"}

LEMMA OnRecordByKind ==
    /\ OnRecord <=>
          /\ \A d \in decisions :
                IF d.action = "QUOTED"
                THEN Recorded({"submit"}, {"QUOTATION_GENERATED"}, d.quotation)
                ELSE Recorded({"APPROVED", "RETURNED", "CONFIRM"},
                              DecisionEvents, d.quotation)
          /\ \A id \in Made :
                /\ row[id].adjustmentStatus = "PENDING_APPROVAL" =>
                      Recorded({"SUBMIT_FOR_APPROVAL"},
                               {"QUOTATION_ADJUSTMENT_SUBMITTED"}, id)
                /\ row[id].status \in {"DRAFT", "QUOTED"} /\ id > 1 =>
                      Recorded({"continueEditing"},
                               {"QUOTATION_EDITING_CONTINUED"}, id)
  BY Zenon DEF OnRecord, Recorded, DecisionEvents

\* Every step keeps what is on record.
LEMMA NextOnRecord ==
    ASSUME IInv, IInv', [Next]_vars, RequestsMayFail = FALSE, OnRecord
    PROVE  OnRecord'
  <1>1. /\ {"submit"} \subseteq DOMAIN AuditAction
        /\ \A op \in {"submit"} : AuditAction[op] \in {"QUOTATION_GENERATED"}
    BY DEF AuditAction
  <1>2. /\ {"APPROVED", "RETURNED", "CONFIRM"} \subseteq DOMAIN AuditAction
        /\ \A op \in {"APPROVED", "RETURNED", "CONFIRM"} :
              AuditAction[op] \in DecisionEvents
    BY DEF AuditAction, DecisionEvents
  <1>3. /\ {"SUBMIT_FOR_APPROVAL"} \subseteq DOMAIN AuditAction
        /\ \A op \in {"SUBMIT_FOR_APPROVAL"} :
              AuditAction[op] \in {"QUOTATION_ADJUSTMENT_SUBMITTED"}
    BY DEF AuditAction
  <1>4. /\ {"continueEditing"} \subseteq DOMAIN AuditAction
        /\ \A op \in {"continueEditing"} :
              AuditAction[op] \in {"QUOTATION_EDITING_CONTINUED"}
    BY DEF AuditAction
  <1>5. ASSUME NEW d \in decisions'
        PROVE  IF d.action = "QUOTED"
               THEN Recorded({"submit"}, {"QUOTATION_GENERATED"}, d.quotation)'
               ELSE Recorded({"APPROVED", "RETURNED", "CONFIRM"},
                             DecisionEvents, d.quotation)'
    <2>1. CASE d \in decisions /\ d.action = "QUOTED"
      <3>1. Recorded({"submit"}, {"QUOTATION_GENERATED"}, d.quotation)
        BY <2>1, OnRecordByKind
      <3> QED BY <1>1, <2>1, <3>1, RecordStays
    <2>2. CASE d \in decisions /\ d.action # "QUOTED"
      <3>1. Recorded({"APPROVED", "RETURNED", "CONFIRM"}, DecisionEvents,
                     d.quotation)
        BY <2>2, OnRecordByKind
      <3> QED BY <1>2, <2>2, <3>1, RecordStays
    <2>3. CASE d \notin decisions
      BY <2>3, NewDecisions DEF Recorded
    <2> QED BY <2>1, <2>2, <2>3
  <1>6. ASSUME NEW id \in Made'
        PROVE  /\ row'[id].adjustmentStatus = "PENDING_APPROVAL" =>
                     Recorded({"SUBMIT_FOR_APPROVAL"},
                              {"QUOTATION_ADJUSTMENT_SUBMITTED"}, id)'
               /\ row'[id].status \in {"DRAFT", "QUOTED"} /\ id > 1 =>
                     Recorded({"continueEditing"},
                              {"QUOTATION_EDITING_CONTINUED"}, id)'
    <2>1. ASSUME id \in Made, row[id].adjustmentStatus = "PENDING_APPROVAL"
          PROVE  Recorded({"SUBMIT_FOR_APPROVAL"},
                          {"QUOTATION_ADJUSTMENT_SUBMITTED"}, id)'
      <3>1. Recorded({"SUBMIT_FOR_APPROVAL"},
                     {"QUOTATION_ADJUSTMENT_SUBMITTED"}, id)
        BY <2>1, OnRecordByKind
      <3> QED BY <1>3, <3>1, RecordStays
    <2>2. ASSUME id \in Made, row[id].status \in {"DRAFT", "QUOTED"}, id > 1
          PROVE  Recorded({"continueEditing"},
                          {"QUOTATION_EDITING_CONTINUED"}, id)'
      <3>1. Recorded({"continueEditing"}, {"QUOTATION_EDITING_CONTINUED"}, id)
        BY <2>2, OnRecordByKind
      <3> QED BY <1>4, <3>1, RecordStays
    <2>3. /\ Underway({"SUBMIT_FOR_APPROVAL"}, id)' =>
                Recorded({"SUBMIT_FOR_APPROVAL"},
                         {"QUOTATION_ADJUSTMENT_SUBMITTED"}, id)'
          /\ Underway({"continueEditing"}, id)' =>
                Recorded({"continueEditing"},
                         {"QUOTATION_EDITING_CONTINUED"}, id)'
      BY DEF Recorded
    <2> QED BY <2>1, <2>2, <2>3, NewStages
  <1> QED BY <1>5, <1>6 DEF OnRecord, Recorded, DecisionEvents

\* Without failures, every decision, submission and reopening is in the audit
\* log, or the request that made it is about to write it.
THEOREM TransitionsReachLog ==
    ASSUME RequestsMayFail = FALSE
    PROVE  Spec => []TransitionsLogged
  <1>1. Init => OnRecord
    BY DEF Init, OnRecord, Made, NoRow
  <1>2. IInv /\ IInv' /\ [Next]_vars /\ OnRecord => OnRecord'
    BY NextOnRecord
  <1>3. Spec => []OnRecord
    BY <1>1, <1>2, Invariance, PTL DEF Spec
  <1>4. OnRecord => TransitionsLogged
    BY DEF OnRecord, TransitionsLogged, Underway
  <1> QED BY <1>3, <1>4, PTL

-----------------------------------------------------------------------------
(***************************************************************************)
(* The rows and transactions implement the stages of QuotationFlow: every  *)
(* way in which a step changes the rows is one action of the flow, and any *)
(* other step leaves the flow as it is.                                    *)
(***************************************************************************)

\* The stage of a row, from its status and adjustment status.
LEMMA StageByStatus ==
    ASSUME NEW r
    PROVE  /\ r.status = "NONE" => StageOf(r) = "none"
           /\ r.status = "DRAFT" => StageOf(r) = "draft"
           /\ r.status = "QUOTED" /\ r.adjustmentStatus = "PENDING_APPROVAL" =>
                 StageOf(r) = "pending"
           /\ r.status = "QUOTED" /\ r.adjustmentStatus # "PENDING_APPROVAL" =>
                 StageOf(r) = "quoted"
           /\ r.status = "RETURNED" => StageOf(r) = "returned"
           /\ r.status = "APPROVED" => StageOf(r) = "approved"
  BY DEF StageOf

\* A project without a quotation is a flow that has not begun.
LEMMA InitFlow == Init => Flow!Init
  <1> SUFFICES ASSUME Init PROVE Flow!Init
    OBVIOUS
  <1>1. Newest = NoRow /\ latest = 0
    BY DEF Init, Newest
  <1>2. /\ NoRow.status = "NONE" /\ NoRow.lines = NoLines
        /\ NoRow.discountRate = Full
    BY DEF NoRow
  <1>3. StageOf(Newest) = "none"
    BY <1>1, <1>2, StageByStatus
  <1> QED BY <1>1, <1>2, <1>3 DEF Flow!Init

\* The row of the newest version, before and after an UPDATE or an INSERT.
LEMMA NewestRewritten ==
    ASSUME IInv, NEW c \in Clients, Rewrites(req[c].target)
    PROVE  /\ Newest = row[req[c].target] /\ Newest' = row'[req[c].target]
           /\ latest' = latest
  BY DEF Rewrites, Newest, Ids

LEMMA NewestSuperseded ==
    ASSUME IInv, NEW c \in Clients, Supersedes(req[c].target)
    PROVE  /\ Newest = row[req[c].target] /\ Newest' = row'[latest']
           /\ latest' = latest + 1
           /\ row'[latest'].lines = row[req[c].target].lines
  BY DEF Supersedes, Newest, Ids

\* Every step of the requests is a step of the flow, or none.
LEMMA NextFlow ==
    ASSUME IInv, IInv', [Next]_vars
    PROVE  [Flow!Next]_(Flow!vars)
  <1>1. CASE UNCHANGED <<row, latest>>
    <2>1. UNCHANGED Newest /\ UNCHANGED latest
      BY <1>1 DEF Newest
    <2>2. UNCHANGED StageOf(Newest)
      BY <2>1 DEF StageOf
    <2> QED BY <2>1, <2>2 DEF Flow!vars
  <1>2. Newest' \in Row
    BY NothingTyped, MadeNext DEF IInv, Rows, Newest, Ids
  <1>3. Newest'.lines \in Lines /\ Newest'.discountRate \in Discounts
    BY <1>2 DEF Row
  <1>4. CASE Creates
    <2>1. /\ Newest = NoRow /\ Newest' = row'[1] /\ latest' = 1
          /\ NoRow.status = "NONE"
      BY <1>4 DEF Creates, Newest, NoRow
    <2>2. StageOf(Newest) = "none"
      BY <2>1, StageByStatus
    <2>3. StageOf(Newest') = "draft" /\ Newest'.discountRate = Full
      BY <1>4, <2>1, StageByStatus DEF Creates
    <2>4. Flow!Create
      BY <1>3, <2>1, <2>2, <2>3 DEF Flow!Create, StageOf
    <2> QED BY <2>4 DEF Flow!Next
  <1>5. ASSUME NEW c \in Clients, Saves(c)
        PROVE  Flow!Next
    <2>1. /\ Newest = row[req[c].target] /\ Newest' = row'[req[c].target]
          /\ latest' = latest
      BY <1>5, NewestRewritten DEF Saves
    <2>2. StageOf(Newest) = "draft" /\ StageOf(Newest') = "draft"
          /\ Newest'.discountRate = Newest.discountRate
      BY <1>5, <2>1, StageByStatus DEF Saves, KeepsDiscount
    <2>3. Flow!Edit
      BY <1>3, <2>1, <2>2 DEF Flow!Edit, StageOf
    <2> QED BY <2>3 DEF Flow!Next
  <1>6. ASSUME NEW c \in Clients, Generates(c)
        PROVE  Flow!Next
    <2>1. /\ Newest = row[req[c].target] /\ Newest' = row'[req[c].target]
          /\ latest' = latest
      BY <1>6, NewestRewritten DEF Generates
    <2>2. row[req[c].target].adjustmentStatus # "PENDING_APPROVAL"
      BY <1>6 DEF Generates, Rewrites, IInv, Rows, StageShape, Made
    <2>3. StageOf(Newest) = "draft" /\ StageOf(Newest') = "quoted"
      BY <1>6, <2>1, <2>2, StageByStatus DEF Generates, KeepsDiscount
    <2>4. /\ Newest'.discountRate = Newest.discountRate
          /\ Newest'.lines = Newest.lines
      BY <1>6, <2>1 DEF Generates, KeepsLines, KeepsDiscount
    <2>5. Flow!Generate
      BY <2>1, <2>3, <2>4 DEF Flow!Generate, StageOf
    <2> QED BY <2>5 DEF Flow!Next
  <1>7. ASSUME NEW c \in Clients, Adjusts(c)
        PROVE  Flow!Next
    <2>1. /\ Newest = row[req[c].target] /\ Newest' = row'[req[c].target]
          /\ latest' = latest
      BY <1>7, NewestRewritten DEF Adjusts
    <2>2. StageOf(Newest) = "quoted" /\ StageOf(Newest') = "pending"
          /\ Newest'.lines = Newest.lines
      BY <1>7, <2>1, StageByStatus DEF Adjusts, KeepsLines
    <2>3. Flow!SubmitDiscount
      BY <1>3, <2>1, <2>2 DEF Flow!SubmitDiscount, StageOf
    <2> QED BY <2>3 DEF Flow!Next
  <1>8. ASSUME NEW c \in Clients, Confirms(c)
        PROVE  Flow!Next
    <2>1. /\ Newest = row[req[c].target] /\ Newest' = row'[latest']
          /\ latest' = latest + 1 /\ Newest'.lines = Newest.lines
      BY <1>8, NewestSuperseded DEF Confirms
    <2>2. StageOf(Newest) = "quoted" /\ StageOf(Newest') = "approved"
      BY <1>8, <2>1, StageByStatus DEF Confirms
    <2>3. Flow!Confirm
      BY <1>3, <2>1, <2>2 DEF Flow!Confirm, StageOf
    <2> QED BY <2>3 DEF Flow!Next
  <1>9. ASSUME NEW c \in Clients, Decides(c)
        PROVE  Flow!Next
    <2>1. /\ Newest = row[req[c].target] /\ Newest' = row'[latest']
          /\ latest' = latest + 1 /\ Newest'.lines = Newest.lines
      BY <1>9, NewestSuperseded DEF Decides, Retires
    <2>2. Newest'.discountRate = Newest.discountRate
      BY <1>9, <2>1 DEF Decides
    <2>3. StageOf(Newest) \in {"pending", "approved"}
      BY <1>9, <2>1, StageByStatus DEF Decides
    <2>4. CASE req[c].op = "APPROVED"
      <3>1. StageOf(Newest) = "pending" /\ StageOf(Newest') = "approved"
        BY <1>9, <2>1, <2>4, StageByStatus DEF Decides
      <3>2. Flow!Approve
        BY <2>1, <2>2, <3>1 DEF Flow!Approve, StageOf
      <3> QED BY <3>2 DEF Flow!Next
    <2>5. CASE req[c].op = "RETURNED"
      <3>1. StageOf(Newest') = "returned"
        BY <1>9, <2>1, <2>5, StageByStatus DEF Decides
      <3>2. Flow!Return
        BY <2>1, <2>2, <2>3, <3>1 DEF Flow!Return, StageOf
      <3> QED BY <3>2 DEF Flow!Next
    <2> QED BY <1>9, <2>4, <2>5 DEF Decides
  <1>10. ASSUME NEW c \in Clients, Continues(c)
         PROVE  Flow!Next
    <2>1. /\ Newest = row[req[c].target] /\ Newest' = row'[latest']
          /\ latest' = latest + 1 /\ Newest'.lines = Newest.lines
      BY <1>10, NewestSuperseded DEF Continues, Retires
    <2>2. StageOf(Newest') = "draft"
      BY <1>10, <2>1, StageByStatus DEF Continues
    <2>3. CASE Newest.status = "RETURNED"
      <3>1. /\ StageOf(Newest) = "returned"
            /\ Newest'.discountRate = Newest.discountRate
        BY <1>10, <2>1, <2>3, StageByStatus DEF Continues
      <3>2. Flow!Continue
        BY <2>1, <2>2, <3>1 DEF Flow!Continue, StageOf
      <3> QED BY <3>2 DEF Flow!Next
    <2>4. CASE Newest.status = "QUOTED"
      <3>1. /\ StageOf(Newest) \in {"quoted", "pending"}
            /\ Newest'.discountRate = Full
        BY <1>10, <2>1, <2>4, StageByStatus DEF Continues
      <3>2. Flow!Continue
        BY <2>1, <2>2, <3>1 DEF Flow!Continue, StageOf
      <3> QED BY <3>2 DEF Flow!Next
    <2> QED BY <1>10, <2>1, <2>3, <2>4 DEF Continues
  <1> QED BY <1>1, <1>4, <1>5, <1>6, <1>7, <1>8, <1>9, <1>10, RowStep

\* QuotationLifecycle implements QuotationFlow: seen from outside, the offer of
\* a project goes through the five stages and nothing else, however many
\* requests are stale, concurrent or fail.
THEOREM Implementation == Spec => ImplementsFlow
  <1>1. IInv /\ IInv' /\ [Next]_vars => [Flow!Next]_(Flow!vars)
    BY NextFlow
  <1> QED BY <1>1, InitFlow, Invariance, PTL DEF Spec, ImplementsFlow, Flow!Spec
=============================================================================

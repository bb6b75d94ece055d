----------------------- MODULE CatalogPublishingProofs -----------------------
(***************************************************************************)
(* Proofs about CatalogPublishing, for any workbooks, browsers, projects   *)
(* and scopes, and with or without requests that die.                      *)
(***************************************************************************)
EXTENDS CatalogPublishing, FiniteSetTheorems, TLAPS

\* How many versions there are.
Count == Cardinality(Published)

\* Versions are numbered from 1 without gaps.
Numbered ==
    /\ IsFiniteSet(Published)
    /\ \A f \in Published : version[f] \in 1..Count
    /\ \A n \in 1..Count : \E f \in Published : version[f] = n

\* A batch becomes a version once it was found without blockers.
Batches ==
    \A f \in Files :
      /\ batch[f] = "PUBLISHED" <=> version[f] > 0
      /\ batch[f] \in {"VALIDATED", "PUBLISHED"} => Blockers(f) = {}

PastTable == {"sync", "apply", "commit"}

\* What a publication holds: the batch from the statement that locked its row,
\* the table of versions and the next number from the statement that locked it.
Carries(b) ==
    /\ req[b].number > 0 => req[b].at \in PastTable
    /\ req[b].at \in PastTable => tableLock = b /\ req[b].number = Count + 1
    /\ req[b].at \in {"table"} \cup PastTable =>
         batchLock[req[b].file] = b /\ batch[req[b].file] = "VALIDATED"

Carried == \A b \in Browsers : req[b] # None => Carries(b)

\* Quotations have their three columns; a draft is opened from a version, and
\* each of its lines has the price of that version.
IsRecord(q) == q = [status |-> q.status, template |-> q.template, lines |-> q.lines]

PricedBy(f, item, line) ==
    /\ item \in StandardItems(f)
    /\ \E remarks : line = [price |-> Price(f, item), remarks |-> remarks]

Pinned(q) ==
    \A s \in DOMAIN q.lines :
      \A item \in DOMAIN q.lines[s] : PricedBy(q.template, item, q.lines[s][item])

Quotations ==
    /\ quotation = [p \in Projects |-> quotation[p]]
    /\ \A p \in Projects :
         /\ IsRecord(quotation[p])
         /\ opening[p] # None => opening[p] \in Published
         /\ Pinned(quotation[p])

\* The inductive invariant.  The numbers of versions alone are not inductive:
\* that the number a publication commits is still the next one follows from
\* the lock it holds on the table (Carried), and that its batch still waits
\* from the lock on the row.
IInv ==
    /\ TypeOK
    /\ Numbered
    /\ Batches
    /\ Carried
    /\ Quotations

-----------------------------------------------------------------------------
LEMMA LastIsCount ==
    ASSUME Numbered
    PROVE  /\ Count \in Nat /\ LastNumber = Count
           /\ Published # {} => Newest \in Published
  <1>1. Count \in Nat /\ (Count = 0 <=> Published = {})
    BY FS_CardinalityType, FS_EmptySet DEF Numbered, Count
  <1>2. CASE Published = {}
    BY <1>1, <1>2 DEF LastNumber
  <1>3. CASE Published # {}
    <2> DEFINE Largest(n) == \A f \in Published : version[f] <= n
               Numbers == {version[f] : f \in Published}
               last == CHOOSE n \in Numbers : Largest(n)
    <2>1. Count \in Numbers /\ Largest(Count)
      BY <1>1, <1>3 DEF Numbered
    <2>2. last \in Numbers /\ Largest(last)
      <3> HIDE DEF Largest, Numbers
      <3> QED BY <2>1
    <2>3. last = Count
      <3>1. last \in 1..Count /\ Count <= last
        BY <1>1, <1>3, <2>2 DEF Numbered
      <3> QED BY <1>1, <3>1
    <2>4. LastNumber = Count
      BY <1>3, <2>3 DEF LastNumber
    <2>5. \E f \in Published : version[f] = LastNumber
      BY <2>1, <2>4
    <2> QED BY <1>1, <2>4, <2>5 DEF Newest
  <1> QED BY <1>1, <1>2, <1>3

LEMMA InitInvariant == Init => IInv
  <1> SUFFICES ASSUME Init PROVE IInv
    OBVIOUS
  <1>1. Published = {}
    BY DEF Init, Published
  <1>2. TypeOK
    BY DEF Init, TypeOK
  <1>3. Numbered
    BY <1>1, FS_EmptySet DEF Numbered, Count
  <1>4. Batches
    BY ConstantsAssumption DEF Init, Batches, Statuses
  <1>5. Carried
    BY DEF Init, Carried
  <1>6. Quotations
    <2>1. \A p \in Projects : quotation[p] = NoQuotation /\ opening[p] = None
      BY DEF Init
    <2>2. quotation = [p \in Projects |-> quotation[p]]
      BY DEF Init
    <2>3. \A p \in Projects : IsRecord(quotation[p]) /\ DOMAIN quotation[p].lines = {}
      BY <2>1 DEF IsRecord, NoQuotation
    <2> QED BY <2>1, <2>2, <2>3 DEF Quotations, Pinned
  <1> QED BY <1>2, <1>3, <1>4, <1>5, <1>6 DEF IInv

-----------------------------------------------------------------------------
(***************************************************************************)
(* What a step leaves alone.                                               *)
(***************************************************************************)
LEMMA CatalogStays ==
    ASSUME IInv, UNCHANGED <<batch, version>>
    PROVE  /\ Numbered' /\ Batches' /\ Count' = Count /\ Published' = Published
           /\ batch' \in [Files -> Statuses \cup {None}] /\ version' \in [Files -> Nat]
  <1>1. Published' = Published /\ Count' = Count
    BY DEF Published, Count
  <1>2. Numbered'
    BY <1>1 DEF IInv, Numbered
  <1>3. Batches'
    BY DEF IInv, Batches, Blockers, Rows
  <1> QED BY <1>1, <1>2, <1>3 DEF IInv, TypeOK

\* The quotations part of the type invariant.
QuotationsType ==
    /\ \A p \in Projects :
         quotation[p] = NoQuotation
         \/ /\ quotation[p].status \in {"DRAFT", "QUOTED"}
            /\ quotation[p].template \in Published
            /\ FirstScopes \subseteq DOMAIN quotation[p].lines
    /\ opening \in [Projects -> Files \cup {None}]

LEMMA QuotationsStay ==
    ASSUME IInv, UNCHANGED <<quotation, opening>>, Published \subseteq Published'
    PROVE  QuotationsType' /\ Quotations'
  <1>1. QuotationsType'
    BY DEF IInv, TypeOK, QuotationsType, NoQuotation
  <1>2. Quotations'
    BY DEF IInv, Quotations
  <1> QED BY <1>1, <1>2

\* Locks, pages and requests.
ManagerType ==
    /\ batchLock \in [Files -> Browsers \cup {None}]
    /\ tableLock \in Browsers \cup {None}
    /\ page \in [Browsers -> [file : Files, status : Statuses] \cup {None}]
    /\ req \in [Browsers -> Request \cup {None}]

LEMMA TypeParts ==
    /\ IInv => ManagerType /\ QuotationsType
    /\ batch' \in [Files -> Statuses \cup {None}] /\ version' \in [Files -> Nat]
         /\ ManagerType' /\ QuotationsType' => TypeOK'
  BY DEF IInv, TypeOK, ManagerType, QuotationsType

\* The end of a request releases its own locks only.
LEMMA AnsweredKeeps ==
    ASSUME IInv, NEW b \in Browsers, Answered(b),
           page' \in [Browsers -> [file : Files, status : Statuses] \cup {None}]
    PROVE  /\ ManagerType'
           /\ req'[b] = None
           /\ \A c \in Browsers \ {b} :
                /\ req'[c] = req[c]
                /\ tableLock = c => tableLock' = c
                /\ \A f \in Files : batchLock[f] = c => batchLock'[f] = c
  <1>1. ManagerType /\ None \notin Browsers
    BY TypeParts, ConstantsAssumption
  <1> QED BY <1>1 DEF ManagerType, Answered

LEMMA OthersCarry ==
    ASSUME IInv, NEW b \in Browsers, Count' = Count,
           \A f \in Files : batch[f] = "VALIDATED" => batch'[f] = "VALIDATED",
           \A c \in Browsers \ {b} :
              /\ req'[c] = req[c]
              /\ tableLock = c => tableLock' = c
              /\ \A f \in Files : batchLock[f] = c => batchLock'[f] = c,
           req'[b] # None => Carries(b)'
    PROVE  Carried'
  <1> SUFFICES ASSUME NEW c \in Browsers, c # b, req'[c] # None PROVE Carries(c)'
    BY DEF Carried
  <1>1. Carries(c) /\ req'[c] = req[c] /\ req[c] \in Request
    BY TypeParts DEF IInv, Carried, ManagerType
  <1>2. req[c].file \in Files
    BY <1>1 DEF Request
  <1> QED BY <1>1, <1>2 DEF Carries

LEMMA RefusedKeeps ==
    ASSUME IInv, NEW b \in Browsers, Refused(b) PROVE IInv'
  <1>1. Answered(b) /\ UNCHANGED <<batch, version, quotation, opening, page>>
    BY DEF Refused, database
  <1>2. ManagerType /\ QuotationsType
    BY TypeParts
  <1>3. page' \in [Browsers -> [file : Files, status : Statuses] \cup {None}]
    BY <1>1, <1>2 DEF ManagerType
  <1>4. /\ Numbered' /\ Batches' /\ Count' = Count /\ Published' = Published
        /\ batch' \in [Files -> Statuses \cup {None}] /\ version' \in [Files -> Nat]
    BY <1>1, CatalogStays
  <1>5. Quotations' /\ QuotationsType'
    BY <1>1, <1>4, QuotationsStay
  <1>6. Carried'
    BY <1>1, <1>3, <1>4, AnsweredKeeps, OthersCarry
  <1>7. TypeOK'
    BY <1>1, <1>3, <1>4, <1>5, AnsweredKeeps, TypeParts
  <1> QED BY <1>4, <1>5, <1>6, <1>7 DEF IInv

\* A request goes on, or begins, and nobody else notices.
LEMMA RequestKeeps ==
    ASSUME IInv, NEW b \in Browsers, req' \in [Browsers -> Request \cup {None}],
           \A c \in Browsers \ {b} : req'[c] = req[c],
           UNCHANGED <<batch, version, quotation, opening>>,
           page' \in [Browsers -> [file : Files, status : Statuses] \cup {None}],
           batchLock' \in [Files -> Browsers \cup {None}],
           \A f \in Files : batchLock[f] \in {b, None} \/ batchLock'[f] = batchLock[f],
           tableLock' \in Browsers \cup {None},
           tableLock \in {b, None} \/ tableLock' = tableLock,
           Carries(b)'
    PROVE  IInv'
  <1>1. /\ Numbered' /\ Batches' /\ Count' = Count /\ Published' = Published
        /\ batch' \in [Files -> Statuses \cup {None}] /\ version' \in [Files -> Nat]
    BY CatalogStays
  <1>2. Quotations' /\ QuotationsType'
    BY <1>1, QuotationsStay
  <1>3. Carried'
    <2>1. None \notin Browsers
      BY ConstantsAssumption
    <2> QED BY <1>1, <2>1, OthersCarry
  <1>4. TypeOK'
    BY <1>1, <1>2, TypeParts DEF ManagerType
  <1> QED BY <1>1, <1>2, <1>3, <1>4 DEF IInv

-----------------------------------------------------------------------------
(***************************************************************************)
(* Validation and the way to a publication.                                *)
(***************************************************************************)
LEMMA RequestType ==
    ASSUME IInv, NEW b \in Browsers, req[b] # None
    PROVE  /\ req[b] \in Request /\ req[b].file \in Files /\ Carries(b)
           /\ req \in [Browsers -> Request \cup {None}]
  BY TypeParts DEF IInv, Carried, ManagerType, Request

\* A request that only moves on: neither tables nor locks change.
LEMMA MoveKeeps ==
    ASSUME IInv, NEW b \in Browsers, req' \in [Browsers -> Request \cup {None}],
           \A c \in Browsers \ {b} : req'[c] = req[c],
           UNCHANGED <<batch, version, quotation, opening, batchLock, tableLock>>,
           page' \in [Browsers -> [file : Files, status : Statuses] \cup {None}],
           Carries(b)'
    PROVE  IInv'
  BY TypeParts, RequestKeeps DEF ManagerType

LEMMA BeginKeeps ==
    ASSUME IInv, NEW b \in Browsers, NEW op \in {"validate", "publish"},
           NEW at \in {"hash", "find"}, NEW f \in Files, Asks(b, op, at, f),
           UNCHANGED <<batch, version, quotation, opening, batchLock, tableLock>>,
           page' \in [Browsers -> [file : Files, status : Statuses] \cup {None}]
    PROVE  IInv'
  <1> DEFINE r == [op |-> op, at |-> at, file |-> f, number |-> 0, targets |-> {}]
  <1>1. r \in Request
    BY DEF Request, Targets
  <1>2. req \in [Browsers -> Request \cup {None}]
    BY TypeParts DEF ManagerType
  <1>3. /\ req'[b] = r /\ \A c \in Browsers \ {b} : req'[c] = req[c]
        /\ req' \in [Browsers -> Request \cup {None}]
    BY <1>1, <1>2 DEF Asks
  <1>4. Carries(b)'
    BY <1>3 DEF Carries, PastTable
  <1> QED BY <1>3, <1>4, MoveKeeps

LEMMA UploadKeeps ==
    ASSUME IInv, NEW b \in Browsers, NEW f \in Files, Upload(b, f) PROVE IInv'
  <1>1. page' \in [Browsers -> [file : Files, status : Statuses] \cup {None}]
    BY TypeParts DEF Upload, ManagerType
  <1> QED BY <1>1, BeginKeeps DEF Upload, database

LEMMA AskToPublishKeeps ==
    ASSUME IInv, NEW b \in Browsers, AskToPublish(b) PROVE IInv'
  <1>1. /\ page \in [Browsers -> [file : Files, status : Statuses] \cup {None}]
        /\ page[b].file \in Files
    BY TypeParts DEF AskToPublish, ManagerType
  <1> QED BY <1>1, BeginKeeps DEF AskToPublish, database

\* A request that only changes its step.
LEMMA GoesOnKeeps ==
    ASSUME IInv, NEW b \in Browsers, req[b] # None,
           NEW at \in {"insert", "batch", "commit"}, GoesOn(b, at),
           at = "commit" => req[b].at \in PastTable,
           at # "commit" => req[b].at \notin PastTable,
           UNCHANGED <<batch, version, quotation, opening, page, batchLock, tableLock>>
    PROVE  IInv'
  <1>1. /\ req[b] \in Request /\ req[b].file \in Files /\ Carries(b)
        /\ req \in [Browsers -> Request \cup {None}]
    BY RequestType
  <1>2. /\ req'[b] = [req[b] EXCEPT !.at = at]
        /\ \A c \in Browsers \ {b} : req'[c] = req[c]
    BY <1>1 DEF GoesOn
  <1>3. /\ req'[b].at = at /\ req'[b].file = req[b].file /\ req'[b].number = req[b].number
        /\ req'[b] \in Request
    BY <1>1, <1>2 DEF Request
  <1>4. req' \in [Browsers -> Request \cup {None}]
    <2>1. req' = [req EXCEPT ![b] = req'[b]]
      BY <1>1, <1>2 DEF GoesOn
    <2> QED BY <1>1, <1>3, <2>1
  <1>5. Count' = Count
    BY CatalogStays
  <1>6. Carries(b)'
    BY <1>1, <1>3, <1>5 DEF Carries, PastTable
  <1>7. page' \in [Browsers -> [file : Files, status : Statuses] \cup {None}]
    BY TypeParts DEF ManagerType
  <1> QED BY <1>2, <1>4, <1>6, <1>7, MoveKeeps

LEMMA FindByHashKeeps ==
    ASSUME IInv, NEW b \in Browsers, FindByHash(b) PROVE IInv'
  <1> DEFINE f == req[b].file
  <1>1. /\ req[b] # None /\ req[b].at = "hash"
        /\ req[b] \in Request /\ f \in Files
    BY RequestType DEF FindByHash, At
  <1>2. CASE GoesOn(b, "insert") /\ UNCHANGED <<database, page, batchLock, tableLock>>
    BY <1>1, <1>2, GoesOnKeeps DEF database, PastTable
  <1>3. CASE /\ batch[f] # None /\ Shown(b, f, batch[f]) /\ Answered(b)
             /\ UNCHANGED database
    <2>1. batch[f] \in Statuses
      BY <1>1, <1>3 DEF IInv, TypeOK
    <2>2. page' \in [Browsers -> [file : Files, status : Statuses] \cup {None}]
      BY <1>1, <1>3, <2>1, TypeParts DEF Shown, ManagerType
    <2>3. /\ Numbered' /\ Batches' /\ Count' = Count /\ Published' = Published
          /\ batch' \in [Files -> Statuses \cup {None}] /\ version' \in [Files -> Nat]
      BY <1>3, CatalogStays DEF database
    <2>4. Quotations' /\ QuotationsType'
      BY <1>3, <2>3, QuotationsStay DEF database
    <2>5. Carried'
      BY <1>3, <2>2, <2>3, AnsweredKeeps, OthersCarry DEF database
    <2>6. TypeOK'
      BY <1>3, <2>2, <2>3, <2>4, AnsweredKeeps, TypeParts
    <2> QED BY <2>3, <2>4, <2>5, <2>6 DEF IInv
  <1> QED BY <1>2, <1>3 DEF FindByHash

LEMMA InsertBatchKeeps ==
    ASSUME IInv, NEW b \in Browsers, InsertBatch(b) PROVE IInv'
  <1> DEFINE f == req[b].file
             status == IF Blockers(f) = {} THEN "VALIDATED" ELSE "FAILED"
  <1>1. /\ req[b] # None /\ req[b].at = "insert"
        /\ req[b] \in Request /\ f \in Files
    BY RequestType DEF InsertBatch, At
  <1>2. CASE batch[f] # None
    BY <1>2, RefusedKeeps DEF InsertBatch
  <1>3. CASE batch[f] = None
    <2>1. /\ batch' = [batch EXCEPT ![f] = status] /\ Shown(b, f, status) /\ Answered(b)
          /\ UNCHANGED <<version, quotation, opening>>
      BY <1>3 DEF InsertBatch
    <2>2. /\ batch \in [Files -> Statuses \cup {None}] /\ version \in [Files -> Nat]
          /\ status \in Statuses /\ None \notin Statuses /\ status # "PUBLISHED"
          /\ Published' = Published /\ Count' = Count
      BY <2>1, ConstantsAssumption DEF IInv, TypeOK, Statuses, Published, Count
    <2>3. batch' \in [Files -> Statuses \cup {None}] /\ version' \in [Files -> Nat]
      BY <1>1, <2>1, <2>2
    <2>4. page' \in [Browsers -> [file : Files, status : Statuses] \cup {None}]
      BY <1>1, <2>1, <2>2, TypeParts DEF Shown, ManagerType
    <2>5. Numbered'
      BY <2>1, <2>2 DEF IInv, Numbered
    <2>6. Batches'
      <3> SUFFICES ASSUME NEW g \in Files
                   PROVE  /\ batch'[g] = "PUBLISHED" <=> version'[g] > 0
                          /\ batch'[g] \in {"VALIDATED", "PUBLISHED"} => Blockers(g) = {}
        BY DEF Batches, Blockers, Rows
      <3>1. batch[f] # "PUBLISHED" /\ ~(version[f] > 0)
        BY <1>1, <1>3, <2>2 DEF IInv, Batches, Statuses
      <3>2. batch'[g] = IF g = f THEN status ELSE batch[g]
        BY <2>1, <2>2
      <3>3. status = "VALIDATED" => Blockers(f) = {}
        BY DEF Statuses
      <3> HIDE DEF status
      <3> QED BY <2>1, <2>2, <3>1, <3>2, <3>3 DEF IInv, Batches
    <2>7. Quotations' /\ QuotationsType'
      BY <2>1, <2>2, QuotationsStay
    <2>8. \A g \in Files : batch[g] = "VALIDATED" => batch'[g] = "VALIDATED"
      BY <1>3, <2>1, <2>2 DEF Statuses
    <2>9. Carried'
      BY <2>1, <2>2, <2>4, <2>8, AnsweredKeeps, OthersCarry
    <2>10. TypeOK'
      BY <2>1, <2>3, <2>4, <2>7, AnsweredKeeps, TypeParts
    <2> QED BY <2>5, <2>6, <2>7, <2>9, <2>10 DEF IInv
  <1> QED BY <1>2, <1>3

LEMMA FindBatchKeeps ==
    ASSUME IInv, NEW b \in Browsers, FindBatch(b) PROVE IInv'
  <1>1. req[b] # None /\ req[b].at = "find"
    BY DEF FindBatch, At
  <1>2. CASE Refused(b)
    BY <1>2, RefusedKeeps
  <1>3. CASE GoesOn(b, "batch") /\ UNCHANGED <<database, page, batchLock, tableLock>>
    BY <1>1, <1>3, GoesOnKeeps DEF database, PastTable
  <1> QED BY <1>2, <1>3 DEF FindBatch

LEMMA LockBatchKeeps ==
    ASSUME IInv, NEW b \in Browsers, LockBatch(b) PROVE IInv'
  <1> DEFINE f == req[b].file
  <1>1. /\ req[b] # None /\ req[b].at = "batch" /\ batchLock[f] = None
        /\ req[b] \in Request /\ f \in Files /\ Carries(b)
        /\ req \in [Browsers -> Request \cup {None}]
    BY RequestType DEF LockBatch, At
  <1>2. CASE Refused(b)
    BY <1>2, RefusedKeeps
  <1>3. CASE ~Refused(b)
    <2>1. /\ batch[f] = "VALIDATED" /\ batchLock' = [batchLock EXCEPT ![f] = b]
          /\ req' = [req EXCEPT ![b] = [req[b] EXCEPT !.at = "table"]]
          /\ UNCHANGED <<batch, version, quotation, opening, page, tableLock>>
      BY <1>1, <1>3 DEF LockBatch, GoesOn, database
    <2>2. ManagerType
      BY TypeParts
    <2>3. /\ batchLock' \in [Files -> Browsers \cup {None}] /\ batchLock'[f] = b
          /\ \A g \in Files : batchLock[g] \in {b, None} \/ batchLock'[g] = batchLock[g]
      BY <1>1, <2>1, <2>2 DEF ManagerType
    <2>4. /\ req'[b].at = "table" /\ req'[b].file = f /\ req'[b].number = req[b].number
          /\ req'[b] \in Request
          /\ \A c \in Browsers \ {b} : req'[c] = req[c]
          /\ req' \in [Browsers -> Request \cup {None}]
      BY <1>1, <2>1 DEF Request
    <2>5. Carries(b)'
      BY <1>1, <2>1, <2>3, <2>4 DEF Carries, PastTable
    <2> QED BY <2>1, <2>2, <2>3, <2>4, <2>5, RequestKeeps DEF ManagerType
  <1> QED BY <1>2, <1>3

LEMMA RequestTakesNumber ==
    ASSUME NEW r \in Request, NEW n \in Nat
    PROVE  LET s == [r EXCEPT !.at = "sync", !.number = n] IN
           s \in Request /\ s.at = "sync" /\ s.number = n /\ s.file = r.file
  BY DEF Request

LEMMA LockTableKeeps ==
    ASSUME IInv, NEW b \in Browsers, LockTable(b) PROVE IInv'
  <1> DEFINE r == [req[b] EXCEPT !.at = "sync", !.number = Count + 1]
  <1>1. /\ req[b] # None /\ req[b].at = "table" /\ tableLock = None /\ tableLock' = b
        /\ req[b] \in Request /\ req[b].file \in Files /\ Carries(b)
        /\ req \in [Browsers -> Request \cup {None}]
    BY RequestType DEF LockTable, At
  <1>2. Count \in Nat /\ LastNumber = Count
    BY LastIsCount DEF IInv
  <1>3. /\ req' = [req EXCEPT ![b] = r]
        /\ UNCHANGED <<batch, version, quotation, opening, page, batchLock>>
    BY <1>1, <1>2 DEF LockTable, database
  <1>4. r \in Request /\ r.at = "sync" /\ r.number = Count + 1 /\ r.file = req[b].file
    <2>1. Count + 1 \in Nat
      BY <1>2
    <2> QED BY <1>1, <2>1, RequestTakesNumber
  <1> HIDE DEF r
  <1>5. /\ req'[b] = r /\ \A c \in Browsers \ {b} : req'[c] = req[c]
        /\ req' \in [Browsers -> Request \cup {None}]
    BY <1>1, <1>3, <1>4
  <1>6. Count' = Count
    BY <1>3, CatalogStays
  <1>7. Carries(b)'
    BY <1>1, <1>3, <1>4, <1>5, <1>6 DEF Carries, PastTable
  <1>8. ManagerType
    BY TypeParts
  <1> QED BY <1>1, <1>3, <1>5, <1>7, <1>8, RequestKeeps DEF ManagerType

LEMMA SyncRemarksKeeps ==
    ASSUME IInv, NEW b \in Browsers, SyncRemarks(b) PROVE IInv'
  <1> DEFINE targets == {t \in Projects \X (Scopes \X AllItems) :
                           Differs(req[b].file, t[1], t[2])}
             r == [req[b] EXCEPT !.at = "apply", !.targets = targets]
  <1>1. /\ req[b] # None /\ req[b].at = "sync"
        /\ req[b] \in Request /\ req[b].file \in Files /\ Carries(b)
        /\ req \in [Browsers -> Request \cup {None}]
    BY RequestType DEF SyncRemarks, At
  <1>2. /\ req' = [req EXCEPT ![b] = r]
        /\ UNCHANGED <<batch, version, quotation, opening, page, batchLock, tableLock>>
    BY <1>1 DEF SyncRemarks, database
  <1>3. targets \in Targets
    BY DEF Targets
  <1> HIDE DEF targets
  <1>4. r \in Request /\ r.at = "apply" /\ r.number = req[b].number /\ r.file = req[b].file
    BY <1>1, <1>3 DEF Request
  <1> HIDE DEF r
  <1>5. /\ req'[b] = r /\ \A c \in Browsers \ {b} : req'[c] = req[c]
        /\ req' \in [Browsers -> Request \cup {None}]
    BY <1>1, <1>2, <1>4
  <1>6. Count' = Count
    BY <1>2, CatalogStays
  <1>7. Carries(b)'
    BY <1>1, <1>2, <1>4, <1>5, <1>6 DEF Carries, PastTable
  <1>8. page' \in [Browsers -> [file : Files, status : Statuses] \cup {None}]
    BY <1>2, TypeParts DEF ManagerType
  <1> QED BY <1>2, <1>5, <1>7, <1>8, MoveKeeps

LEMMA ApplyRemarksKeeps ==
    ASSUME IInv, NEW b \in Browsers, ApplyRemarks(b) PROVE IInv'
  <1>1. req[b] # None /\ req[b].at = "apply"
    BY DEF ApplyRemarks, At
  <1>2. CASE Refused(b)
    BY <1>2, RefusedKeeps
  <1>3. CASE GoesOn(b, "commit") /\ UNCHANGED <<database, page, batchLock, tableLock>>
    BY <1>1, <1>3, GoesOnKeeps DEF database, PastTable
  <1> QED BY <1>2, <1>3 DEF ApplyRemarks

-----------------------------------------------------------------------------
(***************************************************************************)
(* The commit of a publication.                                            *)
(***************************************************************************)
\* One more version, with the next number.
LEMMA OneMore ==
    ASSUME IInv, NEW f \in Files, version[f] = 0,
           version' = [version EXCEPT ![f] = Count + 1]
    PROVE  /\ Numbered' /\ Published' = Published \cup {f}
           /\ \A g \in Files : version'[g] > 0 <=> g = f \/ version[g] > 0
  <1>1. Count \in Nat /\ version \in [Files -> Nat] /\ Numbered
    BY LastIsCount DEF IInv, TypeOK
  <1>2. \A g \in Files : version'[g] = IF g = f THEN Count + 1 ELSE version[g]
    BY <1>1
  <1>3. /\ Published' = Published \cup {f} /\ f \notin Published
        /\ \A g \in Files : version'[g] > 0 <=> g = f \/ version[g] > 0
    BY <1>1, <1>2 DEF Published
  <1>4. IsFiniteSet(Published') /\ Count' = Count + 1
    BY <1>1, <1>3, FS_AddElement DEF Numbered, Count
  <1>5. \A g \in Published' : version'[g] \in 1..(Count + 1)
    BY <1>1, <1>2, <1>3 DEF Numbered, Published
  <1>6. ASSUME NEW n \in 1..(Count + 1) PROVE \E g \in Published' : version'[g] = n
    <2>1. CASE n = Count + 1
      BY <1>2, <1>3, <2>1
    <2>2. CASE n # Count + 1
      <3>1. n \in 1..Count
        BY <1>1, <2>2
      <3>2. PICK g \in Published : version[g] = n
        BY <1>1, <3>1 DEF Numbered
      <3> QED BY <1>2, <1>3, <3>2 DEF Published
    <2> QED BY <2>1, <2>2
  <1>7. Numbered'
    BY <1>4, <1>5, <1>6 DEF Numbered
  <1> QED BY <1>3, <1>7

\* A quotation whose lines change keeps its other columns.
LEMMA LinesChange ==
    ASSUME NEW q, NEW r, NEW lines, IsRecord(q), r = [q EXCEPT !.lines = lines]
    PROVE  /\ IsRecord(r) /\ r.status = q.status /\ r.template = q.template
           /\ r.lines = lines
  <1>1. r = [status |-> q.status, template |-> q.template, lines |-> lines]
    BY DEF IsRecord
  <1> QED BY <1>1 DEF IsRecord

LEMMA RemarksChange ==
    ASSUME NEW line, NEW price, NEW old, NEW new, line = [price |-> price, remarks |-> old]
    PROVE  [line EXCEPT !.remarks = new] = [price |-> price, remarks |-> new]
  OBVIOUS

LEMMA PublishedStays ==
    ASSUME QuotationsType, Published \subseteq Published', opening' = opening,
           \A p \in Projects :
             /\ quotation'[p].status = quotation[p].status
             /\ quotation'[p].template = quotation[p].template
             /\ DOMAIN quotation'[p].lines = DOMAIN quotation[p].lines
             /\ quotation[p] = NoQuotation => quotation'[p] = NoQuotation
    PROVE  QuotationsType'
  BY DEF QuotationsType

LEMMA CommitKeeps ==
    ASSUME IInv, NEW b \in Browsers, Commit(b) PROVE IInv'
  <1> DEFINE f == req[b].file
             Synced(p, s, item) ==
               IF <<p, <<s, item>>>> \in req[b].targets
               THEN [Line(p, s, item) EXCEPT !.remarks = Remarks(f, item)]
               ELSE Line(p, s, item)
             lines(p) == [s \in DOMAIN quotation[p].lines |->
                            [item \in DOMAIN quotation[p].lines[s] |-> Synced(p, s, item)]]
  <1>1. /\ req[b] # None /\ req[b].at = "commit" /\ f \in Files /\ Carries(b)
        /\ tableLock = b /\ req[b].number = Count + 1
        /\ batchLock[f] = b /\ batch[f] = "VALIDATED"
    BY RequestType DEF Commit, At, Carries, PastTable
  <1>2. CASE Refused(b)
    BY <1>2, RefusedKeeps
  <1>3. CASE ~Refused(b)
    <2>1. /\ version' = [version EXCEPT ![f] = Count + 1]
          /\ batch' = [batch EXCEPT ![f] = "PUBLISHED"]
          /\ page' = [page EXCEPT ![b] = None]
          /\ Answered(b) /\ UNCHANGED opening
      BY <1>1, <1>3 DEF Commit
    <2>2. quotation' = [p \in Projects |-> [quotation[p] EXCEPT !.lines = lines(p)]]
      BY <1>1, <1>3 DEF Commit
    <2>3. /\ batch \in [Files -> Statuses \cup {None}] /\ version \in [Files -> Nat]
          /\ ManagerType /\ QuotationsType /\ Batches /\ Quotations /\ Carried
      BY TypeParts DEF IInv, TypeOK
    <2>4. version[f] = 0 /\ Blockers(f) = {}
      BY <1>1, <2>3 DEF Batches
    <2>5. /\ Numbered' /\ Published' = Published \cup {f}
          /\ \A g \in Files : version'[g] > 0 <=> g = f \/ version[g] > 0
      BY <1>1, <2>1, <2>4, OneMore
    <2>6. batch' \in [Files -> Statuses \cup {None}] /\ version' \in [Files -> Nat]
      <3>1. Count + 1 \in Nat
        BY LastIsCount DEF IInv
      <3> QED BY <1>1, <2>1, <2>3, <3>1 DEF Statuses
    <2>7. Batches'
      <3> SUFFICES ASSUME NEW g \in Files
                   PROVE  /\ batch'[g] = "PUBLISHED" <=> version'[g] > 0
                          /\ batch'[g] \in {"VALIDATED", "PUBLISHED"} => Blockers(g) = {}
        BY DEF Batches, Blockers, Rows
      <3>1. batch'[g] = IF g = f THEN "PUBLISHED" ELSE batch[g]
        BY <2>1, <2>3
      <3> QED BY <2>3, <2>4, <2>5, <3>1 DEF Batches
    <2>8. page' \in [Browsers -> [file : Files, status : Statuses] \cup {None}]
      BY <2>1, <2>3 DEF ManagerType
    <2>9. /\ ManagerType' /\ req'[b] = None
          /\ \A c \in Browsers \ {b} :
               /\ req'[c] = req[c]
               /\ \A g \in Files : batchLock[g] = c => batchLock'[g] = c
      BY <2>1, <2>8, AnsweredKeeps
    <2>10. Carried'
      <3> SUFFICES ASSUME NEW c \in Browsers, c # b, req'[c] # None PROVE Carries(c)'
        BY <2>9 DEF Carried
      <3>1. /\ req'[c] = req[c] /\ Carries(c) /\ req[c].file \in Files
        BY <2>9, RequestType
      <3>2. req[c].at \notin PastTable /\ ~(req[c].number > 0)
        BY <1>1, <3>1 DEF Carries
      <3>3. req[c].at = "table" => batch'[req[c].file] = "VALIDATED"
        BY <1>1, <2>1, <2>3, <3>1 DEF Carries
      <3> QED BY <2>9, <3>1, <3>2, <3>3 DEF Carries
    <2> HIDE DEF Synced
    <2>11. ASSUME NEW p \in Projects
           PROVE  /\ IsRecord(quotation'[p]) /\ quotation'[p].lines = lines(p)
                  /\ quotation'[p].status = quotation[p].status
                  /\ quotation'[p].template = quotation[p].template
      <3>1. IsRecord(quotation[p]) /\ quotation'[p] = [quotation[p] EXCEPT !.lines = lines(p)]
        BY <2>2, <2>3 DEF Quotations
      <3> QED BY <3>1, LinesChange
    <2>12. ASSUME NEW p \in Projects, quotation[p] = NoQuotation
           PROVE  quotation'[p] = NoQuotation
      <3>1. quotation[p].lines = [s \in {} |-> {}] /\ lines(p) = [s \in {} |-> {}]
        BY <2>12 DEF NoQuotation
      <3>2. /\ quotation'[p] = [status |-> quotation'[p].status,
                               template |-> quotation'[p].template,
                               lines |-> quotation'[p].lines]
            /\ quotation'[p].lines = [s \in {} |-> {}]
        BY <2>11, <3>1 DEF IsRecord
      <3>3. quotation'[p].status = "NONE" /\ quotation'[p].template = None
        <4>1. quotation[p].status = "NONE" /\ quotation[p].template = None
          BY <2>12 DEF NoQuotation
        <4> QED BY <2>11, <4>1
      <3> QED BY <3>2, <3>3 DEF NoQuotation
    <2>13. QuotationsType'
      BY <2>1, <2>3, <2>5, <2>11, <2>12, PublishedStays
    <2>14. ASSUME NEW p \in Projects PROVE Pinned(quotation'[p])
      <3>1. ASSUME NEW s \in DOMAIN quotation[p].lines,
                   NEW item \in DOMAIN quotation[p].lines[s]
            PROVE  PricedBy(quotation[p].template, item, Synced(p, s, item))
        <4>1. PricedBy(quotation[p].template, item, Line(p, s, item))
          BY <2>3 DEF Quotations, Pinned, Line
        <4>2. PICK remarks :
                Line(p, s, item) = [price |-> Price(quotation[p].template, item),
                                    remarks |-> remarks]
          BY <4>1 DEF PricedBy
        <4>3. \E m : Synced(p, s, item) = [price |-> Price(quotation[p].template, item),
                                          remarks |-> m]
          <5>1. CASE <<p, <<s, item>>>> \in req[b].targets
            <6>1. Synced(p, s, item) = [Line(p, s, item) EXCEPT !.remarks = Remarks(f, item)]
              BY <5>1 DEF Synced
            <6>2. [Line(p, s, item) EXCEPT !.remarks = Remarks(f, item)]
                    = [price |-> Price(quotation[p].template, item),
                       remarks |-> Remarks(f, item)]
              BY <4>2, RemarksChange
            <6> QED BY <6>1, <6>2, Zenon
          <5>2. CASE <<p, <<s, item>>>> \notin req[b].targets
            BY <4>2, <5>2 DEF Synced
          <5> QED BY <5>1, <5>2
        <4> QED BY <4>1, <4>3 DEF PricedBy
      <3>2. \A s \in DOMAIN lines(p) : \A item \in DOMAIN lines(p)[s] :
              PricedBy(quotation[p].template, item, lines(p)[s][item])
        BY <3>1
      <3> HIDE DEF lines
      <3> QED BY <2>11, <3>2 DEF Pinned
    <2>15. Quotations'
      <3>1. quotation' = [p \in Projects |-> quotation'[p]]
        BY <2>2
      <3>2. \A p \in Projects : opening'[p] # None => opening'[p] \in Published'
        BY <2>1, <2>3, <2>5 DEF Quotations
      <3> QED BY <2>11, <2>14, <3>1, <3>2 DEF Quotations
    <2>16. TypeOK'
      BY <2>6, <2>9, <2>13, TypeParts
    <2> QED BY <2>5, <2>7, <2>10, <2>15, <2>16 DEF IInv
  <1> QED BY <1>2, <1>3

-----------------------------------------------------------------------------
(***************************************************************************)
(* Quotations.                                                             *)
(***************************************************************************)
\* What the change of a single quotation has to keep.
LEMMA OneQuotation ==
    ASSUME IInv, NEW p \in Projects,
           quotation' = [quotation EXCEPT ![p] = quotation'[p]],
           IsRecord(quotation'[p]), Pinned(quotation'[p]),
           quotation'[p].status \in {"DRAFT", "QUOTED"},
           quotation'[p].template \in Published,
           FirstScopes \subseteq DOMAIN quotation'[p].lines,
           opening' \in [Projects -> Files \cup {None}],
           \A r \in Projects : opening'[r] \in {opening[r], None},
           UNCHANGED <<batch, version>>
    PROVE  QuotationsType' /\ Quotations'
  <1>1. Published' = Published
    BY DEF Published
  <1>2. QuotationsType /\ Quotations
    BY TypeParts DEF IInv
  <1>3. \A r \in Projects \ {p} : quotation'[r] = quotation[r]
    BY <1>2 DEF Quotations
  <1>4. quotation' = [r \in Projects |-> quotation'[r]]
    BY <1>2 DEF Quotations
  <1>5. QuotationsType'
    BY <1>1, <1>2, <1>3 DEF QuotationsType
  <1>6. \A r \in Projects : opening'[r] # None => opening'[r] \in Published'
    BY <1>1, <1>2 DEF Quotations
  <1>7. \A r \in Projects : IsRecord(quotation'[r]) /\ Pinned(quotation'[r])
    BY <1>2, <1>3 DEF Quotations
  <1> QED BY <1>4, <1>5, <1>6, <1>7 DEF Quotations

\* The import page is not concerned.
LEMMA ManagerStays ==
    ASSUME IInv, UNCHANGED Manager, QuotationsType', Quotations' PROVE IInv'
  <1>1. UNCHANGED <<batch, version, batchLock, tableLock, page, req>>
    BY DEF Manager
  <1>2. /\ Numbered' /\ Batches' /\ Count' = Count
        /\ batch' \in [Files -> Statuses \cup {None}] /\ version' \in [Files -> Nat]
    BY <1>1, CatalogStays
  <1>3. ManagerType'
    BY <1>1, TypeParts DEF ManagerType
  <1>4. Carried'
    BY <1>1, <1>2 DEF IInv, Carried, Carries
  <1> QED BY <1>2, <1>3, <1>4, TypeParts DEF IInv

LEMMA ReadCatalogKeeps ==
    ASSUME IInv, NEW p \in Projects, ReadCatalog(p) PROVE IInv'
  <1>1. Newest \in Published /\ Newest \in Files
    BY LastIsCount DEF ReadCatalog, IInv, Published
  <1>2. /\ opening' = [opening EXCEPT ![p] = Newest]
        /\ UNCHANGED <<Manager, quotation>>
    BY DEF ReadCatalog
  <1>3. QuotationsType /\ Quotations /\ Published' = Published
    BY <1>2, TypeParts DEF IInv, Manager, Published
  <1> DEFINE newest == Newest
  <1> HIDE DEF newest
  <1>4. opening' \in [Projects -> Files \cup {None}]
    BY <1>1, <1>2, <1>3 DEF QuotationsType, newest
  <1>5. QuotationsType'
    BY <1>2, <1>3, <1>4 DEF QuotationsType
  <1>6. \A r \in Projects : opening'[r] # None => opening'[r] \in Published'
    BY <1>1, <1>2, <1>3 DEF QuotationsType, Quotations
  <1>7. Quotations'
    BY <1>2, <1>3, <1>6 DEF Quotations
  <1> QED BY <1>2, <1>5, <1>7, ManagerStays

\* The lines of a scope have the prices of the version they are made of.
LEMMA ScopePriced ==
    ASSUME NEW f, NEW item \in DOMAIN LinesOf(f)
    PROVE  PricedBy(f, item, LinesOf(f)[item])
  BY DEF LinesOf, PricedBy

LEMMA CreateDraftKeeps ==
    ASSUME IInv, NEW p \in Projects, CreateDraft(p) PROVE IInv'
  <1> DEFINE f == opening[p]
             q == [status |-> "DRAFT", template |-> f,
                   lines |-> [s \in FirstScopes |-> LinesOf(f)]]
  <1>1. f \in Published /\ QuotationsType /\ Quotations
    BY TypeParts DEF CreateDraft, IInv, Quotations
  <1>2. /\ quotation' = [quotation EXCEPT ![p] = q]
        /\ opening' = [opening EXCEPT ![p] = None]
        /\ UNCHANGED Manager
    BY DEF CreateDraft
  <1>3. IsRecord(q) /\ Pinned(q)
    BY ScopePriced DEF IsRecord, Pinned
  <1>4. q.status = "DRAFT" /\ q.template = f /\ DOMAIN q.lines = FirstScopes
    OBVIOUS
  <1> HIDE DEF q
  <1>5. quotation'[p] = q
    BY <1>1, <1>2 DEF Quotations
  <1>6. /\ opening' \in [Projects -> Files \cup {None}]
        /\ \A r \in Projects : opening'[r] \in {opening[r], None}
    BY <1>1, <1>2 DEF QuotationsType
  <1>7. QuotationsType' /\ Quotations'
    BY <1>1, <1>2, <1>3, <1>4, <1>5, <1>6, OneQuotation DEF Manager
  <1> QED BY <1>2, <1>7, ManagerStays

\* A quotation that was opened, with its parts.
LEMMA Opened ==
    ASSUME IInv, NEW p \in Projects, quotation[p].status \in {"DRAFT", "QUOTED"}
    PROVE  /\ quotation[p].template \in Published
           /\ FirstScopes \subseteq DOMAIN quotation[p].lines
           /\ IsRecord(quotation[p]) /\ Pinned(quotation[p])
           /\ QuotationsType /\ Quotations
  BY TypeParts DEF QuotationsType, NoQuotation, IInv, Quotations

LEMMA AddScopeKeeps ==
    ASSUME IInv, NEW p \in Projects, NEW s \in Scopes, AddScope(p, s) PROVE IInv'
  <1> DEFINE q == quotation[p]
             lines == [t \in DOMAIN q.lines \cup {s} |->
                         IF t = s THEN LinesOf(q.template) ELSE q.lines[t]]
             r == [q EXCEPT !.lines = lines]
  <1>1. /\ q.status = "DRAFT" /\ q.template \in Published
        /\ FirstScopes \subseteq DOMAIN q.lines /\ IsRecord(q) /\ Pinned(q)
        /\ QuotationsType /\ Quotations
    BY Opened DEF AddScope
  <1>2. quotation' = [quotation EXCEPT ![p] = r] /\ UNCHANGED <<Manager, opening>>
    BY DEF AddScope, WithScope
  <1>3. \A t \in DOMAIN lines : \A item \in DOMAIN lines[t] :
          PricedBy(q.template, item, lines[t][item])
    BY <1>1, ScopePriced DEF Pinned
  <1>4. FirstScopes \subseteq DOMAIN lines
    BY <1>1
  <1> HIDE DEF lines
  <1>5. /\ IsRecord(r) /\ r.status = q.status /\ r.template = q.template
        /\ r.lines = lines
    BY <1>1, LinesChange
  <1>6. quotation'[p] = r
    BY <1>1, <1>2 DEF Quotations
  <1> HIDE DEF r
  <1>7. Pinned(r)
    BY <1>3, <1>5 DEF Pinned
  <1>8. QuotationsType' /\ Quotations'
    BY <1>1, <1>2, <1>4, <1>5, <1>6, <1>7, OneQuotation DEF Manager, QuotationsType
  <1> QED BY <1>2, <1>8, ManagerStays

LEMMA StatusKeeps ==
    ASSUME IInv, NEW p \in Projects, NEW status \in {"DRAFT", "QUOTED"},
           quotation[p].status \in {"DRAFT", "QUOTED"},
           quotation' = [quotation EXCEPT ![p].status = status],
           UNCHANGED <<Manager, opening>>
    PROVE  IInv'
  <1> DEFINE q == quotation[p]
             r == [q EXCEPT !.status = status]
  <1>1. /\ q.template \in Published
        /\ FirstScopes \subseteq DOMAIN q.lines /\ IsRecord(q) /\ Pinned(q)
        /\ QuotationsType /\ Quotations
    BY Opened
  <1>2. r = [status |-> status, template |-> q.template, lines |-> q.lines]
    BY <1>1 DEF IsRecord
  <1>3. quotation' = [quotation EXCEPT ![p] = r] /\ quotation'[p] = r
    BY <1>1 DEF Quotations
  <1> HIDE DEF r
  <1>4. /\ r.status = status /\ r.template = q.template /\ r.lines = q.lines
        /\ IsRecord(r)
    BY <1>2 DEF IsRecord
  <1>5. Pinned(r)
    BY <1>1, <1>4 DEF Pinned
  <1>6. QuotationsType' /\ Quotations'
    BY <1>1, <1>3, <1>4, <1>5, OneQuotation DEF Manager, QuotationsType
  <1> QED BY <1>6, ManagerStays

\* Fewer lines to update, in whichever requests.
LEMMA FewerTargets ==
    ASSUME NEW r \in Request, NEW targets, targets \subseteq r.targets
    PROVE  LET n == [r EXCEPT !.targets = targets] IN
           n \in Request /\ n.at = r.at /\ n.number = r.number /\ n.file = r.file
  BY DEF Request, Targets

LEMMA DeleteScopeKeeps ==
    ASSUME IInv, NEW p \in Projects, NEW s \in Scopes, DeleteScope(p, s) PROVE IInv'
  <1> DEFINE q == quotation[p]
             lines == [t \in DOMAIN q.lines \ {s} |-> q.lines[t]]
             r == [q EXCEPT !.lines = lines]
             Others(c) == {t \in req[c].targets : ~(t[1] = p /\ t[2][1] = s)}
  <1>1. /\ q.status = "DRAFT" /\ q.template \in Published
        /\ FirstScopes \subseteq DOMAIN q.lines /\ IsRecord(q) /\ Pinned(q)
        /\ QuotationsType /\ Quotations /\ s \notin FirstScopes
    BY Opened DEF DeleteScope
  <1>2. /\ quotation' = [quotation EXCEPT ![p] = r]
        /\ UNCHANGED <<batch, version, batchLock, tableLock, page, opening>>
        /\ req' = [c \in Browsers |-> IF req[c] = None THEN None
                                      ELSE [req[c] EXCEPT !.targets = Others(c)]]
    BY DEF DeleteScope
  <1>3. \A t \in DOMAIN lines : \A item \in DOMAIN lines[t] :
          PricedBy(q.template, item, lines[t][item])
    BY <1>1 DEF Pinned
  <1>4. FirstScopes \subseteq DOMAIN lines
    BY <1>1
  <1> HIDE DEF lines
  <1>5. /\ IsRecord(r) /\ r.status = q.status /\ r.template = q.template
        /\ r.lines = lines
    BY <1>1, LinesChange
  <1>6. quotation'[p] = r
    BY <1>1, <1>2 DEF Quotations
  <1> HIDE DEF r
  <1>7. Pinned(r)
    BY <1>3, <1>5 DEF Pinned
  <1>8. QuotationsType' /\ Quotations'
    BY <1>1, <1>2, <1>4, <1>5, <1>6, <1>7, OneQuotation DEF QuotationsType
  <1>9. \A c \in Browsers : Others(c) \subseteq req[c].targets
    OBVIOUS
  <1> HIDE DEF Others
  <1>10. ASSUME NEW c \in Browsers, req[c] # None
         PROVE  /\ req'[c] \in Request /\ req'[c].at = req[c].at
                /\ req'[c].number = req[c].number /\ req'[c].file = req[c].file
    <2>1. req[c] \in Request /\ req'[c] = [req[c] EXCEPT !.targets = Others(c)]
      BY <1>2, <1>10, RequestType
    <2> QED BY <1>9, <2>1, FewerTargets
  <1>11. req' \in [Browsers -> Request \cup {None}]
    <2>1. \A c \in Browsers : req'[c] \in Request \cup {None}
      BY <1>2, <1>10
    <2>2. req' = [c \in Browsers |-> req'[c]]
      BY <1>2
    <2> QED BY <2>1, <2>2
  <1>12. /\ Numbered' /\ Batches' /\ Count' = Count
         /\ batch' \in [Files -> Statuses \cup {None}] /\ version' \in [Files -> Nat]
    BY <1>2, CatalogStays
  <1>13. Carried'
    <2> SUFFICES ASSUME NEW c \in Browsers, req'[c] # None PROVE Carries(c)'
      BY DEF Carried
    <2>1. req[c] # None
      BY <1>2
    <2>2. Carries(c)
      BY <2>1, RequestType
    <2> QED BY <1>2, <1>10, <1>12, <2>1, <2>2 DEF Carries
  <1>14. ManagerType'
    BY <1>2, <1>11, TypeParts DEF ManagerType
  <1> QED BY <1>8, <1>12, <1>13, <1>14, TypeParts DEF IInv

-----------------------------------------------------------------------------
LEMMA NextInvariant == IInv /\ [Next]_vars => IInv'
  <1> SUFFICES ASSUME IInv, [Next]_vars PROVE IInv'
    OBVIOUS
  <1>1. ASSUME NEW b \in Browsers, NEW f \in Files, Upload(b, f) PROVE IInv'
    BY <1>1, UploadKeeps
  <1>2. ASSUME NEW b \in Browsers, AskToPublish(b) PROVE IInv'
    BY <1>2, AskToPublishKeeps
  <1>3. ASSUME NEW b \in Browsers, Serve(b) PROVE IInv'
    BY <1>3, FindByHashKeeps, InsertBatchKeeps, FindBatchKeeps, LockBatchKeeps,
       LockTableKeeps, SyncRemarksKeeps, ApplyRemarksKeeps, CommitKeeps DEF Serve
  <1>4. ASSUME NEW b \in Browsers, Fail(b) PROVE IInv'
    BY <1>4, RefusedKeeps DEF Fail
  <1>5. ASSUME NEW p \in Projects, ReadCatalog(p) PROVE IInv'
    BY <1>5, ReadCatalogKeeps
  <1>6. ASSUME NEW p \in Projects, CreateDraft(p) PROVE IInv'
    BY <1>6, CreateDraftKeeps
  <1>7. ASSUME NEW p \in Projects, NEW s \in Scopes, AddScope(p, s) PROVE IInv'
    BY <1>7, AddScopeKeeps
  <1>8. ASSUME NEW p \in Projects, NEW s \in Scopes, DeleteScope(p, s) PROVE IInv'
    BY <1>8, DeleteScopeKeeps
  <1>9. ASSUME NEW p \in Projects, Generate(p) PROVE IInv'
    BY <1>9, StatusKeeps DEF Generate
  <1>10. ASSUME NEW p \in Projects, ContinueEditing(p) PROVE IInv'
    BY <1>10, StatusKeeps DEF ContinueEditing
  <1>11. CASE UNCHANGED vars
    <2>1. UNCHANGED <<quotation, opening, batchLock, tableLock, page, req>>
          /\ UNCHANGED <<batch, version>>
      BY <1>11 DEF vars
    <2>2. Published \subseteq Published'
      BY <2>1 DEF Published
    <2> QED BY <2>1, <2>2, QuotationsStay, ManagerStays DEF Manager
  <1> QED BY <1>1, <1>2, <1>3, <1>4, <1>5, <1>6, <1>7, <1>8, <1>9, <1>10, <1>11
          DEF Next

-----------------------------------------------------------------------------
(***************************************************************************)
(* Theorems.                                                               *)
(***************************************************************************)
\* The batches, versions, quotations, locks and requests always satisfy the
\* inductive invariant, whatever managers upload, publish and abandon.
THEOREM Invariance == Spec => []IInv
  <1> QED BY InitInvariant, NextInvariant, PTL DEF Spec

\* Type correctness: in particular, every draft is built from a version that
\* was published, and keeps the scopes it began with.
THEOREM TypeCorrect == Spec => []TypeOK
  <1>1. IInv => TypeOK
    BY DEF IInv
  <1> QED BY <1>1, Invariance, PTL

\* publishImportBatch, by any number of managers at once: a batch is
\* PUBLISHED exactly when a version was made of it, the versions are numbered
\* from 1 without gaps and none of them has a blocker.
THEOREM BatchesAgree == Spec => []BatchesAndVersionsAgree
  <1>1. IInv => BatchesAndVersionsAgree
    <2> SUFFICES ASSUME IInv PROVE BatchesAndVersionsAgree
      OBVIOUS
    <2>1. {version[f] : f \in Published} = 1..Count
      BY DEF IInv, Numbered
    <2>2. \A f \in Files : batch[f] = "PUBLISHED" <=> version[f] > 0
      BY DEF IInv, Batches
    <2>3. \A f \in Published : Blockers(f) = {}
      BY DEF IInv, Batches, Published
    <2> QED BY <2>1, <2>2, <2>3 DEF BatchesAndVersionsAgree, Count
  <1> QED BY <1>1, Invariance, PTL

\* LOCK TABLE ... IN EXCLUSIVE MODE: the number a publication has taken stays
\* the next one until it commits or dies.
THEOREM NumbersFree == Spec => []PublicationsDoNotCollide
  <1>1. IInv => PublicationsDoNotCollide
    BY LastIsCount DEF IInv, Carried, Carries, PublicationsDoNotCollide
  <1> QED BY <1>1, Invariance, PTL

\* buildScope, publishImportBatch: every line of a quotation has the item and
\* price of the version the first draft was built from.
THEOREM PricesStayPinned == Spec => []PricesPinned
  <1>1. IInv => PricesPinned
    <2> SUFFICES ASSUME IInv, NEW p \in Projects, NEW l \in LinePlaces(p)
                 PROVE  /\ l[2] \in StandardItems(quotation[p].template)
                        /\ Line(p, l[1], l[2]).price = Price(quotation[p].template, l[2])
      BY DEF PricesPinned
    <2>1. l[1] \in DOMAIN quotation[p].lines /\ l[2] \in DOMAIN quotation[p].lines[l[1]]
      BY DEF LinePlaces
    <2>2. PricedBy(quotation[p].template, l[2], Line(p, l[1], l[2]))
      BY <2>1 DEF IInv, Quotations, Pinned, Line
    <2> QED BY <2>2 DEF PricedBy
  <1> QED BY <1>1, Invariance, PTL
=============================================================================

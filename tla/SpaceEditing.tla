---------------------------- MODULE SpaceEditing ----------------------------
(***************************************************************************)
(* The spaces of one project against the draft of its quotation, at the    *)
(* grain of SQL statements.                                                *)
(*                                                                         *)
(* updateSpace and deleteSpace of PgProjectsRepository are transactions of *)
(* many statements that lock rows one after the other.  PostgreSQL runs    *)
(* them READ COMMITTED: a statement sees what was committed when it began  *)
(* and what its own transaction wrote; a row it writes stays locked until  *)
(* the transaction ends; a statement that waited for a row looks at that   *)
(* row again, but at nothing else.  tx holds the rows a transaction has    *)
(* written, which are at once its locks and its own view of them.          *)
(*                                                                         *)
(* The requests on the quotation are those of QuotationLifecycle, here     *)
(* without pages: from the lock of the header row to the commit they are   *)
(* one step, except saveDraft, which needs scope rows as well.  Amounts    *)
(* are represented by the measures they were calculated from.  Two         *)
(* requests never give two spaces the same name.                           *)
(***************************************************************************)
EXTENDS Integers, FiniteSets, Relation

CONSTANTS
    Clients,          \* browsers
    Spaces,           \* the spaces there can be
    InitialSpaces,    \* those the project was created with
    Measures,         \* name and sizes of a space
    InitialMeasure,
    None,             \* no space, no measure
    Operations,       \* the requests each browser sends
    MaxVersion,       \* bound: no version is cloned beyond it
    MaxRequests       \* bound: how many requests each browser sends

AllOperations ==
    {"addSpace", "updateSpace", "deleteSpace", "getOrCreateDraft",
     "updateLine", "submit", "continueEditing"}

ASSUME ConstantsAssumption ==
    /\ InitialSpaces \subseteq Spaces /\ InitialSpaces # {}
    /\ IsFiniteSet(Spaces)
    /\ InitialMeasure \in Measures
    /\ None \notin Spaces \cup Measures
    /\ Operations \in [Clients -> SUBSET AllOperations]
    /\ MaxVersion \in Nat \ {0}
    /\ MaxRequests \in [Clients -> Nat]

VARIABLES
    db,     \* the committed rows, by key
    tx,     \* per client, the rows its open transaction has written
    req,    \* the request a browser waits for
    sent    \* how many requests a browser has sent

vars == <<db, tx, req, sent>>

Versions == 1..MaxVersion

SpaceKey(s) == <<"space", s>>
HeaderKey(v) == <<"header", v>>
ScopeKey(v, s) == <<"scope", v, s>>

Keys == {SpaceKey(s) : s \in Spaces} \cup {HeaderKey(v) : v \in Versions}
          \cup {ScopeKey(p[1], p[2]) : p \in Versions \X Spaces}

Measured == [Spaces -> Measures \cup {None}]
Nothing == [s \in Spaces |-> None]

SpaceRow == [state : {"none", "live", "deleted"}, measure : Measures \cup {None},
             order : Nat]

\* "totals" are the scopes summed up in the header, with their measures.
HeaderRow == [status : {"none", "DRAFT", "QUOTED"}, isCurrent : BOOLEAN,
              revision : Nat, totals : Measured]

\* The columns of a scope and its lines, by the measure they come from.
ScopeRow == [area : Measures, quantity : Measures, amount : Measures,
             subtotal : Measures]

NoSpace == [state |-> "none", measure |-> None, order |-> 0]
NoHeader == [status |-> "none", isCurrent |-> FALSE, revision |-> 0,
             totals |-> Nothing]
NoScope == [area |-> None, quantity |-> None, amount |-> None, subtotal |-> None]

\* A scope as the calculator leaves it.
Priced(m) == [area |-> m, quantity |-> m, amount |-> m, subtotal |-> m]

\* Where a request stands: the statement it runs next.
Steps ==
    {"idle", "state", "insert", "row", "findDraft", "area", "quantity",
     "amount", "subtotal", "sum", "totals", "findHeader", "lockHeader",
     "softDelete", "dropScope", "reorder", "resum", "shift", "renumber",
     "openDraft", "createDraft", "addScopes", "saveHeader", "saveScopes"}

Request == [op : AllOperations \cup {"none"}, at : Steps,
            space : Spaces \cup {None}, measure : Measures \cup {None},
            scopeOf : Versions \cup {0}, version : Versions \cup {0},
            revision : Nat, known : Measured]

NoRequest == [op |-> "none", at |-> "idle", space |-> None, measure |-> None,
              scopeOf |-> 0, version |-> 0, revision |-> 0, known |-> Nothing]

TypeOK ==
    /\ \A s \in Spaces : db[SpaceKey(s)] \in SpaceRow
    /\ \A v \in Versions :
          /\ db[HeaderKey(v)] \in HeaderRow
          /\ \A s \in Spaces : db[ScopeKey(v, s)] \in ScopeRow \cup {NoScope}
    /\ \A c \in Clients :
          /\ DOMAIN tx[c] \subseteq Keys
          /\ req[c] \in Request
          /\ req[c].op = "none" => DOMAIN tx[c] = {}
          /\ sent[c] \in 0..MaxRequests[c]

\* The project has been created with its first spaces and has no quotation.
Init ==
    /\ \E order \in [InitialSpaces -> 0..(Cardinality(InitialSpaces) - 1)] :
          /\ \A s, t \in InitialSpaces : order[s] = order[t] => s = t
          /\ db = [k \in Keys |->
                CASE k[1] = "space" ->
                       IF k[2] \in InitialSpaces
                       THEN [state |-> "live", measure |-> InitialMeasure,
                             order |-> order[k[2]]]
                       ELSE NoSpace
                  [] k[1] = "header" -> NoHeader
                  [] k[1] = "scope" -> NoScope]
    /\ tx = [c \in Clients |-> <<>>]
    /\ req = [c \in Clients |-> NoRequest]
    /\ sent = [c \in Clients |-> 0]

-----------------------------------------------------------------------------
(***************************************************************************)
(* Rows and locks.                                                         *)
(***************************************************************************)
\* One row, and the given rows in place of the old ones.
Row(key, row) == [k \in {key} |-> row]
Over(rows, old) == [k \in DOMAIN rows \cup DOMAIN old |->
                       IF k \in DOMAIN rows THEN rows[k] ELSE old[k]]

Sees(c, k) == IF k \in DOMAIN tx[c] THEN tx[c][k] ELSE db[k]

LiveSpaces(c) == {s \in Spaces : Sees(c, SpaceKey(s)).state = "live"}

\* WHERE is_current: the rows a statement of c finds, by version.
CurrentVersions(c) == {v \in Versions : Sees(c, HeaderKey(v)).isCurrent}

IsDraft(c, v) == /\ v # 0
                 /\ Sees(c, HeaderKey(v)).status = "DRAFT"
                 /\ Sees(c, HeaderKey(v)).isCurrent

\* WHERE status = 'DRAFT' AND is_current; 0 when no row matches.
Draft(c) == IF \E v \in Versions : IsDraft(c, v)
            THEN CHOOSE v \in Versions : IsDraft(c, v) ELSE 0

HasScope(c, v, s) == v # 0 /\ Sees(c, ScopeKey(v, s)) # NoScope

ScopesOf(c, v) == {s \in Spaces : HasScope(c, v, s)}

\* The sums a statement of c calculates over the scopes of v.
Sums(c, v) == [s \in Spaces |-> IF HasScope(c, v, s)
                                THEN Sees(c, ScopeKey(v, s)).subtotal ELSE None]

\* Live rows of project_spaces, committed or not yet, at a sort order: the
\* unique index makes an INSERT wait for the transactions that wrote them.
AtOrder(n) ==
    {s \in Spaces :
        \/ db[SpaceKey(s)].state = "live" /\ db[SpaceKey(s)].order = n
        \/ \E c \in Clients : /\ SpaceKey(s) \in DOMAIN tx[c]
                              /\ tx[c][SpaceKey(s)].state = "live"
                              /\ tx[c][SpaceKey(s)].order = n}

\* spaces.length of the project the request has read.
KnownLength(c) == Cardinality({s \in Spaces : req[c].known[s] # None})

\* The rows the next statement of c has to lock.
Wants(c) ==
    LET r == req[c]
    IN  CASE r.at = "insert" -> {SpaceKey(s) : s \in AtOrder(KnownLength(c))}
          [] r.at \in {"row", "softDelete"} -> {SpaceKey(r.space)}
          [] r.at = "area" /\ r.scopeOf # 0 -> {ScopeKey(r.scopeOf, r.space)}
          [] r.at = "dropScope" -> {ScopeKey(r.version, r.space)}
          [] r.at \in {"quantity", "amount", "subtotal"} /\ Draft(c) # 0 ->
                 {ScopeKey(Draft(c), r.space)}
          [] r.at \in {"totals", "lockHeader", "resum", "addScopes", "saveHeader"}
               /\ r.version # 0 -> {HeaderKey(r.version)}
          [] r.at \in {"reorder", "saveScopes"} ->
                 {ScopeKey(r.version, s) : s \in ScopesOf(c, r.version)}
          [] r.at \in {"shift", "renumber"} ->
                 {SpaceKey(s) : s \in LiveSpaces(c)}
          [] OTHER -> {}

WaitsFor(c, d) == c # d /\ Wants(c) \cap DOMAIN tx[d] # {}

\* c's next statement runs: no other transaction holds a row it locks.
Runs(c, op, at) ==
    /\ req[c].op = op
    /\ req[c].at = at
    /\ \A d \in Clients : ~WaitsFor(c, d)
    /\ UNCHANGED sent

Proceeds(c, at) == req' = [req EXCEPT ![c].at = at]

\* The statement writes rows, a function from keys to rows.
Writes(c, rows) == tx' = [tx EXCEPT ![c] = Over(rows, @)]

\* Mutant of Answered: the connection is given back without COMMIT or ROLLBACK.
AnsweredInTransaction(c, rows) ==
    /\ db' = Over(rows, db)
    /\ tx' = tx
    /\ req' = [req EXCEPT ![c] = NoRequest]

\* DatabaseClient.transaction ends, with COMMIT when rows are those written
\* and with ROLLBACK when there are none, and the request is answered.
Answered(c, rows) ==
    /\ db' = Over(rows, db)
    /\ tx' = [tx EXCEPT ![c] = <<>>]
    /\ req' = [req EXCEPT ![c] = NoRequest]

RolledBack(c) == Answered(c, <<>>)
Commits(c, rows) == Answered(c, Over(rows, tx[c]))

-----------------------------------------------------------------------------
(***************************************************************************)
(* ProjectsService: the reads before a transaction.                        *)
(***************************************************************************)
Sending(c, op) ==
    /\ req[c].op = "none"
    /\ op \in Operations[c]
    /\ sent[c] < MaxRequests[c]
    /\ sent' = [sent EXCEPT ![c] = @ + 1]

\* The measures of the live spaces: ProjectsRepository.findById.
KnownProject(c) ==
    [s \in Spaces |-> IF s \in LiveSpaces(c) THEN db[SpaceKey(s)].measure ELSE None]

\* deleteSpace: the space exists and is not the only one.
MayDelete(c, s) == s \in LiveSpaces(c) /\ LiveSpaces(c) # {s}

\* The request once the project has been read.
Accepted(c, request) ==
    /\ req' = [req EXCEPT ![c] = [request EXCEPT !.at = "state"]]
    /\ UNCHANGED <<db, tx>>

\* Nobody adds two spaces of one name.
ReadForAddSpace(c) ==
    /\ Sending(c, "addSpace")
    /\ \E s \in Spaces, m \in Measures :
          /\ db[SpaceKey(s)].state = "none"
          /\ \A d \in Clients : req[d].op = "addSpace" => req[d].space # s
          /\ Accepted(c, [NoRequest EXCEPT !.op = "addSpace", !.space = s,
                                !.measure = m, !.known = KnownProject(c)])

ReadForUpdateSpace(c) ==
    /\ Sending(c, "updateSpace")
    /\ \E s \in LiveSpaces(c), m \in Measures :
          Accepted(c, [NoRequest EXCEPT !.op = "updateSpace", !.space = s,
                                        !.measure = m])

ReadForDeleteSpace(c) ==
    /\ Sending(c, "deleteSpace")
    /\ \E s \in Spaces :
          /\ MayDelete(c, s)
          /\ Accepted(c, [NoRequest EXCEPT !.op = "deleteSpace", !.space = s])

\* assertSpaceAdjustable: a query of its own.
AssertSpaceAdjustable(c) ==
    /\ req[c].at = "state"
    /\ UNCHANGED sent
    /\ IF \A v \in CurrentVersions(c) : IsDraft(c, v)
       THEN /\ Proceeds(c, CASE req[c].op = "addSpace" -> "insert"
                             [] req[c].op = "updateSpace" -> "row"
                             [] req[c].op = "deleteSpace" -> "findHeader")
            /\ UNCHANGED <<db, tx>>
       ELSE RolledBack(c)

-----------------------------------------------------------------------------
(* addSpace: one INSERT.                                                   *)

\* The unique index on the sort order refuses the row; the service takes the
\* refusal for a duplicate name.
AddSpace(c) ==
    /\ Runs(c, "addSpace", "insert")
    /\ IF AtOrder(KnownLength(c)) # {}
       THEN RolledBack(c)
       ELSE Commits(c, Row(SpaceKey(req[c].space),
                [state |-> "live", measure |-> req[c].measure,
                 order |-> KnownLength(c)]))

-----------------------------------------------------------------------------
(* updateSpace, statement by statement.                                    *)

\* UPDATE project_spaces ... WHERE deleted_at IS NULL RETURNING
UpdateSpaceRow(c) ==
    LET k == SpaceKey(req[c].space)
    IN  /\ Runs(c, "updateSpace", "row")
        /\ IF Sees(c, k).state = "live"
           THEN /\ Writes(c, Row(k, [Sees(c, k) EXCEPT !.measure = req[c].measure]))
                /\ Proceeds(c, "findDraft")
                /\ UNCHANGED db
           ELSE RolledBack(c)

\* The scope is found through the header as it was when the statement began;
\* then its row may have to be waited for.
FindDraftOfScope(c) ==
    /\ Runs(c, "updateSpace", "findDraft")
    /\ req' = [req EXCEPT ![c].at = "area",
          ![c].scopeOf = IF HasScope(c, Draft(c), req[c].space) THEN Draft(c) ELSE 0]
    /\ UNCHANGED <<db, tx>>

\* The trigger require_half_package_draft_mutation reads the header again and
\* raises an exception when the version was generated meanwhile.
UpdateScopeArea(c) ==
    LET v == req[c].scopeOf
        s == req[c].space
    IN  /\ Runs(c, "updateSpace", "area")
        /\ IF HasScope(c, v, s) /\ Sees(c, HeaderKey(v)).status # "DRAFT"
           THEN RolledBack(c)
           ELSE /\ IF HasScope(c, v, s)
                   THEN Writes(c, Row(ScopeKey(v, s),
                          [Sees(c, ScopeKey(v, s)) EXCEPT !.area = req[c].measure]))
                   ELSE UNCHANGED tx
                /\ Proceeds(c, "quantity")
                /\ UNCHANGED db

\* A statement on the scope, or its lines, of whatever draft it finds.  It has
\* held the scope since UpdateScopeArea, unless that draft was generated and
\* reopened; a wait for the new scope is part of the statement here, which
\* leaves out that the trigger may end the request if this draft is generated
\* during the wait, too.
UpdatesScope(c, row(_)) ==
    LET k == ScopeKey(Draft(c), req[c].space)
    IN  IF HasScope(c, Draft(c), req[c].space)
        THEN Writes(c, Row(k, row(Sees(c, k))))
        ELSE UNCHANGED tx

\* Two statements: the lines with a rule, then those that refer to a line.
UpdateQuantities(c) ==
    /\ Runs(c, "updateSpace", "quantity")
    /\ LET row(r) == [r EXCEPT !.quantity = req[c].measure]
       IN  UpdatesScope(c, row)
    /\ Proceeds(c, "amount")
    /\ UNCHANGED db

\* Mutant of UpdateAmounts: the statement is missing.
NoUpdateOfAmounts(c) ==
    /\ Runs(c, "updateSpace", "amount")
    /\ Proceeds(c, "subtotal")
    /\ UNCHANGED <<db, tx>>

UpdateAmounts(c) ==
    /\ Runs(c, "updateSpace", "amount")
    /\ LET row(r) == [r EXCEPT !.amount = r.quantity]
       IN  UpdatesScope(c, row)
    /\ Proceeds(c, "subtotal")
    /\ UNCHANGED db

UpdateSubtotal(c) ==
    /\ Runs(c, "updateSpace", "subtotal")
    /\ LET row(r) == [r EXCEPT !.subtotal = r.amount]
       IN  UpdatesScope(c, row)
    /\ Proceeds(c, "sum")
    /\ UNCHANGED db

\* WITH totals AS (...): evaluated before the header row is locked.
SumScopes(c) ==
    /\ Runs(c, "updateSpace", "sum")
    /\ req' = [req EXCEPT ![c].version = Draft(c), ![c].at = "totals",
                          ![c].known = Sums(c, Draft(c))]
    /\ UNCHANGED <<db, tx>>

\* Mutant of Totalled: the revision stays.
TotalledSilently(row, sums) == [row EXCEPT !.totals = sums]

\* The header with new totals and the next revision.
Totalled(row, sums) == [row EXCEPT !.totals = sums, !.revision = @ + 1]

\* Mutant of SnapshotGuard: the trigger does not compare the totals.
NoSnapshotGuard(old, new) == TRUE

\* The trigger guard_half_package_quotation_snapshot.
SnapshotGuard(old, new) == old.status = "DRAFT" \/ new.totals = old.totals

\* After the wait for the header only its id is compared again.  A version
\* generated, or even superseded, since SumScopes gets its next revision when
\* the totals are the same; when they differ the trigger refuses the whole
\* update.
UpdateTotals(c) ==
    LET k == HeaderKey(req[c].version)
        row == Totalled(Sees(c, k), req[c].known)
    IN  /\ Runs(c, "updateSpace", "totals")
        /\ IF req[c].version = 0 THEN Commits(c, <<>>)
           ELSE IF SnapshotGuard(Sees(c, k), row) THEN Commits(c, Row(k, row))
           ELSE RolledBack(c)

-----------------------------------------------------------------------------
(* deleteSpace, statement by statement.                                    *)

\* SELECT ... WHERE is_current FOR UPDATE: the row is found,
FindHeader(c) ==
    /\ Runs(c, "deleteSpace", "findHeader")
    /\ req' = [req EXCEPT ![c].at = "lockHeader",
          ![c].version = IF CurrentVersions(c) = {} THEN 0
                         ELSE CHOOSE v \in CurrentVersions(c) : TRUE]
    /\ UNCHANGED <<db, tx>>

\* and locked, unless it has been superseded meanwhile: then the statement
\* returns no row and the deletion goes on as if there were no quotation.
LockHeader(c) ==
    LET v == req[c].version
        row == Sees(c, HeaderKey(v))
    IN  /\ Runs(c, "deleteSpace", "lockHeader")
        /\ IF v = 0 \/ ~row.isCurrent
           THEN /\ req' = [req EXCEPT ![c].version = 0, ![c].at = "softDelete"]
                /\ UNCHANGED <<db, tx>>
           ELSE IF row.status = "DRAFT"
           THEN /\ Writes(c, Row(HeaderKey(v), row))
                /\ Proceeds(c, "softDelete")
                /\ UNCHANGED db
           ELSE RolledBack(c)

\* How many rows were updated is not looked at.
SoftDelete(c) ==
    LET k == SpaceKey(req[c].space)
    IN  /\ Runs(c, "deleteSpace", "softDelete")
        /\ IF Sees(c, k).state = "live"
           THEN Writes(c, Row(k, [Sees(c, k) EXCEPT !.state = "deleted"]))
           ELSE UNCHANGED tx
        /\ Proceeds(c, IF req[c].version = 0 THEN "shift" ELSE "dropScope")
        /\ UNCHANGED db

\* The lines go with the scope (ON DELETE CASCADE).
DropScope(c) ==
    LET v == req[c].version
        s == req[c].space
    IN  /\ Runs(c, "deleteSpace", "dropScope")
        /\ IF HasScope(c, v, s) THEN Writes(c, Row(ScopeKey(v, s), NoScope))
           ELSE UNCHANGED tx
        /\ Proceeds(c, "reorder")
        /\ UNCHANGED db

\* reorderQuotationScopes writes every scope row of the version.
ReorderScopes(c) ==
    LET v == req[c].version
    IN  /\ Runs(c, "deleteSpace", "reorder")
        /\ Writes(c, [k \in {ScopeKey(v, s) : s \in ScopesOf(c, v)} |-> Sees(c, k)])
        /\ Proceeds(c, "resum")
        /\ UNCHANGED db

\* The totals of what is left; the header is locked since LockHeader.
ResumTotals(c) ==
    LET v == req[c].version
    IN  /\ Runs(c, "deleteSpace", "resum")
        /\ IF IsDraft(c, v)
           THEN Writes(c, Row(HeaderKey(v),
                              Totalled(Sees(c, HeaderKey(v)), Sums(c, v))))
           ELSE UNCHANGED tx
        /\ Proceeds(c, "shift")
        /\ UNCHANGED db

Shift == 10000

ShiftOrders(c) ==
    /\ Runs(c, "deleteSpace", "shift")
    /\ Writes(c, [k \in {SpaceKey(s) : s \in LiveSpaces(c)} |->
                     [Sees(c, k) EXCEPT !.order = @ + Shift]])
    /\ Proceeds(c, "renumber")
    /\ UNCHANGED db

\* row_number() OVER (ORDER BY sort_order) - 1
Renumbered(c) ==
    [s \in LiveSpaces(c) |->
        Cardinality({t \in LiveSpaces(c) :
            Sees(c, SpaceKey(t)).order < Sees(c, SpaceKey(s)).order})]

\* A space added since ShiftOrders still has a small sort order: depending on
\* the order in which rows are written, the unique index refuses another's.
RenumberSpaces(c) ==
    /\ Runs(c, "deleteSpace", "renumber")
    /\ \/ Commits(c, [k \in {SpaceKey(s) : s \in LiveSpaces(c)} |->
                        [Sees(c, k) EXCEPT !.order = Renumbered(c)[k[2]]]])
       \/ /\ \E s, t \in LiveSpaces(c) :
                 s # t /\ Renumbered(c)[s] = Sees(c, SpaceKey(t)).order
          /\ RolledBack(c)

-----------------------------------------------------------------------------
(* The requests on the quotation.                                          *)

\* getOrCreateDraft reads the project before it looks for a draft.
OpenQuotation(c) ==
    /\ Sending(c, "getOrCreateDraft")
    /\ req' = [req EXCEPT ![c] =
          [NoRequest EXCEPT !.op = "getOrCreateDraft", !.at = "openDraft",
                            !.known = KnownProject(c)]]
    /\ UNCHANGED <<db, tx>>

Missing(c, v) == {s \in Spaces : req[c].known[s] # None} \ ScopesOf(c, v)

\* The totals will be those of the scopes read here and of the missing ones.
OpenDraft(c) ==
    LET v == Draft(c)
    IN  /\ Runs(c, "getOrCreateDraft", "openDraft")
        /\ IF CurrentVersions(c) = {}
           THEN Proceeds(c, "createDraft") /\ UNCHANGED <<db, tx>>
           ELSE IF v # 0 /\ Missing(c, v) # {}
           THEN /\ req' = [req EXCEPT ![c].at = "addScopes", ![c].version = v,
                      ![c].revision = Sees(c, HeaderKey(v)).revision,
                      ![c].known = [s \in Spaces |->
                          IF s \in ScopesOf(c, v) THEN Sees(c, ScopeKey(v, s)).area
                          ELSE req[c].known[s]]]
                /\ UNCHANGED <<db, tx>>
           ELSE RolledBack(c)

\* The rows of the given scopes, as the calculator leaves them.
NewScopes(c, v, added) ==
    [k \in {ScopeKey(v, s) : s \in added} |-> Priced(req[c].known[k[3]])]

CreateDraft(c) ==
    /\ Runs(c, "getOrCreateDraft", "createDraft")
    /\ IF CurrentVersions(c) # {}
       THEN RolledBack(c)
       ELSE Commits(c, Over(NewScopes(c, 1, {s \in Spaces : req[c].known[s] # None}),
                Row(HeaderKey(1), [status |-> "DRAFT", isCurrent |-> TRUE,
                                   revision |-> 0, totals |-> req[c].known])))

\* Mutant of IsDraftAt: the save does not compare the revision.
IsDraftAtAny(c, v, revision) == IsDraft(c, v)

IsDraftAt(c, v, revision) ==
    IsDraft(c, v) /\ Sees(c, HeaderKey(v)).revision = revision

\* The scopes of the version are those the request read: the revision says so.
AddDraftScopes(c) ==
    LET v == req[c].version
    IN  /\ Runs(c, "getOrCreateDraft", "addScopes")
        /\ IF IsDraftAt(c, v, req[c].revision)
           THEN Commits(c, Over(NewScopes(c, v, Missing(c, v)),
                    Row(HeaderKey(v),
                        Totalled(Sees(c, HeaderKey(v)), req[c].known))))
           ELSE RolledBack(c)

\* updateLine prices the whole draft it has read.
ReadLine(c) ==
    /\ Sending(c, "updateLine")
    /\ Draft(c) # 0
    /\ LET v == Draft(c)
       IN  req' = [req EXCEPT ![c] =
              [NoRequest EXCEPT !.op = "updateLine", !.at = "saveHeader",
                  !.version = v, !.revision = Sees(c, HeaderKey(v)).revision,
                  !.known = [s \in Spaces |-> IF HasScope(c, v, s)
                                THEN Sees(c, ScopeKey(v, s)).area ELSE None]]]
    /\ UNCHANGED <<db, tx>>

SaveHeader(c) ==
    LET v == req[c].version
    IN  /\ Runs(c, "updateLine", "saveHeader")
        /\ IF IsDraftAt(c, v, req[c].revision)
           THEN /\ Writes(c, Row(HeaderKey(v),
                      Totalled(Sees(c, HeaderKey(v)), req[c].known)))
                /\ Proceeds(c, "saveScopes")
                /\ UNCHANGED db
           ELSE RolledBack(c)

\* Quantities, amounts and subtotals of all scopes; their area stays.
SaveScopes(c) ==
    LET v == req[c].version
    IN  /\ Runs(c, "updateLine", "saveScopes")
        /\ Commits(c, [k \in {ScopeKey(v, s) : s \in ScopesOf(c, v)} |->
                [Priced(req[c].known[k[3]]) EXCEPT !.area = Sees(c, k).area]])

\* submitDraft, of a draft that has not changed since it was checked.
Submit(c) ==
    /\ Sending(c, "submit")
    /\ \E v \in Versions :
          LET k == HeaderKey(v)
          IN  /\ IsDraft(c, v)
              /\ \A d \in Clients : k \notin DOMAIN tx[d]
              /\ Commits(c, Row(k, [db[k] EXCEPT !.status = "QUOTED"]))

\* continueEditing: the clone of the scopes is made under the header's lock.
ContinueEditing(c) ==
    /\ Sending(c, "continueEditing")
    /\ \E v \in CurrentVersions(c) \ {MaxVersion} :
          LET k == HeaderKey(v)
          IN  /\ db[k].status = "QUOTED"
              /\ \A d \in Clients : k \notin DOMAIN tx[d]
              /\ Commits(c, Over([x \in {ScopeKey(v + 1, s) : s \in Spaces} |->
                                     db[ScopeKey(v, x[3])]],
                    Over(Row(HeaderKey(v + 1),
                             [db[k] EXCEPT !.status = "DRAFT", !.revision = 0]),
                         Row(k, [db[k] EXCEPT !.isCurrent = FALSE]))))

-----------------------------------------------------------------------------
\* Transactions that wait for each other in a circle; PostgreSQL aborts one.
Deadlocked(c) ==
    LET waits == [p \in Clients \X Clients |-> WaitsFor(p[1], p[2])]
    IN  TransitiveClosure(waits, Clients)[c, c]

Abort(c) == Deadlocked(c) /\ RolledBack(c) /\ UNCHANGED sent

Serve(c) ==
    \/ AssertSpaceAdjustable(c) \/ AddSpace(c)
    \/ UpdateSpaceRow(c) \/ FindDraftOfScope(c) \/ UpdateScopeArea(c)
    \/ UpdateQuantities(c) \/ UpdateAmounts(c) \/ UpdateSubtotal(c)
    \/ SumScopes(c) \/ UpdateTotals(c)
    \/ FindHeader(c) \/ LockHeader(c) \/ SoftDelete(c) \/ DropScope(c)
    \/ ReorderScopes(c) \/ ResumTotals(c) \/ ShiftOrders(c) \/ RenumberSpaces(c)
    \/ OpenDraft(c) \/ CreateDraft(c) \/ AddDraftScopes(c)
    \/ SaveHeader(c) \/ SaveScopes(c)
    \/ Abort(c)

Browse(c) ==
    \/ ReadForAddSpace(c) \/ ReadForUpdateSpace(c) \/ ReadForDeleteSpace(c)
    \/ OpenQuotation(c) \/ ReadLine(c) \/ Submit(c) \/ ContinueEditing(c)

Next == \E c \in Clients : Browse(c) \/ Serve(c)

Spec == Init /\ [][Next]_vars

\* The server goes on with a request; PostgreSQL grants a row to waiting
\* transactions in the order they came, which strong fairness stands for.
FairSpec == Spec /\ \A c \in Clients : SF_vars(Serve(c))

-----------------------------------------------------------------------------
(***************************************************************************)
(* Properties that hold.                                                   *)
(***************************************************************************)
IsDraftIn(row) == row.status = "DRAFT" /\ row.isCurrent

\* What a page shows of a draft, at a given revision, is what is stored: any
\* committed change of its scopes comes with a new revision of its header or
\* with the generation of the version.  The revision is what saveDraft,
\* addDraftScopes and submitDraft compare.
RevisionTellsChange ==
    [][\A v \in Versions :
          (/\ \E s \in Spaces : db'[ScopeKey(v, s)] # db[ScopeKey(v, s)]
           /\ IsDraftIn(db[HeaderKey(v)])
           /\ IsDraftIn(db'[HeaderKey(v)]))
          => db'[HeaderKey(v)].revision > db[HeaderKey(v)].revision]_vars

\* updateSpace reaches the draft as a whole or not at all: when it commits and
\* the draft it found at first still is the draft, then sizes, quantities,
\* amounts, subtotal and header total of the space all follow the new measure.
UpdateReachesDraft ==
    [][\A c \in Clients :
          LET v == req[c].version
              s == req[c].space
          IN  (/\ UpdateTotals(c)
               /\ v # 0
               /\ req[c].scopeOf = v
               /\ ScopeKey(v, s) \in DOMAIN tx[c]
               /\ IsDraftIn(db'[HeaderKey(v)]))
              => /\ db'[ScopeKey(v, s)] = Priced(req[c].measure)
                 /\ db'[HeaderKey(v)].totals[s] = req[c].measure]_vars

\* A version that is not a draft keeps its totals and its set of scopes.
\* saveDraft and addDraftScopes compare the stage again under the lock of the
\* header and deleteSpace decides under it; updateSpace, which summed up the
\* scopes before it waited for the header, is stopped by the trigger only.
GeneratedTotalsFrozen ==
    [][\A v \in Versions :
          db[HeaderKey(v)].status = "QUOTED" =>
              /\ db'[HeaderKey(v)].totals = db[HeaderKey(v)].totals
              /\ db'[HeaderKey(v)].status = "QUOTED"
              /\ \A s \in Spaces : db'[ScopeKey(v, s)] = NoScope <=>
                                      db[ScopeKey(v, s)] = NoScope]_vars

\* Every request is answered, although updateSpace locks scopes before the
\* header and saveDraft and deleteSpace lock the header first.
RequestsEnd == \A c \in Clients : req[c].op # "none" ~> req[c].op = "none"

(***************************************************************************)
(* What the documentation says and the code does not do.                   *)
(***************************************************************************)

\* A project keeps at least one space.
SpaceLeft == \E s \in Spaces : db[SpaceKey(s)].state = "live"

\* The lines of a generated version never change.
GeneratedScopesFrozen ==
    [][\A v \in Versions, s \in Spaces :
          db[HeaderKey(v)].status = "QUOTED" =>
              db'[ScopeKey(v, s)] = db[ScopeKey(v, s)]]_vars
=============================================================================

----------------------------- MODULE QuotationPages -----------------------------
(***************************************************************************)
(* The pages of the web client that change the quotation of a project, or  *)
(* what it is made from: the editor, the confirmation before a quotation   *)
(* is generated, the page of the project with its spaces, the history of   *)
(* versions, the cost margin and the approval of the owner.                *)
(*                                                                         *)
(* A page shows what it loaded.  It sends requests without blocking: the   *)
(* user may type on, blur another input or leave while one is under way,   *)
(* and answers come in any order or not at all.  A request is one step of  *)
(* the API where its write repeats every check, and two where the service  *)
(* checks first and writes later; what else happens inside the API is in   *)
(* QuotationLifecycle and SpaceEditing.                                    *)
(***************************************************************************)
EXTENDS Integers, FiniteSets

CONSTANTS
    Designers,     \* tabs of the lead designer
    Owners,        \* tabs of an owner or administrator
    Lines,         \* lines with a manual quantity
    Options,       \* those picked from a list before their quantity is typed
    Texts,         \* what is typed: a quantity, or nothing
    Rates,         \* the discount rates that are entered
    FullPrice,     \* the rate of a quotation without a discount
    None,
    MaxRequests    \* bound: requests sent by all tabs, an export being one

ASSUME ConstantsAssumption ==
    /\ Texts \subseteq {"off", "priced"}
    /\ Options \subseteq Lines
    /\ FullPrice \in Rates
    /\ None \notin Lines
    /\ MaxRequests \in Nat

Tabs == Designers \cup Owners

\* A line is not selected, selected without a quantity, or priced.
Entries == {"off", "chosen", "priced"}

Stages == {"DRAFT", "QUOTED", "APPROVED", "RETURNED"}

VARIABLES
    server,   \* the current version of the project's quotation
    unpriced, \* whether a space was added that the quotation has no scope of
    page,     \* what each tab shows
    calls,    \* requests that are under way
    sent      \* how many requests were sent

vars == <<server, unpriced, page, calls, sent>>

Quotation ==
    [version : Nat \ {0}, stage : Stages, pending : BOOLEAN,
     revision : Nat, entry : [Lines -> Entries], rate : Rates]

Places == {"editor", "submit", "project", "history", "costMargin", "approval"}

\* The loaders of these ask for the draft, not for a version.
DraftPlaces == {"editor", "submit", "project", "costMargin"}

\* These show what their loader brings, also when it runs again; the others
\* keep what they opened with until they are answered.
Reloaded == {"project", "submit", "history", "costMargin"}

\* The dialogs of the space manager; what they send names no version.
SpaceControls == {"addSpace", "updateSpace", "deleteSpace"}

Controls == {"submit", "continue", "adjust", "export", "decide", "compare",
             "benchmark"} \cup SpaceControls

\* draftQuantities is in typed, savingLineId in saving, and the flags that
\* disable the other controls (submitting, busy, working) are in busy.
Page ==
    [at : Places, shows : Quotation, typed : [Lines -> Entries \cup {None}],
     saving : Lines \cup {None}, busy : SUBSET Controls,
     refreshing : BOOLEAN]

\* from is the quotation on the page when the request was sent; the answer
\* is for this page, for its tab after the page was left, or for nobody.
\* A "checked" request keeps in answer what the service goes on with.
Call ==
    [no : 1..MaxRequests, tab : Tabs, op : Controls \cup {"save"},
     from : Quotation, line : Lines \cup {None}, entry : Entries \cup {None},
     rate : Rates, decision : {"APPROVED", "RETURNED"}, left : 0..2,
     state : {"sent", "checked", "applied", "read", "refused"}, answer : Quotation,
     waiting : {"page", "tab", "nobody"}]

-----------------------------------------------------------------------------
(***************************************************************************)
(* Pages and requests.                                                     *)
(***************************************************************************)
Awaiting(q) == q.stage = "QUOTED" /\ ~q.pending

\* The loaders show what is current; without a draft the submission page is
\* not found.
Found(at) == at = "submit" => server.stage = "DRAFT"

CanOpen(t, at) ==
    /\ Found(at)
    /\ at \in {"approval", "costMargin"} => t \in Owners

\* getOrCreateDraft adds the scopes a draft lacks, so loading may write.
Loaded(at) ==
    IF at \in DraftPlaces /\ server.stage = "DRAFT" /\ unpriced
    THEN [server EXCEPT !.revision = @ + 1] ELSE server

Load(at) ==
    /\ server' = Loaded(at)
    /\ unpriced' = (unpriced /\ ~(at \in DraftPlaces /\ server.stage = "DRAFT"))

Fresh(at, shows) ==
    [at |-> at, shows |-> shows, typed |-> [l \in Lines |-> None],
     saving |-> None, busy |-> {}, refreshing |-> FALSE]

\* Setting the state of a page that was left has no effect; what does more
\* goes on, but after an error: a push to another page, the files of an
\* export, a refresh of what the tab shows by then.
GoesOn(c) ==
    c.waiting # "nobody" /\ c.state # "refused" /\ c.op \notin {"save", "compare"}

\* The API has still to do its part, whoever waits for it; what changes
\* nothing here is forgotten when nobody does.
Underway(c) == c.state \in {"sent", "checked"} /\ c.op \notin {"compare", "benchmark"}

Left(c) == [c EXCEPT !.waiting = IF GoesOn(c) THEN "tab" ELSE "nobody"]

Unmounted(t, rest) ==
    {c \in rest : c.tab # t}
        \cup {Left(c) : c \in {d \in rest : d.tab = t /\ (Underway(d) \/ GoesOn(d))}}

Open(t, at) ==
    /\ CanOpen(t, at)
    /\ Load(at)
    /\ page' = [page EXCEPT ![t] = Fresh(at, Loaded(at))]
    /\ calls' = Unmounted(t, calls)
    /\ UNCHANGED sent

Request(t, op) ==
    [no |-> sent + 1, tab |-> t, op |-> op, from |-> page[t].shows, line |-> None,
     entry |-> None, rate |-> FullPrice, decision |-> "APPROVED", left |-> 0,
     state |-> "sent", answer |-> page[t].shows, waiting |-> "page"]

\* Mutant: the revision is read when the request is sent, not with the page.
ExpectedNow(c) == server.revision

\* expectedRevision of saves, generations and adjustments.
Expected(c) == c.from.revision

\* A control sends its request and stays disabled until the answer.
Press(t, call) ==
    /\ sent < MaxRequests
    /\ call.op \notin page[t].busy
    /\ sent' = sent + 1
    /\ calls' = calls \cup {call}
    /\ page' = [page EXCEPT ![t].busy = @ \cup {call.op}]
    /\ UNCHANGED <<server, unpriced>>

-----------------------------------------------------------------------------
(***************************************************************************)
(* The editor.                                                             *)
(***************************************************************************)
Editable(p) == p.at = "editor" /\ p.shows.stage = "DRAFT"

\* shouldDisplayQuotationOptionLine: an option has an input when it is picked.
HasInput(p, l) == l \in Options => p.shows.entry[l] # "off"

Type(t, l, text) ==
    /\ Editable(page[t])
    /\ HasInput(page[t], l)
    /\ page[t].saving # l
    /\ page' = [page EXCEPT ![t].typed[l] = text]
    /\ UNCHANGED <<server, unpriced, calls, sent>>

SaveLine(t, l, entry) ==
    /\ sent < MaxRequests
    /\ sent' = sent + 1
    /\ calls' = calls \cup {[Request(t, "save") EXCEPT !.line = l, !.entry = entry]}
    /\ page' = [page EXCEPT ![t].saving = l]
    /\ UNCHANGED <<server, unpriced>>

Blur(t, l) ==
    /\ Editable(page[t])
    /\ HasInput(page[t], l)
    /\ page[t].saving # l
    /\ page[t].typed[l] # None
    /\ SaveLine(t, l, page[t].typed[l])

\* The checkbox of an option: picking keeps the quantity, which is empty.
Toggle(t, l) ==
    /\ Editable(page[t])
    /\ page[t].saving = None
    /\ SaveLine(t, l, IF page[t].shows.entry[l] = "off" THEN "chosen" ELSE "off")

EditorSaved(p, c) ==
    [p EXCEPT !.shows = c.answer, !.typed[c.line] = None, !.saving = None]

\* Mutants: a failed save rolls the page back; the flag is reset on success only.
EditorRolledBack(p, c) == [p EXCEPT !.shows = c.from, !.saving = None]

EditorStaysBusy(p, c) == p

EditorFailed(p, c) == [p EXCEPT !.saving = None]

-----------------------------------------------------------------------------
(***************************************************************************)
(* The submission page, the page of the project and the approval.          *)
(***************************************************************************)
\* Whether the draft is complete is QuotationLifecycle's: any page may offer it.
SubmitQuotation(t) ==
    /\ page[t].at = "submit"
    /\ Press(t, Request(t, "submit"))

ContinueEditing(t) ==
    /\ page[t].at = "project"
    /\ Awaiting(page[t].shows) \/ page[t].shows.stage = "RETURNED"
    /\ Press(t, Request(t, "continue"))

\* The discount that is typed is what the dialog asks to confirm.
SubmitAdjustment(t, rate) ==
    /\ page[t].at = "project"
    /\ Awaiting(page[t].shows)
    /\ Press(t, [Request(t, "adjust") EXCEPT !.rate = rate])

ExportVisible(q) == Awaiting(q) \/ q.stage = "APPROVED"

\* One request per file, the next when the last is answered.
ExportFiles(t, files) ==
    /\ page[t].at \in {"project", "history"}
    /\ "compare" \notin page[t].busy
    /\ ExportVisible(page[t].shows)
    /\ Press(t, [Request(t, "export") EXCEPT !.left = files])

DecideQuotation(t, decision) ==
    /\ page[t].at = "approval"
    /\ \/ page[t].shows.stage = "QUOTED" /\ page[t].shows.pending
       \/ page[t].shows.stage = "APPROVED" /\ decision = "RETURNED"
    /\ Press(t, [Request(t, "decide") EXCEPT !.decision = decision])

-----------------------------------------------------------------------------
(***************************************************************************)
(* The dialogs of the spaces, the history of versions, the cost margin.    *)
(***************************************************************************)
\* The page of a draft has the dialogs.  A form that waits is left by closing
\* its dialog only; the question before a deletion does not keep the others.
CanAdjustSpaces(p) ==
    /\ p.at = "project" /\ p.shows.stage = "DRAFT"
    /\ p.busy \cap {"addSpace", "updateSpace"} = {}

AddSpace(t) ==
    /\ CanAdjustSpaces(page[t])
    /\ Press(t, Request(t, "addSpace"))

UpdateSpace(t) ==
    /\ CanAdjustSpaces(page[t])
    /\ Press(t, Request(t, "updateSpace"))

DeleteSpace(t) ==
    /\ CanAdjustSpaces(page[t])
    /\ Press(t, Request(t, "deleteSpace"))

\* A dialog with a form may be closed while its request is under way, by the
\* user or by the answer to another one (finish); its flag goes with it, and
\* its answer still refreshes the page.
CloseDialog(t, op) ==
    /\ op \in page[t].busy \cap {"addSpace", "updateSpace"}
    /\ page' = [page EXCEPT ![t].busy = @ \ {op}]
    /\ calls' = {IF c.tab = t /\ c.op = op /\ c.waiting = "page" THEN Left(c) ELSE c : c \in calls}
    /\ UNCHANGED <<server, unpriced, sent>>

\* Another version to compare with: decisions and clones make new ones.
HasHistory(q) == q.version > 1 \/ q.stage \in {"APPROVED", "RETURNED"}

Compare(t) ==
    /\ page[t].at = "history"
    /\ HasHistory(page[t].shows)
    /\ Press(t, Request(t, "compare"))

\* The rate the margin is compared with; no page but this shows it.
SaveBenchmark(t) ==
    /\ page[t].at = "costMargin"
    /\ Press(t, Request(t, "benchmark"))

-----------------------------------------------------------------------------
(***************************************************************************)
(* The API: which requests it accepts, and what they do.                   *)
(***************************************************************************)
SameVersion(c) == c.from.version = server.version
SameRevision(c) == Expected(c) = server.revision

\* These are checked without a lock; some awaits later they are written.
CheckedFirst == {"continue", "export"} \cup SpaceControls

\* The check.  Exports and new drafts name their version, the spaces only the
\* project.
Admits(c) ==
    CASE c.op = "continue" ->
            /\ SameVersion(c)
            /\ Awaiting(server) \/ server.stage = "RETURNED"
      [] c.op = "export" -> SameVersion(c) /\ ExportVisible(server)
      [] c.op \in SpaceControls -> server.stage = "DRAFT"

\* The condition of the write.  Lines, adjustments and decisions name their
\* version; the generation names the project and a revision.  The lock of a
\* new draft does not ask for a discount that waits; the file of an export is
\* stored whatever has happened since.  Any two versions are compared, and any
\* has a benchmark.
Accepts(c) ==
    CASE c.op = "save" ->
            server.stage = "DRAFT" /\ SameVersion(c) /\ SameRevision(c)
      [] c.op = "submit" -> server.stage = "DRAFT" /\ SameRevision(c)
      [] c.op = "continue" -> SameVersion(c) /\ server.stage \in {"QUOTED", "RETURNED"}
      [] c.op = "adjust" -> SameVersion(c) /\ SameRevision(c) /\ Awaiting(server)
      [] c.op = "decide" ->
            /\ SameVersion(c)
            /\ \/ server.stage = "QUOTED" /\ server.pending
               \/ server.stage = "APPROVED" /\ c.decision = "RETURNED"
      [] c.op = "updateSpace" -> server.stage \in {"DRAFT", "QUOTED"}
      [] c.op = "deleteSpace" -> server.stage = "DRAFT"
      [] c.op \in {"export", "addSpace", "compare", "benchmark"} -> TRUE

\* A space is changed or deleted without the quotation: updateSpace has found
\* no draft any more, deleteSpace has waited for a version that was superseded.
PassesBy(c) ==
    \/ c.op = "updateSpace" /\ server.stage # "DRAFT"
    \/ c.op = "deleteSpace" /\ server.version > c.answer.version

\* The triggers refuse an updateSpace that meets a generation.
Refuses(c) == ~Accepts(c) \/ (c.op = "updateSpace" /\ server.stage # "DRAFT")

NextVersion(q, stage) ==
    [q EXCEPT !.version = @ + 1, !.stage = stage, !.pending = FALSE, !.revision = 0]

\* A designer's adjustment waits for the owner; an owner's is a decision.
Applied(c) ==
    CASE c.op = "save" ->
            [server EXCEPT !.entry[c.line] = c.entry, !.revision = @ + 1]
      [] c.op = "submit" -> [server EXCEPT !.stage = "QUOTED"]
      [] c.op = "continue" ->
            [NextVersion(server, "DRAFT") EXCEPT
                !.rate = IF server.stage = "RETURNED" THEN @ ELSE FullPrice]
      [] c.op = "adjust" ->
            IF c.tab \in Owners
            THEN [NextVersion(server, "APPROVED") EXCEPT !.rate = c.rate]
            ELSE [server EXCEPT !.pending = TRUE, !.rate = c.rate, !.revision = @ + 1]
      [] c.op = "decide" -> NextVersion(server, c.decision)
      [] c.op \in {"updateSpace", "deleteSpace"} -> [server EXCEPT !.revision = @ + 1]
      [] c.op \in {"export", "addSpace", "compare", "benchmark"} -> server

\* The request goes on as d, unless nobody waits for that.
Heard(d) == d.waiting = "page" \/ GoesOn(d)

Becomes(c, d) ==
    calls' = (calls \ {c}) \cup (IF Underway(d) \/ Heard(d) THEN {d} ELSE {})

\* What the service goes on with: the file is made from it, and a deletion
\* locks the version that was current.
Kept(c) == IF c.op \in {"export", "deleteSpace"} THEN server ELSE c.answer

Check(c) ==
    /\ c.state = "sent" /\ c.op \in CheckedFirst
    /\ Becomes(c, IF Admits(c) THEN [c EXCEPT !.state = "checked", !.answer = Kept(c)]
                  ELSE [c EXCEPT !.state = "refused"])
    /\ UNCHANGED <<server, unpriced, page, sent>>

\* The API has carried out the request.
Done(c) ==
    /\ unpriced' = (unpriced \/ c.op = "addSpace")
    /\ Becomes(c, [c EXCEPT !.state = IF c.op = "save" THEN "applied" ELSE "read",
                            !.answer = IF c.op = "decide" THEN server' ELSE c.from])

Serve(c) ==
    /\ c.state = IF c.op \in CheckedFirst THEN "checked" ELSE "sent"
    /\ \/ Accepts(c) /\ server' = Applied(c) /\ Done(c)
       \/ PassesBy(c) /\ server' = server /\ Done(c)
       \/ /\ Refuses(c)
          /\ Becomes(c, [c EXCEPT !.state = "refused"])
          /\ UNCHANGED <<server, unpriced>>
    /\ UNCHANGED <<page, sent>>

\* The answer of a save is the draft that is found after its commit.
Reread(c) ==
    /\ c.state = "applied"
    /\ Becomes(c, IF server.stage = "DRAFT"
                  THEN [c EXCEPT !.state = "read", !.answer = server]
                  ELSE [c EXCEPT !.state = "refused"])
    /\ UNCHANGED <<server, unpriced, page, sent>>

-----------------------------------------------------------------------------
(***************************************************************************)
(* Answers.                                                                *)
(***************************************************************************)
Enabled(p, c) == [p EXCEPT !.busy = @ \ {c.op}]

\* What an answer does to the page that sent the request.
Shown(p, c) ==
    CASE c.op = "save" -> EditorSaved(p, c)
      [] c.op = "decide" -> [Enabled(p, c) EXCEPT !.shows = c.answer]
      [] c.op \in {"adjust", "benchmark"} \cup SpaceControls ->
            [Enabled(p, c) EXCEPT !.refreshing = TRUE]
      [] c.op \in {"export", "compare"} -> Enabled(p, c)

Failed(p, c) == IF c.op = "save" THEN EditorFailed(p, c) ELSE Enabled(p, c)

\* Mutant: a generation leads back to its page.
PushedBack(c) == IF c.op = "submit" THEN "submit" ELSE "editor"

\* router.push moves the tab wherever it is by then.
Pushed(c) == IF c.op = "submit" THEN "project" ELSE "editor"

\* router.refresh reloads what the tab shows, be it the page that asked or not.
Refreshes(c) == c.op \in {"adjust", "decide", "benchmark"} \cup SpaceControls

Elsewhere(p, c) == [p EXCEPT !.refreshing = @ \/ (Refreshes(c) /\ p.at \in Reloaded)]

Succeed(c) ==
    /\ c.state = "read"
    /\ IF c.op \in {"submit", "continue"}
       THEN /\ Load(Pushed(c))
            /\ page' = [page EXCEPT ![c.tab] = Fresh(Pushed(c), Loaded(Pushed(c)))]
            /\ calls' = Unmounted(c.tab, calls \ {c})
       ELSE /\ c.op = "export" => c.left = 1
            /\ page' = [page EXCEPT ![c.tab] =
                           IF c.waiting = "page" THEN Shown(@, c) ELSE Elsewhere(@, c)]
            /\ calls' = calls \ {c}
            /\ UNCHANGED <<server, unpriced>>
    /\ UNCHANGED sent

\* The loop over the formats goes on, also when its page was left.
ExportNext(c) ==
    /\ c.op = "export" /\ c.state = "read" /\ c.left > 1
    /\ Becomes(c, [c EXCEPT !.left = @ - 1, !.state = "sent"])
    /\ UNCHANGED <<server, unpriced, page, sent>>

Fail(c) ==
    /\ page' = IF c.waiting = "page" THEN [page EXCEPT ![c.tab] = Failed(@, c)] ELSE page
    /\ UNCHANGED <<server, unpriced, sent>>

Refused(c) ==
    /\ c.state = "refused"
    /\ calls' = calls \ {c}
    /\ Fail(c)

\* The connection breaks; what was sent may still arrive.
Lost(c) ==
    /\ c.waiting # "nobody"
    /\ calls' = (calls \ {c}) \cup
                (IF Underway(c) THEN {[c EXCEPT !.waiting = "nobody"]} ELSE {})
    /\ Fail(c)

\* The loader runs again, the state of the page stays.
Refresh(t) ==
    /\ page[t].refreshing
    /\ Load(page[t].at)
    /\ page' = [page EXCEPT ![t].shows = IF Found(page[t].at) THEN Loaded(page[t].at) ELSE @,
                            ![t].refreshing = FALSE]
    /\ UNCHANGED <<calls, sent>>

-----------------------------------------------------------------------------
\* The pages are opened at any stage of the quotation; a draft has a discount
\* when it is made from a returned version.
Init ==
    /\ \E stage \in Stages, pending \in BOOLEAN, rate \in Rates :
        /\ pending => stage = "QUOTED"
        /\ rate # FullPrice => pending \/ stage \in {"APPROVED", "RETURNED"}
        /\ server = [version |-> 1, stage |-> stage, pending |-> pending, revision |-> 0,
                     entry |-> [l \in Lines |-> "off"], rate |-> rate]
    /\ unpriced = FALSE
    /\ page = [t \in Tabs |-> Fresh("project", server)]
    /\ calls = {}
    /\ sent = 0

User ==
    \E t \in Tabs :
        \/ \E at \in Places : Open(t, at)
        \/ \E l \in Lines : \/ \E text \in Texts : Type(t, l, text)
                            \/ Blur(t, l)
        \/ \E l \in Options : Toggle(t, l)
        \/ SubmitQuotation(t)
        \/ ContinueEditing(t)
        \/ \E rate \in Rates : SubmitAdjustment(t, rate)
        \/ \E files \in 1..2 : ExportFiles(t, files)
        \/ \E decision \in {"APPROVED", "RETURNED"} : DecideQuotation(t, decision)
        \/ AddSpace(t)
        \/ UpdateSpace(t)
        \/ DeleteSpace(t)
        \/ \E op \in SpaceControls : CloseDialog(t, op)
        \/ Compare(t)
        \/ SaveBenchmark(t)

Answered(c) == Succeed(c) \/ ExportNext(c) \/ Refused(c)

Network == \E c \in calls : Check(c) \/ Serve(c) \/ Reread(c) \/ Answered(c) \/ Lost(c)

Next == User \/ Network \/ \E t \in Tabs : Refresh(t)

Spec == Init /\ [][Next]_vars

\* As long as a request is under way the API or a browser goes on with one of
\* them, which is enough as there are MaxRequests at most; the users owe
\* nothing, and no property needs a refresh.
Progress == \E c \in calls : Check(c) \/ Serve(c) \/ Reread(c) \/ Answered(c)

FairSpec == Spec /\ WF_vars(Progress)

-----------------------------------------------------------------------------
(***************************************************************************)
(* Properties.                                                             *)
(***************************************************************************)
\* The types, and what each page can show: only drafts are confirmed for
\* generation, only owners open approvals and costs, text is typed in the
\* editor only.
TypeOK ==
    /\ server \in Quotation
    /\ server.pending => server.stage = "QUOTED"
    /\ unpriced \in BOOLEAN
    /\ sent \in 0..MaxRequests
    /\ calls \subseteq Call
    /\ page \in [Tabs -> Page]
    /\ \A t \in Tabs :
        /\ page[t].at = "submit" => page[t].shows.stage = "DRAFT"
        /\ page[t].at \in {"approval", "costMargin"} => t \in Owners
        /\ page[t].at # "editor" => \A l \in Lines : page[t].typed[l] = None

\* The same but for the revision, which no page shows.
SameOffer(p, q) ==
    /\ p.version = q.version /\ p.stage = q.stage /\ p.pending = q.pending
    /\ p.entry = q.entry /\ p.rate = q.rate

Offering == {"save", "adjust", "decide", "continue", "export"}

\* What a user changes, decides, reopens or exports is what the page showed,
\* although the pages send a revision or a version and never what they show.
\* A line, a discount and a decision are written only while the current
\* version is, in every part, the one the request was sent from.  A new draft
\* is made of the version, the stage and the lines that were shown; a discount
\* submitted since the check is all that may have been added, and is dropped.
\* A file is made from what was shown, though it may be stored after a
\* discount was submitted.
AppliedAsShown ==
    [][\A c \in calls :
          c.op \in Offering /\ Serve(c) /\ Accepts(c) =>
              /\ c.op \in {"save", "adjust", "decide"} => SameOffer(c.from, server)
              /\ c.op = "continue" =>
                    SameOffer(IF server.pending
                              THEN [c.from EXCEPT !.pending = TRUE, !.rate = server.rate]
                              ELSE c.from, server)
              /\ c.op = "export" => SameOffer(c.from, c.answer)]_vars

\* A page never goes back to an older version or revision, whatever the order
\* of the answers to the saves it sent (setQuotation in the editor and in the
\* approval replaces what is shown with what an answer brings).
ShownForward ==
    [][\A t \in Tabs :
        LET old == page[t].shows
            new == page'[t].shows
        IN  \/ new.version > old.version
            \/ new.version = old.version /\ new.revision >= old.revision]_vars

\* No control stays disabled, so a page is free of requests again and again:
\* savingLineId, submitting, busy and working are reset by an answer, by an
\* error, or with the page that held them.
ControlsReturn ==
    \A t \in Tabs : []<>(page[t].saving = None /\ page[t].busy = {})

\* A revision conflict must return the current version
\* (docs/architecture/data-persistence.md); a refused save leaves the editor
\* on the revision it was refused for.
ConflictShowsCurrent ==
    [][\A c \in calls :
        c.op = "save" /\ c.state = "refused" /\ c.waiting = "page" /\ c \notin calls'
            => page'[c.tab].shows # c.from]_vars

=============================================================================

------------------------ MODULE QuotationPagesProofs ------------------------
(***************************************************************************)
(* What a page shows and what it sends, for any number of tabs, lines,     *)
(* rates and requests: the type invariant of QuotationPages, that nothing  *)
(* is saved, adjusted, decided, continued or exported but what its page    *)
(* showed (a discount submitted meanwhile apart, which a new draft drops   *)
(* and a file leaves out), and that no page goes back.                     *)
(***************************************************************************)
EXTENDS QuotationPages, TLAPS

-----------------------------------------------------------------------------
(***************************************************************************)
(* The inductive invariant.                                                *)
(***************************************************************************)
\* What was the quotation q has become s: a later version; the same offer, at
\* another revision perhaps; a draft with a later revision, or generated; or
\* a discount that waits for the owner, on the same lines.
Came(q, s) ==
    \/ q.version < s.version
    \/ SameOffer(q, s) /\ q.revision <= s.revision
    \/ /\ q.version = s.version
       /\ \/ q.stage = "DRAFT" /\ s.stage = "DRAFT" /\ q.revision < s.revision
          \/ q.stage = "DRAFT" /\ s.stage = "QUOTED" /\ q.revision <= s.revision
          \/ /\ Awaiting(q) /\ s.stage = "QUOTED" /\ s.pending
             /\ q.entry = s.entry /\ q.revision < s.revision

\* The order in which a page may show quotations, and its strict part.
NoNewer(q, s) ==
    q.version < s.version \/ (q.version = s.version /\ q.revision <= s.revision)

Older(q, s) ==
    q.version < s.version \/ (q.version = s.version /\ q.revision < s.revision)

\* How far an answer to op is ahead: a decision makes a version.
Behind(q, s, op) == IF op = "decide" THEN q.version < s.version ELSE Older(q, s)

\* The controls a page offers at a stage.
Shape(c) ==
    /\ c.op = "save" => c.from.stage = "DRAFT" /\ c.entry \in Entries
    /\ c.op = "continue" => Awaiting(c.from) \/ c.from.stage = "RETURNED"
    /\ c.op = "adjust" => Awaiting(c.from)
    /\ c.op = "export" => ExportVisible(c.from)
    /\ c.op = "decide" => \/ c.from.stage = "QUOTED" /\ c.from.pending
                          \/ c.from.stage = "APPROVED" /\ c.decision = "RETURNED"

\* Answers that replace what is shown, and those that reload it.
Replacing == {"save", "decide"}
Reloading == {"adjust", "benchmark"} \cup SpaceControls

Fits(op, at) ==
    /\ op = "save" => at = "editor"
    /\ op = "decide" => at = "approval"
    /\ op \in Reloading => at \in Reloaded

\* Accepted requests whose answers will replace what is shown.
Bringing(c) == c.op \in Replacing /\ c.state \in {"applied", "read"}

Shaped == \A c \in calls : Shape(c)

Numbered ==
    /\ \A c \in calls : c.no <= sent
    /\ \A c, d \in calls : c.no = d.no => c = d

InPlace ==
    /\ \A c \in calls : c.waiting = "page" => Fits(c.op, page[c.tab].at)
    /\ \A t \in Tabs : page[t].refreshing => page[t].at \in Reloaded

Past ==
    /\ \A t \in Tabs : Came(page[t].shows, server)
    /\ \A c \in calls :
          /\ Came(c.from, server)
          /\ c.op \in Replacing /\ c.state = "read" => Came(c.answer, server)
          /\ c.op = "export" /\ c.state = "checked" => SameOffer(c.from, c.answer)

\* While an accepted request is on its way back its page is behind the server
\* and not ahead of the answer, and no page waits for two such answers.
Ahead ==
    \A c \in calls :
        c.waiting = "page" =>
            /\ NoNewer(c.from, page[c.tab].shows)
            /\ Bringing(c) => Behind(page[c.tab].shows, server, c.op)
            /\ Bringing(c) /\ c.state = "read" => NoNewer(page[c.tab].shows, c.answer)

Alone ==
    \A c, d \in calls :
        /\ c.waiting = "page" /\ Bringing(c)
        /\ d.waiting = "page" /\ Bringing(d)
        /\ c.tab = d.tab
        => c = d

ShownInv ==
    TypeOK /\ Shaped /\ Numbered /\ InPlace /\ Past /\ Ahead /\ Alone

-----------------------------------------------------------------------------
(***************************************************************************)
(* The order of quotations.                                                *)
(***************************************************************************)
\* What the server does to the current version in one step.
Advances(s, r) ==
    \/ r = s
    \/ /\ r.version = s.version /\ s.stage = "DRAFT"
       /\ \/ r.stage = "DRAFT" /\ r.revision = s.revision + 1
          \/ r.stage = "QUOTED" /\ r.revision = s.revision
    \/ /\ r.version = s.version /\ Awaiting(s) /\ r.entry = s.entry
       /\ r.stage = "QUOTED" /\ r.pending /\ r.revision = s.revision + 1
    \/ s.stage = "QUOTED" /\ SameOffer(s, r) /\ r.revision = s.revision + 1
    \/ r.version = s.version + 1

LEMMA OrderFacts ==
    ASSUME NEW q \in Quotation, NEW s \in Quotation, NEW r \in Quotation
    PROVE  /\ Came(q, s) => NoNewer(q, s)
           /\ NoNewer(q, q)
           /\ NoNewer(q, s) /\ NoNewer(s, r) => NoNewer(q, r)
           /\ \A op : NoNewer(q, s) /\ Behind(s, r, op) => Behind(q, r, op)
           /\ \A op : Behind(q, s, op) /\ NoNewer(s, r) => Behind(q, r, op)
  BY DEF Came, SameOffer, NoNewer, Older, Behind, Quotation

LEMMA CameOn ==
    ASSUME NEW q \in Quotation, NEW s \in Quotation, NEW r \in Quotation,
           s.pending => s.stage = "QUOTED",
           Came(q, s), Advances(s, r)
    PROVE  Came(q, r)
  BY DEF Came, SameOffer, Advances, Quotation, Awaiting

LEMMA AdvanceOrder ==
    ASSUME NEW s \in Quotation, NEW r \in Quotation, Advances(s, r)
    PROVE  NoNewer(s, r)
  BY DEF Advances, SameOffer, NoNewer, Quotation

\* Loading adds the scopes that a draft lacks, and nothing else.
LEMMA LoadedFacts ==
    ASSUME TypeOK, NEW at
    PROVE  /\ Loaded(at) \in Quotation
           /\ Advances(server, Loaded(at))
           /\ Loaded(at).stage = server.stage
           /\ Loaded(at).pending = server.pending
  BY DEF Loaded, TypeOK, Quotation, Advances

\* A line, a discount and a decision are accepted while the current version
\* is what was shown.
LEMMA AcceptedIsCurrent ==
    ASSUME TypeOK, NEW c \in calls, Shape(c), Came(c.from, server), Accepts(c),
           c.op \in {"save", "adjust", "decide"}
    PROVE  SameOffer(c.from, server)
<1>1. c.from \in Quotation /\ server \in Quotation
  BY DEF TypeOK, Call
<1>2. c.from.version = server.version
  BY <1>1 DEF Accepts, SpaceControls, SameVersion
<1>3. CASE c.op = "save"
  BY <1>1, <1>2, <1>3 DEF Accepts, SpaceControls, Shape, Came, SameRevision, Expected, Quotation
<1>4. CASE c.op = "adjust"
  BY <1>1, <1>2, <1>4 DEF Accepts, SpaceControls, Shape, Came, SameOffer, Awaiting, Quotation
<1>5. CASE c.op = "decide"
  BY <1>1, <1>2, <1>5 DEF Accepts, SpaceControls, Shape, Came, SameOffer, Awaiting, Quotation
<1>6. QED
  BY <1>3, <1>4, <1>5

\* A new draft is accepted while nothing has come but a discount that waits.
LEMMA ContinuedIsCurrent ==
    ASSUME TypeOK, NEW c \in calls, Shape(c), Came(c.from, server), Accepts(c),
           c.op = "continue"
    PROVE  SameOffer(IF server.pending
                     THEN [c.from EXCEPT !.pending = TRUE, !.rate = server.rate]
                     ELSE c.from, server)
<1> DEFINE q == c.from
<1>1. q \in Quotation /\ server \in Quotation /\ (server.pending => server.stage = "QUOTED")
  BY DEF TypeOK, Call
<1>2. /\ q.version = server.version /\ server.stage \in {"QUOTED", "RETURNED"}
      /\ Awaiting(q) \/ q.stage = "RETURNED"
      /\ Came(q, server)
  BY DEF Accepts, SpaceControls, SameVersion, Shape
<1> HIDE DEF q
<1>3. CASE server.pending
  <2> DEFINE s == [q EXCEPT !.pending = TRUE, !.rate = server.rate]
  <2>1. /\ s.version = q.version /\ s.stage = q.stage /\ s.pending = TRUE
        /\ s.entry = q.entry /\ s.rate = server.rate
    BY <1>1 DEF Quotation
  <2> HIDE DEF s
  <2>2. q.version \in Nat /\ server.version \in Nat /\ server.stage = "QUOTED"
    BY <1>1, <1>3 DEF Quotation
  <2>3. ~(q.version < server.version)
    BY <1>2, <2>2
  <2>4. q.stage = server.stage /\ q.entry = server.entry
    BY <1>2, <2>2, <2>3 DEF Came, SameOffer, Awaiting
  <2>5. server.pending = TRUE
    BY <1>1, <1>3 DEF Quotation
  <2>6. SameOffer(s, server)
    BY <1>2, <2>1, <2>4, <2>5 DEF SameOffer
  <2>7. QED
    BY <1>3, <2>6 DEF s, q
<1>4. CASE ~server.pending
  <2>1. SameOffer(q, server)
    BY <1>1, <1>2, <1>4 DEF Came, SameOffer, Awaiting, Quotation
  <2>2. QED
    BY <1>4, <2>1 DEF q
<1>5. QED
  BY <1>3, <1>4

\* An export is admitted while the current version is what was shown.
LEMMA AdmittedIsCurrent ==
    ASSUME TypeOK, NEW c \in calls, Shape(c), Came(c.from, server), Admits(c),
           c.op = "export"
    PROVE  SameOffer(c.from, server)
<1>1. c.from \in Quotation /\ server \in Quotation
  BY DEF TypeOK, Call
<1>2. c.from.version = server.version /\ ExportVisible(c.from) /\ ExportVisible(server)
  BY DEF Admits, SpaceControls, SameVersion, Shape
<1>3. QED
  BY <1>1, <1>2 DEF Came, SameOffer, Awaiting, ExportVisible, Quotation

\* The quotation with some of its parts replaced.
LEMMA Altered ==
    ASSUME NEW q \in Quotation, NEW v \in Nat \ {0}, NEW st \in Stages,
           NEW p \in BOOLEAN, NEW n \in Nat, NEW e \in [Lines -> Entries], NEW ra \in Rates
    PROVE  /\ [q EXCEPT !.version = v, !.stage = st, !.pending = p, !.revision = n] \in Quotation
           /\ [q EXCEPT !.pending = p, !.rate = ra, !.revision = n] \in Quotation
           /\ [q EXCEPT !.entry = e, !.revision = n] \in Quotation
           /\ [q EXCEPT !.rate = ra] \in Quotation
  BY DEF Quotation

LEMMA NextVersionFacts ==
    ASSUME NEW q \in Quotation, NEW st \in Stages
    PROVE  /\ NextVersion(q, st) \in Quotation
           /\ NextVersion(q, st).version = q.version + 1
           /\ NextVersion(q, st).pending = FALSE
<1> DEFINE v == q.version + 1
<1>1. v \in Nat \ {0}
  BY DEF Quotation
<1>2. NextVersion(q, st) =
        [q EXCEPT !.version = v, !.stage = st, !.pending = FALSE, !.revision = 0]
  BY DEF NextVersion
<1>3. NextVersion(q, st).version = q.version + 1
  BY <1>2 DEF Quotation
<1>4. NextVersion(q, st).pending = FALSE
  BY <1>2 DEF Quotation
<1> HIDE DEF v
<1>5. /\ q.entry \in [Lines -> Entries] /\ q.rate \in Rates
      /\ FALSE \in BOOLEAN /\ 0 \in Nat
  BY DEF Quotation
<1>6. [q EXCEPT !.version = v, !.stage = st, !.pending = FALSE, !.revision = 0] \in Quotation
  BY <1>1, <1>5, Altered
<1>7. QED
  BY <1>2, <1>3, <1>4, <1>6

\* What an accepted request does.
LEMMA AppliedFacts ==
    ASSUME TypeOK, NEW c \in calls, Shape(c), Accepts(c)
    PROVE  /\ Applied(c) \in Quotation
           /\ Advances(server, Applied(c))
           /\ Applied(c).pending => Applied(c).stage = "QUOTED"
           /\ c.op \in Replacing => Behind(server, Applied(c), c.op)
<1>1. server \in Quotation /\ c \in Call
  BY DEF TypeOK
<1>2. server.pending => server.stage = "QUOTED"
  BY DEF TypeOK
<1>3. c.rate \in Rates /\ FullPrice \in Rates /\ server.rate \in Rates
  BY <1>1, ConstantsAssumption DEF Call, Quotation
<1>4. CASE c.op = "save"
  <2>1. Applied(c) = [server EXCEPT !.entry[c.line] = c.entry, !.revision = @ + 1]
    BY <1>4 DEF Applied
  <2> DEFINE e == [server.entry EXCEPT ![c.line] = c.entry]
             n == server.revision + 1
  <2>2. /\ server.entry \in [Lines -> Entries] /\ server.revision \in Nat
        /\ c.entry \in Entries
    BY <1>1, <1>4 DEF Quotation, Shape
  <2>3. Applied(c) = [server EXCEPT !.entry = e, !.revision = n]
    BY <2>1
  <2>4. server.stage = "DRAFT" /\ server.version \in Nat \ {0}
    BY <1>1, <1>4 DEF Accepts, SpaceControls, Quotation
  <2>5. /\ Applied(c).version = server.version
        /\ Applied(c).stage = server.stage
        /\ Applied(c).revision = n
    BY <1>1, <2>3 DEF Quotation
  <2>6. Applied(c).pending = server.pending
    BY <1>1, <2>3 DEF Quotation
  <2>7. e \in [Lines -> Entries]
    BY <2>2
  <2>8. n \in Nat
    BY <2>2
  <2> HIDE DEF e
  <2>9. Applied(c) \in Quotation
    <3> HIDE DEF n
    <3>1. QED
      BY <1>1, <2>3, <2>7, <2>8 DEF Quotation
  <2>10. QED
    BY <1>1, <1>2, <1>4, <2>4, <2>5, <2>6, <2>9 DEF Quotation, Advances, Older, Behind
<1>5. CASE c.op = "submit"
  <2>1. Applied(c) = [server EXCEPT !.stage = "QUOTED"]
    BY <1>5 DEF Applied
  <2>2. server.stage = "DRAFT"
    BY <1>5 DEF Accepts, SpaceControls
  <2>3. QED
    BY <1>1, <1>2, <1>5, <2>1, <2>2 DEF Quotation, Stages, Advances, Replacing
<1>6. CASE c.op = "continue"
  <2>1. Applied(c) = [NextVersion(server, "DRAFT") EXCEPT
                        !.rate = IF server.stage = "RETURNED" THEN @ ELSE FullPrice]
    BY <1>6 DEF Applied
  <2> DEFINE q == NextVersion(server, "DRAFT")
             ra == IF server.stage = "RETURNED" THEN q.rate ELSE FullPrice
  <2>2. q \in Quotation /\ q.version = server.version + 1 /\ q.pending = FALSE
    BY <1>1, NextVersionFacts DEF Stages
  <2>3. Applied(c) = [q EXCEPT !.rate = ra]
    BY <2>1
  <2> HIDE DEF q
  <2>4. ra \in Rates
    BY <1>3, <2>2 DEF Quotation
  <2>5. Applied(c).version = q.version
    BY <2>2, <2>3 DEF Quotation
  <2>6. Applied(c).pending = q.pending
    BY <2>2, <2>3 DEF Quotation
  <2> HIDE DEF ra
  <2>7. Applied(c) \in Quotation
    BY <2>2, <2>3, <2>4 DEF Quotation
  <2>8. QED
    BY <1>6, <2>2, <2>5, <2>6, <2>7 DEF Advances, Replacing
<1>7. CASE c.op = "adjust"
  <2>1. Awaiting(server)
    BY <1>7 DEF Accepts, SpaceControls
  <2>2. CASE c.tab \in Owners
    <3> DEFINE q == NextVersion(server, "APPROVED")
    <3>1. q \in Quotation /\ q.version = server.version + 1 /\ q.pending = FALSE
      BY <1>1, NextVersionFacts DEF Stages
    <3>2. Applied(c) = [q EXCEPT !.rate = c.rate]
      BY <1>7, <2>2 DEF Applied
    <3> HIDE DEF q
    <3>3. Applied(c).version = q.version
      BY <3>1, <3>2 DEF Quotation
    <3>4. Applied(c).pending = q.pending
      BY <3>1, <3>2 DEF Quotation
    <3> DEFINE ra == c.rate
    <3>5. ra \in Rates /\ Applied(c) = [q EXCEPT !.rate = ra]
      BY <1>3, <3>2
    <3> HIDE DEF ra
    <3>6. Applied(c) \in Quotation
      BY <3>1, <3>5 DEF Quotation
    <3>7. QED
      BY <1>7, <3>1, <3>3, <3>4, <3>6 DEF Advances, Replacing
  <2>3. CASE c.tab \notin Owners
    <3>1. Applied(c) = [server EXCEPT !.pending = TRUE, !.rate = c.rate, !.revision = @ + 1]
      BY <1>7, <2>3 DEF Applied
    <3> DEFINE ra == c.rate
               n == server.revision + 1
    <3>2. /\ ra \in Rates /\ n \in Nat /\ TRUE \in BOOLEAN
          /\ Applied(c) = [server EXCEPT !.pending = TRUE, !.rate = ra, !.revision = n]
      BY <1>1, <1>3, <3>1 DEF Quotation
    <3>3. /\ Applied(c).version = server.version
          /\ Applied(c).stage = server.stage
          /\ Applied(c).revision = server.revision + 1
          /\ Applied(c).entry = server.entry
      BY <1>1, <3>1 DEF Quotation
    <3>4. Applied(c).pending = TRUE
      BY <1>1, <3>1 DEF Quotation
    <3> HIDE DEF ra, n
    <3>5. Applied(c) \in Quotation
      BY <1>1, <3>2 DEF Quotation
    <3>6. QED
      BY <1>7, <2>1, <3>3, <3>4, <3>5 DEF Advances, Replacing, Awaiting
  <2>4. QED
    BY <2>2, <2>3
<1>8. CASE c.op = "decide"
  <2>1. Applied(c) = NextVersion(server, c.decision)
    BY <1>8 DEF Applied
  <2>2. c.decision \in Stages
    BY <1>1 DEF Call, Stages
  <2>3. /\ Applied(c) \in Quotation /\ Applied(c).version = server.version + 1
        /\ Applied(c).pending = FALSE
    BY <1>1, <2>1, <2>2, NextVersionFacts
  <2>4. QED
    BY <1>1, <1>8, <2>3 DEF Advances, Behind, Quotation
<1>9. CASE c.op \in {"updateSpace", "deleteSpace"}
  <2>1. Applied(c) = [server EXCEPT !.revision = @ + 1]
    BY <1>9 DEF Applied
  <2>2. server.stage \in {"DRAFT", "QUOTED"}
    BY <1>9 DEF Accepts, SpaceControls
  <2>3. QED
    BY <1>1, <1>2, <1>9, <2>1, <2>2 DEF Quotation, Stages, Advances, SameOffer, Replacing
<1>10. CASE c.op \in {"export", "addSpace", "compare", "benchmark"}
  <2>1. Applied(c) = server
    BY <1>10 DEF Applied
  <2>2. QED
    BY <1>1, <1>2, <1>10, <2>1 DEF Advances, Replacing
<1>11. c.op \in Controls \cup {"save"}
  BY <1>1 DEF Call
<1>12. QED
  BY <1>4, <1>5, <1>6, <1>7, <1>8, <1>9, <1>10, <1>11 DEF Controls, SpaceControls

-----------------------------------------------------------------------------
(***************************************************************************)
(* What any step does: it sends one request, or the requests go on.        *)
(***************************************************************************)
\* The parts of a request that never change.
SameRequest(c, d) ==
    /\ d.no = c.no /\ d.tab = c.tab /\ d.op = c.op /\ d.from = c.from
    /\ d.entry = c.entry /\ d.decision = c.decision

\* c goes on as d: it is refused, sent again, checked, carried out, or its
\* answer is read.
Goes(c, d) ==
    \/ d.state = c.state /\ d.answer = c.answer
    \/ d.state \in {"sent", "refused"}
    \/ /\ d.state = "checked"
       /\ c.op = "export" => Admits(c) /\ d.answer = server
    \/ /\ d.state \in {"applied", "read"}
       /\ c.op \in Replacing =>
             /\ c.state = "sent" /\ Accepts(c) /\ server' = Applied(c)
             /\ c.op = "save" => d.state = "applied"
             /\ c.op = "decide" => d.answer = server'
    \/ c.state = "applied" /\ d.state = "read" /\ d.answer = server

\* The calls of rest go on, c as f[c], one of them into another state.
Moves(rest, f) ==
    /\ calls' = {f[c] : c \in rest}
    /\ sent' = sent
    /\ \A c \in rest :
          /\ SameRequest(c, f[c])
          /\ f[c].waiting = "page" => c.waiting = "page"
          /\ Goes(c, f[c])
    /\ \A c, d \in rest : f[c].state # c.state /\ f[d].state # d.state => c = d

\* What t shows: the same, a page just opened, an answer, or a reload.
PageMoves(t, rest, f) ==
    \/ /\ page'[t].at = page[t].at
       /\ page'[t].shows = page[t].shows
       /\ page'[t].refreshing => page[t].refreshing \/ page[t].at \in Reloaded
    \/ /\ page'[t].shows = server'
       /\ ~page'[t].refreshing
       /\ \A c \in rest : c.tab = t => f[c].waiting # "page"
    \/ /\ page'[t].at = page[t].at
       /\ page'[t].refreshing = page[t].refreshing
       /\ \E c \in calls \ rest : /\ c.tab = t /\ c.waiting = "page"
                                  /\ c.op \in Replacing /\ c.state = "read"
                                  /\ page'[t].shows = c.answer
    \/ /\ page'[t].at = page[t].at
       /\ page[t].at \in Reloaded
       /\ page'[t].shows = server'

GoesOnAs(rest, f) ==
    /\ Advances(server, server')
    /\ Moves(rest, f)
    /\ \A t \in Tabs : PageMoves(t, rest, f)

Sends(t, d) ==
    /\ d.no = sent + 1 /\ d.tab = t /\ d.state = "sent"
    /\ d.from = page[t].shows
    /\ Shape(d) /\ Fits(d.op, page[t].at)
    /\ calls' = calls \cup {d}
    /\ sent' = sent + 1
    /\ \A u \in Tabs : /\ page'[u].at = page[u].at
                       /\ page'[u].shows = page[u].shows
                       /\ page'[u].refreshing = page[u].refreshing
    /\ server' = server

-----------------------------------------------------------------------------
(***************************************************************************)
(* Such steps preserve the invariant.                                      *)
(***************************************************************************)
LEMMA SendsPreserves ==
    ASSUME ShownInv, TypeOK', NEW t \in Tabs, NEW d \in Call, Sends(t, d)
    PROVE  ShownInv'
<1>1. /\ page[t].shows \in Quotation /\ sent \in Nat
      /\ \A c \in calls : c.no \in Nat /\ c.tab \in Tabs
  BY ConstantsAssumption DEF ShownInv, TypeOK, Page, Call
<1>2. Shaped'
  BY DEF ShownInv, Shaped, Sends
<1>3. Numbered'
  BY <1>1 DEF ShownInv, Numbered, Sends
<1>4. InPlace'
  BY <1>1 DEF ShownInv, InPlace, Sends
<1>5. Past'
  BY DEF ShownInv, Past, Sends
<1>6. NoNewer(d.from, page[t].shows) /\ ~Bringing(d)
  BY <1>1, OrderFacts DEF Sends, Bringing
<1>7. Ahead'
  BY <1>1, <1>6 DEF ShownInv, Ahead, Sends
<1>8. Alone'
  BY <1>6 DEF ShownInv, Alone, Sends
<1>9. QED
  BY <1>2, <1>3, <1>4, <1>5, <1>7, <1>8 DEF ShownInv

LEMMA MovesFacts ==
    ASSUME NEW rest \in SUBSET calls, NEW f \in [calls -> Call], Moves(rest, f),
           NEW e \in calls'
    PROVE  \E c \in rest : e = f[c]
  BY DEF Moves

LEMMA MovesKeepsRequests ==
    ASSUME ShownInv, TypeOK', NEW rest \in SUBSET calls, NEW f \in [calls -> Call],
           GoesOnAs(rest, f)
    PROVE  Shaped' /\ Numbered' /\ InPlace'
<1>1. Moves(rest, f) /\ \A t \in Tabs : PageMoves(t, rest, f)
  BY DEF GoesOnAs
<1>2. \A e \in calls' : \E c \in rest : e = f[c]
  BY <1>1, MovesFacts
<1>3. Shaped'
  <2>1. ASSUME NEW c \in rest PROVE Shape(f[c])
    <3>1. Shape(c) /\ SameRequest(c, f[c])
      BY <1>1 DEF Moves, ShownInv, Shaped
    <3>2. QED
      BY <3>1 DEF Shape, SameRequest
  <2>2. QED
    BY <1>2, <2>1 DEF Shaped
<1>4. Numbered'
  <2>1. \A c \in rest : f[c].no = c.no
    BY <1>1 DEF Moves, SameRequest
  <2>2. sent' = sent
    BY <1>1 DEF Moves
  <2>3. QED
    BY <1>2, <2>1, <2>2 DEF ShownInv, Numbered
<1>5. ASSUME NEW c \in rest, f[c].waiting = "page"
      PROVE  Fits(f[c].op, page'[f[c].tab].at)
  <2>1. /\ f[c].op = c.op /\ f[c].tab = c.tab /\ c.waiting = "page" /\ c.tab \in Tabs
    BY <1>1, <1>5 DEF Moves, SameRequest, ShownInv, TypeOK, Call
  <2>2. Fits(c.op, page[c.tab].at)
    BY <2>1 DEF ShownInv, InPlace
  <2>3. page'[c.tab].at = page[c.tab].at
    BY <1>1, <1>5, <2>1 DEF PageMoves
  <2>4. QED
    BY <2>1, <2>2, <2>3
<1>6. ASSUME NEW t \in Tabs, page'[t].refreshing
      PROVE  page'[t].at \in Reloaded
  <2>1. page[t].refreshing => page[t].at \in Reloaded
    BY DEF ShownInv, InPlace
  <2>2. QED
    BY <1>1, <1>6, <2>1 DEF PageMoves
<1>7. InPlace'
  BY <1>2, <1>5, <1>6 DEF InPlace
<1>8. QED
  BY <1>3, <1>4, <1>7

LEMMA MovesKeepsPast ==
    ASSUME ShownInv, TypeOK', NEW rest \in SUBSET calls, NEW f \in [calls -> Call],
           GoesOnAs(rest, f)
    PROVE  Past'
<1>1. /\ Moves(rest, f) /\ Advances(server, server')
      /\ \A t \in Tabs : PageMoves(t, rest, f)
  BY DEF GoesOnAs
<1>2. /\ server \in Quotation /\ server' \in Quotation
      /\ server.pending => server.stage = "QUOTED"
      /\ \A t \in Tabs : page[t].shows \in Quotation
      /\ \A c \in calls : c.from \in Quotation /\ c.answer \in Quotation
  BY DEF ShownInv, TypeOK, Page, Call
<1>3. \A q \in Quotation : Came(q, server) => Came(q, server')
  BY <1>1, <1>2, CameOn
<1>4. Came(server, server') /\ Came(server', server')
  <2>1. \A q \in Quotation : Came(q, q)
    BY DEF Came, SameOffer, Quotation
  <2>2. QED
    BY <1>2, <1>3, <2>1
<1>5. ASSUME NEW t \in Tabs
      PROVE  Came(page'[t].shows, server')
  <2>1. Came(page[t].shows, server)
    BY DEF ShownInv, Past
  <2>2. \A c \in calls : c.op \in Replacing /\ c.state = "read" => Came(c.answer, server)
    BY DEF ShownInv, Past
  <2>3. PageMoves(t, rest, f)
    BY <1>1
  <2>4. QED
    BY <1>2, <1>3, <1>4, <2>1, <2>2, <2>3 DEF PageMoves
<1>6. ASSUME NEW c \in rest
      PROVE  /\ Came(f[c].from, server')
             /\ f[c].op \in Replacing /\ f[c].state = "read" => Came(f[c].answer, server')
             /\ f[c].op = "export" /\ f[c].state = "checked" =>
                  SameOffer(f[c].from, f[c].answer)
  <2>1. /\ Came(c.from, server) /\ Shape(c) /\ TypeOK
        /\ c.op \in Replacing /\ c.state = "read" => Came(c.answer, server)
        /\ c.op = "export" /\ c.state = "checked" => SameOffer(c.from, c.answer)
    BY DEF ShownInv, Past, Shaped
  <2>2. SameRequest(c, f[c]) /\ Goes(c, f[c])
    BY <1>1 DEF Moves
  <2>3. Came(f[c].from, server')
    BY <1>2, <1>3, <2>1, <2>2 DEF SameRequest
  <2>4. f[c].op \in Replacing /\ f[c].state = "read" => Came(f[c].answer, server')
    BY <1>2, <1>3, <1>4, <2>1, <2>2 DEF SameRequest, Goes, Replacing
  <2>5. f[c].op = "export" /\ f[c].state = "checked" => SameOffer(f[c].from, f[c].answer)
    <3>1. c.op = "export" /\ Admits(c) => SameOffer(c.from, server)
      BY <2>1, AdmittedIsCurrent
    <3>2. QED
      BY <2>1, <2>2, <3>1 DEF SameRequest, Goes
  <2>6. QED
    BY <2>3, <2>4, <2>5
<1>7. \A e \in calls' : \E c \in rest : e = f[c]
  BY <1>1, MovesFacts
<1>8. QED
  BY <1>5, <1>6, <1>7 DEF Past

\* The page of a request that is accepted now is not behind.
LEMMA AcceptedFromPage ==
    ASSUME ShownInv, NEW c \in calls, c.waiting = "page", c.op \in Replacing, Accepts(c)
    PROVE  ~Behind(page[c.tab].shows, server, c.op)
<1>1. /\ server \in Quotation /\ page[c.tab].shows \in Quotation /\ c.from \in Quotation
  BY DEF ShownInv, TypeOK, Call, Page
<1>2. NoNewer(c.from, page[c.tab].shows)
  BY DEF ShownInv, Ahead
<1>3. /\ c.from.version = server.version
      /\ c.op = "save" => c.from.revision = server.revision
  BY DEF Accepts, SpaceControls, SameVersion, SameRevision, Expected, Replacing
<1>4. QED
  BY <1>1, <1>2, <1>3 DEF Behind, NoNewer, Older, Replacing, Quotation

LEMMA MovesKeepsAhead ==
    ASSUME ShownInv, TypeOK', NEW rest \in SUBSET calls, NEW f \in [calls -> Call],
           GoesOnAs(rest, f)
    PROVE  Ahead'
<1>1. /\ Moves(rest, f) /\ Advances(server, server')
      /\ \A t \in Tabs : PageMoves(t, rest, f)
  BY DEF GoesOnAs
<1>2. \A e \in calls' : \E c \in rest : e = f[c]
  BY <1>1, MovesFacts
<1> SUFFICES ASSUME NEW c \in rest, f[c].waiting = "page"
             PROVE  /\ NoNewer(f[c].from, page'[f[c].tab].shows)
                    /\ Bringing(f[c]) =>
                         /\ Behind(page'[f[c].tab].shows, server', f[c].op)
                         /\ f[c].state = "read" =>
                              NoNewer(page'[f[c].tab].shows, f[c].answer)
  BY <1>2 DEF Ahead
<1> DEFINE old == page[c.tab].shows
           new == page'[c.tab].shows
<1>3. /\ f[c].from = c.from /\ f[c].tab = c.tab /\ f[c].op = c.op
      /\ c.waiting = "page" /\ Goes(c, f[c]) /\ c.tab \in Tabs
  BY <1>1 DEF Moves, SameRequest, ShownInv, TypeOK, Call
<1>4. /\ server \in Quotation /\ server' \in Quotation
      /\ old \in Quotation /\ new \in Quotation
      /\ c.from \in Quotation /\ c.answer \in Quotation
      /\ f[c].answer \in Quotation
      /\ \A d \in calls : d.answer \in Quotation
  BY <1>3 DEF ShownInv, TypeOK, Page, Call
<1>5. /\ Came(old, server) /\ NoNewer(old, server) /\ NoNewer(server, server')
      /\ NoNewer(c.from, old)
  BY <1>1, <1>3, <1>4, OrderFacts, AdvanceOrder DEF ShownInv, Past, Ahead
<1>6. Fits(c.op, page[c.tab].at)
  BY <1>3 DEF ShownInv, InPlace
<1>7. Bringing(c) => Behind(old, server, c.op) /\ (c.state = "read" => NoNewer(old, c.answer))
  BY <1>3 DEF ShownInv, Ahead
<1>8. c.state = "sent" /\ Accepts(c) /\ c.op \in Replacing /\ server' = Applied(c)
        => /\ Behind(server, server', c.op)
           /\ ~Behind(old, server, c.op)
  BY <1>3, AcceptedFromPage, AppliedFacts DEF ShownInv, Shaped
\* The page is as it was, or its new quotation comes with no such answer.
<1>9. CASE new = old
  <2>1. NoNewer(c.from, new)
    BY <1>5, <1>9
  <2>2. Bringing(f[c]) => Behind(old, server', c.op)
    <3>1. Bringing(c) => Behind(old, server', c.op)
      BY <1>4, <1>5, <1>7, OrderFacts
    <3>2. Bringing(f[c]) /\ ~Bringing(c) => Behind(server, server', c.op)
      BY <1>3, <1>8 DEF Bringing, Goes
    <3>3. Behind(server, server', c.op) => Behind(old, server', c.op)
      BY <1>4, <1>5, OrderFacts
    <3>4. QED
      BY <3>1, <3>2, <3>3
  <2>3. Bringing(f[c]) /\ f[c].state = "read" => NoNewer(old, f[c].answer)
    <3>1. NoNewer(old, server')
      BY <1>4, <1>5, OrderFacts
    <3>2. QED
      BY <1>3, <1>5, <1>7, <3>1 DEF Bringing, Goes, Replacing
  <2>4. QED
    BY <1>3, <1>9, <2>1, <2>2, <2>3
<1>10. CASE new # old
  <2>1. \/ page[c.tab].at \in Reloaded /\ new = server'
        \/ \E d \in calls \ rest : /\ d.tab = c.tab /\ d.waiting = "page"
                                   /\ d.op \in Replacing /\ d.state = "read"
                                   /\ new = d.answer
    BY <1>1, <1>3, <1>10 DEF PageMoves
  <2>2. CASE page[c.tab].at \in Reloaded /\ new = server'
    <3>1. c.op \notin Replacing
      BY <1>6, <2>2 DEF Fits, Replacing, Reloaded
    <3>2. NoNewer(c.from, new)
      BY <1>4, <1>5, <2>2, OrderFacts
    <3>3. QED
      BY <1>3, <3>1, <3>2 DEF Bringing
  <2>3. ASSUME NEW d \in calls \ rest, d.tab = c.tab, d.waiting = "page",
               d.op \in Replacing, d.state = "read", new = d.answer
        PROVE  NoNewer(c.from, new) /\ ~Bringing(f[c])
    <3>1. Bringing(d) /\ (c.op \in Replacing => c.op = d.op)
      BY <1>6, <2>3 DEF Bringing, ShownInv, InPlace, Fits, Replacing
    <3>2. Behind(old, server, d.op) /\ NoNewer(old, new)
      BY <2>3, <3>1 DEF ShownInv, Ahead
    <3>3. NoNewer(c.from, new)
      BY <1>4, <1>5, <3>2, OrderFacts
    <3>4. ~Bringing(c)
      BY <1>3, <2>3, <3>1 DEF ShownInv, Alone
    <3>5. ~Bringing(f[c])
      BY <1>3, <1>8, <3>1, <3>2, <3>4 DEF Bringing, Goes
    <3>6. QED
      BY <3>3, <3>5
  <2>4. QED
    BY <1>3, <2>1, <2>2, <2>3
<1>11. QED
  BY <1>9, <1>10

LEMMA MovesKeepsAlone ==
    ASSUME ShownInv, NEW rest \in SUBSET calls, NEW f \in [calls -> Call],
           GoesOnAs(rest, f)
    PROVE  Alone'
<1>1. Moves(rest, f)
  BY DEF GoesOnAs
<1>2. \A e \in calls' : \E c \in rest : e = f[c]
  BY <1>1, MovesFacts
\* Of two accepted requests of a page the one that is not accepted now made
\* the server newer than the page, so that the other was refused.
<1>3. ASSUME NEW c \in rest, NEW d \in rest, c.tab = d.tab,
             f[c].waiting = "page", Bringing(f[c]),
             f[d].waiting = "page", Bringing(f[d]), f[d].state = d.state
      PROVE  c = d
  <2>1. /\ c.waiting = "page" /\ f[c].op = c.op /\ Goes(c, f[c])
        /\ d.waiting = "page" /\ f[d].op = d.op
    BY <1>1, <1>3 DEF Moves, SameRequest
  <2>2. Bringing(d)
    BY <1>3, <2>1 DEF Bringing
  <2>3. CASE Bringing(c)
    BY <1>3, <2>1, <2>2, <2>3 DEF ShownInv, Alone
  <2>4. CASE ~Bringing(c)
    <3>1. Accepts(c) /\ c.op \in Replacing
      BY <1>3, <2>1, <2>4 DEF Bringing, Goes
    <3>2. ~Behind(page[c.tab].shows, server, c.op)
      BY <2>1, <3>1, AcceptedFromPage
    <3>3. Behind(page[d.tab].shows, server, d.op)
      BY <2>1, <2>2 DEF ShownInv, Ahead
    <3>4. c.op = d.op
      BY <1>3, <2>1, <2>2, <3>1 DEF Bringing, ShownInv, InPlace, Fits, Replacing
    <3>5. QED
      BY <1>3, <3>2, <3>3, <3>4
  <2>5. QED
    BY <2>3, <2>4
<1>4. ASSUME NEW c \in rest, NEW d \in rest, f[c].tab = f[d].tab,
             f[c].waiting = "page", Bringing(f[c]),
             f[d].waiting = "page", Bringing(f[d])
      PROVE  f[c] = f[d]
  <2>1. c.tab = d.tab
    BY <1>1, <1>4 DEF Moves, SameRequest
  <2>2. CASE f[d].state = d.state
    BY <1>3, <1>4, <2>1, <2>2
  <2>3. CASE f[c].state = c.state
    BY <1>3, <1>4, <2>1, <2>3
  <2>4. CASE f[c].state # c.state /\ f[d].state # d.state
    BY <1>1, <2>4 DEF Moves
  <2>5. QED
    BY <2>2, <2>3, <2>4
<1>5. QED
  BY <1>2, <1>4 DEF Alone

LEMMA MovesPreserves ==
    ASSUME ShownInv, TypeOK', NEW rest \in SUBSET calls, NEW f \in [calls -> Call],
           GoesOnAs(rest, f)
    PROVE  ShownInv'
  BY MovesKeepsRequests, MovesKeepsPast, MovesKeepsAhead, MovesKeepsAlone DEF ShownInv

-----------------------------------------------------------------------------
(***************************************************************************)
(* Pages and requests have their types.                                    *)
(***************************************************************************)
\* What the type invariant asks of a page of t.
FitPage(t, p) ==
    /\ p \in Page
    /\ p.at = "submit" => p.shows.stage = "DRAFT"
    /\ p.at \in {"approval", "costMargin"} => t \in Owners
    /\ p.at # "editor" => \A l \in Lines : p.typed[l] = None

LEMMA PagesFit ==
    ASSUME TypeOK, NEW t \in Tabs
    PROVE  FitPage(t, page[t])
  BY DEF TypeOK, FitPage

LEMMA PageReplaced ==
    ASSUME TypeOK, NEW t \in Tabs, NEW p, FitPage(t, p),
           page' = [page EXCEPT ![t] = p],
           server' \in Quotation, server'.pending => server'.stage = "QUOTED",
           unpriced' \in BOOLEAN, sent' \in 0..MaxRequests, calls' \subseteq Call
    PROVE  TypeOK' /\ page'[t] = p /\ \A u \in Tabs \ {t} : page'[u] = page[u]
<1>1. page \in [Tabs -> Page] /\ p \in Page
  BY DEF TypeOK, FitPage
<1>2. page' \in [Tabs -> Page] /\ page'[t] = p /\ \A u \in Tabs \ {t} : page'[u] = page[u]
  BY <1>1
<1>3. \A u \in Tabs : FitPage(u, page'[u])
  BY <1>2, PagesFit
<1>4. QED
  BY <1>2, <1>3 DEF TypeOK, FitPage

LEMMA PageUnchanged ==
    ASSUME TypeOK, page' = page,
           server' \in Quotation, server'.pending => server'.stage = "QUOTED",
           unpriced' \in BOOLEAN, sent' \in 0..MaxRequests, calls' \subseteq Call
    PROVE  TypeOK'
  BY DEF TypeOK

\* The parts of a page that change one at a time.
LEMMA PageAltered ==
    ASSUME NEW t, NEW p, FitPage(t, p)
    PROVE  /\ \A b \in SUBSET Controls : FitPage(t, [p EXCEPT !.busy = b])
           /\ \A l \in Lines \cup {None} : FitPage(t, [p EXCEPT !.saving = l])
           /\ \A b \in SUBSET Controls : FitPage(t, [p EXCEPT !.busy = b, !.refreshing = TRUE])
  BY DEF FitPage, Page

LEMMA FreshFits ==
    ASSUME NEW t, NEW at \in Places, NEW q \in Quotation,
           at = "submit" => q.stage = "DRAFT", at \in {"approval", "costMargin"} => t \in Owners
    PROVE  /\ FitPage(t, Fresh(at, q))
           /\ Fresh(at, q).shows = q
           /\ ~Fresh(at, q).refreshing
  BY DEF FitPage, Fresh, Page

\* A request of t, as its page sends it.
Asks(t, op, d) ==
    /\ d \in Call
    /\ d.no = sent + 1 /\ d.tab = t /\ d.op = op /\ d.state = "sent"
    /\ d.from = page[t].shows

LEMMA RequestAsks ==
    ASSUME TypeOK, NEW t \in Tabs, NEW op \in Controls \cup {"save"}, sent < MaxRequests
    PROVE  Asks(t, op, Request(t, op))
<1>1. /\ page[t].shows \in Quotation /\ FullPrice \in Rates /\ sent \in Nat
      /\ MaxRequests \in Nat
  BY ConstantsAssumption DEF TypeOK, Page
<1>2. sent + 1 \in 1..MaxRequests
  BY <1>1
<1> DEFINE n == sent + 1
<1>3. n \in 1..MaxRequests
  BY <1>2
<1>4. Request(t, op) =
        [no |-> n, tab |-> t, op |-> op, from |-> page[t].shows, line |-> None,
         entry |-> None, rate |-> FullPrice, decision |-> "APPROVED", left |-> 0,
         state |-> "sent", answer |-> page[t].shows, waiting |-> "page"]
  BY DEF Request
<1> HIDE DEF n
<1>5. Request(t, op) \in Call
  BY <1>1, <1>3, <1>4 DEF Call
<1>6. Request(t, op).no = n
  BY <1>4
<1>7. QED
  BY <1>4, <1>5, <1>6 DEF Asks, n

LEMMA AskedWith ==
    ASSUME NEW t, NEW op, NEW d, Asks(t, op, d)
    PROVE  /\ \A r \in Rates : Asks(t, op, [d EXCEPT !.rate = r])
           /\ \A k \in 0..2 : Asks(t, op, [d EXCEPT !.left = k])
           /\ \A a \in {"APPROVED", "RETURNED"} :
                 /\ Asks(t, op, [d EXCEPT !.decision = a])
                 /\ [d EXCEPT !.decision = a].decision = a
<1>1. /\ d \in Call
      /\ d.no = sent + 1 /\ d.tab = t /\ d.op = op /\ d.state = "sent"
      /\ d.from = page[t].shows
  BY DEF Asks
<1>2. ASSUME NEW r \in Rates
      PROVE  Asks(t, op, [d EXCEPT !.rate = r])
  BY <1>1 DEF Asks, Call
<1>3. ASSUME NEW k \in 0..2
      PROVE  Asks(t, op, [d EXCEPT !.left = k])
  BY <1>1 DEF Asks, Call
<1>4. ASSUME NEW a \in {"APPROVED", "RETURNED"}
      PROVE  /\ Asks(t, op, [d EXCEPT !.decision = a])
             /\ [d EXCEPT !.decision = a].decision = a
  BY <1>1 DEF Asks, Call
<1>5. QED
  BY <1>2, <1>3, <1>4

-----------------------------------------------------------------------------
(***************************************************************************)
(* Steps that send a request.                                              *)
(***************************************************************************)
LEMMA PressSends ==
    ASSUME ShownInv, NEW t \in Tabs, NEW op \in Controls, NEW d, Asks(t, op, d),
           Shape(d), Fits(op, page[t].at), Press(t, d)
    PROVE  TypeOK' /\ \E e \in Call : Sends(t, e)
<1>1. TypeOK /\ d \in Call /\ d.op = op
  BY DEF ShownInv, Asks
<1> DEFINE b == page[t].busy \cup {op}
           p == [page[t] EXCEPT !.busy = b]
<1>2. FitPage(t, page[t])
  BY <1>1, PagesFit
<1>3. b \in SUBSET Controls
  BY <1>2 DEF FitPage, Page
<1>4. page' = [page EXCEPT ![t] = p]
  BY <1>1 DEF Press
<1>5. p.at = page[t].at /\ p.shows = page[t].shows /\ p.refreshing = page[t].refreshing
  BY <1>2 DEF FitPage, Page
<1>6. FitPage(t, p)
  <2> HIDE DEF b
  <2>1. QED
    BY <1>2, <1>3, PageAltered
<1> HIDE DEF p
<1>7. /\ server' = server /\ unpriced' = unpriced /\ sent' = sent + 1
      /\ calls' = calls \cup {d} /\ sent < MaxRequests
  BY DEF Press
<1>8. sent' \in 0..MaxRequests
  BY <1>1, <1>7, ConstantsAssumption DEF TypeOK
<1>9. /\ server' \in Quotation /\ (server'.pending => server'.stage = "QUOTED")
      /\ unpriced' \in BOOLEAN /\ calls' \subseteq Call
  BY <1>1, <1>7 DEF TypeOK
<1>10. TypeOK' /\ page'[t] = p /\ \A u \in Tabs \ {t} : page'[u] = page[u]
  BY <1>1, <1>4, <1>6, <1>8, <1>9, PageReplaced
<1>11. \A u \in Tabs : /\ page'[u].at = page[u].at
                       /\ page'[u].shows = page[u].shows
                       /\ page'[u].refreshing = page[u].refreshing
  BY <1>5, <1>10
<1>12. Sends(t, d)
  BY <1>1, <1>7, <1>11 DEF Sends, Asks
<1>13. QED
  BY <1>1, <1>10, <1>12

\* The controls whose answers bring nothing.
LEMMA PlainPress ==
    ASSUME ShownInv, NEW t \in Tabs,
           NEW op \in {"submit", "compare"}, Press(t, Request(t, op))
    PROVE  TypeOK' /\ \E e \in Call : Sends(t, e)
<1> DEFINE d == Request(t, op)
<1>1. TypeOK /\ sent < MaxRequests /\ op \in Controls
  BY DEF ShownInv, Press, Controls
<1>2. Asks(t, op, d)
  BY <1>1, RequestAsks
<1>3. Shape(d) /\ Fits(op, page[t].at)
  BY <1>2 DEF Asks, Shape, Fits, Reloading, SpaceControls
<1> HIDE DEF d
<1>4. QED
  BY <1>1, <1>2, <1>3, PressSends DEF d

\* Those that reload the page.
LEMMA ReloadingPress ==
    ASSUME ShownInv, NEW t \in Tabs, NEW op \in {"benchmark"} \cup SpaceControls,
           page[t].at \in Reloaded, Press(t, Request(t, op))
    PROVE  TypeOK' /\ \E e \in Call : Sends(t, e)
<1> DEFINE d == Request(t, op)
<1>1. TypeOK /\ sent < MaxRequests /\ op \in Controls
  BY DEF ShownInv, Press, Controls, SpaceControls
<1>2. Asks(t, op, d)
  BY <1>1, RequestAsks
<1>3. Shape(d) /\ Fits(op, page[t].at)
  BY <1>2 DEF Asks, Shape, Fits, SpaceControls
<1> HIDE DEF d
<1>4. QED
  BY <1>1, <1>2, <1>3, PressSends DEF d

LEMMA ContinueSends ==
    ASSUME ShownInv, NEW t \in Tabs, ContinueEditing(t)
    PROVE  TypeOK' /\ \E e \in Call : Sends(t, e)
<1> DEFINE d == Request(t, "continue")
<1>1. TypeOK /\ sent < MaxRequests /\ "continue" \in Controls
  BY DEF ShownInv, ContinueEditing, Press, Controls
<1>2. Asks(t, "continue", d)
  BY <1>1, RequestAsks
<1>3. Shape(d) /\ Fits("continue", page[t].at)
  BY <1>2 DEF ContinueEditing, Asks, Shape, Fits, Reloading, SpaceControls
<1>4. Press(t, d)
  BY DEF ContinueEditing
<1> HIDE DEF d
<1>5. QED
  BY <1>1, <1>2, <1>3, <1>4, PressSends

LEMMA AdjustmentSends ==
    ASSUME ShownInv, NEW t \in Tabs, NEW rate \in Rates, SubmitAdjustment(t, rate)
    PROVE  TypeOK' /\ \E e \in Call : Sends(t, e)
<1> DEFINE d == [Request(t, "adjust") EXCEPT !.rate = rate]
<1>1. TypeOK /\ sent < MaxRequests /\ "adjust" \in Controls
  BY DEF ShownInv, SubmitAdjustment, Press, Controls
<1>2. Asks(t, "adjust", d)
  BY <1>1, RequestAsks, AskedWith
<1>3. Shape(d) /\ Fits("adjust", page[t].at)
  BY <1>2 DEF SubmitAdjustment, Asks, Shape, Fits, Reloading, Reloaded
<1>4. Press(t, d)
  BY DEF SubmitAdjustment
<1> HIDE DEF d
<1>5. QED
  BY <1>1, <1>2, <1>3, <1>4, PressSends

LEMMA ExportSends ==
    ASSUME ShownInv, NEW t \in Tabs, NEW files \in 1..2, ExportFiles(t, files)
    PROVE  TypeOK' /\ \E e \in Call : Sends(t, e)
<1> DEFINE d == [Request(t, "export") EXCEPT !.left = files]
<1>1. TypeOK /\ sent < MaxRequests /\ "export" \in Controls /\ files \in 0..2
  BY DEF ShownInv, ExportFiles, Press, Controls
<1>2. Asks(t, "export", d)
  BY <1>1, RequestAsks, AskedWith
<1>3. Shape(d) /\ Fits("export", page[t].at)
  BY <1>2 DEF ExportFiles, Asks, Shape, Fits, Reloading, SpaceControls
<1>4. Press(t, d)
  BY DEF ExportFiles
<1> HIDE DEF d
<1>5. QED
  BY <1>1, <1>2, <1>3, <1>4, PressSends

LEMMA DecisionSends ==
    ASSUME ShownInv, NEW t \in Tabs, NEW decision \in {"APPROVED", "RETURNED"},
           DecideQuotation(t, decision)
    PROVE  TypeOK' /\ \E e \in Call : Sends(t, e)
<1> DEFINE d == [Request(t, "decide") EXCEPT !.decision = decision]
<1>1. TypeOK /\ sent < MaxRequests /\ "decide" \in Controls
  BY DEF ShownInv, DecideQuotation, Press, Controls
<1>2. Asks(t, "decide", d) /\ d.decision = decision
  <2> DEFINE asked == Request(t, "decide")
  <2>1. Asks(t, "decide", asked)
    BY <1>1, RequestAsks
  <2> HIDE DEF asked
  <2>2. /\ Asks(t, "decide", [asked EXCEPT !.decision = decision])
        /\ [asked EXCEPT !.decision = decision].decision = decision
    BY <2>1, AskedWith
  <2>3. QED
    BY <2>2 DEF asked
<1>3. Press(t, d)
  BY DEF DecideQuotation
<1> HIDE DEF d
<1>4. Shape(d) /\ Fits("decide", page[t].at)
  BY <1>2 DEF DecideQuotation, Asks, Shape, Fits, Reloading, SpaceControls
<1>5. QED
  BY <1>1, <1>2, <1>3, <1>4, PressSends

\* A line is saved when its input or its checkbox says so.
LEMMA SaveSends ==
    ASSUME ShownInv, NEW t \in Tabs, NEW l \in Lines, NEW entry \in Entries,
           Editable(page[t]), SaveLine(t, l, entry)
    PROVE  TypeOK' /\ \E e \in Call : Sends(t, e)
<1> DEFINE d == [Request(t, "save") EXCEPT !.line = l, !.entry = entry]
           p == [page[t] EXCEPT !.saving = l]
<1>1. TypeOK /\ sent < MaxRequests
  BY DEF ShownInv, SaveLine
<1>2. Asks(t, "save", d) /\ d.entry = entry
  <2> DEFINE asked == Request(t, "save")
  <2>1. Asks(t, "save", asked)
    BY <1>1, RequestAsks
  <2>2. d = [asked EXCEPT !.line = l, !.entry = entry]
    OBVIOUS
  <2> HIDE DEF asked, d
  <2>3. QED
    BY <2>1, <2>2 DEF Asks, Call
<1>3. calls' = calls \cup {d}
  BY DEF SaveLine
<1> HIDE DEF d
<1>4. Shape(d) /\ Fits("save", page[t].at) /\ d \in Call
  BY <1>2 DEF Editable, Asks, Shape, Fits, Reloading, SpaceControls
<1>5. FitPage(t, page[t])
  BY <1>1, PagesFit
<1>6. page' = [page EXCEPT ![t] = p]
  BY <1>1 DEF SaveLine
<1>7. p.at = page[t].at /\ p.shows = page[t].shows /\ p.refreshing = page[t].refreshing
  BY <1>5 DEF FitPage, Page
<1>8. FitPage(t, p)
  BY <1>5, PageAltered
<1> HIDE DEF p
<1>9. server' = server /\ unpriced' = unpriced /\ sent' = sent + 1
  BY DEF SaveLine
<1>10. sent' \in 0..MaxRequests
  BY <1>1, <1>9, ConstantsAssumption DEF TypeOK
<1>11. /\ server' \in Quotation /\ (server'.pending => server'.stage = "QUOTED")
       /\ unpriced' \in BOOLEAN /\ calls' \subseteq Call
  BY <1>1, <1>3, <1>4, <1>9 DEF TypeOK
<1>12. TypeOK' /\ page'[t] = p /\ \A u \in Tabs \ {t} : page'[u] = page[u]
  BY <1>1, <1>6, <1>8, <1>10, <1>11, PageReplaced
<1>13. \A u \in Tabs : /\ page'[u].at = page[u].at
                       /\ page'[u].shows = page[u].shows
                       /\ page'[u].refreshing = page[u].refreshing
  BY <1>7, <1>12
<1>14. Sends(t, d)
  BY <1>2, <1>3, <1>4, <1>9, <1>13 DEF Sends, Asks
<1>15. QED
  BY <1>4, <1>12, <1>14

-----------------------------------------------------------------------------
(***************************************************************************)
(* Steps in which the requests go on.                                      *)
(***************************************************************************)
Going == \E rest \in SUBSET calls, f \in [calls -> Call] : GoesOnAs(rest, f)

SameShown(u) ==
    /\ page'[u].at = page[u].at
    /\ page'[u].shows = page[u].shows
    /\ page'[u].refreshing = page[u].refreshing

LEMMA CallsAreTyped ==
    ASSUME ShownInv
    PROVE  /\ \A c \in calls : c \in Call /\ c.tab \in Tabs
           /\ [c \in calls |-> c] \in [calls -> Call]
           /\ TypeOK /\ server \in Quotation
           /\ server.pending => server.stage = "QUOTED"
           /\ unpriced \in BOOLEAN /\ sent \in 0..MaxRequests
  BY DEF ShownInv, TypeOK, Call

\* The requests stay as they are, and at most one page is reloaded.
LEMMA StayGoing ==
    ASSUME ShownInv, calls' = calls, sent' = sent, Advances(server, server'),
           \A u \in Tabs : PageMoves(u, calls, [c \in calls |-> c])
    PROVE  Going
<1> DEFINE f == [c \in calls |-> c]
<1>1. f \in [calls -> Call] /\ \A c \in calls : f[c] = c
  BY CallsAreTyped
<1> HIDE DEF f
<1>2. Moves(calls, f)
  BY <1>1 DEF Moves, SameRequest, Goes
<1>3. \A u \in Tabs : PageMoves(u, calls, f)
  BY DEF f
<1>4. GoesOnAs(calls, f)
  BY <1>2, <1>3 DEF GoesOnAs
<1>5. QED
  BY <1>1, <1>4 DEF Going

\* One request goes on as another state of it, or nobody waits for it.
LEMMA BecomesGoing ==
    ASSUME ShownInv, NEW c \in calls, NEW d \in Call, Becomes(c, d),
           SameRequest(c, d), d.waiting = c.waiting, Goes(c, d),
           sent' = sent, page' = page, Advances(server, server')
    PROVE  Going
<1> DEFINE rest == IF Underway(d) \/ Heard(d) THEN calls ELSE calls \ {c}
           f == [e \in calls |-> IF e = c THEN d ELSE e]
<1>1. rest \in SUBSET calls /\ calls \ rest \subseteq {c}
  OBVIOUS
<1>2. /\ f \in [calls -> Call] /\ f[c] = d
      /\ \A e \in calls : e # c => f[e] = e
  BY CallsAreTyped
<1>3. calls' = {f[e] : e \in rest}
  BY DEF Becomes
<1> HIDE DEF f, rest
<1>4. \A e \in rest : /\ SameRequest(e, f[e])
                      /\ f[e].waiting = e.waiting
                      /\ Goes(e, f[e])
  <2>1. ASSUME NEW e \in rest, e # c
        PROVE  SameRequest(e, f[e]) /\ f[e].waiting = e.waiting /\ Goes(e, f[e])
    BY <1>1, <1>2, <2>1 DEF SameRequest, Goes
  <2>2. QED
    BY <1>2, <2>1
<1>5. \A a, b \in rest : f[a].state # a.state /\ f[b].state # b.state => a = b
  BY <1>1, <1>2
<1>6. Moves(rest, f)
  BY <1>1, <1>3, <1>4, <1>5 DEF Moves
<1>7. \A t \in Tabs : PageMoves(t, rest, f)
  BY DEF PageMoves
<1>8. GoesOnAs(rest, f)
  BY <1>6, <1>7 DEF GoesOnAs
<1>9. QED
  BY <1>1, <1>2, <1>8 DEF Going

\* A request is answered, or given up: it may arrive, but nobody waits for it.
LEMMA EndsGoing ==
    ASSUME ShownInv, NEW c \in calls,
           calls' = (calls \ {c}) \cup
               (IF Underway(c) THEN {[c EXCEPT !.waiting = "nobody"]} ELSE {}),
           sent' = sent, server' = server,
           \A u \in Tabs :
              \/ SameShown(u)
              \/ /\ page'[u].at = page[u].at
                 /\ page'[u].shows = page[u].shows
                 /\ page[u].at \in Reloaded
              \/ /\ page'[u].at = page[u].at
                 /\ page'[u].refreshing = page[u].refreshing
                 /\ c.tab = u /\ c.waiting = "page"
                 /\ c.op \in Replacing /\ c.state = "read"
                 /\ page'[u].shows = c.answer
    PROVE  Going
<1> DEFINE d == [c EXCEPT !.waiting = "nobody"]
           rest == IF Underway(c) THEN calls ELSE calls \ {c}
           f == [e \in calls |-> IF e = c THEN d ELSE e]
<1>1. rest \in SUBSET calls /\ \A e \in calls \ rest : e = c
  OBVIOUS
<1>2. c.state = "read" => c \in calls \ rest
  BY DEF Underway
<1>3. d \in Call
  BY CallsAreTyped DEF Call
<1>4. SameRequest(c, d) /\ d.waiting = "nobody" /\ d.state = c.state /\ d.answer = c.answer
  BY CallsAreTyped DEF Call, SameRequest
<1>5. calls' = {f[e] : e \in rest}
  OBVIOUS
<1> HIDE DEF d
<1>6. /\ f \in [calls -> Call] /\ f[c] = d
      /\ \A e \in calls : e # c => f[e] = e
  BY <1>3, CallsAreTyped
<1> HIDE DEF f, rest
<1>7. \A e \in rest : /\ SameRequest(e, f[e])
                      /\ f[e].waiting = "page" => e.waiting = "page"
                      /\ f[e].state = e.state /\ f[e].answer = e.answer
  <2>1. ASSUME NEW e \in rest, e # c
        PROVE  f[e] = e
    BY <1>1, <1>6, <2>1
  <2>2. QED
    BY <1>4, <1>6, <2>1 DEF SameRequest
<1>8. Moves(rest, f)
  BY <1>1, <1>5, <1>7 DEF Moves, Goes
<1>9. ASSUME NEW u \in Tabs
      PROVE  PageMoves(u, rest, f)
  <2>1. CASE SameShown(u)
    BY <2>1 DEF SameShown, PageMoves
  <2>2. CASE /\ page'[u].at = page[u].at
             /\ page'[u].shows = page[u].shows
             /\ page[u].at \in Reloaded
    BY <2>2 DEF PageMoves
  <2>3. CASE /\ page'[u].at = page[u].at
             /\ page'[u].refreshing = page[u].refreshing
             /\ c.tab = u /\ c.waiting = "page"
             /\ c.op \in Replacing /\ c.state = "read"
             /\ page'[u].shows = c.answer
    BY <1>2, <2>3 DEF PageMoves
  <2>4. QED
    BY <2>1, <2>2, <2>3
<1>10. Advances(server, server')
  BY DEF Advances
<1>11. GoesOnAs(rest, f)
  BY <1>8, <1>9, <1>10 DEF GoesOnAs
<1>12. QED
  BY <1>1, <1>6, <1>11 DEF Going

\* A page is left for another, which shows what is current by then.
LEMMA LeftFacts ==
    ASSUME NEW c \in Call
    PROVE  /\ Left(c) \in Call /\ SameRequest(c, Left(c)) /\ Left(c).waiting # "page"
           /\ Left(c).state = c.state /\ Left(c).answer = c.answer
  BY DEF Left, Call, SameRequest

LEMMA UnmountedGoing ==
    ASSUME ShownInv, NEW t \in Tabs, NEW base \in SUBSET calls,
           calls' = Unmounted(t, base), sent' = sent, Advances(server, server'),
           page'[t].shows = server', ~page'[t].refreshing,
           \A u \in Tabs \ {t} : page'[u] = page[u]
    PROVE  Going
<1> DEFINE rest == {c \in base : c.tab # t \/ Underway(c) \/ GoesOn(c)}
           f == [c \in calls |-> IF c.tab = t THEN Left(c) ELSE c]
<1>1. rest \in SUBSET calls
  OBVIOUS
<1>2. f \in [calls -> Call]
  BY CallsAreTyped, LeftFacts
<1>3. \A c \in calls : f[c] = IF c.tab = t THEN Left(c) ELSE c
  OBVIOUS
<1>4. calls' = {f[c] : c \in rest}
  BY DEF Unmounted
<1> HIDE DEF f, rest
<1>5. \A c \in rest : /\ SameRequest(c, f[c])
                      /\ f[c].waiting = "page" => c.waiting = "page" /\ c.tab # t
                      /\ f[c].state = c.state /\ f[c].answer = c.answer
  <2>1. ASSUME NEW c \in rest, c.tab = t
        PROVE  f[c] = Left(c)
    BY <1>1, <1>3, <2>1
  <2>2. ASSUME NEW c \in rest, c.tab # t
        PROVE  f[c] = c
    BY <1>1, <1>3, <2>2
  <2>3. QED
    BY <1>1, <2>1, <2>2, CallsAreTyped, LeftFacts DEF SameRequest
<1>6. Moves(rest, f)
  BY <1>1, <1>4, <1>5 DEF Moves, Goes
<1>7. ASSUME NEW u \in Tabs
      PROVE  PageMoves(u, rest, f)
  BY <1>5 DEF PageMoves
<1>8. GoesOnAs(rest, f)
  BY <1>6, <1>7 DEF GoesOnAs
<1>9. QED
  BY <1>1, <1>2, <1>8 DEF Going

LEMMA UnmountedTyped ==
    ASSUME ShownInv, NEW t \in Tabs, NEW base \in SUBSET calls
    PROVE  Unmounted(t, base) \subseteq Call
  BY CallsAreTyped, LeftFacts DEF Unmounted

-----------------------------------------------------------------------------
(***************************************************************************)
(* What the actions do.                                                    *)
(***************************************************************************)
\* The parts of the type invariant that are not about pages.
LEMMA ServerUnchanged ==
    ASSUME ShownInv, UNCHANGED <<server, unpriced, sent>>
    PROVE  /\ server' \in Quotation /\ (server'.pending => server'.stage = "QUOTED")
           /\ unpriced' \in BOOLEAN /\ sent' \in 0..MaxRequests
           /\ Advances(server, server')
  BY CallsAreTyped DEF Advances

LEMMA ServerLoads ==
    ASSUME ShownInv, NEW at, Load(at), sent' = sent
    PROVE  /\ server' \in Quotation /\ (server'.pending => server'.stage = "QUOTED")
           /\ unpriced' \in BOOLEAN /\ sent' \in 0..MaxRequests
           /\ Advances(server, server')
           /\ server' = Loaded(at) /\ server'.stage = server.stage
  BY CallsAreTyped, LoadedFacts DEF Load

LEMMA TypeGoing ==
    ASSUME ShownInv, NEW t \in Tabs, NEW l \in Lines, NEW text \in Texts, Type(t, l, text)
    PROVE  TypeOK' /\ Going
<1> DEFINE w == [page[t].typed EXCEPT ![l] = text]
           p == [page[t] EXCEPT !.typed = w]
<1>1. TypeOK /\ FitPage(t, page[t]) /\ page[t].at = "editor"
  BY PagesFit DEF ShownInv, Type, Editable
<1>2. page' = [page EXCEPT ![t] = p]
  BY DEF Type
<1>3. UNCHANGED <<server, unpriced, calls, sent>>
  BY DEF Type
<1>4. text \in Entries
  BY ConstantsAssumption DEF Entries
<1>5. w \in [Lines -> Entries \cup {None}]
  BY <1>1, <1>4 DEF FitPage, Page
<1>6. p.at = page[t].at /\ p.shows = page[t].shows /\ p.refreshing = page[t].refreshing
  BY <1>1 DEF FitPage, Page
<1> HIDE DEF w
<1>7. FitPage(t, p)
  BY <1>1, <1>5 DEF FitPage, Page
<1> HIDE DEF p
<1>8. TypeOK' /\ page'[t] = p /\ \A u \in Tabs \ {t} : page'[u] = page[u]
  BY <1>1, <1>2, <1>3, <1>7, PageReplaced, ServerUnchanged, CallsAreTyped
<1>9. \A u \in Tabs : PageMoves(u, calls, [c \in calls |-> c])
  BY <1>6, <1>8 DEF PageMoves
<1>10. QED
  BY <1>3, <1>8, <1>9, StayGoing, ServerUnchanged

LEMMA OpenGoing ==
    ASSUME ShownInv, NEW t \in Tabs, NEW at \in Places, Open(t, at)
    PROVE  TypeOK' /\ Going
<1> DEFINE p == Fresh(at, Loaded(at))
<1>1. TypeOK /\ CanOpen(t, at) /\ Load(at) /\ sent' = sent
  BY DEF ShownInv, Open
<1>2. calls' = Unmounted(t, calls) /\ page' = [page EXCEPT ![t] = p]
  BY DEF Open
<1>3. /\ server' \in Quotation /\ (server'.pending => server'.stage = "QUOTED")
      /\ unpriced' \in BOOLEAN /\ sent' \in 0..MaxRequests
      /\ Advances(server, server')
      /\ server' = Loaded(at) /\ server'.stage = server.stage
  BY <1>1, ServerLoads
<1>4. FitPage(t, p) /\ p.shows = server' /\ ~p.refreshing
  <2>1. p = Fresh(at, server')
    BY <1>3
  <2>2. /\ at = "submit" => server'.stage = "DRAFT"
        /\ at \in {"approval", "costMargin"} => t \in Owners
    BY <1>1, <1>3 DEF CanOpen, Found
  <2> HIDE DEF p
  <2>3. QED
    BY <1>3, <2>1, <2>2 DEF FitPage, Fresh, Page
<1>5. calls' \subseteq Call
  BY <1>2, UnmountedTyped
<1> HIDE DEF p
<1>6. TypeOK' /\ page'[t] = p /\ \A u \in Tabs \ {t} : page'[u] = page[u]
  BY <1>1, <1>2, <1>3, <1>4, <1>5, PageReplaced
<1>7. Going
  BY <1>1, <1>2, <1>3, <1>4, <1>6, UnmountedGoing
<1>8. QED
  BY <1>6, <1>7

LEMMA CloseDialogGoing ==
    ASSUME ShownInv, NEW t \in Tabs, NEW op \in SpaceControls, CloseDialog(t, op)
    PROVE  TypeOK' /\ Going
<1> DEFINE b == page[t].busy \ {op}
           p == [page[t] EXCEPT !.busy = b]
           f == [c \in calls |-> IF c.tab = t /\ c.op = op /\ c.waiting = "page"
                                 THEN Left(c) ELSE c]
<1>1. TypeOK /\ FitPage(t, page[t])
  BY PagesFit DEF ShownInv
<1>2. page' = [page EXCEPT ![t] = p]
  BY DEF CloseDialog
<1>3. UNCHANGED <<server, unpriced, sent>>
  BY DEF CloseDialog
<1>4. calls' = {f[c] : c \in calls}
  BY DEF CloseDialog
<1>5. f \in [calls -> Call]
  BY CallsAreTyped, LeftFacts
<1>6. \A c \in calls : f[c] = c \/ f[c] = Left(c)
  OBVIOUS
<1> HIDE DEF f
<1>7. \A c \in calls : /\ SameRequest(c, f[c])
                       /\ f[c].waiting = "page" => c.waiting = "page"
                       /\ f[c].state = c.state /\ f[c].answer = c.answer
  BY <1>6, CallsAreTyped, LeftFacts DEF SameRequest
<1>8. calls' \subseteq Call
  BY <1>4, <1>5
<1>9. Moves(calls, f)
  BY <1>3, <1>4, <1>7 DEF Moves, Goes
<1>10. p.at = page[t].at /\ p.shows = page[t].shows /\ p.refreshing = page[t].refreshing
  BY <1>1 DEF FitPage, Page
<1>11. b \in SUBSET Controls
  BY <1>1 DEF FitPage, Page
<1> HIDE DEF b
<1>12. FitPage(t, p)
  BY <1>1, <1>11, PageAltered
<1> HIDE DEF p
<1>13. TypeOK' /\ page'[t] = p /\ \A u \in Tabs \ {t} : page'[u] = page[u]
  BY <1>1, <1>2, <1>3, <1>8, <1>12, PageReplaced, ServerUnchanged
<1>14. \A u \in Tabs : PageMoves(u, calls, f)
  BY <1>10, <1>13 DEF PageMoves
<1>15. GoesOnAs(calls, f)
  BY <1>3, <1>9, <1>14, ServerUnchanged DEF GoesOnAs
<1>16. QED
  BY <1>5, <1>13, <1>15 DEF Going

LEMMA RefreshGoing ==
    ASSUME ShownInv, NEW t \in Tabs, Refresh(t)
    PROVE  TypeOK' /\ Going
<1> DEFINE q == IF Found(page[t].at) THEN Loaded(page[t].at) ELSE page[t].shows
           p == [page[t] EXCEPT !.shows = q, !.refreshing = FALSE]
<1>1. TypeOK /\ FitPage(t, page[t]) /\ Load(page[t].at) /\ UNCHANGED <<calls, sent>>
  BY PagesFit DEF ShownInv, Refresh
<1>2. page' = [page EXCEPT ![t] = p]
  BY DEF Refresh
<1>3. page[t].at \in Reloaded
  BY DEF ShownInv, InPlace, Refresh
<1>4. /\ server' \in Quotation /\ (server'.pending => server'.stage = "QUOTED")
      /\ unpriced' \in BOOLEAN /\ sent' \in 0..MaxRequests
      /\ Advances(server, server') /\ server' = Loaded(page[t].at)
      /\ server'.stage = server.stage
  BY <1>1, ServerLoads
<1>5. /\ q = server' \/ q = page[t].shows
      /\ page[t].at = "submit" => q.stage = "DRAFT"
      /\ q \in Quotation
  BY <1>1, <1>4 DEF Found, FitPage, Page
<1> HIDE DEF q
<1>6. /\ p.at = page[t].at /\ p.shows = q /\ ~p.refreshing
      /\ FitPage(t, p)
  BY <1>1, <1>5 DEF FitPage, Page
<1> HIDE DEF p
<1>7. TypeOK' /\ page'[t] = p /\ \A u \in Tabs \ {t} : page'[u] = page[u]
  BY <1>1, <1>2, <1>4, <1>6, PageReplaced, CallsAreTyped
<1>8. \A u \in Tabs : PageMoves(u, calls, [c \in calls |-> c])
  BY <1>3, <1>5, <1>6, <1>7 DEF PageMoves
<1>9. QED
  BY <1>1, <1>4, <1>7, <1>8, StayGoing

-----------------------------------------------------------------------------
LEMMA BecomesTyped ==
    ASSUME ShownInv, NEW c \in calls, NEW d \in Call, Becomes(c, d)
    PROVE  calls' \subseteq Call
  BY CallsAreTyped DEF Becomes

\* A check changes nothing but the request.
LEMMA CheckGoing ==
    ASSUME ShownInv, NEW c \in calls, Check(c)
    PROVE  TypeOK' /\ Going
<1> DEFINE k == Kept(c)
           d == IF Admits(c) THEN [c EXCEPT !.state = "checked", !.answer = k]
                ELSE [c EXCEPT !.state = "refused"]
<1>1. /\ Becomes(c, d) /\ UNCHANGED <<server, unpriced, page, sent>>
      /\ TypeOK /\ c \in Call /\ server \in Quotation
  BY CallsAreTyped DEF Check
<1>2. k \in Quotation /\ (c.op = "export" => k = server)
  BY <1>1 DEF Kept, Call
<1> HIDE DEF k
<1>3. d \in Call /\ SameRequest(c, d) /\ d.waiting = c.waiting
  BY <1>1, <1>2 DEF Call, SameRequest
<1>4. d.state = "refused" \/ (d.state = "checked" /\ Admits(c) /\ d.answer = k)
  BY <1>1 DEF Call
<1> HIDE DEF d
<1>5. Goes(c, d)
  BY <1>2, <1>4 DEF Goes
<1>6. Going
  BY <1>1, <1>3, <1>5, BecomesGoing, ServerUnchanged
<1>7. calls' \subseteq Call
  BY <1>1, <1>3, BecomesTyped
<1>8. QED
  BY <1>1, <1>6, <1>7, PageUnchanged, ServerUnchanged

\* What was carried out changes the server as the request says, or not at all.
LEMMA DoneGoing ==
    ASSUME ShownInv, NEW c \in calls, Done(c), page' = page, sent' = sent,
           \/ server' = server /\ c.op \notin Replacing
           \/ /\ Accepts(c) /\ server' = Applied(c)
              /\ c.op \in Replacing => c.state = "sent"
    PROVE  TypeOK' /\ Going
<1>1. TypeOK /\ c \in Call /\ Shape(c)
  BY CallsAreTyped DEF ShownInv, Shaped
<1> DEFINE st == IF c.op = "save" THEN "applied" ELSE "read"
           an == IF c.op = "decide" THEN server' ELSE c.from
           d == [c EXCEPT !.state = st, !.answer = an]
<1>2. unpriced' = (unpriced \/ c.op = "addSpace") /\ Becomes(c, d)
  BY DEF Done
<1>3. /\ server' \in Quotation /\ (server'.pending => server'.stage = "QUOTED")
      /\ Advances(server, server')
  <2>1. CASE server' = server
    BY <2>1, CallsAreTyped DEF Advances
  <2>2. CASE Accepts(c) /\ server' = Applied(c)
    BY <1>1, <2>2, AppliedFacts
  <2>3. QED
    BY <2>1, <2>2
<1>4. unpriced' \in BOOLEAN
  BY <1>2, CallsAreTyped
<1>5. /\ st \in {"applied", "read"} /\ (c.op = "save" => st = "applied")
      /\ c.op = "decide" => an = server'
  OBVIOUS
<1>6. an \in Quotation
  BY <1>1, <1>3 DEF Call
<1> HIDE DEF st, an
<1>7. /\ d \in Call /\ SameRequest(c, d) /\ d.waiting = c.waiting
      /\ d.state = st /\ d.answer = an
  BY <1>1, <1>5, <1>6 DEF Call, SameRequest
<1> HIDE DEF d
<1>8. Goes(c, d)
  BY <1>5, <1>7 DEF Goes
<1>9. Going
  BY <1>2, <1>3, <1>7, <1>8, BecomesGoing
<1>10. calls' \subseteq Call
  BY <1>2, <1>7, BecomesTyped
<1>11. TypeOK'
  BY <1>1, <1>3, <1>4, <1>10, PageUnchanged, CallsAreTyped
<1>12. QED
  BY <1>9, <1>11

LEMMA ServeGoing ==
    ASSUME ShownInv, NEW c \in calls, Serve(c)
    PROVE  TypeOK' /\ Going
<1>1. page' = page /\ sent' = sent /\ TypeOK /\ c \in Call
  BY CallsAreTyped DEF Serve, ShownInv
<1>2. c.op \in Replacing => c.state = "sent"
  BY DEF Serve, CheckedFirst, SpaceControls, Replacing
<1>3. CASE Accepts(c) /\ server' = Applied(c) /\ Done(c)
  BY <1>1, <1>2, <1>3, DoneGoing
<1>4. CASE PassesBy(c) /\ server' = server /\ Done(c)
  <2>1. c.op \notin Replacing
    BY <1>4 DEF PassesBy, Replacing
  <2>2. QED
    BY <1>1, <1>4, <2>1, DoneGoing
<1>5. CASE Becomes(c, [c EXCEPT !.state = "refused"]) /\ UNCHANGED <<server, unpriced>>
  <2> DEFINE d == [c EXCEPT !.state = "refused"]
  <2>1. Becomes(c, d)
    BY <1>5
  <2>2. d \in Call /\ SameRequest(c, d) /\ d.waiting = c.waiting /\ d.state = "refused"
    BY <1>1 DEF Call, SameRequest
  <2> HIDE DEF d
  <2>3. Goes(c, d)
    BY <2>2 DEF Goes
  <2>4. Going
    BY <1>1, <1>5, <2>1, <2>2, <2>3, BecomesGoing, ServerUnchanged
  <2>5. calls' \subseteq Call
    BY <2>1, <2>2, BecomesTyped
  <2>6. TypeOK'
    BY <1>1, <1>5, <2>5, PageUnchanged, ServerUnchanged
  <2>7. QED
    BY <2>4, <2>6
<1>6. QED
  BY <1>3, <1>4, <1>5 DEF Serve

LEMMA RereadGoing ==
    ASSUME ShownInv, NEW c \in calls, Reread(c)
    PROVE  TypeOK' /\ Going
<1> DEFINE d == IF server.stage = "DRAFT"
                THEN [c EXCEPT !.state = "read", !.answer = server]
                ELSE [c EXCEPT !.state = "refused"]
<1>1. /\ c.state = "applied" /\ Becomes(c, d)
      /\ UNCHANGED <<server, unpriced, page, sent>> /\ TypeOK /\ c \in Call
      /\ server \in Quotation
  BY CallsAreTyped DEF Reread
<1>2. d \in Call /\ SameRequest(c, d) /\ d.waiting = c.waiting
  BY <1>1 DEF Call, SameRequest
<1>3. d.state = "refused" \/ (d.state = "read" /\ d.answer = server)
  BY <1>1 DEF Call
<1> HIDE DEF d
<1>4. Goes(c, d)
  BY <1>1, <1>3 DEF Goes
<1>5. Going
  BY <1>1, <1>2, <1>4, BecomesGoing, ServerUnchanged
<1>6. calls' \subseteq Call
  BY <1>1, <1>2, BecomesTyped
<1>7. QED
  BY <1>1, <1>5, <1>6, PageUnchanged, ServerUnchanged

LEMMA ExportNextGoing ==
    ASSUME ShownInv, NEW c \in calls, ExportNext(c)
    PROVE  TypeOK' /\ Going
<1> DEFINE k == c.left - 1
           d == [c EXCEPT !.left = k, !.state = "sent"]
<1>1. /\ c.state = "read" /\ c.left > 1 /\ Becomes(c, d)
      /\ UNCHANGED <<server, unpriced, page, sent>> /\ TypeOK /\ c \in Call
  BY CallsAreTyped DEF ExportNext
<1>2. k \in 0..2
  BY <1>1 DEF Call
<1> HIDE DEF k
<1>3. d \in Call /\ SameRequest(c, d) /\ d.waiting = c.waiting /\ d.state = "sent"
  BY <1>1, <1>2 DEF Call, SameRequest
<1> HIDE DEF d
<1>4. Goes(c, d)
  BY <1>3 DEF Goes
<1>5. Going
  BY <1>1, <1>3, <1>4, BecomesGoing, ServerUnchanged
<1>6. calls' \subseteq Call
  BY <1>1, <1>3, BecomesTyped
<1>7. QED
  BY <1>1, <1>5, <1>6, PageUnchanged, ServerUnchanged

-----------------------------------------------------------------------------
\* What an answer does to the page it is for.
LEMMA ShownFacts ==
    ASSUME ShownInv, NEW c \in calls, c.waiting = "page",
           c.op \notin {"submit", "continue"}
    PROVE  LET old == page[c.tab]
               new == Shown(old, c)
           IN  /\ FitPage(c.tab, new)
               /\ new.at = old.at
               /\ \/ new.shows = old.shows /\ new.refreshing = old.refreshing
                  \/ new.shows = old.shows /\ old.at \in Reloaded
                  \/ /\ new.refreshing = old.refreshing
                     /\ c.op \in Replacing /\ new.shows = c.answer
<1> DEFINE old == page[c.tab]
           new == Shown(old, c)
<1>1. /\ TypeOK /\ c \in Call /\ c.tab \in Tabs /\ FitPage(c.tab, old)
  BY CallsAreTyped, PagesFit
<1>2. Fits(c.op, old.at)
  BY DEF ShownInv, InPlace
<1>3. c.answer \in Quotation /\ c.op \in Controls \cup {"save"}
  BY <1>1 DEF Call
<1> HIDE DEF old
<1> DEFINE b == old.busy \ {c.op}
<1>4. b \in SUBSET Controls
  BY <1>1 DEF FitPage, Page
<1>5. CASE c.op = "save"
  <2> DEFINE w == [old.typed EXCEPT ![c.line] = None]
  <2>1. new = [old EXCEPT !.shows = c.answer, !.typed = w, !.saving = None]
    BY <1>5 DEF Shown, EditorSaved, SpaceControls
  <2>2. w \in [Lines -> Entries \cup {None}] /\ old.at = "editor"
    BY <1>1, <1>2, <1>5 DEF FitPage, Page, Fits
  <2> HIDE DEF w, new
  <2>3. /\ new.at = old.at /\ new.shows = c.answer /\ new.refreshing = old.refreshing
        /\ FitPage(c.tab, new)
    BY <1>1, <1>3, <2>1, <2>2 DEF FitPage, Page
  <2>4. QED
    BY <1>5, <2>3 DEF Replacing, new, old
<1>6. CASE c.op = "decide"
  <2>1. new = [old EXCEPT !.busy = b, !.shows = c.answer]
    BY <1>6 DEF Shown, Enabled, SpaceControls
  <2>2. old.at = "approval"
    BY <1>2, <1>6 DEF Fits
  <2> HIDE DEF b, new
  <2>3. /\ new.at = old.at /\ new.shows = c.answer /\ new.refreshing = old.refreshing
        /\ FitPage(c.tab, new)
    BY <1>1, <1>3, <1>4, <2>1, <2>2 DEF FitPage, Page
  <2>4. QED
    BY <1>6, <2>3 DEF Replacing, new, old
<1>7. CASE c.op \in Reloading
  <2>1. new = [old EXCEPT !.busy = b, !.refreshing = TRUE]
    BY <1>7 DEF Shown, Enabled, Reloading, SpaceControls
  <2>2. old.at \in Reloaded
    BY <1>2, <1>7 DEF Fits
  <2> HIDE DEF b, new
  <2>3. new.at = old.at /\ new.shows = old.shows
    BY <1>1, <2>1 DEF FitPage, Page
  <2>4. FitPage(c.tab, new)
    BY <1>1, <1>4, <2>1, PageAltered
  <2>5. QED
    BY <2>2, <2>3, <2>4 DEF new, old
<1>8. CASE c.op \in {"export", "compare"}
  <2>1. new = [old EXCEPT !.busy = b]
    BY <1>8 DEF Shown, Enabled, SpaceControls
  <2> HIDE DEF b, new
  <2>2. new.at = old.at /\ new.shows = old.shows /\ new.refreshing = old.refreshing
    BY <1>1, <2>1 DEF FitPage, Page
  <2>3. FitPage(c.tab, new)
    BY <1>1, <1>4, <2>1, PageAltered
  <2>4. QED
    BY <2>2, <2>3 DEF new, old
<1>9. QED
  BY <1>3, <1>5, <1>6, <1>7, <1>8 DEF Controls, Reloading, SpaceControls

\* An answer after its page was left may reload what the tab shows.
LEMMA ElsewhereFacts ==
    ASSUME ShownInv, NEW c \in calls
    PROVE  LET old == page[c.tab]
               new == Elsewhere(old, c)
           IN  /\ FitPage(c.tab, new)
               /\ new.at = old.at /\ new.shows = old.shows
               /\ new.refreshing = old.refreshing \/ old.at \in Reloaded
<1> DEFINE old == page[c.tab]
           new == Elsewhere(old, c)
           b == old.refreshing \/ (Refreshes(c) /\ old.at \in Reloaded)
<1>1. c.tab \in Tabs /\ FitPage(c.tab, old)
  BY CallsAreTyped, PagesFit
<1> HIDE DEF old
<1>2. b \in BOOLEAN /\ old.refreshing \in BOOLEAN
  BY <1>1, Zenon DEF FitPage, Page
<1>3. new = [old EXCEPT !.refreshing = b]
  BY DEF Elsewhere
<1>4. b = old.refreshing \/ old.at \in Reloaded
  BY <1>2
<1> HIDE DEF b, new
<1>5. new.at = old.at /\ new.shows = old.shows /\ new.refreshing = b
  BY <1>1, <1>3 DEF FitPage, Page
<1>6. FitPage(c.tab, new)
  BY <1>1, <1>2, <1>3 DEF FitPage, Page
<1>7. QED
  BY <1>4, <1>5, <1>6 DEF new, old

\* A refusal or a broken connection gives the controls back and shows nothing.
LEMMA FailedFacts ==
    ASSUME ShownInv, NEW c \in calls
    PROVE  LET old == page[c.tab]
               new == Failed(old, c)
           IN  /\ FitPage(c.tab, new)
               /\ new.at = old.at /\ new.shows = old.shows
               /\ new.refreshing = old.refreshing
<1> DEFINE old == page[c.tab]
           new == Failed(old, c)
           b == old.busy \ {c.op}
<1>1. c \in Call /\ c.tab \in Tabs /\ FitPage(c.tab, old)
  BY CallsAreTyped, PagesFit
<1> HIDE DEF old
<1>2. b \in SUBSET Controls
  BY <1>1 DEF FitPage, Page
<1>3. new = [old EXCEPT !.saving = None] \/ new = [old EXCEPT !.busy = b]
  BY DEF Failed, EditorFailed, Enabled
<1> HIDE DEF b, new
<1>4. new.at = old.at /\ new.shows = old.shows /\ new.refreshing = old.refreshing
  BY <1>1, <1>3 DEF FitPage, Page
<1>5. FitPage(c.tab, new)
  <2>1. CASE new = [old EXCEPT !.saving = None]
    BY <1>1, <2>1, PageAltered
  <2>2. CASE new = [old EXCEPT !.busy = b]
    BY <1>1, <1>2, <2>2, PageAltered
  <2>3. QED
    BY <1>3, <2>1, <2>2
<1>6. QED
  BY <1>4, <1>5 DEF new, old

\* A call that fails ends, and its page is as before.
LEMMA FailGoing ==
    ASSUME ShownInv, NEW c \in calls, Fail(c),
           calls' = (calls \ {c}) \cup
               (IF Underway(c) THEN {[c EXCEPT !.waiting = "nobody"]} ELSE {})
    PROVE  TypeOK' /\ Going
<1> DEFINE p == Failed(page[c.tab], c)
<1>1. TypeOK /\ c \in Call /\ c.tab \in Tabs
  BY CallsAreTyped
<1>2. UNCHANGED <<server, unpriced, sent>>
  BY DEF Fail
<1>3. calls' \subseteq Call
  <2>1. [c EXCEPT !.waiting = "nobody"] \in Call
    BY <1>1 DEF Call
  <2>2. QED
    BY <2>1, CallsAreTyped
<1>4. TypeOK' /\ \A u \in Tabs : SameShown(u)
  <2>1. CASE c.waiting = "page"
    <3>1. page' = [page EXCEPT ![c.tab] = p]
      BY <2>1 DEF Fail
    <3>2. /\ FitPage(c.tab, p)
          /\ p.at = page[c.tab].at /\ p.shows = page[c.tab].shows
          /\ p.refreshing = page[c.tab].refreshing
      BY FailedFacts
    <3> HIDE DEF p
    <3>3. TypeOK' /\ page'[c.tab] = p /\ \A u \in Tabs \ {c.tab} : page'[u] = page[u]
      BY <1>1, <1>2, <1>3, <3>1, <3>2, PageReplaced, ServerUnchanged
    <3>4. QED
      BY <3>2, <3>3 DEF SameShown
  <2>2. CASE c.waiting # "page"
    <3>1. page' = page
      BY <2>2 DEF Fail
    <3>2. QED
      BY <1>1, <1>2, <1>3, <3>1, PageUnchanged, ServerUnchanged DEF SameShown
  <2>3. QED
    BY <2>1, <2>2
<1>5. Going
  BY <1>2, <1>4, EndsGoing
<1>6. QED
  BY <1>4, <1>5

LEMMA RefusedGoing ==
    ASSUME ShownInv, NEW c \in calls, Refused(c)
    PROVE  TypeOK' /\ Going
<1>1. /\ Fail(c)
      /\ calls' = (calls \ {c}) \cup
            (IF Underway(c) THEN {[c EXCEPT !.waiting = "nobody"]} ELSE {})
  BY DEF Refused, Underway
<1>2. QED
  BY <1>1, FailGoing

LEMMA LostGoing ==
    ASSUME ShownInv, NEW c \in calls, Lost(c)
    PROVE  TypeOK' /\ Going
  BY FailGoing DEF Lost

LEMMA SucceedGoing ==
    ASSUME ShownInv, NEW c \in calls, Succeed(c)
    PROVE  TypeOK' /\ Going
<1>1. /\ TypeOK /\ c \in Call /\ c.tab \in Tabs
      /\ c.state = "read" /\ sent' = sent
  BY CallsAreTyped DEF Succeed
<1>2. CASE c.op \in {"submit", "continue"}
  <2> DEFINE at == Pushed(c)
             p == Fresh(at, Loaded(at))
             base == calls \ {c}
  <2>1. /\ Load(at) /\ page' = [page EXCEPT ![c.tab] = p]
        /\ calls' = Unmounted(c.tab, base)
    BY <1>2 DEF Succeed
  <2>2. at \in {"project", "editor"}
    BY DEF Pushed
  <2>3. base \in SUBSET calls
    OBVIOUS
  <2> HIDE DEF at, base
  <2>4. /\ server' \in Quotation /\ (server'.pending => server'.stage = "QUOTED")
        /\ unpriced' \in BOOLEAN /\ sent' \in 0..MaxRequests
        /\ Advances(server, server') /\ server' = Loaded(at)
    BY <1>1, <2>1, ServerLoads
  <2>5. p = Fresh(at, server')
    BY <2>4
  <2> HIDE DEF p
  <2>6. FitPage(c.tab, p) /\ p.shows = server' /\ ~p.refreshing
    <3>1. at \in Places
      BY <2>2 DEF Places
    <3>2. QED
      BY <2>2, <2>4, <2>5, <3>1, FreshFits
  <2>7. calls' \subseteq Call
    BY <1>1, <2>1, <2>3, UnmountedTyped
  <2>8. TypeOK' /\ page'[c.tab] = p /\ \A u \in Tabs \ {c.tab} : page'[u] = page[u]
    BY <1>1, <2>1, <2>4, <2>6, <2>7, PageReplaced
  <2>9. Going
    BY <1>1, <2>1, <2>3, <2>4, <2>6, <2>8, UnmountedGoing
  <2>10. QED
    BY <2>8, <2>9
<1>3. CASE c.op \notin {"submit", "continue"}
  <2> DEFINE p == IF c.waiting = "page" THEN Shown(page[c.tab], c)
                                        ELSE Elsewhere(page[c.tab], c)
  <2>1. page' = [page EXCEPT ![c.tab] = p] /\ UNCHANGED <<server, unpriced, sent>>
    BY <1>1, <1>3 DEF Succeed
  <2>2. calls' = (calls \ {c}) \cup
            (IF Underway(c) THEN {[c EXCEPT !.waiting = "nobody"]} ELSE {})
    BY <1>1, <1>3 DEF Succeed, Underway
  <2>3. calls' \subseteq Call
    BY <1>1, <2>2, CallsAreTyped DEF Underway
  <2>4. /\ FitPage(c.tab, p)
        /\ p.at = page[c.tab].at
        /\ \/ p.shows = page[c.tab].shows /\ p.refreshing = page[c.tab].refreshing
           \/ p.shows = page[c.tab].shows /\ page[c.tab].at \in Reloaded
           \/ /\ c.waiting = "page"
              /\ p.refreshing = page[c.tab].refreshing
              /\ c.op \in Replacing /\ p.shows = c.answer
    <3>1. CASE c.waiting = "page"
      BY <1>3, <3>1, ShownFacts
    <3>2. CASE c.waiting # "page"
      <4>1. p = Elsewhere(page[c.tab], c)
        BY <3>2
      <4> HIDE DEF p
      <4>2. QED
        BY <1>1, <4>1, ElsewhereFacts
    <3>3. QED
      BY <3>1, <3>2
  <2> HIDE DEF p
  <2>5. TypeOK' /\ page'[c.tab] = p /\ \A u \in Tabs \ {c.tab} : page'[u] = page[u]
    BY <1>1, <2>1, <2>3, <2>4, PageReplaced, ServerUnchanged
  <2>6. Going
    BY <1>1, <2>1, <2>2, <2>4, <2>5, EndsGoing DEF SameShown
  <2>7. QED
    BY <2>5, <2>6
<1>4. QED
  BY <1>2, <1>3

-----------------------------------------------------------------------------
(***************************************************************************)
(* Every step.                                                             *)
(***************************************************************************)
Sending == \E t \in Tabs, d \in Call : Sends(t, d)

LEMMA SpaceSends ==
    ASSUME ShownInv, NEW t \in Tabs,
           AddSpace(t) \/ UpdateSpace(t) \/ DeleteSpace(t) \/ SaveBenchmark(t)
    PROVE  TypeOK' /\ Sending
<1>1. PICK op \in {"benchmark"} \cup SpaceControls : Press(t, Request(t, op))
  BY DEF AddSpace, UpdateSpace, DeleteSpace, SaveBenchmark, SpaceControls
<1>2. page[t].at \in Reloaded
  BY DEF AddSpace, UpdateSpace, DeleteSpace, SaveBenchmark, CanAdjustSpaces, Reloaded
<1>3. QED
  BY <1>1, <1>2, ReloadingPress DEF Sending

LEMMA LineSends ==
    ASSUME ShownInv, NEW t \in Tabs, NEW l \in Lines, Blur(t, l) \/ Toggle(t, l)
    PROVE  TypeOK' /\ Sending
<1>1. FitPage(t, page[t])
  BY PagesFit DEF ShownInv
<1>2. CASE Blur(t, l)
  <2>1. page[t].typed[l] \in Entries
    BY <1>1, <1>2 DEF Blur, FitPage, Page
  <2>2. QED
    BY <1>2, <2>1, SaveSends DEF Blur, Sending
<1>3. CASE Toggle(t, l)
  <2> DEFINE e == IF page[t].shows.entry[l] = "off" THEN "chosen" ELSE "off"
  <2>1. e \in Entries /\ Editable(page[t]) /\ SaveLine(t, l, e)
    BY <1>3 DEF Toggle, Entries
  <2> HIDE DEF e
  <2>2. QED
    BY <2>1, SaveSends DEF Sending
<1>4. QED
  BY <1>2, <1>3

LEMMA UserStep ==
    ASSUME ShownInv, User
    PROVE  TypeOK' /\ (Sending \/ Going)
<1>1. PICK t \in Tabs :
        \/ \E at \in Places : Open(t, at)
        \/ \E l \in Lines : \E text \in Texts : Type(t, l, text)
        \/ \E l \in Lines : Blur(t, l) \/ Toggle(t, l)
        \/ SubmitQuotation(t) \/ Compare(t)
        \/ ContinueEditing(t)
        \/ \E rate \in Rates : SubmitAdjustment(t, rate)
        \/ \E files \in 1..2 : ExportFiles(t, files)
        \/ \E decision \in {"APPROVED", "RETURNED"} : DecideQuotation(t, decision)
        \/ AddSpace(t) \/ UpdateSpace(t) \/ DeleteSpace(t) \/ SaveBenchmark(t)
        \/ \E op \in SpaceControls : CloseDialog(t, op)
  BY ConstantsAssumption DEF User
<1>2. CASE \E at \in Places : Open(t, at)
  BY <1>2, OpenGoing
<1>3. CASE \E l \in Lines : \E text \in Texts : Type(t, l, text)
  BY <1>3, TypeGoing
<1>4. CASE \E l \in Lines : Blur(t, l) \/ Toggle(t, l)
  BY <1>4, LineSends
<1>5. CASE SubmitQuotation(t) \/ Compare(t)
  <2>1. \E op \in {"submit", "compare"} : Press(t, Request(t, op))
    BY <1>5 DEF SubmitQuotation, Compare
  <2>2. QED
    BY <2>1, PlainPress DEF Sending
<1>6. CASE ContinueEditing(t)
  BY <1>6, ContinueSends DEF Sending
<1>7. CASE \E rate \in Rates : SubmitAdjustment(t, rate)
  BY <1>7, AdjustmentSends DEF Sending
<1>8. CASE \E files \in 1..2 : ExportFiles(t, files)
  BY <1>8, ExportSends DEF Sending
<1>9. CASE \E decision \in {"APPROVED", "RETURNED"} : DecideQuotation(t, decision)
  BY <1>9, DecisionSends DEF Sending
<1>10. CASE AddSpace(t) \/ UpdateSpace(t) \/ DeleteSpace(t) \/ SaveBenchmark(t)
  BY <1>10, SpaceSends
<1>11. CASE \E op \in SpaceControls : CloseDialog(t, op)
  BY <1>11, CloseDialogGoing
<1>12. QED
  BY <1>1, <1>2, <1>3, <1>4, <1>5, <1>6, <1>7, <1>8, <1>9, <1>10, <1>11

LEMMA EveryStep ==
    ASSUME ShownInv, [Next]_vars
    PROVE  TypeOK' /\ (Sending \/ Going)
<1>1. CASE User
  BY <1>1, UserStep
<1>2. CASE Network
  <2>1. PICK c \in calls :
          \/ Check(c) \/ Serve(c) \/ Reread(c) \/ Succeed(c) \/ ExportNext(c) \/ Refused(c) \/ Lost(c)
    BY <1>2 DEF Network, Answered
  <2>2. QED
    BY <2>1, CheckGoing, ServeGoing, RereadGoing, SucceedGoing, ExportNextGoing, RefusedGoing, LostGoing
<1>3. CASE \E t \in Tabs : Refresh(t)
  BY <1>3, RefreshGoing
<1>4. CASE UNCHANGED vars
  <2>1. page' = page /\ calls' = calls /\ UNCHANGED <<server, unpriced, sent>>
    BY <1>4 DEF vars
  <2>2. TypeOK'
    BY <2>1, PageUnchanged, ServerUnchanged, CallsAreTyped
  <2>3. \A u \in Tabs : PageMoves(u, calls, [c \in calls |-> c])
    BY <2>1 DEF PageMoves
  <2>4. QED
    BY <2>1, <2>2, <2>3, StayGoing, ServerUnchanged
<1>5. QED
  BY <1>1, <1>2, <1>3, <1>4 DEF Next

LEMMA ShownHolds == Spec => []ShownInv
<1>1. Init => ShownInv
  <2> SUFFICES ASSUME Init PROVE ShownInv
    OBVIOUS
  <2>1. PICK stage \in Stages, pending \in BOOLEAN, rate \in Rates :
          /\ pending => stage = "QUOTED"
          /\ server = [version |-> 1, stage |-> stage, pending |-> pending, revision |-> 0,
                       entry |-> [l \in Lines |-> "off"], rate |-> rate]
    BY DEF Init
  <2>2. /\ server \in Quotation /\ (server.pending => server.stage = "QUOTED")
        /\ unpriced = FALSE /\ calls = {} /\ sent = 0
        /\ page = [t \in Tabs |-> Fresh("project", server)]
    BY <2>1 DEF Init, Quotation, Entries
  <2>3. ASSUME NEW t \in Tabs
        PROVE  /\ FitPage(t, page[t]) /\ page[t].shows = server
               /\ ~page[t].refreshing
    <3>1. /\ page[t] = Fresh("project", server)
          /\ "project" \in Places
      BY <2>2 DEF Places
    <3>2. QED
      BY <2>2, <3>1 DEF FitPage, Fresh, Page
  <2>4. TypeOK
    <3>1. page \in [Tabs -> Page]
      BY <2>2, <2>3 DEF FitPage
    <3>2. sent \in 0..MaxRequests /\ calls \subseteq Call
      BY <2>2, ConstantsAssumption
    <3>3. unpriced \in BOOLEAN
      BY <2>2
    <3>4. QED
      BY <2>2, <2>3, <3>1, <3>2, <3>3 DEF TypeOK, FitPage
  <2>5. Shaped /\ Numbered /\ InPlace /\ Ahead /\ Alone
    BY <2>2, <2>3 DEF Shaped, Numbered, InPlace, Ahead, Alone
  <2>6. Past
    BY <2>2, <2>3 DEF Past, Came, SameOffer, Quotation
  <2>7. QED
    BY <2>4, <2>5, <2>6 DEF ShownInv
<1>2. ShownInv /\ [Next]_vars => ShownInv'
  <2> SUFFICES ASSUME ShownInv, [Next]_vars PROVE ShownInv'
    OBVIOUS
  <2>1. TypeOK' /\ (Sending \/ Going)
    BY EveryStep
  <2>2. CASE Sending
    BY <2>1, <2>2, SendsPreserves DEF Sending
  <2>3. CASE Going
    BY <2>1, <2>3, MovesPreserves DEF Going
  <2>4. QED
    BY <2>1, <2>2, <2>3
<1>3. QED
  BY <1>1, <1>2, PTL DEF Spec

-----------------------------------------------------------------------------
(***************************************************************************)
(* The theorems.                                                           *)
(***************************************************************************)
\* Every page shows a quotation of a stage that its loader lets through, and
\* every request carries what its control may send.
THEOREM TypeCorrect == Spec => []TypeOK
<1>1. ShownInv => TypeOK
  BY DEF ShownInv
<1>2. QED
  BY <1>1, ShownHolds, PTL

\* What is carried out is what the page showed.  A version, a revision or the
\* stage is all that the writes ask for, and it is enough: a version that is
\* continued, adjusted, decided or exported is frozen but for its discount,
\* which the check of an export still sees and the lock of a new draft does
\* not.
THEOREM AppliedFromShown == Spec => AppliedAsShown
<1>1. ASSUME ShownInv, NEW c \in calls, c.op \in Offering, Serve(c), Accepts(c)
      PROVE  /\ c.op \in {"save", "adjust", "decide"} => SameOffer(c.from, server)
             /\ c.op = "continue" =>
                   SameOffer(IF server.pending
                             THEN [c.from EXCEPT !.pending = TRUE, !.rate = server.rate]
                             ELSE c.from, server)
             /\ c.op = "export" => SameOffer(c.from, c.answer)
  <2>1. TypeOK /\ Shape(c) /\ Came(c.from, server)
    BY <1>1 DEF ShownInv, Shaped, Past
  <2>2. c.op = "export" => c.state = "checked"
    BY <1>1 DEF Serve, CheckedFirst
  <2>3. c.op = "export" => SameOffer(c.from, c.answer)
    BY <1>1, <2>2 DEF ShownInv, Past
  <2>4. QED
    BY <1>1, <2>1, <2>3, AcceptedIsCurrent, ContinuedIsCurrent
<1>2. ShownInv /\ [Next]_vars =>
        \A c \in calls :
          c.op \in Offering /\ Serve(c) /\ Accepts(c) =>
              /\ c.op \in {"save", "adjust", "decide"} => SameOffer(c.from, server)
              /\ c.op = "continue" =>
                    SameOffer(IF server.pending
                              THEN [c.from EXCEPT !.pending = TRUE, !.rate = server.rate]
                              ELSE c.from, server)
              /\ c.op = "export" => SameOffer(c.from, c.answer)
  BY <1>1
<1>3. QED
  BY <1>2, ShownHolds, PTL DEF Spec, AppliedAsShown

\* What a page shows next is not older.
LEMMA PageForward ==
    ASSUME ShownInv, TypeOK', NEW rest \in SUBSET calls, NEW f \in [calls -> Call],
           GoesOnAs(rest, f), NEW t \in Tabs
    PROVE  NoNewer(page[t].shows, page'[t].shows)
<1>1. PageMoves(t, rest, f) /\ Advances(server, server')
  BY DEF GoesOnAs
<1>2. /\ server \in Quotation /\ server' \in Quotation
      /\ page[t].shows \in Quotation
      /\ \A c \in calls : c.answer \in Quotation
  BY DEF ShownInv, TypeOK, Page, Call
<1>3. NoNewer(page[t].shows, server) /\ NoNewer(server, server')
  BY <1>1, <1>2, OrderFacts, AdvanceOrder DEF ShownInv, Past
<1>4. NoNewer(page[t].shows, server') /\ NoNewer(page[t].shows, page[t].shows)
  BY <1>2, <1>3, OrderFacts
<1>5. \A c \in calls :
        c.tab = t /\ c.waiting = "page" /\ c.op \in Replacing /\ c.state = "read"
            => NoNewer(page[t].shows, c.answer)
  BY DEF ShownInv, Ahead, Bringing
<1>6. QED
  BY <1>1, <1>4, <1>5 DEF PageMoves

\* Whatever the order in which answers, refusals and reloads come, no page
\* goes back to an older version or revision.
THEOREM PagesGoForward == Spec => ShownForward
<1>1. ASSUME ShownInv, [Next]_vars, NEW t \in Tabs
      PROVE  NoNewer(page[t].shows, page'[t].shows)
  <2>1. TypeOK' /\ (Sending \/ Going)
    BY <1>1, EveryStep
  <2>2. CASE Sending
    <3>1. page'[t].shows = page[t].shows /\ page[t].shows \in Quotation
      BY <1>1, <2>2 DEF Sending, Sends, ShownInv, TypeOK, Page
    <3>2. QED
      BY <3>1, OrderFacts
  <2>3. CASE Going
    BY <1>1, <2>1, <2>3, PageForward DEF Going
  <2>4. QED
    BY <2>1, <2>2, <2>3
<1>2. ASSUME ShownInv, [Next]_vars, NEW t \in Tabs
      PROVE  LET old == page[t].shows
                 new == page'[t].shows
             IN  \/ new.version > old.version
                 \/ new.version = old.version /\ new.revision >= old.revision
  <2>1. NoNewer(page[t].shows, page'[t].shows)
    BY <1>1, <1>2
  <2>2. page[t].shows \in Quotation /\ page'[t].shows \in Quotation
    BY <1>2, EveryStep DEF ShownInv, TypeOK, Page
  <2>3. QED
    BY <2>1, <2>2 DEF NoNewer, Quotation
<1>3. ShownInv /\ [Next]_vars =>
        \A t \in Tabs :
          LET old == page[t].shows
              new == page'[t].shows
          IN  \/ new.version > old.version
              \/ new.version = old.version /\ new.revision >= old.revision
  BY <1>2
<1>4. QED
  BY <1>3, ShownHolds, PTL DEF Spec, ShownForward
=============================================================================

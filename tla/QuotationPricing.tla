---------------------------- MODULE QuotationPricing ----------------------------
(***************************************************************************)
(* What a half-package quotation costs: HalfPackageCalculator, the service *)
(* that feeds it and saves what it computes, and the SQL statements of     *)
(* updateSpace and deleteSpace that compute the same amounts again.        *)
(*                                                                         *)
(* Requests follow one another; QuotationLifecycle and SpaceEditing model  *)
(* how they interleave.  Decimals are integers, scaled by Scale.  Margin   *)
(* rates are quotients of the stored amounts, null where the divisor is 0, *)
(* and are left out.  Items of the template have the names the rules of    *)
(* the source know, in English; any other name is an item without a rule.  *)
(***************************************************************************)
EXTENDS Integers, FiniteSets, Functions

CONSTANTS
    Scale,          \* 10000 in the code: four decimals
    Template,       \* items of the version: section, name, sale and cost price
    Spaces,         \* spaces of the project
    Kind,           \* type of each of them and whether it includes a balcony
    Sizes,          \* area, perimeter and height a space can have
    FirstSize,
    FrameArea,      \* outer frame area of the project
    ManagementRate,
    Quantities,     \* quantities that are entered
    Touched,        \* names of the items whose lines are edited
    Discounts,      \* rates and write-offs that are submitted
    None

\* The general sections of a template; each is a scope of the quotation.
GeneralSections == {"WALL", "PAINT", "ELECTRICAL", "OTHER"}

\* Checks of the tables and of the requests: prices and measures are
\* positive, rates are at most one.  A space is named by an id of its own.
ASSUME ConstantsAssumption ==
    /\ Scale \in Nat \ {0} /\ Scale % 2 = 0
    /\ IsFiniteSet(Template)
    /\ \A i \in Template : i.sale \in Nat \ {0} /\ i.cost \in Nat \ {0}
    /\ IsFiniteSet(Spaces) /\ Spaces \cap GeneralSections = {}
    /\ Sizes \subseteq [area : Nat \ {0}, perimeter : Nat \ {0}, height : Nat \ {0}]
    /\ FirstSize \in Sizes
    /\ FrameArea \in Nat \ {0}
    /\ ManagementRate \in 0..Scale
    /\ Quantities \subseteq Nat \ {0}
    /\ Discounts \subseteq [rate : 0..Scale, writeOff : Nat]
    /\ None \notin Int

VARIABLES
    status,     \* of the current version
    size,       \* of the spaces that are not deleted
    line,       \* rows of half_package_quotation_lines of the current version
    scope,      \* totals in half_package_quotation_spaces
    header,     \* amounts in half_package_quotations
    previous    \* the version the current one was made from

vars == <<status, size, line, scope, header, previous>>

-----------------------------------------------------------------------------
(***************************************************************************)
(* Decimals.                                                               *)
(***************************************************************************)
Multiply4(l, r) == (l * r + Scale \div 2) \div Scale

AtLeastZero(n) == IF n > 0 THEN n ELSE 0

\* A product that ends exactly between two decimals has no exact binary
\* form: toFixed gives either neighbour.
FloatProduct(l, r) ==
    IF (l * r) % Scale = Scale \div 2
    THEN {(l * r) \div Scale, (l * r) \div Scale + 1}
    ELSE {Multiply4(l, r)}

-----------------------------------------------------------------------------
(***************************************************************************)
(* Lines of a quotation.                                                   *)
(***************************************************************************)
RoomSections == {"LIVING_DINING", "BEDROOM"}

ElectricalFrameItems == {"wall chase", "hole and wire", "water supply", "drainage",
                         "power wiring", "data wiring", "circuit breaker"}
OtherFrameItems == {"rubbish removal", "cleaning"}
SpaceAreaItems == {"protection", "floor tiles", "ceiling base"}

\* The item whose quantity an item takes over, by section and name.
ReferencedItemName(i) ==
    CASE i.section = "WALL" /\ i.name = "partition insulation" -> "double partition"
      [] i.section \in RoomSections /\ i.name = "ceiling paint" -> "ceiling base"
      [] i.section \in RoomSections /\ i.name = "wall paint" -> "wall base"
      [] i.section = "KITCHEN_BATHROOM" /\ i.name = "ceiling putty" -> "flat ceiling"
      [] i.section = "KITCHEN_BATHROOM" /\ i.name = "screed" -> "floor filling"
      [] OTHER -> None

QuantityRuleFor(i) ==
    CASE \/ i.section = "PAINT"
         \/ i.section = "ELECTRICAL" /\ i.name \in ElectricalFrameItems
         \/ i.section = "OTHER" /\ i.name \in OtherFrameItems
           -> "PROJECT_OUTER_FRAME_AREA"
      [] \/ i.section \in RoomSections /\ i.name \in SpaceAreaItems
         \/ i.section = "KITCHEN_BATHROOM" /\ i.name = "flat ceiling"
           -> "SPACE_AREA"
      [] i.section \in RoomSections /\ i.name = "wall base"
           -> "SPACE_PERIMETER_HEIGHT"
      [] ReferencedItemName(i) # None -> "LINE_REFERENCE"
      [] OTHER -> "MANUAL"

SectionCodesForSpace(kind) ==
    CASE kind.type = "LIVING_DINING" ->
           {"LIVING_DINING"} \cup (IF kind.balcony THEN {"BALCONY"} ELSE {})
      [] kind.type \in {"BEDROOM", "CLOSET"} -> {"BEDROOM"}
      [] kind.type \in {"KITCHEN", "BATHROOM"} -> {"KITCHEN_BATHROOM"}
      [] kind.type = "BALCONY" -> {"BALCONY"}

ItemsForSpace(kind) ==
    {i \in Template : /\ i.section \in SectionCodesForSpace(kind)
                      /\ kind.type = "KITCHEN" =>
                           i.name \notin {"sunken shower", "wall niche"}}

\* A draft has a scope for each general section with items, and one for each
\* space.  A line is named by its scope and its item.
ItemsOf(s) == IF s \in Spaces THEN ItemsForSpace(Kind[s])
              ELSE {i \in Template : i.section = s}

GeneralScopes == {s \in GeneralSections : ItemsOf(s) # {}}
Lines(scopes) == UNION {{s} \X ItemsOf(s) : s \in scopes}

AllLines == Lines(GeneralScopes \cup Spaces)

Rule == [l \in AllLines |-> QuantityRuleFor(l[2])]

\* find takes the item of the section with that name in the scope.
ReferencedLine ==
    [l \in {r \in AllLines : Rule[r] = "LINE_REFERENCE"} |->
       CHOOSE r \in Lines({l[1]}) : /\ r[2].section = l[2].section
                                    /\ r[2].name = ReferencedItemName(l[2])]

\* Without that item quantityRuleFor throws, and no draft is made.
ASSUME ReferencesAssumption ==
    \A l \in DOMAIN ReferencedLine :
      \E r \in Lines({l[1]}) : /\ r[2].section = l[2].section
                              /\ r[2].name = ReferencedItemName(l[2])

References(l, r) == Rule[l] = "LINE_REFERENCE" /\ ReferencedLine[l] = r

-----------------------------------------------------------------------------
(***************************************************************************)
(* The calculator.                                                         *)
(***************************************************************************)
OrNull(n) == IF n = 0 THEN None ELSE n
OrZero(n) == IF n = None THEN 0 ELSE n

\* What the rule of a line makes of its entry and of the space it is in; q
\* has the quantities of the other lines.
QuantityForRule(rows, sizes, q, l) ==
    CASE Rule[l] = "MANUAL" -> rows[l].manual
      [] Rule[l] = "PROJECT_OUTER_FRAME_AREA" -> FrameArea
      [] Rule[l] = "SPACE_AREA" -> sizes[l[1]].area
      [] Rule[l] = "SPACE_PERIMETER_HEIGHT" ->
           Multiply4(sizes[l[1]].perimeter, sizes[l[1]].height)
      [] Rule[l] = "LINE_REFERENCE" -> q[ReferencedLine[l]]

\* resolveQuantity
ResolvedQuantities(rows, sizes) ==
    LET q[l \in DOMAIN rows] ==
          IF rows[l].selected THEN QuantityForRule(rows, sizes, q, l) ELSE None
    IN q

\* calculateScope: an amount of zero is no amount, the profit of it is zero.
CalculatedLines(rows, sizes) ==
    LET q == ResolvedQuantities(rows, sizes) IN
    [l \in DOMAIN rows |->
       LET amount == IF q[l] = None THEN 0 ELSE Multiply4(q[l], l[2].sale)
           cost == IF q[l] = None THEN 0 ELSE Multiply4(q[l], l[2].cost) IN
       [rows[l] EXCEPT !.quantity = q[l],
                       !.amount = OrNull(amount),
                       !.cost = OrNull(cost),
                       !.profit = IF q[l] = None THEN None ELSE amount - cost]]

ScopeTotals(rows, s) ==
    LET its == {l \in DOMAIN rows : l[1] = s} IN
    [subtotal |-> SumFunction([l \in its |-> OrZero(rows[l].amount)]),
     cost |-> SumFunction([l \in its |-> OrZero(rows[l].cost)])]

\* The amounts of a quotation from the totals of its scopes.
Priced(totals, discount, writeOff) ==
    LET direct == SumFunction([s \in DOMAIN totals |-> totals[s].subtotal])
        cost == SumFunction([s \in DOMAIN totals |-> totals[s].cost])
        fee == Multiply4(direct, ManagementRate)
        adjusted == AtLeastZero(Multiply4(direct + fee, discount) - writeOff) IN
    [direct |-> direct, cost |-> cost, fee |-> fee, total |-> direct + fee,
     discount |-> discount, writeOff |-> writeOff, adjusted |-> adjusted,
     profit |-> adjusted - cost]

ScopesOf(rows) == {l[1] : l \in DOMAIN rows}
AllTotals(rows) == [s \in ScopesOf(rows) |-> ScopeTotals(rows, s)]

-----------------------------------------------------------------------------
(***************************************************************************)
(* Constraints of the tables; a statement that breaks one fails.           *)
(***************************************************************************)
ExpectedMargin(row) ==
    \/ {row.amount, row.cost, row.profit} = {None}
    \/ None \notin {row.amount, row.cost, row.profit}

LineValues(rows) ==
    \A l \in DOMAIN rows : /\ ExpectedMargin(rows[l])
                           /\ {rows[l].amount, rows[l].quantity, rows[l].cost} \cap {0} = {}

AdjustmentValues(h) ==
    /\ h.discount \in 0..Scale
    /\ h.writeOff >= 0
    /\ h.adjusted = AtLeastZero(Multiply4(h.total, h.discount) - h.writeOff)

-----------------------------------------------------------------------------
NullOr(S) == S \cup {None}

Row == [selected : BOOLEAN, manual : NullOr(Nat), quantity : NullOr(Nat),
        amount : NullOr(Nat), cost : NullOr(Nat), profit : NullOr(Int)]

Statuses == {"DRAFT", "QUOTED", "PENDING", "RETURNED", "APPROVED"}

\* What is typed in belongs to a selected line without a rule, and a draft
\* has every line of the scopes it has.
TypeOK ==
    /\ status \in Statuses
    /\ DOMAIN size \subseteq Spaces
    /\ \A s \in DOMAIN size : size[s] \in Sizes
    /\ line \in [Lines(GeneralScopes \cup DOMAIN size) -> Row]
    /\ \A l \in DOMAIN line :
         line[l].manual # None => line[l].selected /\ Rule[l] = "MANUAL"
    /\ scope \in [ScopesOf(line) -> [subtotal : Nat, cost : Nat]]
    /\ DOMAIN header = {"direct", "cost", "fee", "total", "discount", "writeOff",
                        "adjusted", "profit"}

EmptyRow(selected) ==
    [selected |-> selected, manual |-> None, quantity |-> None,
     amount |-> None, cost |-> None, profit |-> None]

\* buildDraft and buildScope: lines with a rule are selected, lines that
\* refer to another one are when that is.
BuiltLines(scopes) ==
    [l \in Lines(scopes) |->
       EmptyRow(/\ Rule[l] # "MANUAL"
                /\ Rule[l] = "LINE_REFERENCE" => Rule[ReferencedLine[l]] # "MANUAL")]

\* createDraft; a row that breaks a constraint makes it fail.
Init ==
    /\ status = "DRAFT"
    /\ size = [s \in Spaces |-> FirstSize]
    /\ line = CalculatedLines(BuiltLines(GeneralScopes \cup Spaces), size)
    /\ LineValues(line)
    /\ scope = AllTotals(line)
    /\ header = Priced(scope, Scale, 0)
    /\ previous = None

-----------------------------------------------------------------------------
(***************************************************************************)
(* Edits of a draft.                                                       *)
(***************************************************************************)
\* calculate, and saveDraft of every row.
Saved(rows) ==
    LET new == CalculatedLines(rows, size) IN
    IF LineValues(new)
    THEN /\ line' = new
         /\ scope' = AllTotals(new)
         /\ header' = Priced(AllTotals(new), header.discount, header.writeOff)
         /\ UNCHANGED <<status, size, previous>>
    ELSE UNCHANGED vars

\* Lines that take their quantity from the line are selected with it.
Edited(l, selected, quantity) ==
    [r \in DOMAIN line |->
       IF r = l
       THEN [line[r] EXCEPT !.selected = selected,
                            !.manual = IF Rule[l] = "MANUAL" THEN quantity ELSE None]
       ELSE IF References(r, l) THEN [line[r] EXCEPT !.selected = selected]
       ELSE line[r]]

UpdateLineUnchecked(l, selected, quantity) ==
    /\ status = "DRAFT"
    /\ Rule[l] # "MANUAL" => quantity = None
    /\ Saved(Edited(l, selected, quantity))

UpdateLine(l, selected, quantity) ==
    /\ status = "DRAFT"
    /\ Rule[l] # "MANUAL" => quantity = None
    /\ ~selected => quantity = None
    /\ Saved(Edited(l, selected, quantity))

\* The first two statements of updateSpace on the lines: areas, then the
\* lines that refer to others, from what is stored by then.
RequantifiedInReverse(rows, s, new) ==
    [l \in DOMAIN rows |->
       IF l[1] # s THEN rows[l]
       ELSE IF Rule[l] = "LINE_REFERENCE"
            THEN [rows[l] EXCEPT !.quantity =
                    IF rows[l].selected THEN rows[ReferencedLine[l]].quantity ELSE None]
       ELSE IF Rule[l] \in {"SPACE_AREA", "SPACE_PERIMETER_HEIGHT"}
            THEN [rows[l] EXCEPT !.quantity =
                    IF ~rows[l].selected THEN None
                    ELSE IF Rule[l] = "SPACE_AREA" THEN new.area
                    ELSE Multiply4(new.perimeter, new.height)]
       ELSE rows[l]]

Requantified(rows, s, new) ==
    LET measured ==
          [l \in DOMAIN rows |->
             IF l[1] = s /\ Rule[l] \in {"SPACE_AREA", "SPACE_PERIMETER_HEIGHT"}
             THEN [rows[l] EXCEPT !.quantity =
                     IF ~rows[l].selected THEN None
                     ELSE IF Rule[l] = "SPACE_AREA" THEN new.area
                     ELSE Multiply4(new.perimeter, new.height)]
             ELSE rows[l]] IN
    [l \in DOMAIN rows |->
       IF l[1] = s /\ Rule[l] = "LINE_REFERENCE"
       THEN [measured[l] EXCEPT !.quantity =
               IF rows[l].selected THEN measured[ReferencedLine[l]].quantity ELSE None]
       ELSE measured[l]]

\* The third: amounts, and the profit from the difference of the prices,
\* which need not be the difference of the rounded amounts.
Repriced(rows, s) ==
    [l \in DOMAIN rows |->
       LET entered == IF rows[l].manual # None THEN rows[l].manual
                      ELSE rows[l].quantity
           priced == rows[l].selected /\ entered # None IN
       IF l[1] # s THEN rows[l]
       ELSE [rows[l] EXCEPT
               !.amount = IF priced THEN Multiply4(entered, l[2].sale) ELSE None,
               !.cost = IF priced THEN Multiply4(entered, l[2].cost) ELSE None,
               !.profit = IF priced THEN Multiply4(entered, l[2].sale - l[2].cost)
                          ELSE None]]

\* Then the totals of the scope, and those of the header from all scopes.
UpdateSpace(s, new) ==
    /\ status = "DRAFT"
    /\ s \in DOMAIN size
    /\ LET rows == Repriced(Requantified(line, s, new), s)
           totals == [scope EXCEPT ![s] = ScopeTotals(rows, s)] IN
       IF LineValues(rows)
       THEN /\ size' = [size EXCEPT ![s] = new]
            /\ line' = rows
            /\ scope' = totals
            /\ header' = Priced(totals, header.discount, header.writeOff)
            /\ UNCHANGED <<status, previous>>
       ELSE UNCHANGED vars

Without(f, s) == [x \in DOMAIN f \ {s} |-> f[x]]
LinesWithout(s) == [l \in {r \in DOMAIN line : r[1] # s} |-> line[l]]

\* What deleteSpace makes of the header: the adjusted total is the total,
\* whatever discount and write-off the draft has.
AfterDeletionOf(s) ==
    LET h == Priced(Without(scope, s), Scale, 0) IN
    [h EXCEPT !.discount = header.discount, !.writeOff = header.writeOff]

MayDelete(s) ==
    /\ status = "DRAFT"
    /\ s \in DOMAIN size
    /\ Cardinality(DOMAIN size) > 1

DeleteSpace(s) ==
    /\ MayDelete(s)
    /\ IF AdjustmentValues(AfterDeletionOf(s))
       THEN /\ size' = Without(size, s)
            /\ line' = LinesWithout(s)
            /\ scope' = Without(scope, s)
            /\ header' = AfterDeletionOf(s)
            /\ UNCHANGED <<status, previous>>
       ELSE UNCHANGED vars

-----------------------------------------------------------------------------
(***************************************************************************)
(* The versions of the quotation.                                          *)
(***************************************************************************)
Amounts == <<size, line, scope, header>>

ManualBlockers ==
    {l \in DOMAIN line : /\ Rule[l] = "MANUAL"
                         /\ line[l].selected /\ line[l].quantity = None}

Blockers == {l \in DOMAIN line : line[l].selected /\ line[l].quantity = None}

Generate ==
    /\ status = "DRAFT"
    /\ Blockers = {}
    /\ status' = "QUOTED"
    /\ UNCHANGED <<Amounts, previous>>

\* updateAdjustment works in binary floating point, and the table refuses an
\* adjusted total that is not rounded half up.
UpdateAdjustment(d) ==
    /\ status = "QUOTED"
    /\ \E product \in FloatProduct(header.total, d.rate) :
         LET adjusted == AtLeastZero(product - d.writeOff)
             h == [header EXCEPT !.discount = d.rate, !.writeOff = d.writeOff,
                                 !.adjusted = adjusted,
                                 !.profit = adjusted - header.cost] IN
         IF AdjustmentValues(h)
         THEN /\ header' = h
              /\ status' = "PENDING"
              /\ UNCHANGED <<size, line, scope, previous>>
         ELSE UNCHANGED vars

\* A decision makes a version with the same amounts.
Decide(decision) ==
    /\ \/ status = "PENDING"
       \/ status = "APPROVED" /\ decision = "RETURNED"
    /\ status' = decision
    /\ UNCHANGED <<Amounts, previous>>

\* continueEditing and cloneAsVersion: a returned version keeps its
\* adjustment, a quoted one starts without.
ContinueEditing ==
    /\ status \in {"QUOTED", "RETURNED"}
    /\ status' = "DRAFT"
    /\ previous' = [line |-> line, total |-> header.total]
    /\ IF status = "RETURNED" THEN UNCHANGED header
       ELSE header' = [header EXCEPT !.discount = Scale, !.writeOff = 0,
                                     !.adjusted = header.total,
                                     !.profit = header.total - header.cost]
    /\ UNCHANGED <<size, line, scope>>

Next ==
    \/ \E l \in DOMAIN line, selected \in BOOLEAN, quantity \in Quantities \cup {None} :
         l[2].name \in Touched /\ UpdateLine(l, selected, quantity)
    \/ \E s \in Spaces : DeleteSpace(s) \/ \E new \in Sizes : UpdateSpace(s, new)
    \/ Generate
    \/ \E d \in Discounts : UpdateAdjustment(d)
    \/ \E decision \in {"APPROVED", "RETURNED"} : Decide(decision)
    \/ ContinueEditing

Spec == Init /\ [][Next]_vars

-----------------------------------------------------------------------------
(***************************************************************************)
(* What is shown.                                                          *)
(***************************************************************************)
DifferencesInSelection(from, to) ==
    {l \in DOMAIN from \cup DOMAIN to :
       \/ (l \in DOMAIN from) # (l \in DOMAIN to)
       \/ from[l].selected # to[l].selected}

\* compareQuotationVersions, as far as lines go: a line on one side only, or
\* with another selection or quantity.  Prices are those of the one template
\* a quotation has.
Differences(from, to) ==
    {l \in DOMAIN from \cup DOMAIN to :
       \/ (l \in DOMAIN from) # (l \in DOMAIN to)
       \/ from[l].selected # to[l].selected
       \/ from[l].quantity # to[l].quantity}

-----------------------------------------------------------------------------
(***************************************************************************)
(* Properties.                                                             *)
(***************************************************************************)
\* Whatever was saved by the service or changed by statements on spaces,
\* the rows hold what the calculator makes of the entries: the page, which
\* calculates, and the next version, which copies rows, show one price.
StoredIsCalculated ==
    LET new == CalculatedLines(line, size) IN
    /\ \A l \in DOMAIN line :
         /\ line[l].quantity = new[l].quantity
         /\ line[l].amount = new[l].amount
         /\ line[l].cost = new[l].cost
    /\ scope = AllTotals(new)
    /\ header = Priced(AllTotals(new), header.discount, header.writeOff)

\* A version compared with the one it was made from: when no line is shown
\* as different, the totals before adjustment are equal.
ComparisonExplainsTotal ==
    previous # None /\ Differences(previous.line, line) = {}
      => previous.total = header.total

\* A version that is offered has a price for every line that is selected,
\* and at most the total is asked for it.
OfferIsComplete ==
    status # "DRAFT" =>
      /\ \A l \in DOMAIN line : line[l].selected => line[l].amount # None
      /\ header.adjusted \in 0..header.total

\* A space of a draft can be deleted as long as another one is left: the
\* amounts deleteSpace computes satisfy the constraints of the table.
DraftSpacesDeletable ==
    \A s \in Spaces : MayDelete(s) => AdjustmentValues(AfterDeletionOf(s))
=============================================================================

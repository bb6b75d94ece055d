---------------------------- MODULE QuotationExport ----------------------------
(***************************************************************************)
(* QuotationExporter: the PDF and the workbook a customer gets.  A request *)
(* takes a copy of the quotation, waits for the template and then builds   *)
(* the file without giving up control.  Both kinds of file start with a    *)
(* cover and the notes on the budget, list the priced lines of the         *)
(* quotation and its summary, and end with an empty list of materials.     *)
(*                                                                         *)
(* Amounts are integers, scaled by 10000, and those of the files by 100.   *)
(* Styles, column widths and pictures are left out; a glyph of a text      *)
(* matters by its width only.                                              *)
(***************************************************************************)
EXTENDS Integers, Sequences, FiniteSets, SequencesExt

CONSTANTS
    Requests,
    Version,        \* versions that can be read, as the calculator leaves them
    GlyphWidth,     \* width of the glyphs of the font, in 1/200 of its size
    None

Formats == {"PDF", "XLSX"}
Reads == {"unread", "reading", "ready", "failed"}

VARIABLES
    template,   \* templateWorkbookPromise
    material,   \* mainMaterialTemplateWorkbookPromise
    request     \* per request: where it is, and the format and version it is for

vars == <<template, material, request>>

Scale == 10000

-----------------------------------------------------------------------------
(***************************************************************************)
(* Sequences.                                                              *)
(***************************************************************************)
Sequence(s) == s \in Seq(Range(s))

\* The elements of s at the places I, in the order they have.
At(s, I) ==
    LET at[n \in 0..Len(s)] ==
          IF n = 0 THEN <<>>
          ELSE IF n \in I THEN Append(at[n - 1], s[n]) ELSE at[n - 1]
    IN at[Len(s)]

Where(s, Test(_)) == At(s, {i \in DOMAIN s : Test(s[i])})

Total(s) ==
    LET sum[n \in 0..Len(s)] == IF n = 0 THEN 0 ELSE sum[n - 1] + s[n]
    IN sum[Len(s)]

Larger(m, n) == IF m > n THEN m ELSE n

-----------------------------------------------------------------------------
(***************************************************************************)
(* Decimals.                                                               *)
(***************************************************************************)
Multiply4(l, r) ==
    LET product == l * r IN
    IF product >= 0 THEN (product + 5000) \div Scale
    ELSE -((5000 - product) \div Scale)

\* number2 and formatDecimal2: two decimals, half away from zero.
Shown(n) == IF n >= 0 THEN (n + 50) \div 100 ELSE -((50 - n) \div 100)

-----------------------------------------------------------------------------
(***************************************************************************)
(* What is exported.                                                       *)
(***************************************************************************)
TaxRate == 600

\* exportSections: sections without a line of this kind are left out.
IsExported(l) ==
    /\ l.selected
    /\ l.quantity # None /\ l.quantity > 0
    /\ l.amount # None

Section(s) == [name |-> s.name, subtotal |-> s.subtotal, lines |-> Where(s.lines, IsExported)]

ExportSections(scopes) ==
    Where([i \in DOMAIN scopes |-> Section(scopes[i])], LAMBDA s : s.lines # <<>>)

SummaryRow(number, label, amount) ==
    [kind |-> "summary", number |-> number, label |-> label, amount |-> amount, height |-> 22]

AdjustmentPresent(q) == q.rate # Scale \/ q.writeOff # 0

AdjustmentApproved(q) ==
    /\ q.status = "APPROVED"
    /\ q.adjustment = "CONFIRMED"
    /\ q.rate # Scale \/ q.writeOff # 0

\* What tax is due on, and the tax.
Before(q) == q.direct + q.fee
Taxable(q) == IF AdjustmentApproved(q) THEN q.adjusted ELSE Before(q)
Tax(q) == Multiply4(Taxable(q), TaxRate)

Summary(q) ==
    LET direct == SummaryRow(1, "direct", q.direct)
        fee == SummaryRow(2, "fee", q.fee)
        discount == SummaryRow(3, "discount", Taxable(q) - Before(q))
        tax(n) == SummaryRow(n, "tax", Tax(q))
        total(n) == SummaryRow(n, "total", Taxable(q) + Tax(q)) IN
    IF AdjustmentApproved(q) THEN <<direct, fee, discount, tax(4), total(5)>>
    ELSE <<direct, fee, tax(3), total(4)>>

-----------------------------------------------------------------------------
(***************************************************************************)
(* A line has an amount if it counts, and sums are exact (QuotationPricing *)
(* shows both of what is stored).                                          *)
(***************************************************************************)
AmountOf(l) == IF l.amount = None THEN 0 ELSE l.amount

IsText(text) ==
    /\ Sequence(text.paragraphs)
    /\ \A i \in DOMAIN text.paragraphs : Sequence(text.paragraphs[i])

CalculatedScope(s) ==
    /\ Sequence(s.lines)
    /\ \A j \in DOMAIN s.lines :
         LET l == s.lines[j] IN
         /\ IsText(l.name) /\ IsText(l.note)
         /\ l.quantity \in Nat \cup {None} /\ l.amount \in Nat \cup {None}
         /\ l.amount # None => l.selected /\ l.quantity # None /\ l.quantity > 0
    /\ s.subtotal = Total([j \in DOMAIN s.lines |-> AmountOf(s.lines[j])])

CalculatedVersion(q) ==
    /\ Sequence(q.scopes)
    /\ \A i \in DOMAIN q.scopes : CalculatedScope(q.scopes[i])
    /\ q.direct = Total([i \in DOMAIN q.scopes |-> q.scopes[i].subtotal])
    /\ q.fee \in Nat /\ q.total = q.direct + q.fee
    /\ q.rate \in Nat /\ q.writeOff \in Nat
    /\ q.adjusted = Larger(Multiply4(q.total, q.rate) - q.writeOff, 0)

ASSUME VersionsAreCalculated ==
    /\ None \notin Int
    /\ \A v \in DOMAIN Version : CalculatedVersion(Version[v])

-----------------------------------------------------------------------------
(***************************************************************************)
(* Texts: paragraphs of glyphs, and whether they end with a return and a   *)
(* line feed, as some cells of a workbook do.                              *)
(***************************************************************************)
Estimate(g) == IF g = "han" THEN 200 ELSE 110

CeilDiv(n, m) == (n + m - 1) \div m
SumOver(f(_), s) == Total([i \in DOMAIN s |-> f(s[i])])

EstimatedLineCount(text, perLine) ==
    IF text.paragraphs = <<>> THEN 1
    ELSE SumOver(LAMBDA p : Larger(1, CeilDiv(SumOver(Estimate, p), 200 * perLine)),
                 text.paragraphs)

PdfItemRowHeight(l) ==
    Larger(30, 10 + 12 * Larger(EstimatedLineCount(l.name, 18),
                                EstimatedLineCount(l.note, 32)))

Length(text) == SumOver(Len, text.paragraphs)
Returns(text) == IF text.returns THEN Len(text.paragraphs) - 1 ELSE 0

\* wrapText: a glyph that does not fit begins a line; what is left when the
\* last line is full is dropped, and an ellipsis takes the place of the last
\* glyph.
WrapText(text, width, maxLines) ==
    LET place(s, g) ==
          IF s.lines = maxLines THEN s
          ELSE IF s.here # 0 /\ s.width + GlyphWidth[g] > width
          THEN [s EXCEPT !.lines = @ + 1, !.shown = @ + s.here,
                         !.here = 1, !.width = GlyphWidth[g]]
          ELSE [s EXCEPT !.here = @ + 1, !.width = @ + GlyphWidth[g]]
        paragraph(s, p) ==
          LET done == FoldLeft(place, [s EXCEPT !.here = 0, !.width = 0], p) IN
          IF s.lines = maxLines \/ done.lines = maxLines THEN done
          ELSE [done EXCEPT !.lines = @ + 1, !.shown = @ + done.here]
        wrapped == FoldLeft(paragraph,
                            [lines |-> 0, shown |-> 0, here |-> 0, width |-> 0],
                            text.paragraphs)
        cut == /\ wrapped.lines = maxLines
               /\ Length(text) + Returns(text) > wrapped.shown IN
    [lines |-> wrapped.lines,
     shown |-> IF cut THEN wrapped.shown - 1 ELSE wrapped.shown]

-----------------------------------------------------------------------------
(***************************************************************************)
(* Rows of the files.                                                      *)
(***************************************************************************)
Full(kind, height) == [kind |-> kind, height |-> height]

PdfLine(i, j, l) ==
    LET height == PdfItemRowHeight(l)
        maxLines == Larger(1, (height - 7) \div 12) IN
    [kind |-> "line", section |-> i, number |-> j, item |-> l.item, height |-> height,
     quantity |-> Shown(l.quantity), price |-> Shown(l.price), amount |-> Shown(l.amount),
     note |-> WrapText(l.note, 6620, maxLines).shown]

\* excelItemRowHeight only sets the height of the row; its cells wrap.
SheetLine(i, j, l) ==
    [kind |-> "line", section |-> i, number |-> j, item |-> l.item,
     quantity |-> l.quantity, price |-> Shown(l.price), amount |-> Shown(l.amount),
     note |-> Length(l.note)]

Heading(i, name) == [kind |-> "heading", section |-> i, scope |-> name, height |-> 26]
Subtotal(i, amount) == [kind |-> "subtotal", section |-> i, amount |-> amount, height |-> 26]

LineRows(format, i, lines) ==
    [j \in DOMAIN lines |-> IF format = "PDF" THEN PdfLine(i, j, lines[j])
                            ELSE SheetLine(i, j, lines[j])]

\* A heading, the lines and a subtotal.
RowsOfSection(format, i, s) ==
    <<Heading(i, s.name)>> \o LineRows(format, i, s.lines) \o <<Subtotal(i, Shown(s.subtotal))>>

SectionRows(format, sections) ==
    FlattenSeq([i \in DOMAIN sections |-> RowsOfSection(format, i, sections[i])])

ShownSummary(q) == [i \in DOMAIN Summary(q) |->
                      [Summary(q)[i] EXCEPT !.amount = Shown(@)]]

SummaryHeading == <<Full("summaryHeading", 22)>>

QuotationRows(format, q) ==
    SectionRows(format, ExportSections(q.scopes)) \o SummaryHeading \o ShownSummary(q)

MaterialSections == 1..10
EmptySections ==
    FlattenSeq([i \in MaterialSections |-> <<Heading(i, "material"), Subtotal(i, 0)>>])
EmptySummary == <<SummaryRow(1, "direct", 0), SummaryRow(2, "service", 0),
                  SummaryRow(3, "total", 0)>>

PdfHead == <<Full("title", 34), Full("customer", 28), Full("columns", 30)>>

\* What pdfRows lists before and after its break.
PdfRows(q) == PdfHead \o QuotationRows("PDF", q)
MaterialPdfRows == PdfHead \o EmptySections \o EmptySummary

MaterialSheetRows == EmptySections \o SummaryHeading \o EmptySummary

-----------------------------------------------------------------------------
(***************************************************************************)
(* Files.                                                                  *)
(***************************************************************************)
Top == 575
Bottom == 18

Drawn(s, row, page, top) ==
    [placed |-> Append(s.placed, [row |-> row, page |-> page, top |-> top]),
     page |-> page, y |-> top - row.height]

PlacedIgnoringHeight(s, row) ==
    IF s.y < Bottom THEN Drawn(s, row, s.page + 1, Top) ELSE Drawn(s, row, s.page, s.y)

PlacedOrBroken(s, row) ==
    IF s.y - row.height < Bottom THEN [s EXCEPT !.page = @ + 1, !.y = Top]
    ELSE Drawn(s, row, s.page, s.y)

\* A row goes below the one before it, or on a new page.
Placed(s, row) ==
    IF s.y - row.height < Bottom THEN Drawn(s, row, s.page + 1, Top)
    ELSE Drawn(s, row, s.page, s.y)

\* The loop of generatePdf over rows that begin on a page of their own.
Laid(page, rows) ==
    LET at[n \in 0..Len(rows)] ==
          IF n = 0 THEN [placed |-> <<>>, page |-> page, y |-> Top]
          ELSE Placed(at[n - 1], rows[n])
    IN at[Len(rows)]

\* The cover and the budget page are drawn from the template.
IntroductoryPages == 2

\* The break begins the pages of the main materials.
GeneratedPdf(q) ==
    LET half == Laid(IntroductoryPages + 1, PdfRows(q)) IN
    [half |-> half.placed, material |-> Laid(half.page + 1, MaterialPdfRows).placed]

FirstRow == 5
Sheet(rows) == [rows |-> rows, lastPrinted |-> FirstRow + Len(rows) - 1]

GeneratedWorkbook(q) ==
    [half |-> Sheet(QuotationRows("XLSX", q)), material |-> Sheet(MaterialSheetRows)]

\* What a request that is done returned.
Pdf == [q \in DOMAIN Version |-> GeneratedPdf(Version[q])]
Workbook == [q \in DOMAIN Version |-> GeneratedWorkbook(Version[q])]

-----------------------------------------------------------------------------
(***************************************************************************)
(* Requests.                                                               *)
(***************************************************************************)
Idle == [at |-> "idle", format |-> None, quotation |-> None]

Init ==
    /\ template = "unread"
    /\ material = "unread"
    /\ request = [r \in Requests |-> Idle]

\* The read in createExport, and its test.
Exportable(q) ==
    \/ q.status = "QUOTED" /\ q.adjustment = "AWAITING_SUBMISSION"
    \/ q.status = "APPROVED" /\ q.adjustment = "CONFIRMED"

Started(read) == IF read = "unread" THEN "reading" ELSE read

CreateExport(r) ==
    /\ request[r].at = "idle"
    /\ \E q \in DOMAIN Version, f \in Formats :
         /\ Exportable(Version[q])
         /\ request' = [request EXCEPT ![r] =
                          [at |-> "template", format |-> f, quotation |-> q]]
    /\ template' = Started(template)
    /\ UNCHANGED material

\* A promise is kept, also one that was rejected.
ReadTemplate ==
    /\ template = "reading"
    /\ template' \in {"ready", "failed"}
    /\ UNCHANGED <<material, request>>

ReadMaterial ==
    /\ material = "reading"
    /\ material' \in {"ready", "failed"}
    /\ UNCHANGED <<template, request>>

Fail(r) ==
    /\ \/ request[r].at = "template" /\ template = "failed"
       \/ request[r].at = "material" /\ material = "failed"
    /\ request' = [request EXCEPT ![r].at = "failed"]
    /\ UNCHANGED <<template, material>>

GeneratePdf(r) ==
    /\ request[r].at = "template" /\ request[r].format = "PDF"
    /\ template = "ready"
    /\ request' = [request EXCEPT ![r].at = "done"]
    /\ UNCHANGED <<template, material>>

GenerateWorkbookUnread(r) ==
    /\ request[r].at = "template" /\ request[r].format = "XLSX"
    /\ template = "ready"
    /\ request' = [request EXCEPT ![r].at = "material"]
    /\ UNCHANGED <<template, material>>

GenerateWorkbook(r) ==
    /\ request[r].at = "template" /\ request[r].format = "XLSX"
    /\ template = "ready"
    /\ request' = [request EXCEPT ![r].at = "material"]
    /\ material' = Started(material)
    /\ UNCHANGED template

AddBlankMainMaterialSheet(r) ==
    /\ request[r].at = "material"
    /\ material = "ready"
    /\ request' = [request EXCEPT ![r].at = "done"]
    /\ UNCHANGED <<template, material>>

Answered(r) == request[r].at \in {"done", "failed"}

Again(r) ==
    /\ Answered(r)
    /\ request' = [request EXCEPT ![r] = Idle]
    /\ UNCHANGED <<template, material>>

\* The process stops with its requests and starts anew.
Restart ==
    /\ template' = "unread"
    /\ material' = "unread"
    /\ request' = [r \in Requests |->
                     IF request[r].at \in {"template", "material"}
                     THEN [request[r] EXCEPT !.at = "failed"] ELSE request[r]]

Step(r) ==
    GeneratePdf(r) \/ GenerateWorkbook(r) \/ AddBlankMainMaterialSheet(r) \/ Fail(r)

Next ==
    \/ \E r \in Requests : CreateExport(r) \/ Step(r) \/ Again(r)
    \/ ReadTemplate \/ ReadMaterial \/ Restart

Spec == Init /\ [][Next]_vars

-----------------------------------------------------------------------------
(***************************************************************************)
(* Properties.                                                             *)
(***************************************************************************)
\* Requests wait for what is being read.
TypeOK ==
    /\ template \in Reads
    /\ material \in Reads
    /\ DOMAIN request = Requests
    /\ \A r \in Requests :
         /\ request[r].at \in {"idle", "template", "material", "done", "failed"}
         /\ request[r].at = "template" => template # "unread"
         /\ request[r].at = "material" => /\ material # "unread"
                                          /\ request[r].format = "XLSX"
         /\ request[r].at # "idle" => /\ request[r].format \in Formats
                                      /\ request[r].quotation \in DOMAIN Version
                                      /\ Exportable(Version[request[r].quotation])

Done == {r \in Requests : request[r].at = "done"}

RowsOf(placed) == [i \in DOMAIN placed |-> placed[i].row]

\* The rows of the list of lines, from the file.
RowsOfFile(r) ==
    LET q == request[r].quotation IN
    IF request[r].format = "PDF" THEN RowsOf(Pdf[q].half) ELSE Workbook[q].half.rows

OfKind(kind, rows) == Where(rows, LAMBDA row : row.kind = kind)
OfSection(i, rows) == Where(rows, LAMBDA row : row.section = i)
Items(lines) == [i \in DOMAIN lines |-> lines[i].item]

\* The lines of a version that have an amount, in the order it has them.
PricedItems(scopes) ==
    FlattenSeq([i \in DOMAIN scopes |->
                  Items(Where(scopes[i].lines, LAMBDA l : l.amount # None))])

\* Each line comes below its section's heading or the line before it, and has
\* the next number.
InOrder(rows) ==
    \A i \in DOMAIN rows :
      rows[i].kind = "line" =>
        /\ i - 1 \in DOMAIN rows /\ i + 1 \in DOMAIN rows
        /\ rows[i - 1].kind \in {"heading", "line"}
        /\ rows[i - 1].section = rows[i].section
        /\ rows[i].number = IF rows[i - 1].kind = "line" THEN rows[i - 1].number + 1 ELSE 1
        /\ rows[i + 1].kind \in {"line", "subtotal"}

\* A file lists every line the price is made of exactly once and in the order
\* of the version, each under the heading of its section: whichever lines the
\* calculator counted, exportSections keeps, and no page break loses one.
NothingPricedIsLost ==
    \A r \in Done :
      /\ Items(OfKind("line", RowsOfFile(r))) = PricedItems(Version[request[r].quotation].scopes)
      /\ InOrder(RowsOfFile(r))

\* No line of a version is higher than a page.
RowsFit ==
    \A v \in DOMAIN Version : \A i \in DOMAIN Version[v].scopes :
      \A j \in DOMAIN Version[v].scopes[i].lines :
        PdfItemRowHeight(Version[v].scopes[i].lines[j]) <= Top - Bottom

\* rows begin on a page, and those after half of them on one of their own.
Ordered(rows, half, page) ==
    LET low(i) == rows[i].top - rows[i].row.height IN
    /\ rows[1].page = page /\ rows[1].top = Top
    /\ \A i \in DOMAIN rows : low(i) >= Bottom
    /\ \A i \in DOMAIN rows \ {1} :
         \/ /\ i # half + 1
            /\ rows[i].page = rows[i - 1].page /\ rows[i].top = low(i - 1)
         \/ /\ i = half + 1 \/ low(i - 1) - rows[i].row.height < Bottom
            /\ rows[i].page = rows[i - 1].page + 1 /\ rows[i].top = Top

\* Nothing is drawn below the margin of a page.  Each row is below the one
\* before it, without a gap, or at the top of the next page, and then it had
\* no place below that one or begins the list of materials.  No row of the
\* lists is missing, up to the total.
PagesFollowOneAnother ==
    \A r \in Done :
      request[r].format = "PDF" =>
        LET q == request[r].quotation
            half == Pdf[q].half
            rows == half \o Pdf[q].material IN
        /\ RowsOf(rows) = PdfRows(Version[q]) \o MaterialPdfRows
        /\ Ordered(rows, Len(half), IntroductoryPages + 1)

Distance(m, n) == IF m > n THEN m - n ELSE n - m
Amounts(rows) == SumOver(LAMBDA row : row.amount, rows)

Explained(q, rows) ==
    LET summary == OfKind("summary", rows)
        subtotals == OfKind("subtotal", rows)
        total == summary[Len(summary)].amount
        price == IF q.status = "APPROVED" THEN q.adjusted ELSE q.total IN
    /\ \A i \in DOMAIN subtotals :
         LET lines == OfSection(i, OfKind("line", rows)) IN
         2 * Distance(Amounts(lines), subtotals[i].amount) <= Len(lines) + 1
    /\ 2 * Distance(Amounts(subtotals), summary[1].amount) <= Len(subtotals) + 1
    /\ 2 * Distance(Amounts(Front(summary)), total) <= Len(summary)
    /\ \A i \in DOMAIN summary : summary[i].number = i
    /\ Distance(total, Shown(price + (price * 6) \div 100)) <= 1

\* The numbers of a file explain each other: lines add up to their subtotal,
\* subtotals to the direct cost and the rows of the summary to its total,
\* each up to the rounding of what is added; the total is the price the
\* version has, with the discount if and only if that is approved, and tax.
FileExplainsPrice ==
    \A r \in Done : Explained(Version[request[r].quotation], RowsOfFile(r))

\* What the two files say of a line is the same, notes included.  The code
\* estimates the lines a note takes with narrower punctuation than the font
\* has, and drops what does not fit.
NotesComplete ==
    \A r \in Done :
      LET q == Version[request[r].quotation]
          notes(i) == (CHOOSE l \in UNION {Range(q.scopes[s].lines) : s \in DOMAIN q.scopes} :
                         l.item = i).note
          lines == OfKind("line", RowsOfFile(r)) IN
      \A i \in DOMAIN lines : lines[i].note = Length(notes(lines[i].item))
=============================================================================

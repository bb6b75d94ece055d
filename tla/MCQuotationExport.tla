-------------------------- MODULE MCQuotationExport --------------------------
EXTENDS QuotationExport, TLC

Symmetry == Permutations(Requests)

\* The hypothesis under which the order of the pages is proved.
ASSUME LinesFit == RowsFit

\* Chinese characters and punctuation are as wide as the font is high.
Widths == [g \in {"han", "mark", "digit"} |-> IF g = "digit" THEN 111 ELSE 200]

Text(n) == [paragraphs |-> IF n = 0 THEN <<>> ELSE <<[i \in 1..n |-> "han"]>>,
            returns |-> FALSE]
Paragraphs == [paragraphs |-> <<[i \in 1..40 |-> "han"], <<>>, [i \in 1..9 |-> "digit"]>>,
               returns |-> FALSE]
Punctuated == [paragraphs |-> <<[i \in 1..35 |-> IF i % 5 = 0 THEN "mark" ELSE "han"]>>,
               returns |-> FALSE]

\* A line as calculateScope leaves it.
Line(item, quantity, price, name, note) ==
    LET amount == IF quantity = None THEN 0 ELSE Multiply4(quantity, price) IN
    [item |-> item, selected |-> quantity # None, quantity |-> quantity, price |-> price,
     amount |-> IF amount = 0 THEN None ELSE amount, name |-> name, note |-> note]

Scope(name, lines) ==
    [name |-> name, lines |-> lines, subtotal |-> SumOver(AmountOf, lines)]

\* n lines with amounts that need rounding.
Many(n, note) == [i \in 1..n |-> Line(<<"many", i>>, 10333, 777 + i, Text(6), note)]

\* Amounts of a version, with a fee of ten percent.
Stored(status, adjustment, rate, writeOff, scopes) ==
    LET direct == SumOver(LAMBDA s : s.subtotal, scopes)
        fee == Multiply4(direct, 1000)
        adjusted == Multiply4(direct + fee, rate) - writeOff IN
    [status |-> status, adjustment |-> adjustment, rate |-> rate, writeOff |-> writeOff,
     scopes |-> scopes, direct |-> direct, fee |-> fee, total |-> direct + fee,
     adjusted |-> IF adjusted > 0 THEN adjusted ELSE 0]

\* Nothing selected, amounts of zero, a section without amounts.
Few(note) ==
    <<Scope("wall", <<Line("not selected", None, 900, Text(4), Text(0)),
                      Line("too little", 3, 900, Text(4), Text(0))>>),
      Scope("bedroom", <<Line("no quantity", 0, 900, Text(4), Text(0)),
                         Line("ceiling", 20051, 1533, Text(4), note),
                         Line("floor", 15049, 1249, Text(4), Text(0))>>)>>

\* Rows that end exactly at the margin, and one more.
Long(n) == <<Scope("wall", Many(n, Text(0))), Scope("bedroom", Many(3, Paragraphs))>>

\* States of versions with their discounts, one of them not exportable, and
\* how long the list of lines is.
States == <<<<"QUOTED", "AWAITING_SUBMISSION", Scale, 0, 11>>,
            <<"QUOTED", "AWAITING_SUBMISSION", 9000, 33, 12>>,
            <<"QUOTED", "SUBMITTED", 9000, 33, 11>>,
            <<"APPROVED", "CONFIRMED", 9000, 33, 11>>,
            <<"APPROVED", "CONFIRMED", Scale, 0, 10>>,
            <<"APPROVED", "CONFIRMED", 5001, 0, 12>>>>

\* Every state with few lines and with many.
SomeQuotations ==
    [v \in 1..(2 * Len(States)) |->
       LET s == States[(v % Len(States)) + 1] IN
       Stored(s[1], s[2], s[3], s[4], IF v > Len(States) THEN Long(s[5]) ELSE Few(Text(33)))]

PunctuatedQuotations ==
    [note \in {"plain", "punctuated"} |->
       Stored("APPROVED", "CONFIRMED", 9000, 33,
              Few(IF note = "plain" THEN Text(64) ELSE Punctuated))]
=============================================================================

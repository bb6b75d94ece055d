------------------------ MODULE QuotationPricingProofs ------------------------
(***************************************************************************)
(* Proofs about QuotationPricing: what the service saves, what statements  *)
(* on spaces change and what a version offers is what the calculator makes *)
(* of the entries, whatever the template, the spaces and the prices are.   *)
(*                                                                         *)
(* Totals are sums over the lines of a scope and over scopes.  The first   *)
(* part proves what is needed of them, by way of the least number that has *)
(* a property: a fold over a finite set exists and, of natural numbers, is *)
(* one.                                                                    *)
(***************************************************************************)
EXTENDS QuotationPricing, FiniteSetTheorems, WellFoundedInduction, TLAPS

-----------------------------------------------------------------------------
(***************************************************************************)
(* Sums.                                                                   *)
(***************************************************************************)

\* A set of natural numbers that has an element has a least one.
LEMMA LeastNumber ==
    ASSUME NEW T \in SUBSET Nat, T # {}
    PROVE  \E n \in T : \A m \in T : n <= m
  <1>1. PICK n \in T : \A m \in T : <<m, n>> \notin OpToRel(<, Nat)
    BY NatLessThanWellFounded, WFMin, Zenon
  <1>2. ASSUME NEW m \in T
        PROVE n <= m
    <2>1. <<m, n>> \in Nat \X Nat
      OBVIOUS
    <2>2. m < n => <<m, n>> \in OpToRel(<, Nat)
      BY <2>1, Zenon DEF OpToRel
    <2>3. <<m, n>> \notin OpToRel(<, Nat)
      BY <1>1
    <2>4. ~(m < n)
      BY <2>2, <2>3, Zenon
    <2>5. m \in Nat /\ n \in Nat
      OBVIOUS
    <2> QED
      BY <2>4, <2>5
  <1> QED
    BY <1>2

\* One step of the sum of f over s, when h sums smaller sets.
Step(f, h, s) ==
    IF s = {} THEN 0
    ELSE f[CHOOSE x \in s : TRUE] + h[s \ {CHOOSE x \in s : TRUE}]

SumsOf(f, h) == h = [s \in SUBSET (DOMAIN f) |-> Step(f, h, s)]

\* What is left of a finite set without the element that is summed first.
LEMMA RestSmaller ==
    ASSUME NEW S, IsFiniteSet(S), NEW s \in SUBSET S, s # {},
           NEW x, x = CHOOSE y \in s : TRUE
    PROVE  /\ x \in s /\ IsFiniteSet(s) /\ s \ {x} \in SUBSET S
           /\ Cardinality(s) \in Nat /\ Cardinality(s \ {x}) \in Nat
           /\ Cardinality(s \ {x}) = Cardinality(s) - 1
  <1>1. x \in s
    OBVIOUS
  <1>2. IsFiniteSet(s)
    BY FS_Subset
  <1>3. /\ IsFiniteSet(s \ {x})
        /\ Cardinality(s \ {x}) = Cardinality(s) - 1
    BY <1>1, <1>2, FS_RemoveElement
  <1>4. Cardinality(s) \in Nat /\ Cardinality(s \ {x}) \in Nat
    BY <1>2, <1>3, FS_CardinalityType
  <1>5. s \ {x} \in SUBSET S
    OBVIOUS
  <1> QED BY <1>1, <1>2, <1>3, <1>4, <1>5

\* A function that sums the sets of up to n elements.
SumsUpTo(f, h, n) ==
    \A s \in SUBSET (DOMAIN f) : Cardinality(s) <= n => h[s] = Step(f, h, s)

\* It exists for every n.
LEMMA SumsUpToExists ==
    ASSUME NEW f, IsFiniteSet(DOMAIN f), NEW n \in Nat
    PROVE  \E h : SumsUpTo(f, h, n)
  <1> DEFINE T == {m \in Nat : ~\E h : SumsUpTo(f, h, m)}
  <1> SUFFICES ASSUME T # {} PROVE FALSE
    OBVIOUS
  <1>1. PICK m \in T : \A k \in T : m <= k
    BY LeastNumber
  <1>2. m \in Nat /\ ~\E h : SumsUpTo(f, h, m)
    OBVIOUS
  <1>3. CASE m = 0
    <2> DEFINE h == [s \in SUBSET (DOMAIN f) |-> 0]
    <2>1. ASSUME NEW s \in SUBSET (DOMAIN f), Cardinality(s) <= 0
          PROVE h[s] = Step(f, h, s)
      <3>1. IsFiniteSet(s)
        BY FS_Subset
      <3>2. Cardinality(s) \in Nat
        BY <3>1, FS_CardinalityType
      <3>3. Cardinality(s) = 0
        BY <2>1, <3>2
      <3>4. s = {}
        BY <3>1, <3>3, FS_EmptySet
      <3> QED BY <3>4 DEF Step
    <2>2. SumsUpTo(f, h, m)
      BY <1>3, <2>1 DEF SumsUpTo
    <2> QED BY <1>2, <2>2
  <1>4. CASE m # 0
    <2>1. m - 1 \in Nat /\ m - 1 \notin T
      BY <1>1, <1>2, <1>4
    <2>2. PICK h : SumsUpTo(f, h, m - 1)
      BY <2>1
    <2> DEFINE g == [s \in SUBSET (DOMAIN f) |-> Step(f, h, s)]
    <2>3. ASSUME NEW s \in SUBSET (DOMAIN f), Cardinality(s) <= m
          PROVE g[s] = Step(f, g, s)
      <3>1. CASE s = {}
        BY <3>1 DEF Step
      <3>2. CASE s # {}
        <4> DEFINE x == CHOOSE y \in s : TRUE
                   rest == s \ {x}
        <4>1. /\ rest \in SUBSET (DOMAIN f)
              /\ Cardinality(s) \in Nat /\ Cardinality(rest) = Cardinality(s) - 1
          BY <3>2, RestSmaller
        <4>2. Cardinality(rest) <= m - 1
          BY <2>3, <4>1, <1>2
        <4>3. h[rest] = Step(f, h, rest)
          BY <2>2, <4>1, <4>2 DEF SumsUpTo
        <4>4. g[rest] = h[rest]
          BY <4>1, <4>3
        <4>5. Step(f, h, s) = f[x] + h[rest] /\ Step(f, g, s) = f[x] + g[rest]
          BY <3>2 DEF Step
        <4> QED BY <4>4, <4>5
      <3> QED BY <3>1, <3>2
    <2>4. SumsUpTo(f, g, m)
      BY <2>3 DEF SumsUpTo
    <2> QED BY <1>2, <2>4
  <1> QED BY <1>3, <1>4

\* Hence for all subsets of a finite domain at once.
LEMMA SumsExist ==
    ASSUME NEW f, IsFiniteSet(DOMAIN f)
    PROVE  \E h : SumsOf(f, h)
  <1>1. Cardinality(DOMAIN f) \in Nat
    BY FS_CardinalityType
  <1>2. PICK h : SumsUpTo(f, h, Cardinality(DOMAIN f))
    BY <1>1, SumsUpToExists
  <1> DEFINE g == [s \in SUBSET (DOMAIN f) |-> h[s]]
  <1>3. ASSUME NEW s \in SUBSET (DOMAIN f)
        PROVE g[s] = Step(f, g, s)
    <2>1. Cardinality(s) <= Cardinality(DOMAIN f)
      BY FS_Subset
    <2>2. h[s] = Step(f, h, s)
      BY <1>2, <2>1 DEF SumsUpTo
    <2>3. Step(f, g, s) = Step(f, h, s)
      BY DEF Step
    <2> QED BY <2>2, <2>3
  <1>4. g = [s \in SUBSET (DOMAIN f) |-> Step(f, g, s)]
    BY <1>3
  <1> QED BY <1>4 DEF SumsOf

\* The sum of a function is the value of such a function.
LEMMA SumEquation ==
    ASSUME NEW f, IsFiniteSet(DOMAIN f)
    PROVE  \E h : SumFunction(f) = h[DOMAIN f] /\ SumsOf(f, h)
  <1> DEFINE Eq(h) == h = [s \in SUBSET (DOMAIN f) |->
                             IF s = {} THEN 0
                             ELSE f[CHOOSE x \in s : TRUE]
                                    + h[s \ {CHOOSE x \in s : TRUE}]]
             iter == CHOOSE h : Eq(h)
  <1>1. SumFunction(f) = iter[DOMAIN f]
    BY DEF SumFunction, SumFunctionOnSet, FoldFunctionOnSet, MapThenFoldSet
  <1>2. \A h : Eq(h) <=> SumsOf(f, h)
    BY DEF SumsOf, Step
  <1> HIDE DEF Eq
  <1>3. Eq(iter)
    BY <1>2, SumsExist
  <1> HIDE DEF iter
  <1> QED
    BY <1>1, <1>2, <1>3

\* A sum of natural numbers is one.
LEMMA SumIsNat ==
    ASSUME NEW S, IsFiniteSet(S), NEW f \in [S -> Nat]
    PROVE  SumFunction(f) \in Nat
  <1>1. PICK h : SumFunction(f) = h[S] /\ SumsOf(f, h)
    BY SumEquation
  <1> DEFINE T == {m \in Nat : \E s \in SUBSET S : Cardinality(s) = m /\ h[s] \notin Nat}
  <1> SUFFICES ASSUME h[S] \notin Nat PROVE FALSE
    BY <1>1
  <1>2. Cardinality(S) \in T
    BY FS_CardinalityType
  <1>3. PICK m \in T : \A k \in T : m <= k
    BY <1>2, LeastNumber
  <1>4. PICK s \in SUBSET S : Cardinality(s) = m /\ h[s] \notin Nat
    OBVIOUS
  <1>5. h[s] = Step(f, h, s)
    BY <1>1 DEF SumsOf
  <1>6. CASE s = {}
    BY <1>4, <1>5, <1>6 DEF Step
  <1>7. CASE s # {}
    <2> DEFINE x == CHOOSE y \in s : TRUE
               rest == s \ {x}
    <2>1. /\ x \in s /\ rest \in SUBSET S
          /\ Cardinality(s) \in Nat /\ Cardinality(rest) \in Nat
          /\ Cardinality(rest) = Cardinality(s) - 1
      BY <1>7, RestSmaller
    <2>2. ~(m <= Cardinality(rest))
      BY <1>4, <2>1
    <2>3. Cardinality(rest) \notin T
      BY <1>3, <2>2
    <2>4. h[rest] \in Nat
      BY <2>1, <2>3
    <2>5. f[x] \in Nat
      BY <2>1
    <2>6. Step(f, h, s) = f[x] + h[rest]
      BY <1>7 DEF Step
    <2> QED BY <1>4, <1>5, <2>4, <2>5, <2>6
  <1> QED BY <1>6, <1>7

-----------------------------------------------------------------------------
(***************************************************************************)
(* Decimals.                                                               *)
(***************************************************************************)

\* The quotient by the scale is the number k with k scales below.
LEMMA Quotient ==
    ASSUME NEW a \in Int
    PROVE  /\ a \div Scale \in Int
           /\ (a \div Scale) * Scale <= a
           /\ a < (a \div Scale) * Scale + Scale
  <1>1. Scale \in Nat \ {0}
    BY ConstantsAssumption
  <1> QED BY <1>1

\* A product of amounts is one; that of natural numbers is not negative.
LEMMA Multiply4Type ==
    ASSUME NEW l \in Int, NEW r \in Int
    PROVE  /\ Multiply4(l, r) \in Int
           /\ l \in Nat /\ r \in Nat => Multiply4(l, r) \in Nat
  <1>1. Scale \in Nat \ {0}
    BY ConstantsAssumption
  <1>2. Scale \div 2 \in Nat
    BY <1>1
  <1>3. l * r \in Int
    OBVIOUS
  <1> DEFINE a == l * r + Scale \div 2
  <1>4. a \in Int
    BY <1>2, <1>3
  <1>5. a \div Scale \in Int /\ a < (a \div Scale) * Scale + Scale
    BY <1>4, Quotient
  <1>6. ASSUME l \in Nat, r \in Nat
        PROVE a \div Scale \in Nat
    <2>1. l * r >= 0
      BY <1>6
    <2>2. a >= 0
      BY <1>2, <1>3, <2>1
    <2> DEFINE k == a \div Scale
    <2>3. k \in Int /\ a < k * Scale + Scale
      BY <1>5
    <2> HIDE DEF a, k
    <2>4. k >= 0
      <3>1. SUFFICES ASSUME k <= -1 PROVE FALSE
        BY <2>3
      <3>2. k * Scale <= -Scale
        BY <1>1, <2>3, <3>1
      <3> QED BY <1>1, <1>4, <2>2, <2>3, <3>2
    <2> QED BY <2>3, <2>4 DEF k
  <1> QED BY <1>5, <1>6 DEF Multiply4

\* The same for natural numbers, to be used as it stands.
LEMMA Multiply4Nat ==
    \A l, r \in Nat : Multiply4(l, r) \in Nat
  <1>1. ASSUME NEW l \in Nat, NEW r \in Nat
        PROVE Multiply4(l, r) \in Nat
    <2>1. l \in Int /\ r \in Int
      OBVIOUS
    <2> QED BY <2>1, Multiply4Type
  <1> QED BY <1>1

\* A rate of at most one takes at most the whole; a rate of one is exact.
LEMMA Multiply4Rate ==
    ASSUME NEW t \in Nat, NEW d \in 0..Scale
    PROVE  /\ Multiply4(t, d) \in Nat /\ Multiply4(t, d) <= t
           /\ Multiply4(t, Scale) = t
  <1>1. Scale \in Nat \ {0}
    BY ConstantsAssumption
  <1>2. Scale \div 2 \in Nat /\ Scale \div 2 < Scale
    BY <1>1
  <1>3. ASSUME NEW k \in Int, NEW e \in Nat, k * Scale <= t * e + Scale \div 2, e <= Scale
        PROVE k <= t
    <2>1. t * e <= t * Scale
      BY <1>1, <1>3
    <2>2. k * Scale < t * Scale + Scale
      BY <1>1, <1>2, <1>3, <2>1
    <2>3. SUFFICES ASSUME k >= t + 1 PROVE FALSE
      BY <1>3
    <2>4. k * Scale >= (t + 1) * Scale
      BY <1>1, <2>3
    <2>5. (t + 1) * Scale = t * Scale + Scale
      BY <1>1
    <2> QED BY <1>1, <2>2, <2>4, <2>5
  <1>4. Multiply4(t, d) <= t
    <2>1. t * d + Scale \div 2 \in Int
      BY <1>1, <1>2
    <2>2. /\ Multiply4(t, d) \in Int
          /\ Multiply4(t, d) * Scale <= t * d + Scale \div 2
      BY <2>1, Quotient DEF Multiply4
    <2> QED BY <1>1, <1>3, <2>2
  <1>5. Multiply4(t, Scale) = t
    <2>1. t * Scale + Scale \div 2 \in Int
      BY <1>1, <1>2
    <2> DEFINE k == Multiply4(t, Scale)
    <2>2. /\ k \in Int /\ k * Scale <= t * Scale + Scale \div 2
          /\ t * Scale + Scale \div 2 < k * Scale + Scale
      BY <2>1, Quotient DEF Multiply4
    <2>3. k <= t
      BY <1>1, <1>3, <2>2
    <2> HIDE DEF k
    <2>4. t <= k
      <3>1. SUFFICES ASSUME k + 1 <= t PROVE FALSE
        BY <2>2
      <3>2. (k + 1) * Scale <= t * Scale
        BY <1>1, <2>2, <3>1
      <3>3. (k + 1) * Scale = k * Scale + Scale
        BY <1>1, <2>2
      <3> QED BY <1>1, <1>2, <2>2, <3>2, <3>3
    <2>5. k = t
      BY <2>2, <2>3, <2>4
    <2> QED BY <2>5 DEF k
  <1>6. t \in Int /\ d \in Int /\ d \in Nat
    BY <1>1
  <1>7. Multiply4(t, d) \in Nat
    BY <1>6, Multiply4Type
  <1> QED BY <1>4, <1>5, <1>7

\* The maximum with zero.
LEMMA AtLeastZeroType ==
    ASSUME NEW n \in Int
    PROVE  AtLeastZero(n) \in Nat /\ (n \in Nat => AtLeastZero(n) = n)
  BY DEF AtLeastZero

-----------------------------------------------------------------------------
(***************************************************************************)
(* Lines and their rules.                                                  *)
(***************************************************************************)

\* A line is a pair of one of the scopes and an item of it.
LEMMA LineShape ==
    ASSUME NEW scopes, NEW l \in Lines(scopes)
    PROVE  /\ l = <<l[1], l[2]>> /\ l[1] \in scopes /\ l[2] \in ItemsOf(l[1])
           /\ l[2] \in Template
  <1>1. PICK s \in scopes : l \in {s} \X ItemsOf(s)
    BY DEF Lines
  <1>2. l = <<l[1], l[2]>> /\ l[1] = s /\ l[2] \in ItemsOf(s)
    BY <1>1
  <1>3. ItemsOf(s) \subseteq Template
    BY DEF ItemsOf, ItemsForSpace
  <1> QED BY <1>2, <1>3

\* Each such pair is a line.
LEMMA LineOfScope ==
    ASSUME NEW scopes, NEW s \in scopes, NEW i \in ItemsOf(s)
    PROVE  <<s, i>> \in Lines(scopes)
  <1>1. <<s, i>> \in {s} \X ItemsOf(s)
    OBVIOUS
  <1> QED BY <1>1 DEF Lines

\* The lines of some scopes are the lines of more whose scope is one of them.
LEMMA LinesOfFewer ==
    ASSUME NEW few, NEW scopes, few \subseteq scopes
    PROVE  Lines(few) = {l \in Lines(scopes) : l[1] \in few}
  <1>1. ASSUME NEW l \in Lines(few)
        PROVE l \in Lines(scopes) /\ l[1] \in few
    BY <1>1, LineShape, LineOfScope
  <1>2. ASSUME NEW l \in Lines(scopes), l[1] \in few
        PROVE l \in Lines(few)
    BY <1>2, LineShape, LineOfScope
  <1> QED BY <1>1, <1>2

\* A line that refers to another one refers to a line of its scope that has
\* a quantity of its own.
LEMMA ReferencedLineOwn ==
    ASSUME NEW l \in AllLines, Rule[l] = "LINE_REFERENCE"
    PROVE  /\ ReferencedLine[l] \in AllLines
           /\ ReferencedLine[l] = <<l[1], ReferencedLine[l][2]>>
           /\ Rule[ReferencedLine[l]] # "LINE_REFERENCE"
           /\ ReferencedLine[l] # l
  <1> DEFINE r == ReferencedLine[l]
             IsReferenced(x) == /\ x[2].section = l[2].section
                                /\ x[2].name = ReferencedItemName(l[2])
  <1>1. l \in DOMAIN ReferencedLine
    BY DEF ReferencedLine
  <1>2. r = CHOOSE x \in Lines({l[1]}) : IsReferenced(x)
    BY <1>1 DEF ReferencedLine
  <1>3. \E x \in Lines({l[1]}) : IsReferenced(x)
    BY <1>1, ReferencesAssumption
  <1>4. r \in Lines({l[1]}) /\ IsReferenced(r)
    <2> HIDE DEF IsReferenced, r
    <2> QED BY <1>2, <1>3
  <1>5. l[1] \in GeneralScopes \cup Spaces
    BY LineShape DEF AllLines
  <1>6. /\ r = <<l[1], r[2]>> /\ r[2] \in ItemsOf(l[1])
    BY <1>4, LineShape
  <1>7. r \in AllLines
    BY <1>5, <1>6, LineOfScope DEF AllLines
  <1>8. Rule[r] = QuantityRuleFor(r[2]) /\ Rule[l] = QuantityRuleFor(l[2])
    BY <1>7 DEF Rule
  <1>9. /\ r[2].section = l[2].section
        /\ r[2].name = ReferencedItemName(l[2])
    BY <1>4
  <1>10. ReferencedItemName(l[2]) # None
    BY <1>8 DEF QuantityRuleFor
  <1>11. \/ l[2].section = "WALL" /\ r[2].name = "double partition"
         \/ l[2].section \in RoomSections /\ r[2].name \in {"ceiling base", "wall base"}
         \/ l[2].section = "KITCHEN_BATHROOM" /\ r[2].name \in {"flat ceiling", "floor filling"}
    BY <1>9, <1>10 DEF ReferencedItemName
  <1>12. ReferencedItemName(r[2]) = None
    BY <1>9, <1>11 DEF ReferencedItemName
  <1>13. QuantityRuleFor(r[2]) # "LINE_REFERENCE"
    BY <1>12 DEF QuantityRuleFor
  <1>14. r # l
    BY <1>8, <1>13
  <1> QED BY <1>6, <1>7, <1>8, <1>13, <1>14

Rules == {"MANUAL", "PROJECT_OUTER_FRAME_AREA", "SPACE_AREA",
          "SPACE_PERIMETER_HEIGHT", "LINE_REFERENCE"}

\* Only lines of a space have a rule that measures the space.
LEMMA RuleOfLine ==
    ASSUME NEW l \in AllLines
    PROVE  /\ Rule[l] \in Rules
           /\ Rule[l] \in {"SPACE_AREA", "SPACE_PERIMETER_HEIGHT"} => l[1] \in Spaces
  <1>1. Rule[l] = QuantityRuleFor(l[2])
    BY DEF Rule
  <1>2. QuantityRuleFor(l[2]) \in Rules
    BY DEF QuantityRuleFor, Rules
  <1>3. l[1] \in GeneralScopes \cup Spaces /\ l[2] \in ItemsOf(l[1])
    BY LineShape DEF AllLines
  <1>4. CASE l[1] \in Spaces
    BY <1>1, <1>2, <1>4
  <1>5. CASE l[1] \notin Spaces
    <2>1. l[2].section \in GeneralSections
      BY <1>3, <1>5 DEF ItemsOf, GeneralScopes
    <2>2. l[2].section \notin RoomSections /\ l[2].section # "KITCHEN_BATHROOM"
      BY <2>1 DEF GeneralSections, RoomSections
    <2>3. QuantityRuleFor(l[2]) \notin {"SPACE_AREA", "SPACE_PERIMETER_HEIGHT"}
      BY <2>2 DEF QuantityRuleFor
    <2> QED BY <1>1, <1>2, <2>3
  <1> QED BY <1>4, <1>5

-----------------------------------------------------------------------------
(***************************************************************************)
(* The calculator.                                                         *)
(***************************************************************************)

\* The quantity of a selected line that does not refer to another one.
Own(rows, sizes, l) ==
    CASE Rule[l] = "MANUAL" -> rows[l].manual
      [] Rule[l] = "PROJECT_OUTER_FRAME_AREA" -> FrameArea
      [] Rule[l] = "SPACE_AREA" -> sizes[l[1]].area
      [] Rule[l] = "SPACE_PERIMETER_HEIGHT" ->
           Multiply4(sizes[l[1]].perimeter, sizes[l[1]].height)

\* Every quantity in closed form: a line that refers to another one takes
\* the own quantity of that.
Resolved(rows, sizes, l) ==
    IF ~rows[l].selected THEN None
    ELSE IF Rule[l] # "LINE_REFERENCE" THEN Own(rows, sizes, l)
    ELSE IF ~rows[ReferencedLine[l]].selected THEN None
    ELSE Own(rows, sizes, ReferencedLine[l])

\* What resolveQuantity does for a line when q holds the other quantities.
Resolve(rows, sizes, q, l) ==
    IF rows[l].selected THEN QuantityForRule(rows, sizes, q, l) ELSE None

\* The scopes of a draft: those of general sections and some spaces.
ScopeSets == SUBSET (GeneralScopes \cup Spaces)

\* Lines of a draft are lines the template gives, and contain those they
\* refer to.
LEMMA LinesAreKnown ==
    ASSUME NEW scopes \in ScopeSets, NEW l \in Lines(scopes)
    PROVE  /\ l \in AllLines
           /\ Rule[l] = "LINE_REFERENCE" => ReferencedLine[l] \in Lines(scopes)
  <1>1. scopes \subseteq GeneralScopes \cup Spaces
    BY DEF ScopeSets
  <1>2. l \in AllLines
    BY <1>1, LinesOfFewer DEF AllLines
  <1>3. l[1] \in scopes
    BY LineShape
  <1>4. ASSUME Rule[l] = "LINE_REFERENCE"
        PROVE ReferencedLine[l] \in Lines(scopes)
    <2>1. /\ ReferencedLine[l] \in AllLines
          /\ ReferencedLine[l] = <<l[1], ReferencedLine[l][2]>>
      BY <1>2, <1>4, ReferencedLineOwn
    <2>2. ReferencedLine[l][1] = l[1]
      BY <2>1
    <2> QED BY <1>1, <1>3, <2>1, <2>2, LinesOfFewer DEF AllLines
  <1> QED BY <1>2, <1>4

\* resolveQuantity by the rule of the line.
LEMMA ResolveByRule ==
    ASSUME NEW scopes \in ScopeSets, NEW rows, DOMAIN rows = Lines(scopes), NEW sizes,
           NEW q, NEW l \in Lines(scopes)
    PROVE  Resolve(rows, sizes, q, l) =
             IF ~rows[l].selected THEN None
             ELSE IF Rule[l] # "LINE_REFERENCE" THEN Own(rows, sizes, l)
             ELSE q[ReferencedLine[l]]
  <1>1. Rule[l] \in Rules
    BY LinesAreKnown, RuleOfLine
  <1> QED BY <1>1 DEF Resolve, QuantityForRule, Own, Rules

\* The recursion ends after one reference, so there is one solution.
LEMMA ResolvedIs ==
    ASSUME NEW scopes \in ScopeSets, NEW rows, DOMAIN rows = Lines(scopes), NEW sizes
    PROVE  ResolvedQuantities(rows, sizes) = [l \in DOMAIN rows |-> Resolved(rows, sizes, l)]
  <1> DEFINE Eq(q) == q = [l \in DOMAIN rows |->
                            IF rows[l].selected
                            THEN QuantityForRule(rows, sizes, q, l) ELSE None]
             Sol(q) == q = [l \in DOMAIN rows |-> Resolve(rows, sizes, q, l)]
             chosen == CHOOSE q : Eq(q)
             closed == [l \in DOMAIN rows |-> Resolved(rows, sizes, l)]
  <1>1. ResolvedQuantities(rows, sizes) = chosen
    BY DEF ResolvedQuantities
  <1>2. \A q : Eq(q) <=> Sol(q)
    BY DEF Resolve
  <1>3. ASSUME NEW l \in Lines(scopes), Rule[l] = "LINE_REFERENCE"
        PROVE  /\ ReferencedLine[l] \in Lines(scopes)
               /\ Rule[ReferencedLine[l]] # "LINE_REFERENCE"
    BY <1>3, LinesAreKnown, ReferencedLineOwn
  <1>4. Sol(closed)
    <2>1. ASSUME NEW l \in DOMAIN rows
          PROVE  closed[l] = Resolve(rows, sizes, closed, l)
      <3>1. l \in Lines(scopes)
        OBVIOUS
      <3>2. Resolve(rows, sizes, closed, l) =
             IF ~rows[l].selected THEN None
             ELSE IF Rule[l] # "LINE_REFERENCE" THEN Own(rows, sizes, l)
             ELSE closed[ReferencedLine[l]]
        BY <3>1, ResolveByRule
      <3>3. CASE Rule[l] # "LINE_REFERENCE"
        BY <3>2, <3>3 DEF Resolved
      <3>4. CASE Rule[l] = "LINE_REFERENCE"
        <4>1. closed[ReferencedLine[l]] =
                IF ~rows[ReferencedLine[l]].selected THEN None
                ELSE Own(rows, sizes, ReferencedLine[l])
          BY <1>3, <3>1, <3>4 DEF Resolved
        <4> QED BY <3>2, <3>4, <4>1 DEF Resolved
      <3> QED BY <3>3, <3>4
    <2> QED BY <2>1
  <1>5. ASSUME NEW q, Sol(q)
        PROVE  q = closed
    <2>1. ASSUME NEW l \in Lines(scopes)
          PROVE  q[l] = IF ~rows[l].selected THEN None
                        ELSE IF Rule[l] # "LINE_REFERENCE" THEN Own(rows, sizes, l)
                        ELSE q[ReferencedLine[l]]
      <3>1. q[l] = Resolve(rows, sizes, q, l)
        BY <1>5
      <3> QED BY <3>1, ResolveByRule
    <2>2. ASSUME NEW l \in Lines(scopes)
          PROVE  q[l] = Resolved(rows, sizes, l)
      <3>1. CASE Rule[l] # "LINE_REFERENCE"
        BY <2>1, <3>1 DEF Resolved
      <3>2. CASE Rule[l] = "LINE_REFERENCE"
        <4>1. q[ReferencedLine[l]] =
                IF ~rows[ReferencedLine[l]].selected THEN None
                ELSE Own(rows, sizes, ReferencedLine[l])
          BY <1>3, <2>1, <3>2
        <4> QED BY <2>1, <3>2, <4>1 DEF Resolved
      <3> QED BY <3>1, <3>2
    <2>3. q = [l \in DOMAIN rows |-> q[l]]
      BY <1>5
    <2> QED BY <2>2, <2>3
  <1> HIDE DEF Eq, Sol, closed
  <1>6. Eq(chosen)
    BY <1>2, <1>4
  <1> HIDE DEF chosen
  <1>7. chosen = closed
    BY <1>2, <1>5, <1>6
  <1> QED BY <1>1, <1>7 DEF closed

\* The lines of a quotation with these spaces.
LinesOf(sizes) == Lines(GeneralScopes \cup DOMAIN sizes)

\* Rows of a quotation that has spaces of these sizes, as in TypeOK.
Draft(rows, sizes) ==
    /\ DOMAIN sizes \subseteq Spaces
    /\ \A s \in DOMAIN sizes : sizes[s] \in Sizes
    /\ rows \in [LinesOf(sizes) -> Row]
    /\ \A l \in DOMAIN rows :
         rows[l].manual # None => rows[l].selected /\ Rule[l] = "MANUAL"

\* The amount of a quantity at a price.
AmountOf(quantity, price) ==
    IF quantity = None THEN None ELSE OrNull(Multiply4(quantity, price))

\* A row holds what the calculator makes of its quantity.
RowPriced(r, item) ==
    /\ r.amount = AmountOf(r.quantity, item.sale)
    /\ r.cost = AmountOf(r.quantity, item.cost)

Calculated(rows, sizes) ==
    \A l \in DOMAIN rows : /\ rows[l].quantity = Resolved(rows, sizes, l)
                           /\ RowPriced(rows[l], l[2])
                           /\ rows[l].profit = None <=> rows[l].quantity = None

\* The same for the lines of a quotation with these spaces.
LEMMA LineOfDraft ==
    ASSUME NEW sizes, DOMAIN sizes \subseteq Spaces, NEW l \in LinesOf(sizes)
    PROVE  /\ l \in AllLines
           /\ Rule[l] = "LINE_REFERENCE" =>
                /\ ReferencedLine[l] \in LinesOf(sizes)
                /\ Rule[ReferencedLine[l]] # "LINE_REFERENCE"
                /\ ReferencedLine[l][1] = l[1]
  <1> DEFINE scopes == GeneralScopes \cup DOMAIN sizes
  <1>1. scopes \in ScopeSets
    BY DEF ScopeSets
  <1>2. l \in Lines(scopes)
    BY DEF LinesOf
  <1>3. l \in AllLines
    BY <1>1, <1>2, LinesAreKnown
  <1>4. ASSUME Rule[l] = "LINE_REFERENCE"
        PROVE  /\ ReferencedLine[l] \in LinesOf(sizes)
               /\ Rule[ReferencedLine[l]] # "LINE_REFERENCE"
               /\ ReferencedLine[l][1] = l[1]
    <2>1. ReferencedLine[l] \in Lines(scopes)
      BY <1>1, <1>2, <1>4, LinesAreKnown
    <2>2. /\ ReferencedLine[l] = <<l[1], ReferencedLine[l][2]>>
          /\ Rule[ReferencedLine[l]] # "LINE_REFERENCE"
      BY <1>3, <1>4, ReferencedLineOwn
    <2>3. ReferencedLine[l][1] = l[1]
      BY <2>2
    <2> QED BY <2>1, <2>2, <2>3 DEF LinesOf
  <1> QED BY <1>3, <1>4

\* Prices of the template.
LEMMA PricesOfLine ==
    ASSUME NEW scopes, NEW l \in Lines(scopes)
    PROVE  l[2].sale \in Nat \ {0} /\ l[2].cost \in Nat \ {0}
  BY LineShape, ConstantsAssumption

\* Amounts are natural numbers, or null.
LEMMA AmountType ==
    ASSUME NEW q \in NullOr(Nat), NEW p \in Nat
    PROVE  /\ AmountOf(q, p) \in NullOr(Nat)
           /\ q # None => Multiply4(q, p) \in Nat
  <1>1. CASE q = None
    BY <1>1 DEF AmountOf, NullOr
  <1>2. CASE q # None
    <2>1. q \in Nat
      BY <1>2 DEF NullOr
    <2>2. q \in Int /\ p \in Int
      BY <2>1
    <2>3. Multiply4(q, p) \in Nat
      BY <2>1, <2>2, Multiply4Type
    <2> QED BY <1>2, <2>3 DEF AmountOf, OrNull, NullOr
  <1> QED BY <1>1, <1>2

\* Measures of a space give quantities.
LEMMA OwnType ==
    ASSUME NEW rows, NEW sizes, Draft(rows, sizes), NEW l \in DOMAIN rows,
           Rule[l] # "LINE_REFERENCE"
    PROVE  Own(rows, sizes, l) \in NullOr(Nat)
  <1>1. l \in LinesOf(sizes) /\ rows[l].manual \in NullOr(Nat)
    BY DEF Draft, Row
  <1>2. DOMAIN sizes \subseteq Spaces
    BY DEF Draft
  <1>3. l \in AllLines
    BY <1>1, <1>2, LineOfDraft
  <1>4. Rule[l] \in Rules
    BY <1>3, RuleOfLine
  <1>5. ASSUME Rule[l] \in {"SPACE_AREA", "SPACE_PERIMETER_HEIGHT"}
        PROVE  /\ sizes[l[1]].area \in Nat /\ sizes[l[1]].perimeter \in Nat
               /\ sizes[l[1]].height \in Nat
    <2>1. l[1] \in Spaces
      BY <1>3, <1>5, RuleOfLine
    <2>2. l[1] \in GeneralScopes \cup DOMAIN sizes
      BY <1>1, LineShape DEF LinesOf
    <2>3. l[1] \in DOMAIN sizes
      BY <2>1, <2>2, ConstantsAssumption DEF GeneralScopes
    <2>4. sizes[l[1]] \in [area : Nat \ {0}, perimeter : Nat \ {0}, height : Nat \ {0}]
      BY <2>3, ConstantsAssumption DEF Draft
    <2> QED BY <2>4
  <1>6. CASE Rule[l] = "MANUAL"
    BY <1>1, <1>6 DEF Own
  <1>7. CASE Rule[l] = "PROJECT_OUTER_FRAME_AREA"
    BY <1>7, ConstantsAssumption DEF Own, NullOr
  <1>8. CASE Rule[l] = "SPACE_AREA"
    BY <1>5, <1>8 DEF Own, NullOr
  <1>9. CASE Rule[l] = "SPACE_PERIMETER_HEIGHT"
    <2>1. sizes[l[1]].perimeter \in Nat /\ sizes[l[1]].height \in Nat
      BY <1>5, <1>9
    <2>2. Multiply4(sizes[l[1]].perimeter, sizes[l[1]].height) \in Nat
      BY <2>1, Multiply4Nat, Zenon
    <2> QED BY <1>9, <2>2 DEF Own, NullOr
  <1> QED BY <1>4, <1>6, <1>7, <1>8, <1>9 DEF Rules

\* So do lines that refer to another one.
LEMMA ResolvedType ==
    ASSUME NEW rows, NEW sizes, Draft(rows, sizes), NEW l \in DOMAIN rows
    PROVE  Resolved(rows, sizes, l) \in NullOr(Nat)
  <1>1. l \in LinesOf(sizes) /\ DOMAIN rows = LinesOf(sizes) /\ DOMAIN sizes \subseteq Spaces
    BY DEF Draft
  <1>2. Rule[l] # "LINE_REFERENCE" => Own(rows, sizes, l) \in NullOr(Nat)
    BY OwnType
  <1>3. CASE Rule[l] # "LINE_REFERENCE"
    BY <1>2, <1>3 DEF Resolved, NullOr
  <1>4. CASE Rule[l] = "LINE_REFERENCE"
    <2>1. ReferencedLine[l] \in DOMAIN rows
      BY <1>1, <1>4, LineOfDraft
    <2>2. Rule[ReferencedLine[l]] # "LINE_REFERENCE"
      BY <1>1, <1>4, LineOfDraft
    <2>3. Own(rows, sizes, ReferencedLine[l]) \in NullOr(Nat)
      BY <2>1, <2>2, OwnType
    <2> QED BY <1>4, <2>3 DEF Resolved, NullOr
  <1> QED BY <1>3, <1>4

SameEntries(a, b, sizes) ==
    \A l \in LinesOf(sizes) : /\ a[l].selected = b[l].selected
                              /\ a[l].manual = b[l].manual

\* Quantities depend on what is selected and typed in, and on the sizes.
LEMMA ResolvedOnEntries ==
    ASSUME NEW sizes, DOMAIN sizes \subseteq Spaces,
           NEW a, NEW b, SameEntries(a, b, sizes), NEW l \in LinesOf(sizes)
    PROVE  Resolved(a, sizes, l) = Resolved(b, sizes, l)
  <1>1. Rule[l] = "LINE_REFERENCE" => ReferencedLine[l] \in LinesOf(sizes)
    BY LineOfDraft
  <1>2. ASSUME NEW r \in LinesOf(sizes)
        PROVE Own(a, sizes, r) = Own(b, sizes, r)
    BY <1>2 DEF Own, SameEntries
  <1> QED BY <1>1, <1>2 DEF Resolved, SameEntries

\* What calculateScope makes of a row.
LEMMA CalculatedRow ==
    ASSUME NEW rows, NEW sizes, Draft(rows, sizes), NEW l \in DOMAIN rows,
           NEW new, new = CalculatedLines(rows, sizes)
    PROVE  /\ DOMAIN new = DOMAIN rows
           /\ new[l] \in Row
           /\ new[l].selected = rows[l].selected
           /\ new[l].manual = rows[l].manual
           /\ new[l].quantity = Resolved(rows, sizes, l)
           /\ RowPriced(new[l], l[2])
           /\ new[l].profit = None <=> new[l].quantity = None
  <1> DEFINE q == Resolved(rows, sizes, l)
             amount == IF q = None THEN 0 ELSE Multiply4(q, l[2].sale)
             cost == IF q = None THEN 0 ELSE Multiply4(q, l[2].cost)
             profit == IF q = None THEN None ELSE amount - cost
             r == [rows[l] EXCEPT !.quantity = q, !.amount = OrNull(amount),
                                  !.cost = OrNull(cost), !.profit = profit]
  <1>1. /\ DOMAIN rows = LinesOf(sizes) /\ DOMAIN sizes \subseteq Spaces
        /\ rows[l] \in Row
    BY DEF Draft
  <1> DEFINE scopes == GeneralScopes \cup DOMAIN sizes
  <1>2. scopes \in ScopeSets /\ DOMAIN rows = Lines(scopes)
    BY <1>1 DEF ScopeSets, LinesOf
  <1>3. ResolvedQuantities(rows, sizes) = [k \in DOMAIN rows |-> Resolved(rows, sizes, k)]
    <2> HIDE DEF scopes
    <2> QED BY <1>2, ResolvedIs
  <1>4. ResolvedQuantities(rows, sizes)[l] = q
    BY <1>3
  <1>5. DOMAIN new = DOMAIN rows /\ new[l] = r
    BY <1>4 DEF CalculatedLines
  <1>6. q \in NullOr(Nat)
    BY ResolvedType
  <1>7. l[2].sale \in Nat /\ l[2].cost \in Nat
    BY <1>2, PricesOfLine
  <1>8. /\ AmountOf(q, l[2].sale) \in NullOr(Nat) /\ AmountOf(q, l[2].cost) \in NullOr(Nat)
        /\ q # None => Multiply4(q, l[2].sale) \in Nat /\ Multiply4(q, l[2].cost) \in Nat
    BY <1>6, <1>7, AmountType
  <1>9. /\ OrNull(amount) = AmountOf(q, l[2].sale)
        /\ OrNull(cost) = AmountOf(q, l[2].cost)
    BY DEF AmountOf, OrNull
  <1>10. profit \in NullOr(Int) /\ (profit = None <=> q = None)
    <2>1. CASE q = None
      BY <2>1 DEF NullOr
    <2>2. CASE q # None
      <3>1. amount \in Nat /\ cost \in Nat
        BY <1>8, <2>2
      <3>2. profit \in Int
        BY <2>2, <3>1
      <3> QED BY <2>2, <3>2, ConstantsAssumption DEF NullOr
    <2> QED BY <2>1, <2>2
  <1> HIDE DEF q, amount, cost, profit
  <1>11. /\ r.selected = rows[l].selected /\ r.manual = rows[l].manual
         /\ r.quantity = q /\ r.amount = OrNull(amount) /\ r.cost = OrNull(cost)
         /\ r.profit = profit
    BY <1>1 DEF Row
  <1>12. r \in Row
    BY <1>1, <1>6, <1>8, <1>9, <1>10 DEF Row
  <1>13. RowPriced(r, l[2])
    BY <1>9, <1>11 DEF RowPriced
  <1> HIDE DEF r
  <1>14. Resolved(rows, sizes, l) = q
    BY DEF q
  <1> QED BY <1>5, <1>10, <1>11, <1>12, <1>13, <1>14

\* The rows that are saved are those of a draft and hold what the
\* calculator makes of them.
LEMMA CalculatedDraft ==
    ASSUME NEW rows, NEW sizes, Draft(rows, sizes)
    PROVE  /\ Draft(CalculatedLines(rows, sizes), sizes)
           /\ Calculated(CalculatedLines(rows, sizes), sizes)
  <1> DEFINE new == CalculatedLines(rows, sizes)
  <1>1. new = [l \in DOMAIN rows |-> new[l]]
    BY DEF CalculatedLines
  <1> HIDE DEF new
  <1>2. ASSUME NEW l \in DOMAIN rows
        PROVE  /\ new[l] \in Row
               /\ new[l].selected = rows[l].selected
               /\ new[l].manual = rows[l].manual
               /\ new[l].quantity = Resolved(rows, sizes, l)
               /\ RowPriced(new[l], l[2])
               /\ new[l].profit = None <=> new[l].quantity = None
    BY <1>2, CalculatedRow DEF new
  <1>3. DOMAIN rows = LinesOf(sizes) /\ DOMAIN sizes \subseteq Spaces
    BY DEF Draft
  <1>4. DOMAIN new = LinesOf(sizes)
    BY <1>1, <1>3
  <1>5. new \in [LinesOf(sizes) -> Row]
    BY <1>1, <1>2, <1>3
  <1>6. Draft(new, sizes)
    BY <1>2, <1>3, <1>4, <1>5 DEF Draft
  <1>7. ASSUME NEW l \in LinesOf(sizes)
        PROVE Resolved(new, sizes, l) = Resolved(rows, sizes, l)
    <2>1. SameEntries(new, rows, sizes)
      BY <1>2, <1>3 DEF SameEntries
    <2> QED BY <1>3, <2>1, ResolvedOnEntries
  <1>8. Calculated(new, sizes)
    BY <1>2, <1>3, <1>4, <1>7 DEF Calculated
  <1> QED BY <1>6, <1>8 DEF new

-----------------------------------------------------------------------------
(***************************************************************************)
(* Totals.                                                                 *)
(***************************************************************************)

\* There are finitely many lines and scopes, so that there are totals.
LEMMA LinesFinite == IsFiniteSet(AllLines) /\ IsFiniteSet(GeneralScopes \cup Spaces)
  <1>1. IsFiniteSet(GeneralSections)
    <2> DEFINE pair(x, y) == {x} \cup {y}
    <2>1. \A x, y : IsFiniteSet(pair(x, y))
      BY FS_Singleton, FS_Union
    <2>2. GeneralSections = pair("WALL", "PAINT") \cup pair("ELECTRICAL", "OTHER")
      BY DEF GeneralSections
    <2> HIDE DEF pair
    <2> QED BY <2>1, <2>2, FS_Union
  <1>2. IsFiniteSet(GeneralScopes \cup Spaces)
    <2>1. IsFiniteSet(GeneralScopes)
      BY <1>1, FS_Subset DEF GeneralScopes
    <2> QED BY <2>1, FS_Union, ConstantsAssumption
  <1>3. IsFiniteSet((GeneralScopes \cup Spaces) \X Template)
    BY <1>2, FS_Product, ConstantsAssumption
  <1>4. AllLines \subseteq (GeneralScopes \cup Spaces) \X Template
    <2>1. ASSUME NEW l \in AllLines
          PROVE l \in (GeneralScopes \cup Spaces) \X Template
      <3>1. l = <<l[1], l[2]>> /\ l[1] \in GeneralScopes \cup Spaces /\ l[2] \in Template
        BY LineShape DEF AllLines
      <3>2. <<l[1], l[2]>> \in (GeneralScopes \cup Spaces) \X Template
        BY <3>1
      <3> QED BY <3>1, <3>2
    <2> QED BY <2>1
  <1> QED BY <1>2, <1>3, <1>4, FS_Subset

\* The totals of a scope depend on the amounts of its lines.
LEMMA TotalsOnAmounts ==
    ASSUME NEW a, NEW b, NEW s,
           {l \in DOMAIN a : l[1] = s} = {l \in DOMAIN b : l[1] = s},
           \A l \in DOMAIN a : l[1] = s => a[l].amount = b[l].amount /\ a[l].cost = b[l].cost
    PROVE  ScopeTotals(a, s) = ScopeTotals(b, s)
  <1> DEFINE lines == {l \in DOMAIN a : l[1] = s}
  <1>1. /\ [l \in lines |-> OrZero(a[l].amount)] = [l \in lines |-> OrZero(b[l].amount)]
        /\ [l \in lines |-> OrZero(a[l].cost)] = [l \in lines |-> OrZero(b[l].cost)]
    OBVIOUS
  <1>2. {l \in DOMAIN b : l[1] = s} = lines
    OBVIOUS
  <1> HIDE DEF lines
  <1>3. /\ ScopeTotals(a, s) = [subtotal |-> SumFunction([l \in lines |-> OrZero(a[l].amount)]),
                                cost |-> SumFunction([l \in lines |-> OrZero(a[l].cost)])]
        /\ ScopeTotals(b, s) = [subtotal |-> SumFunction([l \in lines |-> OrZero(b[l].amount)]),
                                cost |-> SumFunction([l \in lines |-> OrZero(b[l].cost)])]
    BY <1>2 DEF ScopeTotals, lines
  <1> QED BY <1>1, <1>3

\* Rows with the same amounts have the same totals everywhere.
LEMMA SameAmountsSameTotals ==
    ASSUME NEW a, NEW b, DOMAIN a = DOMAIN b,
           \A l \in DOMAIN a : a[l].amount = b[l].amount /\ a[l].cost = b[l].cost
    PROVE  AllTotals(a) = AllTotals(b)
  <1>1. ScopesOf(a) = ScopesOf(b)
    BY DEF ScopesOf
  <1>2. ASSUME NEW s PROVE ScopeTotals(a, s) = ScopeTotals(b, s)
    BY TotalsOnAmounts
  <1> QED BY <1>1, <1>2 DEF AllTotals

\* Totals of a scope and of a quotation are natural numbers.
Totals == [subtotal : Nat, cost : Nat]

\* One scope.
LEMMA ScopeTotalsType ==
    ASSUME NEW rows, NEW sizes, Draft(rows, sizes), NEW s
    PROVE  ScopeTotals(rows, s) \in Totals
  <1> DEFINE lines == {l \in DOMAIN rows : l[1] = s}
  <1>1. DOMAIN rows \subseteq AllLines
    BY LineOfDraft DEF Draft
  <1>2. IsFiniteSet(lines)
    BY <1>1, LinesFinite, FS_Subset
  <1>3. ASSUME NEW l \in lines
        PROVE OrZero(rows[l].amount) \in Nat /\ OrZero(rows[l].cost) \in Nat
    <2>1. rows[l].amount \in NullOr(Nat) /\ rows[l].cost \in NullOr(Nat)
      BY DEF Draft, Row
    <2> QED BY <2>1 DEF NullOr, OrZero
  <1>4. /\ [l \in lines |-> OrZero(rows[l].amount)] \in [lines -> Nat]
        /\ [l \in lines |-> OrZero(rows[l].cost)] \in [lines -> Nat]
    BY <1>3
  <1> DEFINE amounts == [l \in lines |-> OrZero(rows[l].amount)]
             costs == [l \in lines |-> OrZero(rows[l].cost)]
  <1>5. ScopeTotals(rows, s) = [subtotal |-> SumFunction(amounts), cost |-> SumFunction(costs)]
    BY DEF ScopeTotals
  <1> HIDE DEF amounts, costs, lines
  <1>6. SumFunction(amounts) \in Nat /\ SumFunction(costs) \in Nat
    BY <1>2, <1>4, SumIsNat DEF amounts, costs
  <1> QED BY <1>5, <1>6 DEF Totals

\* All scopes.
LEMMA AllTotalsType ==
    ASSUME NEW rows, NEW sizes, Draft(rows, sizes)
    PROVE  /\ AllTotals(rows) \in [ScopesOf(rows) -> Totals]
           /\ IsFiniteSet(ScopesOf(rows))
  <1>1. AllTotals(rows) \in [ScopesOf(rows) -> Totals]
    BY ScopeTotalsType DEF AllTotals
  <1>2. ASSUME NEW l \in DOMAIN rows
        PROVE l[1] \in GeneralScopes \cup Spaces
    <2>1. l \in AllLines
      BY LineOfDraft DEF Draft
    <2> QED BY <2>1, LineShape DEF AllLines
  <1>3. ScopesOf(rows) \subseteq GeneralScopes \cup Spaces
    BY <1>2 DEF ScopesOf
  <1>4. IsFiniteSet(ScopesOf(rows))
    BY <1>3, LinesFinite, FS_Subset
  <1> QED BY <1>1, <1>4

\* The direct cost, the expected cost and the total before adjustment.
Direct(totals) == SumFunction([s \in DOMAIN totals |-> totals[s].subtotal])
ExpectedCost(totals) == SumFunction([s \in DOMAIN totals |-> totals[s].cost])
Fee(totals) == Multiply4(Direct(totals), ManagementRate)
Total(totals) == Direct(totals) + Fee(totals)
Adjusted(total, d, w) == AtLeastZero(Multiply4(total, d) - w)

\* The header from its parts.
LEMMA PricedIs ==
    ASSUME NEW totals, NEW d, NEW w
    PROVE  Priced(totals, d, w) =
             [direct |-> Direct(totals), cost |-> ExpectedCost(totals),
              fee |-> Fee(totals), total |-> Total(totals),
              discount |-> d, writeOff |-> w,
              adjusted |-> Adjusted(Total(totals), d, w),
              profit |-> Adjusted(Total(totals), d, w) - ExpectedCost(totals)]
  BY DEF Priced, Direct, ExpectedCost, Fee, Total, Adjusted

\* A header with these amounts.
Amounted(direct, cost, fee, total, d, w, a, p) ==
    [direct |-> direct, cost |-> cost, fee |-> fee, total |-> total,
     discount |-> d, writeOff |-> w, adjusted |-> a, profit |-> p]

\* A header k with the totals of h and another adjustment.
Amends(k, h, d, w, a, p) ==
    k = [h EXCEPT !.discount = d, !.writeOff = w, !.adjusted = a, !.profit = p]

\* Only the adjustment of an amended header is new.
LEMMA AmendedHeader ==
    ASSUME NEW direct, NEW cost, NEW fee, NEW total, NEW d, NEW w, NEW a, NEW p,
           NEW rate, NEW off, NEW b, NEW q, NEW h, NEW k,
           h = Amounted(direct, cost, fee, total, d, w, a, p),
           Amends(k, h, rate, off, b, q)
    PROVE  k = Amounted(direct, cost, fee, total, rate, off, b, q)
  BY DEF Amounted, Amends

\* Another adjustment of the same totals gives what the calculator would.
LEMMA Readjusted ==
    ASSUME NEW totals, NEW rate, NEW off, NEW h, NEW k, NEW a, NEW p,
           h = Priced(totals, h.discount, h.writeOff), a = Adjusted(Total(totals), rate, off),
           p = a - ExpectedCost(totals), Amends(k, h, rate, off, a, p)
    PROVE  k = Priced(totals, rate, off)
  <1> DEFINE t == Total(totals)
             d == h.discount
             w == h.writeOff
             old == Adjusted(t, d, w)
  <1>1. h = Amounted(Direct(totals), ExpectedCost(totals), Fee(totals), t, d, w, old,
                     old - ExpectedCost(totals))
    BY PricedIs DEF Amounted
  <1>2. Priced(totals, rate, off) =
            Amounted(Direct(totals), ExpectedCost(totals), Fee(totals), t, rate, off, a, p)
    BY PricedIs DEF Amounted
  <1> HIDE DEF t, d, w, old
  <1>3. k = Amounted(Direct(totals), ExpectedCost(totals), Fee(totals), t, rate, off, a, p)
    BY <1>1, AmendedHeader
  <1> QED BY <1>2, <1>3

\* The total before adjustment and the cost are natural numbers.
LEMMA TotalType ==
    ASSUME NEW S, IsFiniteSet(S), NEW totals \in [S -> Totals]
    PROVE  Total(totals) \in Nat /\ ExpectedCost(totals) \in Nat
  <1>1. /\ [s \in DOMAIN totals |-> totals[s].subtotal] \in [S -> Nat]
        /\ [s \in DOMAIN totals |-> totals[s].cost] \in [S -> Nat]
    BY DEF Totals
  <1>2. Direct(totals) \in Nat /\ ExpectedCost(totals) \in Nat
    BY <1>1, SumIsNat DEF Direct, ExpectedCost
  <1>3. ManagementRate \in Nat
    BY ConstantsAssumption
  <1>4. Fee(totals) \in Nat
    BY <1>2, <1>3, Multiply4Nat, Zenon DEF Fee
  <1> QED BY <1>2, <1>4 DEF Total

\* An adjustment asks for at most the total, and without one for all of it.
LEMMA AdjustedInTotal ==
    ASSUME NEW t \in Nat, NEW d \in 0..Scale, NEW w \in Nat
    PROVE  /\ Adjusted(t, d, w) \in 0..t
           /\ Adjusted(t, Scale, 0) = t
  <1>1. /\ Multiply4(t, d) \in Nat /\ Multiply4(t, d) <= t
        /\ Multiply4(t, Scale) = t
    BY Multiply4Rate
  <1>2. AtLeastZero(Multiply4(t, d) - w) \in 0..t
    BY <1>1 DEF AtLeastZero
  <1>3. AtLeastZero(Multiply4(t, Scale) - 0) = t
    BY <1>1 DEF AtLeastZero
  <1> QED BY <1>2, <1>3 DEF Adjusted

-----------------------------------------------------------------------------
(***************************************************************************)
(* The inductive invariant.                                                *)
(***************************************************************************)

\* The version the current one was made from has amounts that follow from
\* its quantities, and the total of those.
PreviousPriced ==
    previous # None =>
      /\ \A l \in DOMAIN previous.line : RowPriced(previous.line[l], l[2])
      /\ previous.total = Total(AllTotals(previous.line))

\* The header is computed from the totals of the scopes under an adjustment
\* the table allows.
HeaderPriced ==
    /\ header = Priced(scope, header.discount, header.writeOff)
    /\ header.discount \in 0..Scale /\ header.writeOff \in Nat

\* A version that is no draft was generated without blockers, which is
\* where OfferIsComplete comes from.
NothingBlocked == status # "DRAFT" => Blockers = {}

IInv ==
    /\ status \in Statuses
    /\ Draft(line, size)
    /\ Calculated(line, size)
    /\ LineValues(line)
    /\ scope = AllTotals(line)
    /\ HeaderPriced
    /\ NothingBlocked
    /\ PreviousPriced

\* The totals of an invariant state.
LEMMA TotalsTyped ==
    ASSUME IInv
    PROVE  /\ scope \in [ScopesOf(line) -> Totals] /\ IsFiniteSet(ScopesOf(line))
           /\ Total(scope) \in Nat /\ ExpectedCost(scope) \in Nat
           /\ header.total = Total(scope) /\ header.cost = ExpectedCost(scope)
           /\ header.adjusted = Adjusted(Total(scope), header.discount, header.writeOff)
           /\ header.adjusted \in 0..header.total
  <1>1. scope \in [ScopesOf(line) -> Totals] /\ IsFiniteSet(ScopesOf(line))
    BY AllTotalsType DEF IInv
  <1>2. Total(scope) \in Nat /\ ExpectedCost(scope) \in Nat
    BY <1>1, TotalType
  <1>3. /\ header.total = Total(scope) /\ header.cost = ExpectedCost(scope)
        /\ header.adjusted = Adjusted(Total(scope), header.discount, header.writeOff)
    BY PricedIs DEF IInv, HeaderPriced
  <1>4. Adjusted(Total(scope), header.discount, header.writeOff) \in 0..Total(scope)
    BY <1>2, AdjustedInTotal DEF IInv, HeaderPriced
  <1> QED BY <1>1, <1>2, <1>3, <1>4

\* The invariant implies the properties the run checks.
LEMMA IInvTypeOK == ASSUME IInv PROVE TypeOK
  <1>1. DOMAIN header = {"direct", "cost", "fee", "total", "discount", "writeOff",
                         "adjusted", "profit"}
    BY PricedIs DEF IInv, HeaderPriced
  <1>2. scope \in [ScopesOf(line) -> [subtotal : Nat, cost : Nat]]
    BY TotalsTyped DEF Totals
  <1> QED BY <1>1, <1>2 DEF IInv, TypeOK, Draft, LinesOf

\* What is stored is what the calculator makes of the entries.
LEMMA IInvStoredIsCalculated == ASSUME IInv PROVE StoredIsCalculated
  <1> DEFINE new == CalculatedLines(line, size)
  <1>1. Draft(line, size) /\ Calculated(line, size)
    BY DEF IInv
  <1>2. DOMAIN new = DOMAIN line
    BY DEF CalculatedLines
  <1>3. ASSUME NEW l \in DOMAIN line
        PROVE  /\ line[l].quantity = new[l].quantity
               /\ line[l].amount = new[l].amount
               /\ line[l].cost = new[l].cost
    <2>1. new[l].quantity = Resolved(line, size, l) /\ RowPriced(new[l], l[2])
      BY <1>1, CalculatedRow
    <2>2. line[l].quantity = Resolved(line, size, l) /\ RowPriced(line[l], l[2])
      BY <1>1 DEF Calculated
    <2> QED BY <2>1, <2>2 DEF RowPriced
  <1> HIDE DEF new
  <1>4. AllTotals(new) = AllTotals(line)
    BY <1>2, <1>3, SameAmountsSameTotals
  <1>5. scope = AllTotals(new) /\ header = Priced(AllTotals(new), header.discount, header.writeOff)
    BY <1>4 DEF IInv, HeaderPriced
  <1> QED BY <1>3, <1>5 DEF StoredIsCalculated, new

\* Equal quantities give equal amounts, and these equal totals.
LEMMA IInvComparison == ASSUME IInv PROVE ComparisonExplainsTotal
  <1> SUFFICES ASSUME previous # None, Differences(previous.line, line) = {}
               PROVE  previous.total = header.total
    BY DEF ComparisonExplainsTotal
  <1> DEFINE from == previous.line
  <1>1. DOMAIN from = DOMAIN line /\ \A l \in DOMAIN line : from[l].quantity = line[l].quantity
    BY DEF Differences
  <1>2. \A l \in DOMAIN line : RowPriced(from[l], l[2]) /\ RowPriced(line[l], l[2])
    BY <1>1 DEF IInv, PreviousPriced, Calculated
  <1>3. \A l \in DOMAIN from : from[l].amount = line[l].amount /\ from[l].cost = line[l].cost
    BY <1>1, <1>2 DEF RowPriced
  <1> HIDE DEF from
  <1>4. AllTotals(from) = AllTotals(line)
    BY <1>1, <1>3, SameAmountsSameTotals
  <1>5. previous.total = Total(AllTotals(from))
    BY DEF IInv, PreviousPriced, from
  <1>6. header.total = Total(AllTotals(line))
    BY TotalsTyped DEF IInv
  <1> QED BY <1>4, <1>5, <1>6

\* A line without blocker has an amount, by the constraints of the table.
LEMMA IInvOffer == ASSUME IInv PROVE OfferIsComplete
  <1>1. ASSUME status # "DRAFT", NEW l \in DOMAIN line, line[l].selected
        PROVE  line[l].amount # None
    <2>1. line[l].quantity # None
      BY <1>1 DEF IInv, NothingBlocked, Blockers
    <2>2. line[l].profit # None
      BY <2>1 DEF IInv, Calculated
    <2>3. ExpectedMargin(line[l])
      BY DEF IInv, LineValues
    <2> QED BY <2>2, <2>3 DEF ExpectedMargin
  <1>2. header.adjusted \in 0..header.total
    BY TotalsTyped
  <1> QED BY <1>1, <1>2 DEF OfferIsComplete

-----------------------------------------------------------------------------
(***************************************************************************)
(* The invariant holds at first and is kept.                               *)
(***************************************************************************)

\* A step that leaves everything alone.
LEMMA StutterKeeps == ASSUME IInv, UNCHANGED vars PROVE IInv'
  BY DEF vars, IInv, HeaderPriced, NothingBlocked, PreviousPriced, Blockers

\* The parts of the invariant that concern amounts, for any new rows.
LEMMA AmountsKeep ==
    ASSUME IInv, NEW d \in 0..Scale, NEW w \in Nat,
           Draft(line', size'), Calculated(line', size'), LineValues(line'),
           scope' = AllTotals(line'), header' = Priced(scope', d, w),
           status' \in Statuses, NothingBlocked',
           UNCHANGED previous
    PROVE  IInv'
  <1>1. header'.discount = d /\ header'.writeOff = w
    BY PricedIs
  <1>2. HeaderPriced'
    BY <1>1 DEF HeaderPriced
  <1>3. PreviousPriced'
    BY DEF IInv, PreviousPriced
  <1> QED BY <1>2, <1>3 DEF IInv

\* createDraft saves what the calculator makes of rows without entries.
LEMMA InitIInv == Init => IInv
  <1> SUFFICES ASSUME Init PROVE IInv
    OBVIOUS
  <1> DEFINE built == BuiltLines(GeneralScopes \cup Spaces)
  <1>1. DOMAIN size = Spaces /\ \A s \in Spaces : size[s] \in Sizes
    BY ConstantsAssumption DEF Init
  <1>2. ASSUME NEW l \in LinesOf(size)
        PROVE  built[l] \in Row /\ built[l].manual = None
    <2>1. \E b \in BOOLEAN : built[l] = EmptyRow(b)
      BY <1>1 DEF BuiltLines, LinesOf
    <2>2. ASSUME NEW b \in BOOLEAN
          PROVE EmptyRow(b) \in Row /\ EmptyRow(b).manual = None
      BY DEF EmptyRow, Row, NullOr
    <2> QED BY <2>1, <2>2
  <1>3. built = [l \in LinesOf(size) |-> built[l]]
    BY <1>1 DEF BuiltLines, LinesOf
  <1> HIDE DEF built
  <1>4. built \in [LinesOf(size) -> Row]
    BY <1>2, <1>3
  <1>5. Draft(built, size)
    BY <1>1, <1>2, <1>4 DEF Draft
  <1>6. line = CalculatedLines(built, size)
    BY DEF Init, built
  <1>7. Draft(line, size) /\ Calculated(line, size)
    BY <1>5, <1>6, CalculatedDraft
  <1>8. HeaderPriced
    <2>1. header = Priced(scope, Scale, 0)
      BY DEF Init
    <2>2. header.discount = Scale /\ header.writeOff = 0
      BY <2>1, PricedIs
    <2> QED BY <2>1, <2>2, ConstantsAssumption DEF HeaderPriced
  <1>9. NothingBlocked /\ PreviousPriced /\ status \in Statuses
    BY DEF Init, NothingBlocked, PreviousPriced, Statuses
  <1> QED BY <1>7, <1>8, <1>9 DEF Init, IInv

\* saveDraft of rows of a draft.
LEMMA SavedKeeps ==
    ASSUME IInv, status = "DRAFT", NEW rows, Draft(rows, size), Saved(rows)
    PROVE  IInv'
  <1> DEFINE new == CalculatedLines(rows, size)
  <1>1. CASE ~LineValues(new)
    BY <1>1, StutterKeeps DEF Saved
  <1>2. CASE LineValues(new)
    <2>1. /\ line' = new /\ scope' = AllTotals(new)
          /\ header' = Priced(AllTotals(new), header.discount, header.writeOff)
          /\ status' = status /\ size' = size /\ previous' = previous
      BY <1>2 DEF Saved
    <2>2. Draft(new, size) /\ Calculated(new, size)
      BY CalculatedDraft
    <2> HIDE DEF new
    <2>3. NothingBlocked'
      BY <2>1 DEF NothingBlocked
    <2>4. header.discount \in 0..Scale /\ header.writeOff \in Nat /\ status' \in Statuses
      BY <2>1 DEF IInv, HeaderPriced
    <2> QED BY <1>2, <2>1, <2>2, <2>3, <2>4, AmountsKeep
  <1> QED BY <1>1, <1>2

\* An edit selects a line and those that refer to it, and types into it.
LEMMA EditedDraft ==
    ASSUME IInv, NEW l \in DOMAIN line, NEW selected \in BOOLEAN,
           NEW quantity \in Quantities \cup {None},
           Rule[l] # "MANUAL" => quantity = None,
           ~selected => quantity = None
    PROVE  Draft(Edited(l, selected, quantity), size)
  <1> DEFINE rows == Edited(l, selected, quantity)
  <1>1. /\ Draft(line, size) /\ DOMAIN line = LinesOf(size)
        /\ DOMAIN rows = DOMAIN line
    BY DEF IInv, Draft, Edited
  <1>2. ASSUME NEW r \in DOMAIN line
        PROVE  /\ rows[r] \in Row
               /\ rows[r].manual # None => rows[r].selected /\ Rule[r] = "MANUAL"
    <2>1. /\ line[r] \in Row
          /\ line[r].manual # None => line[r].selected /\ Rule[r] = "MANUAL"
      BY <1>1 DEF Draft
    <2>2. CASE r = l
      <3> DEFINE entry == IF Rule[l] = "MANUAL" THEN quantity ELSE None
      <3>1. rows[r] = [line[r] EXCEPT !.selected = selected, !.manual = entry]
        BY <2>2 DEF Edited
      <3>2. entry \in NullOr(Nat)
        BY ConstantsAssumption DEF NullOr
      <3>3. entry # None => selected /\ Rule[r] = "MANUAL"
        BY <2>2
      <3> HIDE DEF entry, rows
      <3>4. rows[r] \in Row /\ rows[r].selected = selected /\ rows[r].manual = entry
        BY <2>1, <3>1, <3>2 DEF Row
      <3> QED BY <3>3, <3>4
    <2>3. CASE r # l /\ References(r, l)
      <3>1. rows[r] = [line[r] EXCEPT !.selected = selected]
        BY <2>3 DEF Edited
      <3>2. line[r].manual = None
        BY <2>1, <2>3 DEF References
      <3> HIDE DEF rows
      <3>3. rows[r] \in Row /\ rows[r].manual = line[r].manual
        BY <2>1, <3>1 DEF Row
      <3> QED BY <3>2, <3>3
    <2>4. CASE r # l /\ ~References(r, l)
      BY <2>1, <2>4 DEF Edited
    <2> QED BY <2>2, <2>3, <2>4
  <1>3. rows = [r \in DOMAIN line |-> rows[r]]
    BY DEF Edited
  <1> HIDE DEF rows
  <1>4. rows \in [LinesOf(size) -> Row]
    BY <1>1, <1>2, <1>3
  <1>5. Draft(rows, size)
    BY <1>1, <1>2, <1>4 DEF Draft
  <1> QED BY <1>5 DEF rows

\* updateLine saves an edit.
LEMMA UpdateLineKeeps ==
    ASSUME IInv, NEW l \in DOMAIN line, NEW selected \in BOOLEAN,
           NEW quantity \in Quantities \cup {None}, UpdateLine(l, selected, quantity)
    PROVE  IInv'
  <1>1. Draft(Edited(l, selected, quantity), size)
    BY EditedDraft DEF UpdateLine
  <1> QED BY <1>1, SavedKeeps DEF UpdateLine

-----------------------------------------------------------------------------
(***************************************************************************)
(* The statements of updateSpace compute what the calculator computes.     *)
(***************************************************************************)

Measuring == {"SPACE_AREA", "SPACE_PERIMETER_HEIGHT"}

\* The quantity of a line depends on the size of its own space only.
LEMMA ResolvedOnSize ==
    ASSUME NEW a, NEW b, DOMAIN a \subseteq Spaces, NEW rows, NEW l \in LinesOf(a),
           a[l[1]] = b[l[1]]
    PROVE  Resolved(rows, a, l) = Resolved(rows, b, l)
  <1>1. ASSUME NEW r, r[1] = l[1]
        PROVE Own(rows, a, r) = Own(rows, b, r)
    BY <1>1 DEF Own
  <1>2. Rule[l] = "LINE_REFERENCE" => ReferencedLine[l][1] = l[1]
    BY LineOfDraft
  <1> QED BY <1>1, <1>2 DEF Resolved

\* A line without a rule that measures has a quantity whatever the sizes are.
LEMMA OwnUnmeasured ==
    ASSUME NEW a, NEW b, NEW rows, NEW l \in AllLines,
           Rule[l] \notin Measuring, Rule[l] # "LINE_REFERENCE"
    PROVE  Resolved(rows, a, l) = Resolved(rows, b, l)
  <1>1. Rule[l] \in {"MANUAL", "PROJECT_OUTER_FRAME_AREA"}
    BY RuleOfLine DEF Rules, Measuring
  <1>2. Own(rows, a, l) = Own(rows, b, l)
    BY <1>1 DEF Own
  <1> QED BY <1>2 DEF Resolved

\* Lines outside of spaces do not depend on sizes at all.
LEMMA ResolvedElsewhere ==
    ASSUME NEW a, NEW b, DOMAIN a \subseteq Spaces, NEW rows, NEW l \in LinesOf(a),
           l[1] \in DOMAIN a => a[l[1]] = b[l[1]]
    PROVE  Resolved(rows, a, l) = Resolved(rows, b, l)
  <1>1. CASE l[1] \in DOMAIN a
    BY <1>1, ResolvedOnSize
  <1>2. CASE l[1] \notin DOMAIN a
    <2>1. l \in AllLines /\ l[1] \in GeneralScopes \cup DOMAIN a
      BY LineOfDraft, LineShape DEF LinesOf
    <2>2. l[1] \notin Spaces
      BY <1>2, <2>1, ConstantsAssumption DEF GeneralScopes
    <2>3. Rule[l] \notin Measuring
      BY <2>1, <2>2, RuleOfLine DEF Measuring
    <2>4. CASE Rule[l] # "LINE_REFERENCE"
      BY <2>1, <2>3, <2>4, OwnUnmeasured
    <2>5. CASE Rule[l] = "LINE_REFERENCE"
      <3> DEFINE r == ReferencedLine[l]
      <3>1. r \in LinesOf(a) /\ r[1] = l[1] /\ Rule[r] # "LINE_REFERENCE"
        BY <2>5, LineOfDraft
      <3>2. r \in AllLines
        BY <3>1, LineOfDraft
      <3>3. Rule[r] \in {"MANUAL", "PROJECT_OUTER_FRAME_AREA"}
        BY <2>2, <3>1, <3>2, RuleOfLine DEF Rules
      <3>4. Own(rows, a, r) = Own(rows, b, r)
        BY <3>3 DEF Own
      <3> QED BY <2>5, <3>4 DEF Resolved
    <2> QED BY <2>4, <2>5
  <1> QED BY <1>1, <1>2

\* The sizes once space s has another one.
Resized(sizes, s, new) == sizes = [size EXCEPT ![s] = new]

\* The first two statements leave every row with the quantity that the
\* calculator finds under the new size.
LEMMA RequantifiedRow ==
    ASSUME IInv, NEW s \in DOMAIN size, NEW new \in Sizes, NEW l \in DOMAIN line,
           NEW sizes, Resized(sizes, s, new)
    PROVE  Requantified(line, s, new)[l] =
             [line[l] EXCEPT !.quantity = Resolved(line, sizes, l)]
  <1> DEFINE measured ==
               [k \in DOMAIN line |->
                 IF k[1] = s /\ Rule[k] \in {"SPACE_AREA", "SPACE_PERIMETER_HEIGHT"}
                 THEN [line[k] EXCEPT !.quantity =
                         IF ~line[k].selected THEN None
                         ELSE IF Rule[k] = "SPACE_AREA" THEN new.area
                         ELSE Multiply4(new.perimeter, new.height)]
                 ELSE line[k]]
             mid == Requantified(line, s, new)
  <1>1. /\ Draft(line, size) /\ DOMAIN line = LinesOf(size)
        /\ DOMAIN size \subseteq Spaces
    BY DEF IInv, Draft
  <1>2. mid[l] = IF l[1] = s /\ Rule[l] = "LINE_REFERENCE"
                 THEN [measured[l] EXCEPT !.quantity =
                         IF line[l].selected THEN measured[ReferencedLine[l]].quantity ELSE None]
                 ELSE measured[l]
    BY DEF Requantified
  <1>3. ASSUME NEW k \in DOMAIN line
        PROVE  /\ line[k].quantity = Resolved(line, size, k)
               /\ line[k] \in Row /\ k \in AllLines
               /\ line[k] = [line[k] EXCEPT !.quantity = line[k].quantity]
    <2>1. line[k].quantity = Resolved(line, size, k) /\ line[k] \in Row
      BY <1>1 DEF IInv, Calculated, Draft
    <2>2. line[k] = [line[k] EXCEPT !.quantity = line[k].quantity]
      BY <2>1 DEF Row
    <2> QED BY <1>1, <2>1, <2>2, LineOfDraft
  <1>4. sizes[s] = new
    BY DEF Resized
  <1> HIDE DEF mid
  <1>6. ASSUME NEW k \in DOMAIN line, k[1] = s, Rule[k] # "LINE_REFERENCE"
        PROVE  measured[k] = [line[k] EXCEPT !.quantity = Resolved(line, sizes, k)]
    <2>1. CASE Rule[k] \in Measuring
      <3>1. Resolved(line, sizes, k) =
              IF ~line[k].selected THEN None
              ELSE IF Rule[k] = "SPACE_AREA" THEN new.area
              ELSE Multiply4(new.perimeter, new.height)
        BY <1>4, <1>6, <2>1 DEF Resolved, Own, Measuring
      <3> QED BY <1>6, <2>1, <3>1 DEF Measuring
    <2>2. CASE Rule[k] \notin Measuring
      <3>1. measured[k] = line[k]
        BY <2>2 DEF Measuring
      <3>2. Resolved(line, sizes, k) = Resolved(line, size, k)
        BY <1>3, <1>6, <2>2, OwnUnmeasured
      <3> QED BY <1>3, <3>1, <3>2
    <2> QED BY <2>1, <2>2
  <1>7. CASE l[1] # s
    <2>1. mid[l] = line[l]
      BY <1>2, <1>7
    <2>2. Resolved(line, size, l) = Resolved(line, sizes, l)
      <3>1. l[1] \in DOMAIN size => size[l[1]] = sizes[l[1]]
        BY <1>7 DEF Resized
      <3> QED BY <1>1, <3>1, ResolvedElsewhere
    <2> QED BY <1>3, <2>1, <2>2 DEF mid
  <1>8. CASE l[1] = s /\ Rule[l] # "LINE_REFERENCE"
    <2>1. mid[l] = measured[l]
      BY <1>2, <1>8
    <2> QED BY <1>6, <1>8, <2>1 DEF mid
  <1>9. CASE l[1] = s /\ Rule[l] = "LINE_REFERENCE"
    <2> DEFINE r == ReferencedLine[l]
    <2>1. /\ r \in DOMAIN line /\ r[1] = s /\ Rule[r] # "LINE_REFERENCE"
      BY <1>1, <1>9, LineOfDraft
    <2>2. measured[r] = [line[r] EXCEPT !.quantity = Resolved(line, sizes, r)]
      BY <1>6, <2>1
    <2>3. measured[r].quantity = Resolved(line, sizes, r)
      BY <1>3, <2>1, <2>2 DEF Row
    <2>4. measured[l] = line[l]
      BY <1>9
    <2>5. Resolved(line, sizes, l) =
            IF line[l].selected THEN Resolved(line, sizes, r) ELSE None
      BY <1>9, <2>1 DEF Resolved
    <2> HIDE DEF measured, r
    <2>6. mid[l] = [line[l] EXCEPT !.quantity =
                      IF line[l].selected THEN measured[r].quantity ELSE None]
      BY <1>2, <1>9, <2>4 DEF r
    <2> QED BY <2>3, <2>5, <2>6 DEF mid
  <1> QED BY <1>7, <1>8, <1>9

\* The third statement leaves a row of the space as the calculator does; the
\* constraints of the table exclude amounts that round to zero.
LEMMA RepricedRow ==
    ASSUME IInv, NEW s \in DOMAIN size, NEW new \in Sizes, NEW l \in DOMAIN line,
           NEW rows, rows = Repriced(Requantified(line, s, new), s), LineValues(rows),
           NEW sizes, Resized(sizes, s, new), Draft(line, sizes)
    PROVE  /\ rows[l] \in Row
           /\ rows[l].selected = line[l].selected
           /\ rows[l].manual = line[l].manual
           /\ rows[l].quantity = Resolved(line, sizes, l)
           /\ RowPriced(rows[l], l[2])
           /\ rows[l].profit = None <=> rows[l].quantity = None
           /\ l[1] # s => rows[l] = line[l]
  <1> DEFINE mid == Requantified(line, s, new)
             q == Resolved(line, sizes, l)
  <1>1. /\ Draft(line, size) /\ DOMAIN line = LinesOf(size)
        /\ DOMAIN size \subseteq Spaces /\ line[l] \in Row
        /\ line[l].manual # None => line[l].selected /\ Rule[l] = "MANUAL"
    BY DEF IInv, Draft
  <1>2. mid[l] = [line[l] EXCEPT !.quantity = q]
    <2>1. Requantified(line, s, new)[l] =
            [line[l] EXCEPT !.quantity = Resolved(line, sizes, l)]
      BY RequantifiedRow
    <2> QED BY <2>1
  <1>3. DOMAIN mid = DOMAIN line
    BY DEF Requantified
  <1>4. q \in NullOr(Nat)
    BY ResolvedType DEF Draft
  <1>5. /\ mid[l] \in Row
        /\ mid[l].selected = line[l].selected /\ mid[l].manual = line[l].manual
        /\ mid[l].quantity = q /\ mid[l].amount = line[l].amount
        /\ mid[l].cost = line[l].cost /\ mid[l].profit = line[l].profit
    <2> HIDE DEF mid, q
    <2> QED BY <1>1, <1>2, <1>4 DEF Row
  <1>6. CASE l[1] # s
    <2>1. rows[l] = mid[l]
      BY <1>3, <1>6 DEF Repriced
    <2>2. line[l].quantity = Resolved(line, size, l)
      BY DEF IInv, Calculated
    <2>3. q = line[l].quantity
      <3>1. Resolved(line, size, l) = Resolved(line, sizes, l)
        <4>1. l[1] \in DOMAIN size => size[l[1]] = sizes[l[1]]
          BY <1>6 DEF Resized
        <4> QED BY <1>1, <4>1, ResolvedElsewhere
      <3> QED BY <2>2, <3>1
    <2> HIDE DEF mid, q
    <2>4. mid[l] = line[l]
      BY <1>1, <1>2, <2>3 DEF Row
    <2>5. RowPriced(line[l], l[2]) /\ (line[l].profit = None <=> line[l].quantity = None)
      BY DEF IInv, Calculated
    <2> QED BY <1>1, <2>1, <2>3, <2>4, <2>5 DEF q
  <1>7. CASE l[1] = s
    <2> DEFINE entered == IF mid[l].manual # None THEN mid[l].manual ELSE mid[l].quantity
               priced == mid[l].selected /\ entered # None
               amount == IF priced THEN Multiply4(entered, l[2].sale) ELSE None
               cost == IF priced THEN Multiply4(entered, l[2].cost) ELSE None
               profit == IF priced THEN Multiply4(entered, l[2].sale - l[2].cost) ELSE None
    <2>1. rows[l] = [mid[l] EXCEPT !.amount = amount, !.cost = cost, !.profit = profit]
      BY <1>3, <1>7 DEF Repriced
    <2>2. /\ line[l].selected => entered = q
          /\ ~line[l].selected => q = None
      <3>1. line[l].selected /\ line[l].manual # None => q = line[l].manual
        BY <1>1 DEF Resolved, Own
      <3>2. ~line[l].selected => q = None
        BY DEF Resolved
      <3> QED BY <1>5, <3>1, <3>2
    <2>3. priced <=> q # None
      BY <1>5, <2>2
    <2>4. priced => entered = q
      BY <1>5, <2>2
    <2>5. l[2].sale \in Nat /\ l[2].cost \in Nat
      BY <1>1, PricesOfLine DEF LinesOf
    <2> HIDE DEF entered, priced, q, mid
    <2>6. /\ amount = IF q = None THEN None ELSE Multiply4(q, l[2].sale)
          /\ cost = IF q = None THEN None ELSE Multiply4(q, l[2].cost)
          /\ profit = IF q = None THEN None ELSE Multiply4(q, l[2].sale - l[2].cost)
      BY <2>3, <2>4
    <2>7. /\ amount \in NullOr(Nat) /\ cost \in NullOr(Nat) /\ profit \in NullOr(Int)
          /\ profit = None <=> q = None
      <3>1. CASE q = None
        BY <2>6, <3>1 DEF NullOr
      <3>2. CASE q # None
        <4>1. q \in Nat
          BY <1>4, <3>2 DEF NullOr
        <4>2. Multiply4(q, l[2].sale) \in Nat /\ Multiply4(q, l[2].cost) \in Nat
          BY <2>5, <4>1, Multiply4Nat, Zenon
        <4>3. q \in Int /\ l[2].sale - l[2].cost \in Int
          BY <2>5, <4>1
        <4>4. Multiply4(q, l[2].sale - l[2].cost) \in Int
          BY <4>3, Multiply4Type
        <4> QED BY <2>6, <3>2, <4>2, <4>4, ConstantsAssumption DEF NullOr
      <3> QED BY <3>1, <3>2
    <2> HIDE DEF amount, cost, profit
    <2>8. /\ rows[l] \in Row
          /\ rows[l].selected = mid[l].selected /\ rows[l].manual = mid[l].manual
          /\ rows[l].quantity = mid[l].quantity
          /\ rows[l].amount = amount /\ rows[l].cost = cost /\ rows[l].profit = profit
      BY <1>5, <2>1, <2>7 DEF Row
    <2>9. amount # 0 /\ cost # 0
      <3>1. l \in DOMAIN rows
        BY <1>3 DEF Repriced, mid
      <3>2. {rows[l].amount, rows[l].quantity, rows[l].cost} \cap {0} = {}
        BY <3>1 DEF LineValues
      <3> QED BY <2>8, <3>2
    <2>10. amount = AmountOf(q, l[2].sale) /\ cost = AmountOf(q, l[2].cost)
      BY <2>6, <2>9 DEF AmountOf, OrNull
    <2>11. RowPriced(rows[l], l[2])
      BY <1>5, <2>8, <2>10 DEF RowPriced
    <2> QED BY <1>5, <1>7, <2>7, <2>8, <2>11 DEF q
  <1> QED BY <1>6, <1>7

\* Rows and totals after the statements on a space of a new size.
LEMMA ResizedRows ==
    ASSUME IInv, NEW s \in DOMAIN size, NEW new \in Sizes,
           NEW sizes, Resized(sizes, s, new),
           NEW rows, rows = Repriced(Requantified(line, s, new), s), LineValues(rows)
    PROVE  /\ Draft(rows, sizes) /\ Calculated(rows, sizes)
           /\ [scope EXCEPT ![s] = ScopeTotals(rows, s)] = AllTotals(rows)
  <1>1. /\ DOMAIN line = LinesOf(size) /\ DOMAIN size \subseteq Spaces
        /\ line \in [LinesOf(size) -> Row]
        /\ \A l \in DOMAIN line :
             line[l].manual # None => line[l].selected /\ Rule[l] = "MANUAL"
    BY DEF IInv, Draft
  <1>2. DOMAIN sizes = DOMAIN size /\ \A t \in DOMAIN sizes : sizes[t] \in Sizes
    BY DEF Resized, IInv, Draft
  <1>3. LinesOf(sizes) = LinesOf(size)
    BY <1>2 DEF LinesOf
  <1>4. Draft(line, sizes)
    BY <1>1, <1>2, <1>3 DEF Draft
  <1>5. ASSUME NEW l \in DOMAIN line
        PROVE  /\ rows[l] \in Row
               /\ rows[l].selected = line[l].selected
               /\ rows[l].manual = line[l].manual
               /\ rows[l].quantity = Resolved(line, sizes, l)
               /\ RowPriced(rows[l], l[2])
               /\ rows[l].profit = None <=> rows[l].quantity = None
               /\ l[1] # s => rows[l] = line[l]
    BY <1>4, RepricedRow
  <1>6. DOMAIN rows = LinesOf(sizes) /\ rows = [l \in LinesOf(sizes) |-> rows[l]]
    <2> DEFINE mid == Requantified(line, s, new)
    <2>1. DOMAIN mid = DOMAIN line
      BY DEF Requantified
    <2> HIDE DEF mid
    <2>2. ASSUME NEW m
          PROVE  Repriced(m, s) = [l \in DOMAIN m |-> Repriced(m, s)[l]]
      <3> DEFINE entered(l) == IF m[l].manual # None THEN m[l].manual ELSE m[l].quantity
                 priced(l) == m[l].selected /\ entered(l) # None
                 repriced(l) == IF l[1] # s THEN m[l]
                           ELSE [m[l] EXCEPT
                                   !.amount = IF priced(l) THEN Multiply4(entered(l), l[2].sale) ELSE None,
                                   !.cost = IF priced(l) THEN Multiply4(entered(l), l[2].cost) ELSE None,
                                   !.profit = IF priced(l) THEN Multiply4(entered(l), l[2].sale - l[2].cost)
                                              ELSE None]
      <3>1. Repriced(m, s) = [l \in DOMAIN m |-> repriced(l)]
        BY Zenon DEF Repriced
      <3> HIDE DEF repriced
      <3> QED BY <3>1
    <2>3. rows = Repriced(mid, s)
      BY DEF mid
    <2>4. rows = [l \in DOMAIN line |-> rows[l]]
      BY <2>1, <2>2, <2>3
    <2> QED BY <1>1, <1>3, <2>4
  <1>7. rows \in [LinesOf(sizes) -> Row]
    BY <1>1, <1>3, <1>5, <1>6
  <1>8. Draft(rows, sizes)
    BY <1>1, <1>2, <1>3, <1>5, <1>6, <1>7 DEF Draft
  <1>9. ASSUME NEW l \in LinesOf(sizes)
        PROVE Resolved(rows, sizes, l) = Resolved(line, sizes, l)
    <2>1. SameEntries(rows, line, sizes)
      BY <1>1, <1>3, <1>5 DEF SameEntries
    <2>2. DOMAIN sizes \subseteq Spaces
      BY <1>1, <1>2
    <2> QED BY <2>1, <2>2, ResolvedOnEntries
  <1>10. Calculated(rows, sizes)
    BY <1>1, <1>3, <1>5, <1>6, <1>9 DEF Calculated
  <1>11. [scope EXCEPT ![s] = ScopeTotals(rows, s)] = AllTotals(rows)
    <2>1. scope = [t \in ScopesOf(line) |-> ScopeTotals(line, t)]
      BY DEF IInv, AllTotals
    <2>2. DOMAIN rows = DOMAIN line
      BY <1>1, <1>3, <1>6
    <2>3. ScopesOf(rows) = ScopesOf(line)
      BY <2>2 DEF ScopesOf
    <2>4. ASSUME NEW t, t # s
          PROVE ScopeTotals(rows, t) = ScopeTotals(line, t)
      <3>1. \A l \in DOMAIN rows : l[1] = t =>
              rows[l].amount = line[l].amount /\ rows[l].cost = line[l].cost
        BY <1>5, <2>2, <2>4
      <3> QED BY <2>2, <3>1, TotalsOnAmounts
    <2>5. [scope EXCEPT ![s] = ScopeTotals(rows, s)]
            = [t \in ScopesOf(line) |-> ScopeTotals(rows, t)]
      BY <2>1, <2>4
    <2> QED BY <2>3, <2>5 DEF AllTotals
  <1> QED BY <1>8, <1>10, <1>11

\* updateSpace, where the tables accept what it writes.
LEMMA UpdateSpaceKeeps ==
    ASSUME IInv, NEW s \in Spaces, NEW new \in Sizes, UpdateSpace(s, new)
    PROVE  IInv'
  <1> DEFINE rows == Repriced(Requantified(line, s, new), s)
             totals == [scope EXCEPT ![s] = ScopeTotals(rows, s)]
  <1>1. status = "DRAFT" /\ s \in DOMAIN size
    BY DEF UpdateSpace
  <1>2. CASE ~LineValues(rows)
    BY <1>2, StutterKeeps DEF UpdateSpace
  <1>3. CASE LineValues(rows)
    <2>1. /\ Resized(size', s, new)
          /\ line' = rows /\ scope' = totals
          /\ header' = Priced(totals, header.discount, header.writeOff)
          /\ status' = status /\ previous' = previous
      BY <1>3 DEF UpdateSpace, Resized
    <2>2. Draft(rows, size') /\ Calculated(rows, size') /\ totals = AllTotals(rows)
      BY <1>1, <1>3, <2>1, ResizedRows
    <2> HIDE DEF rows, totals
    <2>3. header.discount \in 0..Scale /\ header.writeOff \in Nat /\ status' \in Statuses
      BY <2>1 DEF IInv, HeaderPriced
    <2>4. NothingBlocked'
      BY <1>1, <2>1 DEF NothingBlocked
    <2> QED BY <1>3, <2>1, <2>2, <2>3, <2>4, AmountsKeep
  <1> QED BY <1>2, <1>3

\* Without a space, every other line keeps its quantity and every other
\* scope its totals.
LEMMA DeletedRows ==
    ASSUME IInv, NEW s \in DOMAIN size, NEW sizes, sizes = Without(size, s),
           NEW rows, rows = LinesWithout(s)
    PROVE  /\ Draft(rows, sizes) /\ Calculated(rows, sizes) /\ LineValues(rows)
           /\ Without(scope, s) = AllTotals(rows)
  <1>1. /\ DOMAIN line = LinesOf(size) /\ DOMAIN size \subseteq Spaces
        /\ line \in [LinesOf(size) -> Row]
        /\ \A t \in DOMAIN size : size[t] \in Sizes
        /\ \A l \in DOMAIN line :
             line[l].manual # None => line[l].selected /\ Rule[l] = "MANUAL"
    BY DEF IInv, Draft
  <1>2. /\ DOMAIN sizes = DOMAIN size \ {s}
        /\ \A t \in DOMAIN sizes : sizes[t] = size[t]
    BY DEF Without
  <1>3. /\ DOMAIN rows = {l \in LinesOf(size) : l[1] # s}
        /\ \A l \in DOMAIN rows : rows[l] = line[l]
        /\ rows = [l \in DOMAIN rows |-> rows[l]]
    BY <1>1 DEF LinesWithout
  <1>4. LinesOf(sizes) = {l \in LinesOf(size) : l[1] # s}
    <2> DEFINE few == GeneralScopes \cup DOMAIN sizes
               all == GeneralScopes \cup DOMAIN size
    <2>1. few = all \ {s}
      BY <1>1, <1>2, ConstantsAssumption DEF GeneralScopes
    <2>2. \A l \in Lines(all) : l[1] \in all
      BY LineShape
    <2>3. Lines(few) = {l \in Lines(all) : l[1] \in few}
      BY <2>1, LinesOfFewer
    <2>4. {l \in Lines(all) : l[1] \in few} = {l \in Lines(all) : l[1] # s}
      BY <2>1, <2>2
    <2> QED BY <2>3, <2>4 DEF LinesOf
  <1>5. Draft(rows, sizes)
    BY <1>1, <1>2, <1>3, <1>4 DEF Draft
  <1>6. ASSUME NEW l \in DOMAIN rows
        PROVE  Resolved(rows, sizes, l) = Resolved(line, size, l)
    <2>1. l \in LinesOf(sizes) /\ l \in LinesOf(size) /\ DOMAIN sizes \subseteq Spaces
      BY <1>1, <1>2, <1>3, <1>4
    <2>2. SameEntries(rows, line, sizes)
      BY <1>3, <1>4 DEF SameEntries
    <2>3. Resolved(rows, sizes, l) = Resolved(line, sizes, l)
      BY <2>1, <2>2, ResolvedOnEntries
    <2>4. Resolved(line, sizes, l) = Resolved(line, size, l)
      <3>1. l[1] \in DOMAIN size => size[l[1]] = sizes[l[1]]
        BY <1>2, <1>3
      <3> QED BY <1>1, <2>1, <3>1, ResolvedElsewhere
    <2> QED BY <2>3, <2>4
  <1>7. Calculated(rows, sizes)
    BY <1>1, <1>3, <1>6 DEF IInv, Calculated
  <1>8. LineValues(rows)
    BY <1>1, <1>3 DEF IInv, LineValues
  <1>9. Without(scope, s) = AllTotals(rows)
    <2>1. scope = [t \in ScopesOf(line) |-> ScopeTotals(line, t)]
      BY DEF IInv, AllTotals
    <2>2. Without(scope, s) = [t \in ScopesOf(line) \ {s} |-> ScopeTotals(line, t)]
      BY <2>1 DEF Without
    <2>3. ScopesOf(rows) = ScopesOf(line) \ {s}
      BY <1>1, <1>3 DEF ScopesOf
    <2>4. ASSUME NEW t \in ScopesOf(line) \ {s}
          PROVE ScopeTotals(rows, t) = ScopeTotals(line, t)
      <3>1. {l \in DOMAIN rows : l[1] = t} = {l \in DOMAIN line : l[1] = t}
        BY <1>1, <1>3
      <3> QED BY <1>3, <3>1, TotalsOnAmounts
    <2> QED BY <2>2, <2>3, <2>4 DEF AllTotals
  <1> QED BY <1>5, <1>7, <1>8, <1>9

\* deleteSpace writes the header without the adjustment; where the table
\* accepts it, that is the header under the adjustment.
LEMMA DeleteSpaceKeeps ==
    ASSUME IInv, NEW s \in Spaces, DeleteSpace(s)
    PROVE  IInv'
  <1> DEFINE h == AfterDeletionOf(s)
             rest == Without(scope, s)
  <1>1. status = "DRAFT" /\ s \in DOMAIN size
    BY DEF DeleteSpace, MayDelete
  <1>2. CASE ~AdjustmentValues(h)
    BY <1>2, StutterKeeps DEF DeleteSpace
  <1>3. CASE AdjustmentValues(h)
    <2>1. /\ size' = Without(size, s) /\ line' = LinesWithout(s)
          /\ scope' = rest /\ header' = h
          /\ status' = status /\ previous' = previous
      BY <1>3 DEF DeleteSpace
    <2>2. /\ Draft(line', size') /\ Calculated(line', size') /\ LineValues(line')
          /\ rest = AllTotals(line')
      BY <1>1, <2>1, DeletedRows
    <2>3. Total(rest) \in Nat
      <3>1. rest \in [ScopesOf(line') -> Totals] /\ IsFiniteSet(ScopesOf(line'))
        BY <2>2, AllTotalsType
      <3> QED BY <3>1, TotalType
    <2>4. Adjusted(Total(rest), Scale, 0) = Total(rest)
      BY <2>3, AdjustedInTotal, ConstantsAssumption
    <2>5. header.discount \in 0..Scale /\ header.writeOff \in Nat
      BY DEF IInv, HeaderPriced
    <2> DEFINE d == header.discount
               w == header.writeOff
               t == Total(rest)
               c == ExpectedCost(rest)
               plain == [direct |-> Direct(rest), cost |-> c, fee |-> Fee(rest),
                         total |-> t, discount |-> Scale, writeOff |-> 0,
                         adjusted |-> t, profit |-> t - c]
    <2>6. h = [direct |-> Direct(rest), cost |-> c, fee |-> Fee(rest), total |-> t,
               discount |-> d, writeOff |-> w, adjusted |-> t, profit |-> t - c]
      <3>1. Priced(rest, Scale, 0) = plain
        BY <2>4, PricedIs
      <3>2. h = [plain EXCEPT !.discount = d, !.writeOff = w]
        BY <3>1 DEF AfterDeletionOf
      <3> HIDE DEF h, d, w, t, c, rest
      <3> QED BY <3>2
    <2>7. t = Adjusted(t, d, w)
      <3> HIDE DEF t, c, d, w
      <3>1. h.adjusted = t /\ h.total = t /\ h.discount = d /\ h.writeOff = w
        BY <2>6
      <3> QED BY <1>3, <3>1 DEF AdjustmentValues, Adjusted
    <2>8. h = Priced(rest, d, w)
      BY <2>6, <2>7, PricedIs
    <2> HIDE DEF h, rest, d, w
    <2>9. NothingBlocked' /\ status' \in Statuses
      BY <1>1, <2>1 DEF NothingBlocked, Statuses
    <2>10. header' = Priced(scope', d, w) /\ scope' = AllTotals(line')
      BY <2>1, <2>2, <2>8
    <2>11. d \in 0..Scale /\ w \in Nat
      BY <2>5 DEF d, w
    <2> QED BY <2>1, <2>2, <2>9, <2>10, <2>11, AmountsKeep
  <1> QED BY <1>2, <1>3

-----------------------------------------------------------------------------
(***************************************************************************)
(* Versions.                                                               *)
(***************************************************************************)

\* Steps that leave lines, sizes and totals of the version as they are.
LEMMA StatusKeeps ==
    ASSUME IInv, UNCHANGED <<size, line, scope>>, NothingBlocked', HeaderPriced',
           PreviousPriced', status' \in Statuses
    PROVE  IInv'
  <1>1. Draft(line', size') /\ Calculated(line', size') /\ LineValues(line')
    BY DEF IInv
  <1>2. scope' = AllTotals(line')
    BY DEF IInv
  <1> QED BY <1>1, <1>2 DEF IInv

LEMMA GenerateKeeps == ASSUME IInv, Generate PROVE IInv'
  <1>1. NothingBlocked' /\ status' \in Statuses
    BY DEF Generate, Amounts, NothingBlocked, Blockers, Statuses
  <1>2. HeaderPriced' /\ PreviousPriced'
    BY DEF Generate, Amounts, IInv, HeaderPriced, PreviousPriced
  <1> QED BY <1>1, <1>2, StatusKeeps DEF Generate, Amounts

LEMMA DecideKeeps ==
    ASSUME IInv, NEW decision \in {"APPROVED", "RETURNED"}, Decide(decision)
    PROVE  IInv'
  <1>1. NothingBlocked' /\ status' \in Statuses
    BY DEF Decide, Amounts, NothingBlocked, Blockers, Statuses, IInv
  <1>2. HeaderPriced' /\ PreviousPriced'
    BY DEF Decide, Amounts, IInv, HeaderPriced, PreviousPriced
  <1> QED BY <1>1, <1>2, StatusKeeps DEF Decide, Amounts

\* updateAdjustment multiplies in floating point, and the check of the table
\* lets only a header pass that is computed exactly.
LEMMA UpdateAdjustmentKeeps ==
    ASSUME IInv, NEW d \in Discounts, UpdateAdjustment(d)
    PROVE  IInv'
  <1>1. PICK product \in FloatProduct(header.total, d.rate) :
          LET adjusted == AtLeastZero(product - d.writeOff)
              h == [header EXCEPT !.discount = d.rate, !.writeOff = d.writeOff,
                                  !.adjusted = adjusted,
                                  !.profit = adjusted - header.cost]
          IN  IF AdjustmentValues(h)
              THEN /\ header' = h /\ status' = "PENDING"
                   /\ UNCHANGED <<size, line, scope, previous>>
              ELSE UNCHANGED vars
    BY DEF UpdateAdjustment
  <1> DEFINE adjusted == AtLeastZero(product - d.writeOff)
             h == [header EXCEPT !.discount = d.rate, !.writeOff = d.writeOff,
                                 !.adjusted = adjusted,
                                 !.profit = adjusted - header.cost]
  <1>2. CASE ~AdjustmentValues(h)
    BY <1>1, <1>2, StutterKeeps
  <1>3. CASE AdjustmentValues(h)
    <2>1. /\ header' = h /\ status' = "PENDING"
          /\ UNCHANGED <<size, line, scope, previous>>
      BY <1>1, <1>3
    <2>2. d.rate \in 0..Scale /\ d.writeOff \in Nat
      BY ConstantsAssumption
    <2>3. DOMAIN header = {"direct", "cost", "fee", "total", "discount", "writeOff",
                          "adjusted", "profit"}
      BY IInvTypeOK DEF TypeOK
    <2>4. /\ h.total = header.total /\ h.discount = d.rate /\ h.writeOff = d.writeOff
          /\ h.adjusted = adjusted
      BY <2>3
    <2>5. header.total = Total(scope)
      BY TotalsTyped
    <2>6. adjusted = Adjusted(Total(scope), d.rate, d.writeOff)
      BY <1>3, <2>4, <2>5 DEF AdjustmentValues, Adjusted
    <2>7. header = Priced(scope, header.discount, header.writeOff)
      BY DEF IInv, HeaderPriced
    <2>8. h = Priced(scope, d.rate, d.writeOff)
      <3> DEFINE k == h
                 p == adjusted - ExpectedCost(scope)
      <3>1. header.cost = ExpectedCost(scope)
        BY TotalsTyped
      <3>2. Amends(k, header, d.rate, d.writeOff, adjusted, p)
        BY <3>1 DEF Amends
      <3> HIDE DEF k, h, p, adjusted
      <3>3. k = Priced(scope, d.rate, d.writeOff)
        BY <2>6, <2>7, <3>2, Readjusted, Zenon DEF p
      <3> QED BY <3>3 DEF k
    <2> HIDE DEF h
    <2>9. HeaderPriced'
      BY <2>1, <2>2, <2>4, <2>8 DEF HeaderPriced
    <2>10. NothingBlocked'
      <3>1. CASE status # "DRAFT"
        BY <2>1, <3>1 DEF IInv, NothingBlocked, Blockers
      <3>2. CASE status = "DRAFT"
        BY <3>2 DEF UpdateAdjustment
      <3> QED BY <3>1, <3>2
    <2>11. PreviousPriced' /\ status' \in Statuses
      BY <2>1 DEF IInv, PreviousPriced, Statuses
    <2> QED BY <2>1, <2>9, <2>10, <2>11, StatusKeeps
  <1> QED BY <1>2, <1>3

\* A new version of a quoted one is without adjustment.
LEMMA ContinueEditingKeeps == ASSUME IInv, ContinueEditing PROVE IInv'
  <1>1. /\ status' = "DRAFT" /\ previous' = [line |-> line, total |-> header.total]
        /\ UNCHANGED <<size, line, scope>>
    BY DEF ContinueEditing
  <1>2. NothingBlocked' /\ status' \in Statuses
    BY <1>1 DEF NothingBlocked, Statuses
  <1>3. PreviousPriced'
    <2>1. \A l \in DOMAIN line : RowPriced(line[l], l[2])
      BY DEF IInv, Calculated
    <2>2. header.total = Total(AllTotals(line))
      BY TotalsTyped DEF IInv
    <2>3. previous'.line = line /\ previous'.total = header.total
      BY <1>1
    <2> QED BY <2>1, <2>2, <2>3 DEF PreviousPriced
  <1>4. HeaderPriced'
    <2>1. CASE status = "RETURNED"
      BY <1>1, <2>1 DEF ContinueEditing, IInv, HeaderPriced
    <2>2. CASE status # "RETURNED"
      <3>1. header' = [header EXCEPT !.discount = Scale, !.writeOff = 0,
                                     !.adjusted = header.total,
                                     !.profit = header.total - header.cost]
        BY <2>2 DEF ContinueEditing
      <3>2. header.total = Total(scope) /\ Total(scope) \in Nat
        BY TotalsTyped
      <3>3. header.total = Adjusted(Total(scope), Scale, 0)
        BY <3>2, AdjustedInTotal, ConstantsAssumption
      <3>4. header = Priced(scope, header.discount, header.writeOff)
        BY DEF IInv, HeaderPriced
      <3>5. header' = Priced(scope, Scale, 0)
        <4> DEFINE a == header.total
                   p == a - ExpectedCost(scope)
        <4>1. header.cost = ExpectedCost(scope)
          BY TotalsTyped
        <4>2. Amends(header', header, Scale, 0, a, p)
          BY <3>1, <4>1 DEF Amends
        <4>3. a = Adjusted(Total(scope), Scale, 0) /\ p = a - ExpectedCost(scope)
          BY <3>3
        <4> HIDE DEF a, p
        <4> QED BY <3>4, <4>2, <4>3, Readjusted, Zenon
      <3>6. header'.discount = Scale /\ header'.writeOff = 0
        BY <3>5, PricedIs
      <3> QED BY <1>1, <3>5, <3>6, ConstantsAssumption DEF HeaderPriced
    <2> QED BY <2>1, <2>2
  <1> QED BY <1>1, <1>2, <1>3, <1>4, StatusKeeps

LEMMA NextKeeps == IInv /\ [Next]_vars => IInv'
  <1> SUFFICES ASSUME IInv, [Next]_vars PROVE IInv'
    OBVIOUS
  <1>1. ASSUME NEW l \in DOMAIN line, NEW selected \in BOOLEAN,
               NEW quantity \in Quantities \cup {None}, UpdateLine(l, selected, quantity)
        PROVE  IInv'
    BY <1>1, UpdateLineKeeps
  <1>2. ASSUME NEW s \in Spaces, DeleteSpace(s)
        PROVE  IInv'
    BY <1>2, DeleteSpaceKeeps
  <1>3. ASSUME NEW s \in Spaces, NEW new \in Sizes, UpdateSpace(s, new)
        PROVE  IInv'
    BY <1>3, UpdateSpaceKeeps
  <1>4. ASSUME NEW d \in Discounts, UpdateAdjustment(d)
        PROVE  IInv'
    BY <1>4, UpdateAdjustmentKeeps
  <1>5. ASSUME NEW decision \in {"APPROVED", "RETURNED"}, Decide(decision)
        PROVE  IInv'
    BY <1>5, DecideKeeps
  <1>6. CASE UNCHANGED vars
    BY <1>6, StutterKeeps
  <1> QED
    BY <1>1, <1>2, <1>3, <1>4, <1>5, <1>6, GenerateKeeps, ContinueEditingKeeps DEF Next

\* Every reachable state satisfies the inductive invariant: createDraft
\* establishes it, and every request and every statement on a space keeps
\* it, whether the tables accept what it writes or not.
THEOREM InvariantHolds == Spec => []IInv
  BY InitIInv, NextKeeps, PTL DEF Spec

\* The rows, totals and amounts always have their types: what is typed in
\* belongs to a selected line without a rule, and a draft has every line of
\* its scopes.
THEOREM TypeCorrect == Spec => []TypeOK
  BY InvariantHolds, IInvTypeOK, PTL

\* Whatever was saved by the service or changed by the statements of
\* updateSpace and deleteSpace, the stored rows, totals and header are what
\* the calculator makes of the entries.
THEOREM StoredCalculated == Spec => []StoredIsCalculated
  BY InvariantHolds, IInvStoredIsCalculated, PTL

\* When the comparison of a version with the one it was made from shows no
\* line, the totals before adjustment are equal.
THEOREM ComparisonExplained == Spec => []ComparisonExplainsTotal
  BY InvariantHolds, IInvComparison, PTL

\* A version that is offered has an amount for every selected line, and at
\* most the total is asked for it.
THEOREM OffersComplete == Spec => []OfferIsComplete
  BY InvariantHolds, IInvOffer, PTL
=============================================================================

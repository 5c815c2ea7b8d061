------------------------- MODULE ReaderGrammarProofs -------------------------
(***************************************************************************)
(* The reader against the grammar, for every source, every choice of       *)
(* options and every depth cap: a diagnostic is reported just when the     *)
(* source, as the reader took it, is not well-formed.                      *)
(*                                                                         *)
(* At each step the calls in progress say what they still need of the      *)
(* text (Rest).  A step that reports nothing needs as much as before, and  *)
(* one that reports does so where nothing could help (Faithful).  As the   *)
(* reader settles only while it runs which dots are symbols, this is said  *)
(* of every text that agrees with what it has taken so far (Reading).      *)
(***************************************************************************)
EXTENDS Grammar, ReaderProofs

-----------------------------------------------------------------------------
(* The recursive definition of Ends has a solution.                        *)

Sized(text) ==
  Len(text) = Len(tokens) /\ Len(tokens) \in Nat /\ MAX_DEPTH \in Nat
Positions == 1..Len(tokens) + 1
Levels == 0..MAX_DEPTH
Domain == Parts \X Positions \X Levels

\* A part may be empty, but for a datum.
Reach(part, i) == (IF part = "datum" THEN i + 1 ELSE i)..Len(tokens) + 1

\* What f has behind i lies in reach.
Behind(f, i) ==
  \A part \in Parts, k \in i + 1..Len(tokens) + 1, d \in Levels :
    f[<<part, k, d>>] \subseteq Reach(part, k)

\* Induction from the end of the text: i is in S if all behind it are.
LEMMA Backwards ==
  ASSUME NEW l \in Nat, NEW S,
         \A i \in 1..l + 1 : (\A k \in i + 1..l + 1 : k \in S) => i \in S
  PROVE  1..l + 1 \subseteq S
  <1> SUFFICES ASSUME NEW a \in 1..l + 1, a \notin S
               PROVE  FALSE
    OBVIOUS
  <1> DEFINE T == {d \in 0..l : l + 1 - d \notin S}
  <1>1. T \subseteq Nat /\ T # {}
    <2>1. l + 1 - a \in 0..l /\ l + 1 - (l + 1 - a) = a
      OBVIOUS
    <2>2. l + 1 - a \in T
      BY <2>1
    <2>3. T \subseteq Nat
      OBVIOUS
    <2> HIDE DEF T
    <2>4. QED
      BY <2>2, <2>3
  <1> DEFINE R == OpToRel(<, Nat)
  <1>2. IsWellFoundedOn(R, Nat)
    BY NatLessThanWellFounded
  <1>3. \A x, y \in Nat : y < x => <<y, x>> \in R
    BY DEF OpToRel
  <1> HIDE DEF R
  <1>4. PICK d \in T : \A y \in T : ~(<<y, d>> \in R)
    BY <1>1, <1>2, WFMin
  <1>5. \A y \in T : ~(y < d)
    BY <1>1, <1>3, <1>4
  <1> DEFINE i == l + 1 - d
  <1>6. d \in 0..l /\ i \in 1..l + 1 /\ i \notin S
    BY <1>4
  <1>7. \A k \in i + 1..l + 1 : k \in S
    <2> SUFFICES ASSUME NEW k \in i + 1..l + 1, k \notin S
                 PROVE  FALSE
      OBVIOUS
    <2>1. l + 1 - (l + 1 - k) = k /\ l + 1 - k \in 0..l /\ l + 1 - k < d
      BY <1>6
    <2>2. l + 1 - k \in T
      BY <2>1
    <2>3. QED
      BY <1>5, <2>1, <2>2
  <1>8. QED
    BY <1>6, <1>7

\* What begins where something else ended lies behind it.
LEMMA ThenBehind ==
  ASSUME NEW text, Sized(text), NEW f, NEW i \in Positions, NEW d \in Levels, Behind(f, i),
         NEW part \in Parts, NEW S, S \subseteq i + 1..Len(tokens) + 1
  PROVE  Then(f, part, S, d) \subseteq i + 1..Len(tokens) + 1
  <1> SUFFICES ASSUME NEW k \in S PROVE f[<<part, k, d>>] \subseteq i + 1..Len(tokens) + 1
    BY DEF Then
  <1>1. f[<<part, k, d>>] \subseteq Reach(part, k) /\ k \in i + 1..Len(tokens) + 1
    BY DEF Behind
  <1>2. Reach(part, k) \subseteq i + 1..Len(tokens) + 1
    BY <1>1 DEF Reach, Sized, Positions
  <1>3. QED
    BY <1>1, <1>2

LEMMA OperandBehind ==
  ASSUME NEW text, Sized(text), NEW f, NEW i \in Positions, NEW d \in Levels, Behind(f, i),
           i <= Len(tokens)
  PROVE  f[<<"datum", i + 1, d>>] \subseteq i + 2..Len(tokens) + 1
  <1>1. i + 1 \in i + 1..Len(tokens) + 1 /\ "datum" \in Parts
    BY DEF Sized, Positions, Parts
  <1>2. f[<<"datum", i + 1, d>>] \subseteq Reach("datum", i + 1)
    BY <1>1 DEF Behind
  <1>3. i + 1 + 1 = i + 2
    BY DEF Positions
  <1>4. QED
    BY <1>2, <1>3 DEF Reach

\* A rule gives positions in reach.
LEMMA RuleReach ==
  ASSUME NEW text, Sized(text), NEW f, NEW i \in Positions, NEW d \in Levels, Behind(f, i)
  PROVE  /\ Datum(f, text, i, d) \subseteq i + 1..Len(tokens) + 1
         /\ \A part \in Parts : Rule(f, text, part, i, d) \subseteq Reach(part, i)
  <1> DEFINE L == Len(tokens)
             operand == f[<<"datum", i + 1, d>>]
  <1>1. L \in Nat /\ i \in 1..L + 1 /\ Len(text) = L
    BY DEF Sized, Positions
  <1>2. i <= L => operand \subseteq i + 1..L + 1
    BY <1>1, OperandBehind
  <1>3. ASSUME NEW part \in Parts, i <= L PROVE Then(f, part, operand, d) \subseteq i + 1..L + 1
    BY <1>2, <1>3, ThenBehind
  <1>4. Datum(f, text, i, d) \subseteq i + 1..L + 1
    <2> DEFINE t == text[i]
               inner == {j + 1 : j \in {k \in i + 1..Len(text) :
                           /\ <<t, text[k]>> \in Matches
                           /\ d < MAX_DEPTH /\ k \in f[<<"empty", i + 1, d + 1>>]}}
    <2>1. inner \subseteq i + 1..L + 1 /\ (i <= L => {i + 1} \subseteq i + 1..L + 1)
      <3>1. \A k \in i + 1..Len(text) : k + 1 \in i + 1..L + 1
        BY <1>1
      <3>2. i <= L => i + 1 \in i + 1..L + 1
        BY <1>1
      <3>3. QED
        BY <3>1, <3>2
    <2>2. i <= L => Then(f, "datum", operand, d) \subseteq i + 1..L + 1
      BY <1>3 DEF Parts
    <2> HIDE DEF inner
    <2>3. Datum(f, text, i, d) = CASE i > Len(text) -> {}
            [] i <= Len(text) /\ t \in Leaves -> IF Separates(t) THEN {} ELSE {i + 1}
            [] i <= Len(text) /\ (Generic(t) \/ t \in {Tag, Label}) -> operand
            [] i <= Len(text) /\ (TwoOperands(t) \/ Hides(t)) -> Then(f, "datum", operand, d)
            [] OTHER -> inner
      BY DEF Datum, inner
    <2> HIDE DEF operand
    <2>4. QED
      BY <1>1, <1>2, <2>1, <2>2, <2>3
  <1>6. TopData(f, text, i, d) \subseteq i..L + 1
    <2>1. Then(f, "top", Datum(f, text, i, d), d) \subseteq i + 1..L + 1
      BY <1>4, ThenBehind DEF Parts
    <2>2. i <= L => Then(f, "top", operand, d) \subseteq i + 1..L + 1
      BY <1>3 DEF Parts
    <2>3. QED
      BY <1>1, <2>1, <2>2 DEF TopData
  <1>7. ASSUME NEW part \in Parts PROVE Body(f, text, part, i, d) \subseteq i..L + 1
    <2>1. Then(f, "item", Datum(f, text, i, d), d) \subseteq i + 1..L + 1
      BY <1>4, ThenBehind DEF Parts
    <2>2. i <= L => /\ Then(f, "tail", operand, d) \subseteq i + 1..L + 1
                    /\ Then(f, part, operand, d) \subseteq i + 1..L + 1
      BY <1>3 DEF Parts
    <2>3. QED
      BY <1>1, <2>1, <2>2 DEF Body
  <1>8. ASSUME NEW part \in Parts PROVE Rule(f, text, part, i, d) \subseteq Reach(part, i)
    BY <1>4, <1>6, <1>7 DEF Rule, Reach
  <1>9. QED
    BY <1>4, <1>8

SameBehind(f, g, i) ==
  \A part \in Parts, k \in i + 1..Len(tokens) + 1, d \in Levels :
    f[<<part, k, d>>] = g[<<part, k, d>>]

\* A rule depends on what lies behind only.
LEMMA RuleSame ==
  ASSUME NEW text, Sized(text), NEW f, NEW g, NEW i \in Positions, NEW d \in Levels, Behind(f, i),
         SameBehind(f, g, i)
  PROVE  \A part \in Parts : Rule(f, text, part, i, d) = Rule(g, text, part, i, d)
  <1> DEFINE L == Len(tokens)
             F == f[<<"datum", i + 1, d>>]
             G == g[<<"datum", i + 1, d>>]
  <1>1. L \in Nat /\ i \in 1..L + 1 /\ Len(text) = L
    BY DEF Sized, Positions
  <1>2. i <= L => F = G /\ F \subseteq i + 1..L + 1
    <2>1. i <= L => i + 1 \in i + 1..L + 1
      BY <1>1
    <2>2. i <= L => F = G
      BY <2>1 DEF Parts, SameBehind
    <2>3. QED
      BY <1>1, <2>2, OperandBehind
  <1>3. ASSUME NEW part \in Parts, NEW S, S \subseteq i + 1..L + 1
        PROVE  Then(f, part, S, d) = Then(g, part, S, d)
    BY <1>3 DEF Then, SameBehind
  <1>4. ASSUME NEW part \in Parts, i <= L PROVE Then(f, part, F, d) = Then(g, part, G, d)
    BY <1>2, <1>3, <1>4
  <1>5. Datum(f, text, i, d) = Datum(g, text, i, d)
    <2> DEFINE t == text[i]
               inner(h) == {j + 1 : j \in {k \in i + 1..Len(text) :
                              /\ <<t, text[k]>> \in Matches
                              /\ d < MAX_DEPTH /\ k \in h[<<"empty", i + 1, d + 1>>]}}
    <2>1. inner(f) = inner(g)
      <3>1. ASSUME NEW k \in i + 1..Len(text), d < MAX_DEPTH
            PROVE  f[<<"empty", i + 1, d + 1>>] = g[<<"empty", i + 1, d + 1>>]
        <4>1. i + 1 \in i + 1..L + 1 /\ d + 1 \in Levels /\ "empty" \in Parts
          BY <1>1, <3>1 DEF Levels, Sized, Parts
        <4>2. QED
          BY <4>1 DEF SameBehind
      <3>2. QED
        BY <3>1
    <2>2. i <= L => Then(f, "datum", F, d) = Then(g, "datum", G, d)
      BY <1>4 DEF Parts
    <2>3. \A h : Datum(h, text, i, d) = CASE i > Len(text) -> {}
            [] i <= Len(text) /\ t \in Leaves -> IF Separates(t) THEN {} ELSE {i + 1}
            [] i <= Len(text) /\ (Generic(t) \/ t \in {Tag, Label}) -> h[<<"datum", i + 1, d>>]
            [] i <= Len(text) /\ (TwoOperands(t) \/ Hides(t)) ->
              Then(h, "datum", h[<<"datum", i + 1, d>>], d)
            [] OTHER -> inner(h)
      BY DEF Datum
    <2> HIDE DEF inner
    <2>4. Datum(f, text, i, d) = CASE i > Len(text) -> {}
            [] i <= Len(text) /\ t \in Leaves -> IF Separates(t) THEN {} ELSE {i + 1}
            [] i <= Len(text) /\ (Generic(t) \/ t \in {Tag, Label}) -> F
            [] i <= Len(text) /\ (TwoOperands(t) \/ Hides(t)) -> Then(f, "datum", F, d)
            [] OTHER -> inner(f)
      BY <2>3
    <2>5. Datum(g, text, i, d) = CASE i > Len(text) -> {}
            [] i <= Len(text) /\ t \in Leaves -> IF Separates(t) THEN {} ELSE {i + 1}
            [] i <= Len(text) /\ (Generic(t) \/ t \in {Tag, Label}) -> G
            [] i <= Len(text) /\ (TwoOperands(t) \/ Hides(t)) -> Then(g, "datum", G, d)
            [] OTHER -> inner(g)
      BY <2>3
    <2> HIDE DEF F, G
    <2>6. QED
      BY <1>1, <1>2, <2>1, <2>2, <2>4, <2>5
  <1>7. Then(f, "top", Datum(f, text, i, d), d) = Then(g, "top", Datum(g, text, i, d), d)
        /\ Then(f, "item", Datum(f, text, i, d), d) = Then(g, "item", Datum(g, text, i, d), d)
    BY <1>3, <1>5, RuleReach DEF Parts
  <1>8. TopData(f, text, i, d) = TopData(g, text, i, d)
    BY <1>1, <1>4, <1>7 DEF TopData, Parts
  <1>9. ASSUME NEW part \in Parts PROVE Body(f, text, part, i, d) = Body(g, text, part, i, d)
    <2>1. i <= L => /\ Then(f, "tail", F, d) = Then(g, "tail", G, d)
                    /\ Then(f, part, F, d) = Then(g, part, G, d)
      BY <1>4 DEF Parts
    <2>2. QED
      BY <1>1, <1>7, <2>1 DEF Body
  <1>10. QED
    BY <1>5, <1>8, <1>9 DEF Rule

\* What a triple of the domain is made of.
LEMMA Triples ==
  /\ \A part \in Parts, i \in Positions, d \in Levels :
       /\ <<part, i, d>> \in Domain
       /\ <<part, i, d>>[1] = part /\ <<part, i, d>>[2] = i /\ <<part, i, d>>[3] = d
  /\ \A x \in Domain : /\ x = <<x[1], x[2], x[3]>>
                       /\ x[1] \in Parts /\ x[2] \in Positions /\ x[3] \in Levels
  BY DEF Domain

\* From k on, f is what the rules say.
Solves(text, f, k) ==
  \A part \in Parts, i \in k..Len(tokens) + 1, d \in Levels :
    /\ f[<<part, i, d>>] = Rule(f, text, part, i, d)
    /\ f[<<part, i, d>>] \subseteq Reach(part, i)

LEMMA EndsExist ==
  ASSUME NEW text, Sized(text)
  PROVE  \E g : /\ g = [x \in Domain |-> Rule(g, text, x[1], x[2], x[3])]
                /\ Solves(text, g, 1)
  <1> DEFINE L == Len(tokens)
             Table == [Domain -> SUBSET Positions]
             S == {k \in 1..L + 1 : \E g \in Table : Solves(text, g, k)}
  <1>1. L \in Nat
    BY DEF Sized
  <1>2. ASSUME NEW k \in 1..L + 1, NEW g \in Table, Solves(text, g, k + 1)
        PROVE  \E h \in Table : Solves(text, h, k)
    <2> DEFINE h == [x \in Domain |-> IF x[2] >= k THEN Rule(g, text, x[1], x[2], x[3]) ELSE {}]
    <2>1. ASSUME NEW part \in Parts, NEW i \in Positions, NEW d \in Levels, i >= k
          PROVE  h[<<part, i, d>>] = Rule(g, text, part, i, d)
      BY <2>1, Triples
    <2>2. ASSUME NEW part \in Parts, NEW i \in Positions, NEW d \in Levels, i >= k
          PROVE  Rule(g, text, part, i, d) \subseteq Reach(part, i) /\ Behind(g, i)
      <3>1. Behind(g, i)
        <4> SUFFICES ASSUME NEW p \in Parts, NEW j \in i + 1..L + 1, NEW e \in Levels
                     PROVE  g[<<p, j, e>>] \subseteq Reach(p, j)
          BY DEF Behind
        <4>1. j \in k + 1..L + 1
          BY <1>1, <2>2 DEF Positions
        <4>2. QED
          BY <1>2, <4>1 DEF Solves
      <3>2. QED
        BY <3>1, RuleReach
    <2>3. h \in Table
      <3> SUFFICES ASSUME NEW x \in Domain
                   PROVE  (IF x[2] >= k THEN Rule(g, text, x[1], x[2],
                            x[3]) ELSE {}) \subseteq Positions
        OBVIOUS
      <3>1. x[1] \in Parts /\ x[2] \in Positions /\ x[3] \in Levels
        BY Triples
      <3>2. Reach(x[1], x[2]) \subseteq Positions
        BY <1>1, <3>1 DEF Reach, Positions
      <3>3. x[2] >= k => Rule(g, text, x[1], x[2], x[3]) \subseteq Reach(x[1], x[2])
        BY <2>2, <3>1
      <3>4. QED
        BY <3>2, <3>3
    <2> HIDE DEF h
    <2>4. ASSUME NEW part \in Parts, NEW i \in k + 1..L + 1, NEW d \in Levels
          PROVE  g[<<part, i, d>>] = h[<<part, i, d>>]
      <3>1. i \in Positions /\ i >= k
        BY <1>1 DEF Positions
      <3>2. g[<<part, i, d>>] = Rule(g, text, part, i, d)
        BY <1>2 DEF Solves
      <3>3. QED
        BY <2>1, <3>1, <3>2
    <2>5. ASSUME NEW part \in Parts, NEW i \in k..L + 1, NEW d \in Levels
          PROVE  h[<<part, i, d>>] = Rule(h, text, part, i, d)
                   /\ h[<<part, i, d>>] \subseteq Reach(part, i)
      <3>1. i \in Positions /\ i >= k
        BY <1>1 DEF Positions
      <3>2. SameBehind(g, h, i)
        <4>1. \A j \in i + 1..L + 1 : j \in k + 1..L + 1
          BY <1>1
        <4>2. QED
          BY <2>4, <4>1 DEF SameBehind
      <3>3. Behind(g, i)
        BY <2>2, <3>1
      <3>4. \A p \in Parts : Rule(g, text, p, i, d) = Rule(h, text, p, i, d)
        BY <3>1, <3>2, <3>3, RuleSame
      <3>5. QED
        BY <2>1, <2>2, <3>1, <3>4
    <2>6. QED
      BY <2>3, <2>5 DEF Solves
  <1>3. ASSUME NEW k \in 1..L + 1, \A m \in k + 1..L + 1 : m \in S
        PROVE  k \in S
    <2>1. CASE k = L + 1
      <3>1. [x \in Domain |-> {}] \in Table
        OBVIOUS
      <3>2. Solves(text, [x \in Domain |-> {}], k + 1)
        BY <1>1, <2>1 DEF Solves
      <3> HIDE DEF Table
      <3>3. QED
        BY <1>2, <3>1, <3>2
    <2>2. CASE k # L + 1
      <3>1. k + 1 \in k + 1..L + 1
        BY <1>1, <2>2
      <3>2. k + 1 \in S
        BY <1>3, <3>1
      <3>3. QED
        BY <1>2, <3>2
    <2>3. QED
      BY <2>1, <2>2
  <1> HIDE DEF S
  <1>4. 1..L + 1 \subseteq S
    BY <1>1, <1>3, Backwards
  <1>5. PICK g \in Table : Solves(text, g, 1)
    <2>1. 1 \in 1..L + 1
      BY <1>1
    <2>2. QED
      BY <1>4, <2>1 DEF S
  <1>6. \A x \in Domain : g[x] = Rule(g, text, x[1], x[2], x[3])
    <2> TAKE x \in Domain
    <2>1. x = <<x[1], x[2], x[3]>> /\ x[1] \in Parts /\ x[2] \in 1..L + 1 /\ x[3] \in Levels
      BY Triples DEF Positions
    <2>2. QED
      BY <1>5, <2>1 DEF Solves
  <1>7. g = [x \in Domain |-> g[x]]
    BY <1>5
  <1>8. QED
    BY <1>5, <1>6, <1>7

LEMMA EndsSolve ==
  ASSUME NEW text, Sized(text)
  PROVE  Solves(text, Ends(text), 1)
  <1>1. Ends(text) = CHOOSE g : g = [x \in Domain |-> Rule(g, text, x[1], x[2], x[3])]
    BY DEF Ends, Domain, Positions, Levels, Sized
  <1>2. \A g : g = [x \in Domain |-> Rule(g, text, x[1], x[2], x[3])] => Solves(text, g, 1)
    <2> SUFFICES ASSUME NEW g, g = [x \in Domain |-> Rule(g, text, x[1], x[2], x[3])]
                 PROVE  Solves(text, g, 1)
      OBVIOUS
    <2>1. \A part \in Parts, i \in Positions, d \in Levels :
            g[<<part, i, d>>] = Rule(g, text, part, i, d)
      BY Triples
    <2> DEFINE S == {i \in Positions : \A part \in Parts, d \in Levels :
                       g[<<part, i, d>>] \subseteq Reach(part, i)}
    <2>2. ASSUME NEW i \in Positions, \A k \in i + 1..Len(tokens) + 1 : k \in S
          PROVE  i \in S
      <3>1. Behind(g, i)
        BY <2>2 DEF Behind
      <3>2. QED
        BY <2>1, <3>1, RuleReach
    <2> HIDE DEF S
    <2>3. Positions \subseteq S
      BY <2>2, Backwards DEF Positions, Sized
    <2>4. QED
      BY <2>1, <2>3 DEF Solves, S, Positions
  <1>3. QED
    BY <1>1, <1>2, EndsExist

-----------------------------------------------------------------------------
(* The rules, read from left to right.                                     *)

DatumEnds(text, i, d) == Ends(text)[<<"datum", i, d>>]
TopEnds(text, i, d)   == Ends(text)[<<"top", i, d>>]
BodyEnds(text, part, i, d) == Ends(text)[<<part, i, d>>]
BodyParts == {"empty", "item", "tail"}

\* Where parse_datum finds nothing to read.
Stop(text, i) == i = Len(tokens) + 1 \/ text[i] \in Closes

LEMMA EndsAre ==
  ASSUME NEW text, Sized(text), NEW i \in Positions, NEW d \in Levels
  PROVE  /\ DatumEnds(text, i, d) = Datum(Ends(text), text, i, d)
         /\ TopEnds(text, i, d) = TopData(Ends(text), text, i, d)
         /\ \A part \in BodyParts :
              BodyEnds(text, part, i, d) = Body(Ends(text), text, part, i, d)
  <1>1. \A part \in Parts : Ends(text)[<<part, i, d>>] = Rule(Ends(text), text, part, i, d)
    BY EndsSolve DEF Solves, Positions
  <1>2. QED
    BY <1>1 DEF Rule, Parts, BodyParts, DatumEnds, TopEnds, BodyEnds

LEMMA EndsReach ==
  ASSUME NEW text, Sized(text), NEW i \in Positions, NEW d \in Levels
  PROVE  /\ DatumEnds(text, i, d) \subseteq i + 1..Len(tokens) + 1
         /\ DatumEnds(text, i, d) \subseteq Positions
         /\ \A part \in BodyParts : /\ BodyEnds(text, part, i, d) \subseteq i..Len(tokens) + 1
                                    /\ BodyEnds(text, part, i, d) \subseteq Positions
  <1>1. \A part \in Parts : Ends(text)[<<part, i, d>>] \subseteq Reach(part, i)
    BY EndsSolve DEF Solves, Positions
  <1>2. i \in 1..Len(tokens) + 1 /\ Len(tokens) \in Nat
    BY DEF Sized, Positions
  <1>3. i + 1..Len(tokens) + 1 \subseteq Positions /\ i..Len(tokens) + 1 \subseteq Positions
    BY <1>2 DEF Positions
  <1>4. DatumEnds(text, i, d) \subseteq i + 1..Len(tokens) + 1
    BY <1>1 DEF DatumEnds, Parts, Reach
  <1>5. \A part \in BodyParts : BodyEnds(text, part, i, d) \subseteq i..Len(tokens) + 1
    BY <1>1 DEF BodyEnds, Parts, BodyParts, Reach
  <1>6. QED
    BY <1>3, <1>4, <1>5

\* Nothing begins at a close, at a malformed token or at the end.
LEMMA NothingBegins ==
  ASSUME NEW text, Sized(text), NEW i \in Positions, NEW d \in Levels,
         Stop(text, i) \/ text[i] = Malformed
  PROVE  /\ DatumEnds(text, i, d) = {} /\ TopEnds(text, i, d) = {i}
         /\ \A part \in BodyParts : BodyEnds(text, part, i, d) = {i}
  <1>1. i = Len(tokens) + 1 \/ text[i] \in Closes \union {Malformed}
    BY DEF Stop
  <1>2. i \in Nat /\ Len(tokens) \in Nat /\ Len(text) = Len(tokens)
    BY DEF Sized, Positions
  <1>3. CASE i = Len(tokens) + 1
    <2>1. i > Len(text) /\ ~(i <= Len(text))
      BY <1>2, <1>3
    <2>2. Datum(Ends(text), text, i, d) = {}
      BY <2>1 DEF Datum
    <2>3. /\ TopData(Ends(text), text, i, d) = {i}
          /\ \A part : Body(Ends(text), text, part, i, d) = {i}
      BY <2>1, <2>2 DEF TopData, Body, Then
    <2>4. QED
      BY <2>2, <2>3, EndsAre
  <1>4. CASE i # Len(tokens) + 1
    <2>1. text[i] \in Closes \union {Malformed} /\ i <= Len(text)
      BY <1>1, <1>2, <1>4 DEF Positions
    <2>2. /\ text[i] \notin Leaves /\ ~Generic(text[i]) /\ text[i] \notin {Tag, Label}
          /\ ~TwoOperands(text[i]) /\ ~Hides(text[i]) /\ ~Separates(text[i])
      BY <2>1 DEF Closes, Malformed, Leaves, Generic, Tag, Label, TwoOperands, Hides, Separates
    <2>3. \A k : <<text[i], text[k]>> \notin Matches
      BY <2>1 DEF Closes, Malformed, Matches
    <2>4. Datum(Ends(text), text, i, d) = {}
      BY <1>2, <2>1, <2>2, <2>3 DEF Datum
    <2>5. /\ TopData(Ends(text), text, i, d) = {i}
          /\ \A part : Body(Ends(text), text, part, i, d) = {i}
      BY <2>1, <2>2, <2>4 DEF TopData, Body, Then
    <2>6. QED
      BY <2>4, <2>5, EndsAre
  <1>5. QED
    BY <1>3, <1>4

\* The datum that begins at i, by its first token.
LEMMA DatumBegins ==
  ASSUME NEW text, Sized(text), NEW i \in 1..Len(tokens), NEW d \in Levels
  PROVE  /\ i \in Positions /\ i + 1 \in Positions
         /\ text[i] \in Leaves =>
              DatumEnds(text, i, d) = IF Separates(text[i]) THEN {} ELSE {i + 1}
         /\ Generic(text[i]) \/ text[i] \in {Tag, Label} =>
              DatumEnds(text, i, d) = DatumEnds(text, i + 1, d)
         /\ TwoOperands(text[i]) \/ Hides(text[i]) =>
              \A j : j \in DatumEnds(text, i, d)
                <=> \E k \in DatumEnds(text, i + 1, d) : j \in DatumEnds(text, k, d)
         /\ text[i] \in Opens \union HashOpens =>
              \A j : j \in DatumEnds(text, i, d) <=>
                /\ d < MAX_DEPTH
                /\ \E k \in BodyEnds(text, "empty", i + 1, d + 1) :
                     k <= Len(tokens) /\ <<text[i], text[k]>> \in Matches /\ j = k + 1
  <1>1. i \in Positions /\ i + 1 \in Positions /\ Len(text) = Len(tokens)
        /\ i <= Len(text) /\ ~(i > Len(text))
    BY DEF Sized, Positions
  <1>2. DatumEnds(text, i, d) = Datum(Ends(text), text, i, d)
    BY <1>1, EndsAre
  <1>3. CASE text[i] \in Leaves
    <2>1. /\ ~(Generic(text[i]) \/ text[i] \in {Tag, Label})
          /\ ~(TwoOperands(text[i]) \/ Hides(text[i])) /\ text[i] \notin Opens \union HashOpens
      BY <1>3 DEF Leaves, Generic, Tag, Label, TwoOperands, Hides, Opens, HashOpens
    <2>2. QED
      BY <1>1, <1>2, <1>3, <2>1 DEF Datum
  <1>4. CASE Generic(text[i]) \/ text[i] \in {Tag, Label}
    <2>1. /\ text[i] \notin Leaves
          /\ ~(TwoOperands(text[i]) \/ Hides(text[i])) /\ text[i] \notin Opens \union HashOpens
      BY <1>4 DEF Leaves, Generic, Tag, Label, TwoOperands, Hides, Opens, HashOpens
    <2>2. QED
      BY <1>1, <1>2, <1>4, <2>1 DEF Datum, DatumEnds
  <1>5. CASE TwoOperands(text[i]) \/ Hides(text[i])
    <2>1. /\ text[i] \notin Leaves /\ ~(Generic(text[i]) \/ text[i] \in {Tag, Label})
          /\ text[i] \notin Opens \union HashOpens
      BY <1>5 DEF Leaves, Generic, Tag, Label, TwoOperands, Hides, Opens, HashOpens
    <2>2. Datum(Ends(text), text, i, d) = Then(Ends(text), "datum", DatumEnds(text, i + 1, d), d)
      BY <1>1, <1>5, <2>1 DEF Datum, DatumEnds
    <2>3. \A j : j \in DatumEnds(text, i, d)
            <=> \E k \in DatumEnds(text, i + 1, d) : j \in DatumEnds(text, k, d)
      <3>1. \A j, S : j \in Then(Ends(text), "datum", S, d)
                <=> \E k \in S : j \in DatumEnds(text, k, d)
        BY DEF Then, DatumEnds
      <3>2. QED
        BY <1>2, <2>2, <3>1
    <2>4. QED
      BY <1>1, <1>5, <2>1, <2>3
  <1>6. CASE text[i] \in Opens \union HashOpens
    <2>1. /\ text[i] \notin Leaves /\ ~(Generic(text[i]) \/ text[i] \in {Tag, Label})
          /\ ~(TwoOperands(text[i]) \/ Hides(text[i]))
      BY <1>6 DEF Leaves, Generic, Tag, Label, TwoOperands, Hides, Opens, HashOpens
    <2> DEFINE K == {k \in i + 1..Len(text) :
                       /\ <<text[i], text[k]>> \in Matches
                       /\ d < MAX_DEPTH /\ k \in BodyEnds(text, "empty", i + 1, d + 1)}
    <2>2. Datum(Ends(text), text, i, d) = {j + 1 : j \in K}
      BY <1>1, <2>1 DEF Datum, BodyEnds
    <2>3. d < MAX_DEPTH => BodyEnds(text, "empty", i + 1, d + 1) \subseteq i + 1..Len(tokens) + 1
      <3>1. d < MAX_DEPTH => d + 1 \in Levels
        BY DEF Levels, Sized
      <3>2. QED
        BY <1>1, <3>1, EndsReach DEF BodyParts
    <2>4. d < MAX_DEPTH => \A k \in BodyEnds(text, "empty", i + 1, d + 1) :
                             k <= Len(tokens) => k \in i + 1..Len(text)
      BY <1>1, <2>3 DEF Sized, Positions
    <2>5. \A k : k \in K <=> /\ d < MAX_DEPTH /\ k \in BodyEnds(text, "empty", i + 1, d + 1)
                             /\ k <= Len(tokens) /\ <<text[i], text[k]>> \in Matches
      BY <1>1, <2>4
    <2> HIDE DEF K
    <2>6. \A j : j \in Datum(Ends(text), text, i, d) <=> \E k \in K : j = k + 1
      BY <2>2
    <2>7. QED
      BY <1>1, <1>2, <1>6, <2>1, <2>5, <2>6
  <1>7. QED
    BY <1>1, <1>3, <1>4, <1>5, <1>6

\* What else may stand where a datum begins.
LEMMA OthersBegin ==
  ASSUME NEW text, Sized(text), NEW i \in 1..Len(tokens), NEW d \in Levels
  PROVE  /\ \A j : j \in TopEnds(text, i, d) <=>
              \/ j = i
              \/ Hides(text[i]) /\ \E k \in DatumEnds(text, i + 1, d) : j \in TopEnds(text, k, d)
              \/ ~Hides(text[i]) /\ \E k \in DatumEnds(text, i, d) : j \in TopEnds(text, k, d)
         /\ \A part \in BodyParts : \A j :
              j \in BodyEnds(text, part, i, d) <=>
                \/ j = i
                \/ /\ Hides(text[i])
                   /\ \E k \in DatumEnds(text, i + 1, d) : j \in BodyEnds(text, part, k, d)
                \/ /\ ~Hides(text[i])
                   /\ part = "tail" => opts.dotted_pairs_infix
                   /\ IF part # "empty" /\ Separates(text[i])
                      THEN \E k \in DatumEnds(text, i + 1, d) : j \in BodyEnds(text, "tail", k, d)
                      ELSE \E k \in DatumEnds(text, i, d) : j \in BodyEnds(text, "item", k, d)
  <1>1. i \in Positions /\ Len(text) = Len(tokens) /\ i <= Len(text) /\ ~(i > Len(text))
    BY DEF Sized, Positions
  <1>2. /\ Datum(Ends(text), text, i, d) = DatumEnds(text, i, d)
        /\ Ends(text)[<<"datum", i + 1, d>>] = DatumEnds(text, i + 1, d)
    BY <1>1, EndsAre DEF DatumEnds
  <1>3. \A j, part, S : j \in Then(Ends(text), part, S, d)
            <=> \E k \in S : j \in Ends(text)[<<part, k, d>>]
    BY DEF Then
  <1>4. TopEnds(text, i, d) =
          {i} \union (IF Hides(text[i]) THEN Then(Ends(text), "top", DatumEnds(text, i + 1, d), d)
                                        ELSE Then(Ends(text), "top", DatumEnds(text, i, d), d))
    BY <1>1, <1>2, EndsAre DEF TopData
  <1>5. \A part \in BodyParts :
          BodyEnds(text, part, i, d) = {i} \union
            (IF Hides(text[i]) THEN Then(Ends(text), part, DatumEnds(text, i + 1, d), d)
             ELSE IF part = "tail" /\ ~opts.dotted_pairs_infix THEN {}
             ELSE IF part # "empty" /\ Separates(text[i])
                  THEN Then(Ends(text), "tail", DatumEnds(text, i + 1, d), d)
                  ELSE Then(Ends(text), "item", DatumEnds(text, i, d), d))
    BY <1>1, <1>2, EndsAre DEF Body
  <1>6. \A j : j \in TopEnds(text, i, d) <=>
              \/ j = i
              \/ Hides(text[i]) /\ \E k \in DatumEnds(text, i + 1, d) : j \in TopEnds(text, k, d)
              \/ ~Hides(text[i]) /\ \E k \in DatumEnds(text, i, d) : j \in TopEnds(text, k, d)
    <2>1. \A j, S : j \in Then(Ends(text), "top", S, d) <=> \E k \in S : j \in TopEnds(text, k, d)
      BY <1>3 DEF TopEnds
    <2>2. QED
      BY <1>4, <2>1
  <1>7. ASSUME NEW part \in BodyParts, NEW j
        PROVE j \in BodyEnds(text, part, i, d) <=>
                \/ j = i
                \/ /\ Hides(text[i])
                   /\ \E k \in DatumEnds(text, i + 1, d) : j \in BodyEnds(text, part, k, d)
                \/ /\ ~Hides(text[i])
                   /\ part = "tail" => opts.dotted_pairs_infix
                   /\ IF part # "empty" /\ Separates(text[i])
                      THEN \E k \in DatumEnds(text, i + 1, d) : j \in BodyEnds(text, "tail", k, d)
                      ELSE \E k \in DatumEnds(text, i, d) : j \in BodyEnds(text, "item", k, d)
    <2>1. \A p, S : j \in Then(Ends(text), p, S, d) <=> \E k \in S : j \in BodyEnds(text, p, k, d)
      BY <1>3 DEF BodyEnds
    <2>2. QED
      BY <1>5, <2>1
  <1>8. QED
    BY <1>6, <1>7

-----------------------------------------------------------------------------
(* What the rest of the text may be for the calls in progress to complete  *)
(* without a diagnostic.                                                   *)

\* What a call waits for: a datum that has just been read, or one that is still
\* to be read from `at' on, datum comments in front of it.
Outcomes == [kind : {"datum", "next"}, at : Positions, level : Levels]
Outcome(kind, at, level) == [kind |-> kind, at |-> at, level |-> level]

\* finish_list, run on frame f at i with `part' of the body read, may return o.
PartRead(f) == IF f.tail # None THEN "tail" ELSE IF f.items = <<>> THEN "empty" ELSE "item"
Closed(text, f, part, i, d, o) ==
  /\ o.kind = "datum" /\ o.level + 1 = d
  /\ \E k \in BodyEnds(text, part, i, d) :
       k <= Len(tokens) /\ <<text[f.at], text[k]>> \in Matches /\ o.at = k + 1

\* The call with frame f, given a datum that ends before k, may go on with r.
Takes(text, f, k, d, r) ==
  \/ f.fn = "discard" /\ r = Outcome("next", k, d)
  \/ f.fn = "arg" /\ r.kind = "datum" /\ r.level = d /\ r.at \in DatumEnds(text, k, d)
  \/ f.fn \in {"prefix", "label", "tag"} /\ r = Outcome("datum", k, d)
  \/ f.fn = "list" /\ Closed(text, f, "tail", k, d, r)

\* The call with frame f that waits for o may return r.  A list that waits for
\* an item may find its end in the place of one.
WaitsForItem(f) == f.fn = "list" /\ f.after = None
Gives(text, f, o, r) ==
  \/ /\ WaitsForItem(f) /\ o.kind = "datum"
     /\ f.tail # None => opts.dotted_pairs_infix
     /\ Closed(text, f, "item", o.at, o.level, r)
  \/ WaitsForItem(f) /\ o.kind = "next" /\ Closed(text, f, PartRead(f), o.at, o.level, r)
  \/ ~WaitsForItem(f) /\ o.kind = "datum" /\ Takes(text, f, o.at, o.level, r)
  \/ /\ ~WaitsForItem(f) /\ o.kind = "next"
     /\ \E k \in DatumEnds(text, o.at, o.level) : Takes(text, f, k, o.level, r)

\* parse_top_level, given o, may read the rest of the input.
Accepted(text, o) == Len(tokens) + 1 \in TopEnds(text, o.at, o.level)

\* If the n-th call gets o, it and the calls around it may complete.
Leads(text, calls, n, o) ==
  \E path \in [1..n -> Outcomes] :
    /\ path[n] = o
    /\ \A k \in 2..n : Gives(text, calls[k], path[k], path[k - 1])
    /\ Accepted(text, path[1])

\* What parse_datum has returned: None stands for a datum still to come.
Returns == Outcome(IF ret = None THEN "next" ELSE "datum", pos, depth)

\* The rest of the text is what the calls in progress lack.
Rest(text) ==
  \/ pc = "done"
  \/ pc = "top" /\ Len(tokens) + 1 \in TopEnds(text, pos, depth)
  \/ pc = "datum" /\ Leads(text, stack, Len(stack), Outcome("next", pos, depth))
  \/ pc = "return" /\ Leads(text, stack, Len(stack), Returns)
  \/ /\ pc = "list"
     /\ \E o \in Outcomes : /\ Closed(text, top, PartRead(top), pos, depth, o)
                            /\ Leads(text, stack, Len(stack) - 1, o)

\* A text that is the source, as it was taken so far, and behind that perhaps
\* with some more dots taken for symbols.
Reading(text) ==
  /\ Len(text) = Len(tokens)
  /\ \A i \in 1..Len(tokens) : text[i] = tokens[i] \/ (tokens[i] = "." /\ text[i] = "atom")
  /\ \A i \in 1..Len(tokens) : i < pos => text[i] = AsRead[i]

\* Nothing has been reported, and a text is well-formed just when its rest is
\* as the calls in progress want it, or something has, and none is.
Judged ==
  /\ \A text : Reading(text) =>
       /\ errors = <<>> => (WellFormed(text) <=> Rest(text))
       /\ errors # <<>> => ~WellFormed(text)
  /\ pc = "skip" => errors # <<>>

\* Only dots the reader has passed have been taken for symbols.
DotsPassed == \A i \in DotsTaken : i < pos

\* A list's tail, and the dot in front of it, stand behind an item; a list that
\* waits for its tail is not scanning.
TailBehindItem ==
  /\ \A i \in 1..Len(stack) : stack[i].after # None \/ stack[i].tail # None => stack[i].items # <<>>
  /\ pc = "list" => top.after = None

-----------------------------------------------------------------------------
(* The calls completed from the innermost one outwards.                    *)

LEMMA LeadsOutwards ==
  ASSUME NEW text, NEW n \in Nat, n >= 2, NEW calls, NEW o \in Outcomes
  PROVE  Leads(text, calls, n, o)
           <=> \E r \in Outcomes : Gives(text, calls[n], o, r) /\ Leads(text, calls, n - 1, r)
  <1>1. ASSUME Leads(text, calls, n, o)
        PROVE  \E r \in Outcomes : Gives(text, calls[n], o, r) /\ Leads(text, calls, n - 1, r)
    <2>1. PICK path \in [1..n -> Outcomes] :
            /\ path[n] = o
            /\ \A k \in 2..n : Gives(text, calls[k], path[k], path[k - 1])
            /\ Accepted(text, path[1])
      BY <1>1 DEF Leads
    <2> DEFINE short == [k \in 1..n - 1 |-> path[k]]
    <2>2. path[n - 1] \in Outcomes /\ Gives(text, calls[n], o, path[n - 1])
      BY <2>1
    <2>3. /\ short \in [1..n - 1 -> Outcomes] /\ short[n - 1] = path[n - 1] /\ short[1] = path[1]
          /\ \A k \in 2..n - 1 : short[k] = path[k] /\ short[k - 1] = path[k - 1] /\ k \in 2..n
      OBVIOUS
    <2> HIDE DEF short
    <2>4. Leads(text, calls, n - 1, path[n - 1])
      BY <2>1, <2>3 DEF Leads
    <2>5. QED
      BY <2>2, <2>4
  <1>2. ASSUME NEW r \in Outcomes, Gives(text, calls[n], o, r), Leads(text, calls, n - 1, r)
        PROVE  Leads(text, calls, n, o)
    <2>1. PICK path \in [1..n - 1 -> Outcomes] :
            /\ path[n - 1] = r
            /\ \A k \in 2..n - 1 : Gives(text, calls[k], path[k], path[k - 1])
            /\ Accepted(text, path[1])
      BY <1>2 DEF Leads
    <2> DEFINE long == [k \in 1..n |-> IF k = n THEN o ELSE path[k]]
    <2>2. /\ long \in [1..n -> Outcomes] /\ long[n] = o /\ long[n - 1] = r /\ long[1] = path[1]
          /\ \A k \in 2..n - 1 : long[k] = path[k] /\ long[k - 1] = path[k - 1]
          /\ \A k \in 2..n : k = n \/ k \in 2..n - 1
      BY <2>1
    <2> HIDE DEF long
    <2>3. \A k \in 2..n : Gives(text, calls[k], long[k], long[k - 1])
      BY <1>2, <2>1, <2>2
    <2>4. QED
      BY <2>1, <2>2, <2>3 DEF Leads
  <1>3. QED
    BY <1>1, <1>2

LEMMA LeadsOutermost ==
  ASSUME NEW text, NEW calls, NEW o \in Outcomes
  PROVE  Leads(text, calls, 1, o) <=> Accepted(text, o)
  <1>1. ASSUME Accepted(text, o) PROVE Leads(text, calls, 1, o)
    <2> DEFINE path == [k \in 1..1 |-> o]
    <2>1. path \in [1..1 -> Outcomes] /\ path[1] = o /\ 2..1 = {}
      OBVIOUS
    <2> HIDE DEF path
    <2>2. QED
      BY <1>1, <2>1 DEF Leads
  <1>2. QED
    BY <1>1 DEF Leads

\* Only the frames of the calls that wait matter, and not parse_top_level's.
LEMMA LeadsSame ==
  ASSUME NEW text, NEW n \in Nat, NEW calls, NEW others, \A k \in 2..n : calls[k] = others[k], NEW o
  PROVE  Leads(text, calls, n, o) <=> Leads(text, others, n, o)
  BY DEF Leads

\* A step changes neither the grammar nor what a frame wants.
LEMMA RestNext ==
  ASSUME tokens' = tokens, opts' = opts, NEW text
  PROVE  /\ WellFormed(text)' <=> WellFormed(text)
         /\ Rest(text)' <=>
              \/ pc' = "done"
              \/ pc' = "top" /\ Len(tokens) + 1 \in TopEnds(text, pos', depth')
              \/ pc' = "datum" /\ Leads(text, stack', Len(stack'), Outcome("next", pos', depth'))
              \/ /\ pc' = "return"
                 /\ Leads(text, stack', Len(stack'),
                          Outcome(IF ret' = None THEN "next" ELSE "datum", pos', depth'))
              \/ /\ pc' = "list"
                 /\ \E o \in Outcomes : /\ Closed(text, top', PartRead(top'), pos', depth', o)
                                        /\ Leads(text, stack', Len(stack') - 1, o)
  <1>1. \A f, part, i, d : Rule(f, text, part, i, d)' = Rule(f, text, part, i, d)
    BY DEF Rule, Datum, Body, TopData, Then, Hides, Separates, Generic, TwoOperands
  <1>2. Ends(text)' = Ends(text)
    <2> DEFINE All == Parts \X (1..Len(text) + 1) \X (0..MAX_DEPTH)
    <2>1. Ends(text) = CHOOSE E : E = [x \in All |-> Rule(E, text, x[1], x[2], x[3])]
      BY DEF Ends
    <2>2. Ends(text)' = CHOOSE E : E = [x \in All |-> Rule(E, text, x[1], x[2], x[3])']
      BY DEF Ends
    <2> HIDE DEF All
    <2>3. QED
      BY <1>1, <2>1, <2>2
  <1>3. Outcomes' = Outcomes
    BY DEF Outcomes, Positions, Levels
  <1>4. /\ \A i, d : TopEnds(text, i, d)' = TopEnds(text, i, d)
        /\ \A i, d : DatumEnds(text, i, d)' = DatumEnds(text, i, d)
        /\ \A part, i, d : BodyEnds(text, part, i, d)' = BodyEnds(text, part, i, d)
    BY <1>2 DEF TopEnds, DatumEnds, BodyEnds
  <1>5. \A f, part, i, d, o : Closed(text, f, part, i, d, o)' <=> Closed(text, f, part, i, d, o)
    BY <1>4 DEF Closed
  <1>6. \A f, k, d, r : Takes(text, f, k, d, r)' <=> Takes(text, f, k, d, r)
    BY <1>4, <1>5 DEF Takes, Outcome
  <1>7. \A f, o, r : Gives(text, f, o, r)' <=> Gives(text, f, o, r)
    BY <1>4, <1>5, <1>6 DEF Gives, PartRead, WaitsForItem, None
  <1>8. \A o : Accepted(text, o)' <=> Accepted(text, o)
    BY <1>4 DEF Accepted
  <1>9. \A calls, n, o : Leads(text, calls, n, o)' <=> Leads(text, calls, n, o)
    BY <1>3, <1>7, <1>8 DEF Leads
  <1>10. QED
    BY <1>2, <1>3, <1>4, <1>5, <1>9 DEF WellFormed, Rest, Returns, Outcome, PartRead, None

LEMMA OutcomeTyped ==
  ASSUME NEW kind \in {"datum", "next"}, NEW at \in Positions, NEW level \in Levels
  PROVE  /\ Outcome(kind, at, level) \in Outcomes
         /\ Outcome(kind, at, level).kind = kind
         /\ Outcome(kind, at, level).at = at
         /\ Outcome(kind, at, level).level = level
         /\ \A o \in Outcomes : o.kind = kind /\ o.at = at
            /\ o.level = level => o = Outcome(kind, at, level)
  BY DEF Outcome, Outcomes

-----------------------------------------------------------------------------
(* A datum still to be read, by its first token.                           *)

\* Outcomes from which a call may go on in the same ways are as good.
LEMMA Swap ==
  ASSUME NEW text, NEW n \in Nat \ {0}, NEW calls, NEW o \in Outcomes, NEW S, S \subseteq Outcomes,
         n = 1 => (Accepted(text, o) <=> \E p \in S : Accepted(text, p)),
         n >= 2 => \A r \in Outcomes : Gives(text, calls[n], o, r)
                                         <=> \E p \in S : Gives(text, calls[n], p, r)
  PROVE  Leads(text, calls, n, o) <=> \E p \in S : Leads(text, calls, n, p)
  <1>1. CASE n = 1
    BY <1>1, LeadsOutermost
  <1>2. CASE n >= 2
    <2>1. \A p \in Outcomes : Leads(text, calls, n, p)
            <=> \E r \in Outcomes : Gives(text, calls[n], p, r) /\ Leads(text, calls, n - 1, r)
      BY <1>2, LeadsOutwards
    <2>2. QED
      BY <1>2, <2>1
  <1>3. QED
    BY <1>1, <1>2

DataFrom(text, i, d) == {Outcome("datum", k, d) : k \in DatumEnds(text, i, d)}

\* The datum that is to be read begins at i.
LEMMA Begins ==
  ASSUME NEW text, Sized(text), NEW i \in 1..Len(tokens), NEW d \in Levels, NEW n \in Nat \ {0},
           NEW calls,
         ~Hides(text[i]), ~Separates(text[i]), ~Stop(text, i)
  PROVE  Leads(text, calls, n, Outcome("next", i, d))
           <=> \E k \in DatumEnds(text, i, d) : Leads(text, calls, n, Outcome("datum", k, d))
  <1> DEFINE o == Outcome("next", i, d)
             S == DataFrom(text, i, d)
  <1>1. i \in Positions /\ DatumEnds(text, i, d) \subseteq Positions
    BY DatumBegins, EndsReach
  <1>2. o \in Outcomes /\ o.kind = "next" /\ o.at = i /\ o.level = d
    BY <1>1, OutcomeTyped
  <1>3. \A k \in DatumEnds(text, i, d) :
          LET p == Outcome("datum", k, d)
          IN  p \in Outcomes /\ p.kind = "datum" /\ p.at = k /\ p.level = d
    <2> TAKE k \in DatumEnds(text, i, d)
    <2>1. k \in Positions
      BY <1>1
    <2>2. QED
      BY <2>1, OutcomeTyped
  <1>4. \A k : <<k, text[i]>> \notin Matches /\ i # Len(tokens) + 1
    BY DEF Stop, Matches, Closes
  <1>5. Accepted(text, o)
            <=> \E k \in DatumEnds(text, i, d) : Accepted(text, Outcome("datum", k, d))
    BY <1>2, <1>3, <1>4, OthersBegin DEF Accepted
  <1>6. ASSUME NEW f, NEW r
        PROVE  Gives(text, f, o, r)
                 <=> \E k \in DatumEnds(text, i, d) : Gives(text, f, Outcome("datum", k, d), r)
    <2>1. CASE WaitsForItem(f)
      <3> DEFINE part == PartRead(f)
      <3>1. part \in BodyParts /\ (part = "tail" <=> f.tail # None)
        BY DEF PartRead, BodyParts
      <3>2. Gives(text, f, o, r) <=> Closed(text, f, part, i, d, r)
        BY <1>2, <2>1 DEF Gives
      <3>3. \A k \in DatumEnds(text, i, d) : Gives(text, f, Outcome("datum", k, d), r)
              <=> (part = "tail" => opts.dotted_pairs_infix) /\ Closed(text, f, "item", k, d, r)
        BY <1>3, <2>1, <3>1 DEF Gives
      <3> HIDE DEF part
      <3>4. \A j : j \in BodyEnds(text, part, i, d) <=>
                \/ j = i
                \/ /\ part = "tail" => opts.dotted_pairs_infix
                   /\ \E k \in DatumEnds(text, i, d) : j \in BodyEnds(text, "item", k, d)
        BY <3>1, OthersBegin
      <3>5. Closed(text, f, part, i, d, r)
              <=> /\ part = "tail" => opts.dotted_pairs_infix
                  /\ \E k \in DatumEnds(text, i, d) : Closed(text, f, "item", k, d, r)
        BY <1>4, <3>4 DEF Closed
      <3>6. QED
        BY <3>2, <3>3, <3>5
    <2>2. CASE ~WaitsForItem(f)
      BY <1>2, <1>3, <2>2 DEF Gives
    <2>3. QED
      BY <2>1, <2>2
  <1> HIDE DEF o
  <1>7. S \subseteq Outcomes /\ \A p : p \in S
            <=> \E k \in DatumEnds(text, i, d) : p = Outcome("datum", k, d)
    BY <1>3 DEF DataFrom
  <1> HIDE DEF S
  <1>8. Leads(text, calls, n, o) <=> \E p \in S : Leads(text, calls, n, p)
    <2>1. Accepted(text, o) <=> \E p \in S : Accepted(text, p)
      BY <1>5, <1>7
    <2>2. \A f, r : Gives(text, f, o, r) <=> \E p \in S : Gives(text, f, p, r)
      BY <1>6, <1>7
    <2>3. QED
      BY <1>2, <1>7, <2>1, <2>2, Swap
  <1>9. QED
    BY <1>7, <1>8 DEF o

\* A datum comment stands at i: the datum to be read comes after what it hides.
LEMMA Hidden ==
  ASSUME NEW text, Sized(text), NEW i \in 1..Len(tokens), NEW d \in Levels, NEW n \in Nat \ {0},
           NEW calls,
         Hides(text[i])
  PROVE  Leads(text, calls, n, Outcome("next", i, d))
           <=> \E k \in DatumEnds(text, i + 1, d) : Leads(text, calls, n, Outcome("next", k, d))
  <1> DEFINE o == Outcome("next", i, d)
             S == {Outcome("next", k, d) : k \in DatumEnds(text, i + 1, d)}
  <1>1. i \in Positions /\ i + 1 \in Positions
    BY DatumBegins
  <1>2. DatumEnds(text, i + 1, d) \subseteq Positions
    BY <1>1, EndsReach
  <1>3. o \in Outcomes /\ o.kind = "next" /\ o.at = i /\ o.level = d
    BY <1>1, OutcomeTyped
  <1>4. \A k \in DatumEnds(text, i + 1, d) :
          LET p == Outcome("next", k, d)
          IN  p \in Outcomes /\ p.kind = "next" /\ p.at = k /\ p.level = d
    BY <1>2, OutcomeTyped
  <1>5. (\A k : <<k, text[i]>> \notin Matches) /\ i # Len(tokens) + 1
    <2>1. i # Len(tokens) + 1
      BY DEF Sized
    <2>2. QED
      BY <2>1 DEF Hides, Matches
  <1>6. Accepted(text, o)
            <=> \E k \in DatumEnds(text, i + 1, d) : Accepted(text, Outcome("next", k, d))
    BY <1>3, <1>4, <1>5, OthersBegin DEF Accepted
  <1>7. ASSUME NEW f, NEW r
        PROVE  Gives(text, f, o, r)
                 <=> \E k \in DatumEnds(text, i + 1, d) : Gives(text, f, Outcome("next", k, d), r)
    <2>1. CASE WaitsForItem(f)
      <3> DEFINE part == PartRead(f)
      <3>1. part \in BodyParts
        BY DEF PartRead, BodyParts
      <3>2. Gives(text, f, o, r) <=> Closed(text, f, part, i, d, r)
        BY <1>3, <2>1 DEF Gives
      <3>3. \A k \in DatumEnds(text, i + 1, d) :
              Gives(text, f, Outcome("next", k, d), r) <=> Closed(text, f, part, k, d, r)
        BY <1>4, <2>1, <3>1 DEF Gives
      <3> HIDE DEF part
      <3>4. \A j : j \in BodyEnds(text, part, i, d) <=>
                j = i \/ \E k \in DatumEnds(text, i + 1, d) : j \in BodyEnds(text, part, k, d)
        BY <3>1, OthersBegin
      <3>5. Closed(text, f, part, i, d, r)
              <=> \E k \in DatumEnds(text, i + 1, d) : Closed(text, f, part, k, d, r)
        BY <1>5, <3>4 DEF Closed
      <3>6. QED
        BY <3>2, <3>3, <3>5
    <2>2. CASE ~WaitsForItem(f)
      <3>1. Gives(text, f, o, r) <=> \E j \in DatumEnds(text, i, d) : Takes(text, f, j, d, r)
        BY <1>3, <2>2 DEF Gives
      <3>2. \A k \in DatumEnds(text, i + 1, d) : Gives(text, f, Outcome("next", k, d), r)
              <=> \E j \in DatumEnds(text, k, d) : Takes(text, f, j, d, r)
        BY <1>4, <2>2 DEF Gives
      <3>3. \A j : j \in DatumEnds(text, i, d)
                <=> \E k \in DatumEnds(text, i + 1, d) : j \in DatumEnds(text, k, d)
        BY DatumBegins
      <3>4. QED
        BY <3>1, <3>2, <3>3
    <2>3. QED
      BY <2>1, <2>2
  <1> HIDE DEF o
  <1>8. S \subseteq Outcomes /\ \A p : p \in S
            <=> \E k \in DatumEnds(text, i + 1, d) : p = Outcome("next", k, d)
    BY <1>4
  <1> HIDE DEF S
  <1>9. Leads(text, calls, n, o) <=> \E p \in S : Leads(text, calls, n, p)
    <2>1. Accepted(text, o) <=> \E p \in S : Accepted(text, p)
      BY <1>6, <1>8
    <2>2. \A f, r : Gives(text, f, o, r) <=> \E p \in S : Gives(text, f, p, r)
      BY <1>7, <1>8
    <2>3. QED
      BY <1>3, <1>8, <2>1, <2>2, Swap
  <1>10. QED
    BY <1>8, <1>9 DEF o

\* The body of a list, at a stop and at a dot.
LEMMA ClosedAtStop ==
  ASSUME NEW text, Sized(text), NEW i \in Positions, NEW d \in Levels, NEW f,
           NEW part \in BodyParts,
         NEW r, Stop(text, i)
  PROVE  Closed(text, f, part, i, d, r) <=>
           /\ r.kind = "datum" /\ r.level + 1 = d /\ i <= Len(tokens)
           /\ <<text[f.at], text[i]>> \in Matches /\ r.at = i + 1
  <1>1. BodyEnds(text, part, i, d) = {i}
    BY NothingBegins
  <1>2. QED
    BY <1>1 DEF Closed

LEMMA ClosedAtDot ==
  ASSUME NEW text, Sized(text), NEW i \in 1..Len(tokens), NEW d \in Levels, NEW f,
           NEW part \in BodyParts,
         NEW r, Separates(text[i]), part # "empty"
  PROVE  Closed(text, f, part, i, d, r) <=>
           /\ part = "tail" => opts.dotted_pairs_infix
           /\ \E k \in DatumEnds(text, i + 1, d) : Closed(text, f, "tail", k, d, r)
  <1>1. ~Hides(text[i]) /\ \A t : <<t, text[i]>> \notin Matches
    BY DEF Hides, Matches, Separates
  <1>2. \A j : j \in BodyEnds(text, part, i, d) <=>
           \/ j = i
           \/ /\ part = "tail" => opts.dotted_pairs_infix
              /\ \E k \in DatumEnds(text, i + 1, d) : j \in BodyEnds(text, "tail", k, d)
    BY <1>1, OthersBegin
  <1>3. QED
    BY <1>1, <1>2 DEF Closed

-----------------------------------------------------------------------------
(* Where the reader stands.                                                *)

LEMMA Here ==
  ASSUME IInv, NEW text, Reading(text)
  PROVE  /\ Sized(text) /\ pos \in Positions /\ (pc # "skip" => depth \in Levels)
         /\ peek \in Closes \union {EOF} <=> Stop(text, pos)
         /\ peek = EOF <=> pos = Len(tokens) + 1
         /\ peek = EOF <=> pos > Len(tokens)
         /\ peek # EOF => /\ pos \in 1..Len(tokens) /\ pos + 1 \in Positions
                          /\ peek = tokens[pos] /\ (peek # "." => text[pos] = peek)
  <1>1. Len(tokens) \in Nat /\ MAX_DEPTH \in Nat /\ pos \in 1..Len(tokens) + 1
    BY Bounds DEF IInv, TypeOK
  <1>2. pc # "skip" => depth \in Levels
    BY Bounds DEF Levels
  <1>3. \A i \in 1..Len(tokens) : tokens[i] # EOF
    <2>1. \A i \in 1..Len(tokens) : tokens[i] \in AllKinds
      BY ElementOfSeq DEF IInv, TypeOK
    <2>2. EOF \notin AllKinds
      BY DEF EOF, AllKinds, Opens, HashOpens, Closes, Leaves, ReaderMacros, Tag, Label, Malformed
    <2>3. QED
      BY <2>1, <2>2
  <1>4. peek = IF pos <= Len(tokens) THEN tokens[pos] ELSE EOF
    BY DEF peek
  <1>5. EOF \notin Closes
    BY DEF EOF, Closes
  <1>6. \A i \in 1..Len(tokens) : /\ text[i] = tokens[i] \/ (tokens[i] = "." /\ text[i] = "atom")
                                  /\ text[i] \in Closes <=> tokens[i] \in Closes
    BY DEF Reading, Closes
  <1>7. Sized(text)
    BY <1>1 DEF Sized, Reading
  <1>8. CASE pos <= Len(tokens)
    BY <1>1, <1>2, <1>3, <1>4, <1>5, <1>6, <1>7, <1>8 DEF Positions, Stop
  <1>9. CASE ~(pos <= Len(tokens))
    BY <1>1, <1>2, <1>4, <1>5, <1>7, <1>9 DEF Positions, Stop
  <1>10. QED
    BY <1>8, <1>9

\* A text has the delimiters of the source.
LEMMA SameDelimiters ==
  ASSUME IInv, NEW text, Reading(text), NEW a \in 1..Len(tokens), NEW b \in 1..Len(tokens)
  PROVE  <<text[a], text[b]>> \in Matches <=> <<tokens[a], tokens[b]>> \in Matches
  <1>1. /\ text[a] = tokens[a] \/ (tokens[a] = "." /\ text[a] = "atom")
        /\ text[b] = tokens[b] \/ (tokens[b] = "." /\ text[b] = "atom")
    BY DEF Reading
  <1>2. \A t : /\ <<".", t>> \notin Matches /\ <<"atom", t>> \notin Matches
               /\ <<t, ".">> \notin Matches /\ <<t, "atom">> \notin Matches
    BY DEF Matches
  <1>3. QED
    BY <1>1, <1>2

LEMMA ErrorAdded ==
  ASSUME IInv, NEW kind, NEW at, error(kind, at)
  PROVE  errors' # <<>>
  <1> DEFINE e == [kind |-> kind, at |-> at]
             S == ErrorType \union {e}
  <1>1. errors \in Seq(S) /\ e \in S
    BY SeqMonotonic DEF IInv, TypeOK
  <1>2. errors' = Append(errors, e)
    BY DEF error
  <1> HIDE DEF S, e
  <1>3. Len(errors') = Len(errors) + 1 /\ Len(errors) \in Nat
    BY <1>1, <1>2, AppendProperties, LenProperties
  <1>4. QED
    BY <1>3

-----------------------------------------------------------------------------
(* Dots taken for symbols.                                                 *)

LEMMA DotsAre ==
  ASSUME IInv
  PROVE  /\ heap \in Seq(NodeType(Len(heap))) /\ Len(heap) \in Nat
         /\ DOMAIN heap = 1..Len(heap) /\ DOMAIN tokens = 1..Len(tokens) /\ Len(tokens) \in Nat
         /\ \A i : i \in DotsTaken <=>
              /\ i \in 1..Len(tokens) /\ tokens[i] = "."
              /\ \E d \in 1..Len(heap) : heap[d].kind = "leaf" /\ heap[d].first = i
  <1>1. heap \in Seq(NodeType(Len(heap))) /\ Len(heap) \in Nat /\ Len(tokens) \in Nat
    BY Bounds DEF IInv, TypeOK
  <1>2. DOMAIN heap = 1..Len(heap) /\ DOMAIN tokens = 1..Len(tokens)
    BY <1>1, LenProperties DEF IInv, TypeOK
  <1>3. QED
    BY <1>1, <1>2 DEF DotsTaken

LEMMA DotsThen ==
  ASSUME IInv, Next
  PROVE  \A i : i \in DotsTaken' <=>
           /\ i \in 1..Len(tokens) /\ tokens[i] = "."
           /\ \E d \in 1..Len(heap') : heap'[d].kind = "leaf" /\ heap'[d].first = i
  <1>1. IInv' /\ tokens' = tokens
    BY StepPreserves, InputsKept
  <1>2. heap' \in Seq(NodeType(Len(heap))') /\ tokens \in Seq(AllKinds)
    BY <1>1 DEF IInv, TypeOK
  <1>3. DOMAIN heap' = 1..Len(heap') /\ DOMAIN tokens = 1..Len(tokens)
    BY <1>2, LenProperties
  <1>4. QED
    BY <1>1, <1>3 DEF DotsTaken

LEMMA NoNewDots ==
  ASSUME IInv, Next, \A d \in 1..Len(heap') : d > Len(heap) => heap'[d].kind # "leaf"
  PROVE  DotsTaken' = DotsTaken
  <1>1. tokens' = tokens
    BY InputsKept
  <1>2. /\ Len(heap) \in Nat /\ Len(heap') \in Nat
        /\ \A d \in 1..Len(heap) : d \in 1..Len(heap') /\ heap'[d] = heap[d]
    BY HeapKept DEF Ids
  <1>3. \A d \in 1..Len(heap') : heap'[d].kind = "leaf" => d \in 1..Len(heap)
    BY <1>2
  <1>4. \A i : i \in DotsTaken' <=>
              /\ i \in 1..Len(tokens) /\ tokens[i] = "."
              /\ \E d \in 1..Len(heap') : heap'[d].kind = "leaf" /\ heap'[d].first = i
    BY DotsThen
  <1>5. \A i : i \in DotsTaken' <=> i \in DotsTaken
    BY <1>2, <1>3, <1>4, DotsAre
  <1>6. QED
    BY <1>5

\* Only parse_datum's leaf arm takes a dot for a symbol: the one it stands at.
LEMMA DotsStep ==
  ASSUME IInv, Next
  PROVE  /\ ~DatumLeaf => DotsTaken' = DotsTaken
         /\ DatumLeaf => DotsTaken' = DotsTaken \union (IF peek = "." THEN {pos} ELSE {})
  <1>1. tokens' = tokens
    BY InputsKept
  <1>2. heap \in Seq(NodeType(Len(heap))) /\ Len(heap) \in Nat
    BY DotsAre
  <1>3. ASSUME heap' = heap PROVE DotsTaken' = DotsTaken
    BY <1>1, <1>3 DEF DotsTaken
  <1>4. ASSUME NEW n, heap' = Append(heap, n)
        PROVE  /\ Len(heap') = Len(heap) + 1 /\ heap'[Len(heap) + 1] = n
               /\ \A d \in 1..Len(heap') :
                    (d \in 1..Len(heap) /\ heap'[d] = heap[d]) \/ d = Len(heap) + 1
    <2> DEFINE S == NodeType(Len(heap)) \union {n}
    <2>1. heap \in Seq(S) /\ n \in S
      BY <1>2, SeqMonotonic
    <2> HIDE DEF S
    <2>2. QED
      BY <1>2, <1>4, <2>1, AppendProperties
  <1>5. ASSUME NEW n, heap' = Append(heap, n), n.kind # "leaf" PROVE DotsTaken' = DotsTaken
    <2>1. Len(heap') = Len(heap) + 1 /\ heap'[Len(heap) + 1] = n
      BY <1>4, <1>5
    <2>2. \A d \in 1..Len(heap') : d > Len(heap) => heap'[d].kind # "leaf"
      BY <1>2, <1>5, <2>1
    <2>3. QED
      BY <2>2, NoNewDots
  <1>6. ASSUME NEW a, NEW b, heap' = heap \o <<a, b>>, a.kind # "leaf", b.kind # "leaf"
        PROVE  DotsTaken' = DotsTaken
    <2> DEFINE S == NodeType(Len(heap)) \union {a, b}
               s == <<a, b>>
    <2>1. heap \in Seq(S) /\ s \in Seq(S)
      BY <1>2, SeqMonotonic
    <2>2. Len(s) = 2 /\ s[1] = a /\ s[2] = b
      OBVIOUS
    <2> HIDE DEF S, s
    <2>3. /\ Len(heap \o s) = Len(heap) + 2
          /\ (heap \o s)[Len(heap) + 1] = a /\ (heap \o s)[Len(heap) + 2] = b
      BY <1>2, <2>1, <2>2, ConcatProperties
    <2>4. Len(heap') = Len(heap) + 2 /\ heap'[Len(heap) + 1] = a /\ heap'[Len(heap) + 2] = b
      BY <1>6, <2>3 DEF s
    <2>5. \A d \in 1..Len(heap') : d > Len(heap) => d = Len(heap) + 1 \/ d = Len(heap) + 2
      BY <1>2, <2>4
    <2>6. \A d \in 1..Len(heap') : d > Len(heap) => heap'[d].kind # "leaf"
      BY <1>6, <2>4, <2>5
    <2>7. QED
      BY <2>6, NoNewDots
  <1>7. ASSUME NEW list, list.kind = "list", Complete(list) PROVE DotsTaken' = DotsTaken
    <2>1. FoldLonghand(list).kind # "leaf"
            /\ \A id : Node("hash", list.first, list.end, <<id>>).kind # "leaf"
      <3>1. pair(list) => [list EXCEPT !.dot = None].kind = list.kind \/ [list
              EXCEPT !.dot = None].kind # "leaf"
        OBVIOUS
      <3>2. QED
        BY <1>7 DEF FoldLonghand, Node
    <2>2. QED
      BY <1>5, <1>6, <1>7, <2>1 DEF Complete
  <1>8. \A f, e : List(f, e).kind = "list" /\ \A a, b, s : Node("list", a, b, s).kind = "list"
    BY DEF List, Node
  <1>9. ASSUME ~DatumLeaf PROVE DotsTaken' = DotsTaken
    <2>1. CASE ListEof \/ ListClose \/ ListNoItem \/ SkipClose \/ SkipEof
      BY <1>3, <1>7, <1>8, <2>1 DEF ListEof, ListClose, ListNoItem, SkipClose, SkipEof
    <2>2. CASE PrefixTake \/ TagTake
      <3>1. \/ heap' = heap
            \/ \E n : heap' = Append(heap, n) /\ n.kind # "leaf"
        <4>1. top.fn \in {"prefix", "label"} =>
                [Node(top.fn, top.at, heap[ret].end, <<ret>>) EXCEPT !.arg = top.arg].kind # "leaf"
          BY DEF Node
        <4>2. \A a, b, s : Node("hash", a, b, s).kind # "leaf"
          BY DEF Node
        <4>3. QED
          BY <2>2, <4>1, <4>2 DEF PrefixTake, TagTake
      <3>2. QED
        BY <1>3, <1>5, <3>1
    <2>3. CASE ~(ListEof \/ ListClose \/ ListNoItem \/ SkipClose \/ SkipEof \/ PrefixTake \/ TagTake)
      <3>1. heap' = heap
        BY <1>9, <2>3 DEF Next, ReadDatum, TopStrayClose, TopCall, TopTake, TopEnd, DatumNone,
           DatumMalformed, DatumOperand, DatumOpen, DiscardTake, ArgTake, ListDot, ListTakeTail,
           ListItem, ListTakeItem, SkipToken
      <3>2. QED
        BY <1>3, <3>1
    <2>4. QED
      BY <2>1, <2>2, <2>3
  <1>10. ASSUME DatumLeaf
         PROVE  DotsTaken' = DotsTaken \union (IF peek = "." THEN {pos} ELSE {})
    <2> DEFINE n == Node("leaf", pos, pos, <<>>)
    <2>1. heap' = Append(heap, n) /\ peek \in Leaves
      BY <1>10 DEF DatumLeaf
    <2>2. n.kind = "leaf" /\ n.first = pos
      BY DEF Node
    <2> HIDE DEF n
    <2>3. /\ Len(heap') = Len(heap) + 1 /\ heap'[Len(heap) + 1] = n
          /\ \A d \in 1..Len(heap) : d \in 1..Len(heap') /\ heap'[d] = heap[d]
          /\ \A d \in 1..Len(heap') : d \in 1..Len(heap) \/ d = Len(heap) + 1
          /\ Len(heap) + 1 \in 1..Len(heap')
      <3>1. Len(heap') = Len(heap) + 1 /\ heap'[Len(heap) + 1] = n
        BY <1>4, <2>1
      <3>2. \A d \in 1..Len(heap) : d \in 1..Len(heap') /\ heap'[d] = heap[d]
        BY HeapKept DEF Ids
      <3>3. QED
        BY <1>2, <3>1, <3>2
    <2>4. pos \in 1..Len(tokens) /\ peek = tokens[pos]
      <3>1. peek # EOF
        BY <2>1 DEF Leaves, EOF
      <3>2. pos \in 1..Len(tokens) + 1 /\ Len(tokens) \in Nat
        BY Bounds DEF IInv, TypeOK
      <3>3. QED
        BY <3>1, <3>2 DEF peek
    <2>5. \A i : i \in DotsTaken' <=>
              /\ i \in 1..Len(tokens) /\ tokens[i] = "."
              /\ \E d \in 1..Len(heap') : heap'[d].kind = "leaf" /\ heap'[d].first = i
      BY DotsThen
    <2>6. \A i : (\E d \in 1..Len(heap') : heap'[d].kind = "leaf" /\ heap'[d].first = i)
                   <=> \/ i = pos
                       \/ \E d \in 1..Len(heap) : heap[d].kind = "leaf" /\ heap[d].first = i
      BY <2>2, <2>3
    <2>7. \A i : i \in DotsTaken' <=> i \in DotsTaken \/ (i = pos /\ peek = ".")
      BY <2>4, <2>5, <2>6, DotsAre
    <2>8. QED
      BY <1>10, <2>7
  <1>11. QED
    BY <1>9, <1>10

LEMMA Moves ==
  ASSUME IInv, Next
  PROVE  pos \in Nat /\ pos' \in Nat /\ pos <= pos' /\ (DatumLeaf => pos' = pos + 1)
  <1>1. pos \in Nat
    BY DEF IInv, TypeOK
  <1>2. pos' \in {pos, pos + 1}
    <2>1. CASE ReadDatum
      BY <2>1, CallsMove
    <2>2. CASE TopStrayClose \/ TopCall \/ TopTake \/ TopEnd
      BY <2>2 DEF TopStrayClose, TopCall, TopTake, TopEnd
    <2>3. QED
      BY <2>1, <2>2 DEF Next
  <1>3. DatumLeaf => pos' = pos + 1
    BY DEF DatumLeaf
  <1>4. QED
    BY <1>1, <1>2, <1>3

LEMMA DotsPassedStep ==
  ASSUME IInv, DotsPassed, Next
  PROVE  DotsPassed'
  <1>1. \A i \in DotsTaken' : i \in DotsTaken \/ (i = pos /\ pos' = pos + 1)
    BY DotsStep, Moves
  <1>2. \A i \in DotsTaken : i \in Nat
    BY DotsAre
  <1>3. QED
    BY <1>1, <1>2, Moves DEF DotsPassed

\* A text that is a reading after a step was one before.
LEMMA ReadingBack ==
  ASSUME IInv, Next, NEW text, Reading(text)'
  PROVE  Reading(text)
  <1>1. tokens' = tokens
    BY InputsKept
  <1>2. /\ Len(text) = Len(tokens)
        /\ \A i \in 1..Len(tokens) : text[i] = tokens[i] \/ (tokens[i] = "." /\ text[i] = "atom")
        /\ \A i \in 1..Len(tokens) : i < pos' => text[i] = AsRead'[i]
    BY <1>1 DEF Reading
  <1>3. DOMAIN tokens = 1..Len(tokens) /\ Len(tokens) \in Nat
    BY DotsAre
  <1>4. ASSUME NEW i \in 1..Len(tokens), i < pos
        PROVE  text[i] = AsRead[i]
    <2>1. i < pos' /\ (i \in DotsTaken' <=> i \in DotsTaken)
      BY <1>3, <1>4, Moves, DotsStep
    <2>2. AsRead'[i] = AsRead[i]
      BY <1>1, <1>3, <2>1 DEF AsRead
    <2>3. QED
      BY <1>2, <2>1, <2>2
  <1>5. QED
    BY <1>2, <1>4 DEF Reading

-----------------------------------------------------------------------------
(* What a step does to the calls that wait.                                *)

LEMMA TopResumed ==
  ASSUME IInv, stack # <<>>, NEW f, resume(f)
  PROVE  top' = f
  <1> DEFINE S == FrameType(Len(heap)) \union {f}
             t == [stack EXCEPT ![Len(stack)] = f]
  <1>1. stack \in Seq(S) /\ f \in S
    BY SeqMonotonic DEF IInv, TypeOK
  <1>2. stack' = t
    BY DEF resume
  <1>3. t = [stack EXCEPT ![Len(stack)] = f]
    OBVIOUS
  <1> HIDE DEF S, t
  <1>4. t \in Seq(S) /\ Len(t) = Len(stack) /\ t # <<>> /\ t[Len(stack)] = f
    BY <1>1, <1>3, ReplaceLast
  <1>5. Last(t) = f
    BY <1>4, LastFront
  <1>6. QED
    BY <1>2, <1>5 DEF top

LEMMA TopPushed ==
  ASSUME IInv, NEW f, stack' = Append(stack, f)
  PROVE  top' = f
  <1> DEFINE S == FrameType(Len(heap)) \union {f}
  <1>1. stack \in Seq(S) /\ f \in S
    BY SeqMonotonic DEF IInv, TypeOK
  <1> HIDE DEF S
  <1>2. stack' \in Seq(S) /\ stack' # <<>> /\ stack'[Len(stack) + 1] = f
          /\ Len(stack') = Len(stack) + 1
    BY <1>1, Pushed, AppendProperties
  <1>3. Last(stack') = stack'[Len(stack')]
    BY <1>2, LastFront
  <1>4. QED
    BY <1>2, <1>3 DEF top

\* A list that is being read counts towards the depth.
LEMMA DepthLeft ==
  ASSUME IInv, pc = "list"
  PROVE  depth >= 1
  <1>1. stack # <<>> /\ top.fn = "list" /\ stack \in Seq(FrameType(Len(heap)))
    BY NotOutermost DEF IInv, TypeOK
  <1>2. Len(stack) \in ListsIn(stack) /\ IsFiniteSet(ListsIn(stack))
    BY <1>1, InnerCall, ListsFinite DEF IsList
  <1>3. Cardinality(ListsIn(stack)) # 0 /\ Cardinality(ListsIn(stack)) \in Nat
    BY <1>2, FS_EmptySet, FS_CardinalityType
  <1>4. QED
    BY <1>3 DEF IInv, DepthCounted

LEMMA PushLeads ==
  ASSUME IInv, stack # <<>>, NEW f, stack' = Append(stack, f), NEW o \in Outcomes, NEW text
  PROVE  /\ Leads(text, stack', Len(stack'), o)
              <=> \E r \in Outcomes : Gives(text, f, o, r) /\ Leads(text, stack, Len(stack), r)
         /\ Leads(text, stack', Len(stack') - 1, o) <=> Leads(text, stack, Len(stack), o)
  <1> DEFINE n == Len(stack)
  <1>1. /\ n \in Nat \ {0} /\ Len(stack') = n + 1 /\ stack'[n + 1] = f
        /\ \A i \in 1..n : stack'[i] = stack[i]
    BY Pushed, InnerCall
  <1> HIDE DEF n
  <1>2. n + 1 \in Nat /\ n + 1 >= 2 /\ n + 1 - 1 = n /\ n \in Nat
    BY <1>1
  <1>3. Leads(text, stack', n + 1, o)
            <=> \E r \in Outcomes : Gives(text, f, o, r) /\ Leads(text, stack', n, r)
    <2> DEFINE m == n + 1
    <2>1. m \in Nat /\ m >= 2 /\ m - 1 = n /\ stack'[m] = f
      BY <1>1, <1>2
    <2> HIDE DEF m
    <2>2. Leads(text, stack', m, o)
              <=> \E r \in Outcomes : Gives(text, stack'[m], o, r) /\ Leads(text, stack', m - 1, r)
      BY <2>1, LeadsOutwards
    <2>3. Leads(text, stack', m, o)
              <=> \E r \in Outcomes : Gives(text, f, o, r) /\ Leads(text, stack', n, r)
      BY <2>1, <2>2
    <2>4. QED
      BY <2>3 DEF m
  <1>4. \A k \in 2..n : stack'[k] = stack[k]
    BY <1>1
  <1>5. \A r : Leads(text, stack', n, r) <=> Leads(text, stack, n, r)
    BY <1>2, <1>4, LeadsSame
  <1>6. QED
    BY <1>1, <1>2, <1>3, <1>5 DEF n

\* The innermost call, and those around it.
LEMMA InnerLeads ==
  ASSUME IInv, stack # <<>>, top.fn # "top", NEW o \in Outcomes, NEW text
  PROVE  Leads(text, stack, Len(stack), o)
           <=> \E r \in Outcomes : Gives(text, top, o, r) /\ Leads(text, stack, Len(stack) - 1, r)
  <1>1. Len(stack) \in Nat /\ Len(stack) >= 2 /\ top = stack[Len(stack)]
    BY InnerCall
  <1>2. QED
    BY <1>1, LeadsOutwards

LEMMA PopLeads ==
  ASSUME IInv, stack # <<>>, stack' = Front(stack), NEW o, NEW text
  PROVE  Leads(text, stack', Len(stack'), o) <=> Leads(text, stack, Len(stack) - 1, o)
  <1> DEFINE n == Len(stack) - 1
  <1>1. n \in Nat /\ Len(stack') = n /\ \A i \in 1..n : stack'[i] = stack[i]
    BY Popped
  <1> HIDE DEF n
  <1>2. \A k \in 2..n : stack'[k] = stack[k]
    BY <1>1
  <1>3. Leads(text, stack', n, o) <=> Leads(text, stack, n, o)
    BY <1>1, <1>2, LeadsSame
  <1>4. QED
    BY <1>1, <1>3 DEF n

LEMMA ResumeLeads ==
  ASSUME IInv, stack # <<>>, top.fn # "top", NEW f, resume(f), NEW o \in Outcomes, NEW text
  PROVE  /\ Leads(text, stack', Len(stack'), o)
              <=> \E r \in Outcomes : Gives(text, f, o, r) /\ Leads(text, stack, Len(stack) - 1, r)
         /\ Leads(text, stack', Len(stack') - 1, o) <=> Leads(text, stack, Len(stack) - 1, o)
         /\ top' = f
  <1> DEFINE n == Len(stack)
             m == n - 1
  <1>1. /\ n \in Nat /\ n >= 2 /\ Len(stack') = n /\ stack'[n] = f /\ stack' # <<>>
        /\ \A i \in 1..m : stack'[i] = stack[i]
    BY Resumed, InnerCall
  <1>2. m \in Nat
    BY <1>1
  <1> HIDE DEF m
  <1>3. \A k \in 2..m : stack'[k] = stack[k]
    BY <1>1, <1>2
  <1>4. \A r : Leads(text, stack', m, r) <=> Leads(text, stack, m, r)
    BY <1>2, <1>3, LeadsSame
  <1> HIDE DEF n
  <1>5. Leads(text, stack', n, o)
            <=> \E r \in Outcomes : Gives(text, f, o, r) /\ Leads(text, stack', n - 1, r)
    BY <1>1, LeadsOutwards
  <1>6. top' = f
    BY TopResumed
  <1>7. QED
    BY <1>1, <1>4, <1>5, <1>6 DEF n, m

-----------------------------------------------------------------------------
(* Dots and tails.                                                         *)

LEMMA TailStep ==
  ASSUME IInv, TailBehindItem, Next
  PROVE  TailBehindItem'
  <1> DEFINE Behaves(f) == f.after # None \/ f.tail # None => f.items # <<>>
  <1>1. CASE TopStrayClose \/ TopCall \/ TopTake \/ TopEnd
    <2>1. stack' = <<>> \/ stack' = <<Frame("top", pos)>>
      BY <1>1, TopMoves
    <2>2. \A i \in 1..Len(stack') : Behaves(stack'[i])
      BY <2>1 DEF Frame, None
    <2>3. pc' # "list"
      BY <1>1 DEF TopStrayClose, TopCall, call, TopTake, TopEnd
    <2>4. QED
      BY <2>2, <2>3 DEF TailBehindItem, None
  <1>2. CASE ReadDatum
    <2>1. stack # <<>> /\ Len(stack) \in Nat \ {0} /\ top = stack[Len(stack)]
      BY <1>2, CallsMove, InnerCall
    <2>2. top \in FrameType(Len(heap)) /\ Behaves(top)
      BY <2>1, TopTyped DEF TailBehindItem
    <2>3. \A i \in 1..Len(stack) : Behaves(stack[i])
      BY DEF TailBehindItem
    <2>4. ASSUME NEW f, stack' = Append(stack, f), Behaves(f), pc' = "list" => f.after = None
          PROVE  TailBehindItem'
      <3>1. /\ Len(stack') = Len(stack) + 1 /\ stack'[Len(stack) + 1] = f
            /\ \A j \in 1..Len(stack) : stack'[j] = stack[j]
        BY <2>4, Pushed
      <3>2. \A i \in 1..Len(stack') : i \in 1..Len(stack) \/ i = Len(stack) + 1
        BY <2>1, <3>1
      <3>3. \A i \in 1..Len(stack') : Behaves(stack'[i])
        BY <2>3, <2>4, <3>1, <3>2
      <3>4. top' = f
        BY <2>4, TopPushed
      <3>5. QED
        BY <2>4, <3>3, <3>4 DEF TailBehindItem, None
    <2>5. ASSUME stack' = Front(stack), pc' # "list"
          PROVE  TailBehindItem'
      <3>1. Len(stack') = Len(stack) - 1 /\ \A j \in 1..Len(stack) - 1 : stack'[j] = stack[j]
        BY <2>1, <2>5, Popped
      <3>2. \A i \in 1..Len(stack') : Behaves(stack'[i])
        BY <2>1, <2>3, <3>1
      <3>3. QED
        BY <2>5, <3>2 DEF TailBehindItem, None
    <2>6. ASSUME NEW f, resume(f), Behaves(f), pc' = "list" => f.after = None, top.fn # "top"
          PROVE  TailBehindItem'
      <3>1. /\ Len(stack') = Len(stack) /\ stack'[Len(stack)] = f
            /\ \A j \in 1..Len(stack) - 1 : stack'[j] = stack[j]
        BY <2>1, <2>6, Resumed
      <3>2. \A i \in 1..Len(stack) : i \in 1..Len(stack) - 1 \/ i = Len(stack)
        BY <2>1
      <3>3. \A i \in 1..Len(stack') : Behaves(stack'[i])
        BY <2>3, <2>6, <3>1, <3>2
      <3>4. top' = f
        BY <2>1, <2>6, TopResumed
      <3>5. QED
        BY <2>6, <3>3, <3>4 DEF TailBehindItem, None
    <2>7. ASSUME UNCHANGED stack, pc' = "list" => top.after = None
          PROVE  TailBehindItem'
      <3>1. \A i \in 1..Len(stack') : Behaves(stack'[i])
        BY <2>3, <2>7
      <3>2. top' = top
        BY <2>7 DEF top
      <3>3. QED
        BY <2>7, <3>1, <3>2 DEF TailBehindItem, None
    <2>8. \A list : Complete(list) => stack' = Front(stack) /\ pc' # "list"
      BY DEF Complete, return
    <2>9. CASE DatumNone \/ DatumMalformed \/ DatumLeaf \/ ListItem
      BY <2>7, <2>9 DEF DatumNone, DatumMalformed, DatumLeaf, ListItem, return
    <2>10. CASE DatumOperand
      <3>1. PICK fn : stack' = Append(stack, Frame(fn, pos)) /\ pc' = "datum"
        BY <2>10 DEF DatumOperand, call
      <3>2. Behaves(Frame(fn, pos))
        BY DEF Frame, None
      <3>3. QED
        BY <2>4, <3>1, <3>2
    <2>11. CASE DatumOpen
      <3>1. PICK fn, k : stack' = Append(stack, [Frame(fn, pos) EXCEPT !.nesting = k])
        <4>1. Frame("list", pos) = [Frame("list", pos) EXCEPT !.nesting = 0]
          BY DEF Frame
        <4>2. QED
          BY <2>11, <4>1 DEF DatumOpen
      <3> DEFINE f == [Frame(fn, pos) EXCEPT !.nesting = k]
      <3>2. Behaves(f) /\ f.after = None
        BY DEF Frame, None
      <3> HIDE DEF f
      <3>3. QED
        BY <2>4, <3>1, <3>2 DEF f
    <2>12. CASE DiscardTake \/ PrefixTake \/ TagTake
      BY <2>5, <2>12 DEF DiscardTake, PrefixTake, TagTake, return
    <2>13. CASE ArgTake
      <3> DEFINE f == [top EXCEPT !.fn = "prefix", !.arg = ret]
      <3>1. resume(f) /\ pc' = "datum" /\ top.fn # "top"
        BY <2>13 DEF ArgTake
      <3>2. Behaves(f)
        BY <2>2 DEF FrameType
      <3> HIDE DEF f
      <3>3. QED
        BY <2>6, <3>1, <3>2
    <2>14. CASE ListEof \/ ListClose \/ SkipEof
      BY <2>5, <2>8, <2>14 DEF ListEof, ListClose, SkipEof
    <2>15. CASE ListDot
      <3> DEFINE f == [top EXCEPT !.items = ItemsWithTail(top), !.tail = None, !.after = pos]
      <3>1. resume(f) /\ pc' = "datum" /\ top.fn # "top" /\ top.items # <<>>
        BY <2>15, NotOutermost DEF ListDot, IsDot
      <3>2. ItemsWithTail(top) # <<>>
        <4>1. top.items \in Seq(1..Len(heap)) /\ (top.tail # None => top.tail \in 1..Len(heap))
          BY <2>1, TopTyped, Bounds DEF None
        <4>2. top.tail # None => Append(top.items, top.tail) # <<>>
          BY <4>1, AppendProperties
        <4>3. QED
          BY <3>1, <4>2 DEF ItemsWithTail
      <3>3. Behaves(f)
        BY <2>2, <3>2 DEF FrameType
      <3> HIDE DEF f
      <3>4. QED
        BY <2>6, <3>1, <3>3
    <2>16. CASE ListTakeTail
      <3> DEFINE f == [top EXCEPT !.tail = ret, !.dot = top.after, !.after = None]
                 g == [top EXCEPT !.after = None]
      <3>1. /\ resume(f) \/ resume(g)
            /\ pc' = "list" /\ top.fn # "top" /\ top.after # None
        BY <2>16 DEF ListTakeTail
      <3>2. Behaves(f) /\ Behaves(g) /\ f.after = None /\ g.after = None
        BY <2>2, <3>1 DEF FrameType
      <3> HIDE DEF f, g
      <3>3. QED
        BY <2>6, <3>1, <3>2
    <2>17. CASE ListTakeItem
      <3> DEFINE f == [top EXCEPT !.items = Append(ItemsWithTail(top), ret), !.tail = None,
                                  !.dot = IF top.tail = None THEN @ ELSE None]
      <3>1. resume(f) /\ pc' = "list" /\ top.fn # "top" /\ top.after = None
        BY <2>17 DEF ListTakeItem
      <3>2. Behaves(f) /\ f.after = None
        BY <2>2, <3>1 DEF FrameType
      <3> HIDE DEF f
      <3>3. QED
        BY <2>6, <3>1, <3>2
    <2>18. CASE ListNoItem
      BY <2>5, <2>7, <2>8, <2>18 DEF ListNoItem
    <2>19. CASE SkipToken
      <3> DEFINE f == [top EXCEPT !.end = pos, !.nesting = IF Deeper(peek) THEN @ + 1 ELSE @]
      <3>1. resume(f) /\ pc' # "list" /\ top.fn # "top"
        BY <2>19, NotOutermost DEF SkipToken
      <3>2. Behaves(f)
        BY <2>2 DEF FrameType
      <3> HIDE DEF f
      <3>3. QED
        BY <2>6, <3>1, <3>2
    <2>20. CASE SkipClose
      <3> DEFINE f == [top EXCEPT !.end = pos, !.nesting = @ - 1]
      <3>1. (resume(f) \/ stack' = Front(stack)) /\ pc' # "list" /\ top.fn # "top"
        BY <2>8, <2>20, NotOutermost DEF SkipClose
      <3>2. Behaves(f)
        BY <2>2 DEF FrameType
      <3> HIDE DEF f
      <3>3. QED
        BY <2>5, <2>6, <3>1, <3>2
    <2>21. QED
      BY <1>2, <2>9, <2>10, <2>11, <2>12, <2>13, <2>14, <2>15, <2>16, <2>17, <2>18, <2>19,
         <2>20 DEF ReadDatum
  <1>3. QED
    BY <1>1, <1>2 DEF Next

-----------------------------------------------------------------------------
(* One step of the reader and the rest of the text.                        *)

Known(text) ==
  /\ IInv /\ NoneMeansStop /\ Begun /\ TailBehindItem /\ DotsPassed
  /\ Reading(text) /\ Reading(text)'
  /\ tokens' = tokens /\ opts' = opts

\* A step that reports nothing leaves the question open as it was; one that
\* reports a diagnostic does so where no rest of the text could help.
Faithful(text) ==
  \/ errors' = errors /\ (Rest(text)' <=> Rest(text))
  \/ errors' # <<>> /\ ~Rest(text)

\* The rest, by what runs.
LEMMA RestNow ==
  ASSUME NEW text
  PROVE  /\ pc = "top" => (Rest(text) <=> Len(tokens) + 1 \in TopEnds(text, pos, depth))
         /\ pc = "datum" =>
              (Rest(text) <=> Leads(text, stack, Len(stack), Outcome("next", pos, depth)))
         /\ pc = "return" => (Rest(text) <=> Leads(text, stack, Len(stack), Returns))
         /\ pc = "list" =>
              (Rest(text) <=> \E o \in Outcomes : /\ Closed(text, top, PartRead(top), pos, depth, o)
                                                  /\ Leads(text, stack, Len(stack) - 1, o))
  BY DEF Rest

LEMMA RestThen ==
  ASSUME tokens' = tokens, opts' = opts, NEW text
  PROVE  /\ pc' = "done" => Rest(text)'
         /\ pc' = "top" => (Rest(text)' <=> Len(tokens) + 1 \in TopEnds(text, pos', depth'))
         /\ pc' = "datum" =>
              (Rest(text)' <=> Leads(text, stack', Len(stack'), Outcome("next", pos', depth')))
         /\ pc' = "return" =>
              (Rest(text)' <=> Leads(text, stack', Len(stack'),
                                     Outcome(IF ret' = None THEN "next" ELSE "datum", pos',
                                       depth')))
         /\ pc' = "list" =>
              (Rest(text)' <=> \E o \in Outcomes :
                                 /\ Closed(text, top', PartRead(top'), pos', depth', o)
                                 /\ Leads(text, stack', Len(stack') - 1, o))
  BY RestNext

LEMMA TopFaithful ==
  ASSUME NEW text, Known(text), TopStrayClose \/ TopCall \/ TopTake \/ TopEnd
  PROVE  Faithful(text)
  <1> DEFINE L == Len(tokens)
  <1>0. IInv /\ tokens' = tokens /\ opts' = opts /\ Reading(text)
    BY DEF Known
  <1>1. Sized(text) /\ pos \in Positions
    BY <1>0, Here
  <1>2. CASE TopStrayClose
    <2>1. pc = "top" /\ peek \in Closes /\ error("UnexpectedDelimiter", pos)
      BY <1>2 DEF TopStrayClose
    <2>2. depth \in Levels /\ Stop(text, pos) /\ pos # L + 1
      BY <1>0, <2>1, Here DEF Closes, EOF
    <2>3. TopEnds(text, pos, depth) = {pos}
      BY <1>1, <2>2, NothingBegins
    <2>4. ~Rest(text)
      BY <2>1, <2>2, <2>3, RestNow
    <2>5. QED
      BY <1>0, <2>1, <2>4, ErrorAdded DEF Faithful
  <1>3. CASE TopCall
    <2>1. /\ pc = "top" /\ peek \notin Closes \union {EOF} /\ pc' = "datum"
          /\ pos' = pos /\ depth' = depth /\ errors' = errors
      BY <1>3 DEF TopCall, call
    <2>2. stack' = <<Frame("top", pos)>> /\ Len(stack') = 1
      BY <1>0, <1>3, TopMoves DEF TopStrayClose, TopTake, TopEnd, TopCall
    <2> DEFINE o == Outcome("next", pos, depth)
    <2>3. o \in Outcomes /\ o.at = pos /\ o.level = depth
      BY <1>0, <1>1, <2>1, Here, OutcomeTyped
    <2>4. Rest(text) <=> L + 1 \in TopEnds(text, pos, depth)
      BY <2>1, RestNow
    <2>5. Rest(text)' <=> Leads(text, stack', 1, o)
      BY <1>0, <2>1, <2>2, RestThen
    <2> HIDE DEF o
    <2>6. Leads(text, stack', 1, o) <=> L + 1 \in TopEnds(text, pos, depth)
      BY <2>3, LeadsOutermost DEF Accepted
    <2>7. QED
      BY <2>1, <2>4, <2>5, <2>6 DEF Faithful
  <1>4. CASE TopTake
    <2>1. pc = "return" /\ top.fn = "top" /\ errors' = errors /\ depth' = depth
      BY <1>4 DEF TopTake
    <2>2. Len(stack) = 1 /\ stack # <<>>
      BY <1>0, <1>4, TopMoves DEF TopStrayClose, TopCall, TopEnd, TopTake
    <2>3. depth \in Levels
      BY <1>0, <2>1, Here
    <2>4. Returns \in Outcomes /\ Returns.at = pos /\ Returns.level = depth
      BY <1>1, <2>3, OutcomeTyped DEF Returns
    <2>5. Rest(text) <=> Leads(text, stack, 1, Returns)
      BY <2>1, <2>2, RestNow
    <2>6. Rest(text) <=> L + 1 \in TopEnds(text, pos, depth)
      BY <2>4, <2>5, LeadsOutermost DEF Accepted
    <2>7. CASE ret # None
      <3>1. pc' = "top" /\ pos' = pos
        BY <1>4, <2>7 DEF TopTake
      <3>2. QED
        BY <1>0, <2>1, <2>6, <3>1, RestThen DEF Faithful
    <2>8. CASE ret = None
      <3>1. Stop(text, pos)
        BY <1>0, <2>1, <2>8, Here DEF Known, NoneMeansStop
      <3>2. TopEnds(text, pos, depth) = {pos}
        BY <1>1, <2>3, <3>1, NothingBegins
      <3>3. CASE pos > L
        <4>1. pc' = "done"
          BY <1>1, <1>4, <2>8, <3>3 DEF TopTake, Sized, Positions
        <4>2. pos = L + 1
          BY <1>0, <3>3, Here
        <4>3. QED
          BY <1>0, <2>1, <2>6, <3>2, <4>1, <4>2, RestThen DEF Faithful
      <3>4. CASE ~(pos > L)
        <4>1. pos <= L /\ pos # L + 1
          BY <1>1, <3>4 DEF Sized, Positions
        <4>2. pos # top.at
          <5>1. top = stack[1] /\ top.at \in Int
            BY <1>0, <2>2, InnerCall
          <5>2. QED
            BY <1>1, <2>1, <2>2, <5>1 DEF Known, Begun, Positions
        <4>3. pc' = "top" /\ pos' = pos
          BY <1>1, <1>4, <2>8, <4>1, <4>2 DEF TopTake, Sized, Positions
        <4>4. QED
          BY <1>0, <2>1, <2>6, <4>3, RestThen DEF Faithful
      <3>5. QED
        BY <3>3, <3>4
    <2>9. QED
      BY <2>7, <2>8
  <1>5. CASE TopEnd
    <2>1. pc = "top" /\ peek = EOF /\ pc' = "done" /\ errors' = errors
      BY <1>5 DEF TopEnd
    <2>2. depth \in Levels /\ pos = L + 1 /\ Stop(text, pos)
      BY <1>0, <2>1, Here DEF Stop
    <2>3. TopEnds(text, pos, depth) = {pos}
      BY <1>1, <2>2, NothingBegins
    <2>4. QED
      BY <1>0, <2>1, <2>2, <2>3, RestNow, RestThen DEF Faithful
  <1>6. QED
    BY <1>2, <1>3, <1>4, <1>5

\* parse_datum runs: the datum to be read begins where the reader stands.
LEMMA DatumHere ==
  ASSUME NEW text, Known(text), pc = "datum"
  PROVE  /\ Sized(text) /\ pos \in Positions /\ depth \in Levels /\ stack # <<>>
         /\ Len(stack) \in Nat \ {0}
         /\ Rest(text) <=> Leads(text, stack, Len(stack), Outcome("next", pos, depth))
         /\ peek # EOF => pos \in 1..Len(tokens) /\ pos + 1 \in Positions
            /\ (peek # "." => text[pos] = peek)
         /\ /\ peek \notin Closes \union {EOF} /\ ~Hides(peek)
            /\ ~(peek = "." /\ Separates(text[pos]))
            => Rest(text) <=> \E k \in DatumEnds(text, pos, depth) :
                                Leads(text, stack, Len(stack), Outcome("datum", k, depth))
         /\ peek # EOF /\ Hides(peek)
            => Rest(text) <=> \E k \in DatumEnds(text, pos + 1, depth) :
                                Leads(text, stack, Len(stack), Outcome("next", k, depth))
  <1>0. IInv /\ Reading(text)
    BY DEF Known
  <1>1. Sized(text) /\ pos \in Positions /\ depth \in Levels /\ stack # <<>>
    BY <1>0, Here, Bounds
  <1>2. Len(stack) \in Nat \ {0}
    BY <1>0, <1>1, InnerCall
  <1>3. Rest(text) <=> Leads(text, stack, Len(stack), Outcome("next", pos, depth))
    BY RestNow
  <1>4. peek # EOF => pos \in 1..Len(tokens) /\ pos + 1 \in Positions
          /\ (peek # "." => text[pos] = peek)
    BY <1>0, Here
  <1>5. ASSUME peek \notin Closes \union {EOF}, ~Hides(peek), ~(peek = "." /\ Separates(text[pos]))
        PROVE  Rest(text) <=> \E k \in DatumEnds(text, pos, depth) :
                                Leads(text, stack, Len(stack), Outcome("datum", k, depth))
    <2>1. pos \in 1..Len(tokens) /\ ~Stop(text, pos)
      BY <1>0, <1>5, Here
    <2>2. peek = tokens[pos] /\ (text[pos] = peek \/ (peek = "." /\ text[pos] = "atom"))
      BY <1>0, <1>5, <2>1, Here DEF Reading
    <2>3. ~Hides(text[pos]) /\ ~Separates(text[pos])
      BY <1>5, <2>2 DEF Hides, Separates
    <2>4. QED
      BY <1>1, <1>2, <1>3, <2>1, <2>3, Begins
  <1>6. ASSUME peek # EOF, Hides(peek)
        PROVE  Rest(text) <=> \E k \in DatumEnds(text, pos + 1, depth) :
                                Leads(text, stack, Len(stack), Outcome("next", k, depth))
    <2>1. Hides(text[pos]) /\ pos \in 1..Len(tokens)
      BY <1>4, <1>6 DEF Hides
    <2>2. QED
      BY <1>1, <1>2, <1>3, <2>1, Hidden
  <1>7. QED
    BY <1>1, <1>2, <1>3, <1>4, <1>5, <1>6

LEMMA DatumFaithful ==
  ASSUME NEW text, Known(text), DatumNone \/ DatumMalformed \/ DatumLeaf
  PROVE  Faithful(text)
  <1>0. IInv /\ tokens' = tokens /\ opts' = opts /\ Reading(text)
    BY DEF Known
  <1>1. pc = "datum" /\ stack' = stack /\ depth' = depth
    BY DEF DatumNone, DatumMalformed, DatumLeaf
  <1>2. /\ Sized(text) /\ pos \in Positions /\ depth \in Levels
        /\ Rest(text) <=> Leads(text, stack, Len(stack), Outcome("next", pos, depth))
    BY <1>1, DatumHere
  <1>3. CASE DatumNone
    <2>1. pc' = "return" /\ ret' = None /\ pos' = pos /\ errors' = errors
      BY <1>3 DEF DatumNone, return
    <2>2. Rest(text)' <=> Leads(text, stack, Len(stack), Outcome("next", pos, depth))
      BY <1>0, <1>1, <2>1, RestThen
    <2>3. QED
      BY <1>2, <2>1, <2>2 DEF Faithful
  <1>4. CASE DatumMalformed
    <2>1. peek = Malformed /\ error("MalformedToken", pos)
      BY <1>4 DEF DatumMalformed
    <2>2. peek \notin Closes \union {EOF} /\ ~Hides(peek) /\ peek # "."
      BY <2>1 DEF Malformed, Closes, EOF, Hides
    <2>3. text[pos] = Malformed
      BY <1>1, <2>1, <2>2, DatumHere
    <2>4. DatumEnds(text, pos, depth) = {}
      BY <1>2, <2>3, NothingBegins
    <2>5. ~Rest(text)
      BY <1>1, <2>2, <2>4, DatumHere
    <2>6. QED
      BY <1>0, <2>1, <2>5, ErrorAdded DEF Faithful
  <1>5. CASE DatumLeaf
    <2>1. /\ peek \in Leaves /\ pos' = pos + 1 /\ errors' = errors
          /\ pc' = "return" /\ ret' = Len(heap) + 1
      BY <1>5 DEF DatumLeaf, return
    <2>2. peek \notin Closes \union {EOF} /\ ~Hides(peek)
      BY <2>1 DEF Leaves, Closes, EOF, Hides
    <2>3. pos \in 1..Len(tokens) /\ pos + 1 \in Positions /\ peek = tokens[pos]
      BY <1>0, <2>2, Here
    <2>4. text[pos] \in Leaves /\ ~Separates(text[pos])
      <3>1. peek # "." => text[pos] = peek
        BY <1>1, <2>2, DatumHere
      <3>2. CASE peek = "."
        <4>1. pos \in DotsTaken'
          BY <1>0, <1>5, <3>2, DotsStep DEF Next, ReadDatum
        <4>2. text[pos] = AsRead'[pos]
          BY <1>0, <1>2, <2>1, <2>3 DEF Known, Reading, Positions
        <4>3. pos \in DOMAIN tokens
          BY <1>0, <2>3, DotsAre
        <4>4. text[pos] = "atom"
          BY <1>0, <4>1, <4>2, <4>3 DEF AsRead
        <4>5. QED
          BY <4>4 DEF Leaves, Separates
      <3>3. CASE peek # "."
        BY <2>1, <3>1, <3>3 DEF Separates
      <3>4. QED
        BY <3>2, <3>3
    <2>5. ret' # None
      BY <1>0, <2>1, Bounds DEF None
    <2>6. Rest(text)' <=> Leads(text, stack, Len(stack), Outcome("datum", pos + 1, depth))
      BY <1>0, <1>1, <2>1, <2>5, RestThen
    <2>7. DatumEnds(text, pos, depth) = {pos + 1}
      BY <1>2, <2>3, <2>4, DatumBegins
    <2>8. Rest(text) <=> Leads(text, stack, Len(stack), Outcome("datum", pos + 1, depth))
      BY <1>1, <2>2, <2>4, <2>7, DatumHere
    <2>9. QED
      BY <2>1, <2>6, <2>8 DEF Faithful
  <1>6. QED
    BY <1>3, <1>4, <1>5

LEMMA OperandFaithful ==
  ASSUME NEW text, Known(text), DatumOperand
  PROVE  Faithful(text)
  <1>0. IInv /\ tokens' = tokens /\ opts' = opts
    BY DEF Known
  <1>1. pc = "datum" /\ pos' = pos + 1 /\ depth' = depth /\ errors' = errors
    BY DEF DatumOperand
  <1>2. Sized(text) /\ pos \in Positions /\ depth \in Levels /\ stack # <<>>
    BY <1>1, DatumHere
  <1>3. PICK fn : /\ stack' = Append(stack, Frame(fn, pos)) /\ pc' = "datum"
                  /\ \/ Hides(peek) /\ fn = "discard"
                     \/ Generic(peek) /\ fn = "prefix"
                     \/ TwoOperands(peek) /\ fn = "arg"
                     \/ peek = Label /\ fn = "label"
                     \/ peek = Tag /\ fn = "tag"
    BY DEF DatumOperand, call, Hides
  <1> DEFINE f == Frame(fn, pos)
             o == Outcome("next", pos + 1, depth)
  <1>4. f.fn = fn /\ stack' = Append(stack, f) /\ (fn # "list" => ~WaitsForItem(f))
    BY <1>3 DEF Frame, WaitsForItem
  <1> HIDE DEF f
  <1>5. peek \notin Closes \union {EOF} /\ peek # "." /\ fn # "list"
    BY <1>3 DEF Hides, Generic, TwoOperands, Label, Tag, EOF, Closes
  <1>6. pos \in 1..Len(tokens) /\ pos + 1 \in Positions /\ text[pos] = peek
    BY <1>1, <1>5, DatumHere
  <1>7. o \in Outcomes /\ o.kind = "next" /\ o.at = pos + 1 /\ o.level = depth
    BY <1>2, <1>6, OutcomeTyped
  <1>8. Rest(text)' <=> Leads(text, stack', Len(stack'), o)
    BY <1>0, <1>1, <1>3, RestThen
  <1> HIDE DEF o
  <1>9. Rest(text)' <=> \E r \in Outcomes : /\ \E k \in DatumEnds(text, pos + 1, depth) :
                                                 Takes(text, f, k, depth, r)
                                            /\ Leads(text, stack, Len(stack), r)
    <2>1. Leads(text, stack', Len(stack'), o)
            <=> \E r \in Outcomes : Gives(text, f, o, r) /\ Leads(text, stack, Len(stack), r)
      BY <1>0, <1>2, <1>4, <1>7, PushLeads
    <2>2. \A r : Gives(text, f, o, r)
            <=> \E k \in DatumEnds(text, pos + 1, depth) : Takes(text, f, k, depth, r)
      BY <1>4, <1>5, <1>7 DEF Gives
    <2>3. QED
      BY <1>8, <2>1, <2>2
  <1>10. \A k \in DatumEnds(text, pos + 1, depth) :
           k \in Positions /\ Outcome("next", k, depth) \in Outcomes
             /\ Outcome("datum", k, depth) \in Outcomes
    <2> TAKE k \in DatumEnds(text, pos + 1, depth)
    <2>1. k \in Positions
      BY <1>2, <1>6, EndsReach
    <2>2. QED
      BY <1>2, <2>1, OutcomeTyped
  <1>11. CASE Hides(peek) /\ fn = "discard"
    <2>1. \A k, r : Takes(text, f, k, depth, r) <=> r = Outcome("next", k, depth)
      BY <1>4, <1>11 DEF Takes
    <2>2. Rest(text) <=> \E k \in DatumEnds(text, pos + 1, depth) :
                           Leads(text, stack, Len(stack), Outcome("next", k, depth))
      BY <1>1, <1>5, <1>11, DatumHere
    <2>3. QED
      BY <1>1, <1>9, <1>10, <2>1, <2>2 DEF Faithful
  <1>12. CASE fn # "discard"
    <2>1. ~Hides(peek)
      BY <1>3, <1>12 DEF Hides, Generic, TwoOperands, Label, Tag
    <2>2. Rest(text) <=> \E k \in DatumEnds(text, pos, depth) :
                           Leads(text, stack, Len(stack), Outcome("datum", k, depth))
      BY <1>1, <1>5, <2>1, DatumHere
    <2>3. CASE fn = "arg"
      <3>1. \A k, r : Takes(text, f, k, depth, r)
              <=> r.kind = "datum" /\ r.level = depth /\ r.at \in DatumEnds(text, k, depth)
        BY <1>4, <2>3 DEF Takes
      <3>2. \A j : j \in DatumEnds(text, pos, depth)
              <=> \E k \in DatumEnds(text, pos + 1, depth) : j \in DatumEnds(text, k, depth)
        BY <1>2, <1>3, <1>6, <2>3, DatumBegins
      <3>3. \A j \in DatumEnds(text, pos, depth) :
              LET r == Outcome("datum", j, depth)
              IN  /\ r \in Outcomes /\ r.kind = "datum" /\ r.at = j /\ r.level = depth
        <4> TAKE j \in DatumEnds(text, pos, depth)
        <4>1. j \in Positions
          BY <1>2, EndsReach
        <4>2. QED
          BY <1>2, <4>1, OutcomeTyped
      <3>4. \A r \in Outcomes : r.kind = "datum"
              /\ r.level = depth => r = Outcome("datum", r.at, depth)
        BY DEF Outcomes, Outcome
      <3>5. Rest(text)' <=> \E r \in Outcomes : /\ r.kind = "datum" /\ r.level = depth
                                                /\ r.at \in DatumEnds(text, pos, depth)
                                                /\ Leads(text, stack, Len(stack), r)
        BY <1>9, <3>1, <3>2
      <3>6. QED
        BY <1>1, <2>2, <3>3, <3>4, <3>5 DEF Faithful
    <2>4. CASE fn \in {"prefix", "label", "tag"}
      <3>1. \A k, r : Takes(text, f, k, depth, r) <=> r = Outcome("datum", k, depth)
        BY <1>4, <2>4 DEF Takes
      <3>2. DatumEnds(text, pos, depth) = DatumEnds(text, pos + 1, depth)
        BY <1>2, <1>3, <1>6, <2>4, DatumBegins
      <3>3. QED
        BY <1>1, <1>9, <1>10, <2>2, <3>1, <3>2 DEF Faithful
    <2>5. QED
      BY <1>3, <1>12, <2>3, <2>4
  <1>13. QED
    BY <1>3, <1>11, <1>12

LEMMA OpenFaithful ==
  ASSUME NEW text, Known(text), DatumOpen
  PROVE  Faithful(text)
  <1>0. IInv /\ tokens' = tokens /\ opts' = opts
    BY DEF Known
  <1>1. pc = "datum" /\ pos' = pos + 1 /\ depth' = depth + 1 /\ peek \in Opens \union HashOpens
    BY DEF DatumOpen
  <1>2. Sized(text) /\ pos \in Positions /\ depth \in Levels /\ stack # <<>>
    BY <1>1, DatumHere
  <1>3. peek \notin Closes \union {EOF} /\ ~Hides(peek) /\ peek # "."
    BY <1>1 DEF Opens, HashOpens, EOF, Closes, Hides
  <1>4. pos \in 1..Len(tokens) /\ text[pos] = peek
    BY <1>1, <1>3, DatumHere
  <1> DEFINE f == Frame("list", pos)
  <1>5. f.at = pos /\ f.items = <<>> /\ f.tail = None
    BY DEF Frame
  <1>6. PartRead(f) = "empty"
    BY <1>5 DEF PartRead
  <1>7. Rest(text) <=> \E k \in DatumEnds(text, pos, depth) :
                         Leads(text, stack, Len(stack), Outcome("datum", k, depth))
    BY <1>1, <1>3, DatumHere
  <1> HIDE DEF f
  <1>8. \A j : j \in DatumEnds(text, pos, depth) <=>
                /\ depth < MAX_DEPTH
                /\ \E k \in BodyEnds(text, "empty", pos + 1, depth + 1) :
                     k <= Len(tokens) /\ <<text[pos], text[k]>> \in Matches /\ j = k + 1
    BY <1>1, <1>2, <1>4, DatumBegins
  <1>9. Rest(text) <=> /\ depth < MAX_DEPTH
                       /\ \E r \in Outcomes : /\ Closed(text, f, "empty", pos + 1, depth + 1, r)
                                              /\ Leads(text, stack, Len(stack), r)
    <2>1. \A r \in Outcomes : r.level + 1 = depth + 1 <=> r.level = depth
      BY <1>2 DEF Outcomes, Levels, Sized
    <2>2. \A r \in Outcomes : depth < MAX_DEPTH /\ Closed(text, f, "empty", pos + 1, depth + 1, r)
            <=> r.kind = "datum" /\ r.level = depth /\ r.at \in DatumEnds(text, pos, depth)
      BY <1>5, <1>8, <2>1 DEF Closed
    <2>3. \A j \in DatumEnds(text, pos, depth) :
            LET r == Outcome("datum", j, depth)
            IN  /\ r \in Outcomes /\ r.kind = "datum" /\ r.at = j /\ r.level = depth
      <3> TAKE j \in DatumEnds(text, pos, depth)
      <3>1. j \in Positions
        BY <1>2, EndsReach
      <3>2. QED
        BY <1>2, <3>1, OutcomeTyped
    <2>4. \A r \in Outcomes : r.kind = "datum"
            /\ r.level = depth => r = Outcome("datum", r.at, depth)
      BY DEF Outcomes, Outcome
    <2>5. Rest(text) <=> \E r \in Outcomes : /\ r.kind = "datum" /\ r.level = depth
                                             /\ r.at \in DatumEnds(text, pos, depth)
                                             /\ Leads(text, stack, Len(stack), r)
      BY <1>7, <2>3, <2>4
    <2>6. QED
      BY <2>2, <2>5
  <1>10. CASE TooDeep(depth')
    <2>1. ~(depth < MAX_DEPTH) /\ depth' = MAX_DEPTH + 1
      BY <1>1, <1>2, <1>10 DEF TooDeep, Levels, Sized
    <2>2. error("DepthLimitExceeded", pos)
      BY <1>10, <2>1 DEF DatumOpen
    <2>3. QED
      BY <1>0, <1>9, <2>1, <2>2, ErrorAdded DEF Faithful
  <1>11. CASE ~TooDeep(depth')
    <2>1. depth < MAX_DEPTH
      BY <1>1, <1>2, <1>11 DEF TooDeep, Levels, Sized
    <2>2. stack' = Append(stack, f) /\ pc' = "list" /\ errors' = errors
      BY <1>11 DEF DatumOpen, f
    <2>3. top' = f
      BY <1>0, <2>2, TopPushed
    <2>4. Rest(text)' <=> \E o \in Outcomes : /\ Closed(text, f, "empty", pos + 1, depth + 1, o)
                                              /\ Leads(text, stack', Len(stack') - 1, o)
      BY <1>0, <1>1, <1>6, <2>2, <2>3, RestThen
    <2>5. \A o \in Outcomes : Leads(text, stack', Len(stack') - 1, o)
              <=> Leads(text, stack, Len(stack), o)
      BY <1>0, <1>2, <2>2, PushLeads
    <2>6. QED
      BY <1>9, <2>1, <2>2, <2>4, <2>5 DEF Faithful
  <1>12. QED
    BY <1>10, <1>11


\* What parse_datum returned, to a call inside parse_top_level's.
LEMMA Returned ==
  ASSUME NEW text, Known(text), pc = "return", top.fn # "top"
  PROVE  /\ stack # <<>> /\ Sized(text) /\ pos \in Positions /\ depth \in Levels
         /\ Returns \in Outcomes /\ Returns.at = pos /\ Returns.level = depth
         /\ Returns.kind = IF ret = None THEN "next" ELSE "datum"
         /\ Rest(text) <=> \E r \in Outcomes : /\ Gives(text, top, Returns, r)
                                               /\ Leads(text, stack, Len(stack) - 1, r)
         /\ ret = None => Stop(text, pos) /\ DatumEnds(text, pos, depth) = {}
  <1>0. IInv /\ Reading(text)
    BY DEF Known
  <1>1. stack # <<>> /\ Sized(text) /\ pos \in Positions /\ depth \in Levels
    BY <1>0, Here, Bounds
  <1>2. ret = None => Stop(text, pos)
    BY <1>0, Here DEF Known, NoneMeansStop
  <1>3. ret = None => DatumEnds(text, pos, depth) = {}
    BY <1>1, <1>2, NothingBegins
  <1>4. /\ Returns \in Outcomes /\ Returns.at = pos /\ Returns.level = depth
        /\ Returns.kind = IF ret = None THEN "next" ELSE "datum"
    BY <1>1, OutcomeTyped DEF Returns
  <1>5. Rest(text) <=> Leads(text, stack, Len(stack), Returns)
    BY RestNow
  <1>6. Rest(text) <=> \E r \in Outcomes : /\ Gives(text, top, Returns, r)
                                           /\ Leads(text, stack, Len(stack) - 1, r)
    BY <1>0, <1>1, <1>4, <1>5, InnerLeads
  <1>7. QED
    BY <1>1, <1>2, <1>3, <1>4, <1>6

LEMMA TakeFaithful ==
  ASSUME NEW text, Known(text), DiscardTake \/ ArgTake \/ PrefixTake \/ TagTake
  PROVE  Faithful(text)
  <1>0. IInv /\ tokens' = tokens /\ opts' = opts
    BY DEF Known
  <1>1. pc = "return" /\ top.fn # "top" /\ pos' = pos /\ depth' = depth /\ ~WaitsForItem(top)
          /\ top.fn # "list"
    BY DEF DiscardTake, ArgTake, PrefixTake, TagTake, WaitsForItem
  <1>2. /\ stack # <<>> /\ Sized(text) /\ pos \in Positions /\ depth \in Levels
        /\ ret = None => DatumEnds(text, pos, depth) = {}
        /\ Returns \in Outcomes /\ Returns.at = pos /\ Returns.level = depth
        /\ Returns.kind = IF ret = None THEN "next" ELSE "datum"
        /\ Rest(text) <=> \E r \in Outcomes : /\ Gives(text, top, Returns, r)
                                              /\ Leads(text, stack, Len(stack) - 1, r)
    BY <1>1, Returned
  \* Without a datum nothing is given.
  <1>3. ret = None => ~Rest(text)
    BY <1>1, <1>2 DEF Gives
  <1>4. ret # None => (Rest(text) <=> \E r \in Outcomes : /\ Takes(text, top, pos, depth, r)
                                                          /\ Leads(text, stack, Len(stack) - 1, r))
    BY <1>1, <1>2 DEF Gives
  <1>5. Outcome("next", pos, depth) \in Outcomes /\ Outcome("datum", pos, depth) \in Outcomes
    BY <1>2, OutcomeTyped
  <1>6. CASE DiscardTake
    <2>1. top.fn = "discard" /\ stack' = Front(stack) /\ pc' = "datum"
      BY <1>6 DEF DiscardTake
    <2>2. CASE ret = None
      <3>1. error("DanglingPrefix", top.at)
        BY <1>6, <2>2 DEF DiscardTake
      <3>2. QED
        BY <1>0, <1>3, <2>2, <3>1, ErrorAdded DEF Faithful
    <2>3. CASE ret # None
      <3> DEFINE o == Outcome("next", pos, depth)
      <3>1. errors' = errors
        BY <1>6, <2>3 DEF DiscardTake
      <3>2. Rest(text)' <=> Leads(text, stack', Len(stack'), o)
        BY <1>0, <1>1, <2>1, RestThen
      <3>3. \A r : Takes(text, top, pos, depth, r) <=> r = o
        BY <2>1 DEF Takes
      <3>4. o \in Outcomes
        BY <1>5
      <3> HIDE DEF o
      <3>5. Leads(text, stack', Len(stack'), o) <=> Leads(text, stack, Len(stack) - 1, o)
        BY <1>0, <1>2, <2>1, PopLeads
      <3>6. QED
        BY <1>4, <2>3, <3>1, <3>2, <3>3, <3>4, <3>5 DEF Faithful
    <2>4. QED
      BY <2>2, <2>3
  <1>7. CASE ArgTake
    <2> DEFINE f == [top EXCEPT !.fn = "prefix", !.arg = ret]
               o == Outcome("next", pos, depth)
    <2>1. top.fn = "arg" /\ resume(f) /\ pc' = "datum" /\ errors' = errors
      BY <1>7 DEF ArgTake
    <2>2. f.fn = "prefix" /\ ~WaitsForItem(f)
      BY <1>0, <1>2, TopTyped DEF FrameType, WaitsForItem
    <2> HIDE DEF f
    <2>3. o \in Outcomes /\ o.kind = "next" /\ o.at = pos /\ o.level = depth
      BY <1>2, OutcomeTyped
    <2>4. Rest(text)' <=> Leads(text, stack', Len(stack'), o)
      BY <1>0, <1>1, <2>1, RestThen
    <2> HIDE DEF o
    <2>5. Rest(text)'
              <=> \E r \in Outcomes : Gives(text, f, o, r) /\ Leads(text, stack, Len(stack) - 1, r)
      BY <1>0, <1>1, <1>2, <2>1, <2>3, <2>4, ResumeLeads
    <2>6. \A r : Gives(text, f, o, r)
              <=> \E k \in DatumEnds(text, pos, depth) : r = Outcome("datum", k, depth)
      BY <2>2, <2>3 DEF Gives, Takes
    <2>7. CASE ret = None
      BY <1>2, <1>3, <2>1, <2>5, <2>6, <2>7 DEF Faithful
    <2>8. CASE ret # None
      <3>1. \A r : Takes(text, top, pos, depth, r)
              <=> r.kind = "datum" /\ r.level = depth /\ r.at \in DatumEnds(text, pos, depth)
        BY <2>1 DEF Takes
      <3>2. \A k \in DatumEnds(text, pos, depth) :
              LET r == Outcome("datum", k, depth)
              IN  r.kind = "datum" /\ r.at = k /\ r.level = depth
        BY DEF Outcome
      <3>3. \A r \in Outcomes : r.kind = "datum"
              /\ r.level = depth => r = Outcome("datum", r.at, depth)
        BY DEF Outcomes, Outcome
      <3>4. \A r \in Outcomes : Takes(text, top, pos, depth, r) <=> Gives(text, f, o, r)
        BY <2>6, <3>1, <3>2, <3>3
      <3>5. QED
        BY <1>4, <2>1, <2>5, <2>8, <3>4 DEF Faithful
    <2>9. QED
      BY <2>7, <2>8
  <1>8. CASE PrefixTake \/ TagTake
    <2>1. top.fn \in {"prefix", "label", "tag"} /\ stack' = Front(stack) /\ pc' = "return"
      BY <1>8 DEF PrefixTake, TagTake, return
    <2>2. CASE ret = None
      <3>1. errors' # <<>>
        BY <1>0, <1>8, <2>2, ErrorAdded DEF PrefixTake, TagTake
      <3>2. QED
        BY <1>3, <2>2, <3>1 DEF Faithful
    <2>3. CASE ret # None
      <3> DEFINE o == Outcome("datum", pos, depth)
      <3>1. errors' = errors /\ ret' = Len(heap) + 1
        BY <1>8, <2>3 DEF PrefixTake, TagTake, return
      <3>2. ret' # None
        BY <1>0, <3>1, Bounds DEF None
      <3>3. Rest(text)' <=> Leads(text, stack', Len(stack'), o)
        BY <1>0, <1>1, <2>1, <3>2, RestThen
      <3>4. \A r : Takes(text, top, pos, depth, r) <=> r = o
        BY <2>1 DEF Takes
      <3>5. o \in Outcomes
        BY <1>5
      <3> HIDE DEF o
      <3>6. Leads(text, stack', Len(stack'), o) <=> Leads(text, stack, Len(stack) - 1, o)
        BY <1>0, <1>2, <2>1, PopLeads
      <3>7. QED
        BY <1>4, <2>3, <3>1, <3>3, <3>4, <3>5, <3>6 DEF Faithful
    <2>4. QED
      BY <2>2, <2>3
  <1>9. QED
    BY <1>6, <1>7, <1>8

\* finish_list runs on a list's frame, with no dot pending.
LEMMA Scanning ==
  ASSUME NEW text, Known(text), pc = "list"
  PROVE  /\ stack # <<>> /\ Sized(text) /\ pos \in Positions /\ depth \in Levels
         /\ top.fn = "list" /\ top.after = None /\ WaitsForItem(top)
         /\ top \in FrameType(Len(heap)) /\ PartRead(top) \in BodyParts
         /\ PartRead(top) # "empty" <=> top.items # <<>>
         /\ PartRead(top) = "tail" <=> top.tail # None
         /\ Rest(text) <=> \E r \in Outcomes : /\ Closed(text, top, PartRead(top), pos, depth, r)
                                               /\ Leads(text, stack, Len(stack) - 1, r)
  <1>0. IInv /\ Reading(text)
    BY DEF Known
  <1>1. stack # <<>> /\ Sized(text) /\ pos \in Positions /\ depth \in Levels /\ top.fn = "list"
    BY <1>0, Here, NotOutermost
  <1>2. Len(stack) \in 1..Len(stack) /\ top = stack[Len(stack)] /\ top \in FrameType(Len(heap))
    BY <1>0, <1>1, InnerCall, TopTyped
  <1>3. top.after = None /\ (top.tail # None => top.items # <<>>)
    BY <1>2 DEF Known, TailBehindItem
  <1>4. /\ PartRead(top) \in BodyParts
        /\ PartRead(top) # "empty" <=> top.items # <<>>
        /\ PartRead(top) = "tail" <=> top.tail # None
    BY <1>3 DEF PartRead, BodyParts
  <1>5. WaitsForItem(top)
    BY <1>1, <1>3 DEF WaitsForItem
  <1>6. QED
    BY <1>1, <1>2, <1>3, <1>4, <1>5, RestNow

LEMMA ScanFaithful ==
  ASSUME NEW text, Known(text), ListEof \/ ListClose \/ ListDot \/ ListItem
  PROVE  Faithful(text)
  <1>0. IInv /\ tokens' = tokens /\ opts' = opts /\ Reading(text)
    BY DEF Known
  <1>1. pc = "list"
    BY DEF ListEof, ListClose, ListDot, ListItem
  <1> DEFINE part == PartRead(top)
  <1>2. /\ stack # <<>> /\ Sized(text) /\ pos \in Positions /\ depth \in Levels
        /\ top.fn = "list" /\ top.fn # "top" /\ top.after = None /\ WaitsForItem(top)
        /\ top \in FrameType(Len(heap)) /\ part \in BodyParts
        /\ part # "empty" <=> top.items # <<>>
        /\ part = "tail" <=> top.tail # None
    BY <1>1, Scanning
  <1>3. Rest(text) <=> \E r \in Outcomes : /\ Closed(text, top, part, pos, depth, r)
                                           /\ Leads(text, stack, Len(stack) - 1, r)
    BY <1>1, Scanning
  <1>4. CASE ListEof
    <2>1. pos = Len(tokens) + 1 /\ Stop(text, pos) /\ ~(pos <= Len(tokens))
      BY <1>0, <1>2, <1>4, Here DEF ListEof, Stop, Sized
    <2>2. \A r : ~Closed(text, top, part, pos, depth, r)
      BY <1>2, <2>1, ClosedAtStop
    <2>3. error("UnclosedList", top.at)
      BY <1>4 DEF ListEof
    <2>4. QED
      BY <1>0, <1>3, <2>2, <2>3, ErrorAdded DEF Faithful
  <1>5. CASE ListClose
    <2>1. peek \in Closes /\ pos' = pos + 1 /\ Complete(List(top, pos))
      BY <1>5 DEF ListClose
    <2>2. /\ Stop(text, pos) /\ pos \in 1..Len(tokens) /\ peek = tokens[pos]
             /\ pos + 1 \in Positions
      <3>1. peek # EOF
        BY <2>1 DEF Closes, EOF
      <3>2. QED
        BY <1>0, <1>2, <2>1, <3>1, Here
    <2>3. top.at \in 1..Len(tokens)
      BY <1>0, <1>2, TopTyped DEF Index
    <2>4. \A r : Closed(text, top, part, pos, depth, r) <=>
           /\ r.kind = "datum" /\ r.level + 1 = depth /\ pos <= Len(tokens)
           /\ <<text[top.at], text[pos]>> \in Matches /\ r.at = pos + 1
      BY <1>2, <2>2, ClosedAtStop
    <2>5. <<text[top.at], text[pos]>> \in Matches <=> close_matches(tokens[top.at], peek)
      BY <1>0, <2>2, <2>3, SameDelimiters DEF close_matches
    <2>6. CASE ~close_matches(tokens[top.at], peek)
      <3>1. error("MismatchedDelimiter", pos)
        BY <1>5, <2>6 DEF ListClose
      <3>2. QED
        BY <1>0, <1>3, <2>4, <2>5, <2>6, <3>1, ErrorAdded DEF Faithful
    <2>7. CASE close_matches(tokens[top.at], peek)
      <3>1. errors' = errors
        BY <1>5, <2>7 DEF ListClose
      <3>2. stack' = Front(stack) /\ pc' = "return" /\ depth' = depth - 1 /\ ret' # None
        BY <1>0, <2>1, Bounds DEF Complete, return, None
      <3>3. depth - 1 \in Levels /\ \A r \in Outcomes : r.level + 1 = depth <=> r.level = depth - 1
        BY <1>0, <1>1, <1>2, <3>2, DepthLeft DEF Levels, Outcomes, Sized
      <3> DEFINE o == Outcome("datum", pos + 1, depth - 1)
      <3>4. /\ o \in Outcomes /\ o.kind = "datum" /\ o.at = pos + 1 /\ o.level = depth - 1
            /\ \A r \in Outcomes : r.kind = "datum" /\ r.at = pos + 1
               /\ r.level = depth - 1 => r = o
        BY <2>2, <3>3, OutcomeTyped
      <3>5. Rest(text)' <=> Leads(text, stack', Len(stack'), o)
        BY <1>0, <2>1, <3>2, RestThen
      <3> HIDE DEF o
      <3>6. Leads(text, stack', Len(stack'), o) <=> Leads(text, stack, Len(stack) - 1, o)
        BY <1>0, <1>2, <3>2, PopLeads
      <3>7. \A r \in Outcomes : Closed(text, top, part, pos, depth, r) <=> r = o
        BY <2>2, <2>4, <2>5, <2>7, <3>3, <3>4
      <3>8. QED
        BY <1>3, <3>1, <3>4, <3>5, <3>6, <3>7 DEF Faithful
    <2>8. QED
      BY <2>6, <2>7
  <1>6. CASE ListDot
    <2> DEFINE f == [top EXCEPT !.items = ItemsWithTail(top), !.tail = None, !.after = pos]
               o == Outcome("next", pos + 1, depth)
    <2>1. /\ resume(f) /\ pc' = "datum" /\ pos' = pos + 1 /\ depth' = depth
          /\ opts.dotted_pairs /\ top.items # <<>> /\ peek = "."
      BY <1>6 DEF ListDot, IsDot
    <2>2. f.fn = "list" /\ f.at = top.at /\ ~WaitsForItem(f)
      BY <1>2 DEF FrameType, Positions, None, WaitsForItem
    <2> HIDE DEF f
    <2>3. pos \in 1..Len(tokens) /\ tokens[pos] = "." /\ pos + 1 \in Positions
      BY <1>0, <2>1, Here DEF EOF
    <2>4. Separates(text[pos])
      \* The reader has passed the dot and not taken it for a symbol.
      <3>1. pos \notin DotsTaken
        BY <2>3 DEF Known, DotsPassed
      <3>2. pos \notin DotsTaken'
        BY <1>0, <1>1, <1>6, <3>1, DotsStep DEF Next, ReadDatum, DatumLeaf
      <3>3. text[pos] = AsRead'[pos]
        BY <1>0, <2>1, <2>3 DEF Known, Reading
      <3>4. pos \in DOMAIN tokens
        BY <1>0, <2>3, DotsAre
      <3>5. text[pos] = "."
        BY <1>0, <2>3, <3>2, <3>3, <3>4 DEF AsRead
      <3>6. QED
        BY <2>1, <3>5 DEF Separates
    <2>5. \A r : Closed(text, top, part, pos, depth, r) <=>
           /\ top.tail # None => opts.dotted_pairs_infix
           /\ \E k \in DatumEnds(text, pos + 1, depth) : Closed(text, top, "tail", k, depth, r)
      BY <1>2, <2>1, <2>3, <2>4, ClosedAtDot
    <2>6. CASE top.tail # None /\ ~opts.dotted_pairs_infix
      <3>1. error("ItemAfterDottedTail", pos)
        BY <1>6, <2>6 DEF ListDot
      <3>2. QED
        BY <1>0, <1>3, <2>5, <2>6, <3>1, ErrorAdded DEF Faithful
    <2>7. CASE ~(top.tail # None /\ ~opts.dotted_pairs_infix)
      <3>1. errors' = errors
        BY <1>6, <2>7 DEF ListDot
      <3>2. o \in Outcomes /\ o.kind = "next" /\ o.at = pos + 1 /\ o.level = depth
        BY <1>2, <2>3, OutcomeTyped
      <3>3. Rest(text)' <=> Leads(text, stack', Len(stack'), o)
        BY <1>0, <2>1, RestThen
      <3> HIDE DEF o
      <3>4. Rest(text)'
                <=> \E r \in Outcomes : Gives(text, f, o, r)
                  /\ Leads(text, stack, Len(stack) - 1, r)
        BY <1>0, <1>2, <2>1, <3>2, <3>3, ResumeLeads
      <3>5. \A r : Gives(text, f, o, r)
              <=> \E k \in DatumEnds(text, pos + 1, depth) : Closed(text, top, "tail", k, depth, r)
        BY <2>2, <3>2 DEF Gives, Takes, Closed
      <3>6. QED
        BY <1>3, <2>5, <2>7, <3>1, <3>4, <3>5 DEF Faithful
    <2>8. QED
      BY <2>6, <2>7
  <1>7. CASE ListItem
    <2> DEFINE o == Outcome("next", pos, depth)
    <2>1. pc' = "datum" /\ pos' = pos /\ depth' = depth /\ errors' = errors /\ stack' = stack
      BY <1>7 DEF ListItem
    <2>2. o \in Outcomes /\ o.kind = "next" /\ o.at = pos /\ o.level = depth
      BY <1>2, OutcomeTyped
    <2>3. Rest(text)' <=> Leads(text, stack, Len(stack), o)
      BY <1>0, <2>1, RestThen
    <2> HIDE DEF o
    <2>4. Rest(text)'
              <=> \E r \in Outcomes : Gives(text, top, o, r)
                /\ Leads(text, stack, Len(stack) - 1, r)
      BY <1>0, <1>2, <2>2, <2>3, InnerLeads
    <2>5. \A r : Gives(text, top, o, r) <=> Closed(text, top, part, pos, depth, r)
      BY <1>2, <2>2 DEF Gives
    <2>6. QED
      BY <1>3, <2>1, <2>4, <2>5 DEF Faithful
  <1>8. QED
    BY <1>4, <1>5, <1>6, <1>7

LEMMA ListTakeFaithful ==
  ASSUME NEW text, Known(text), ListTakeTail \/ ListTakeItem \/ ListNoItem
  PROVE  Faithful(text)
  <1>0. IInv /\ tokens' = tokens /\ opts' = opts /\ Reading(text)
    BY DEF Known
  <1>1. pc = "return" /\ top.fn = "list" /\ top.fn # "top" /\ pos' = pos
    BY DEF ListTakeTail, ListTakeItem, ListNoItem
  <1> DEFINE o == Returns
  <1>2. /\ stack # <<>> /\ Sized(text) /\ pos \in Positions /\ depth \in Levels
        /\ ret = None => Stop(text, pos) /\ DatumEnds(text, pos, depth) = {}
        /\ o \in Outcomes /\ o.at = pos /\ o.level = depth
        /\ o.kind = IF ret = None THEN "next" ELSE "datum"
    BY <1>1, Returned
  <1>3. Rest(text) <=> \E r \in Outcomes : /\ Gives(text, top, o, r)
                                           /\ Leads(text, stack, Len(stack) - 1, r)
    BY <1>1, Returned
  <1>4. top \in FrameType(Len(heap)) /\ (top.tail # None => top.items # <<>>)
    <2>1. Len(stack) \in 1..Len(stack) /\ top = stack[Len(stack)]
      BY <1>0, <1>2, InnerCall
    <2>2. top.tail # None => top.items # <<>>
      BY <2>1 DEF Known, TailBehindItem
    <2>3. QED
      BY <1>0, <1>2, <2>2, TopTyped
  <1> HIDE DEF o
  \* A list resumed as f, with `part' of its body read, wants what it wanted.
  <1>5. ASSUME NEW f, resume(f), pc' = "list", depth' = depth, errors' = errors,
               f.at = top.at, NEW part, PartRead(f) = part,
               \A r : Gives(text, top, o, r) <=> Closed(text, top, part, pos, depth, r)
        PROVE  Faithful(text)
    <2>1. /\ top' = f
          /\ \A r \in Outcomes : Leads(text, stack', Len(stack') - 1, r)
                                   <=> Leads(text, stack, Len(stack) - 1, r)
      <3>1. \A r \in Outcomes :
              /\ top' = f
              /\ Leads(text, stack', Len(stack') - 1, r) <=> Leads(text, stack, Len(stack) - 1, r)
        BY <1>0, <1>1, <1>2, <1>5, ResumeLeads
      <3>2. top' = f
        BY <1>2, <3>1
      <3>3. QED
        BY <3>1, <3>2
    <2>2. Rest(text)' <=> \E r \in Outcomes : /\ Closed(text, f, part, pos, depth, r)
                                              /\ Leads(text, stack', Len(stack') - 1, r)
      BY <1>0, <1>1, <1>5, <2>1, RestThen
    <2>3. \A r : Closed(text, f, part, pos, depth, r) <=> Closed(text, top, part, pos, depth, r)
      BY <1>5 DEF Closed
    <2>4. QED
      BY <1>3, <1>5, <2>1, <2>2, <2>3 DEF Faithful
  <1>6. CASE ListTakeTail
    <2>1. top.after # None /\ pc' = "list" /\ depth' = depth /\ ~WaitsForItem(top)
      BY <1>6 DEF ListTakeTail, WaitsForItem
    <2>2. CASE ret = None
      <3>1. \A r : ~Gives(text, top, o, r)
        BY <1>2, <2>1, <2>2 DEF Gives
      <3>2. error("DanglingDot", top.after)
        BY <1>6, <2>2 DEF ListTakeTail
      <3>3. QED
        BY <1>0, <1>3, <3>1, <3>2, ErrorAdded DEF Faithful
    <2>3. CASE ret # None
      <3> DEFINE f == [top EXCEPT !.tail = ret, !.dot = top.after, !.after = None]
      <3>1. resume(f) /\ errors' = errors
        BY <1>6, <2>3 DEF ListTakeTail
      <3>2. f.at = top.at /\ PartRead(f) = "tail"
        BY <1>4, <2>3 DEF FrameType, PartRead
      <3> HIDE DEF f
      <3>3. \A r : Gives(text, top, o, r) <=> Closed(text, top, "tail", pos, depth, r)
        BY <1>1, <1>2, <2>1, <2>3 DEF Gives, Takes
      <3>4. QED
        BY <1>5, <2>1, <3>1, <3>2, <3>3
    <2>4. QED
      BY <2>2, <2>3
  <1>7. CASE ListTakeItem
    <2>1. top.after = None /\ ret # None /\ pc' = "list" /\ depth' = depth /\ WaitsForItem(top)
      BY <1>7 DEF ListTakeItem, WaitsForItem
    <2>2. \A r : Gives(text, top, o, r) <=> /\ top.tail # None => opts.dotted_pairs_infix
                                            /\ Closed(text, top, "item", pos, depth, r)
      BY <1>2, <2>1 DEF Gives
    <2>3. CASE top.tail # None /\ ~opts.dotted_pairs_infix
      BY <1>0, <1>3, <1>7, <2>2, <2>3, ErrorAdded DEF ListTakeItem, Faithful
    <2>4. CASE ~(top.tail # None /\ ~opts.dotted_pairs_infix)
      <3> DEFINE f == [top EXCEPT !.items = Append(ItemsWithTail(top), ret), !.tail = None,
                                  !.dot = IF top.tail = None THEN @ ELSE None]
      <3>1. resume(f) /\ errors' = errors
        BY <1>7, <2>4 DEF ListTakeItem
      <3>2. Append(ItemsWithTail(top), ret) # <<>>
        <4>1. /\ top.items \in Seq(1..Len(heap)) /\ ret \in 1..Len(heap)
              /\ top.tail # None => top.tail \in 1..Len(heap)
          BY <1>0, <1>4, <2>1, Bounds DEF FrameType, None, IInv, TypeOK
        <4>2. ItemsWithTail(top) \in Seq(1..Len(heap))
          BY <4>1, AppendProperties DEF ItemsWithTail
        <4>3. QED
          BY <4>1, <4>2, AppendProperties
      <3>3. f.at = top.at /\ PartRead(f) = "item"
        BY <1>4, <3>2 DEF FrameType, PartRead
      <3> HIDE DEF f
      <3>4. \A r : Gives(text, top, o, r) <=> Closed(text, top, "item", pos, depth, r)
        BY <2>2, <2>4
      <3>5. QED
        BY <1>5, <2>1, <3>1, <3>3, <3>4
    <2>5. QED
      BY <2>3, <2>4
  <1>8. CASE ListNoItem
    <2>1. top.after = None /\ ret = None /\ WaitsForItem(top)
      BY <1>1, <1>8 DEF ListNoItem, WaitsForItem
    <2>2. \A r : Gives(text, top, o, r) <=> Closed(text, top, PartRead(top), pos, depth, r)
      BY <1>2, <2>1 DEF Gives
    <2>3. Stop(text, pos) /\ PartRead(top) \in BodyParts
      BY <1>2, <2>1 DEF PartRead, BodyParts
    <2>4. CASE peek \in Closes
      <3>1. /\ pc' = "list" /\ depth' = depth /\ errors' = errors /\ stack' = stack
        BY <1>8, <2>4 DEF ListNoItem
      <3>2. top' = top
        BY <3>1 DEF top
      <3>3. Rest(text)' <=> \E r \in Outcomes : /\ Closed(text, top, PartRead(top), pos, depth, r)
                                                /\ Leads(text, stack, Len(stack) - 1, r)
        BY <1>0, <1>1, <3>1, <3>2, RestThen
      <3>4. QED
        BY <1>3, <2>2, <3>1, <3>3 DEF Faithful
    <2>5. CASE peek \notin Closes
      <3>1. error("UnclosedList", top.at)
        BY <1>8, <2>5 DEF ListNoItem
      <3>2. pos > Len(tokens) /\ ~(pos <= Len(tokens))
        BY <1>0, <1>2, <2>3, <2>5, Here DEF Sized, Positions
      <3>3. \A r : ~Closed(text, top, PartRead(top), pos, depth, r)
        BY <1>2, <2>3, <3>2, ClosedAtStop
      <3>4. QED
        BY <1>0, <1>3, <2>2, <3>1, <3>3, ErrorAdded DEF Faithful
    <2>6. QED
      BY <2>4, <2>5
  <1>9. QED
    BY <1>6, <1>7, <1>8

-----------------------------------------------------------------------------
(* A symbol in place of a dot makes no text worse.                         *)

\* t is s with symbols in place of some of its dots.
Softened(s, t) ==
  /\ Sized(s) /\ Sized(t)
  /\ \A i \in 1..Len(tokens) : s[i] \in AllKinds /\ (t[i] = s[i] \/ (s[i] = "." /\ t[i] = "atom"))

\* What may follow a tail may follow an item.
LEMMA TailOrItem ==
  ASSUME NEW t, Sized(t), NEW d \in Levels
  PROVE  \A i \in Positions : BodyEnds(t, "tail", i, d) \subseteq BodyEnds(t, "item", i, d)
  <1> DEFINE S == {i \in Positions : BodyEnds(t, "tail", i, d) \subseteq BodyEnds(t, "item", i, d)}
  <1>1. ASSUME NEW i \in Positions, \A k \in i + 1..Len(tokens) + 1 : k \in S
        PROVE  i \in S
    <2>1. CASE Stop(t, i)
      BY <2>1, NothingBegins DEF BodyParts
    <2>2. CASE ~Stop(t, i)
      <3>1. i \in 1..Len(tokens) /\ i + 1 \in Positions
        BY <2>2 DEF Stop, Positions, Sized
      <3>2. \A k \in DatumEnds(t, i + 1, d) : k \in S
        <4>1. DatumEnds(t, i + 1, d) \subseteq i + 1 + 1..Len(tokens) + 1
          BY <3>1, EndsReach
        <4>2. \A k \in i + 1 + 1..Len(tokens) + 1 : k \in i + 1..Len(tokens) + 1
          BY <3>1 DEF Sized
        <4>3. QED
          BY <1>1, <4>1, <4>2
      <3>3. \A part \in {"tail", "item"} : \A j :
              j \in BodyEnds(t, part, i, d) <=>
                \/ j = i
                \/ /\ Hides(t[i])
                   /\ \E k \in DatumEnds(t, i + 1, d) : j \in BodyEnds(t, part, k, d)
                \/ /\ ~Hides(t[i])
                   /\ part = "tail" => opts.dotted_pairs_infix
                   /\ IF part # "empty" /\ Separates(t[i])
                      THEN \E k \in DatumEnds(t, i + 1, d) : j \in BodyEnds(t, "tail", k, d)
                      ELSE \E k \in DatumEnds(t, i, d) : j \in BodyEnds(t, "item", k, d)
        BY <3>1, OthersBegin DEF BodyParts
      <3>4. BodyEnds(t, "tail", i, d) \subseteq BodyEnds(t, "item", i, d)
        BY <3>2, <3>3
      <3>5. QED
        BY <3>4
    <2>3. QED
      BY <2>1, <2>2
  <1> HIDE DEF S
  <1>2. Positions \subseteq S
    BY <1>1, Backwards DEF Positions, Sized
  <1>3. QED
    BY <1>2 DEF S

\* A datum may stand in front of what follows an item.
LEMMA ItemBefore ==
  ASSUME NEW t, Sized(t), NEW d \in Levels
  PROVE  \A i \in Positions : \A k \in DatumEnds(t, i, d) :
           BodyEnds(t, "item", k, d) \subseteq BodyEnds(t, "item", i, d)
  <1> DEFINE S == {i \in Positions : \A k \in DatumEnds(t, i, d) :
                     BodyEnds(t, "item", k, d) \subseteq BodyEnds(t, "item", i, d)}
  <1>1. ASSUME NEW i \in Positions, \A k \in i + 1..Len(tokens) + 1 : k \in S
        PROVE  i \in S
    <2>1. CASE Stop(t, i)
      BY <2>1, NothingBegins
    <2>2. CASE ~Stop(t, i)
      <3>1. i \in 1..Len(tokens) /\ i + 1 \in Positions
        BY <2>2 DEF Stop, Positions, Sized
      <3>2. \A k \in DatumEnds(t, i + 1, d) : k \in S
        <4>1. DatumEnds(t, i + 1, d) \subseteq i + 1 + 1..Len(tokens) + 1
          BY <3>1, EndsReach
        <4>2. \A k \in i + 1 + 1..Len(tokens) + 1 : k \in i + 1..Len(tokens) + 1
          BY <3>1 DEF Sized
        <4>3. QED
          BY <1>1, <4>1, <4>2
      <3>3. \A j : j \in BodyEnds(t, "item", i, d) <=>
                \/ j = i
                \/ /\ Hides(t[i])
                   /\ \E k \in DatumEnds(t, i + 1, d) : j \in BodyEnds(t, "item", k, d)
                \/ /\ ~Hides(t[i])
                   /\ IF Separates(t[i])
                      THEN \E k \in DatumEnds(t, i + 1, d) : j \in BodyEnds(t, "tail", k, d)
                      ELSE \E k \in DatumEnds(t, i, d) : j \in BodyEnds(t, "item", k, d)
        BY <3>1, OthersBegin DEF BodyParts
      <3>4. Separates(t[i]) => DatumEnds(t, i, d) = {}
        BY <3>1, DatumBegins DEF Separates, Leaves
      <3>5. Hides(t[i]) => \A j : j \in DatumEnds(t, i, d)
                <=> \E k \in DatumEnds(t, i + 1, d) : j \in DatumEnds(t, k, d)
        BY <3>1, DatumBegins
      <3>6. \A k \in DatumEnds(t, i, d) : BodyEnds(t, "item", k, d) \subseteq BodyEnds(t,
              "item", i, d)
        <4>1. CASE Hides(t[i])
          BY <3>2, <3>3, <3>5, <4>1
        <4>2. CASE ~Hides(t[i])
          BY <3>3, <3>4, <4>2
        <4>3. QED
          BY <4>1, <4>2
      <3>7. QED
        BY <3>6
    <2>3. QED
      BY <2>1, <2>2
  <1> HIDE DEF S
  <1>2. Positions \subseteq S
    BY <1>1, Backwards DEF Positions, Sized
  <1>3. QED
    BY <1>2 DEF S

\* At i, t allows what s allows.
Allows(s, t, i) ==
  \A d \in Levels :
    /\ DatumEnds(s, i, d) \subseteq DatumEnds(t, i, d)
    /\ TopEnds(s, i, d) \subseteq TopEnds(t, i, d)
    /\ \A part \in BodyParts : BodyEnds(s, part, i, d) \subseteq BodyEnds(t, part, i, d)

LEMMA SoftenedDatum ==
  ASSUME NEW s, NEW t, Softened(s, t), NEW i \in 1..Len(tokens), NEW d \in Levels, ~Stop(s, i),
         \A k \in i + 1..Len(tokens) + 1 : Allows(s, t, k)
  PROVE  DatumEnds(s, i, d) \subseteq DatumEnds(t, i, d)
  <1> DEFINE L == Len(tokens)
  <1>1. /\ Sized(s) /\ Sized(t) /\ s[i] \in AllKinds
           /\ (t[i] = s[i] \/ (s[i] = "." /\ t[i] = "atom"))
        /\ L \in Nat /\ MAX_DEPTH \in Nat /\ i + 1 \in i + 1..L + 1 /\ i \in Positions
           /\ i + 1 \in Positions
    BY DEF Softened, Sized, Positions
  <1>2. \A e \in Levels : /\ DatumEnds(s, i + 1, e) \subseteq DatumEnds(t, i + 1, e)
                          /\ BodyEnds(s, "empty", i + 1, e) \subseteq BodyEnds(t, "empty", i + 1, e)
    BY <1>1 DEF Allows, BodyParts
  <1>3. \A k \in DatumEnds(s, i + 1, d) : DatumEnds(s, k, d) \subseteq DatumEnds(t, k, d)
    <2>1. DatumEnds(s, i + 1, d) \subseteq i + 1 + 1..L + 1
      BY <1>1, EndsReach
    <2>2. \A k \in i + 1 + 1..L + 1 : k \in i + 1..L + 1
      BY <1>1
    <2>3. QED
      BY <2>1, <2>2 DEF Allows
  <1>4. CASE s[i] \in Leaves
    <2>1. t[i] \in Leaves /\ (Separates(t[i]) => Separates(s[i]))
      BY <1>1, <1>4 DEF Leaves, Separates
    <2>2. DatumEnds(s, i, d) = IF Separates(s[i]) THEN {} ELSE {i + 1}
      BY <1>1, <1>4, DatumBegins
    <2>3. DatumEnds(t, i, d) = IF Separates(t[i]) THEN {} ELSE {i + 1}
      BY <1>1, <2>1, DatumBegins
    <2>4. QED
      BY <2>1, <2>2, <2>3
  <1>5. CASE s[i] \notin Leaves
    <2>1. t[i] = s[i]
      BY <1>1, <1>5 DEF Leaves
    <2>2. CASE Generic(s[i]) \/ s[i] \in {Tag, Label}
      <3>1. DatumEnds(s, i, d) = DatumEnds(s, i + 1, d)
        BY <1>1, <2>2, DatumBegins
      <3>2. DatumEnds(t, i, d) = DatumEnds(t, i + 1, d)
        BY <1>1, <2>1, <2>2, DatumBegins
      <3>3. QED
        BY <1>2, <3>1, <3>2
    <2>3. CASE TwoOperands(s[i]) \/ Hides(s[i])
      <3>1. \A j : j \in DatumEnds(s, i, d)
                <=> \E k \in DatumEnds(s, i + 1, d) : j \in DatumEnds(s, k, d)
        BY <1>1, <2>3, DatumBegins
      <3>2. \A j : j \in DatumEnds(t, i, d)
                <=> \E k \in DatumEnds(t, i + 1, d) : j \in DatumEnds(t, k, d)
        BY <1>1, <2>1, <2>3, DatumBegins
      <3>3. QED
        BY <1>2, <1>3, <3>1, <3>2
    <2>4. CASE s[i] \in Opens \union HashOpens
      <3>1. \A j : j \in DatumEnds(s, i, d) <=>
              /\ d < MAX_DEPTH
              /\ \E k \in BodyEnds(s, "empty", i + 1, d + 1) :
                   k <= L /\ <<s[i], s[k]>> \in Matches /\ j = k + 1
        BY <1>1, <2>4, DatumBegins
      <3>2. \A j : j \in DatumEnds(t, i, d) <=>
              /\ d < MAX_DEPTH
              /\ \E k \in BodyEnds(t, "empty", i + 1, d + 1) :
                   k <= L /\ <<t[i], t[k]>> \in Matches /\ j = k + 1
        BY <1>1, <2>1, <2>4, DatumBegins
      <3>3. ASSUME d < MAX_DEPTH, NEW k \in BodyEnds(s, "empty", i + 1, d + 1),
                   k <= L, <<s[i], s[k]>> \in Matches
            PROVE  k \in BodyEnds(t, "empty", i + 1, d + 1) /\ <<t[i], t[k]>> \in Matches
        <4>1. d + 1 \in Levels
          BY <1>1, <3>3 DEF Levels
        <4>2. k \in i + 1..L + 1
          BY <1>1, <3>3, <4>1, EndsReach DEF BodyParts
        <4>3. k \in 1..L
          BY <1>1, <3>3, <4>2
        <4>4. s[k] # "."
          BY <3>3 DEF Matches
        <4>5. t[k] = s[k]
          BY <4>3, <4>4 DEF Softened
        <4>6. QED
          BY <1>2, <2>1, <3>3, <4>1, <4>5
      <3>4. QED
        BY <3>1, <3>2, <3>3
    <2>5. CASE s[i] = Malformed
      BY <1>1, <2>5, NothingBegins
    <2>6. QED
      <3>1. s[i] \notin Closes
        BY DEF Stop
      <3>2. s[i] \in ReaderMacros => Generic(s[i]) \/ TwoOperands(s[i]) \/ Hides(s[i])
        BY DEF ReaderMacros, Generic, TwoOperands, Hides
      <3>3. QED
        BY <1>1, <1>5, <2>2, <2>3, <2>4, <2>5, <3>1, <3>2 DEF AllKinds
  <1>6. QED
    BY <1>4, <1>5

LEMMA SoftenedAt ==
  ASSUME NEW s, NEW t, Softened(s, t), NEW i \in Positions,
         \A k \in i + 1..Len(tokens) + 1 : Allows(s, t, k)
  PROVE  Allows(s, t, i)
  <1> SUFFICES ASSUME NEW d \in Levels
               PROVE  /\ DatumEnds(s, i, d) \subseteq DatumEnds(t, i, d)
                      /\ TopEnds(s, i, d) \subseteq TopEnds(t, i, d)
                      /\ \A part \in BodyParts : BodyEnds(s, part, i, d) \subseteq BodyEnds(t,
                         part, i, d)
    BY DEF Allows
  <1> DEFINE L == Len(tokens)
  <1>1. Sized(s) /\ Sized(t) /\ L \in Nat
    BY DEF Softened, Sized
  <1>2. CASE Stop(s, i)
    <2>1. Stop(t, i)
      <3>1. i # L + 1 => i \in 1..L
        BY <1>1 DEF Positions
      <3>2. i # L + 1 => t[i] = s[i]
        BY <1>2, <3>1 DEF Stop, Softened, Closes
      <3>3. QED
        BY <1>2, <3>2 DEF Stop
    <2>2. QED
      BY <1>1, <1>2, <2>1, NothingBegins
  <1>3. CASE ~Stop(s, i)
    <2>1. /\ i \in 1..L /\ i + 1 \in i + 1..L + 1 /\ i + 1 \in Positions
          /\ t[i] = s[i] \/ (s[i] = "." /\ t[i] = "atom")
      BY <1>1, <1>3 DEF Stop, Softened, Positions
    <2>2. DatumEnds(s, i, d) \subseteq DatumEnds(t, i, d)
      BY <1>3, <2>1, SoftenedDatum
    <2>3. DatumEnds(s, i + 1, d) \subseteq DatumEnds(t, i + 1, d)
      BY <2>1 DEF Allows
    <2>4. \A k : k \in DatumEnds(s, i, d) \/ k \in DatumEnds(s, i + 1, d) => k \in i + 1..L + 1
      <3>1. DatumEnds(s, i, d) \subseteq i + 1..L + 1
              /\ DatumEnds(s, i + 1, d) \subseteq i + 1 + 1..L + 1
        BY <1>1, <2>1, EndsReach
      <3>2. \A k \in i + 1 + 1..L + 1 : k \in i + 1..L + 1
        BY <1>1, <2>1
      <3>3. QED
        BY <3>1, <3>2
    <2>5. \A k : k \in DatumEnds(s, i, d) \/ k \in DatumEnds(s, i + 1, d) =>
            /\ TopEnds(s, k, d) \subseteq TopEnds(t, k, d)
            /\ \A part \in BodyParts : BodyEnds(s, part, k, d) \subseteq BodyEnds(t, part, k, d)
      BY <2>4 DEF Allows
    <2>6. Hides(s[i]) <=> Hides(t[i])
      BY <2>1 DEF Hides
    <2>7. TopEnds(s, i, d) \subseteq TopEnds(t, i, d)
      <3>1. \A j : j \in TopEnds(s, i, d) <=>
              \/ j = i
              \/ Hides(s[i]) /\ \E k \in DatumEnds(s, i + 1, d) : j \in TopEnds(s, k, d)
              \/ ~Hides(s[i]) /\ \E k \in DatumEnds(s, i, d) : j \in TopEnds(s, k, d)
        BY <1>1, <2>1, OthersBegin
      <3>2. \A j : j \in TopEnds(t, i, d) <=>
              \/ j = i
              \/ Hides(t[i]) /\ \E k \in DatumEnds(t, i + 1, d) : j \in TopEnds(t, k, d)
              \/ ~Hides(t[i]) /\ \E k \in DatumEnds(t, i, d) : j \in TopEnds(t, k, d)
        BY <1>1, <2>1, OthersBegin
      <3>3. QED
        BY <2>2, <2>3, <2>5, <2>6, <3>1, <3>2
    <2>8. ASSUME NEW part \in BodyParts
          PROVE  BodyEnds(s, part, i, d) \subseteq BodyEnds(t, part, i, d)
      <3>1. \A j : j \in BodyEnds(s, part, i, d) <=>
              \/ j = i
              \/ Hides(s[i]) /\ \E k \in DatumEnds(s, i + 1, d) : j \in BodyEnds(s, part, k, d)
              \/ /\ ~Hides(s[i]) /\ (part = "tail" => opts.dotted_pairs_infix)
                 /\ IF part # "empty" /\ Separates(s[i])
                    THEN \E k \in DatumEnds(s, i + 1, d) : j \in BodyEnds(s, "tail", k, d)
                    ELSE \E k \in DatumEnds(s, i, d) : j \in BodyEnds(s, "item", k, d)
        BY <1>1, <2>1, OthersBegin
      <3>2. \A j : j \in BodyEnds(t, part, i, d) <=>
              \/ j = i
              \/ Hides(t[i]) /\ \E k \in DatumEnds(t, i + 1, d) : j \in BodyEnds(t, part, k, d)
              \/ /\ ~Hides(t[i]) /\ (part = "tail" => opts.dotted_pairs_infix)
                 /\ IF part # "empty" /\ Separates(t[i])
                    THEN \E k \in DatumEnds(t, i + 1, d) : j \in BodyEnds(t, "tail", k, d)
                    ELSE \E k \in DatumEnds(t, i, d) : j \in BodyEnds(t, "item", k, d)
        BY <1>1, <2>1, OthersBegin
      <3>3. "tail" \in BodyParts /\ "item" \in BodyParts
        BY DEF BodyParts
      <3>4. CASE Separates(s[i]) <=> Separates(t[i])
        BY <2>2, <2>3, <2>5, <2>6, <3>1, <3>2, <3>3, <3>4
      \* A separator in s, an item in t: so is its tail.
      <3>5. CASE ~(Separates(s[i]) <=> Separates(t[i]))
        <4>1. Separates(s[i]) /\ ~Separates(t[i]) /\ t[i] = "atom" /\ ~Hides(t[i])
          BY <2>1, <3>5 DEF Separates, Hides
        <4>2. DatumEnds(t, i, d) = {i + 1}
          BY <1>1, <2>1, <4>1, DatumBegins DEF Leaves
        <4>3. \A k \in DatumEnds(s, i + 1, d) :
                BodyEnds(s, "tail", k, d) \subseteq BodyEnds(t, "item", i + 1, d)
          <5> TAKE k \in DatumEnds(s, i + 1, d)
          <5>1. k \in DatumEnds(t, i + 1, d)
            BY <2>3
          <5>2. k \in Positions
            BY <1>1, <2>1, <5>1, EndsReach
          <5>3. BodyEnds(s, "tail", k, d) \subseteq BodyEnds(t, "tail", k, d)
            BY <2>5, <3>3
          <5>4. BodyEnds(t, "tail", k, d) \subseteq BodyEnds(t, "item", k, d)
            BY <1>1, <5>2, TailOrItem
          <5>5. BodyEnds(t, "item", k, d) \subseteq BodyEnds(t, "item", i + 1, d)
            BY <1>1, <2>1, <5>1, ItemBefore
          <5>6. QED
            BY <5>3, <5>4, <5>5
        <4>4. QED
          BY <2>2, <2>5, <2>6, <3>1, <3>2, <3>3, <4>1, <4>2, <4>3
      <3>6. QED
        BY <3>4, <3>5
    <2>9. QED
      BY <2>2, <2>7, <2>8
  <1>4. QED
    BY <1>2, <1>3

LEMMA SoftenedIsNoWorse ==
  ASSUME NEW s, NEW t, Softened(s, t), WellFormed(s)
  PROVE  WellFormed(t)
  <1> DEFINE S == {i \in Positions : Allows(s, t, i)}
  <1>1. ASSUME NEW i \in Positions, \A k \in i + 1..Len(tokens) + 1 : k \in S
        PROVE  i \in S
    <2>1. \A k \in i + 1..Len(tokens) + 1 : Allows(s, t, k)
      BY <1>1
    <2>2. QED
      BY <2>1, SoftenedAt
  <1> HIDE DEF S
  <1>2. Positions \subseteq S
    BY <1>1, Backwards DEF Positions, Softened, Sized
  <1>3. 1 \in Positions /\ 0 \in Levels /\ Len(s) = Len(t)
    BY DEF Positions, Levels, Softened, Sized
  <1>4. TopEnds(s, 1, 0) \subseteq TopEnds(t, 1, 0)
    BY <1>2, <1>3 DEF S, Allows
  <1>5. QED
    BY <1>3, <1>4 DEF WellFormed, TopEnds

-----------------------------------------------------------------------------
(* The verdict.                                                            *)

LEMMA StepFaithful ==
  ASSUME NEW text, Known(text), Next, pc # "skip"
  PROVE  Faithful(text)
  <1>1. ~(SkipToken \/ SkipClose \/ SkipEof)
    BY DEF SkipToken, SkipClose, SkipEof
  <1>2. QED
    BY <1>1, TopFaithful, DatumFaithful, OperandFaithful, OpenFaithful, TakeFaithful,
       ScanFaithful, ListTakeFaithful DEF Next, ReadDatum

\* What has been reported stays reported.
LEMMA ErrorsStay ==
  ASSUME IInv, Next, errors # <<>>
  PROVE  errors' # <<>>
  <1>1. CASE errors' = errors
    BY <1>1
  <1>2. ASSUME NEW e \in ErrorType, errors' = Append(errors, e)
        PROVE  errors' # <<>>
    <2>1. errors \in Seq(ErrorType)
      BY ErrorsKept
    <2>2. QED
      BY <1>2, <2>1, AppendProperties
  <1>3. QED
    BY <1>1, <1>2, ErrorsKept

\* The reader skips a region only after it has reported it too deep.
LEMMA SkipsAreReported ==
  ASSUME IInv, Next, pc # "skip", pc' = "skip"
  PROVE  errors' # <<>>
  <1>1. DatumOpen
    BY DEF Next, ReadDatum, TopStrayClose, TopCall, TopTake, TopEnd, DatumNone, DatumMalformed,
           DatumLeaf, DatumOperand, DiscardTake, ArgTake, PrefixTake, TagTake, ListEof,
           ListClose, ListDot, ListTakeTail, ListItem, ListTakeItem, ListNoItem, SkipToken,
           SkipClose, SkipEof, call, return, Complete
  <1>2. MAX_DEPTH \in Nat /\ depth \in Nat /\ depth <= MAX_DEPTH
    BY Bounds
  <1>3. depth' = depth + 1 /\ TooDeep(depth')
    BY <1>1 DEF DatumOpen
  <1>4. depth' = MAX_DEPTH + 1
    BY <1>2, <1>3 DEF TooDeep
  <1>5. error("DepthLimitExceeded", pos)
    BY <1>1, <1>3, <1>4 DEF DatumOpen
  <1>6. QED
    BY <1>5, ErrorAdded

LEMMA JudgedStep ==
  ASSUME IInv, NoneMeansStop, Begun, TailBehindItem, DotsPassed, Judged, Next
  PROVE  Judged'
  <1>1. tokens' = tokens /\ opts' = opts
    BY InputsKept
  <1>2. ASSUME NEW text, Reading(text)'
        PROVE  /\ Known(text) /\ Reading(text)
               /\ WellFormed(text)' <=> WellFormed(text)
    <2>1. Reading(text)
      BY <1>2, ReadingBack
    <2>2. WellFormed(text)' <=> WellFormed(text)
      BY <1>1, RestNext
    <2>3. QED
      BY <1>1, <1>2, <2>1, <2>2 DEF Known
  <1>3. CASE errors # <<>>
    <2>1. errors' # <<>>
      BY <1>3, ErrorsStay
    <2>2. \A text : Reading(text)' => ~WellFormed(text)'
      BY <1>2, <1>3 DEF Judged
    <2>3. QED
      BY <2>1, <2>2 DEF Judged
  <1>4. CASE errors = <<>>
    <2>1. pc # "skip"
      BY <1>4 DEF Judged
    <2>2. ASSUME NEW text, Reading(text)'
          PROVE  /\ errors' = <<>> => (WellFormed(text)' <=> Rest(text)')
                 /\ errors' # <<>> => ~WellFormed(text)'
      <3>1. Known(text) /\ Reading(text) /\ (WellFormed(text)' <=> WellFormed(text))
        BY <1>2, <2>2
      <3>2. WellFormed(text) <=> Rest(text)
        BY <1>4, <3>1 DEF Judged
      <3>3. Faithful(text)
        BY <2>1, <3>1, StepFaithful
      <3>4. QED
        BY <1>4, <3>1, <3>2, <3>3 DEF Faithful
    <2>3. pc' = "skip" => errors' # <<>>
      BY <2>1, SkipsAreReported
    <2>4. QED
      BY <2>2, <2>3 DEF Judged
  <1>5. QED
    BY <1>3, <1>4

\* At the outset the rest is the whole text.
LEMMA JudgedFirst ==
  ASSUME Init
  PROVE  Judged
  <1>1. pos = 1 /\ depth = 0 /\ errors = <<>> /\ pc = "top"
    BY DEF Init
  <1>2. \A text : Reading(text) => (Rest(text) <=> WellFormed(text))
    BY <1>1 DEF Rest, TopEnds, WellFormed, Reading
  <1>3. QED
    BY <1>1, <1>2 DEF Judged

\* The source as it was taken is a reading of the source.
LEMMA AsReadIsAReading ==
  ASSUME IInv
  PROVE  Reading(AsRead) /\ Softened(tokens, AsRead)
  <1>1. /\ tokens \in Seq(AllKinds) /\ Len(tokens) \in Nat /\ DOMAIN tokens = 1..Len(tokens)
        /\ MAX_DEPTH \in Nat
    BY Bounds, DotsAre DEF IInv, TypeOK
  <1>2. \A i \in 1..Len(tokens) : tokens[i] \in AllKinds
    BY <1>1, ElementOfSeq
  <1>3. \A i \in 1..Len(tokens) : AsRead[i] = tokens[i] \/ (tokens[i] = "." /\ AsRead[i] = "atom")
    BY <1>1 DEF AsRead, DotsTaken
  <1>4. AsRead \in [1..Len(tokens) -> AllKinds]
    <2>1. "atom" \in AllKinds
      BY DEF AllKinds, Leaves
    <2>2. QED
      BY <1>1, <1>2, <2>1 DEF AsRead
  <1>5. AsRead \in Seq(AllKinds) /\ Len(AsRead) = Len(tokens)
    <2> DEFINE n == Len(tokens)
    <2>1. n \in Nat /\ AsRead \in [1..n -> AllKinds]
      BY <1>1, <1>4
    <2> HIDE DEF n
    <2>2. AsRead \in Seq(AllKinds)
      BY <2>1
    <2>3. DOMAIN AsRead = 1..n /\ DOMAIN AsRead = 1..Len(AsRead) /\ Len(AsRead) \in Nat
      BY <2>1, <2>2, LenProperties
    <2>4. Len(AsRead) = n
      BY <2>1, <2>3
    <2>5. QED
      BY <2>2, <2>4 DEF n
  <1>6. QED
    BY <1>1, <1>2, <1>3, <1>5 DEF Reading, Softened, Sized

\* For every source, every choice of options and every depth cap: parse never
\* complains about well-formed text, and returns without a diagnostic just when
\* the source as it took it is well-formed, data nested no deeper than the cap.
\* The only defect that passes silently is a dot it took for a symbol
\* (reader.rs:207-608).
THEOREM ReportsJustDefects == Spec => []DiagnosticFree
  <1> DEFINE JInv == NoneMeansStop /\ Begun /\ TailBehindItem /\ DotsPassed /\ Judged
  <1>1. Init => JInv
    <2> SUFFICES ASSUME Init PROVE JInv
      OBVIOUS
    <2>1. NoneMeansStop /\ Begun /\ TailBehindItem /\ DotsPassed
      BY DEF Init, NoneMeansStop, Begun, TailBehindItem, DotsPassed, DotsTaken
    <2>2. QED
      BY <2>1, JudgedFirst
  <1>2. IInv /\ JInv /\ [Next]_vars => JInv'
    <2> SUFFICES ASSUME IInv, JInv, [Next]_vars PROVE JInv'
      OBVIOUS
    <2>1. CASE Next
      BY <2>1, NoneMeansStopStep, BegunStep, TailStep, DotsPassedStep, JudgedStep
    <2>2. CASE UNCHANGED vars
      <3>1. /\ tokens' = tokens /\ opts' = opts /\ pos' = pos /\ depth' = depth /\ errors' = errors
            /\ stack' = stack /\ pc' = pc /\ ret' = ret /\ heap' = heap
        BY <2>2 DEF vars
      <3>2. top' = top /\ peek' = peek
        BY <3>1 DEF top, peek
      <3>3. DotsTaken' = DotsTaken /\ AsRead' = AsRead
        BY <3>1 DEF DotsTaken, AsRead
      <3>4. \A text : /\ WellFormed(text)' <=> WellFormed(text)
                      /\ Rest(text)' <=> Rest(text)
                      /\ Reading(text)' <=> Reading(text)
        BY <3>1, <3>2, <3>3, RestNext DEF Rest, Returns, Reading
      <3>5. (NoneMeansStop /\ Begun /\ TailBehindItem /\ DotsPassed)'
        BY <3>1, <3>2, <3>3 DEF NoneMeansStop, Begun, TailBehindItem, DotsPassed, None
      <3>6. QED
        BY <3>1, <3>4, <3>5 DEF Judged
    <2>3. QED
      BY <2>1, <2>2
  <1>3. IInv /\ JInv => DiagnosticFree
    <2> SUFFICES ASSUME IInv, Judged, pc = "done"
                 PROVE  /\ WellFormed(tokens) => errors = <<>>
                        /\ errors = <<>> <=> WellFormed(AsRead)
      BY DEF DiagnosticFree
    <2>1. Rest(AsRead)
      BY DEF Rest
    <2>2. errors = <<>> <=> WellFormed(AsRead)
      BY <2>1, AsReadIsAReading DEF Judged
    <2>3. WellFormed(tokens) => WellFormed(AsRead)
      BY AsReadIsAReading, SoftenedIsNoWorse
    <2>4. QED
      BY <2>2, <2>3
  <1>4. Spec => []IInv
    BY Invariance
  <1> HIDE DEF JInv
  <1>5. QED
    BY <1>1, <1>2, <1>3, <1>4, PTL DEF Spec
=============================================================================

----------------------------- MODULE LexerProofs -----------------------------
(***************************************************************************)
(* The lexer for every source text under every options value of the shape  *)
(* of the presets: its tokens tile the text, no character is lost or read  *)
(* twice, and each token ends where its kind of lexeme does.               *)
(***************************************************************************)
EXTENDS LexerProperties, SequenceTheorems, FiniteSetTheorems, WellFoundedInduction, TLAPS

Token == [kind : TokenKinds, first : 1..Len(source), last : 1..Len(source)]

Typed ==
  /\ [source |-> source, opts |-> opts] \in Cases
  /\ pos \in 1..Len(source) + 1 /\ start \in 1..pos /\ n \in 0..Len(source)
  /\ mode \in Modes /\ kind \in TokenKinds
  /\ tokens \in Seq(Token)

\* Where a token may still be empty: at its very beginning, or in front of the
\* first turn of a loop that is bound to take a character.
Reading ==
  /\ mode = "next" => pos = start
  /\ mode = "hash" => pos = start /\ peek = "#"
  /\ mode = "space" => start < pos \/ is_whitespace(peek)
  /\ mode = "line" => start < pos \/ (peek # EOF /\ ~is_line_break(peek))
  /\ mode \notin {"next", "hash", "space", "line"} => start < pos
  /\ mode = "block" => opts.block_comment.open # <<>> /\ 1 <= n /\ n <= pos - start
  /\ mode = "delim" => start + 2 <= pos

\* Each token begins behind the one before it, the one being read behind the last.
Tiled ==
  /\ \A k \in 1..Len(tokens) :
       /\ tokens[k].first = IF k = 1 THEN 1 ELSE tokens[k - 1].last + 1
       /\ tokens[k].first <= tokens[k].last
  /\ start = IF Len(tokens) = 0 THEN 1 ELSE tokens[Len(tokens)].last + 1

IInv == Typed /\ Reading /\ Tiled

-----------------------------------------------------------------------------
(* Operators.                                                              *)

\* A set of natural numbers has a least element, and Least picks it.
LEMMA LeastIs ==
  ASSUME NEW S, S \subseteq Nat, S # {}
  PROVE  Least(S) \in S /\ \A j \in S : Least(S) <= j
  <1> DEFINE R == OpToRel(<, Nat)
  <1>1. IsWellFoundedOn(R, Nat)
    BY NatLessThanWellFounded
  <1>2. \A x, y \in Nat : y < x => <<y, x>> \in R
    BY DEF OpToRel
  <1> HIDE DEF R
  <1>3. PICK x \in S : \A y \in S : ~(<<y, x>> \in R)
    BY <1>1, WFMin
  <1>4. \A y \in S : x <= y
    <2>1. \A y \in S : y \in Nat /\ x \in Nat /\ ~(y < x)
      BY <1>2, <1>3
    <2>2. QED
      BY <2>1
  <1>5. QED
    BY <1>3, <1>4 DEF Least

\* What the types say of the text and of the options.
LEMMA SourceTyped ==
  ASSUME Typed
  PROVE  /\ source \in Seq(Glyphs) /\ Len(source) \in Nat
         /\ \A i \in 1..Len(source) : source[i] \in Glyphs
         /\ opts \in OptionsType
         /\ opts.block_comment.open # <<>> => opts.block_comment.close # <<>>
         /\ pos \in Nat /\ start \in Nat /\ n \in Nat /\ pos <= Len(source) + 1
         /\ 1 <= start /\ start <= pos /\ n <= Len(source)
  <1> DEFINE c == [source |-> source, opts |-> opts]
  <1>1. c \in Cases
    BY DEF Typed
  <1>2. c.source = source /\ c.opts = opts
    OBVIOUS
  <1> HIDE DEF c
  <1>3. /\ c \in [source : Seq(Glyphs), opts : OptionsType]
        /\ c.opts.block_comment.open # <<>> => c.opts.block_comment.close # <<>>
    BY <1>1, LexerAssumption
  <1>4. c.source \in Seq(Glyphs) /\ c.opts \in OptionsType
    BY <1>3
  <1>5. /\ source \in Seq(Glyphs) /\ Len(source) \in Nat
        /\ \A i \in 1..Len(source) : source[i] \in Glyphs
    BY <1>2, <1>4
  <1>6. QED
    BY <1>2, <1>3, <1>4, <1>5 DEF Typed

\* A character is read inside the text and nowhere else.
LEMMA AtInside ==
  ASSUME Typed, NEW i \in Int
  PROVE  /\ at(i) \in Glyphs \union {EOF}
         /\ at(i) # EOF <=> i \in 1..Len(source)
  <1>1. EOF \notin Glyphs
    BY DEF EOF, Glyphs, Alnum, Letters
  <1>2. QED
    BY <1>1, SourceTyped DEF at

\* A word stands here only if all of it lies in the text.
LEMMA WordInside ==
  ASSUME Typed, NEW word \in Seq(Glyphs), rest_starts_with(word)
  PROVE  Len(word) \in Nat /\ pos + Len(word) <= Len(source) + 1
  <1>1. Len(word) \in Nat /\ \A k \in 1..Len(word) : word[k] \in Glyphs
    BY LenProperties, ElementOfSeq
  <1>2. EOF \notin Glyphs
    BY DEF EOF, Glyphs, Alnum, Letters
  <1>3. CASE Len(word) = 0
    BY <1>1, <1>3, SourceTyped
  <1>4. CASE Len(word) # 0
    <2>1. Len(word) \in 1..Len(word)
      BY <1>1, <1>4
    <2>2. at(pos + Len(word) - 1) # EOF
      BY <1>1, <1>2, <2>1 DEF rest_starts_with
    <2>3. pos + Len(word) - 1 \in Int
      BY <1>1, SourceTyped
    <2>4. pos + Len(word) - 1 \in 1..Len(source)
      BY <2>2, <2>3, AtInside
    <2>5. QED
      BY <1>1, <2>4, SourceTyped
  <1>5. QED
    BY <1>3, <1>4

LEMMA PastInside ==
  ASSUME Typed, NEW k \in Nat
  PROVE  /\ Past(pos + k) \in pos..Len(source) + 1
         /\ k > 0 /\ peek # EOF => pos < Past(pos + k)
  <1>1. peek # EOF => pos <= Len(source)
    BY AtInside, SourceTyped DEF peek
  <1>2. QED
    BY <1>1, SourceTyped DEF Past

\* The run of backticks ends inside the text, and is not empty at a backtick.
LEMMA BackticksCounted ==
  ASSUME Typed
  PROVE  /\ Backticks \in 0..Len(source)
         /\ peek = "bt" => Backticks > 0
  <1> DEFINE S == {k \in 0..Len(source) : at(pos + k) # "bt"}
  <1>1. EOF # "bt"
    BY DEF EOF
  <1>2. pos + Len(source) \notin 1..Len(source) /\ pos + Len(source) \in Int
        /\ Len(source) \in 0..Len(source)
    BY SourceTyped
  <1>3. Len(source) \in S
    BY <1>1, <1>2, AtInside
  <1>4. S \subseteq Nat
    BY SourceTyped
  <1>5. Backticks \in S
    BY <1>3, <1>4, LeastIs DEF Backticks
  <1>6. pos + 0 = pos
    BY SourceTyped
  <1>7. QED
    BY <1>5, <1>6 DEF peek

-----------------------------------------------------------------------------
(* How a token begins.                                                     *)

\* What a row of leads or hash_leads guarantees when it is taken.
Begins(l) ==
  /\ l.take \in Nat /\ l.mode \in Modes /\ l.kind \in TokenKinds
  /\ l.mode = "hash" => l.take = 0 /\ peek = "#"
  /\ l.mode = "space" => is_whitespace(peek)
  /\ l.mode = "line" => peek # EOF /\ ~is_line_break(peek)
  /\ l.mode = "block" => opts.block_comment.open # <<>>
  /\ l.mode = "backticks" => l.take <= Len(source)
  /\ l.mode = "delim" => at(pos + 1) # EOF /\ l.take = 2
  /\ l.mode \notin {"hash", "space", "line"} => l.take > 0

\* The row taken is the first whose condition holds.
LEMMA FirstTried ==
  ASSUME NEW rows, NEW k \in Nat, DOMAIN rows = 1..k, k \in 1..k, rows[k].when
  PROVE  \E i \in 1..k : /\ First(rows) = rows[i] /\ rows[i].when
                         /\ \A j \in 1..k : rows[j].when => i <= j
  <1> DEFINE S == {i \in DOMAIN rows : rows[i].when}
  <1>1. S \subseteq Nat /\ k \in S
    OBVIOUS
  <1>2. Least(S) \in S /\ \A j \in S : Least(S) <= j
    BY <1>1, LeastIs
  <1>3. QED
    BY <1>2 DEF First

LEMMA LeadBegins ==
  ASSUME Typed, peek # EOF
  PROVE  Begins(First(leads))
  <1>1. DOMAIN leads = 1..18 /\ leads[18].when
    BY DEF leads, Enter, Emit
  <1>a. 18 \in Nat /\ 18 \in 1..18
    OBVIOUS
  <1>2. PICK i \in 1..18 : /\ First(leads) = leads[i] /\ leads[i].when
                           /\ \A j \in 1..18 : leads[j].when => i <= j
    BY <1>1, <1>a, FirstTried
  <1>3. \/ i \in {5, 6, 9, 15, 16, 17} \/ i = 1 \/ i = 2 \/ i = 3 \/ i = 4 \/ i = 7
        \/ i = 8 \/ i = 10 \/ i = 11 \/ i = 12 \/ i = 13 \/ i = 14 \/ i = 18
    OBVIOUS
  <1>4. CASE i \in {5, 6, 9, 15, 16, 17}
    <2> DEFINE Whole(r) == /\ r.take \in {1, 2} /\ r.mode = "next"
                           /\ r.kind \in {"Open", "Close", "Prefix"}
    <2>a. Whole(leads[5])
      BY DEF leads, Enter, Emit
    <2>b. Whole(leads[6])
      BY DEF leads, Enter, Emit
    <2>c. Whole(leads[9])
      BY DEF leads, Enter, Emit
    <2>d. Whole(leads[15])
      BY DEF leads, Enter, Emit
    <2>e. Whole(leads[16])
      BY DEF leads, Enter, Emit
    <2>f. Whole(leads[17])
      BY DEF leads, Enter, Emit
    <2>1. Whole(leads[i])
      BY <1>4, <2>a, <2>b, <2>c, <2>d, <2>e, <2>f
    <2>2. QED
      BY <1>2, <2>1 DEF Begins, Modes, TokenKinds
  <1>5. CASE i = 1
    BY <1>2, <1>5 DEF leads, Enter, Begins, Modes, TokenKinds
  <1>6. CASE i = 2
    <2>1. /\ opts.block_comment.open # <<>> /\ leads[i].kind = "BlockComment"
          /\ leads[i].take = Len(opts.block_comment.open) /\ leads[i].mode = "block"
      <3>1. leads[2].when => opts.block_comment.open # <<>>
        BY DEF leads, Enter
      <3>2. /\ leads[2].take = Len(opts.block_comment.open) /\ leads[2].mode = "block"
            /\ leads[2].kind = "BlockComment"
        BY DEF leads, Enter
      <3>3. QED
        BY <1>2, <1>6, <3>1, <3>2
    <2>2. opts.block_comment.open \in Seq(Glyphs)
      BY SourceTyped DEF OptionsType
    <2>3. Len(opts.block_comment.open) \in Nat \ {0}
      BY <2>1, <2>2, EmptySeq, LenProperties
    <2>4. QED
      BY <1>2, <2>1, <2>3 DEF Begins, Modes, TokenKinds
  <1>7. CASE i = 3
    <2>1. leads[i].take = 0 /\ leads[i].mode = "line" /\ leads[i].kind = "LineComment"
      BY <1>7 DEF leads, Enter
    <2>2. ~leads[1].when
      BY <1>2, <1>7
    <2>3. ~is_whitespace(peek)
      BY <2>2 DEF leads, Enter
    <2>4. ~is_line_break(peek)
      BY <2>3 DEF is_line_break, is_whitespace, Blanks
    <2>5. QED
      BY <1>2, <2>1, <2>4 DEF Begins, Modes, TokenKinds
  <1>8. CASE i = 4
    <2>1. /\ leads[i].take = Backticks /\ leads[i].mode = "backticks" /\ leads[i].kind = "Str"
          /\ peek = "bt"
      <3>1. leads[4].when => peek = "bt"
        BY DEF leads, Enter
      <3>2. leads[4].take = Backticks /\ leads[4].mode = "backticks" /\ leads[4].kind = "Str"
        BY DEF leads, Enter
      <3>3. QED
        BY <1>2, <1>8, <3>1, <3>2
    <2>2. Backticks \in Nat /\ Backticks <= Len(source) /\ Backticks > 0
      BY <2>1, BackticksCounted, SourceTyped
    <2>3. QED
      BY <1>2, <2>1, <2>2 DEF Begins, Modes, TokenKinds
  <1>9. CASE i = 7
    BY <1>2, <1>9 DEF leads, Enter, Begins, Modes, TokenKinds
  <1>10. CASE i = 8
    BY <1>2, <1>10 DEF leads, Enter, Begins, Modes, TokenKinds
  <1>11. CASE i = 10
    BY <1>2, <1>11 DEF leads, Enter, Begins, Modes, TokenKinds
  <1>12. CASE i = 11
    BY <1>2, <1>12 DEF leads, Enter, Begins, Modes, TokenKinds
  <1>13. CASE i = 12
    BY <1>2, <1>13 DEF leads, Enter, Begins, Modes, TokenKinds
  <1>14. CASE i = 13
    BY <1>2, <1>14 DEF leads, Enter, Begins, Modes, TokenKinds
  <1>15. CASE i = 14
    BY <1>2, <1>15 DEF leads, Enter, Begins, Modes, TokenKinds
  <1>16. CASE i = 18
    BY <1>2, <1>16 DEF leads, Enter, Begins, Modes, TokenKinds
  <1>17. QED
    BY <1>3, <1>4, <1>5, <1>6, <1>7, <1>8, <1>9, <1>10, <1>11, <1>12, <1>13, <1>14, <1>15,
       <1>16

LEMMA HashBegins ==
  ASSUME Typed, peek = "#"
  PROVE  Begins(First(hash_leads))
  <1>1. DOMAIN hash_leads = 1..24 /\ hash_leads[24].when
    BY DEF hash_leads, Enter, Emit
  <1>a. 24 \in Nat /\ 24 \in 1..24
    OBVIOUS
  <1>2. PICK i \in 1..24 : First(hash_leads) = hash_leads[i] /\ hash_leads[i].when
    BY <1>1, <1>a, FirstTried
  <1>3. \/ i \in {3, 4, 5, 8, 12, 13, 14, 15, 18, 19} \/ i \in {1, 2}
        \/ i \in {6, 7, 9, 11, 16, 17} \/ i = 10 \/ i \in {20, 21, 22, 23, 24}
    OBVIOUS
  <1>4. CASE i \in {3, 4, 5, 8, 12, 13, 14, 15, 18, 19}
    <2> DEFINE Whole(r) == /\ r.take \in {1, 2, 3} /\ r.mode = "next"
                           /\ r.kind \in {"Prefix", "Open", "HashOpen", "Bool"}
    <2>a. /\ Whole(hash_leads[3]) /\ Whole(hash_leads[4]) /\ Whole(hash_leads[5])
          /\ Whole(hash_leads[8]) /\ Whole(hash_leads[12]) /\ Whole(hash_leads[13])
          /\ Whole(hash_leads[14]) /\ Whole(hash_leads[15]) /\ Whole(hash_leads[18])
          /\ Whole(hash_leads[19])
      BY DEF hash_leads, Enter, Emit
    <2>1. Whole(hash_leads[i])
      BY <1>4, <2>a
    <2>2. QED
      BY <1>2, <2>1 DEF Begins, Modes, TokenKinds
  <1>5. CASE i \in {1, 2}
    <2> DEFINE Line(r) == /\ r.take = 0 /\ r.mode = "line"
                          /\ r.kind \in {"LangLine", "LineComment"}
    <2>a. Line(hash_leads[1]) /\ Line(hash_leads[2])
      BY DEF hash_leads, Enter
    <2>1. Line(hash_leads[i])
      BY <1>5, <2>a
    <2>2. peek # EOF /\ ~is_line_break(peek)
      BY DEF EOF, is_line_break
    <2>3. QED
      BY <1>2, <2>1, <2>2 DEF Begins, Modes, TokenKinds
  <1>6. CASE i \in {6, 7, 9, 11, 16, 17}
    <2> DEFINE Loop(r) == /\ r.take \in {1, 2} /\ r.kind \in {"Str", "Atom", "Char"}
                          /\ r.mode \in {"until", "curly", "charset", "plain", "char"}
    <2>a. /\ Loop(hash_leads[6]) /\ Loop(hash_leads[7]) /\ Loop(hash_leads[9])
          /\ Loop(hash_leads[11]) /\ Loop(hash_leads[16]) /\ Loop(hash_leads[17])
      BY DEF hash_leads, Enter
    <2>1. Loop(hash_leads[i])
      BY <1>6, <2>a
    <2>2. QED
      BY <1>2, <2>1 DEF Begins, Modes, TokenKinds
  <1>7. CASE i = 10
    <2>1. /\ hash_leads[i].take = 2 /\ hash_leads[i].mode = "delim"
          /\ hash_leads[i].kind = "Str" /\ at(pos + 1) = "["
      <3>1. hash_leads[10].when => at(pos + 1) = "["
        BY DEF hash_leads, Enter
      <3>2. hash_leads[10].take = 2 /\ hash_leads[10].mode = "delim" /\ hash_leads[10].kind = "Str"
        BY DEF hash_leads, Enter
      <3>3. QED
        BY <1>2, <1>7, <3>1, <3>2
    <2>2. QED
      BY <1>2, <2>1 DEF Begins, Modes, TokenKinds, EOF
  <1>8. CASE i \in {20, 21, 22, 23, 24}
    <2> DEFINE Rest(r) == /\ r.take \in {1, 2} /\ r.kind \in {"Atom", "Label", "HashTag"}
                          /\ r.mode \in {"plain", "digits", "tag"}
    <2>a. /\ Rest(hash_leads[20]) /\ Rest(hash_leads[21]) /\ Rest(hash_leads[22])
          /\ Rest(hash_leads[23]) /\ Rest(hash_leads[24])
      BY DEF hash_leads, Enter
    <2>1. Rest(hash_leads[i])
      BY <1>8, <2>a
    <2>2. QED
      BY <1>2, <2>1 DEF Begins, Modes, TokenKinds
  <1>9. QED
    BY <1>3, <1>4, <1>5, <1>6, <1>7, <1>8

-----------------------------------------------------------------------------
(* Steps.  Whatever the loop, a turn consumes characters or completes a    *)
(* token that is not empty.                                                *)

\* In the same loop further on nothing changes but the position.
LEMMA BumpKeeps ==
  ASSUME IInv, NEW k \in Nat, bump(k), k > 0 \/ mode \notin {"space", "line"},
         mode \notin {"next", "hash"}
  PROVE  IInv'
  <1>1. /\ pos' \in pos..Len(source) + 1 /\ source' = source /\ opts' = opts /\ start' = start
        /\ mode' = mode /\ kind' = kind /\ n' = n /\ tokens' = tokens
    BY PastInside DEF IInv, bump, input
  <1>2. Typed'
    BY <1>1, SourceTyped DEF IInv, Typed, Token
  <1>3. Tiled'
    BY <1>1 DEF IInv, Tiled
  <1>4. pos \in Nat /\ start \in Nat /\ n \in Nat /\ pos' \in Nat /\ pos <= pos' /\ start <= pos
    BY <1>1, SourceTyped DEF IInv
  <1>5. CASE start < pos
    <2> DEFINE p == pos'
    <2> HIDE DEF p
    <2>a. p \in Nat /\ pos <= p /\ pos' = p
      BY <1>4 DEF p
    <2>1. start < pos' /\ (n <= pos - start => n <= pos' - start)
          /\ (start + 2 <= pos => start + 2 <= pos')
      <3>1. start < p /\ (start + 2 <= pos => start + 2 <= p)
        BY <1>4, <1>5, <2>a
      <3>2. n <= pos - start => n <= p - start
        BY <1>4, <2>a
      <3>3. QED
        BY <2>a, <3>1, <3>2
    <2>2. Reading'
      BY <1>1, <1>5, <2>1 DEF IInv, Reading
    <2>3. QED
      BY <1>2, <1>3, <2>2 DEF IInv
  <1>6. CASE start = pos
    <2>1. mode \in {"space", "line"} /\ peek # EOF /\ k > 0
      <3>1. is_whitespace(peek) => peek # EOF
        BY DEF is_whitespace, Blanks, EOF
      <3>2. ~(start < pos)
        BY <1>4, <1>6
      <3>3. QED
        BY <3>1, <3>2 DEF IInv, Reading
    <2>2. pos < pos'
      BY <2>1, PastInside DEF IInv, bump
    <2>3. Reading'
      BY <1>1, <1>6, <2>1, <2>2 DEF Reading
    <2>4. QED
      BY <1>2, <1>3, <2>3 DEF IInv
  <1>7. QED
    BY <1>4, <1>5, <1>6

\* A token that is not empty continues the tiling.
LEMMA CompleteKeeps ==
  ASSUME IInv, NEW k \in TokenKinds, NEW next \in Int, complete(k, next),
         start < next, next <= Len(source) + 1
  PROVE  IInv'
  <1> DEFINE t == [kind |-> k, first |-> start, last |-> next - 1]
  <1>1. /\ tokens' = Append(tokens, t) /\ pos' = next /\ start' = next /\ mode' = "next"
        /\ n' = 0 /\ source' = source /\ opts' = opts /\ kind' = kind
    BY DEF complete, input
  <1>2. start \in Nat /\ 1 <= start /\ Len(source) \in Nat /\ tokens \in Seq(Token)
        /\ kind \in TokenKinds /\ [source |-> source, opts |-> opts] \in Cases
    BY SourceTyped DEF IInv, Typed
  <1>3. start \in 1..Len(source) /\ next - 1 \in 1..Len(source)
    BY <1>2
  <1>4. t \in Token /\ t.first = start /\ t.last = next - 1
    BY <1>3 DEF Token
  <1> HIDE DEF t
  <1>5. /\ tokens' \in Seq(Token) /\ Len(tokens) \in Nat /\ Len(tokens') = Len(tokens) + 1
        /\ \A j \in 1..Len(tokens) : tokens'[j] = tokens[j]
        /\ tokens'[Len(tokens) + 1] = t
    BY <1>1, <1>2, <1>4, AppendProperties, LenProperties
  <1>6. Typed'
    <2>1. Token' = Token
      BY <1>1 DEF Token
    <2>2. next \in 1..Len(source) + 1 /\ next \in 1..next /\ 0 \in 0..Len(source)
      BY <1>2
    <2>3. QED
      BY <1>1, <1>2, <1>5, <2>1, <2>2 DEF Typed, Modes
  <1>7. Reading'
    BY <1>1 DEF Reading
  <1>8. Tiled'
    <2>1. ASSUME NEW j \in 1..Len(tokens')
          PROVE  /\ tokens'[j].first = IF j = 1 THEN 1 ELSE tokens'[j - 1].last + 1
                 /\ tokens'[j].first <= tokens'[j].last
      <3>1. CASE j \in 1..Len(tokens)
        <4>1. tokens'[j] = tokens[j] /\ (j # 1 => tokens'[j - 1] = tokens[j - 1])
          BY <1>5, <3>1
        <4>2. QED
          BY <3>1, <4>1 DEF IInv, Tiled
      <3>2. CASE j = Len(tokens) + 1
        <4>1. tokens'[j].first = start /\ tokens'[j].last = next - 1
          BY <1>4, <1>5, <3>2
        <4>2. j # 1 => j - 1 = Len(tokens) /\ Len(tokens) # 0 /\ tokens'[j - 1] = tokens[j - 1]
          BY <1>5, <3>2
        <4>3. j = 1 => Len(tokens) = 0
          BY <1>5, <3>2
        <4>4. QED
          BY <1>2, <4>1, <4>2, <4>3 DEF IInv, Tiled
      <3>3. QED
        BY <1>5, <2>1, <3>1, <3>2
    <2>2. start' = IF Len(tokens') = 0 THEN 1 ELSE tokens'[Len(tokens')].last + 1
      BY <1>1, <1>4, <1>5
    <2>3. QED
      BY <2>1, <2>2 DEF Tiled
  <1>9. QED
    BY <1>6, <1>7, <1>8 DEF IInv

LEMMA TokenKeeps ==
  ASSUME IInv, start < pos, NEW k \in Nat, token(k)
  PROVE  IInv'
  <1>1. Past(pos + k) \in pos..Len(source) + 1 /\ pos \in Nat /\ start \in Nat
        /\ Len(source) \in Nat /\ kind \in TokenKinds
    BY PastInside, SourceTyped DEF IInv, Typed
  <1>2. /\ Past(pos + k) \in Int /\ start < Past(pos + k)
        /\ Past(pos + k) <= Len(source) + 1
    BY <1>1
  <1>3. QED
    BY <1>1, <1>2, CompleteKeeps DEF token

LEMMA UnterminatedKeeps ==
  ASSUME IInv, start < pos, Unterminated
  PROVE  IInv'
  <1>1. pos \in Int /\ pos <= Len(source) + 1 /\ "Unterminated" \in TokenKinds
    BY SourceTyped DEF IInv, TokenKinds
  <1>2. QED
    BY <1>1, CompleteKeeps DEF Unterminated

\* The token goes on in another loop.
LEMMA LoopKeeps ==
  ASSUME IInv, pos' \in pos..Len(source) + 1, start < pos',
         mode' \in Modes \ {"next", "hash", "space", "line", "block", "delim"},
         kind' \in TokenKinds, n' \in 0..Len(source), UNCHANGED <<input, start, tokens>>
  PROVE  IInv'
  <1>1. source' = source /\ opts' = opts /\ start' = start /\ tokens' = tokens
    BY DEF input
  <1>2. /\ pos \in Nat /\ start \in Nat /\ Len(source) \in Nat /\ 1 <= start
        /\ [source |-> source, opts |-> opts] \in Cases /\ tokens \in Seq(Token)
    BY SourceTyped DEF IInv, Typed
  <1>3. pos' \in 1..Len(source) + 1 /\ start \in 1..pos'
    BY <1>2
  <1>4. Typed'
    <2>1. Token' = Token
      BY <1>1 DEF Token
    <2>2. QED
      BY <1>1, <1>2, <1>3, <2>1 DEF Typed
  <1>5. Reading'
    BY <1>1 DEF Reading
  <1>6. Tiled'
    BY <1>1 DEF IInv, Tiled
  <1>7. QED
    BY <1>4, <1>5, <1>6 DEF IInv

\* A row of leads or hash_leads is taken.
LEMMA BeginKeeps ==
  ASSUME IInv, NEW l, Begins(l), Begin(l), pos = start, peek # EOF
  PROVE  IInv'
  <1> DEFINE p == Past(pos + l.take)
  <1>1. /\ l.take \in Nat /\ l.mode \in Modes /\ l.kind \in TokenKinds
        /\ pos \in Nat /\ start \in Nat /\ Len(source) \in Nat /\ 1 <= start
    BY SourceTyped DEF Begins, IInv
  <1>2. p \in pos..Len(source) + 1 /\ (l.take > 0 => pos < p)
    BY <1>1, PastInside DEF IInv
  <1>3. l.take = 0 => p = pos
    BY <1>1, SourceTyped DEF IInv, Past
  <1>4. l.mode = "delim" => p = pos + 2
    <2> SUFFICES ASSUME l.mode = "delim" PROVE p = pos + 2
      OBVIOUS
    <2>1. l.take = 2 /\ at(pos + 1) # EOF
      BY DEF Begins
    <2>2. pos + 1 \in 1..Len(source)
      BY <1>1, <2>1, AtInside DEF IInv
    <2>3. QED
      BY <1>1, <2>1, <2>2 DEF Past
  <1> HIDE DEF p
  <1>5. CASE l.mode = "next"
    <2>1. complete(l.kind, p)
      BY <1>5 DEF Begin, p
    <2>2. l.take > 0
      BY <1>5 DEF Begins
    <2>3. p \in Int /\ start < p /\ p <= Len(source) + 1
      BY <1>1, <1>2, <2>2
    <2>4. QED
      BY <1>1, <2>1, <2>3, CompleteKeeps
  <1>6. CASE l.mode # "next"
    <2>1. /\ pos' = p /\ mode' = l.mode /\ kind' = l.kind
          /\ n' = (CASE l.mode = "block" -> 1 [] l.mode = "backticks" -> l.take [] OTHER -> 0)
          /\ source' = source /\ opts' = opts /\ start' = start /\ tokens' = tokens
      BY <1>6 DEF Begin, p, input
    <2>2. l.mode = "hash" => p = pos /\ peek = "#"
      BY <1>3 DEF Begins
    <2>3. l.mode \notin {"hash", "space", "line"} => start < p
      BY <1>2 DEF Begins
    <2>4. start < p \/ p = pos
      BY <1>1, <1>2
    <2>5. /\ l.mode = "space" => is_whitespace(peek)
          /\ l.mode = "line" => peek # EOF /\ ~is_line_break(peek)
      BY DEF Begins
    <2>6. l.mode = "block" => 1 <= p - start /\ 1 <= Len(source)
      BY <1>1, <1>2, <2>3
    <2>7. l.mode = "backticks" => l.take \in 0..Len(source)
      BY <1>1 DEF Begins
    <2>8. n' \in 0..Len(source) /\ (l.mode = "block" => n' = 1)
      <3>1. CASE l.mode = "block"
        BY <1>1, <2>1, <2>6, <3>1
      <3>2. CASE l.mode = "backticks"
        BY <2>1, <2>7, <3>2
      <3>3. CASE l.mode \notin {"block", "backticks"}
        BY <1>1, <2>1, <3>3
      <3>4. QED
        BY <3>1, <3>2, <3>3
    <2>9. Typed'
      <3>1. Token' = Token
        BY <2>1 DEF Token
      <3>2. p \in 1..Len(source) + 1 /\ start \in 1..p
        BY <1>1, <1>2
      <3>3. QED
        BY <1>1, <2>1, <2>8, <3>1, <3>2 DEF IInv, Typed
    <2>10. Reading'
      <3>1. p = pos => peek' = peek
        BY <2>1 DEF peek, at
      <3>2. (is_whitespace(peek) /\ p = pos => is_whitespace(peek)')
            /\ (~is_line_break(peek) /\ p = pos => ~is_line_break(peek)')
        BY <2>1, <3>1 DEF is_whitespace, is_line_break, On
      <3>3. mode' = "hash" => pos' = start' /\ peek' = "#"
        BY <2>1, <2>2, <3>1
      <3>4. mode' = "space" => start' < pos' \/ is_whitespace(peek)'
        BY <2>1, <2>4, <2>5, <3>2
      <3>5. mode' = "line" => start' < pos' \/ (peek' # EOF /\ ~is_line_break(peek)')
        BY <2>1, <2>4, <2>5, <3>1, <3>2
      <3>6. mode' = "block" => /\ opts'.block_comment.open # <<>>
                              /\ 1 <= n' /\ n' <= pos' - start'
        BY <2>1, <2>6, <2>8 DEF Begins
      <3>7. mode' = "delim" => start' + 2 <= pos'
        BY <1>1, <1>4, <2>1
      <3>8. mode' \notin {"next", "hash", "space", "line"} => start' < pos'
        BY <2>1, <2>3
      <3>9. QED
        BY <1>6, <2>1, <3>3, <3>4, <3>5, <3>6, <3>7, <3>8 DEF Reading, EOF
    <2>11. Tiled'
      BY <2>1 DEF IInv, Tiled
    <2>12. QED
      BY <2>9, <2>10, <2>11 DEF IInv
  <1>7. QED
    BY <1>5, <1>6

LEMMA BlockSteps ==
  ASSUME IInv, Deepen \/ InBlockComment
  PROVE  IInv'
  <1> DEFINE open == opts.block_comment.open
             close == opts.block_comment.close
  <1>1. /\ mode = "block" /\ open # <<>> /\ 1 <= n /\ n <= pos - start /\ start < pos
        /\ pos \in Nat /\ start \in Nat /\ n \in Nat /\ Len(source) \in Nat /\ 1 <= start
        /\ kind \in TokenKinds /\ mode \in Modes
    BY SourceTyped DEF IInv, Reading, Typed, Deepen, InBlockComment
  <1>2. open \in Seq(Glyphs) /\ close \in Seq(Glyphs) /\ close # <<>>
    BY <1>1, SourceTyped DEF IInv, OptionsType
  <1>3. Len(open) \in Nat \ {0} /\ Len(close) \in Nat \ {0}
    BY <1>1, <1>2, EmptySeq, LenProperties
  \* The text of the comment goes on at p, at depth d.
  <1>4. ASSUME NEW p \in pos..Len(source) + 1, NEW d \in Nat, 1 <= d, d <= p - start,
               pos' = p, n' = d, UNCHANGED <<input, start, mode, kind, tokens>>
        PROVE  IInv'
    <2>1. source' = source /\ opts' = opts /\ start' = start /\ mode' = mode /\ kind' = kind
          /\ tokens' = tokens
      BY <1>4 DEF input
    <2>2. p \in 1..Len(source) + 1 /\ start \in 1..p /\ start < p /\ d \in 0..Len(source)
      BY <1>1, <1>4
    <2>3. Typed'
      <3>1. Token' = Token
        BY <2>1 DEF Token
      <3>2. QED
        BY <1>4, <2>1, <2>2, <3>1 DEF IInv, Typed
    <2>4. Reading'
      BY <1>1, <1>4, <2>1, <2>2 DEF Reading
    <2>5. Tiled'
      BY <2>1 DEF IInv, Tiled
    <2>6. QED
      BY <2>3, <2>4, <2>5 DEF IInv
  <1>5. CASE Deepen
    <2>1. pos + Len(open) \in pos..Len(source) + 1 /\ n + 1 \in Nat /\ 1 <= n + 1
      BY <1>1, <1>2, <1>3, <1>5, WordInside DEF IInv, Deepen
    <2>2. n + 1 <= (pos + Len(open)) - start
      BY <1>1, <1>3
    <2>3. QED
      BY <1>4, <1>5, <2>1, <2>2 DEF Deepen
  <1>6. CASE InBlockComment
    <2>1. \/ Unterminated \/ token(Len(close)) \/ bump(1)
          \/ /\ rest_starts_with(close) /\ n > 1
             /\ pos' = pos + Len(close) /\ n' = n - 1
             /\ UNCHANGED <<input, start, mode, kind, tokens>>
      BY <1>6 DEF InBlockComment
    <2>2. CASE rest_starts_with(close) /\ n > 1 /\ pos' = pos + Len(close) /\ n' = n - 1
               /\ UNCHANGED <<input, start, mode, kind, tokens>>
      <3>1. pos + Len(close) \in pos..Len(source) + 1 /\ n - 1 \in Nat /\ 1 <= n - 1
        BY <1>1, <1>2, <1>3, <2>2, WordInside DEF IInv
      <3>2. n - 1 <= (pos + Len(close)) - start
        BY <1>1, <1>3
      <3>3. QED
        BY <1>4, <2>2, <3>1, <3>2
    <2>3. QED
      BY <1>1, <1>3, <2>1, <2>2, UnterminatedKeeps, TokenKeeps, BumpKeeps
  <1>7. QED
    BY <1>5, <1>6

LEMMA QuotedSteps ==
  ASSUME IInv, UntilUnescaped \/ Unescaped \/ NeverClosed \/ FinishQuoted
  PROVE  IInv'
  <1>1. /\ mode \in {"quoted", "until"} /\ start < pos /\ pos \in Nat /\ start \in Nat
        /\ Len(source) \in Nat
    BY SourceTyped DEF IInv, Reading, UntilUnescaped, Unescaped, NeverClosed, FinishQuoted
  <1>2. CASE UntilUnescaped
    <2>1. \E k \in {1, 2} : bump(k)
      BY <1>2 DEF UntilUnescaped
    <2>2. QED
      BY <1>1, <2>1, BumpKeeps
  <1>3. CASE Unescaped
    <2>1. \E k \in {1, 2} : token(k)
      BY <1>3 DEF Unescaped
    <2>2. QED
      BY <1>1, <2>1, TokenKeeps
  <1>4. CASE NeverClosed
    BY <1>1, <1>4, UnterminatedKeeps DEF NeverClosed
  <1>5. CASE FinishQuoted
    <2> DEFINE cuts == LineStartParens(content_start)
    <2>1. CASE cuts = {}
      BY <1>1, <1>5, <2>1, UnterminatedKeeps DEF FinishQuoted
    <2>2. CASE cuts # {}
      <3>1. content_start \in {start + 1, start + 2}
        BY DEF content_start
      <3>2. cuts \subseteq content_start..Len(source)
        BY DEF LineStartParens
      <3>3. cuts \subseteq Nat /\ \A i \in cuts : start < i /\ i <= Len(source)
        BY <1>1, <3>1, <3>2
      <3>4. complete("Unterminated", Least(cuts))
        BY <1>5, <2>2 DEF FinishQuoted
      <3> HIDE DEF cuts
      <3>5. Least(cuts) \in cuts
        BY <2>2, <3>3, LeastIs
      <3>6. /\ Least(cuts) \in Int /\ start < Least(cuts)
            /\ Least(cuts) <= Len(source) + 1 /\ "Unterminated" \in TokenKinds
        <4> DEFINE c == Least(cuts)
        <4>1. c \in Nat /\ start < c /\ c <= Len(source)
          BY <3>3, <3>5
        <4> HIDE DEF c
        <4>2. c <= Len(source) + 1 /\ c \in Int
          BY <1>1, <4>1
        <4>3. QED
          BY <4>1, <4>2 DEF TokenKinds, c
      <3>7. QED
        BY <3>4, <3>6, CompleteKeeps
    <2>3. QED
      BY <2>1, <2>2
  <1>6. QED
    BY <1>2, <1>3, <1>4, <1>5

LEMMA RunSteps ==
  ASSUME IInv, WhitespaceRun \/ ConsumeLineRest
  PROVE  IInv'
  <1>1. CASE WhitespaceRun
    <2>1. CASE is_whitespace(peek)
      BY <1>1, <2>1, BumpKeeps DEF WhitespaceRun
    <2>2. CASE ~is_whitespace(peek)
      <3>1. start < pos
        BY <1>1, <2>2 DEF WhitespaceRun, IInv, Reading
      <3>2. QED
        BY <1>1, <2>2, <3>1, TokenKeeps DEF WhitespaceRun
    <2>3. QED
      BY <2>1, <2>2
  <1>2. CASE ConsumeLineRest
    <2>1. CASE peek # EOF /\ ~is_line_break(peek)
      BY <1>2, <2>1, BumpKeeps DEF ConsumeLineRest
    <2>2. CASE ~(peek # EOF /\ ~is_line_break(peek))
      <3>1. start < pos
        BY <1>2, <2>2 DEF ConsumeLineRest, IInv, Reading
      <3>2. QED
        BY <1>2, <2>2, <3>1, TokenKeeps DEF ConsumeLineRest
    <2>3. QED
      BY <2>1, <2>2
  <1>3. QED
    BY <1>1, <1>2

LEMMA StringSteps ==
  ASSUME IInv, BacktickString \/ BracketDelim \/ BracketString \/ CharSet \/ HashCurlySymbol
  PROVE  IInv'
  <1>1. /\ mode \in {"backticks", "delim", "bracket", "charset", "curly"} /\ start < pos
        /\ mode = "delim" => start + 2 <= pos
        /\ pos \in Nat /\ start \in Nat /\ n \in Nat /\ Len(source) \in Nat /\ 1 <= start
        /\ kind \in TokenKinds /\ pos <= Len(source) + 1
    BY SourceTyped DEF IInv, Reading, Typed, BacktickString, BracketDelim, BracketString, CharSet,
                       HashCurlySymbol
  <1>2. Backticks \in Nat
    BY BackticksCounted, SourceTyped DEF IInv
  <1>3. posix_class_len # {} => Least(posix_class_len) \in Nat
    <2>1. posix_class_len \subseteq Nat
      BY <1>1 DEF posix_class_len
    <2>2. QED
      BY <2>1, LeastIs
  <1>4. CASE BracketDelim /\ peek = "["
    <2>1. pos <= Len(source)
      BY <1>1, <1>4, AtInside DEF IInv, peek, EOF
    <2>2. /\ n' = pos - (start + 2) /\ mode' = "bracket" /\ pos' = pos + 1
          /\ UNCHANGED <<input, start, kind, tokens>> /\ mode = "delim"
      BY <1>4 DEF BracketDelim, EOF
    <2>3. pos + 1 \in pos..Len(source) + 1 /\ start < pos + 1 /\ pos - (start + 2) \in 0..Len(source)
      BY <1>1, <2>1, <2>2
    <2>4. QED
      BY <1>1, <2>2, <2>3, LoopKeeps DEF Modes
  <1>5. ASSUME ~(BracketDelim /\ peek = "[")
        PROVE  Unterminated \/ (\E k \in Nat : token(k)) \/ (\E k \in Nat : bump(k))
    <2>1. CASE BacktickString
      BY <1>2, <2>1 DEF BacktickString
    <2>2. CASE BracketDelim
      BY <1>5, <2>2 DEF BracketDelim
    <2>3. CASE BracketString
      <3>1. n + 2 \in Nat
        BY <1>1
      <3>2. QED
        BY <2>3, <3>1 DEF BracketString
    <2>4. CASE CharSet
      BY <1>3, <2>4 DEF CharSet
    <2>5. CASE HashCurlySymbol
      BY <2>5 DEF HashCurlySymbol
    <2>6. QED
      BY <2>1, <2>2, <2>3, <2>4, <2>5
  <1>6. QED
    BY <1>1, <1>4, <1>5, UnterminatedKeeps, TokenKeeps, BumpKeeps

LEMMA NameSteps ==
  ASSUME IInv, LexAtom \/ ConsumeAtomBody \/ LexChar \/ Name \/ QuestionChar \/ LexLabel
  PROVE  IInv'
  <1>1. /\ mode \in {"atom", "plain", "tag", "char", "alnum", "question", "digits"}
        /\ start < pos /\ pos \in Nat /\ start \in Nat /\ Len(source) \in Nat
        /\ kind \in TokenKinds /\ n \in 0..Len(source) /\ pos <= Len(source) + 1
    BY SourceTyped DEF IInv, Reading, Typed, LexAtom, ConsumeAtomBody, LexChar, Name, QuestionChar,
                       LexLabel
  <1>2. peek # EOF => pos + 1 \in pos..Len(source) + 1
    BY <1>1, AtInside DEF IInv, peek
  <1>3. at(pos + 1) # EOF => pos + 2 \in pos..Len(source) + 1
    <2>1. at(pos + 1) # EOF => pos + 1 \in 1..Len(source)
      BY <1>1, AtInside DEF IInv
    <2>2. QED
      BY <1>1, <2>1
  <1>4. EOF \notin Letters /\ EOF \notin Alnum /\ EOF \notin Opening /\ EOF # "#"
    BY DEF EOF, Alnum, Letters, Opening
  \* The token goes on in the loop m at position p.
  <1>5. ASSUME NEW p \in pos..Len(source) + 1, pos' = p, mode' \in {"alnum", "tag"},
               kind' \in TokenKinds, UNCHANGED <<input, start, n, tokens>>
        PROVE  IInv'
    <2>1. start < pos' /\ n' \in 0..Len(source)
      BY <1>1, <1>5
    <2>2. mode' \in Modes \ {"next", "hash", "space", "line", "block", "delim"}
      BY <1>5 DEF Modes
    <2>3. QED
      BY <1>5, <2>1, <2>2, LoopKeeps
  \* The token is completed at the character after this one.
  <1>6. ASSUME NEW k \in TokenKinds, complete(k, pos + 1), peek # EOF
        PROVE  IInv'
    <2>1. pos + 1 \in Int /\ start < pos + 1 /\ pos + 1 <= Len(source) + 1
      BY <1>1, <1>2, <1>6
    <2>2. QED
      BY <1>6, <2>1, CompleteKeeps
  <1>7. ASSUME (\E k \in Nat : token(k)) \/ (\E k \in Nat : bump(k))
        PROVE  IInv'
    BY <1>1, <1>7, TokenKeeps, BumpKeeps
  <1>8. CASE LexAtom
    BY <1>7, <1>8 DEF LexAtom
  <1>9. CASE ConsumeAtomBody
    <2>1. \/ (\E k \in Nat : token(k)) \/ (\E k \in Nat : bump(k))
          \/ peek \in Opening /\ complete("HashOpen", pos + 1)
      BY <1>9 DEF ConsumeAtomBody
    <2>2. "HashOpen" \in TokenKinds
      BY DEF TokenKinds
    <2>3. QED
      BY <1>4, <1>6, <1>7, <2>1, <2>2
  <1>10. CASE LexChar
    <2>1. CASE peek \in Letters
      <3>1. pos' = pos + 1 /\ mode' = "alnum" /\ UNCHANGED <<input, start, kind, n, tokens>>
        BY <1>10, <2>1 DEF LexChar
      <3>2. QED
        BY <1>1, <1>2, <1>4, <1>5, <2>1, <3>1
    <2>2. CASE peek \notin Letters
      BY <1>7, <1>10, <2>2 DEF LexChar
    <2>3. QED
      BY <2>1, <2>2
  <1>11. CASE Name
    BY <1>7, <1>11 DEF Name
  <1>12. CASE QuestionChar
    <2>1. \/ (\E k \in Nat : token(k)) \/ (\E k \in Nat : bump(k))
          \/ /\ at(pos + 1) \in Alnum /\ pos' = pos + 2 /\ mode' = "alnum"
             /\ UNCHANGED <<input, start, kind, n, tokens>>
      BY <1>12 DEF QuestionChar
    <2>2. CASE /\ at(pos + 1) \in Alnum /\ pos' = pos + 2 /\ mode' = "alnum"
               /\ UNCHANGED <<input, start, kind, n, tokens>>
      BY <1>1, <1>3, <1>4, <1>5, <2>2
    <2>3. QED
      BY <1>7, <2>1, <2>2
  <1>13. CASE LexLabel
    <2>1. \/ (\E k \in Nat : token(k)) \/ (\E k \in Nat : bump(k))
          \/ peek = "#" /\ complete("LabelRef", pos + 1)
          \/ mode' = "tag" /\ kind' = "Atom" /\ UNCHANGED <<input, pos, start, n, tokens>>
      BY <1>13 DEF LexLabel
    <2>2. "LabelRef" \in TokenKinds /\ "Atom" \in TokenKinds
      BY DEF TokenKinds
    <2>3. CASE mode' = "tag" /\ kind' = "Atom" /\ UNCHANGED <<input, pos, start, n, tokens>>
      <3>1. pos \in pos..Len(source) + 1
        BY <1>1
      <3>2. QED
        BY <1>5, <2>2, <2>3, <3>1
    <2>4. QED
      BY <1>4, <1>6, <1>7, <2>1, <2>2, <2>3
  <1>14. QED
    BY <1>8, <1>9, <1>10, <1>11, <1>12, <1>13

-----------------------------------------------------------------------------
LEMMA Inductive == Spec => []IInv
  <1>1. Init => IInv
    <2> SUFFICES ASSUME Init PROVE IInv
      OBVIOUS
    <2>1. PICK c \in Cases : source = c.source /\ opts = c.opts
      BY DEF Init
    <2>2. c \in [source : Seq(Glyphs), opts : OptionsType]
      BY LexerAssumption
    <2>3. c = [source |-> source, opts |-> opts] /\ Len(source) \in Nat
      BY <2>1, <2>2
    <2>4. /\ pos = 1 /\ start = 1 /\ mode = "next" /\ kind = "Atom" /\ n = 0
          /\ tokens = <<>> /\ Len(tokens) = 0 /\ tokens \in Seq(Token)
      BY DEF Init
    <2>5. Typed
      BY <2>3, <2>4 DEF Typed, Modes, TokenKinds
    <2>6. Reading /\ Tiled
      BY <2>4 DEF Reading, Tiled
    <2>7. QED
      BY <2>5, <2>6 DEF IInv
  <1>2. IInv /\ [Next]_vars => IInv'
    <2> SUFFICES ASSUME IInv, [Next]_vars PROVE IInv'
      OBVIOUS
    <2>1. CASE UNCHANGED vars
      <3>1. /\ source' = source /\ opts' = opts /\ pos' = pos /\ start' = start
            /\ mode' = mode /\ kind' = kind /\ n' = n /\ tokens' = tokens
        BY <2>1 DEF vars
      <3>2. Token' = Token /\ peek' = peek
        BY <3>1 DEF Token, peek, at
      <3>3. is_whitespace(peek)' = is_whitespace(peek) /\ is_line_break(peek)' = is_line_break(peek)
        BY <3>1, <3>2 DEF is_whitespace, is_line_break, On
      <3>4. Typed'
        BY <3>1, <3>2 DEF IInv, Typed
      <3>5. Reading'
        BY <3>1, <3>2, <3>3 DEF IInv, Reading
      <3>6. Tiled'
        BY <3>1 DEF IInv, Tiled
      <3>7. QED
        BY <3>4, <3>5, <3>6 DEF IInv
    <2>2. CASE NextToken
      <3>1. Begins(First(leads)) /\ Begin(First(leads)) /\ pos = start /\ peek # EOF
        BY <2>2, LeadBegins DEF NextToken, IInv, Reading
      <3>2. QED
        BY <3>1, BeginKeeps
    <2>3. CASE LexHash
      <3>1. pos = start /\ peek = "#" /\ peek # EOF
        BY <2>3 DEF LexHash, IInv, Reading, EOF
      <3>2. Begins(First(hash_leads)) /\ Begin(First(hash_leads))
        BY <2>3, <3>1, HashBegins DEF LexHash, IInv
      <3>3. QED
        BY <3>1, <3>2, BeginKeeps
    <2>4. QED
      BY <2>1, <2>2, <2>3, BlockSteps, QuotedSteps, RunSteps, StringSteps, NameSteps DEF Next
  <1>3. QED
    BY <1>1, <1>2, PTL DEF Spec

\* For every text and all options of the shape of the presets, the position
\* stays in the text with every look ahead and every escape at its end, and what
\* the lexer produces are tokens inside the text.
THEOREM LexerTyped == Spec => []TypeOK
  <1>1. IInv => TypeOK
    <2> SUFFICES ASSUME IInv PROVE TypeOK
      OBVIOUS
    <2>1. ASSUME NEW k \in DOMAIN tokens
          PROVE  /\ tokens[k].kind \in TokenKinds
                 /\ {tokens[k].first, tokens[k].last} \subseteq 1..Len(source)
      <3>1. tokens[k] \in Token
        BY <2>1 DEF IInv, Typed
      <3>2. QED
        BY <3>1 DEF Token
    <2>2. QED
      BY <2>1 DEF IInv, Typed, TypeOK
  <1>2. QED
    BY Inductive, <1>1, PTL

\* For every text and all such options, the tokens tile the text: next_token
\* advances with every call, every sub-lexer leaves the position behind its
\* token, and an unterminated string gives back only what lies behind its quote.
THEOREM TokensTile == Spec => []Tiles
  <1>1. IInv => Tiles
    <2> SUFFICES ASSUME IInv PROVE Tiles
      OBVIOUS
    <2>1. DOMAIN tokens = 1..Len(tokens) /\ Len(tokens) \in Nat
          /\ (tokens # <<>> <=> Len(tokens) # 0)
      BY EmptySeq, LenProperties DEF IInv, Typed
    <2>2. ASSUME AtEnd, source # <<>>
          PROVE  tokens # <<>> /\ tokens[Len(tokens)].last = Len(source)
      <3>1. pos = start /\ pos \in Int /\ pos \notin 1..Len(source)
        BY <2>2, AtInside, SourceTyped DEF AtEnd, peek, IInv, Reading
      <3>2. Len(source) # 0 /\ Len(source) \in Nat
        BY <2>2, SourceTyped, EmptySeq DEF IInv
      <3>3. start = Len(source) + 1
        BY <3>1, <3>2, SourceTyped DEF IInv
      <3>4. Len(tokens) # 0
        BY <3>2, <3>3 DEF IInv, Tiled
      <3>5. Len(tokens) \in DOMAIN tokens
        BY <2>1, <3>4
      <3>6. tokens[Len(tokens)] \in Token
        BY <3>5 DEF IInv, Typed
      <3>7. tokens[Len(tokens)].last \in Int
        BY <3>2, <3>6 DEF Token
      <3>8. start = tokens[Len(tokens)].last + 1
        BY <3>4 DEF IInv, Tiled
      <3>9. QED
        BY <2>1, <3>2, <3>3, <3>4, <3>7, <3>8
    <2>3. QED
      BY <2>1, <2>2 DEF IInv, Tiled, Tiles
  <1>2. QED
    BY Inductive, <1>1, PTL

-----------------------------------------------------------------------------
(* What a token is, read off the text from where it begins.                *)

Names == {"Atom", "Bool", "HashTag"}

\* The tokens that lex may produce.
Lexemes ==
  {t \in Token :
     /\ Quoted(t.first).close # None => EndsRight(t)
     /\ t.kind = "Unterminated" => CutRight(t)
     /\ at(t.first) = "(" => t.kind = "Open" \/ BeginsComment(t.first)
     /\ t.kind \in Names /\ ~Verbatim(t) => EndsName(t)
     /\ ~Verbatim(t) => Shows(t)}

\* Nothing has closed the lexeme that begins at s, and p is not escaped.
Clean(s, p) ==
  /\ Quoted(s).from <= p
  /\ \A i \in Quoted(s).from..p - 1 : source[i] = Quoted(s).close => Escaped(i, Quoted(s).from)
  /\ p <= Len(source) => ~Escaped(p, Quoted(s).from)

InQuotes(r) ==
  /\ Quoted(r.start).close # None /\ Clean(r.start, r.pos)
  /\ r.mode = "quoted" =>
       /\ GivesBack(r.start)
       /\ Quoted(r.start).from = IF r.kind = "Atom" THEN r.start + 2 ELSE r.start + 1
  /\ r.mode = "until" =>
       /\ ~GivesBack(r.start)
       /\ Quoted(r.start).close = IF at(r.start) = "|" THEN "|" ELSE at(r.start + 1)

Undelimited(s, p) == \A i \in s..p - 1 : source[i] \notin Delimiters

InName(s, p) ==
  /\ \A i \in s..p - 1 : source[i] \in Delimiters => On("symbol_escape") /\ Escaped(i, s)
  /\ On("symbol_escape") /\ p <= Len(source) => ~Escaped(p, s)

KindsIn(m) ==
  CASE m = "space" -> {"Whitespace"}
    [] m = "digits" -> {"Label"}
    [] m \in {"atom", "plain", "curly"} -> {"Atom"}
    [] m = "tag" -> {"Atom", "HashTag"}
    [] m \in {"quoted", "until"} -> {"Str", "Atom"}
    [] m \in {"next", "hash"} -> TokenKinds
    [] OTHER -> {"Str", "LineComment", "BlockComment", "LangLine", "Char"}

\* What has been read of a token: it begins at `start', `pos' comes next.
OnTheWay ==
  {r \in [start : Nat, pos : Nat, mode : Modes, kind : TokenKinds] :
     /\ r.kind \in KindsIn(r.mode)
     /\ r.mode = "hash" => On("hash_syntax")
     /\ r.mode \in {"quoted", "until"} => InQuotes(r)
     /\ r.mode \notin {"next", "hash", "quoted", "until"} => Quoted(r.start).close = None
     /\ r.mode \notin {"next", "hash"} /\ at(r.start) = "(" => BeginsComment(r.start)
     /\ r.mode = "curly" => HashCurly(r.start)
     /\ r.mode \in {"space", "digits", "plain", "tag"} => Undelimited(r.start, r.pos)
     /\ r.mode = "atom" => InName(r.start, r.pos)}

Now == [start |-> start, pos |-> pos, mode |-> mode, kind |-> kind]

Lexing == Now \in OnTheWay /\ tokens \in Seq(Lexemes)

LEMMA LexemesFrame ==
  UNCHANGED input => Lexemes' = Lexemes /\ OnTheWay' = OnTheWay
  <1> SUFFICES ASSUME source' = source, opts' = opts
               PROVE  Lexemes' = Lexemes /\ OnTheWay' = OnTheWay
    BY DEF input
  <1>1. /\ \A i : at(i)' = at(i)
        /\ \A f : On(f)' <=> On(f)
        /\ Opening' = Opening /\ Closing' = Closing /\ Delimiters' = Delimiters /\ Token' = Token
    BY DEF at, On, Opening, Closing, Delimiters, Token
  <1>2. \A i, w : Word(i, w)' <=> Word(i, w)
    BY <1>1 DEF Word
  <1>3. \A s : Quoted(s)' = Quoted(s)
    BY <1>1, <1>2 DEF Quoted
  <1>4. \A i, f : Escaped(i, f)' <=> Escaped(i, f)
    BY DEF Escaped
  <1>5. \A s, u : Closers(s, u)' = Closers(s, u)
    BY <1>3, <1>4 DEF Closers
  <1>6. \A t : EndsRight(t)' <=> EndsRight(t)
    BY <1>1, <1>5 DEF EndsRight
  <1>7. Breaks' = Breaks
    BY <1>1 DEF Breaks
  <1>8. \A i : BeginsLine(i)' <=> BeginsLine(i)
    BY <1>1, <1>7 DEF BeginsLine
  <1>9. \A s : (GivesBack(s)' <=> GivesBack(s)) /\ (BeginsComment(s)' <=> BeginsComment(s))
               /\ (HashCurly(s)' <=> HashCurly(s))
    BY <1>1, <1>2, <1>3 DEF GivesBack, BeginsComment, HashCurly
  <1>10. \A t : CutRight(t)' <=> CutRight(t)
    BY <1>3, <1>7, <1>8, <1>9 DEF CutRight
  <1>11. \A t : (Verbatim(t)' <=> Verbatim(t)) /\ (Shows(t)' <=> Shows(t))
    BY <1>1, <1>3, <1>4, <1>9 DEF Verbatim, Shows
  <1>12. \A c : InAtom(c)' <=> InAtom(c)
    BY <1>1 DEF InAtom, is_terminator, is_whitespace
  <1>13. \A t : EndsName(t)' <=> EndsName(t)
    BY <1>12 DEF EndsName
  <1>14. Lexemes' = Lexemes
    BY <1>1, <1>3, <1>6, <1>9, <1>10, <1>11, <1>13 DEF Lexemes
  <1>15. \A s, p : (Clean(s, p)' <=> Clean(s, p)) /\ (Undelimited(s, p)' <=> Undelimited(s, p))
                   /\ (InName(s, p)' <=> InName(s, p))
    BY <1>1, <1>3, <1>4 DEF Clean, Undelimited, InName
  <1>16. \A r : InQuotes(r)' <=> InQuotes(r)
    BY <1>1, <1>3, <1>9, <1>15 DEF InQuotes
  <1>17. OnTheWay' = OnTheWay
    BY <1>1, <1>3, <1>9, <1>15, <1>16 DEF OnTheWay
  <1>18. QED
    BY <1>14, <1>17

-----------------------------------------------------------------------------
(* The operators the properties are made of.                               *)

LEMMA WordIs ==
  ASSUME NEW i \in Int, NEW a, NEW b
  PROVE  /\ Word(i, <<a>>) <=> at(i) = a
         /\ Word(i, <<a, b>>) <=> at(i) = a /\ at(i + 1) = b
  <1>1. i + 1 - 1 = i /\ i + 2 - 1 = i + 1
    OBVIOUS
  <1>2. Word(i, <<a>>) <=> at(i) = a
    <2>1. Len(<<a>>) = 1 /\ <<a>>[1] = a
      OBVIOUS
    <2>2. Word(i, <<a>>) <=> \A j \in 1..1 : at(i + j - 1) = <<a>>[j]
      BY <2>1 DEF Word
    <2>3. QED
      BY <1>1, <2>1, <2>2
  <1>3. Word(i, <<a, b>>) <=> at(i) = a /\ at(i + 1) = b
    <2>1. Len(<<a, b>>) = 2 /\ <<a, b>>[1] = a /\ <<a, b>>[2] = b
      OBVIOUS
    <2>2. Word(i, <<a, b>>) <=> \A j \in 1..2 : at(i + j - 1) = <<a, b>>[j]
      BY <2>1 DEF Word
    <2>3. 1..2 = {1, 2}
      OBVIOUS
    <2>4. QED
      BY <1>1, <2>1, <2>2, <2>3
  <1>4. QED
    BY <1>2, <1>3

\* The lexemes with a closing character, by their first characters.
LEMMA QuotedIs ==
  ASSUME NEW s \in Int
  PROVE  \/ at(s) = "dq" /\ Quoted(s).close = "dq" /\ Quoted(s).from = s + 1
         \/ /\ at(s) = "$" /\ at(s + 1) = "dq" /\ On("quoted_identifiers")
            /\ Quoted(s).close = "dq" /\ Quoted(s).from = s + 2
         \/ at(s) = "|" /\ On("piped_symbols") /\ Quoted(s).close = "|" /\ Quoted(s).from = s + 1
         \/ /\ at(s) = "#" /\ at(s + 1) = "dq" /\ On("hash_syntax") /\ On("regex_literal")
            /\ Quoted(s).close = "dq" /\ Quoted(s).from = s + 2
         \/ /\ at(s) = "#" /\ at(s + 1) = "/" /\ On("hash_syntax") /\ On("regex_slash")
            /\ Quoted(s).close = "/" /\ Quoted(s).from = s + 2
         \/ /\ Quoted(s).close = None /\ at(s) # "dq"
            /\ ~(at(s) = "$" /\ at(s + 1) = "dq" /\ On("quoted_identifiers"))
            /\ ~(at(s) = "|" /\ On("piped_symbols"))
            /\ ~(at(s) = "#" /\ at(s + 1) = "dq" /\ On("hash_syntax") /\ On("regex_literal"))
            /\ ~(at(s) = "#" /\ at(s + 1) = "/" /\ On("hash_syntax") /\ On("regex_slash"))
  <1> DEFINE c == at(s)
             d == at(s + 1)
             h == {"hash_syntax", "regex_literal"} \subseteq opts.flags
             g == {"hash_syntax", "regex_slash"} \subseteq opts.flags
  <1>a. /\ Word(s, <<"dq">>) <=> c = "dq"
        /\ Word(s, <<"$", "dq">>) <=> c = "$" /\ d = "dq"
        /\ Word(s, <<"|">>) <=> c = "|"
        /\ Word(s, <<"#", "dq">>) <=> c = "#" /\ d = "dq"
        /\ Word(s, <<"#", "/">>) <=> c = "#" /\ d = "/"
    BY WordIs
  <1>2. /\ h <=> On("hash_syntax") /\ On("regex_literal")
        /\ g <=> On("hash_syntax") /\ On("regex_slash")
    BY DEF On
  <1> HIDE DEF c, d, h, g
  <1>3. CASE c = "dq"
    <2>1. Quoted(s) = [close |-> "dq", from |-> s + 1]
      BY <1>a, <1>3 DEF Quoted
    <2>2. QED
      BY <1>3, <2>1 DEF c
  <1>4. CASE c = "$" /\ d = "dq" /\ On("quoted_identifiers")
    <2>1. Quoted(s) = [close |-> "dq", from |-> s + 2]
      BY <1>a, <1>4 DEF Quoted
    <2>2. QED
      BY <1>4, <2>1 DEF c, d
  <1>5. CASE c = "|" /\ On("piped_symbols")
    <2>1. Quoted(s) = [close |-> "|", from |-> s + 1]
      BY <1>a, <1>5 DEF Quoted
    <2>2. QED
      BY <1>5, <2>1 DEF c
  <1>6. CASE c = "#" /\ d = "dq" /\ h
    <2>1. Quoted(s) = [close |-> "dq", from |-> s + 2]
      BY <1>a, <1>6 DEF Quoted, h
    <2>2. QED
      BY <1>2, <1>6, <2>1 DEF c, d
  <1>7. CASE c = "#" /\ d = "/" /\ g
    <2>1. Quoted(s) = [close |-> "/", from |-> s + 2]
      BY <1>a, <1>7 DEF Quoted, g
    <2>2. QED
      BY <1>2, <1>7, <2>1 DEF c, d
  <1>8. CASE /\ c # "dq" /\ ~(c = "$" /\ d = "dq" /\ On("quoted_identifiers"))
             /\ ~(c = "|" /\ On("piped_symbols")) /\ ~(c = "#" /\ d = "dq" /\ h)
             /\ ~(c = "#" /\ d = "/" /\ g)
    <2>1. Quoted(s) = [close |-> None, from |-> 0]
      BY <1>a, <1>8 DEF Quoted, h, g
    <2>2. QED
      BY <1>2, <1>8, <2>1 DEF c, d
  <1>9. QED
    BY <1>3, <1>4, <1>5, <1>6, <1>7, <1>8

\* Whether a character is escaped turns with every backslash before it.
LEMMA EscapedNext ==
  ASSUME NEW from \in Int, NEW i \in Int, from <= i
  PROVE  /\ ~Escaped(from, from)
         /\ Escaped(i + 1, from) <=> source[i] = "esc" /\ ~Escaped(i, from)
  <1> DEFINE Run(k) == {j \in from..k - 1 : \A h \in j..k - 1 : source[h] = "esc"}
  <1>1. \A k : Escaped(k, from) <=> Cardinality(Run(k)) % 2 = 1
    BY DEF Escaped
  <1>2. ASSUME NEW k \in Int
        PROVE  IsFiniteSet(Run(k)) /\ Cardinality(Run(k)) \in Nat
    <2>1. IsFiniteSet(from..k - 1)
      BY FS_Interval
    <2>2. Run(k) \subseteq from..k - 1
      OBVIOUS
    <2>3. QED
      BY <2>1, <2>2, FS_Subset, FS_CardinalityType
  <1>3. ~Escaped(from, from)
    <2>1. Run(from) = {}
      OBVIOUS
    <2>2. QED
      BY <1>1, <2>1, FS_EmptySet
  <1>4. CASE source[i] = "esc"
    <2>1. Run(i + 1) = Run(i) \union {i} /\ i \notin Run(i)
      BY <1>4
    <2>2. IsFiniteSet(Run(i)) /\ Cardinality(Run(i)) \in Nat
      BY <1>2
    <2> HIDE DEF Run
    <2>3. Cardinality(Run(i + 1)) = Cardinality(Run(i)) + 1
      BY <2>1, <2>2, FS_AddElement
    <2>4. QED
      BY <1>1, <1>3, <1>4, <2>2, <2>3
  <1>5. CASE source[i] # "esc"
    <2>1. Run(i + 1) = {}
      <3>1. \A j \in from..i : i \in j..i
        OBVIOUS
      <3>2. QED
        BY <1>5, <3>1
    <2>2. QED
      BY <1>1, <1>3, <1>5, <2>1, FS_EmptySet
  <1>6. QED
    BY <1>3, <1>4, <1>5

\* No delimiter is taken for anything else, and an open parenthesis is one.
LEMMA DelimitersAre ==
  /\ "(" \in Opening /\ Opening \subseteq {"(", "[", "{"} /\ Closing \subseteq {")", "]", "}"}
  /\ \A c : InAtom(c) => c \notin Delimiters /\ c # EOF
  /\ \A c : is_whitespace(c) => c \notin Delimiters
  /\ EOF \notin Delimiters
  <1>1. "(" \in Opening /\ Opening \subseteq {"(", "[", "{"} /\ Closing \subseteq {")", "]", "}"}
    BY DEF Opening, Closing
  <1>2. QED
    BY <1>1 DEF InAtom, is_terminator, is_whitespace, Blanks, Delimiters, EOF

\* What the assumption on the options says of these.
LEMMA Markers ==
  ASSUME Typed
  PROVE  /\ opts.line_comment \in {";", "#"}
         /\ opts.line_comment = "#" => ~On("hash_syntax")
         /\ opts.block_comment.open \in {<<>>, <<"#", "|">>, <<"(", ";">>, <<";", "|">>}
         /\ role("splicing_suffix") \notin Delimiters
  <1> DEFINE c == [source |-> source, opts |-> opts]
  <1>1. c \in Cases /\ c.opts = opts
    BY DEF Typed
  <1> HIDE DEF c
  <1>2. /\ opts.line_comment \in {";", "#"}
        /\ opts.line_comment = "#" => "hash_syntax" \notin opts.flags
        /\ opts.block_comment.open \in {<<>>, <<"#", "|">>, <<"(", ";">>, <<";", "|">>}
        /\ opts.roles["splicing_suffix"] \notin {"(", ")", "[", "]", "{", "}"}
    BY <1>1, MarkersAssumption
  <1>3. Delimiters \subseteq {"(", ")", "[", "]", "{", "}"}
    BY DelimitersAre DEF Delimiters
  <1>4. QED
    BY <1>2, <1>3 DEF On, role

-----------------------------------------------------------------------------
(* What begins here is on the way to a token the lexer may produce.        *)

LEMMA PastIs ==
  ASSUME Typed
  PROVE  /\ Past(pos) = pos
         /\ peek # EOF => Past(pos + 1) = pos + 1 /\ pos + 1 <= Len(source) + 1
         /\ at(pos + 1) # EOF => Past(pos + 2) = pos + 2 /\ pos + 2 <= Len(source) + 1
         /\ at(pos + 2) # EOF => Past(pos + 3) = pos + 3 /\ pos + 3 <= Len(source) + 1
  <1>1. pos \in Nat /\ Len(source) \in Nat /\ pos <= Len(source) + 1
    BY SourceTyped
  <1>2. /\ peek # EOF => pos <= Len(source)
        /\ at(pos + 1) # EOF => pos + 1 <= Len(source)
        /\ at(pos + 2) # EOF => pos + 2 <= Len(source)
    <2>1. pos \in Int /\ pos + 1 \in Int /\ pos + 2 \in Int
      BY <1>1
    <2>2. /\ peek # EOF => pos \in 1..Len(source)
          /\ at(pos + 1) # EOF => pos + 1 \in 1..Len(source)
          /\ at(pos + 2) # EOF => pos + 2 \in 1..Len(source)
      BY <2>1, AtInside DEF peek
    <2>3. QED
      BY <2>2
  <1>3. QED
    BY <1>1, <1>2 DEF Past

\* A token of one to three characters that is no name.
LEMMA WholeRead ==
  ASSUME Typed, NEW k \in {"Open", "Close", "Prefix", "HashOpen"}, NEW p \in Int,
         pos < p, p <= Len(source) + 1, Quoted(pos).close = None,
         at(pos) = "(" => k = "Open",
         \A i \in pos..p - 1 : source[i] \in Delimiters => k # "Prefix" /\ i = p - 1
  PROVE  [kind |-> k, first |-> pos, last |-> p - 1] \in Lexemes
  <1> DEFINE t == [kind |-> k, first |-> pos, last |-> p - 1]
  <1>1. t.kind = k /\ t.first = pos /\ t.last = p - 1
    OBVIOUS
  <1>2. t \in Token
    <2>1. pos \in 1..Len(source) /\ p - 1 \in 1..Len(source) /\ k \in TokenKinds
      BY SourceTyped DEF TokenKinds
    <2>2. QED
      BY <2>1 DEF Token
  <1> HIDE DEF t
  <1>3. Shows(t)
    BY <1>1 DEF Shows
  <1>4. t \in Lexemes
    BY <1>1, <1>2, <1>3 DEF Lexemes, Names
  <1>5. QED
    BY <1>4 DEF t

\* The loop of a lexeme without a closing character.
LEMMA LoopRead ==
  ASSUME NEW s \in Nat, NEW p \in Nat, NEW k \in TokenKinds,
         NEW m \in Modes \ {"next", "hash", "quoted", "until", "atom"}, k \in KindsIn(m), Quoted(s).close = None,
         at(s) = "(" => BeginsComment(s),
         m = "curly" => HashCurly(s),
         m \in {"space", "digits", "plain", "tag"} => Undelimited(s, p)
  PROVE  [start |-> s, pos |-> p, mode |-> m, kind |-> k] \in OnTheWay
  <1> DEFINE r == [start |-> s, pos |-> p, mode |-> m, kind |-> k]
  <1>1. r.start = s /\ r.pos = p /\ r.mode = m /\ r.kind = k
    OBVIOUS
  <1>2. r \in [start : Nat, pos : Nat, mode : Modes, kind : TokenKinds]
    OBVIOUS
  <1> HIDE DEF r
  <1>3. r \in OnTheWay
    BY <1>1, <1>2 DEF OnTheWay
  <1>4. QED
    BY <1>3 DEF r

\* The loop of a lexeme with a closing character, in front of its content.
LEMMA QuotesRead ==
  ASSUME Typed, NEW m \in {"quoted", "until"}, NEW k \in {"Str", "Atom"},
         Quoted(pos).close # None, Quoted(pos).from \in Nat,
         m = "quoted" => /\ GivesBack(pos)
                         /\ Quoted(pos).from = IF k = "Atom" THEN pos + 2 ELSE pos + 1,
         m = "until" => /\ ~GivesBack(pos)
                        /\ Quoted(pos).close = IF at(pos) = "|" THEN "|" ELSE at(pos + 1)
  PROVE  [start |-> pos, pos |-> Quoted(pos).from, mode |-> m, kind |-> k] \in OnTheWay
  <1> DEFINE p == Quoted(pos).from
             r == [start |-> pos, pos |-> p, mode |-> m, kind |-> k]
  <1>1. r.start = pos /\ r.pos = p /\ r.mode = m /\ r.kind = k
    OBVIOUS
  <1>2. r \in [start : Nat, pos : Nat, mode : Modes, kind : TokenKinds]
    BY SourceTyped DEF Modes, TokenKinds
  <1>3. Clean(pos, p)
    <2>1. ~Escaped(p, p)
      BY EscapedNext
    <2>2. QED
      BY <2>1 DEF Clean
  <1>4. at(pos) # "("
    BY QuotedIs, SourceTyped
  <1>5. k \in KindsIn(m)
    BY DEF KindsIn
  <1> HIDE DEF r
  <1>6. InQuotes(r)
    BY <1>1, <1>3 DEF InQuotes
  <1>7. r \in OnTheWay
    BY <1>1, <1>2, <1>4, <1>5, <1>6 DEF OnTheWay
  <1>8. QED
    BY <1>7 DEF r

\* What a row that is taken leads to.
Started(l) ==
  IF l.mode = "next"
  THEN [kind |-> l.kind, first |-> pos, last |-> Past(pos + l.take) - 1] \in Lexemes
  ELSE [start |-> pos, pos |-> Past(pos + l.take), mode |-> l.mode, kind |-> l.kind] \in OnTheWay

LEMMA LeadRead ==
  ASSUME Typed, peek # EOF
  PROVE  Started(First(leads))
  <1>1. DOMAIN leads = 1..18 /\ leads[18].when
    BY DEF leads, Enter, Emit
  <1>a. 18 \in Nat /\ 18 \in 1..18
    OBVIOUS
  <1>2. PICK i \in 1..18 : /\ First(leads) = leads[i] /\ leads[i].when
                           /\ \A j \in 1..18 : leads[j].when => i <= j
    BY <1>1, <1>a, FirstTried
  <1> DEFINE l == leads[i]
             open == opts.block_comment.open
  \* The conditions of the rows that matter to those behind them.
  <1>3. /\ leads[1].when <=> is_whitespace(peek)
        /\ leads[2].when <=> open # <<>> /\ rest_starts_with(open)
        /\ leads[3].when => peek = opts.line_comment
        /\ leads[4].when => peek = "bt"
        /\ leads[5].when <=> peek \in Opening
        /\ leads[6].when <=> peek \in Closing
        /\ leads[7].when <=> peek = "dq"
        /\ leads[8].when <=> peek = "|" /\ On("piped_symbols")
        /\ leads[10].when <=> peek = "#" /\ On("hash_syntax")
        /\ leads[11].when <=> On("quoted_identifiers") /\ rest_starts_with(<<"$", "dq">>)
    BY DEF leads, Enter, Emit
  <1>b. /\ pos \in Int /\ at(pos) = peek
    BY SourceTyped DEF peek
  <1>4. /\ rest_starts_with(<<"$", "dq">>) <=> peek = "$" /\ at(pos + 1) = "dq"
        /\ rest_starts_with(<<"|", "(">>) <=> peek = "|" /\ at(pos + 1) = "("
        /\ rest_starts_with(<<"#", "|">>) <=> peek = "#" /\ at(pos + 1) = "|"
        /\ rest_starts_with(<<"(", ";">>) <=> peek = "(" /\ at(pos + 1) = ";"
        /\ rest_starts_with(<<";", "|">>) <=> peek = ";" /\ at(pos + 1) = "|"
    <2>1. \A a, b : rest_starts_with(<<a, b>>) <=> Word(pos, <<a, b>>)
      BY DEF rest_starts_with, Word
    <2>2. \A a, b : Word(pos, <<a, b>>) <=> at(pos) = a /\ at(pos + 1) = b
      BY <1>b, WordIs
    <2>3. QED
      BY <1>b, <2>1, <2>2
  <1>5. leads[2].when => \/ peek = "#" /\ at(pos + 1) = "|"
                         \/ peek = "(" \/ peek = ";"
    BY <1>3, <1>4, Markers
  <1> HIDE DEF open
  <1>6. leads[3].when => peek = ";" \/ (peek = "#" /\ ~On("hash_syntax"))
    BY <1>3, Markers
  <1>7. \A j \in 1..18 : j < i => ~leads[j].when
    BY <1>2
  <1>8. peek \notin {"dq", "$", "|", "#", EOF} \/ i \notin {1, 4, 5, 6}
    BY <1>2, <1>3, DelimitersAre DEF is_whitespace, Blanks
  <1>9. i \notin {7, 8, 10, 11} => Quoted(pos).close = None
    <2> SUFFICES ASSUME i \notin {7, 8, 10, 11}, Quoted(pos).close # None PROVE FALSE
      OBVIOUS
    <2>1. \/ peek = "dq"
          \/ peek = "$" /\ at(pos + 1) = "dq" /\ On("quoted_identifiers")
          \/ peek = "|" /\ On("piped_symbols")
          \/ peek = "#" /\ at(pos + 1) \in {"dq", "/"} /\ On("hash_syntax")
      BY <1>b, QuotedIs
    <2>2. leads[7].when \/ leads[8].when \/ leads[10].when \/ leads[11].when
      BY <1>3, <1>4, <2>1
    <2>3. i \in {1, 2, 3, 4, 5, 6, 9}
      BY <1>2, <1>7, <2>2
    <2>4. i \notin {1, 4, 5, 6}
      BY <1>8, <2>1
    <2>5. i \notin {2, 3}
      BY <1>2, <1>5, <1>6, <2>1
    <2>6. i # 9
      <3>1. leads[9].when => peek = "|"
        <4>1. rest_starts_with(<<"|", "(">>) => peek = "|"
          BY <1>4
        <4>2. leads[9].when => rest_starts_with(<<"|", "(">>)
          BY DEF leads, Enter, Emit
        <4>3. QED
          BY <4>1, <4>2
      <3>2. i = 9 => ~leads[8].when /\ ~leads[7].when
        BY <1>7
      <3>3. i = 9 => peek = "|" /\ ~On("piped_symbols")
        BY <1>2, <1>3, <3>1, <3>2
      <3>4. QED
        BY <2>1, <3>3
    <2>7. QED
      BY <2>3, <2>4, <2>5, <2>6
  <1>10. peek = "(" => i = 2 \/ i = 5
    <2> SUFFICES ASSUME peek = "(" PROVE i = 2 \/ i = 5
      OBVIOUS
    <2>1. leads[5].when
      BY <1>3, DelimitersAre
    <2>2. ~leads[1].when /\ ~leads[3].when /\ ~leads[4].when
      BY <1>3, <1>6 DEF is_whitespace, Blanks
    <2>3. i \in 1..5
      BY <1>2, <2>1
    <2>4. QED
      BY <1>2, <2>2, <2>3
  <1>11. i = 2 => BeginsComment(pos)
    BY <1>2, <1>3 DEF BeginsComment, rest_starts_with, Word, open
  <1>12. peek \in Delimiters => i <= 6
    <2>1. peek \in Delimiters => leads[5].when \/ leads[6].when
      BY <1>3 DEF Delimiters
    <2>2. QED
      BY <1>2, <2>1
  <1>13. source[pos] = peek /\ pos \in 1..Len(source) /\ pos + 1 \in Int
    BY <1>b, AtInside, SourceTyped DEF at, peek
  <1>14. \A k \in Nat : Past(pos + k) \in Nat
    <2> TAKE k \in Nat
    <2> DEFINE p == Past(pos + k)
    <2>1. p \in pos..Len(source) + 1
      BY PastInside
    <2>2. pos \in Nat /\ Len(source) \in Nat
      BY SourceTyped
    <2> HIDE DEF p
    <2>3. p \in Nat
      BY <2>1, <2>2
    <2>4. QED
      BY <2>3 DEF p
  <1>15. CASE i \in {5, 6, 9, 15, 16, 17}
    <2>1. /\ i = 5 => l.kind = "Open" /\ l.take = 1
          /\ i = 6 => l.kind = "Close" /\ l.take = 1
          /\ i \in {9, 15, 17} => l.kind = "Prefix" /\ l.take = 1
          /\ i = 16 => /\ l.kind = "Prefix"
                       /\ l.take = IF at(pos + 1) = role("splicing_suffix") THEN 2 ELSE 1
          /\ l.mode = "next"
      <3>1. /\ leads[5].kind = "Open" /\ leads[5].take = 1 /\ leads[5].mode = "next"
            /\ leads[6].kind = "Close" /\ leads[6].take = 1 /\ leads[6].mode = "next"
            /\ leads[9].kind = "Prefix" /\ leads[9].take = 1 /\ leads[9].mode = "next"
        BY DEF leads, Enter, Emit
      <3>2. /\ leads[15].kind = "Prefix" /\ leads[15].take = 1 /\ leads[15].mode = "next"
            /\ leads[16].kind = "Prefix" /\ leads[16].mode = "next"
            /\ leads[16].take = IF at(pos + 1) = role("splicing_suffix") THEN 2 ELSE 1
            /\ leads[17].kind = "Prefix" /\ leads[17].take = 1 /\ leads[17].mode = "next"
        BY DEF leads, Enter, Emit
      <3>3. QED
        BY <1>15, <3>1, <3>2
    <2> DEFINE p == Past(pos + l.take)
    <2>2. l.take = 1 => p = pos + 1
      BY PastIs
    <2>3. l.take # 1 => i = 16 /\ l.take = 2 /\ (p = pos + 1 \/ (p = pos + 2 /\ at(pos + 1) \notin Delimiters))
                        /\ p <= Len(source) + 1
      <3> SUFFICES ASSUME l.take # 1
                   PROVE  i = 16 /\ l.take = 2 /\ (p = pos + 1 \/ (p = pos + 2 /\ at(pos + 1) \notin Delimiters))
                          /\ p <= Len(source) + 1
        OBVIOUS
      <3>1. i = 16 /\ l.take = 2 /\ at(pos + 1) = role("splicing_suffix")
        BY <1>15, <2>1
      <3>2. p \in pos..Len(source) + 1 /\ p = Past(pos + 2)
        BY <3>1, PastInside
      <3>3. p = pos + 1 \/ p = pos + 2
        BY <1>13, <3>2, SourceTyped DEF Past
      <3>4. p <= Len(source) + 1
        BY <3>2, SourceTyped
      <3>5. QED
        BY <3>1, <3>3, <3>4, Markers
    <2>4. p \in Int /\ pos < p /\ p <= Len(source) + 1
      BY <1>13, <2>2, <2>3, SourceTyped
    <2> HIDE DEF l
    <2>5. l.kind \in {"Open", "Close", "Prefix", "HashOpen"}
      BY <1>15, <2>1
    <2>6. at(pos) = "(" => l.kind = "Open"
      BY <1>b, <1>10, <1>15, <2>1
    <2>7. ASSUME NEW j \in pos..p - 1, source[j] \in Delimiters
          PROVE  l.kind # "Prefix" /\ j = p - 1
      <3>1. CASE l.kind # "Prefix"
        <4>1. p = pos + 1
          BY <1>15, <2>1, <2>2, <3>1
        <4>2. QED
          BY <1>13, <3>1, <4>1
      <3>2. CASE l.kind = "Prefix"
        <4>1. i > 6
          BY <1>15, <2>1, <3>2
        <4>2. j # pos
          BY <1>12, <1>13, <2>7, <4>1
        <4>3. p = pos + 2 /\ at(pos + 1) \notin Delimiters
          BY <1>13, <2>2, <2>3, <2>7, <4>2
        <4>4. j = pos + 1 /\ j \in 1..Len(source)
          BY <1>13, <2>4, <2>7, <4>2, <4>3
        <4>5. QED
          BY <2>7, <4>3, <4>4 DEF at
      <3>3. QED
        BY <3>1, <3>2
    <2>8. Quoted(pos).close = None
      BY <1>9, <1>15
    <2> HIDE DEF p
    <2>9. [kind |-> l.kind, first |-> pos, last |-> p - 1] \in Lexemes
      BY <2>4, <2>5, <2>6, <2>7, <2>8, WholeRead
    <2>10. QED
      BY <1>2, <2>1, <2>9 DEF Started, p, l
  <1>16. CASE i \in {1, 2, 3, 4, 12, 13, 14}
    <2>1. /\ i = 1 => l.mode = "space" /\ l.kind = "Whitespace" /\ l.take = 0
          /\ i = 2 => l.mode = "block" /\ l.kind = "BlockComment"
          /\ i = 3 => l.mode = "line" /\ l.kind = "LineComment"
          /\ i = 4 => l.mode = "backticks" /\ l.kind = "Str"
          /\ i \in {12, 13} => l.mode = "char" /\ l.kind = "Char"
          /\ i = 14 => l.mode = "question" /\ l.kind = "Char"
      <3>1. /\ leads[1].mode = "space" /\ leads[1].kind = "Whitespace" /\ leads[1].take = 0
            /\ leads[2].mode = "block" /\ leads[2].kind = "BlockComment"
            /\ leads[3].mode = "line" /\ leads[3].kind = "LineComment"
            /\ leads[4].mode = "backticks" /\ leads[4].kind = "Str"
        BY DEF leads, Enter
      <3>2. /\ leads[12].mode = "char" /\ leads[12].kind = "Char"
            /\ leads[13].mode = "char" /\ leads[13].kind = "Char"
            /\ leads[14].mode = "question" /\ leads[14].kind = "Char"
        BY DEF leads, Enter
      <3>3. QED
        BY <3>1, <3>2
    <2> DEFINE p == Past(pos + l.take)
    <2>2. p \in Nat
      <3>1. Begins(l)
        BY <1>2, LeadBegins
      <3>2. QED
        BY <1>14, <3>1 DEF Begins
    <2>3. i = 1 => p = pos
      BY <2>1, <1>13, PastIs
    <2> HIDE DEF l, p
    <2>4. /\ l.mode \in {"space", "block", "line", "backticks", "char", "question"}
          /\ l.kind \in {"Whitespace", "BlockComment", "LineComment", "Str", "Char"}
          /\ l.mode = "space" => i = 1
      BY <1>16, <2>1
    <2>5. l.mode \in Modes \ {"next", "hash", "quoted", "until", "atom"} /\ l.kind \in TokenKinds
      BY <2>4 DEF Modes, TokenKinds
    <2>6. l.kind \in KindsIn(l.mode)
      BY <1>16, <2>1 DEF KindsIn
    <2>7. at(pos) = "(" => BeginsComment(pos)
      BY <1>b, <1>10, <1>11, <1>16
    <2>8. l.mode \in {"space", "digits", "plain", "tag"} => Undelimited(pos, p)
      BY <1>13, <2>3, <2>4 DEF Undelimited
    <2>9. Quoted(pos).close = None
      BY <1>9, <1>16
    <2>10. [start |-> pos, pos |-> p, mode |-> l.mode, kind |-> l.kind] \in OnTheWay
      BY <1>b, <1>13, <2>2, <2>4, <2>5, <2>6, <2>7, <2>8, <2>9, LoopRead
    <2>11. QED
      BY <1>2, <2>4, <2>10 DEF Started, p, l
  <1>17. CASE i \in {7, 8, 11}
    <2>1. /\ i = 7 => l.mode = "quoted" /\ l.kind = "Str" /\ l.take = 1
          /\ i = 8 => l.mode = "until" /\ l.kind = "Atom" /\ l.take = 1
          /\ i = 11 => l.mode = "quoted" /\ l.kind = "Atom" /\ l.take = 2
      BY DEF leads, Enter
    <2>2. /\ i = 7 => peek = "dq"
          /\ i = 8 => peek = "|" /\ On("piped_symbols")
          /\ i = 11 => peek = "$" /\ at(pos + 1) = "dq" /\ On("quoted_identifiers")
      BY <1>2, <1>3, <1>4
    <2>3. /\ i = 7 => Quoted(pos).close = "dq" /\ Quoted(pos).from = pos + 1
          /\ i = 8 => Quoted(pos).close = "|" /\ Quoted(pos).from = pos + 1
          /\ i = 11 => Quoted(pos).close = "dq" /\ Quoted(pos).from = pos + 2
      BY <1>b, <2>2, QuotedIs
    <2>4. Past(pos + l.take) = Quoted(pos).from /\ Quoted(pos).from \in Nat
      BY <1>13, <1>17, <2>1, <2>2, <2>3, PastIs DEF EOF
    <2> HIDE DEF l
    <2>5. /\ l.mode \in {"quoted", "until"} /\ l.kind \in {"Str", "Atom"}
          /\ Quoted(pos).close # None
      BY <1>17, <2>1, <2>3 DEF None
    <2>6. l.mode = "quoted" => /\ GivesBack(pos)
                              /\ Quoted(pos).from = IF l.kind = "Atom" THEN pos + 2 ELSE pos + 1
      BY <1>b, <1>17, <2>1, <2>2, <2>3 DEF GivesBack
    <2>7. l.mode = "until" => /\ ~GivesBack(pos)
                             /\ Quoted(pos).close = IF at(pos) = "|" THEN "|" ELSE at(pos + 1)
      BY <1>b, <1>17, <2>1, <2>2, <2>3 DEF GivesBack
    <2>8. [start |-> pos, pos |-> Quoted(pos).from, mode |-> l.mode, kind |-> l.kind] \in OnTheWay
      BY <2>4, <2>5, <2>6, <2>7, QuotesRead
    <2>9. QED
      BY <1>2, <2>4, <2>5, <2>8 DEF Started, l
  <1>18. CASE i = 10
    <2>1. l.mode = "hash" /\ l.kind = "Atom" /\ l.take = 0
      BY <1>18 DEF leads, Enter
    <2>2. Past(pos + l.take) = pos /\ On("hash_syntax")
      BY <1>2, <1>3, <1>13, <1>18, <2>1, PastIs
    <2> DEFINE r == [start |-> pos, pos |-> pos, mode |-> "hash", kind |-> "Atom"]
    <2>3. r.start = pos /\ r.pos = pos /\ r.mode = "hash" /\ r.kind = "Atom"
      OBVIOUS
    <2>4. r \in [start : Nat, pos : Nat, mode : Modes, kind : TokenKinds]
      BY <1>13 DEF Modes, TokenKinds
    <2>5. "Atom" \in KindsIn("hash")
      BY DEF KindsIn, TokenKinds
    <2> HIDE DEF r
    <2>6. r \in OnTheWay
      BY <2>2, <2>3, <2>4, <2>5 DEF OnTheWay
    <2>7. QED
      BY <1>2, <2>1, <2>2, <2>6 DEF Started, r
  <1>19. CASE i = 18
    <2>1. /\ l.mode = "atom" /\ l.kind = "Atom"
          /\ l.take = IF On("symbol_escape") /\ peek = "esc" THEN 2 ELSE 1
      BY <1>19 DEF leads, Enter
    <2> DEFINE p == Past(pos + l.take)
               r == [start |-> pos, pos |-> p, mode |-> "atom", kind |-> "Atom"]
    <2>2. peek \notin Delimiters
      BY <1>12, <1>19
    <2>3. InName(pos, p)
      <3>a. pos \in Int /\ pos + 1 \in Int /\ pos <= pos /\ pos <= pos + 1
        BY <1>b
      <3>1. ~Escaped(pos, pos) /\ (Escaped(pos + 1, pos) <=> peek = "esc")
        BY <1>13, <3>a, EscapedNext
      <3>2. CASE On("symbol_escape") /\ peek = "esc"
        <4>1. p = Past(pos + 2)
          BY <2>1, <3>2
        <4>2. p = pos + 2 \/ p = Len(source) + 1
          BY <4>1 DEF Past
        <4>3. p \in pos..Len(source) + 1 /\ p <= pos + 2
          <5>1. p \in pos..Len(source) + 1
            BY <4>1, PastInside
          <5>2. QED
            BY <1>13, <4>1, <5>1, SourceTyped DEF Past
        <4>4. p <= Len(source) => p = pos + 2
          BY <4>2, <4>3, SourceTyped
        <4>5. ~Escaped(pos + 2, pos)
          <5>1. Escaped((pos + 1) + 1, pos) <=> source[pos + 1] = "esc" /\ ~Escaped(pos + 1, pos)
            BY <3>a, EscapedNext
          <5>2. (pos + 1) + 1 = pos + 2
            BY <1>13
          <5>3. QED
            BY <3>1, <3>2, <5>1, <5>2
        <4> HIDE DEF p
        <4>6. ASSUME NEW j \in pos..p - 1 PROVE j = pos \/ j = pos + 1
          BY <1>13, <4>3, <4>6
        <4>7. QED
          BY <1>13, <2>2, <3>1, <3>2, <4>4, <4>5, <4>6 DEF InName
      <3>3. CASE ~(On("symbol_escape") /\ peek = "esc")
        <4>1. p = pos + 1
          BY <2>1, <3>3, PastIs
        <4>2. \A j \in pos..p - 1 : j = pos
          BY <1>13, <4>1
        <4>3. QED
          BY <1>13, <2>2, <3>1, <3>3, <4>1, <4>2 DEF InName
      <3>4. QED
        BY <3>2, <3>3
    <2>4. p \in Nat
      BY <1>14, <2>1
    <2> HIDE DEF p
    <2>5. r.start = pos /\ r.pos = p /\ r.mode = "atom" /\ r.kind = "Atom"
      OBVIOUS
    <2>6. r \in [start : Nat, pos : Nat, mode : Modes, kind : TokenKinds]
      BY <1>13, <2>4 DEF Modes, TokenKinds
    <2>7. "Atom" \in KindsIn("atom") /\ Quoted(pos).close = None /\ at(pos) # "("
      BY <1>b, <1>9, <1>10, <1>19 DEF KindsIn
    <2> HIDE DEF r
    <2>8. r \in OnTheWay
      BY <2>3, <2>5, <2>6, <2>7 DEF OnTheWay
    <2>9. QED
      BY <1>2, <2>1, <2>8 DEF Started, r, p
  <1>20. QED
    <2>1. \/ i \in {5, 6, 9, 15, 16, 17} \/ i \in {1, 2, 3, 4, 12, 13, 14}
          \/ i \in {7, 8, 11} \/ i = 10 \/ i = 18
      OBVIOUS
    <2>2. QED
      BY <1>15, <1>16, <1>17, <1>18, <1>19, <2>1

\* A word of three characters.
LEMMA ThreeIs ==
  ASSUME Typed, NEW a, NEW b, NEW c
  PROVE  rest_starts_with(<<a, b, c>>) <=> peek = a /\ at(pos + 1) = b /\ at(pos + 2) = c
  <1>1. Len(<<a, b, c>>) = 3 /\ <<a, b, c>>[1] = a /\ <<a, b, c>>[2] = b /\ <<a, b, c>>[3] = c
    OBVIOUS
  <1>2. rest_starts_with(<<a, b, c>>) <=> \A j \in 1..3 : at(pos + j - 1) = <<a, b, c>>[j]
    BY <1>1 DEF rest_starts_with
  <1>3. 1..3 = {1, 2, 3}
    OBVIOUS
  <1>4. pos + 1 - 1 = pos /\ pos + 2 - 1 = pos + 1 /\ pos + 3 - 1 = pos + 2
    BY SourceTyped
  <1>5. QED
    BY <1>1, <1>2, <1>3, <1>4 DEF peek

LEMMA HashRead ==
  ASSUME Typed, peek = "#", On("hash_syntax")
  PROVE  Started(First(hash_leads))
  <1>1. DOMAIN hash_leads = 1..24 /\ hash_leads[24].when
    BY DEF hash_leads, Enter, Emit
  <1>a. 24 \in Nat /\ 24 \in 1..24
    OBVIOUS
  <1>2. PICK i \in 1..24 : /\ First(hash_leads) = hash_leads[i] /\ hash_leads[i].when
                           /\ \A j \in 1..24 : hash_leads[j].when => i <= j
    BY <1>1, <1>a, FirstTried
  <1> DEFINE l == hash_leads[i]
             c == at(pos + 1)
  <1>3. /\ hash_leads[1].when => c = "lang"
        /\ hash_leads[2].when => c = "!"
        /\ hash_leads[3].when => c \in {";", "_", "'", ".", "+", "-"}
        /\ hash_leads[4].when => c = "^"
        /\ hash_leads[5].when => c = "?"
        /\ hash_leads[6].when <=> c = "dq" /\ On("regex_literal")
        /\ hash_leads[7].when <=> c = "{" /\ On("hash_curly_symbol")
        /\ hash_leads[8].when => c = "{"
        /\ hash_leads[9].when => c = "["
        /\ hash_leads[10].when => c = "["
        /\ hash_leads[11].when <=> c = "/" /\ On("regex_slash")
    <2>1. \A p \in hash_prefixes : p[1] \in {";", "_", "'", ".", "+", "-"}
      <3> SUFFICES ASSUME NEW p \in hash_prefixes PROVE p[1] \in {";", "_", "'", ".", "+", "-"}
        OBVIOUS
      <3>1. /\ <<";", "datum_comment">>[1] = ";" /\ <<"_", "discard_underscore">>[1] = "_"
            /\ <<"'", "hash_apostrophe">>[1] = "'" /\ <<".", "read_eval">>[1] = "."
            /\ <<"+", "feature_conditional">>[1] = "+" /\ <<"-", "feature_conditional">>[1] = "-"
        OBVIOUS
      <3>2. QED
        BY <3>1, Zenon DEF hash_prefixes
    <2>2. hash_leads[3].when => \E p \in hash_prefixes : c = p[1]
      BY DEF hash_leads, Enter, Emit
    <2>3. /\ hash_leads[1].when => c = "lang"
          /\ hash_leads[2].when => c = "!"
          /\ hash_leads[4].when => c = "^"
          /\ hash_leads[5].when => c = "?"
      BY DEF hash_leads, Enter, Emit
    <2>4. /\ hash_leads[6].when <=> c = "dq" /\ On("regex_literal")
          /\ hash_leads[7].when <=> c = "{" /\ On("hash_curly_symbol")
          /\ hash_leads[8].when => c = "{"
      BY DEF hash_leads, Enter, Emit
    <2>5. /\ hash_leads[9].when => c = "["
          /\ hash_leads[10].when => c = "["
          /\ hash_leads[11].when <=> c = "/" /\ On("regex_slash")
      BY DEF hash_leads, Enter, Emit
    <2>6. QED
      BY <2>1, <2>2, <2>3, <2>4, <2>5
  <1>4. /\ hash_leads[12].when => rest_starts_with(<<"#", "vu8", "(">>)
        /\ hash_leads[13].when => c \in Opening \ {"("}
        /\ hash_leads[14].when => c = "("
        /\ hash_leads[15].when => c = "("
        /\ hash_leads[17].when => c = "esc"
        /\ hash_leads[18].when => rest_starts_with(<<"#", "u8", "(">>)
        /\ hash_leads[19].when => c \in {"t", "f"} /\ boolean_ends(pos + 2)
        /\ hash_leads[22].when => c = "#"
    BY DEF hash_leads, Enter, Emit
  <1>5. hash_leads[12].when \/ hash_leads[18].when => c \in {"vu8", "u8"} /\ at(pos + 2) = "("
    BY <1>4, ThreeIs
  <1>b. /\ pos \in Nat /\ at(pos) = "#" /\ pos + 1 \in Int /\ Len(source) \in Nat
        /\ pos <= Len(source) + 1 /\ 1 <= pos
    BY SourceTyped DEF peek
  <1>6. source[pos] = "#" /\ pos \in 1..Len(source) /\ "#" \notin Delimiters
    <2>1. pos \in Int /\ peek # EOF
      BY <1>b DEF EOF
    <2>2. QED
      BY <2>1, AtInside, DelimitersAre DEF at, peek, Delimiters
  <1>7. i \notin {6, 11} => Quoted(pos).close = None
    <2> SUFFICES ASSUME i \notin {6, 11}, Quoted(pos).close # None PROVE FALSE
      OBVIOUS
    <2>0. pos \in Int
      BY <1>b
    <2>1. (c = "dq" /\ On("regex_literal")) \/ (c = "/" /\ On("regex_slash"))
      BY <1>b, <2>0, QuotedIs
    <2>2. c = "dq" => i <= 6
      <3>1. c = "dq" => hash_leads[6].when
        BY <1>3, <2>1
      <3>2. QED
        BY <1>2, <3>1
    <2>3. c = "/" => i <= 11
      <3>1. c = "/" => hash_leads[11].when
        BY <1>3, <2>1
      <3>2. QED
        BY <1>2, <3>1
    <2> HIDE DEF c
    <2>4. i \in {1, 2, 3, 4, 5, 7, 8, 9, 10}
      BY <1>2, <2>1, <2>2, <2>3
    <2>5. c \notin {"dq", "/"}
      BY <1>2, <1>3, <2>4
    <2>6. QED
      BY <2>1, <2>5
  <1>8. \A k \in Nat : Past(pos + k) \in Nat
    <2> TAKE k \in Nat
    <2> DEFINE p == Past(pos + k)
    <2>1. p \in pos..Len(source) + 1
      BY PastInside
    <2> HIDE DEF p
    <2>2. p \in Nat
      BY <1>b, <2>1
    <2>3. QED
      BY <2>2 DEF p
  <1>9. c # EOF => source[pos + 1] = c /\ pos + 1 \in 1..Len(source)
    BY <1>b, AtInside DEF at
  <1>10. CASE i \in {3, 4, 5, 8, 12, 13, 14, 15, 18}
    <2>1. /\ i \in {3, 4} => l.kind = "Prefix" /\ l.take = 2
          /\ i = 5 => l.kind = "Prefix" /\ l.take = IF at(pos + 2) = "@" THEN 3 ELSE 2
          /\ i = 8 => l.kind = "Open" /\ l.take = 2
          /\ i \in {13, 14} => l.kind = "HashOpen" /\ l.take = 2
          /\ i \in {12, 18} => l.kind = "HashOpen" /\ l.take = 3
          /\ i = 15 => l.kind = "Prefix" /\ l.take = 1
          /\ l.mode = "next"
      <3>1. /\ hash_leads[3].kind = "Prefix" /\ hash_leads[3].take = 2 /\ hash_leads[3].mode = "next"
            /\ hash_leads[4].kind = "Prefix" /\ hash_leads[4].take = 2 /\ hash_leads[4].mode = "next"
            /\ hash_leads[5].kind = "Prefix" /\ hash_leads[5].mode = "next"
            /\ hash_leads[5].take = IF at(pos + 2) = "@" THEN 3 ELSE 2
            /\ hash_leads[8].kind = "Open" /\ hash_leads[8].take = 2 /\ hash_leads[8].mode = "next"
            /\ hash_leads[12].kind = "HashOpen" /\ hash_leads[12].take = 3
            /\ hash_leads[12].mode = "next"
        BY DEF hash_leads, Enter, Emit
      <3>2. /\ hash_leads[13].kind = "HashOpen" /\ hash_leads[13].take = 2
            /\ hash_leads[13].mode = "next"
            /\ hash_leads[14].kind = "HashOpen" /\ hash_leads[14].take = 2
            /\ hash_leads[14].mode = "next"
            /\ hash_leads[15].kind = "Prefix" /\ hash_leads[15].take = 1
            /\ hash_leads[15].mode = "next"
            /\ hash_leads[18].kind = "HashOpen" /\ hash_leads[18].take = 3
            /\ hash_leads[18].mode = "next"
        BY DEF hash_leads, Enter, Emit
      <3>3. QED
        BY <1>10, <3>1, <3>2
    <2> DEFINE p == Past(pos + l.take)
    <2>2. c # EOF /\ (l.take = 3 => at(pos + 2) \in {"@", "("})
      <3>1. \A d \in Opening : d # EOF
        BY DelimitersAre DEF EOF
      <3>2. i \in {3, 4, 5, 8} => c # EOF
        BY <1>2, <1>3 DEF EOF
      <3>3. i \in {12, 13, 14, 15, 18} => c # EOF
        BY <1>2, <1>4, <1>5, <3>1 DEF EOF
      <3>4. l.take = 3 => at(pos + 2) = "@" \/ i \in {12, 18}
        BY <1>10, <2>1
      <3>5. QED
        BY <1>2, <1>5, <1>10, <3>2, <3>3, <3>4
    <2>3. p = pos + l.take /\ l.take \in {1, 2, 3} /\ p <= Len(source) + 1
      <3>1. l.take \in {1, 2, 3}
        BY <1>10, <2>1
      <3>2. l.take = 3 => at(pos + 2) # EOF
        BY <2>2 DEF EOF
      <3>3. peek # EOF
        BY DEF EOF
      <3>4. QED
        BY <2>2, <3>1, <3>2, <3>3, PastIs
    <2>4. p \in Int /\ pos < p
      BY <1>b, <2>3
    <2>5. at(pos + 2) = "@" => source[pos + 2] \notin Delimiters
      <3> SUFFICES ASSUME at(pos + 2) = "@" PROVE source[pos + 2] \notin Delimiters
        OBVIOUS
      <3>1. source[pos + 2] = "@"
        BY DEF at, EOF
      <3>2. QED
        BY <3>1, DelimitersAre DEF Delimiters
    <2>6. \A d \in {";", "_", "'", ".", "+", "-", "^", "?", "vu8", "u8"} : d \notin Delimiters
      BY DelimitersAre DEF Delimiters
    <2>7. i \in {3, 4, 5, 12, 18} => source[pos + 1] \notin Delimiters
      BY <1>2, <1>3, <1>5, <1>9, <2>2, <2>6
    <2>8. /\ l.kind \in {"Open", "Close", "Prefix", "HashOpen"}
          /\ l.kind = "Prefix" <=> i \in {3, 4, 5, 15}
      BY <1>10, <2>1
    <2>9. i = 5 /\ l.take = 3 => at(pos + 2) = "@"
      BY <2>1
    <2>10. /\ i \in {3, 4, 8, 13, 14} => l.take = 2
           /\ i = 5 => l.take \in {2, 3}
           /\ i \in {12, 18} => l.take = 3
           /\ i = 15 => l.take = 1
      BY <2>1
    <2> HIDE DEF l, p, c
    <2>11. ASSUME NEW j \in pos..p - 1, source[j] \in Delimiters
           PROVE  l.kind # "Prefix" /\ j = p - 1
      <3>1. j # pos
        BY <1>6, <2>11
      <3>2. (j = pos + 1 /\ l.take \in {2, 3}) \/ (j = pos + 2 /\ l.take = 3)
        <4>1. j \in Int /\ pos < j /\ j < pos + l.take
          BY <1>b, <2>3, <2>4, <2>11, <3>1
        <4>2. QED
          BY <1>b, <2>3, <4>1
      <3>3. CASE j = pos + 1 /\ l.take \in {2, 3}
        <4>1. i \in {8, 13, 14}
          BY <1>10, <2>7, <2>10, <2>11, <3>3
        <4>2. p = pos + 2
          BY <2>3, <2>10, <4>1
        <4>3. p - 1 = pos + 1
          BY <1>b, <4>2
        <4>4. QED
          BY <2>8, <3>3, <4>1, <4>3
      <3>4. CASE j = pos + 2 /\ l.take = 3
        <4>1. i \in {12, 18}
          BY <1>10, <2>5, <2>9, <2>10, <2>11, <3>4
        <4>2. p - 1 = pos + 2
          BY <1>b, <2>3, <3>4
        <4>3. QED
          BY <2>8, <3>4, <4>1, <4>2
      <3>5. QED
        BY <3>2, <3>3, <3>4
    <2>12. Quoted(pos).close = None /\ at(pos) # "("
      BY <1>7, <1>b, <1>10
    <2>13. [kind |-> l.kind, first |-> pos, last |-> p - 1] \in Lexemes
      BY <2>3, <2>4, <2>8, <2>11, <2>12, WholeRead
    <2>14. QED
      BY <1>2, <2>1, <2>13 DEF Started, p, l
  <1>11. CASE i = 19
    <2>1. /\ l.kind = "Bool" /\ l.take = 2 /\ l.mode = "next"
          /\ c \in {"t", "f"} /\ boolean_ends(pos + 2)
      <3>1. hash_leads[19].kind = "Bool" /\ hash_leads[19].take = 2 /\ hash_leads[19].mode = "next"
        BY DEF hash_leads, Enter, Emit
      <3>2. QED
        BY <1>2, <1>4, <1>11, <3>1
    <2>2. Past(pos + l.take) = pos + 2 /\ pos + 2 <= Len(source) + 1
      BY <2>1, PastIs DEF EOF
    <2> DEFINE t == [kind |-> "Bool", first |-> pos, last |-> pos + 1]
    <2>3. t.kind = "Bool" /\ t.first = pos /\ t.last = pos + 1
      OBVIOUS
    <2>4. t \in Token
      <3>1. pos \in 1..Len(source) /\ pos + 1 \in 1..Len(source)
        BY <1>b, <2>2
      <3>2. QED
        BY <3>1 DEF Token, TokenKinds
    <2> HIDE DEF t
    <2>5. Shows(t)
      <3>1. source[pos + 1] \notin Delimiters
        BY <1>9, <2>1, DelimitersAre DEF Delimiters, EOF
      <3>2. \A j \in pos..pos + 1 : j = pos \/ j = pos + 1
        BY <1>b
      <3>3. QED
        BY <1>6, <2>3, <3>1, <3>2 DEF Shows
    <2>6. EndsName(t)
      <3> SUFFICES ASSUME pos + 1 # Len(source) PROVE ~InAtom(source[pos + 2])
        <4>1. pos + 1 + 1 = pos + 2
          BY <1>b
        <4>2. QED
          BY <2>3, <4>1 DEF EndsName
      <3>1. pos + 2 \in 1..Len(source) /\ pos + 2 \in Int
        BY <1>b, <2>2
      <3>2. at(pos + 2) = source[pos + 2] /\ at(pos + 2) # EOF
        BY <3>1, AtInside DEF at
      <3>3. QED
        BY <2>1, <3>2 DEF boolean_ends, InAtom
    <2>7. Quoted(pos).close = None /\ at(pos) # "("
      BY <1>b, <1>7, <1>11
    <2>8. t \in Lexemes
      BY <2>3, <2>4, <2>5, <2>6, <2>7 DEF Lexemes
    <2>9. pos + 2 - 1 = pos + 1
      BY <1>b
    <2> HIDE DEF l
    <2>10. [kind |-> l.kind, first |-> pos, last |-> Past(pos + l.take) - 1] = t
      <3>1. l.kind = "Bool" /\ Past(pos + l.take) - 1 = pos + 1
        BY <1>b, <2>1, <2>2
      <3>2. QED
        BY <3>1 DEF t
    <2>11. QED
      BY <1>2, <2>1, <2>8, <2>10 DEF Started, l
  <1>12. CASE i \in {6, 11}
    <2>1. l.kind = "Str" /\ l.take = 2 /\ l.mode = "until"
      <3>1. /\ hash_leads[6].kind = "Str" /\ hash_leads[6].take = 2 /\ hash_leads[6].mode = "until"
            /\ hash_leads[11].kind = "Str" /\ hash_leads[11].take = 2
            /\ hash_leads[11].mode = "until"
        BY DEF hash_leads, Enter
      <3>2. QED
        BY <1>12, <3>1
    <2>2. /\ Quoted(pos).close = c /\ Quoted(pos).from = pos + 2 /\ c \in {"dq", "/"}
      <3>1. (c = "dq" /\ On("regex_literal")) \/ (c = "/" /\ On("regex_slash"))
        BY <1>2, <1>3, <1>12
      <3>2. pos \in Int
        BY <1>b
      <3>3. QED
        BY <1>b, <3>1, <3>2, QuotedIs
    <2>3. Past(pos + l.take) = pos + 2 /\ pos + 2 \in Nat
      BY <1>b, <2>1, <2>2, PastIs DEF EOF
    <2>4. ~GivesBack(pos) /\ Quoted(pos).close # None
      BY <1>b, <2>2 DEF GivesBack, None
    <2>5. [start |-> pos, pos |-> Quoted(pos).from, mode |-> "until", kind |-> "Str"] \in OnTheWay
      BY <1>b, <2>2, <2>3, <2>4, QuotesRead
    <2>6. QED
      BY <1>2, <2>1, <2>2, <2>3, <2>5 DEF Started
  <1>13. CASE i \in {1, 2, 7, 9, 10, 16, 17, 20, 21, 22, 23, 24}
    <2>1. /\ i = 1 => l.mode = "line" /\ l.kind = "LangLine"
          /\ i = 2 => l.mode = "line" /\ l.kind = "LineComment"
          /\ i = 7 => l.mode = "curly" /\ l.kind = "Atom"
          /\ i = 9 => l.mode = "charset" /\ l.kind = "Str"
          /\ i = 10 => l.mode = "delim" /\ l.kind = "Str"
          /\ i = 17 => l.mode = "char" /\ l.kind = "Char"
      <3>1. /\ hash_leads[1].mode = "line" /\ hash_leads[1].kind = "LangLine"
            /\ hash_leads[2].mode = "line" /\ hash_leads[2].kind = "LineComment"
            /\ hash_leads[7].mode = "curly" /\ hash_leads[7].kind = "Atom"
            /\ hash_leads[9].mode = "charset" /\ hash_leads[9].kind = "Str"
            /\ hash_leads[10].mode = "delim" /\ hash_leads[10].kind = "Str"
            /\ hash_leads[17].mode = "char" /\ hash_leads[17].kind = "Char"
        BY DEF hash_leads, Enter
      <3>2. QED
        BY <3>1
    <2>2. /\ i \in {16, 20} => l.mode = "plain" /\ l.kind = "Atom" /\ l.take = 1
          /\ i = 21 => l.mode = "digits" /\ l.kind = "Label" /\ l.take = 1
          /\ i = 22 => l.mode = "plain" /\ l.kind = "Atom" /\ l.take = 2
          /\ i = 23 => l.mode = "tag" /\ l.kind = "HashTag" /\ l.take = 1
          /\ i = 24 => l.mode = "tag" /\ l.kind = "Atom" /\ l.take = 1
      <3>1. /\ hash_leads[16].mode = "plain" /\ hash_leads[16].kind = "Atom"
            /\ hash_leads[16].take = 1
            /\ hash_leads[20].mode = "plain" /\ hash_leads[20].kind = "Atom"
            /\ hash_leads[20].take = 1
            /\ hash_leads[21].mode = "digits" /\ hash_leads[21].kind = "Label"
            /\ hash_leads[21].take = 1
        BY DEF hash_leads, Enter
      <3>2. /\ hash_leads[22].mode = "plain" /\ hash_leads[22].kind = "Atom"
            /\ hash_leads[22].take = 2
            /\ hash_leads[23].mode = "tag" /\ hash_leads[23].kind = "HashTag"
            /\ hash_leads[23].take = 1
            /\ hash_leads[24].mode = "tag" /\ hash_leads[24].kind = "Atom"
            /\ hash_leads[24].take = 1
        BY DEF hash_leads, Enter
      <3>3. QED
        BY <3>1, <3>2
    <2> DEFINE p == Past(pos + l.take)
    <2>3. p \in Nat
      <3>1. Begins(l)
        BY <1>2, HashBegins
      <3>2. QED
        BY <1>8, <3>1 DEF Begins
    <2>4. i \in {16, 20, 21, 23, 24} => p = pos + 1
      BY <2>2, PastIs DEF EOF
    <2>5. i = 22 => p = pos + 2 /\ source[pos + 1] = "#"
      <3>1. i = 22 => c = "#"
        BY <1>2, <1>4
      <3>2. QED
        BY <1>9, <2>2, <3>1, PastIs DEF EOF
    <2> HIDE DEF l, p
    <2>6. /\ l.mode \in {"line", "curly", "charset", "delim", "char", "plain", "digits", "tag"}
          /\ l.kind \in {"LangLine", "LineComment", "Atom", "Str", "Char", "Label", "HashTag"}
          /\ l.mode = "curly" => i = 7
          /\ l.mode \in {"plain", "digits", "tag"} => i \in {16, 20, 21, 22, 23, 24}
      BY <1>13, <2>1, <2>2
    <2>7. l.mode \in Modes \ {"next", "hash", "quoted", "until", "atom"} /\ l.kind \in TokenKinds
      BY <2>6 DEF Modes, TokenKinds
    <2>8. l.kind \in KindsIn(l.mode)
      <3>1. CASE i \in {1, 2, 7, 9, 10, 17}
        BY <2>1, <3>1 DEF KindsIn
      <3>2. CASE i \in {16, 20, 21, 22, 23, 24}
        BY <2>2, <3>2 DEF KindsIn
      <3>3. QED
        BY <1>13, <3>1, <3>2
    <2>9. l.mode = "curly" => HashCurly(pos)
      <3> SUFFICES ASSUME l.mode = "curly" PROVE HashCurly(pos)
        OBVIOUS
      <3>1. c = "{" /\ On("hash_curly_symbol")
        BY <1>2, <1>3, <2>6
      <3>2. pos \in Int
        BY <1>b
      <3>3. Word(pos, <<"#", "{">>)
        BY <1>b, <3>1, <3>2, WordIs
      <3>4. QED
        BY <3>1, <3>3 DEF HashCurly, On
    <2>10. l.mode \in {"space", "digits", "plain", "tag"} => Undelimited(pos, p)
      <3> SUFFICES ASSUME l.mode \in {"space", "digits", "plain", "tag"},
                          NEW j \in pos..p - 1
                   PROVE  source[j] \notin Delimiters
        BY DEF Undelimited
      <3>1. i \in {16, 20, 21, 22, 23, 24}
        BY <2>6
      <3>2. j = pos \/ (j = pos + 1 /\ i = 22)
        BY <1>b, <2>4, <2>5, <3>1
      <3>3. QED
        BY <1>6, <2>5, <3>2
    <2>11. Quoted(pos).close = None /\ at(pos) # "("
      BY <1>b, <1>7, <1>13
    <2>12. [start |-> pos, pos |-> p, mode |-> l.mode, kind |-> l.kind] \in OnTheWay
      BY <1>b, <2>3, <2>7, <2>8, <2>9, <2>10, <2>11, LoopRead
    <2>13. QED
      BY <1>2, <2>6, <2>12 DEF Started, p, l
  <1>14. QED
    <2>1. \/ i \in {3, 4, 5, 8, 12, 13, 14, 15, 18} \/ i = 19 \/ i \in {6, 11}
          \/ i \in {1, 2, 7, 9, 10, 16, 17, 20, 21, 22, 23, 24}
      OBVIOUS
    <2>2. QED
      BY <1>10, <1>11, <1>12, <1>13, <2>1

-----------------------------------------------------------------------------
(* Steps.                                                                  *)

\* The token completed is one of those the lexer may produce.
LEMMA ProducedReads ==
  ASSUME IInv, IInv', Lexing, NEW k, NEW next, complete(k, next),
         [kind |-> k, first |-> start, last |-> next - 1] \in Lexemes
  PROVE  Lexing'
  <1> DEFINE t == [kind |-> k, first |-> start, last |-> next - 1]
             r == [start |-> next, pos |-> next, mode |-> "next", kind |-> kind]
  <1>1. /\ tokens' = Append(tokens, t) /\ pos' = next /\ start' = next /\ mode' = "next"
        /\ source' = source /\ opts' = opts /\ kind' = kind
    BY DEF complete, input
  <1>2. Lexemes' = Lexemes /\ OnTheWay' = OnTheWay
    BY <1>1, LexemesFrame DEF input
  <1>3. t \in Lexemes
    OBVIOUS
  <1> HIDE DEF t
  <1>4. tokens' \in Seq(Lexemes)
    BY <1>1, <1>3, AppendProperties DEF Lexing
  <1>5. r.start = next /\ r.pos = next /\ r.mode = "next" /\ r.kind = kind
    OBVIOUS
  <1>6. next \in Nat /\ kind \in TokenKinds
    <2>1. pos' \in 1..Len(source') + 1 /\ Len(source) \in Nat
      BY SourceTyped DEF IInv, Typed
    <2>2. QED
      BY <1>1, <2>1 DEF IInv, Typed
  <1>7. r \in [start : Nat, pos : Nat, mode : Modes, kind : TokenKinds]
    BY <1>6 DEF Modes
  <1>8. kind \in KindsIn("next")
    BY <1>6 DEF KindsIn
  <1> HIDE DEF r
  <1>9. r \in OnTheWay
    BY <1>5, <1>7, <1>8 DEF OnTheWay
  <1>10. Now' \in OnTheWay
    BY <1>1, <1>9 DEF Now, r
  <1>11. QED
    BY <1>2, <1>4, <1>10 DEF Lexing

\* The token goes on.
LEMMA GoesOnReads ==
  ASSUME Lexing, UNCHANGED <<input, tokens>>, NEW p, NEW m, NEW k, NEW s,
         start' = s, pos' = p, mode' = m, kind' = k,
         [start |-> s, pos |-> p, mode |-> m, kind |-> k] \in OnTheWay
  PROVE  Lexing'
  <1>1. Lexemes' = Lexemes /\ OnTheWay' = OnTheWay /\ tokens' = tokens
    BY LexemesFrame
  <1>2. Now' \in OnTheWay
    BY DEF Now
  <1>3. QED
    BY <1>1, <1>2 DEF Lexing

\* What is completed is a token inside the text.
LEMMA TokenInside ==
  ASSUME IInv, IInv', NEW k, NEW next, complete(k, next)
  PROVE  /\ [kind |-> k, first |-> start, last |-> next - 1] \in Token
         /\ next \in Nat /\ start < next /\ next <= Len(source) + 1
  <1> DEFINE t == [kind |-> k, first |-> start, last |-> next - 1]
  <1>1. tokens' = Append(tokens, t) /\ pos' = next /\ source' = source
    BY DEF complete, input
  <1>2. Token' = Token
    BY <1>1 DEF Token
  <1>3. tokens \in Seq(Token) /\ tokens' \in Seq(Token) /\ Len(tokens) \in Nat
    BY <1>2 DEF IInv, Typed
  <1>4. t.first = start /\ t.last = next - 1
    OBVIOUS
  <1> HIDE DEF t
  <1>5. Len(tokens') = Len(tokens) + 1 /\ tokens'[Len(tokens) + 1] = t
    BY <1>1, <1>3
  <1>6. Len(tokens) + 1 \in 1..Len(tokens')
    BY <1>3, <1>5
  <1>7. t \in Token
    BY <1>3, <1>5, <1>6
  <1>8. t.first <= t.last
    BY <1>5, <1>6 DEF IInv, Tiled
  <1>9. next \in Nat /\ Len(source) \in Nat /\ start \in Nat
    <2>1. pos' \in 1..Len(source') + 1 /\ Len(source) \in Nat /\ start \in Nat
      BY SourceTyped DEF IInv, Typed
    <2>2. QED
      BY <1>1, <2>1
  <1>10. next - 1 \in 1..Len(source)
    BY <1>4, <1>7 DEF Token
  <1>11. QED
    BY <1>4, <1>7, <1>8, <1>9, <1>10 DEF t

\* A row of leads or hash_leads is taken.
LEMMA BeginReads ==
  ASSUME IInv, IInv', Lexing, NEW l, Started(l), Begin(l), pos = start
  PROVE  Lexing'
  <1>1. CASE l.mode = "next"
    <2>1. complete(l.kind, Past(pos + l.take))
      BY <1>1 DEF Begin
    <2>2. [kind |-> l.kind, first |-> start, last |-> Past(pos + l.take) - 1] \in Lexemes
      BY <1>1 DEF Started
    <2>3. QED
      BY <2>1, <2>2, ProducedReads
  <1>2. CASE l.mode # "next"
    <2>1. /\ pos' = Past(pos + l.take) /\ mode' = l.mode /\ kind' = l.kind
          /\ start' = start /\ UNCHANGED <<input, tokens>>
      BY <1>2 DEF Begin
    <2>2. [start |-> start, pos |-> Past(pos + l.take), mode |-> l.mode, kind |-> l.kind]
            \in OnTheWay
      BY <1>2 DEF Started
    <2>3. QED
      BY <2>1, <2>2, GoesOnReads
  <1>3. QED
    BY <1>1, <1>2

\* What is known of the token being read.
LEMMA BeingRead ==
  ASSUME Lexing
  PROVE  /\ kind \in KindsIn(mode)
         /\ mode = "hash" => On("hash_syntax")
         /\ mode \in {"quoted", "until"} => InQuotes(Now)
         /\ mode \notin {"next", "hash", "quoted", "until"} => Quoted(start).close = None
         /\ mode \notin {"next", "hash"} /\ at(start) = "(" => BeginsComment(start)
         /\ mode = "curly" => HashCurly(start)
         /\ mode \in {"space", "digits", "plain", "tag"} => Undelimited(start, pos)
         /\ mode = "atom" => InName(start, pos)
  <1>1. Now.start = start /\ Now.pos = pos /\ Now.mode = mode /\ Now.kind = kind
    BY DEF Now
  <1>2. Now \in OnTheWay
    BY DEF Lexing
  <1> HIDE DEF Now
  <1>3. QED
    BY <1>1, <1>2 DEF OnTheWay

\* A lexeme without a closing character is completed.
LEMMA PlainCompletes ==
  ASSUME IInv, IInv', Lexing, mode \notin {"next", "hash", "quoted", "until"},
         NEW k, NEW next, complete(k, next), NEW t,
         t = [kind |-> k, first |-> start, last |-> next - 1],
         k = "Unterminated" => next = Len(source) + 1,
         k \in Names /\ ~Verbatim(t) => EndsName(t),
         ~Verbatim(t) => Shows(t)
  PROVE  Lexing'
  <1>1. t \in Token /\ t.kind = k /\ t.first = start /\ t.last = next - 1
    BY TokenInside
  <1>2. Quoted(start).close = None /\ (at(start) = "(" => BeginsComment(start))
    BY BeingRead
  <1>3. k = "Unterminated" => CutRight(t)
    <2>1. ~GivesBack(start)
      BY <1>2 DEF GivesBack, None
    <2>2. k = "Unterminated" => t.last = Len(source)
      BY <1>1, SourceTyped DEF IInv
    <2>3. Len(source) \in Nat
      BY SourceTyped DEF IInv
    <2>4. QED
      BY <1>1, <2>1, <2>2, <2>3 DEF CutRight
  <1>4. t \in Lexemes
    BY <1>1, <1>2, <1>3 DEF Lexemes
  <1>5. QED
    BY <1>4, ProducedReads

LEMMA EndOfSource ==
  ASSUME Typed, peek = EOF
  PROVE  pos = Len(source) + 1
  <1>1. pos \in Int /\ pos \notin 1..Len(source)
    BY AtInside, SourceTyped DEF peek
  <1>2. QED
    BY <1>1, SourceTyped

\* Loops over text that is taken as it is.
VerbatimLoops == {"line", "block", "backticks", "delim", "bracket", "charset", "char", "alnum",
                  "question", "curly"}

LEMMA VerbatimReads ==
  ASSUME IInv, IInv', Lexing, mode \in VerbatimLoops,
         \/ peek = EOF /\ Unterminated
         \/ \E j \in Nat : token(j)
         \/ /\ UNCHANGED <<input, start, kind, tokens>>
            /\ mode' = mode \/ {mode, mode'} \subseteq VerbatimLoops \ {"curly"}
  PROVE  Lexing'
  <1>1. /\ mode = "curly" => kind = "Atom"
        /\ mode # "curly" => kind \in {"Str", "LineComment", "BlockComment", "LangLine", "Char"}
    BY BeingRead DEF KindsIn, VerbatimLoops
  <1>2. /\ Quoted(start).close = None /\ (at(start) = "(" => BeginsComment(start))
        /\ mode = "curly" => HashCurly(start)
        /\ mode \notin {"next", "hash", "quoted", "until"}
    BY BeingRead DEF VerbatimLoops
  <1>3. CASE peek = EOF /\ Unterminated
    <2> DEFINE t == [kind |-> "Unterminated", first |-> start, last |-> pos - 1]
    <2>1. complete("Unterminated", pos) /\ pos = Len(source) + 1
      BY <1>3, EndOfSource DEF Unterminated, IInv
    <2>2. Verbatim(t) /\ "Unterminated" \notin Names
      BY DEF Verbatim, Names
    <2> HIDE DEF t
    <2>3. t = [kind |-> "Unterminated", first |-> start, last |-> pos - 1]
      BY DEF t
    <2>4. QED
      BY <1>2, <2>1, <2>2, <2>3, PlainCompletes
  <1>4. CASE \E j \in Nat : token(j)
    <2>1. PICK next : complete(kind, next)
      BY <1>4 DEF token
    <2> DEFINE t == [kind |-> kind, first |-> start, last |-> next - 1]
    <2>2. Verbatim(t) /\ kind # "Unterminated"
      BY <1>1, <1>2 DEF Verbatim
    <2> HIDE DEF t
    <2>3. t = [kind |-> kind, first |-> start, last |-> next - 1]
      BY DEF t
    <2>4. QED
      BY <1>2, <2>1, <2>2, <2>3, PlainCompletes
  <1>5. CASE /\ UNCHANGED <<input, start, kind, tokens>>
             /\ mode' = mode \/ {mode, mode'} \subseteq VerbatimLoops \ {"curly"}
    <2>1. PICK m, p : m = mode' /\ p = pos'
      OBVIOUS
    <2>2. m \in VerbatimLoops /\ (m = "curly" => mode = "curly") /\ (m # "curly" => mode # "curly")
      BY <1>5, <2>1
    <2>3. m \in Modes \ {"next", "hash", "quoted", "until", "atom"}
          /\ m \notin {"space", "digits", "plain", "tag"}
      BY <2>2 DEF VerbatimLoops, Modes
    <2>4. kind \in KindsIn(m)
      BY <1>1, <2>2 DEF KindsIn, VerbatimLoops
    <2>5. p \in Nat /\ start \in Nat /\ kind \in TokenKinds
      <3>1. pos' \in 1..Len(source') + 1 /\ source' = source /\ Len(source) \in Nat
            /\ start \in Nat /\ kind \in TokenKinds
        BY <1>5, SourceTyped DEF IInv, Typed, input
      <3>2. QED
        BY <2>1, <3>1
    <2>6. [start |-> start, pos |-> p, mode |-> m, kind |-> kind] \in OnTheWay
      BY <1>2, <2>2, <2>3, <2>4, <2>5, LoopRead
    <2>7. QED
      BY <1>5, <2>1, <2>6, GoesOnReads
  <1>6. QED
    BY <1>3, <1>4, <1>5

LEMMA VerbatimStepsRead ==
  ASSUME IInv, IInv', Lexing,
         \/ ConsumeLineRest \/ Deepen \/ InBlockComment \/ BacktickString \/ BracketDelim
         \/ BracketString \/ CharSet \/ HashCurlySymbol \/ LexChar \/ Name \/ QuestionChar
  PROVE  Lexing'
  <1> DEFINE Taken == \/ peek = EOF /\ Unterminated
                      \/ \E j \in Nat : token(j)
                      \/ /\ UNCHANGED <<input, start, kind, tokens>>
                         /\ mode' = mode \/ {mode, mode'} \subseteq VerbatimLoops \ {"curly"}
  <1>1. mode \in VerbatimLoops
    BY DEF VerbatimLoops, ConsumeLineRest, Deepen, InBlockComment, BacktickString, BracketDelim,
           BracketString, CharSet, HashCurlySymbol, LexChar, Name, QuestionChar
  <1>2. \A k : bump(k) => Taken
    BY DEF bump
  <1>3. \A j \in Nat : token(j) => Taken
    OBVIOUS
  <1>4. peek = EOF /\ Unterminated => Taken
    OBVIOUS
  <1>5. UNCHANGED <<input, start, mode, kind, tokens>> => Taken
    OBVIOUS
  <1>6. UNCHANGED <<input, start, kind, tokens>> /\ {mode, mode'} \subseteq VerbatimLoops \ {"curly"}
          => Taken
    OBVIOUS
  <1>s. SUFFICES Taken
    BY <1>1, VerbatimReads
  <1> HIDE DEF Taken
  <1>7. CASE ConsumeLineRest
    BY <1>2, <1>3, <1>7 DEF ConsumeLineRest
  <1>8. CASE Deepen
    BY <1>5, <1>8 DEF Deepen
  <1>9. CASE InBlockComment
    <2>1. \/ peek = EOF /\ Unterminated
          \/ token(Len(opts.block_comment.close)) \/ bump(1)
          \/ UNCHANGED <<input, start, mode, kind, tokens>>
      BY <1>9 DEF InBlockComment
    <2>2. Len(opts.block_comment.close) \in Nat
      BY SourceTyped DEF IInv, OptionsType
    <2>3. QED
      BY <1>2, <1>3, <1>4, <1>5, <2>1, <2>2
  <1>10. CASE BacktickString
    <2>1. Backticks \in Nat
      BY BackticksCounted, SourceTyped DEF IInv
    <2>2. QED
      BY <1>2, <1>3, <1>4, <1>10, <2>1 DEF BacktickString
  <1>11. CASE BracketDelim
    <2>1. \/ peek = EOF /\ Unterminated
          \/ bump(1)
          \/ mode = "delim" /\ mode' = "bracket" /\ UNCHANGED <<input, start, kind, tokens>>
      BY <1>11 DEF BracketDelim
    <2>2. QED
      BY <1>2, <1>4, <1>6, <2>1 DEF VerbatimLoops
  <1>12. CASE BracketString
    <2>1. n + 2 \in Nat
      BY SourceTyped DEF IInv
    <2>2. QED
      BY <1>2, <1>3, <1>4, <1>12, <2>1 DEF BracketString
  <1>13. CASE CharSet
    BY <1>2, <1>3, <1>4, <1>13 DEF CharSet
  <1>14. CASE HashCurlySymbol
    BY <1>2, <1>3, <1>4, <1>14 DEF HashCurlySymbol
  <1>15. CASE LexChar
    <2>1. \/ token(1)
          \/ mode = "char" /\ mode' = "alnum" /\ UNCHANGED <<input, start, kind, tokens>>
      BY <1>15 DEF LexChar
    <2>2. QED
      BY <1>3, <1>6, <2>1 DEF VerbatimLoops
  <1>16. CASE Name
    BY <1>2, <1>3, <1>16 DEF Name
  <1>17. CASE QuestionChar
    <2>1. \/ bump(3) \/ token(3) \/ token(2) \/ token(1)
          \/ mode = "question" /\ mode' = "alnum" /\ UNCHANGED <<input, start, kind, tokens>>
      BY <1>17 DEF QuestionChar
    <2>2. QED
      BY <1>2, <1>3, <1>6, <2>1 DEF VerbatimLoops
  <1>18. QED
    BY <1>7, <1>8, <1>9, <1>10, <1>11, <1>12, <1>13, <1>14, <1>15, <1>16, <1>17

\* The character at the position, inside the text.
LEMMA PeekInside ==
  ASSUME Typed, peek # EOF
  PROVE  pos \in 1..Len(source) /\ source[pos] = peek /\ Past(pos + 1) = pos + 1
  <1>1. pos \in Int
    BY SourceTyped
  <1>2. QED
    BY <1>1, AtInside, PastIs DEF at, peek

\* Blanks, labels, and the `#' lexemes that end like a name.
UndelimitedLoops == {"space", "digits", "plain", "tag"}

LEMMA UndelimitedGoesOn ==
  ASSUME IInv, IInv', Lexing, mode \in UndelimitedLoops, UNCHANGED <<input, start, tokens>>,
         pos' = pos \/ (pos' = pos + 1 /\ peek # EOF /\ peek \notin Delimiters),
         (mode' = mode /\ kind' = kind) \/ (mode' = "tag" /\ kind' = "Atom")
  PROVE  Lexing'
  <1>1. PICK m, k, p : m = mode' /\ k = kind' /\ p = pos'
    OBVIOUS
  <1>2. pos \in Nat /\ start \in Nat /\ start <= pos /\ Len(source) \in Nat /\ kind \in TokenKinds
    BY SourceTyped DEF IInv, Typed
  <1>3. p \in Nat /\ (p = pos \/ (p = pos + 1 /\ peek # EOF /\ peek \notin Delimiters))
    BY <1>1, <1>2
  <1>4. m \in UndelimitedLoops /\ k \in KindsIn(m) /\ k \in TokenKinds
    BY <1>1, <1>2, BeingRead DEF UndelimitedLoops, KindsIn, TokenKinds
  <1>5. m \in Modes \ {"next", "hash", "quoted", "until", "atom"} /\ m # "curly"
    BY <1>4 DEF UndelimitedLoops, Modes
  <1>6. mode \notin {"next", "hash", "quoted", "until"} /\ mode \in {"space", "digits", "plain", "tag"}
    BY DEF UndelimitedLoops
  <1>7. Quoted(start).close = None /\ (at(start) = "(" => BeginsComment(start))
        /\ Undelimited(start, pos)
    BY <1>6, BeingRead
  <1>8. Undelimited(start, p)
    <2> SUFFICES ASSUME NEW j \in start..p - 1 PROVE source[j] \notin Delimiters
      BY DEF Undelimited
    <2>1. CASE j \in start..pos - 1
      BY <1>7, <2>1 DEF Undelimited
    <2>2. CASE j \notin start..pos - 1
      <3>1. j = pos /\ peek # EOF /\ peek \notin Delimiters
        BY <1>2, <1>3, <2>2
      <3>2. QED
        BY <3>1, PeekInside DEF IInv
    <2>3. QED
      BY <2>1, <2>2
  <1>9. [start |-> start, pos |-> p, mode |-> m, kind |-> k] \in OnTheWay
    BY <1>2, <1>3, <1>4, <1>5, <1>7, <1>8, LoopRead
  <1>10. QED
    BY <1>1, <1>9, GoesOnReads

LEMMA UndelimitedCompletes ==
  ASSUME IInv, IInv', Lexing, mode \in UndelimitedLoops, NEW k, NEW next, complete(k, next),
         next = pos \/ (next = pos + 1 /\ peek # EOF /\ (peek \notin Delimiters \/ k = "HashOpen")),
         k # "Unterminated", k \in Names => next = pos /\ ~InAtom(peek)
  PROVE  Lexing'
  <1> DEFINE t == [kind |-> k, first |-> start, last |-> next - 1]
  <1>1. t.kind = k /\ t.first = start /\ t.last = next - 1
    OBVIOUS
  <1> HIDE DEF t
  <1>2. pos \in Nat /\ start \in Nat /\ start <= pos /\ Len(source) \in Nat /\ next \in Nat
        /\ pos <= Len(source) + 1
    BY SourceTyped DEF IInv
  <1>3. Undelimited(start, pos)
    BY BeingRead DEF UndelimitedLoops
  <1>4. Shows(t)
    <2> SUFFICES ASSUME NEW j \in start..next - 1, source[j] \in Delimiters
                 PROVE  k = "HashOpen" /\ j = next - 1
      BY <1>1 DEF Shows
    <2>1. j \notin start..pos - 1
      BY <1>3 DEF Undelimited
    <2>2. j = pos /\ next = pos + 1
      BY <1>2, <2>1
    <2>3. peek # EOF
      BY <1>2, <2>2
    <2>4. peek \in Delimiters
      BY <2>2, <2>3, PeekInside DEF IInv
    <2>5. QED
      BY <1>2, <2>2, <2>4
  <1>5. k \in Names => EndsName(t)
    <2> SUFFICES ASSUME k \in Names, pos - 1 # Len(source) PROVE ~InAtom(source[pos - 1 + 1])
      BY <1>1 DEF EndsName
    <2>1. pos - 1 + 1 = pos /\ pos \in 1..Len(source)
      <3>1. 1 <= pos
        BY SourceTyped DEF IInv
      <3>2. QED
        BY <1>2, <3>1
    <2>2. source[pos] = peek
      BY <2>1 DEF peek, at
    <2>3. QED
      BY <2>1, <2>2
  <1>6. mode \notin {"next", "hash", "quoted", "until"}
    BY DEF UndelimitedLoops
  <1>7. t = [kind |-> k, first |-> start, last |-> next - 1]
    BY DEF t
  <1>8. QED
    BY <1>4, <1>5, <1>6, <1>7, PlainCompletes

LEMMA UndelimitedStepsRead ==
  ASSUME IInv, IInv', Lexing, WhitespaceRun \/ ConsumeAtomBody \/ LexLabel
  PROVE  Lexing'
  <1>1. mode \in UndelimitedLoops
    BY DEF UndelimitedLoops, WhitespaceRun, ConsumeAtomBody, LexLabel
  <1>2. /\ mode = "space" => kind = "Whitespace"
        /\ mode = "digits" => kind = "Label"
        /\ mode = "plain" => kind = "Atom"
        /\ mode = "tag" => kind \in {"Atom", "HashTag"}
    BY BeingRead DEF KindsIn
  <1>3. ASSUME bump(1), peek # EOF, peek \notin Delimiters
        PROVE  Lexing'
    <2>1. pos' = pos + 1 /\ mode' = mode /\ kind' = kind /\ UNCHANGED <<input, start, tokens>>
      BY <1>3, PeekInside DEF bump, IInv
    <2>2. QED
      BY <1>1, <1>3, <2>1, UndelimitedGoesOn
  <1>4. ASSUME token(0), kind \in Names => ~InAtom(peek), kind # "Unterminated"
        PROVE  Lexing'
    <2>1. complete(kind, pos)
      <3>1. pos + 0 = pos
        BY SourceTyped DEF IInv
      <3>2. QED
        BY <1>4, <3>1, PastIs DEF token, IInv
    <2>2. QED
      BY <1>1, <1>4, <2>1, UndelimitedCompletes
  <1>5. CASE WhitespaceRun
    <2>1. mode = "space" /\ IF is_whitespace(peek) THEN bump(1) ELSE token(0)
      BY <1>5 DEF WhitespaceRun
    <2>2. is_whitespace(peek) => peek # EOF /\ peek \notin Delimiters
      BY DelimitersAre DEF is_whitespace, Blanks, EOF
    <2>3. kind = "Whitespace" /\ kind \notin Names
      BY <1>2, <2>1 DEF Names
    <2>4. QED
      BY <1>3, <1>4, <2>1, <2>2, <2>3
  <1>6. CASE ConsumeAtomBody
    <2>1. CASE InAtom(peek)
      <3>1. bump(1)
        BY <1>6, <2>1, DelimitersAre DEF ConsumeAtomBody, Delimiters
      <3>2. QED
        BY <1>3, <2>1, <3>1, DelimitersAre
    <2>2. CASE ~InAtom(peek) /\ mode = "tag" /\ peek \in Opening
      <3>1. complete("HashOpen", pos + 1)
        BY <1>6, <2>2 DEF ConsumeAtomBody
      <3>2. peek # EOF /\ "HashOpen" \notin Names
        BY <2>2, DelimitersAre DEF Delimiters, Names
      <3>3. QED
        BY <1>1, <3>1, <3>2, UndelimitedCompletes
    <2>3. CASE ~InAtom(peek) /\ ~(mode = "tag" /\ peek \in Opening)
      <3>1. token(0) /\ mode \in {"plain", "tag"}
        BY <1>6, <2>3 DEF ConsumeAtomBody
      <3>2. kind # "Unterminated"
        BY <1>2, <3>1
      <3>3. QED
        BY <1>4, <2>3, <3>1, <3>2
    <2>4. QED
      BY <2>1, <2>2, <2>3
  <1>7. CASE LexLabel
    <2>1. mode = "digits" /\ kind = "Label"
      BY <1>2, <1>7 DEF LexLabel
    <2>2. \/ peek = "0" /\ bump(1)
          \/ peek = "=" /\ token(1)
          \/ peek = "#" /\ complete("LabelRef", pos + 1)
          \/ mode' = "tag" /\ kind' = "Atom" /\ UNCHANGED <<input, pos, start, n, tokens>>
      BY <1>7 DEF LexLabel
    <2>3. \A d \in {"0", "=", "#"} : d # EOF /\ d \notin Delimiters
      BY DelimitersAre DEF Delimiters, EOF
    <2>4. CASE peek = "0" /\ bump(1)
      BY <1>3, <2>3, <2>4
    <2>5. CASE peek = "=" /\ token(1)
      <3>1. complete("Label", pos + 1)
        BY <2>1, <2>3, <2>5, PeekInside DEF token, IInv
      <3>2. QED
        BY <1>1, <2>3, <2>5, <3>1, UndelimitedCompletes DEF Names
    <2>6. CASE peek = "#" /\ complete("LabelRef", pos + 1)
      BY <1>1, <2>3, <2>6, UndelimitedCompletes DEF Names
    <2>7. CASE mode' = "tag" /\ kind' = "Atom" /\ UNCHANGED <<input, pos, start, n, tokens>>
      BY <1>1, <2>7, UndelimitedGoesOn
    <2>8. QED
      BY <2>2, <2>4, <2>5, <2>6, <2>7
  <1>8. QED
    BY <1>5, <1>6, <1>7

\* A symbol with escapes: a delimiter belongs to it only behind a backslash that
\* is none of the characters escaped itself.
LEMMA AtomStepReads ==
  ASSUME IInv, IInv', Lexing, LexAtom
  PROVE  Lexing'
  <1>1. mode = "atom" /\ kind = "Atom" /\ InName(start, pos) /\ Quoted(start).close = None
        /\ (at(start) = "(" => BeginsComment(start))
    BY BeingRead DEF LexAtom, KindsIn
  <1>2. pos \in Nat /\ start \in Nat /\ start <= pos /\ Len(source) \in Nat /\ 1 <= start
        /\ pos <= Len(source) + 1
    BY SourceTyped DEF IInv
  <1>a. pos \in Int /\ start \in Int
    BY <1>2
  <1>3. \/ peek = "esc" /\ On("symbol_escape") /\ bump(2)
        \/ InAtom(peek) /\ ~(peek = "esc" /\ On("symbol_escape")) /\ bump(1)
        \/ ~InAtom(peek) /\ token(0)
    BY DEF LexAtom
  \* The name goes on with nothing in it that is not escaped.
  <1>4. ASSUME NEW p \in Nat, pos' = p, UNCHANGED <<input, start, mode, kind, tokens>>,
               InName(start, p)
        PROVE  Lexing'
    <2> DEFINE r == [start |-> start, pos |-> p, mode |-> "atom", kind |-> "Atom"]
    <2>1. r.start = start /\ r.pos = p /\ r.mode = "atom" /\ r.kind = "Atom"
      OBVIOUS
    <2>2. r \in [start : Nat, pos : Nat, mode : Modes, kind : TokenKinds]
      BY <1>2 DEF Modes, TokenKinds
    <2>3. "Atom" \in KindsIn("atom")
      BY DEF KindsIn
    <2> HIDE DEF r
    <2>4. r \in OnTheWay
      BY <1>1, <1>4, <2>1, <2>2, <2>3 DEF OnTheWay
    <2>5. pos' = p /\ start' = start /\ mode' = "atom" /\ kind' = "Atom"
          /\ UNCHANGED <<input, tokens>>
      BY <1>1, <1>4
    <2>6. [start |-> start, pos |-> p, mode |-> "atom", kind |-> "Atom"] \in OnTheWay
      BY <2>4 DEF r
    <2>7. QED
      BY <2>5, <2>6, GoesOnReads
  <1>5. CASE peek = "esc" /\ On("symbol_escape") /\ bump(2)
    <2>1. pos \in 1..Len(source) /\ source[pos] = "esc"
      BY <1>5, PeekInside DEF EOF, IInv
    <2>2. ~Escaped(pos, start)
      BY <1>1, <1>2, <1>5, <2>1 DEF InName
    <2>3. Escaped(pos + 1, start)
      BY <1>2, <1>a, <2>1, <2>2, EscapedNext
    <2>4. ~Escaped(pos + 2, start)
      <3>1. pos + 1 \in Int /\ start <= pos + 1 /\ pos + 1 + 1 = pos + 2 /\ start \in Int
        BY <1>2
      <3>2. Escaped(pos + 1 + 1, start) <=> source[pos + 1] = "esc" /\ ~Escaped(pos + 1, start)
        BY <3>1, EscapedNext
      <3>3. QED
        BY <2>3, <3>1, <3>2
    <2> DEFINE p == Past(pos + 2)
    <2>5. p \in {pos + 1, pos + 2} /\ (p <= Len(source) => p = pos + 2)
      BY <1>2, <2>1 DEF Past
    <2> HIDE DEF p
    <2>6. p \in Nat /\ (p - pos = 1 \/ p - pos = 2)
      BY <1>2, <2>5
    <2>7. InName(start, p)
      <3>1. ASSUME NEW j \in start..p - 1, source[j] \in Delimiters
            PROVE  On("symbol_escape") /\ Escaped(j, start)
        <4>1. j \in start..pos - 1 \/ j = pos \/ j = pos + 1
          BY <1>2, <2>5
        <4>2. j # pos
          BY <2>1, <3>1, DelimitersAre DEF Delimiters
        <4>3. CASE j \in start..pos - 1
          BY <1>1, <3>1, <4>3 DEF InName
        <4>4. CASE j = pos + 1
          BY <1>5, <2>3, <4>4
        <4>5. QED
          BY <4>1, <4>2, <4>3, <4>4
      <3>2. p <= Len(source) => ~Escaped(p, start)
        BY <2>4, <2>5
      <3>3. QED
        BY <3>1, <3>2 DEF InName
    <2>8. pos' = p /\ UNCHANGED <<input, start, mode, kind, tokens>>
      BY <1>5 DEF bump, p
    <2>9. QED
      BY <1>4, <2>6, <2>7, <2>8
  <1>6. CASE InAtom(peek) /\ ~(peek = "esc" /\ On("symbol_escape")) /\ bump(1)
    <2>1. peek # EOF /\ peek \notin Delimiters
      BY <1>6, DelimitersAre
    <2>2. pos \in 1..Len(source) /\ source[pos] = peek /\ pos' = pos + 1
      BY <1>6, <2>1, PeekInside DEF IInv, bump
    <2>3. On("symbol_escape") => ~Escaped(pos + 1, start)
      BY <1>2, <1>6, <1>a, <2>2, EscapedNext
    <2> DEFINE p == pos + 1
    <2>a. p - 1 = pos
      BY <1>2
    <2> HIDE DEF p
    <2>4. InName(start, p)
      <3>1. ASSUME NEW j \in start..p - 1, source[j] \in Delimiters
            PROVE  On("symbol_escape") /\ Escaped(j, start)
        <4>1. j \in start..pos - 1 \/ j = pos
          BY <1>2, <2>a
        <4>2. j # pos
          BY <2>1, <2>2, <3>1
        <4>3. QED
          BY <1>1, <3>1, <4>1, <4>2 DEF InName
      <3>2. On("symbol_escape") /\ p <= Len(source) => ~Escaped(p, start)
        BY <2>3 DEF p
      <3>3. QED
        BY <3>1, <3>2 DEF InName
    <2>5. UNCHANGED <<input, start, mode, kind, tokens>> /\ p \in Nat /\ pos' = p
      BY <1>2, <1>6, <2>2 DEF bump, p
    <2>6. QED
      BY <1>4, <2>4, <2>5
  <1>7. CASE ~InAtom(peek) /\ token(0)
    <2> DEFINE t == [kind |-> "Atom", first |-> start, last |-> pos - 1]
    <2>1. t.kind = "Atom" /\ t.first = start /\ t.last = pos - 1
      OBVIOUS
    <2>2. complete("Atom", pos)
      <3>1. pos + 0 = pos
        BY <1>2
      <3>2. QED
        BY <1>1, <1>7, <3>1, PastIs DEF token, IInv
    <2> HIDE DEF t
    <2>3. Shows(t)
      BY <1>1, <2>1 DEF Shows, InName
    <2>4. EndsName(t)
      <3> SUFFICES ASSUME pos - 1 # Len(source) PROVE ~InAtom(source[pos - 1 + 1])
        BY <2>1 DEF EndsName
      <3>1. pos - 1 + 1 = pos /\ pos \in 1..Len(source)
        BY <1>2
      <3>2. source[pos] = peek
        BY <3>1 DEF peek, at
      <3>3. QED
        BY <1>7, <3>1, <3>2
    <2>5. t = [kind |-> "Atom", first |-> start, last |-> pos - 1]
      BY DEF t
    <2>6. QED
      BY <1>1, <2>2, <2>3, <2>4, <2>5, PlainCompletes
  <1>8. QED
    BY <1>3, <1>5, <1>6, <1>7

-----------------------------------------------------------------------------
(* Lexemes with a closing character.                                       *)

LEMMA QuotesBeingRead ==
  ASSUME IInv, Lexing, mode \in {"quoted", "until"}
  PROVE  /\ close_quote = Quoted(start).close /\ Quoted(start).close \in {"dq", "|", "/"}
         /\ Quoted(start).from \in {start + 1, start + 2} /\ Clean(start, pos)
         /\ at(start) # "(" /\ kind \in {"Str", "Atom"}
         /\ mode = "quoted" => GivesBack(start) /\ content_start = Quoted(start).from
         /\ mode = "until" => ~GivesBack(start)
  <1>1. InQuotes(Now) /\ kind \in KindsIn(mode)
    BY BeingRead
  <1>2. Now.start = start /\ Now.pos = pos /\ Now.mode = mode /\ Now.kind = kind
    BY DEF Now
  <1> HIDE DEF Now
  <1>3. kind \in {"Str", "Atom"}
    BY <1>1 DEF KindsIn
  <1>4. /\ Quoted(start).close # None /\ Clean(start, pos)
        /\ mode = "quoted" =>
             /\ GivesBack(start)
             /\ Quoted(start).from = IF kind = "Atom" THEN start + 2 ELSE start + 1
        /\ mode = "until" =>
             /\ ~GivesBack(start)
             /\ Quoted(start).close = IF at(start) = "|" THEN "|" ELSE at(start + 1)
    BY <1>1, <1>2 DEF InQuotes
  <1>5. start \in Int
    BY SourceTyped DEF IInv
  <1>6. /\ Quoted(start).close \in {"dq", "|", "/"} /\ at(start) # "("
        /\ Quoted(start).from \in {start + 1, start + 2}
    BY <1>4, <1>5, QuotedIs
  <1>7. close_quote = Quoted(start).close
    <2>1. CASE mode = "quoted"
      BY <1>4, <2>1 DEF close_quote, GivesBack
    <2>2. CASE mode = "until"
      BY <1>4, <2>2 DEF close_quote
    <2>3. QED
      BY <2>1, <2>2
  <1>8. mode = "quoted" => content_start = Quoted(start).from
    BY <1>4 DEF content_start
  <1>9. QED
    BY <1>3, <1>4, <1>6, <1>7, <1>8

\* What follows a backslash is passed over with it.
LEMMA UntilReads ==
  ASSUME IInv, IInv', Lexing, UntilUnescaped
  PROVE  Lexing'
  <1> DEFINE from == Quoted(start).from
             close == Quoted(start).close
  <1>1. /\ mode \in {"quoted", "until"} /\ peek # EOF
        /\ peek # close_quote /\ bump(IF peek = "esc" THEN 2 ELSE 1)
    BY DEF UntilUnescaped
  <1>2. /\ close_quote = close /\ close \in {"dq", "|", "/"} /\ from \in {start + 1, start + 2}
        /\ Clean(start, pos)
    BY <1>1, QuotesBeingRead
  <1>3. /\ pos \in Nat /\ start \in Nat /\ Len(source) \in Nat /\ pos <= Len(source) + 1
        /\ pos \in Int
    BY SourceTyped DEF IInv
  <1>4. pos \in 1..Len(source) /\ source[pos] = peek /\ Past(pos + 1) = pos + 1
    BY <1>1, PeekInside DEF IInv
  <1>5. from \in Int
    BY <1>2, <1>3
  <1> HIDE DEF from, close
  <1>6. /\ from <= pos /\ ~Escaped(pos, from)
        /\ \A i \in from..pos - 1 : source[i] = close => Escaped(i, from)
    BY <1>2, <1>3, <1>4 DEF Clean, from, close
  <1> DEFINE p == Past(pos + IF peek = "esc" THEN 2 ELSE 1)
  <1>7. Clean(start, p) /\ p \in Nat
    <2>1. CASE peek = "esc"
      <3>1. Escaped(pos + 1, from)
        BY <1>3, <1>4, <1>5, <1>6, <2>1, EscapedNext
      <3>2. ~Escaped(pos + 2, from)
        <4>1. pos + 1 \in Int /\ from <= pos + 1 /\ pos + 1 + 1 = pos + 2
          BY <1>3, <1>5, <1>6
        <4>2. Escaped(pos + 1 + 1, from) <=> source[pos + 1] = "esc" /\ ~Escaped(pos + 1, from)
          BY <1>5, <4>1, EscapedNext
        <4>3. QED
          BY <3>1, <4>1, <4>2
      <3>3. p \in {pos + 1, pos + 2} /\ (p <= Len(source) => p = pos + 2)
        BY <1>3, <1>4, <2>1 DEF Past
      <3> HIDE DEF p
      <3>4. \A i \in from..p - 1 : source[i] = close => Escaped(i, from)
        <4> SUFFICES ASSUME NEW i \in from..p - 1, source[i] = close PROVE Escaped(i, from)
          OBVIOUS
        <4>1. i \in from..pos - 1 \/ i = pos \/ i = pos + 1
          BY <1>3, <1>5, <3>3
        <4>2. i # pos
          BY <1>2, <1>4, <2>1
        <4>3. QED
          BY <1>6, <3>1, <4>1, <4>2
      <3>5. from <= p /\ p \in Nat
        BY <1>3, <1>5, <1>6, <3>3
      <3>6. p <= Len(source) => ~Escaped(p, from)
        BY <3>2, <3>3
      <3>7. QED
        BY <3>4, <3>5, <3>6 DEF Clean, from, close
    <2>2. CASE peek # "esc"
      <3>1. p = pos + 1
        BY <1>4, <2>2
      <3> HIDE DEF p
      <3>2. ~Escaped(pos + 1, from)
        BY <1>3, <1>4, <1>5, <1>6, <2>2, EscapedNext
      <3>3. \A i \in from..p - 1 : source[i] = close => Escaped(i, from)
        <4> SUFFICES ASSUME NEW i \in from..p - 1, source[i] = close PROVE Escaped(i, from)
          OBVIOUS
        <4>1. i \in from..pos - 1 \/ i = pos
          BY <1>3, <1>5, <3>1
        <4>2. i # pos
          BY <1>1, <1>2, <1>4
        <4>3. QED
          BY <1>6, <4>1, <4>2
      <3>4. from <= p /\ p \in Nat /\ (p <= Len(source) => ~Escaped(p, from))
        BY <1>3, <1>5, <1>6, <3>1, <3>2
      <3>5. QED
        BY <3>3, <3>4 DEF Clean, from, close
    <2>3. QED
      BY <2>1, <2>2
  <1>8. pos' = p /\ UNCHANGED <<input, start, mode, kind, tokens>>
    BY <1>1 DEF bump
  <1> HIDE DEF p
  <1> DEFINE r == [start |-> start, pos |-> p, mode |-> mode, kind |-> kind]
  <1>9. r.start = start /\ r.pos = p /\ r.mode = mode /\ r.kind = kind
    OBVIOUS
  <1>10. r \in [start : Nat, pos : Nat, mode : Modes, kind : TokenKinds]
    BY <1>3, <1>7 DEF IInv, Typed
  <1>11. /\ InQuotes(Now) /\ kind \in KindsIn(mode)
         /\ Now.start = start /\ Now.pos = pos /\ Now.mode = mode /\ Now.kind = kind
    BY <1>1, BeingRead DEF Now
  <1> HIDE DEF r, Now
  <1>12. InQuotes(r)
    BY <1>7, <1>9, <1>11 DEF InQuotes
  <1>13. at(start) # "("
    BY <1>1, QuotesBeingRead
  <1>14. r \in OnTheWay
    BY <1>1, <1>9, <1>10, <1>11, <1>12, <1>13 DEF OnTheWay
  <1>15. [start |-> start, pos |-> p, mode |-> mode, kind |-> kind] \in OnTheWay
    BY <1>14 DEF r
  <1>16. start' = start /\ mode' = mode /\ kind' = kind
    BY <1>8
  <1>17. QED
    BY <1>8, <1>15, <1>16, GoesOnReads

LEMMA QuotesComplete ==
  ASSUME IInv, IInv', Lexing, mode \in {"quoted", "until"}, NEW k, NEW next, complete(k, next),
         NEW t, t = [kind |-> k, first |-> start, last |-> next - 1], EndsRight(t),
         k = "Unterminated" => CutRight(t)
  PROVE  Lexing'
  <1>1. t \in Token /\ t.kind = k /\ t.first = start /\ t.last = next - 1
    BY TokenInside
  <1>2. Quoted(start).close # None /\ at(start) # "("
    BY QuotesBeingRead DEF None
  <1>3. Verbatim(t)
    BY <1>1, <1>2 DEF Verbatim
  <1>4. t \in Lexemes
    BY <1>1, <1>2, <1>3 DEF Lexemes
  <1>5. QED
    BY <1>4, ProducedReads

\* The first closing character that no backslash escapes ends the lexeme.
LEMMA UnescapedReads ==
  ASSUME IInv, IInv', Lexing, Unescaped
  PROVE  Lexing'
  <1> DEFINE from == Quoted(start).from
             close == Quoted(start).close
             flag == peek = "/" /\ at(pos + 1) = "i"
  <1>1. mode \in {"quoted", "until"} /\ peek = close_quote /\ token(IF flag THEN 2 ELSE 1)
    BY DEF Unescaped
  <1>2. /\ peek = close /\ close \in {"dq", "|", "/"} /\ from \in {start + 1, start + 2}
        /\ Clean(start, pos) /\ kind \in {"Str", "Atom"}
    BY <1>1, QuotesBeingRead
  <1>3. /\ pos \in Nat /\ start \in Nat /\ Len(source) \in Nat /\ pos <= Len(source) + 1
        /\ pos + 1 \in Int
    BY SourceTyped DEF IInv
  <1>4. pos \in 1..Len(source) /\ source[pos] = peek /\ Past(pos + 1) = pos + 1
    BY <1>2, PeekInside DEF IInv, EOF
  <1>5. flag => Past(pos + 2) = pos + 2 /\ source[pos + 1] = "i"
    BY <1>3, PastIs DEF EOF, IInv, at
  <1> DEFINE next == IF flag THEN pos + 2 ELSE pos + 1
             t == [kind |-> kind, first |-> start, last |-> next - 1]
  <1>6. complete(kind, next)
    BY <1>1, <1>4, <1>5 DEF token
  <1>7. t.kind = kind /\ t.first = start /\ t.last = IF flag THEN pos + 1 ELSE pos
    BY <1>3
  <1>a. from \in Int
    BY <1>2, <1>3
  <1>b. /\ flag => close = "/"
        /\ flag <=> source[pos] = "/" /\ at(pos + 1) = "i"
    BY <1>2, <1>4
  <1>c. t = [kind |-> kind, first |-> start, last |-> next - 1]
    OBVIOUS
  <1> HIDE DEF from, close, t, next
  <1>8. /\ from <= pos /\ ~Escaped(pos, from)
        /\ \A i \in from..pos - 1 : source[i] = close => Escaped(i, from)
    BY <1>2, <1>3, <1>4 DEF Clean, from, close
  <1>9. Closers(start, t.last) = {pos}
    <2>1. Closers(start, t.last) = {i \in from..t.last : source[i] = close /\ ~Escaped(i, from)}
      BY DEF Closers, from, close
    <2>2. pos \in from..t.last /\ source[pos] = close
      BY <1>2, <1>3, <1>4, <1>7, <1>8, <1>a
    <2>3. ASSUME NEW i \in from..t.last, source[i] = close, ~Escaped(i, from)
          PROVE  i = pos
      <3>1. i \in from..pos - 1 \/ i = pos \/ (i = pos + 1 /\ flag)
        BY <1>3, <1>7, <1>a, <2>3
      <3>2. i \notin from..pos - 1
        BY <1>8, <2>3
      <3>3. ~(i = pos + 1 /\ flag)
        BY <1>5, <1>b, <2>3
      <3>4. QED
        BY <3>1, <3>2, <3>3
    <2>4. QED
      BY <1>8, <2>1, <2>2, <2>3
  <1>10. EndsRight(t)
    BY <1>2, <1>7, <1>9, <1>b DEF EndsRight
  <1>11. kind # "Unterminated"
    BY <1>2
  <1>12. QED
    BY <1>1, <1>6, <1>10, <1>11, <1>c, QuotesComplete

\* At the end of the source nothing has closed the lexeme.
LEMMA NothingCloses ==
  ASSUME IInv, Lexing, mode \in {"quoted", "until"}, peek = EOF
  PROVE  Closers(start, Len(source)) = {}
  <1>1. Clean(start, pos) /\ pos - 1 = Len(source)
    <2>1. pos = Len(source) + 1 /\ Len(source) \in Nat
      BY EndOfSource, SourceTyped DEF IInv
    <2>2. QED
      BY <2>1, QuotesBeingRead
  <1>2. QED
    BY <1>1 DEF Clean, Closers

LEMMA NeverClosedReads ==
  ASSUME IInv, IInv', Lexing, NeverClosed
  PROVE  Lexing'
  <1> DEFINE t == [kind |-> "Unterminated", first |-> start, last |-> pos - 1]
  <1>1. mode = "until" /\ peek = EOF /\ complete("Unterminated", pos)
    BY DEF NeverClosed, Unterminated
  <1>2. t.kind = "Unterminated" /\ t.first = start /\ t.last = pos - 1
    OBVIOUS
  <1>3. t = [kind |-> "Unterminated", first |-> start, last |-> pos - 1]
    OBVIOUS
  <1> HIDE DEF t
  <1>4. pos - 1 = Len(source) /\ Len(source) \in Nat
    BY <1>1, EndOfSource, SourceTyped DEF IInv
  <1>5. EndsRight(t)
    BY <1>1, <1>2, NothingCloses DEF EndsRight
  <1>6. CutRight(t)
    BY <1>1, <1>2, <1>4, QuotesBeingRead DEF CutRight
  <1>7. QED
    BY <1>1, <1>3, <1>5, <1>6, QuotesComplete

\* The cuts are the lines that begin with an open parenthesis behind the quote.
LEMMA CutsAre ==
  ASSUME IInv, NEW from \in Nat, from >= 1
  PROVE  LineStartParens(from) =
           {i \in from..Len(source) : BeginsLine(i) /\ \E b \in Breaks : from <= b /\ b < i}
  <1>1. Len(source) \in Nat
    BY SourceTyped DEF IInv
  <1>2. ASSUME NEW i \in from..Len(source)
        PROVE  (/\ at(i) = "("
                /\ \E b \in from..i - 1 :
                     is_line_break(at(b)) /\ \A k \in b + 1..i - 1 : at(k) \in Blanks)
               <=> (BeginsLine(i) /\ \E b \in Breaks : from <= b /\ b < i)
    <2>1. i \in 1..Len(source) /\ i \in Int
      BY <1>1
    <2>2. \A b \in 1..i - 1 : at(b) = source[b] /\ (is_line_break(at(b)) <=> b \in Breaks)
      <3> SUFFICES ASSUME NEW b \in 1..i - 1
                   PROVE  at(b) = source[b] /\ (is_line_break(at(b)) <=> b \in Breaks)
        OBVIOUS
      <3>1. b \in 1..Len(source)
        BY <1>1, <2>1
      <3>2. QED
        BY <3>1 DEF at, is_line_break, Breaks
    <2>3. ASSUME at(i) = "(", NEW b \in from..i - 1, is_line_break(at(b)),
                 \A k \in b + 1..i - 1 : at(k) \in Blanks
          PROVE  BeginsLine(i) /\ \E c \in Breaks : from <= c /\ c < i
      <3>1. b \in Breaks /\ from <= b /\ b < i /\ b \in Int
        BY <2>1, <2>2, <2>3
      <3>2. \A k \in b + 1..i - 1 : source[k] \in Blanks
        <4> SUFFICES ASSUME NEW k \in b + 1..i - 1 PROVE source[k] \in Blanks
          OBVIOUS
        <4>1. k \in 1..i - 1 /\ at(k) \in Blanks
          BY <2>1, <2>3
        <4>2. QED
          BY <2>2, <4>1
      <3>3. QED
        BY <2>3, <3>1, <3>2 DEF BeginsLine
    <2>4. ASSUME BeginsLine(i), NEW c \in Breaks, from <= c, c < i
          PROVE  /\ at(i) = "("
                 /\ \E b \in from..i - 1 :
                      is_line_break(at(b)) /\ \A k \in b + 1..i - 1 : at(k) \in Blanks
      <3>1. PICK d \in Breaks : d < i /\ \A j \in d + 1..i - 1 : source[j] \in Blanks
        BY <2>4 DEF BeginsLine
      <3>2. c \in Int /\ d \in Int /\ 1 <= d
        BY <1>1 DEF Breaks
      <3>3. PICK b \in Breaks : /\ b \in from..i - 1
                                /\ \A j \in b + 1..i - 1 : source[j] \in Blanks
        <4>1. CASE from <= d
          <5>1. d \in from..i - 1
            BY <2>1, <3>1, <3>2, <4>1
          <5>2. QED
            BY <3>1, <5>1
        <4>2. CASE ~(from <= d)
          <5>1. c \in from..i - 1 /\ \A j \in c + 1..i - 1 : j \in d + 1..i - 1
            BY <2>1, <2>4, <3>2, <4>2
          <5>2. QED
            BY <3>1, <5>1
        <4>3. QED
          BY <4>1, <4>2
      <3>4. b \in 1..i - 1 /\ \A k \in b + 1..i - 1 : k \in 1..i - 1
        BY <2>1, <3>3
      <3>5. is_line_break(at(b)) /\ \A k \in b + 1..i - 1 : at(k) \in Blanks
        BY <2>2, <3>3, <3>4
      <3>6. QED
        BY <2>4, <3>3, <3>5 DEF BeginsLine
    <2>5. QED
      BY <2>3, <2>4
  <1>3. QED
    BY <1>2 DEF LineStartParens

LEMMA FinishReads ==
  ASSUME IInv, IInv', Lexing, FinishQuoted
  PROVE  Lexing'
  <1> DEFINE from == Quoted(start).from
             cuts == LineStartParens(content_start)
  <1>1. mode = "quoted" /\ peek = EOF
    BY DEF FinishQuoted
  <1>2. /\ content_start = from /\ GivesBack(start) /\ from \in {start + 1, start + 2}
        /\ start \in Nat /\ 1 <= start /\ Len(source) \in Nat
    BY <1>1, QuotesBeingRead, SourceTyped DEF IInv
  <1>3. pos - 1 = Len(source)
    BY <1>1, <1>2, EndOfSource DEF IInv
  <1>4. from \in Nat /\ from >= 1
    BY <1>2
  <1>5. cuts = {i \in from..Len(source) : BeginsLine(i) /\ \E b \in Breaks : from <= b /\ b < i}
    BY <1>2, <1>4, CutsAre
  <1> HIDE DEF from
  <1>6. \A next : complete("Unterminated", next) =>
          EndsRight([kind |-> "Unterminated", first |-> start, last |-> next - 1])
    BY <1>1, NothingCloses DEF EndsRight
  <1>7. CASE cuts = {}
    <2> DEFINE t == [kind |-> "Unterminated", first |-> start, last |-> pos - 1]
    <2>1. complete("Unterminated", pos)
      BY <1>7 DEF FinishQuoted, Unterminated
    <2>2. t.first = start /\ t.last = Len(source) /\ EndsRight(t)
      BY <1>3, <1>6, <2>1
    <2>3. t = [kind |-> "Unterminated", first |-> start, last |-> pos - 1]
      OBVIOUS
    <2> HIDE DEF t, cuts
    <2>4. CutRight(t)
      <3>1. ASSUME NEW i \in from + 1..t.last
            PROVE  ~(BeginsLine(i) /\ \E b \in Breaks : from <= b /\ b < i)
        <4>1. i \in from..Len(source)
          BY <1>2, <1>4, <2>2
        <4>2. QED
          BY <1>5, <1>7, <4>1
      <3>2. QED
        BY <1>2, <2>2, <3>1 DEF CutRight, from
    <2>5. QED
      BY <1>1, <2>1, <2>2, <2>3, <2>4, QuotesComplete
  <1>8. CASE cuts # {}
    <2> DEFINE next == Least(cuts)
               t == [kind |-> "Unterminated", first |-> start, last |-> next - 1]
    <2>1. complete("Unterminated", next)
      BY <1>8 DEF FinishQuoted
    <2>2. t.first = start /\ t.last = next - 1 /\ EndsRight(t)
      BY <1>6, <2>1
    <2>3. t = [kind |-> "Unterminated", first |-> start, last |-> next - 1]
      OBVIOUS
    <2>4. cuts \subseteq Nat
      BY <1>4, <1>5
    <2> HIDE DEF cuts
    <2>5. next \in cuts /\ \A j \in cuts : next <= j
      BY <1>8, <2>4, LeastIs
    <2> HIDE DEF next, t
    <2>6. next \in from..Len(source) /\ BeginsLine(next) /\ next \in Nat
      BY <1>5, <2>4, <2>5
    <2>7. CutRight(t)
      <3>1. ASSUME NEW i \in from + 1..t.last
            PROVE  ~(BeginsLine(i) /\ \E b \in Breaks : from <= b /\ b < i)
        <4>1. i \in from..Len(source) /\ i < next
          BY <1>2, <1>4, <2>2, <2>6
        <4>2. i \notin cuts
          BY <1>4, <2>5, <2>6, <4>1
        <4>3. QED
          BY <1>5, <4>1, <4>2
      <3>2. t.last + 1 = next
        BY <2>2, <2>6
      <3>3. QED
        BY <1>2, <2>2, <2>6, <3>1, <3>2 DEF CutRight, from
    <2>8. QED
      BY <1>1, <2>1, <2>2, <2>3, <2>7, QuotesComplete
  <1>9. QED
    BY <1>7, <1>8

-----------------------------------------------------------------------------
LEMMA LexingInductive == Spec => []Lexing
  <1>1. Init => Lexing
    <2> SUFFICES ASSUME Init PROVE Lexing
      OBVIOUS
    <2> DEFINE r == [start |-> 1, pos |-> 1, mode |-> "next", kind |-> "Atom"]
    <2>1. r.start = 1 /\ r.pos = 1 /\ r.mode = "next" /\ r.kind = "Atom"
      OBVIOUS
    <2>2. r \in [start : Nat, pos : Nat, mode : Modes, kind : TokenKinds]
      BY DEF Modes, TokenKinds
    <2>3. "Atom" \in KindsIn("next")
      BY DEF KindsIn, TokenKinds
    <2>4. Now = r
      BY DEF Init, Now
    <2> HIDE DEF r
    <2>5. r \in OnTheWay
      BY <2>1, <2>2, <2>3 DEF OnTheWay
    <2>6. tokens \in Seq(Lexemes)
      BY DEF Init
    <2>7. QED
      BY <2>4, <2>5, <2>6 DEF Lexing
  <1>2. IInv /\ IInv' /\ Lexing /\ [Next]_vars => Lexing'
    <2> SUFFICES ASSUME IInv, IInv', Lexing, [Next]_vars PROVE Lexing'
      OBVIOUS
    <2>1. CASE UNCHANGED vars
      <3>1. UNCHANGED input /\ tokens' = tokens /\ Now' = Now
        BY <2>1 DEF vars, input, Now
      <3>2. Lexemes' = Lexemes /\ OnTheWay' = OnTheWay
        BY <3>1, LexemesFrame
      <3>3. QED
        BY <3>1, <3>2 DEF Lexing
    <2>2. CASE NextToken
      <3>1. Started(First(leads)) /\ Begin(First(leads)) /\ pos = start
        BY <2>2, LeadRead DEF NextToken, IInv, Reading
      <3>2. QED
        BY <3>1, BeginReads
    <2>3. CASE LexHash
      <3>1. pos = start /\ peek = "#" /\ On("hash_syntax")
        BY <2>3, BeingRead DEF LexHash, IInv, Reading
      <3>2. Started(First(hash_leads)) /\ Begin(First(hash_leads))
        BY <2>3, <3>1, HashRead DEF LexHash, IInv
      <3>3. QED
        BY <3>1, <3>2, BeginReads
    <2>4. QED
      BY <2>1, <2>2, <2>3, VerbatimStepsRead, UndelimitedStepsRead, AtomStepReads, UntilReads,
         UnescapedReads, NeverClosedReads, FinishReads DEF Next
  <1>3. QED
    BY <1>1, <1>2, Inductive, PTL DEF Spec

LEMMA TokensAreLexemes ==
  ASSUME Lexing
  PROVE  /\ DOMAIN tokens = 1..Len(tokens) /\ Len(tokens) \in Nat
         /\ \A k \in DOMAIN tokens : tokens[k] \in Lexemes
  BY DEF Lexing

\* For every text and all options of the shape of the presets: a string, regexp,
\* piped symbol or quoted identifier ends at the first closing character with an
\* even number of backslashes before it, and consume_until_unescaped misses none
\* of them by passing over two characters at a time.
THEOREM QuotedEnd == Spec => []QuotedEndsRight
  <1>1. Lexing => QuotedEndsRight
    BY TokensAreLexemes DEF QuotedEndsRight, Lexemes
  <1>2. QED
    BY LexingInductive, <1>1, PTL

\* For every text and all such options: finish_quoted gives text back only from
\* the first line on that begins with an open parenthesis, and the lexer goes on
\* there with an open delimiter or a block comment; no other lexeme that nothing
\* ends stops before the end of the text.
THEOREM ResumptionAtLineStart == Spec => []ResumesAtLineStart
  <1>1. IInv /\ Lexing => ResumesAtLineStart
    <2> SUFFICES ASSUME IInv, Lexing, NEW k \in DOMAIN tokens, tokens[k].kind = "Unterminated"
                 PROVE  /\ CutRight(tokens[k])
                        /\ tokens[k].last < Len(source) /\ k < Len(tokens) =>
                             tokens[k + 1].kind = "Open" \/ BeginsComment(tokens[k + 1].first)
      BY DEF ResumesAtLineStart, Of
    <2>1. CutRight(tokens[k])
      BY TokensAreLexemes DEF Lexemes
    <2>2. ASSUME tokens[k].last < Len(source), k < Len(tokens)
          PROVE  tokens[k + 1].kind = "Open" \/ BeginsComment(tokens[k + 1].first)
      <3>1. at(tokens[k].last + 1) = "("
        BY <2>1, <2>2 DEF CutRight, BeginsLine
      <3>2. k + 1 \in 1..Len(tokens) /\ k + 1 \in DOMAIN tokens /\ k + 1 # 1 /\ k + 1 - 1 = k
        BY <2>2, TokensAreLexemes
      <3>3. tokens[k + 1].first = tokens[k].last + 1
        BY <3>2 DEF IInv, Tiled
      <3>4. tokens[k + 1] \in Lexemes
        BY <3>2, TokensAreLexemes
      <3>5. QED
        BY <3>1, <3>3, <3>4 DEF Lexemes
    <2>3. QED
      BY <2>1, <2>2
  <1>2. QED
    BY Inductive, LexingInductive, <1>1, PTL

\* For every text and all such options: outside text taken verbatim every
\* delimiter is the end of a token that opens or closes a list, or escaped in a
\* symbol, so that no list is opened or closed without the reader seeing it.
THEOREM NoDelimiterHidden == Spec => []DelimitersSeen
  <1>1. Lexing => DelimitersSeen
    BY TokensAreLexemes DEF DelimitersSeen, Lexemes
  <1>2. QED
    BY LexingInductive, <1>1, PTL

\* For every text and all such options: no atom, boolean or tag stops in the
\* middle of a name.
THEOREM NamesReadWhole == Spec => []NamesAreWhole
  <1>1. Lexing => NamesAreWhole
    BY TokensAreLexemes DEF NamesAreWhole, Lexemes, Of, Names
  <1>2. QED
    BY LexingInductive, <1>1, PTL

-----------------------------------------------------------------------------
(* Block comments: the grammar of bodies.                                  *)

OpenLen  == Len(opts.block_comment.open)
CloseLen == Len(opts.block_comment.close)

\* The dialect has block comments.
HasComments == opts.block_comment.open # <<>>

\* What Bodies says of the text from i on, with f for Bodies.
Rule(f, i) ==
  {i} \union
    (IF Opens(i) THEN UNION {f[e] : e \in Behind(f[i + OpenLen])}
     ELSE IF Closes(i) \/ i > Len(source) THEN {}
     ELSE f[i + 1])

\* Induction from the end of the text: i is in S if all behind it are.
LEMMA Backwards ==
  ASSUME NEW l \in Nat, NEW S,
         \A i \in 1..l + 1 : (\A k \in i + 1..l + 1 : k \in S) => i \in S
  PROVE  1..l + 1 \subseteq S
  <1> SUFFICES ASSUME NEW a \in 1..l + 1, a \notin S
               PROVE  FALSE
    OBVIOUS
  <1> DEFINE T == {d \in 0..l : l + 1 - d \notin S}
  <1>1. T \subseteq Nat /\ l + 1 - a \in T
    OBVIOUS
  <1>2. Least(T) \in T /\ \A j \in T : Least(T) <= j
    BY <1>1, LeastIs
  <1> DEFINE d == Least(T)
             i == l + 1 - d
  <1>3. d \in 0..l /\ i \notin S /\ \A j \in T : d <= j
    BY <1>2
  <1> HIDE DEF d
  <1>4. \A k \in i + 1..l + 1 : k \in S
    <2> SUFFICES ASSUME NEW k \in i + 1..l + 1, k \notin S
                 PROVE  FALSE
      OBVIOUS
    <2>1. l + 1 - (l + 1 - k) = k /\ l + 1 - k \in 0..l /\ l + 1 - k < d
      BY <1>3
    <2>2. l + 1 - k \in T
      BY <2>1
    <2>3. QED
      BY <1>3, <2>1, <2>2
  <1>5. i \in 1..l + 1
    BY <1>3
  <1>6. QED
    BY <1>3, <1>4, <1>5

\* A marker is not empty and stands inside the text.
LEMMA MarkersInside ==
  ASSUME Typed, HasComments
  PROVE  /\ OpenLen \in Nat \ {0} /\ CloseLen \in Nat \ {0} /\ Len(source) \in Nat
         /\ \A i \in 1..Len(source) + 1 :
              /\ Opens(i) => i + OpenLen \in i + 1..Len(source) + 1
              /\ Closes(i) => i + CloseLen \in i + 1..Len(source) + 1
  <1>1. /\ opts.block_comment.open \in Seq(Glyphs) /\ opts.block_comment.close \in Seq(Glyphs)
        /\ opts.block_comment.open # <<>> /\ opts.block_comment.close # <<>>
    BY SourceTyped DEF OptionsType, HasComments
  <1>2. OpenLen \in Nat \ {0} /\ CloseLen \in Nat \ {0} /\ Len(source) \in Nat
    BY <1>1, EmptySeq, LenProperties, SourceTyped DEF OpenLen, CloseLen
  <1>3. ASSUME NEW w \in Seq(Glyphs), Len(w) \in Nat \ {0}, NEW i \in 1..Len(source) + 1, Word(i, w)
        PROVE  i + Len(w) \in i + 1..Len(source) + 1
    <2>1. Len(w) \in 1..Len(w)
      BY <1>3
    <2>2. w[Len(w)] \in Glyphs
      BY <1>3, <2>1, ElementOfSeq
    <2>3. EOF \notin Glyphs
      BY DEF EOF, Glyphs, Alnum, Letters
    <2>4. at(i + Len(w) - 1) = w[Len(w)]
      BY <1>3, <2>1 DEF Word
    <2>5. i + Len(w) - 1 \in Int
      BY <1>2, <1>3
    <2>6. i + Len(w) - 1 \in 1..Len(source)
      BY <2>2, <2>3, <2>4, <2>5, AtInside
    <2>7. QED
      BY <1>2, <1>3, <2>6
  <1>4. QED
    BY <1>1, <1>2, <1>3 DEF Opens, Closes, OpenLen, CloseLen

\* The recursive definition of Bodies has a solution.
LEMMA BodiesExist ==
  ASSUME Typed, HasComments
  PROVE  \E g : g = [i \in 1..Len(source) + 1 |-> Rule(g, i)]
  <1> DEFINE L == Len(source)
             D == 1..L + 1
             Good(k) == {g \in [D -> SUBSET D] :
                           \A i \in k..L + 1 : g[i] = Rule(g, i) /\ g[i] \subseteq i..L + 1}
             S == {k \in D : Good(k) # {}}
  <1>1. L \in Nat
    BY SourceTyped
  <1>2. ASSUME NEW k \in D, NEW g \in Good(k + 1)
        PROVE  Good(k) # {}
    <2> DEFINE h == [i \in D |-> Rule(g, i)]
    <2>1. /\ \A i \in D : g[i] \subseteq D
          /\ \A i \in k + 1..L + 1 : g[i] = Rule(g, i) /\ g[i] \subseteq i..L + 1
      OBVIOUS
    <2>2. ASSUME NEW i \in D
          PROVE  Rule(g, i) \subseteq D
      <3>1. CASE Opens(i)
        <4>1. g[i + OpenLen] \subseteq D
          BY <1>1, <2>1, <3>1, MarkersInside
        <4>2. Behind(g[i + OpenLen]) \subseteq D
          BY <1>1, <4>1, MarkersInside DEF Behind, CloseLen
        <4>3. \A e \in Behind(g[i + OpenLen]) : g[e] \subseteq D
          BY <2>1, <4>2
        <4>4. QED
          BY <3>1, <4>3 DEF Rule
      <3>2. CASE ~Opens(i)
        <4>1. i <= L => g[i + 1] \subseteq D
          BY <1>1, <2>1
        <4>2. QED
          BY <1>1, <3>2, <4>1 DEF Rule
      <3>3. QED
        BY <3>1, <3>2
    <2>3. \A i \in k + 1..L + 1 : h[i] = g[i]
      BY <1>1, <2>1
    <2>4. h \in [D -> SUBSET D]
      BY <2>2
    <2>5. \A i \in D : h[i] = Rule(g, i)
      OBVIOUS
    <2> HIDE DEF h
    <2>6. ASSUME NEW i \in k..L + 1
          PROVE  h[i] = Rule(h, i) /\ h[i] \subseteq i..L + 1
      <3>0. i \in D
        BY <1>1
      <3>1. CASE Opens(i)
        <4>1. i + OpenLen \in i + 1..L + 1
          BY <1>1, <3>0, <3>1, MarkersInside
        <4>2. h[i + OpenLen] = g[i + OpenLen] /\ g[i + OpenLen] \subseteq i + OpenLen..L + 1
          BY <1>1, <2>1, <2>3, <4>1, MarkersInside
        <4>3. Behind(g[i + OpenLen]) \subseteq i + 1..L + 1
          <5> SUFFICES ASSUME NEW j \in g[i + OpenLen], Closes(j)
                       PROVE  j + CloseLen \in i + 1..L + 1
            BY DEF Behind, CloseLen
          <5>1. j \in D /\ i < j
            BY <1>1, <4>1, <4>2, MarkersInside
          <5>2. QED
            BY <1>1, <5>1, MarkersInside
        <4>4. \A e \in Behind(g[i + OpenLen]) : h[e] = g[e] /\ g[e] \subseteq i..L + 1
          BY <1>1, <2>1, <2>3, <4>3
        <4>5. Rule(h, i) = Rule(g, i)
          BY <3>1, <4>2, <4>4 DEF Rule
        <4>6. Rule(g, i) \subseteq i..L + 1
          BY <1>1, <3>1, <4>4 DEF Rule
        <4>7. QED
          BY <2>5, <3>0, <4>5, <4>6
      <3>2. CASE ~Opens(i)
        <4>1. i <= L => h[i + 1] = g[i + 1] /\ g[i + 1] \subseteq i..L + 1
          BY <1>1, <2>1, <2>3
        <4>2. Rule(h, i) = Rule(g, i)
          BY <1>1, <3>2, <4>1 DEF Rule
        <4>3. Rule(g, i) \subseteq i..L + 1
          BY <1>1, <3>2, <4>1 DEF Rule
        <4>4. QED
          BY <2>5, <3>0, <4>2, <4>3
      <3>3. QED
        BY <3>1, <3>2
    <2>7. h \in Good(k)
      BY <2>4, <2>6
    <2>8. QED
      BY <2>7
  <1>3. ASSUME NEW k \in D, \A m \in k + 1..L + 1 : m \in S
        PROVE  k \in S
    <2>1. CASE k = L + 1
      <3>1. [i \in D |-> {}] \in Good(k + 1)
        BY <1>1, <2>1
      <3>2. QED
        BY <1>2, <3>1
    <2>2. CASE k # L + 1
      <3>1. k + 1 \in k + 1..L + 1
        BY <1>1, <2>2
      <3>a. k + 1 \in S
        BY <1>3, <3>1
      <3>2. QED
        BY <1>2, <3>a
    <2>3. QED
      BY <2>1, <2>2
  <1> HIDE DEF S
  <1>4. D \subseteq S
    BY <1>1, <1>3, Backwards
  <1>5. PICK g \in Good(1) : TRUE
    <2>1. 1 \in D
      BY <1>1
    <2>2. QED
      BY <1>4, <2>1 DEF S
  <1>6. g = [i \in D |-> g[i]] /\ \A i \in D : g[i] = Rule(g, i)
    BY <1>1, <1>5
  <1>7. g = [i \in D |-> Rule(g, i)]
    BY <1>6
  <1>8. QED
    BY <1>7

LEMMA BodiesAre ==
  ASSUME Typed, HasComments
  PROVE  \A i \in 1..Len(source) + 1 :
           Bodies[i] = Rule(Bodies, i) /\ Bodies[i] \subseteq i..Len(source) + 1
  <1> DEFINE L == Len(source)
             D == 1..L + 1
  <1>1. Bodies = CHOOSE g : g = [i \in D |-> Rule(g, i)]
    BY DEF Bodies, Rule, OpenLen
  <1>2. Bodies = [i \in D |-> Rule(Bodies, i)]
    BY <1>1, BodiesExist
  <1>3. \A i \in D : Bodies[i] = Rule(Bodies, i)
    BY <1>2
  <1>4. L \in Nat
    BY SourceTyped
  <1> DEFINE S == {i \in D : Bodies[i] \subseteq i..L + 1}
  <1>5. ASSUME NEW i \in D, \A k \in i + 1..L + 1 : k \in S
        PROVE  i \in S
    <2>1. CASE Opens(i)
      <3>1. i + OpenLen \in i + 1..L + 1 /\ OpenLen \in Nat
        BY <2>1, MarkersInside
      <3>2. Bodies[i + OpenLen] \subseteq i + OpenLen..L + 1
        BY <1>5, <3>1
      <3>3. Behind(Bodies[i + OpenLen]) \subseteq i + 1..L + 1
        <4> SUFFICES ASSUME NEW j \in Bodies[i + OpenLen], Closes(j)
                     PROVE  j + CloseLen \in i + 1..L + 1
          BY DEF Behind, CloseLen
        <4>1. j \in D /\ i < j
          BY <1>4, <3>1, <3>2
        <4>2. QED
          BY <1>4, <4>1, MarkersInside
      <3>4. \A e \in Behind(Bodies[i + OpenLen]) : Bodies[e] \subseteq i..L + 1
        <4> SUFFICES ASSUME NEW e \in i + 1..L + 1
                     PROVE  Bodies[e] \subseteq i..L + 1
          BY <3>3
        <4>1. Bodies[e] \subseteq e..L + 1
          BY <1>5
        <4>2. QED
          BY <1>4, <4>1
      <3>5. Rule(Bodies, i) \subseteq i..L + 1
        BY <1>4, <2>1, <3>4 DEF Rule
      <3>6. QED
        BY <1>3, <3>5
    <2>2. CASE ~Opens(i)
      <3>1. i <= L => Bodies[i + 1] \subseteq i + 1..L + 1
        BY <1>4, <1>5
      <3>2. Rule(Bodies, i) \subseteq i..L + 1
        BY <1>4, <2>2, <3>1 DEF Rule
      <3>3. QED
        BY <1>3, <3>2
    <2>3. QED
      BY <2>1, <2>2
  <1> HIDE DEF S
  <1>6. D \subseteq S
    BY <1>4, <1>5, Backwards
  <1>7. QED
    BY <1>3, <1>6 DEF S

\* The cases of the recursion.
LEMMA BodyCases ==
  ASSUME Typed, HasComments, NEW i \in 1..Len(source) + 1
  PROVE  /\ i \in Bodies[i]
         /\ Opens(i) => /\ i + OpenLen \in i + 1..Len(source) + 1
                        /\ Behind(Bodies[i + OpenLen]) \subseteq i + 1..Len(source) + 1
                        /\ \A k : k \in Bodies[i] <=>
                             k = i \/ \E e \in Behind(Bodies[i + OpenLen]) : k \in Bodies[e]
         /\ ~Opens(i) /\ (Closes(i) \/ i = Len(source) + 1) => Bodies[i] = {i}
         /\ ~Opens(i) /\ ~Closes(i) /\ i # Len(source) + 1 =>
              /\ i + 1 \in i + 1..Len(source) + 1
              /\ \A k : k \in Bodies[i] <=> k = i \/ k \in Bodies[i + 1]
  <1>1. Len(source) \in Nat
    BY SourceTyped
  <1>2. Bodies[i] = Rule(Bodies, i)
    BY BodiesAre
  <1>3. CASE Opens(i)
    <2>1. i + OpenLen \in i + 1..Len(source) + 1 /\ OpenLen \in Nat
      BY <1>3, MarkersInside
    <2>2. Bodies[i + OpenLen] \subseteq i + OpenLen..Len(source) + 1
      BY <1>1, <2>1, BodiesAre
    <2>3. Behind(Bodies[i + OpenLen]) \subseteq i + 1..Len(source) + 1
      <3> SUFFICES ASSUME NEW j \in Bodies[i + OpenLen], Closes(j)
                   PROVE  j + CloseLen \in i + 1..Len(source) + 1
        BY DEF Behind, CloseLen
      <3>1. j \in 1..Len(source) + 1 /\ i < j
        BY <1>1, <2>1, <2>2
      <3>2. QED
        BY <1>1, <3>1, MarkersInside
    <2>4. QED
      BY <1>2, <1>3, <2>1, <2>3 DEF Rule
  <1>4. CASE ~Opens(i)
    BY <1>1, <1>2, <1>4 DEF Rule
  <1>5. QED
    BY <1>3, <1>4

\* Where a close stands no body goes on.
LEMMA CloseStops ==
  ASSUME Typed, HasComments, NEW i \in 1..Len(source) + 1, Closes(i)
  PROVE  Bodies[i] = {i} /\ ~Opens(i) /\ i + CloseLen \in i + 1..Len(source) + 1
  BY BodyCases, MarkersInside DEF Closes

\* A body that goes on behind the end of another one goes on with a body.
LEMMA BodySplits ==
  ASSUME Typed, HasComments
  PROVE  \A i \in 1..Len(source) + 1 : \A m, k \in Bodies[i] : m <= k => k \in Bodies[m]
  <1> DEFINE L == Len(source)
             D == 1..L + 1
             S == {i \in D : \A m, k \in Bodies[i] : m <= k => k \in Bodies[m]}
  <1>1. L \in Nat
    BY SourceTyped
  <1>2. ASSUME NEW i \in D, \A k \in i + 1..L + 1 : k \in S
        PROVE  i \in S
    <2> SUFFICES ASSUME NEW m \in Bodies[i], NEW k \in Bodies[i], m <= k
                 PROVE  k \in Bodies[m]
      OBVIOUS
    <2>0. m \in i..L + 1 /\ k \in i..L + 1
      BY BodiesAre
    <2>1. CASE m = i
      BY <2>1
    <2>2. CASE m # i
      <3>1. k # i
        BY <1>1, <2>0, <2>2
      <3>2. CASE Opens(i)
        <4>1. /\ i + OpenLen \in i + 1..L + 1
              /\ Behind(Bodies[i + OpenLen]) \subseteq i + 1..L + 1
          BY <3>2, BodyCases
        <4>2. PICK e \in Behind(Bodies[i + OpenLen]) : m \in Bodies[e]
          BY <2>2, <3>2, BodyCases
        <4>3. PICK f \in Behind(Bodies[i + OpenLen]) : k \in Bodies[f]
          BY <3>1, <3>2, BodyCases
        <4>4. PICK p \in Bodies[i + OpenLen] : Closes(p) /\ e = p + CloseLen
          BY <4>2 DEF Behind, CloseLen
        <4>5. PICK q \in Bodies[i + OpenLen] : Closes(q) /\ f = q + CloseLen
          BY <4>3 DEF Behind, CloseLen
        <4>6. p \in D /\ q \in D
          <5>1. i + OpenLen \in D /\ Bodies[i + OpenLen] \subseteq i + OpenLen..L + 1
            BY <1>1, <4>1, BodiesAre
          <5>2. QED
            BY <1>1, <4>1, <5>1
        <4>7. p <= q => q \in Bodies[p]
          BY <1>2, <4>1
        <4>8. q <= p => p \in Bodies[q]
          BY <1>2, <4>1
        <4>9. p = q
          BY <1>1, <4>4, <4>5, <4>6, <4>7, <4>8, CloseStops
        <4>10. e = f /\ e \in i + 1..L + 1
          BY <4>1, <4>4, <4>5, <4>9
        <4>11. QED
          BY <1>2, <4>2, <4>3, <4>10
      <3>3. CASE ~Opens(i)
        <4>1. i + 1 \in i + 1..L + 1 /\ m \in Bodies[i + 1] /\ k \in Bodies[i + 1]
          BY <2>2, <3>1, <3>3, BodyCases
        <4>2. QED
          BY <1>2, <4>1
      <3>4. QED
        BY <3>2, <3>3
    <2>3. QED
      BY <2>1, <2>2
  <1> HIDE DEF S
  <1>3. D \subseteq S
    BY <1>1, <1>2, Backwards
  <1>4. QED
    BY <1>3 DEF S

\* Two bodies, one behind the other, are a body.
LEMMA BodiesJoin ==
  ASSUME Typed, HasComments
  PROVE  \A i \in 1..Len(source) + 1 : \A m \in Bodies[i] : Bodies[m] \subseteq Bodies[i]
  <1> DEFINE L == Len(source)
             D == 1..L + 1
             S == {i \in D : \A m \in Bodies[i] : Bodies[m] \subseteq Bodies[i]}
  <1>1. L \in Nat
    BY SourceTyped
  <1>2. ASSUME NEW i \in D, \A k \in i + 1..L + 1 : k \in S
        PROVE  i \in S
    <2> SUFFICES ASSUME NEW m \in Bodies[i], NEW k \in Bodies[m], m # i
                 PROVE  k \in Bodies[i]
      OBVIOUS
    <2>1. CASE Opens(i)
      <3>1. Behind(Bodies[i + OpenLen]) \subseteq i + 1..L + 1
        BY <2>1, BodyCases
      <3>2. PICK e \in Behind(Bodies[i + OpenLen]) : m \in Bodies[e]
        BY <2>1, BodyCases
      <3>3. k \in Bodies[e]
        BY <1>2, <3>1, <3>2
      <3>4. QED
        BY <2>1, <3>2, <3>3, BodyCases
    <2>2. CASE ~Opens(i)
      <3>1. i + 1 \in i + 1..L + 1 /\ m \in Bodies[i + 1]
        BY <2>2, BodyCases
      <3>2. k \in Bodies[i + 1]
        BY <1>2, <3>1
      <3>3. ~Closes(i) /\ i # L + 1
        BY <2>2, BodyCases
      <3>4. QED
        BY <2>2, <3>2, <3>3, BodyCases
    <2>3. QED
      BY <2>1, <2>2
  <1> HIDE DEF S
  <1>3. D \subseteq S
    BY <1>1, <1>2, Backwards
  <1>4. QED
    BY <1>3 DEF S

\* A comment ends at one place only: where one close ends a body no other does.
LEMMA OneEnd ==
  ASSUME Typed, HasComments, NEW i \in 1..Len(source) + 1,
         NEW p \in Bodies[i], Closes(p)
  PROVE  Behind(Bodies[i]) = {p + CloseLen}
  <1>1. ASSUME NEW q \in Bodies[i], Closes(q)
        PROVE  q = p
    <2>1. p \in 1..Len(source) + 1 /\ q \in 1..Len(source) + 1 /\ Len(source) \in Nat
      BY BodiesAre, SourceTyped
    <2>2. (p <= q => q \in Bodies[p]) /\ (q <= p => p \in Bodies[q])
      BY BodySplits
    <2>3. QED
      BY <1>1, <2>1, <2>2, CloseStops
  <1>2. QED
    BY <1>1 DEF Behind, CloseLen

LEMMA CommentsFrame ==
  UNCHANGED input =>
    /\ OpenLen' = OpenLen /\ CloseLen' = CloseLen /\ Bodies' = Bodies
    /\ \A i : (Opens(i)' <=> Opens(i)) /\ (Closes(i)' <=> Closes(i))
    /\ \A S : Behind(S)' = Behind(S)
  <1> SUFFICES ASSUME source' = source, opts' = opts
               PROVE  /\ OpenLen' = OpenLen /\ CloseLen' = CloseLen /\ Bodies' = Bodies
                      /\ \A i : (Opens(i)' <=> Opens(i)) /\ (Closes(i)' <=> Closes(i))
                      /\ \A S : Behind(S)' = Behind(S)
    BY DEF input
  <1>1. OpenLen' = OpenLen /\ CloseLen' = CloseLen
    BY DEF OpenLen, CloseLen
  <1>2. \A i, w : Word(i, w)' <=> Word(i, w)
    BY DEF Word, at
  <1>3. \A i : (Opens(i)' <=> Opens(i)) /\ (Closes(i)' <=> Closes(i))
    BY <1>2 DEF Opens, Closes
  <1>4. \A S : Behind(S)' = Behind(S)
    BY <1>3 DEF Behind
  <1>5. Bodies' = Bodies
    BY <1>3, <1>4 DEF Bodies
  <1>6. QED
    BY <1>1, <1>3, <1>4, <1>5

-----------------------------------------------------------------------------
(* Block comments: those not closed yet.                                   *)

\* The token is no block comment, or one that ends where its grammar says.
CommentRight(t) ==
  t.kind \in {"BlockComment", "Unterminated"} /\ BeginsComment(t.first) =>
    EndsOfComment(t.first) = IF t.kind = "Unterminated" THEN {} ELSE {t.last + 1}

\* Comments that begin at the positions q[1], q[2], ... contain each other, and
\* the text between any one and the next, and from the last to p, is a body.
Pending(q, m, p) ==
  /\ q \in [1..m -> 1..Len(source)] /\ q[1] = start
  /\ \A t \in 1..m : q[t] + OpenLen \in q[t] + 1..Len(source) + 1
  /\ \A t \in 1..m - 1 : q[t + 1] \in Bodies[q[t] + OpenLen] /\ Opens(q[t + 1])
  /\ p \in Bodies[q[m] + OpenLen]

\* A comment is being read just where one begins; n counts those open.
Commenting ==
  /\ mode # "next" => (BeginsComment(start) <=> mode = "block")
  /\ mode = "block" => \E q : Pending(q, n, pos)
  /\ \A k \in DOMAIN tokens : CommentRight(tokens[k])

LEMMA CommentingFrame ==
  UNCHANGED input =>
    /\ \A s : BeginsComment(s)' <=> BeginsComment(s)
    /\ \A t : CommentRight(t)' <=> CommentRight(t)
    /\ start' = start => \A q, m, p : Pending(q, m, p)' <=> Pending(q, m, p)
  <1> SUFFICES ASSUME UNCHANGED input
               PROVE  /\ \A s : BeginsComment(s)' <=> BeginsComment(s)
                      /\ \A t : CommentRight(t)' <=> CommentRight(t)
                      /\ start' = start => \A q, m, p : Pending(q, m, p)' <=> Pending(q, m, p)
    OBVIOUS
  <1>1. source' = source /\ opts' = opts
    BY DEF input
  <1>2. \A s : BeginsComment(s)' <=> BeginsComment(s)
    BY <1>1 DEF BeginsComment, Word, at
  <1>3. \A s : EndsOfComment(s)' = EndsOfComment(s)
    BY <1>1, CommentsFrame DEF EndsOfComment
  <1>4. \A t : CommentRight(t)' <=> CommentRight(t)
    BY <1>2, <1>3 DEF CommentRight
  <1>5. start' = start => \A q, m, p : Pending(q, m, p)' <=> Pending(q, m, p)
    BY <1>1, CommentsFrame DEF Pending
  <1>6. QED
    BY <1>2, <1>4, <1>5

\* No comment that is open at the end of the text has an end.
LEMMA NeverEnds ==
  ASSUME IInv, HasComments, NEW m \in Nat \ {0}, NEW q, Pending(q, m, Len(source) + 1)
  PROVE  EndsOfComment(start) = {}
  <1> DEFINE L == Len(source)
             S == {t \in 1..m : Behind(Bodies[q[t] + OpenLen]) = {}}
  <1>0. Typed /\ L \in Nat
    BY SourceTyped DEF IInv
  <1>1. \A t \in 1..m : q[t] \in 1..L /\ q[t] + OpenLen \in 1..L + 1
    BY <1>0 DEF Pending
  <1>2. m \in S
    <2> SUFFICES ASSUME NEW p \in Bodies[q[m] + OpenLen], Closes(p)
                 PROVE  FALSE
      BY DEF Behind
    <2>1. q[m] + OpenLen \in 1..L + 1 /\ L + 1 \in Bodies[q[m] + OpenLen]
      BY <1>1 DEF Pending
    <2>2. p \in 1..L + 1
      BY <1>0, <2>1, BodiesAre
    <2>3. L + 1 \in Bodies[p]
      BY <1>0, <2>1, <2>2, BodySplits
    <2>4. QED
      BY <1>0, <2>2, <2>3, CloseStops
  <1>3. ASSUME NEW t \in 1..m, \A k \in t + 1..m : k \in S
        PROVE  t \in S
    <2>1. CASE t = m
      BY <1>2, <2>1
    <2>2. CASE t # m
      <3> SUFFICES ASSUME NEW p \in Bodies[q[t] + OpenLen], Closes(p)
                   PROVE  FALSE
        BY DEF Behind
      <3> DEFINE r == q[t + 1]
      <3>1. t \in 1..m - 1 /\ t + 1 \in 1..m /\ t + 1 \in t + 1..m
        BY <2>2
      <3>2. r \in Bodies[q[t] + OpenLen] /\ Opens(r) /\ r \in 1..L + 1
        BY <1>0, <1>1, <3>1 DEF Pending
      <3>3. Behind(Bodies[r + OpenLen]) = {}
        BY <1>3, <3>1
      <3>4. q[t] + OpenLen \in 1..L + 1 /\ p \in 1..L + 1
        BY <1>0, <1>1, BodiesAre
      <3> HIDE DEF r
      <3>5. r # p
        BY <1>0, <3>2, <3>4, CloseStops
      <3>6. (r <= p => p \in Bodies[r]) /\ (p <= r => r \in Bodies[p])
        BY <1>0, <3>2, <3>4, BodySplits
      <3>7. ~(p <= r)
        BY <1>0, <3>4, <3>5, <3>6, CloseStops
      <3>8. p \in Bodies[r]
        BY <1>0, <3>2, <3>4, <3>6, <3>7
      <3>9. QED
        BY <1>0, <3>2, <3>3, <3>5, <3>8, BodyCases
    <2>3. QED
      BY <2>1, <2>2
  <1> HIDE DEF S
  <1>4. 1..m \subseteq S
    <2>1. m - 1 \in Nat /\ m - 1 + 1 = m
      OBVIOUS
    <2>2. \A t \in 1..m - 1 + 1 : (\A k \in t + 1..m - 1 + 1 : k \in S) => t \in S
      BY <1>3, <2>1
    <2>3. 1..m - 1 + 1 \subseteq S
      BY <2>1, <2>2, Backwards
    <2>4. QED
      BY <2>1, <2>3
  <1>5. Behind(Bodies[q[1] + OpenLen]) = {}
    BY <1>4 DEF S
  <1>6. QED
    BY <1>5 DEF Pending, EndsOfComment, OpenLen

\* A step that completes a token.
LEMMA CompleteSettles ==
  ASSUME IInv, Commenting, NEW k, NEW p, complete(k, p),
         CommentRight([kind |-> k, first |-> start, last |-> p - 1])
  PROVE  Commenting'
  <1> DEFINE t == [kind |-> k, first |-> start, last |-> p - 1]
  <1>1. tokens' = Append(tokens, t) /\ mode' = "next" /\ UNCHANGED input /\ CommentRight(t)
    BY DEF complete
  <1> HIDE DEF t
  <1>2. tokens \in Seq(Token)
    BY DEF IInv, Typed
  <1>3. \A j \in DOMAIN tokens' : tokens'[j] = t \/ (j \in DOMAIN tokens /\ tokens'[j] = tokens[j])
    BY <1>1, <1>2
  <1>4. \A j \in DOMAIN tokens' : CommentRight(tokens'[j])
    BY <1>1, <1>3 DEF Commenting
  <1>5. \A x : CommentRight(x)' <=> CommentRight(x)
    BY <1>1, CommentingFrame
  <1>6. QED
    BY <1>1, <1>4, <1>5 DEF Commenting

\* A nested comment is opened.
LEMMA DeepenNests ==
  ASSUME IInv, Commenting, Deepen
  PROVE  Commenting'
  <1> DEFINE L == Len(source)
  <1>1. /\ mode = "block" /\ mode' = "block" /\ UNCHANGED input /\ start' = start
        /\ tokens' = tokens /\ Opens(pos) /\ pos' = pos + OpenLen /\ n' = n + 1
    BY DEF Deepen, Opens, rest_starts_with, Word, OpenLen
  <1>2. Typed /\ HasComments /\ n \in Nat \ {0} /\ L \in Nat /\ pos \in 1..L + 1
    BY <1>1, SourceTyped DEF IInv, Reading, HasComments
  <1>3. PICK q : Pending(q, n, pos)
    BY <1>1 DEF Commenting
  <1>4. pos + OpenLen \in pos + 1..L + 1 /\ pos \in 1..L /\ pos + OpenLen \in 1..L + 1
    BY <1>1, <1>2, MarkersInside
  <1> DEFINE r == [t \in 1..n + 1 |-> IF t = n + 1 THEN pos ELSE q[t]]
  <1>5. /\ r[n + 1] = pos /\ n + 1 \in 1..n + 1 /\ n + 1 \in Nat
        /\ \A t \in 1..n : r[t] = q[t] /\ q[t] \in 1..L /\ t \in 1..n + 1
    BY <1>2, <1>3 DEF Pending
  <1>6. r \in [1..n + 1 -> 1..L]
    BY <1>2, <1>3, <1>4 DEF Pending
  <1> HIDE DEF r
  <1>7. \A t \in 1..n + 1 : r[t] + OpenLen \in r[t] + 1..L + 1
    <2> SUFFICES ASSUME NEW t \in 1..n + 1
                 PROVE  r[t] + OpenLen \in r[t] + 1..L + 1
      OBVIOUS
    <2>1. t = n + 1 \/ t \in 1..n
      BY <1>2
    <2>2. QED
      BY <1>3, <1>4, <1>5, <2>1 DEF Pending
  <1>8. \A t \in 1..(n + 1) - 1 : r[t + 1] \in Bodies[r[t] + OpenLen] /\ Opens(r[t + 1])
    <2> SUFFICES ASSUME NEW t \in 1..n
                 PROVE  r[t + 1] \in Bodies[r[t] + OpenLen] /\ Opens(r[t + 1])
      BY <1>2
    <2>1. r[t] = q[t]
      BY <1>5
    <2>2. CASE t = n
      BY <1>1, <1>3, <1>5, <2>1, <2>2 DEF Pending
    <2>3. CASE t # n
      <3>1. t \in 1..n - 1 /\ t + 1 \in 1..n
        BY <1>2, <2>3
      <3>2. QED
        BY <1>3, <1>5, <2>1, <3>1 DEF Pending
    <2>4. QED
      BY <2>2, <2>3
  <1>9. pos + OpenLen \in Bodies[r[n + 1] + OpenLen]
    BY <1>2, <1>4, <1>5, BodyCases
  <1>10. r[1] = start
    BY <1>2, <1>3, <1>5 DEF Pending
  <1>11. Pending(r, n + 1, pos + OpenLen)
    <2> DEFINE m == n + 1
               p == pos + OpenLen
    <2>1. r \in [1..m -> 1..Len(source)] /\ r[1] = start
      BY <1>6, <1>10
    <2>2. \A t \in 1..m : r[t] + OpenLen \in r[t] + 1..Len(source) + 1
      BY <1>7
    <2>3. \A t \in 1..m - 1 : r[t + 1] \in Bodies[r[t] + OpenLen] /\ Opens(r[t + 1])
      BY <1>8
    <2>4. p \in Bodies[r[m] + OpenLen]
      BY <1>9
    <2> HIDE DEF m, p
    <2>5. Pending(r, m, p)
      BY <2>1, <2>2, <2>3, <2>4 DEF Pending
    <2>6. QED
      BY <2>5 DEF m, p
  <1>12. QED
    BY <1>1, <1>11, CommentingFrame DEF Commenting

\* The body being read goes on up to p.
LEMMA BodyGoesOn ==
  ASSUME IInv, Commenting, mode = "block", mode' = "block", UNCHANGED <<input, start, tokens, n>>,
         pos' \in Bodies[pos]
  PROVE  Commenting'
  <1>1. UNCHANGED input /\ start' = start /\ tokens' = tokens /\ n' = n
    BY DEF input
  <1>2. Typed /\ HasComments /\ n \in Nat \ {0}
    BY SourceTyped DEF IInv, Reading, HasComments
  <1>3. PICK q : Pending(q, n, pos)
    BY DEF Commenting
  <1>4. n \in 1..n /\ q[n] + OpenLen \in 1..Len(source) + 1 /\ pos \in Bodies[q[n] + OpenLen]
    BY <1>2, <1>3, SourceTyped DEF Pending
  <1>5. pos' \in Bodies[q[n] + OpenLen]
    BY <1>2, <1>4, BodiesJoin
  <1>6. Pending(q, n, pos')
    BY <1>3, <1>5 DEF Pending
  <1>7. QED
    BY <1>1, <1>6, CommentingFrame DEF Commenting

\* A nested comment is closed.
LEMMA NestedCloses ==
  ASSUME IInv, Commenting, mode = "block", mode' = "block", UNCHANGED <<input, start, tokens>>,
         n > 1, n' = n - 1, Closes(pos), pos' = pos + CloseLen
  PROVE  Commenting'
  <1> DEFINE L == Len(source)
  <1>1. UNCHANGED input /\ start' = start /\ tokens' = tokens
    BY DEF input
  <1>2. Typed /\ HasComments /\ n \in Nat /\ n - 1 \in Nat \ {0} /\ L \in Nat /\ pos \in 1..L + 1
    BY SourceTyped DEF IInv, Reading, HasComments
  <1>3. PICK q : Pending(q, n, pos)
    BY DEF Commenting
  <1>4. /\ n \in 1..n /\ n - 1 \in 1..n /\ n - 1 \in 1..n - 1 /\ n - 1 + 1 = n
        /\ q[n] \in 1..L + 1 /\ q[n - 1] + OpenLen \in 1..L + 1
        /\ q[n] \in Bodies[q[n - 1] + OpenLen] /\ Opens(q[n])
        /\ pos \in Bodies[q[n] + OpenLen]
    <2>1. n \in 1..n /\ n - 1 \in 1..n /\ n - 1 \in 1..n - 1 /\ n - 1 + 1 = n
      BY <1>2
    <2>2. q[n] \in 1..L /\ q[n - 1] \in 1..L /\ pos \in Bodies[q[n] + OpenLen]
      BY <1>3, <2>1 DEF Pending
    <2>3. q[n - 1] + OpenLen \in q[n - 1] + 1..L + 1
      BY <1>3, <2>1 DEF Pending
    <2>4. q[n - 1 + 1] \in Bodies[q[n - 1] + OpenLen] /\ Opens(q[n - 1 + 1])
      BY <1>3, <2>1 DEF Pending
    <2>5. QED
      BY <1>2, <2>1, <2>2, <2>3, <2>4
  <1>5. pos + CloseLen \in Behind(Bodies[q[n] + OpenLen])
    BY <1>4 DEF Behind, CloseLen
  <1>6. pos + CloseLen \in 1..L + 1
    BY <1>2, MarkersInside
  <1>7. pos + CloseLen \in Bodies[pos + CloseLen]
    BY <1>2, <1>6, BodyCases
  <1>8. pos + CloseLen \in Bodies[q[n]]
    BY <1>2, <1>4, <1>5, <1>7, BodyCases
  <1>9. pos + CloseLen \in Bodies[q[n - 1] + OpenLen]
    BY <1>2, <1>4, <1>8, BodiesJoin
  <1> DEFINE r == [t \in 1..n - 1 |-> q[t]]
  <1>10. \A t \in 1..n - 1 : r[t] = q[t] /\ q[t] \in 1..L /\ t \in 1..n
    BY <1>2, <1>3 DEF Pending
  <1>11. r \in [1..n - 1 -> 1..L]
    BY <1>10
  <1> HIDE DEF r
  <1>12. r[1] = start
    BY <1>2, <1>3, <1>10 DEF Pending
  <1>13. \A t \in 1..n - 1 : r[t] + OpenLen \in r[t] + 1..L + 1
    BY <1>3, <1>10 DEF Pending
  <1>14. \A t \in 1..n - 1 - 1 : r[t + 1] \in Bodies[r[t] + OpenLen] /\ Opens(r[t + 1])
    <2> SUFFICES ASSUME NEW t \in 1..n - 1 - 1
                 PROVE  r[t + 1] \in Bodies[r[t] + OpenLen] /\ Opens(r[t + 1])
      OBVIOUS
    <2>1. t \in 1..n - 1 /\ t + 1 \in 1..n - 1
      BY <1>2
    <2>2. QED
      BY <1>3, <1>10, <2>1 DEF Pending
  <1>15. r[n - 1] = q[n - 1]
    BY <1>4, <1>10
  <1>16. Pending(r, n - 1, pos')
    BY <1>9, <1>11, <1>12, <1>13, <1>14, <1>15 DEF Pending
  <1>17. QED
    BY <1>1, <1>16, CommentingFrame DEF Commenting

\* In a comment.
LEMMA InCommentNests ==
  ASSUME IInv, Lexing, Commenting, InBlockComment
  PROVE  Commenting'
  <1> DEFINE L == Len(source)
             close == opts.block_comment.close
  <1>1. mode = "block" /\ ~Opens(pos) /\ (rest_starts_with(close) <=> Closes(pos))
    BY DEF InBlockComment, Opens, Closes, rest_starts_with, Word
  <1>2. Typed /\ HasComments /\ n \in Nat \ {0} /\ L \in Nat /\ pos \in 1..L + 1
    BY <1>1, SourceTyped DEF IInv, Reading, HasComments
  <1>3. PICK q : Pending(q, n, pos)
    BY <1>1 DEF Commenting
  <1>4. (peek = EOF <=> pos = L + 1) /\ (Closes(pos) => pos # L + 1)
    <2>1. peek = EOF <=> pos \notin 1..L
      BY <1>2, AtInside DEF peek
    <2>2. QED
      BY <1>2, <2>1, MarkersInside
  <1>5. CASE peek = EOF
    <2>1. complete("Unterminated", pos)
      BY <1>1, <1>4, <1>5 DEF InBlockComment, Unterminated
    <2>2. EndsOfComment(start) = {}
      BY <1>2, <1>3, <1>4, <1>5, NeverEnds
    <2>3. CommentRight([kind |-> "Unterminated", first |-> start, last |-> pos - 1])
      BY <2>2 DEF CommentRight
    <2>4. QED
      BY <2>1, <2>3, CompleteSettles
  <1>6. CASE Closes(pos) /\ n = 1
    <2> DEFINE k == kind
               p == pos + CloseLen
    <2>1. Past(pos + CloseLen) = p
      BY <1>2, <1>6, MarkersInside DEF Past
    <2>2. complete(k, p)
      BY <1>1, <1>4, <1>6, <2>1 DEF InBlockComment, token, CloseLen
    <2>3. start + OpenLen \in 1..L + 1 /\ pos \in Bodies[start + OpenLen]
      BY <1>2, <1>3, <1>6 DEF Pending
    <2>4. EndsOfComment(start) = {p}
      BY <1>2, <1>6, <2>3, OneEnd DEF EndsOfComment, OpenLen
    <2>5. k # "Unterminated"
      BY <1>1 DEF Lexing, OnTheWay, Now, KindsIn
    <2>6. p - 1 + 1 = p
      BY <1>2, MarkersInside
    <2> HIDE DEF k, p
    <2>7. CommentRight([kind |-> k, first |-> start, last |-> p - 1])
      BY <2>4, <2>5, <2>6 DEF CommentRight
    <2>8. QED
      BY <2>2, <2>7, CompleteSettles
  <1>7. CASE Closes(pos) /\ n # 1
    <2>1. n > 1
      BY <1>2, <1>7
    <2>2. pos' = pos + CloseLen /\ n' = n - 1 /\ UNCHANGED <<input, start, mode, kind, tokens>>
      BY <1>1, <1>4, <1>7, <2>1 DEF InBlockComment, CloseLen
    <2>3. QED
      BY <1>1, <1>7, <2>1, <2>2, NestedCloses
  <1>8. CASE peek # EOF /\ ~Closes(pos)
    <2>1. bump(1)
      BY <1>1, <1>8 DEF InBlockComment
    <2>2. pos + 1 \in 1..L + 1 /\ pos' = pos + 1
      BY <1>2, <1>4, <1>8, <2>1 DEF bump, Past
    <2>3. pos + 1 \in Bodies[pos]
      BY <1>1, <1>2, <1>4, <1>8, <2>2, BodyCases
    <2>4. mode' = "block" /\ UNCHANGED <<input, start, tokens, n>>
      BY <1>1, <2>1 DEF bump
    <2>5. QED
      BY <1>1, <2>2, <2>3, <2>4, BodyGoesOn
  <1>9. QED
    BY <1>4, <1>5, <1>6, <1>7, <1>8

\* The first row that applies enters the loop of comments just where one begins,
\* and completes no comment.
LEMMA LeadComments ==
  ASSUME Typed, peek # EOF
  PROVE  LET l == First(leads) IN
         /\ l.mode = "block" <=> BeginsComment(pos)
         /\ l.mode = "block" => l.take = OpenLen
         /\ l.mode = "next" => l.kind \notin {"BlockComment", "Unterminated"}
  <1>1. DOMAIN leads = 1..18 /\ leads[18].when
    BY DEF leads, Enter, Emit
  <1>2. 18 \in Nat /\ 18 \in 1..18
    OBVIOUS
  <1>3. PICK i \in 1..18 : /\ First(leads) = leads[i] /\ leads[i].when
                           /\ \A j \in 1..18 : leads[j].when => i <= j
    BY <1>1, <1>2, FirstTried
  <1>4. /\ leads[1].when <=> is_whitespace(peek)
        /\ leads[2].when <=> BeginsComment(pos)
    BY DEF leads, Enter, BeginsComment, rest_starts_with, Word
  <1>5. BeginsComment(pos) => ~is_whitespace(peek)
    <2> SUFFICES ASSUME BeginsComment(pos)
                 PROVE  peek \in {"#", "(", ";"}
      BY DEF is_whitespace, Blanks
    <2>1. pos \in Int
      BY SourceTyped
    <2>2. \E w \in {<<"#", "|">>, <<"(", ";">>, <<";", "|">>} : Word(pos, w)
      BY Markers DEF BeginsComment
    <2>3. QED
      BY <2>1, <2>2, WordIs DEF peek
  <1>6. BeginsComment(pos) <=> i = 2
    <2>1. BeginsComment(pos) => i <= 2 /\ i # 1
      BY <1>3, <1>4, <1>5
    <2>2. QED
      BY <1>3, <1>4, <2>1
  <1>7. leads[2].mode = "block" /\ leads[2].take = OpenLen
    BY DEF leads, Enter, OpenLen
  <1>8. \A j \in 1..18 : j # 2 =>
          /\ leads[j].mode # "block"
          /\ leads[j].mode = "next" => leads[j].kind \in {"Open", "Close", "Prefix"}
    <2> DEFINE Fine(r) == /\ r.mode # "block"
                          /\ r.mode = "next" => r.kind \in {"Open", "Close", "Prefix"}
    <2>1. Fine(leads[1]) /\ Fine(leads[3]) /\ Fine(leads[4]) /\ Fine(leads[5])
      BY DEF leads, Enter, Emit
    <2>2. Fine(leads[6]) /\ Fine(leads[7]) /\ Fine(leads[8]) /\ Fine(leads[9])
      BY DEF leads, Enter, Emit
    <2>3. Fine(leads[10]) /\ Fine(leads[11]) /\ Fine(leads[12]) /\ Fine(leads[13])
      BY DEF leads, Enter, Emit
    <2>4. Fine(leads[14]) /\ Fine(leads[15]) /\ Fine(leads[16]) /\ Fine(leads[17])
      BY DEF leads, Enter, Emit
    <2>5. Fine(leads[18])
      BY DEF leads, Enter, Emit
    <2> HIDE DEF Fine
    <2>6. \A j \in 1..18 : j # 2 => Fine(leads[j])
      <3> SUFFICES ASSUME NEW j \in 1..18, j # 2
                   PROVE  Fine(leads[j])
        OBVIOUS
      <3>1. \/ j = 1 \/ j = 3 \/ j = 4 \/ j = 5 \/ j = 6 \/ j = 7 \/ j = 8 \/ j = 9 \/ j = 10
            \/ j = 11 \/ j = 12 \/ j = 13 \/ j = 14 \/ j = 15 \/ j = 16 \/ j = 17 \/ j = 18
        OBVIOUS
      <3>2. QED
        BY <2>1, <2>2, <2>3, <2>4, <2>5, <3>1
    <2>7. QED
      BY <2>6 DEF Fine
  <1>9. CASE i = 2
    BY <1>3, <1>6, <1>7, <1>9
  <1>10. CASE i # 2
    BY <1>3, <1>6, <1>8, <1>10
  <1>11. QED
    BY <1>9, <1>10

LEMMA HashComments == First(hash_leads).mode # "block"
  <1>1. DOMAIN hash_leads = 1..24 /\ hash_leads[24].when
    BY DEF hash_leads, Enter, Emit
  <1>2. 24 \in Nat /\ 24 \in 1..24
    OBVIOUS
  <1>3. PICK i \in 1..24 : First(hash_leads) = hash_leads[i]
    BY <1>1, <1>2, FirstTried
  <1>4. \A j \in 1..24 : hash_leads[j].mode # "block"
    <2>1. /\ hash_leads[1].mode # "block" /\ hash_leads[2].mode # "block"
          /\ hash_leads[3].mode # "block"
      BY DEF hash_leads, Enter, Emit
    <2>2. /\ hash_leads[4].mode # "block" /\ hash_leads[5].mode # "block"
          /\ hash_leads[6].mode # "block"
      BY DEF hash_leads, Enter, Emit
    <2>3. /\ hash_leads[7].mode # "block" /\ hash_leads[8].mode # "block"
          /\ hash_leads[9].mode # "block"
      BY DEF hash_leads, Enter, Emit
    <2>4. /\ hash_leads[10].mode # "block" /\ hash_leads[11].mode # "block"
          /\ hash_leads[12].mode # "block"
      BY DEF hash_leads, Enter, Emit
    <2>5. /\ hash_leads[13].mode # "block" /\ hash_leads[14].mode # "block"
          /\ hash_leads[15].mode # "block"
      BY DEF hash_leads, Enter, Emit
    <2>6. /\ hash_leads[16].mode # "block" /\ hash_leads[17].mode # "block"
          /\ hash_leads[18].mode # "block"
      BY DEF hash_leads, Enter, Emit
    <2>7. /\ hash_leads[19].mode # "block" /\ hash_leads[20].mode # "block"
          /\ hash_leads[21].mode # "block"
      BY DEF hash_leads, Enter, Emit
    <2>8. /\ hash_leads[22].mode # "block" /\ hash_leads[23].mode # "block"
          /\ hash_leads[24].mode # "block"
      BY DEF hash_leads, Enter, Emit
    <2>9. SUFFICES ASSUME NEW j \in 1..24
                   PROVE  hash_leads[j].mode # "block"
      OBVIOUS
    <2>10. \/ j = 1 \/ j = 2 \/ j = 3 \/ j = 4 \/ j = 5 \/ j = 6 \/ j = 7 \/ j = 8
           \/ j = 9 \/ j = 10 \/ j = 11 \/ j = 12 \/ j = 13 \/ j = 14 \/ j = 15 \/ j = 16
           \/ j = 17 \/ j = 18 \/ j = 19 \/ j = 20 \/ j = 21 \/ j = 22 \/ j = 23 \/ j = 24
      OBVIOUS
    <2>11. QED
      BY <2>1, <2>2, <2>3, <2>4, <2>5, <2>6, <2>7, <2>8, <2>10
  <1>5. QED
    BY <1>3, <1>4

\* A token begins.
LEMMA NextNests ==
  ASSUME IInv, Commenting, NextToken
  PROVE  Commenting'
  <1> DEFINE l == First(leads)
             L == Len(source)
  <1>1. mode = "next" /\ peek # EOF /\ Begin(l) /\ pos = start
    BY DEF NextToken, IInv, Reading
  <1>2. /\ l.mode = "block" <=> BeginsComment(pos)
        /\ l.mode = "block" => l.take = OpenLen
        /\ l.mode = "next" => l.kind \notin {"BlockComment", "Unterminated"}
    BY <1>1, LeadComments DEF IInv
  <1> HIDE DEF l
  <1>3. CASE l.mode = "next"
    <2> DEFINE k == l.kind
               p == Past(pos + l.take)
    <2>1. complete(k, p) /\ k \notin {"BlockComment", "Unterminated"}
      BY <1>1, <1>2, <1>3 DEF Begin
    <2> HIDE DEF k, p
    <2>2. CommentRight([kind |-> k, first |-> start, last |-> p - 1])
      BY <2>1 DEF CommentRight
    <2>3. QED
      BY <2>1, <2>2, CompleteSettles
  <1>4. CASE l.mode = "block"
    <2>1. /\ pos' = Past(pos + OpenLen) /\ mode' = "block" /\ n' = 1 /\ start' = start
          /\ UNCHANGED input /\ tokens' = tokens
      BY <1>1, <1>2, <1>4 DEF Begin
    <2>2. BeginsComment(start)
      BY <1>1, <1>2, <1>4
    <2>3. Typed /\ HasComments /\ L \in Nat /\ OpenLen \in Nat \ {0}
      BY <2>2, MarkersInside, SourceTyped DEF IInv, BeginsComment, HasComments
    <2>4. pos + OpenLen <= L + 1
      <3>1. rest_starts_with(opts.block_comment.open) /\ opts.block_comment.open \in Seq(Glyphs)
        BY <1>1, <2>2, <2>3, SourceTyped DEF BeginsComment, rest_starts_with, Word, OptionsType
      <3>2. QED
        BY <2>3, <3>1, WordInside DEF OpenLen
    <2>5. /\ start \in 1..L /\ start + OpenLen \in start + 1..L + 1
          /\ start + OpenLen \in 1..L + 1 /\ pos' = start + OpenLen
      BY <1>1, <2>1, <2>3, <2>4, SourceTyped DEF Past
    <2>6. pos' \in Bodies[start + OpenLen]
      BY <2>3, <2>5, BodyCases
    <2> DEFINE q == [t \in 1..1 |-> start]
    <2>7. q \in [1..1 -> 1..L] /\ q[1] = start /\ \A t \in 1..1 : q[t] = start
      BY <2>5
    <2> HIDE DEF q
    <2>8. Pending(q, 1, pos')
      <3>1. 1..1 - 1 = {}
        OBVIOUS
      <3>2. QED
        BY <2>5, <2>6, <2>7, <3>1 DEF Pending
    <2>9. QED
      BY <2>1, <2>2, <2>8, CommentingFrame DEF Commenting
  <1>5. CASE l.mode \notin {"next", "block"}
    <2>1. mode' = l.mode /\ start' = start /\ UNCHANGED input /\ tokens' = tokens
      BY <1>1, <1>5 DEF Begin
    <2>2. ~BeginsComment(start)
      BY <1>1, <1>2, <1>5
    <2>3. QED
      BY <1>5, <2>1, <2>2, CommentingFrame DEF Commenting
  <1>6. QED
    BY <1>3, <1>4, <1>5

\* A step of a token that is no comment goes on with it or completes it.
LEMMA ElsewhereNests ==
  ASSUME IInv, Commenting, mode \notin {"next", "block"},
         \/ UNCHANGED <<input, start, tokens>> /\ mode' \notin {"next", "block"}
         \/ \E k, p : complete(k, p)
  PROVE  Commenting'
  <1>1. ~BeginsComment(start)
    BY DEF Commenting
  <1>2. CASE UNCHANGED <<input, start, tokens>> /\ mode' \notin {"next", "block"}
    <2>1. UNCHANGED input /\ start' = start /\ tokens' = tokens
      BY <1>2 DEF input
    <2>2. QED
      BY <1>1, <1>2, <2>1, CommentingFrame DEF Commenting
  <1>3. ASSUME NEW k, NEW p, complete(k, p)
        PROVE  Commenting'
    <2>1. CommentRight([kind |-> k, first |-> start, last |-> p - 1])
      BY <1>1 DEF CommentRight
    <2>2. QED
      BY <1>3, <2>1, CompleteSettles
  <1>4. QED
    BY <1>2, <1>3

LEMMA CommentingStep ==
  ASSUME IInv, Lexing, Commenting, [Next]_vars
  PROVE  Commenting'
  <1> DEFINE Goes == UNCHANGED <<input, start, tokens>> /\ mode' \notin {"next", "block"}
             Done == \E k, p : complete(k, p)
  <1>1. /\ \A k : bump(k) /\ mode \notin {"next", "block"} => Goes
        /\ \A k : token(k) => Done
        /\ Unterminated => Done
        /\ \A k, p : complete(k, p) => Done
    BY DEF bump, token, Unterminated
  <1> HIDE DEF Done
  <1>2. ASSUME mode \notin {"next", "block"}, Goes \/ Done
        PROVE  Commenting'
    BY <1>2, ElsewhereNests DEF Done
  <1>3. CASE LexHash
    <2> DEFINE l == First(hash_leads)
    <2>1. mode = "hash" /\ Begin(l) /\ l.mode # "block"
      BY <1>3, HashComments DEF LexHash
    <2> HIDE DEF l
    <2>2. Goes \/ Done
      BY <1>1, <2>1 DEF Begin
    <2>3. QED
      BY <1>2, <2>1, <2>2
  <1>4. CASE \/ WhitespaceRun \/ ConsumeLineRest \/ LexAtom \/ ConsumeAtomBody \/ UntilUnescaped
             \/ Unescaped \/ NeverClosed \/ FinishQuoted
    <2>1. mode \notin {"next", "block"}
      BY <1>4 DEF WhitespaceRun, ConsumeLineRest, LexAtom, ConsumeAtomBody, UntilUnescaped,
                  Unescaped, NeverClosed, FinishQuoted
    <2>2. Goes \/ Done
      BY <1>1, <1>4, <2>1 DEF WhitespaceRun, ConsumeLineRest, LexAtom, ConsumeAtomBody,
                              UntilUnescaped, Unescaped, NeverClosed, FinishQuoted
    <2>3. QED
      BY <1>2, <2>1, <2>2
  <1>5. CASE \/ BacktickString \/ BracketDelim \/ BracketString \/ CharSet \/ HashCurlySymbol
             \/ LexChar \/ Name \/ QuestionChar \/ LexLabel
    <2>1. mode \notin {"next", "block"}
      BY <1>5 DEF BacktickString, BracketDelim, BracketString, CharSet, HashCurlySymbol,
                  LexChar, Name, QuestionChar, LexLabel
    <2>2. Goes \/ Done
      BY <1>1, <1>5, <2>1 DEF BacktickString, BracketDelim, BracketString, CharSet,
                              HashCurlySymbol, LexChar, Name, QuestionChar, LexLabel
    <2>3. QED
      BY <1>2, <2>1, <2>2
  <1>6. CASE UNCHANGED vars
    <2>1. /\ UNCHANGED input /\ start' = start /\ tokens' = tokens /\ mode' = mode
          /\ pos' = pos /\ n' = n
      BY <1>6 DEF vars, input
    <2>2. QED
      BY <2>1, CommentingFrame DEF Commenting
  <1>7. QED
    BY <1>3, <1>4, <1>5, <1>6, NextNests, DeepenNests, InCommentNests DEF Next

\* For every text and all options of the shape of the presets: a block comment is
\* one well-nested comment of its dialect, and one that is reported unterminated
\* is not closed anywhere in the text.
THEOREM CommentsNest == Spec => []BlockCommentsNest
  <1>1. Init => Commenting
    BY DEF Init, Commenting
  <1>2. IInv /\ Lexing /\ Commenting /\ [Next]_vars => Commenting'
    BY CommentingStep
  <1>3. Commenting => BlockCommentsNest
    BY DEF Commenting, BlockCommentsNest, CommentRight, Of
  <1>4. QED
    BY Inductive, LexingInductive, <1>1, <1>2, <1>3, PTL DEF Spec
=============================================================================

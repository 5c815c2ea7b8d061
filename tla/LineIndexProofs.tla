-------------------------- MODULE LineIndexProofs --------------------------
(***************************************************************************)
(* The line index for every source text and every word size: the lines it  *)
(* cuts tile the text, and columns clamp to their line.                    *)
(***************************************************************************)
EXTENDS LineIndexProperties, FiniteSetTheorems, TLAPS

Line == [start : Nat, end : Nat]

\* The line [from, to) ends at the `\n' before `next', and at its `\r' if there is
\* one.
EndsAt(from, to, next) ==
  /\ next \in 1..len /\ bytes(next - 1) = "lf"
  /\ \/ to = next - 1 /\ (to > from => bytes(to - 1) # "cr")
     \/ to = next - 2 /\ bytes(to) = "cr"

Unbroken(from, to) == \A o \in from..to - 1 : bytes(o) # "lf"

\* Where the line after line n starts, or will start.
Following(n) == IF n < Len(lines) THEN lines[n + 1].start ELSE IF built THEN len ELSE start

Typed ==
  /\ source \in Sources /\ built \in BOOLEAN
  /\ i \in 0..len /\ start \in 0..i
  /\ lines \in Seq(Line)

\* What the scan has established of line n.
Cut(n) ==
  LET l == lines[n] IN
  /\ l.start <= l.end /\ l.end <= Following(n)
  /\ Unbroken(l.start, l.end)
  /\ IF n = Len(lines) /\ built THEN l.end = len ELSE EndsAt(l.start, l.end, Following(n))

Scanned ==
  /\ lines = <<>> => start = 0
  /\ lines # <<>> => lines[1].start = 0
  /\ Unbroken(start, i)
  /\ built => i = len /\ lines # <<>>
  /\ \A n \in DOMAIN lines : Cut(n)

\* Lines come in the order of the text, and none reaches into the next.
Ordered ==
  /\ \A m \in DOMAIN lines, n \in DOMAIN lines : m < n => lines[m].end < lines[n].start
  /\ ~built => \A m \in DOMAIN lines : lines[m].end < start

IInv == Typed /\ Scanned /\ Ordered

-----------------------------------------------------------------------------
\* A sum that fits the word does not wrap.
LEMMA NoWrap ==
  ASSUME NEW a \in Nat, NEW b \in Nat, a < b
  PROVE  a % b = a
  BY Z3

LEMMA SourceType ==
  ASSUME Typed
  PROVE  /\ source \in Seq({"lf", "cr", "other"}) /\ len \in Nat
         /\ Len(source) + 1 < Word /\ Word \in Nat
         /\ i \in Nat /\ start \in Nat /\ Len(lines) \in Nat /\ DOMAIN lines = 1..Len(lines)
         /\ \A n \in DOMAIN lines : lines[n].start \in Nat /\ lines[n].end \in Nat
  <1>1. source \in Seq({"lf", "cr", "other"}) /\ Len(source) + 1 < Word /\ Word \in Nat
    BY LineIndexAssumption DEF Typed
  <1>2. len \in Nat
    BY <1>1 DEF len
  <1>3. i \in Nat /\ start \in Nat
    BY <1>2 DEF Typed
  <1>4. Len(lines) \in Nat /\ DOMAIN lines = 1..Len(lines)
    BY DEF Typed
  <1>5. \A n \in DOMAIN lines : lines[n] \in Line
    BY DEF Typed
  <1>6. QED
    BY <1>1, <1>2, <1>3, <1>4, <1>5 DEF Line

\* A new line is appended and the lines before it stay as they are.
LEMMA Appended ==
  ASSUME Typed, NEW l \in Line, lines' = Append(lines, l)
  PROVE  /\ lines' \in Seq(Line) /\ Len(lines') = Len(lines) + 1
         /\ DOMAIN lines' = DOMAIN lines \union {Len(lines) + 1}
         /\ lines'[Len(lines) + 1] = l
         /\ \A n \in DOMAIN lines : lines'[n] = lines[n]
  BY DEF Typed

LEMMA InitIInv == Init => IInv
  <1> SUFFICES ASSUME Init PROVE IInv
    OBVIOUS
  <1>1. len \in Nat
    BY LineIndexAssumption DEF Init, len
  <1>2. lines = <<>> /\ DOMAIN lines = {} /\ lines \in Seq(Line)
    BY DEF Init
  <1>3. Unbroken(start, i)
    BY DEF Init, Unbroken
  <1>4. Typed
    <2>1. source \in Sources /\ built \in BOOLEAN
      BY DEF Init
    <2>2. i \in 0..len /\ start \in 0..i
      BY <1>1 DEF Init
    <2>3. QED
      BY <1>2, <2>1, <2>2 DEF Typed
  <1>5. Scanned
    <2>1. ~built /\ start = 0
      BY DEF Init
    <2>2. QED
      BY <1>2, <1>3, <2>1 DEF Scanned
  <1>6. Ordered
    BY <1>2 DEF Ordered
  <1>7. QED
    BY <1>4, <1>5, <1>6 DEF IInv

\* The line the scan is in, ended at the line feed it has reached.
LEMMA LineEnd ==
  ASSUME Typed, Scanned, i < len, bytes(i) = "lf"
  PROVE  /\ line_end \in Nat /\ start <= line_end /\ line_end <= i
         /\ Unbroken(start, line_end)
         /\ EndsAt(start, line_end, i + 1)
  <1> USE SourceType
  <1>1. line_end \in Nat /\ start <= line_end /\ line_end <= i
    BY DEF line_end, Typed
  <1>2. Unbroken(start, line_end)
    BY <1>1 DEF Scanned, Unbroken, Typed
  <1>3. EndsAt(start, line_end, i + 1)
    BY DEF line_end, EndsAt, Typed
  <1>4. QED
    BY <1>1, <1>2, <1>3

LEMMA ScanBreakInv ==
  ASSUME IInv, ScanBreak
  PROVE  IInv'
  <1> DEFINE l == [start |-> start, end |-> line_end]
  <1> USE SourceType DEF IInv
  <1>1. l \in Line /\ lines' = Append(lines, l) /\ UNCHANGED <<source, built>> /\ ~built
    BY LineEnd DEF ScanBreak, Line
  <1>2. /\ lines' \in Seq(Line) /\ Len(lines') = Len(lines) + 1
        /\ DOMAIN lines' = DOMAIN lines \union {Len(lines) + 1}
        /\ lines'[Len(lines) + 1] = l
        /\ \A n \in DOMAIN lines : lines'[n] = lines[n]
    BY <1>1, Appended
  <1>3. len' = len /\ start' = i + 1 /\ i' = i + 1 /\ i < len
    BY <1>1 DEF ScanBreak, len
  <1>4. Typed'
    BY <1>1, <1>2, <1>3 DEF Typed
  <1>5. ASSUME NEW n \in DOMAIN lines'
        PROVE  Cut(n)'
    <2>1. CASE n \in DOMAIN lines
      <3>1. Following(n)' = Following(n)
        BY <1>1, <1>2, <2>1 DEF Following
      <3>2. QED
        BY <1>1, <1>2, <1>3, <2>1, <3>1 DEF Scanned, Cut, EndsAt, Unbroken, bytes
    <2>2. CASE n = Len(lines) + 1
      <3>1. Following(n)' = i + 1
        BY <1>1, <1>2, <1>3, <2>2 DEF Following
      <3>2. /\ line_end \in Nat /\ start <= line_end /\ line_end <= i
            /\ Unbroken(start, line_end) /\ EndsAt(start, line_end, i + 1)
        BY LineEnd DEF ScanBreak
      <3>3. lines'[n].start = start /\ lines'[n].end = line_end
        BY <1>2, <2>2
      <3>4. EndsAt(lines[n].start, lines[n].end, Following(n))'
        BY <1>1, <1>3, <3>1, <3>2, <3>3 DEF EndsAt, bytes
      <3>5. Unbroken(lines[n].start, lines[n].end)'
        BY <1>1, <3>2, <3>3 DEF Unbroken, bytes
      <3>6. lines'[n].start <= lines'[n].end /\ lines'[n].end <= Following(n)'
        BY <3>1, <3>2, <3>3
      <3>7. QED
        BY <1>1, <3>4, <3>5, <3>6 DEF Cut
    <2>3. QED
      BY <1>2, <2>1, <2>2
  <1>6. lines'[1].start = 0 /\ lines' # <<>>
    BY <1>2 DEF Scanned
  <1>7. Unbroken(start, i)'
    BY <1>3 DEF Unbroken
  <1>8. Ordered'
    <2>1. ASSUME NEW n \in DOMAIN lines'
          PROVE  lines'[n].end < i + 1
      <3>1. CASE n \in DOMAIN lines
        BY <1>1, <1>2, <3>1 DEF Ordered, Typed
      <3>2. CASE n = Len(lines) + 1
        BY <1>2, <3>2, LineEnd DEF ScanBreak
      <3>3. QED
        BY <1>2, <3>1, <3>2
    <2>2. QED
      BY <1>1, <1>2, <1>3, <2>1 DEF Ordered
  <1>9. QED
    BY <1>1, <1>4, <1>5, <1>6, <1>7, <1>8 DEF Scanned, Unbroken

LEMMA ScanOtherInv ==
  ASSUME IInv, ScanOther
  PROVE  IInv'
  <1> USE SourceType DEF IInv
  <1>1. UNCHANGED <<source, start, lines, built>> /\ i' = i + 1 /\ i < len /\ bytes(i) # "lf"
    BY DEF ScanOther
  <1>2. len' = len
    BY <1>1 DEF len
  <1>3. Typed'
    BY <1>1, <1>2 DEF Typed
  <1>4. ASSUME NEW n \in DOMAIN lines
        PROVE  Cut(n)'
    BY <1>1, <1>2 DEF Scanned, Cut, Following, EndsAt, Unbroken, bytes
  <1>5. Unbroken(start, i)'
    BY <1>1 DEF Scanned, Unbroken, bytes, Typed
  <1>6. ~built'
    BY <1>1 DEF ScanOther
  <1>7. Ordered'
    BY <1>1 DEF Ordered
  <1>8. QED
    BY <1>1, <1>3, <1>4, <1>5, <1>6, <1>7 DEF Scanned

LEMMA FinishInv ==
  ASSUME IInv, Finish
  PROVE  IInv'
  <1> DEFINE l == [start |-> start, end |-> len]
  <1> USE SourceType DEF IInv
  <1>1. /\ l \in Line /\ lines' = Append(lines, l) /\ UNCHANGED <<source, i, start>>
        /\ ~built /\ built' /\ i = len
    BY DEF Finish, Line
  <1>2. /\ lines' \in Seq(Line) /\ Len(lines') = Len(lines) + 1
        /\ DOMAIN lines' = DOMAIN lines \union {Len(lines) + 1}
        /\ lines'[Len(lines) + 1] = l
        /\ \A n \in DOMAIN lines : lines'[n] = lines[n]
    BY <1>1, Appended
  <1>3. len' = len
    BY <1>1 DEF len
  <1>4. Typed'
    BY <1>1, <1>2, <1>3 DEF Typed, Finish
  <1>5. ASSUME NEW n \in DOMAIN lines'
        PROVE  Cut(n)'
    <2>1. CASE n \in DOMAIN lines
      <3>1. Following(n)' = Following(n)
        BY <1>1, <1>2, <2>1 DEF Following
      <3>2. QED
        BY <1>1, <1>2, <1>3, <2>1, <3>1 DEF Scanned, Cut, EndsAt, Unbroken, bytes
    <2>2. CASE n = Len(lines) + 1
      <3>1. Following(n)' = len
        BY <1>1, <1>2, <1>3, <2>2 DEF Following
      <3>2. lines'[n].start = start /\ lines'[n].end = len
        BY <1>2, <2>2
      <3>3. QED
        BY <1>1, <1>2, <1>3, <2>2, <3>1, <3>2 DEF Cut, Scanned, Unbroken, bytes, Typed
    <2>3. QED
      BY <1>2, <2>1, <2>2
  <1>6. lines'[1].start = 0 /\ lines' # <<>>
    BY <1>2 DEF Scanned
  <1>7. Unbroken(start, i)'
    BY <1>1 DEF Scanned, Unbroken, bytes
  <1>8. Ordered'
    BY <1>1, <1>2 DEF Ordered
  <1>9. QED
    BY <1>1, <1>3, <1>4, <1>5, <1>6, <1>7, <1>8 DEF Scanned

\* The scan keeps the lines cut behind their breaks, for every text.
LEMMA Inductive == Spec => []IInv
  <1>1. IInv /\ [Next]_vars => IInv'
    <2> SUFFICES ASSUME IInv, [Next]_vars PROVE IInv'
      OBVIOUS
    <2>1. CASE UNCHANGED vars
      BY <2>1 DEF vars, IInv, Typed, Scanned, Ordered, Cut, Following, EndsAt, Unbroken, bytes, len
    <2>2. QED
      BY <2>1, ScanBreakInv, ScanOtherInv, FinishInv DEF Next
  <1>2. QED
    BY InitIInv, <1>1, PTL DEF Spec

-----------------------------------------------------------------------------
\* Every reachable state of the scan is well typed.
LEMMA AlwaysScanned ==
  ASSUME IInv
  PROVE  TypeOK
  <1>1. \A n \in DOMAIN lines : Following(n) \in 0..len
    <2>1. TAKE n \in DOMAIN lines
    <2>2. CASE n < Len(lines)
      BY <2>2, SourceType DEF IInv, Scanned, Cut, Following, EndsAt
    <2>3. CASE n = Len(lines)
      BY <2>3, SourceType DEF IInv, Typed, Following
    <2>4. QED
      BY <2>1, <2>2, <2>3, SourceType DEF IInv
  <1>2. ASSUME NEW n \in DOMAIN lines
        PROVE  lines[n] \in [start : 0..len, end : 0..len]
    <2>1. lines[n] \in Line
      BY DEF IInv, Typed
    <2>2. /\ lines[n].start <= lines[n].end /\ lines[n].end <= Following(n)
          /\ Following(n) \in 0..len /\ len \in Nat
      BY <1>1, SourceType DEF IInv, Scanned, Cut
    <2>3. QED
      BY <2>1, <2>2 DEF Line
  <1>3. QED
    BY <1>2 DEF IInv, TypeOK, Typed

\* Where a finished line ends, and what is there instead of its content.
LEMMA FinishedLine ==
  ASSUME IInv, built, NEW n \in DOMAIN lines
  PROVE  /\ lines[n].start \in Nat /\ lines[n].end \in Nat /\ full_end(n) \in Nat
         /\ lines[n].start <= lines[n].end /\ lines[n].end <= full_end(n)
         /\ Unbroken(lines[n].start, lines[n].end)
         /\ \/ n = Len(lines) /\ lines[n].end = full_end(n)
            \/ EndsAt(lines[n].start, lines[n].end, full_end(n))
  <1>1. full_end(n) = Following(n)
    BY SourceType DEF IInv, full_end, Following
  <1>2. full_end(n) \in Nat
    BY SourceType DEF IInv, full_end
  <1>3. Cut(n)
    BY DEF IInv, Scanned
  <1>4. n = Len(lines) => full_end(n) = len
    BY SourceType DEF IInv, full_end
  <1>5. QED
    BY <1>1, <1>2, <1>3, <1>4, SourceType DEF IInv, Cut

\* The full ranges tile the source, and each is its content followed by the very
\* terminator line_terminator names.
LEMMA Tile ==
  ASSUME IInv
  PROVE  RangesTile
  <1> SUFFICES ASSUME built PROVE RangesTile
    BY DEF RangesTile
  <1>1. Len(lines) \in Nat /\ DOMAIN lines = 1..Len(lines) /\ lines # <<>> /\ len \in Nat
    BY SourceType DEF IInv, Scanned
  <1>2. 1 \in DOMAIN lines /\ Len(lines) \in DOMAIN lines
    BY <1>1 DEF IInv, Typed
  <1>3. line_full_range(1)[1] = 0
    BY <1>2 DEF line_full_range, IInv, Scanned
  <1>4. line_full_range(Len(lines))[2] = len
    BY <1>1, <1>2 DEF line_full_range, full_end
  <1>5. ASSUME NEW n \in DOMAIN lines, n > 1
        PROVE  line_full_range(n)[1] = line_full_range(n - 1)[2]
    BY <1>1, <1>5 DEF line_full_range, full_end
  <1>6. ASSUME NEW n \in DOMAIN lines, NEW o \in line_range(n)[1]..line_range(n)[2] - 1
        PROVE  bytes(o) # "lf"
    <2>1. line_range(n)[1] = lines[n].start /\ line_range(n)[2] = lines[n].end
      BY DEF line_range
    <2>2. QED
      BY <2>1, FinishedLine DEF Unbroken
  <1>7. ASSUME NEW n \in DOMAIN lines
        PROVE  /\ Ending(n) = CASE line_terminator(n) = "Lf" -> <<"lf">>
                                [] line_terminator(n) = "CrLf" -> <<"cr", "lf">>
                                [] line_terminator(n) = "Terminator::None" -> <<>>
               /\ line_terminator(n) = "Lf" /\ lines[n].end > lines[n].start =>
                    bytes(lines[n].end - 1) # "cr"
    <2> DEFINE e == lines[n].end
               d == full_end(n) - lines[n].end
    <2>1. /\ lines[n].start \in Nat /\ e \in Nat /\ full_end(n) \in Nat /\ e <= full_end(n)
          /\ lines[n].start <= e
          /\ \/ n = Len(lines) /\ e = full_end(n)
             \/ EndsAt(lines[n].start, e, full_end(n))
      BY FinishedLine
    <2>2. CASE d = 0
      <3>1. line_terminator(n) = "Terminator::None"
        BY <2>2 DEF line_terminator
      <3>2. Ending(n) = <<>>
        BY <2>1, <2>2 DEF Ending
      <3>3. QED
        BY <3>1, <3>2
    <2>3. CASE d = 1
      <3>1. line_terminator(n) = "Lf"
        BY <2>3 DEF line_terminator
      <3>2. bytes(e) = "lf" /\ (e > lines[n].start => bytes(e - 1) # "cr")
        BY <2>1, <2>3 DEF EndsAt
      <3>3. Ending(n) = <<"lf">>
        BY <2>1, <2>3, <3>2 DEF Ending
      <3>4. QED
        BY <3>1, <3>2, <3>3
    <2>4. CASE d = 2
      <3>1. line_terminator(n) = "CrLf"
        BY <2>1, <2>4 DEF line_terminator
      <3>2. bytes(e) = "cr" /\ bytes(e + 1) = "lf"
        BY <2>1, <2>4 DEF EndsAt
      <3>3. Ending(n) = <<"cr", "lf">>
        BY <2>1, <2>4, <3>2 DEF Ending
      <3>4. QED
        BY <3>1, <3>3
    <2>5. d \in 0..2
      BY <2>1 DEF EndsAt
    <2>6. d = 0 \/ d = 1 \/ d = 2
      BY <2>5
    <2>7. QED
      BY <2>2, <2>3, <2>4, <2>6, Zenon
  <1>8. QED
    BY <1>3, <1>4, <1>5, <1>6, <1>7 DEF RangesTile

-----------------------------------------------------------------------------
\* For every text, the ranges of a finished index tile it, and content, full
\* range and terminator agree (line_range, line_full_range, line_terminator).
THEOREM IndexTiles == Spec => []RangesTile
  BY Inductive, Tile, PTL

\* For every text and word size, a column past the content of its line means the
\* end of the content, as long as the sum fits the word (line_col_to_offset).
THEOREM ColumnsClampToLine == Spec => []ColumnsClamp
  <1>1. IInv => ColumnsClamp
    <2> SUFFICES ASSUME IInv, built, NEW n \in DOMAIN lines, NEW col \in 0..Word - 1,
                        lines[n].start + col <= Word, col > lines[n].end - lines[n].start
                 PROVE  line_col_to_offset(n, col) = lines[n].end
      BY DEF ColumnsClamp
    <2> DEFINE s == lines[n].start
               e == lines[n].end
    <2>1. s \in Nat /\ e \in Nat /\ s <= e /\ Word \in Nat /\ col \in Nat
      BY FinishedLine, SourceType DEF IInv
    <2>2. n \in 1..Len(lines) /\ Len(lines) \in Nat
      BY SourceType DEF IInv
    <2>3. Clamp(1, n, Len(lines)) = n
      BY <2>2 DEF Clamp
    <2>4. Clamp(0, col - 1, Word) = col - 1
      BY <2>1 DEF Clamp
    <2>5. s + (col - 1) \in 0..Word - 1 /\ s + (col - 1) >= e
      BY <2>1
    <2>6. (s + (col - 1)) % Word = s + (col - 1)
      BY <2>1, <2>5, NoWrap
    <2>7. line_col_to_offset(n, col) = Clamp(0, s + (col - 1), e)
      BY <2>3, <2>4, <2>6 DEF line_col_to_offset
    <2>8. QED
      BY <2>1, <2>5, <2>7 DEF Clamp
  <1>2. QED
    BY Inductive, <1>1, PTL

\* The line of an offset of its content is the number of lines that start there
\* or before.
LEMMA LineOfOffset ==
  ASSUME IInv, built, NEW n \in DOMAIN lines, NEW o \in lines[n].start..lines[n].end
  PROVE  partition_point(o) = n
  <1>1. /\ lines[n].start \in Nat /\ lines[n].end \in Nat /\ o \in Nat
        /\ n \in Nat \ {0} /\ n \in 1..Len(lines)
    BY FinishedLine, SourceType DEF IInv
  <1>2. \A k \in DOMAIN lines : lines[k].start <= o <=> k <= n
    <2>1. TAKE k \in DOMAIN lines
    <2>2. lines[k].start \in Nat /\ lines[k].end \in Nat /\ lines[k].start <= lines[k].end /\ k \in Nat
      BY FinishedLine, SourceType DEF IInv
    <2>3. CASE k < n
      BY <1>1, <2>2, <2>3 DEF IInv, Ordered
    <2>4. CASE k = n
      BY <1>1, <2>4
    <2>5. CASE k > n
      BY <1>1, <2>2, <2>5 DEF IInv, Ordered
    <2>6. QED
      BY <1>1, <2>2, <2>3, <2>4, <2>5
  <1>3. {k \in DOMAIN lines : lines[k].start <= o} = 1..n
    BY <1>1, <1>2, SourceType DEF IInv
  <1>4. Cardinality(1..n) = n
    BY <1>1, FS_Interval
  <1>5. QED
    BY <1>3, <1>4 DEF partition_point

\* For every text and word size, offset_to_line_col and line_col_to_offset are
\* inverse to each other within the content of a line.
THEOREM MapsAreInverse == Spec => []RoundTrips
  <1>1. IInv => RoundTrips
    <2> SUFFICES ASSUME IInv, built, NEW n \in DOMAIN lines,
                        NEW o \in lines[n].start..lines[n].end
                 PROVE  /\ offset_to_line_col(o) = <<n, o - lines[n].start + 1>>
                        /\ line_col_to_offset(n, o - lines[n].start + 1) = o
      BY DEF RoundTrips
    <2> DEFINE s == lines[n].start
               e == lines[n].end
    <2>1. s \in Nat /\ e \in Nat /\ o \in Nat /\ s <= o /\ o <= e /\ Word \in Nat /\ len \in Nat
      BY FinishedLine, SourceType DEF IInv
    <2>2. n \in 1..Len(lines) /\ Len(lines) \in Nat
      BY SourceType DEF IInv
    <2>3. e <= len /\ len < Word
      <3>1. lines[n].end \in 0..len
        BY AlwaysScanned DEF TypeOK
      <3>2. len < Word
        BY SourceType DEF IInv, len
      <3>3. QED
        BY <3>1, <3>2
    <2>4. Clamp(1, n, Len(lines)) = n /\ Clamp(0, o, len) = o /\ Clamp(0, o, e) = o
      BY <2>1, <2>2, <2>3 DEF Clamp
    <2>5. offset_to_line_col(o) = <<n, o - s + 1>>
      BY <2>4, LineOfOffset DEF offset_to_line_col
    <2>6. Clamp(0, (o - s + 1) - 1, Word) = o - s
      BY <2>1, <2>3 DEF Clamp
    <2>7. s + (o - s) = o /\ o % Word = o
      <3>1. s + (o - s) = o /\ o < Word
        BY <2>1, <2>3
      <3>2. o % Word = o
        BY <2>1, <3>1, NoWrap
      <3>3. QED
        BY <3>1, <3>2
    <2>8. line_col_to_offset(n, o - s + 1) = o
      BY <2>4, <2>6, <2>7 DEF line_col_to_offset
    <2>9. QED
      BY <2>5, <2>8
  <1>2. QED
    BY Inductive, <1>1, PTL

-----------------------------------------------------------------------------
(* Lines and line feeds.                                                   *)

\* A line starts at the beginning or behind a line feed.
Starts(o) == o = 0 \/ (o - 1 \in 0..o - 1 /\ bytes(o - 1) = "lf")

\* Every line starts at a line feed, and as many lie before it as lines do.
Numbered ==
  /\ Starts(start)
  /\ Len(lines) = Cardinality(BreaksBefore(start)) + (IF built THEN 1 ELSE 0)
  /\ \A n \in DOMAIN lines : /\ Starts(lines[n].start)
                             /\ Cardinality(BreaksBefore(lines[n].start)) = n - 1

LEMMA BreaksFinite ==
  ASSUME NEW o \in Nat
  PROVE  IsFiniteSet(BreaksBefore(o)) /\ Cardinality(BreaksBefore(o)) \in Nat
  <1>1. IsFiniteSet(0..o - 1) /\ BreaksBefore(o) \in SUBSET (0..o - 1)
    BY FS_Interval DEF BreaksBefore
  <1>2. IsFiniteSet(BreaksBefore(o))
    BY <1>1, FS_Subset
  <1>3. QED
    BY <1>2, FS_CardinalityType

LEMMA BreaksGrow ==
  ASSUME NEW o \in Nat, NEW p \in Nat, o <= p
  PROVE  /\ BreaksBefore(o) \subseteq BreaksBefore(p)
         /\ Cardinality(BreaksBefore(o)) <= Cardinality(BreaksBefore(p))
         /\ Cardinality(BreaksBefore(o)) = Cardinality(BreaksBefore(p)) =>
              BreaksBefore(o) = BreaksBefore(p)
  <1>1. BreaksBefore(o) \in SUBSET BreaksBefore(p)
    BY DEF BreaksBefore
  <1>2. QED
    BY <1>1, BreaksFinite, FS_Subset

\* A position is where its line starts only if it is behind a line feed.
LEMMA StartsAt ==
  ASSUME NEW o \in Nat, Starts(o)
  PROVE  StartOf(o) = o
  <1>1. CASE o = 0
    BY <1>1 DEF StartOf, BreaksBefore
  <1>2. CASE o # 0
    <2>1. o - 1 \in BreaksBefore(o) /\ \A c \in BreaksBefore(o) : c <= o - 1 /\ c \in Int
      BY <1>2 DEF Starts, BreaksBefore
    <2>2. \A b \in BreaksBefore(o) :
            (\A c \in BreaksBefore(o) : c <= b) => b = o - 1
      BY <2>1
    <2>3. (CHOOSE b \in BreaksBefore(o) : \A c \in BreaksBefore(o) : c <= b) = o - 1
      BY <2>1, <2>2
    <2>4. BreaksBefore(o) # {} /\ (o - 1) + 1 = o
      BY <2>1
    <2>5. QED
      BY <2>3, <2>4 DEF StartOf
  <1>3. QED
    BY <1>1, <1>2

\* No line feed, no new line.
LEMMA SameLine ==
  ASSUME NEW from \in Nat, NEW to \in Nat, from <= to, Unbroken(from, to)
  PROVE  BreaksBefore(to) = BreaksBefore(from)
  BY DEF BreaksBefore, Unbroken

LEMMA BreakCounted ==
  ASSUME IInv, i < len, bytes(i) = "lf"
  PROVE  Cardinality(BreaksBefore(i + 1)) = Cardinality(BreaksBefore(start)) + 1
  <1>1. i \in Nat /\ start \in Nat /\ start <= i /\ Unbroken(start, i)
    BY SourceType DEF IInv, Typed, Scanned
  <1>2. BreaksBefore(i) = BreaksBefore(start)
    BY <1>1, SameLine
  <1>3. BreaksBefore(i + 1) = BreaksBefore(i) \union {i} /\ i \notin BreaksBefore(i)
    BY <1>1 DEF BreaksBefore
  <1>4. QED
    BY <1>1, <1>2, <1>3, BreaksFinite, FS_AddElement

\* Lines are numbered by the line feeds before them.
LEMMA AlwaysNumbered == Spec => []Numbered
  <1>1. Init => Numbered
    <2> SUFFICES ASSUME Init PROVE Numbered
      OBVIOUS
    <2>1. start = 0 /\ lines = <<>> /\ Len(lines) = 0 /\ DOMAIN lines = {} /\ ~built
      BY DEF Init
    <2>2. BreaksBefore(start) = {}
      BY <2>1 DEF BreaksBefore
    <2>3. QED
      BY <2>1, <2>2, FS_EmptySet DEF Numbered, Starts
  <1>2. IInv /\ Numbered /\ [Next]_vars => Numbered'
    <2> SUFFICES ASSUME IInv, Numbered, [Next]_vars PROVE Numbered'
      OBVIOUS
    <2>1. /\ Len(lines) \in Nat /\ DOMAIN lines = 1..Len(lines) /\ i \in Nat /\ start \in Nat
          /\ len \in Nat
      BY SourceType DEF IInv
    <2>2. source' = source
      BY DEF Next, vars, ScanBreak, ScanOther, Finish
    <2>4. CASE UNCHANGED <<start, lines, built>>
      BY <2>2, <2>4 DEF Numbered, Starts, BreaksBefore, bytes
    \* A line is cut: the one being scanned.
    <2>5. ASSUME NEW l, l.start = start, lines' = Append(lines, l), l \in Line, ~built
          PROVE  /\ Len(lines') = Len(lines) + 1
                 /\ \A n \in DOMAIN lines' :
                      /\ Starts(lines'[n].start)
                      /\ Cardinality(BreaksBefore(lines'[n].start)) = n - 1
      <3>1. /\ Len(lines') = Len(lines) + 1
            /\ DOMAIN lines' = DOMAIN lines \union {Len(lines) + 1}
            /\ lines'[Len(lines) + 1] = l
            /\ \A n \in DOMAIN lines : lines'[n] = lines[n]
        BY <2>5, Appended DEF IInv
      <3>2. Len(lines) = Cardinality(BreaksBefore(start))
        BY <2>1, <2>5, BreaksFinite DEF Numbered
      <3>3. (Len(lines) + 1) - 1 = Len(lines)
        BY <2>1
      <3>4. QED
        BY <2>5, <3>1, <3>2, <3>3 DEF Numbered
    <2>7. CASE ScanBreak
      <3> DEFINE l == [start |-> start, end |-> line_end]
      <3>1. l \in Line /\ l.start = start
        BY <2>1, <2>7, LineEnd DEF ScanBreak, IInv, Line
      <3>2. lines' = Append(lines, l) /\ ~built /\ ~built' /\ start' = i + 1 /\ i < len
            /\ bytes(i) = "lf"
        BY <2>7 DEF ScanBreak
      <3> HIDE DEF l
      <3>3. /\ Len(lines') = Len(lines) + 1
            /\ \A n \in DOMAIN lines' :
                 /\ Starts(lines'[n].start)
                 /\ Cardinality(BreaksBefore(lines'[n].start)) = n - 1
        BY <2>5, <3>1, <3>2
      <3>4. Starts(i + 1) /\ Cardinality(BreaksBefore(i + 1)) = Len(lines) + 1
        <4>1. Cardinality(BreaksBefore(i + 1)) = Cardinality(BreaksBefore(start)) + 1
          BY <3>2, BreakCounted
        <4>2. Len(lines) = Cardinality(BreaksBefore(start))
          BY <2>1, <3>2, BreaksFinite DEF Numbered
        <4>3. (i + 1) - 1 = i /\ i \in 0..i
          BY <2>1
        <4>4. QED
          BY <3>2, <4>1, <4>2, <4>3 DEF Starts
      <3>5. Starts(start)' /\ BreaksBefore(start)' = BreaksBefore(i + 1)
        BY <2>2, <3>2, <3>4 DEF Starts, BreaksBefore, bytes
      <3>6. Len(lines') = Cardinality(BreaksBefore(start)') + 0
        BY <2>1, <3>3, <3>4, <3>5
      <3>7. \A n \in DOMAIN lines' : /\ Starts(lines[n].start)'
                                     /\ Cardinality(BreaksBefore(lines[n].start)') = n - 1
        BY <2>2, <3>3 DEF Starts, BreaksBefore, bytes
      <3>8. QED
        BY <3>2, <3>5, <3>6, <3>7 DEF Numbered
    <2>8. CASE Finish
      <3> DEFINE l == [start |-> start, end |-> len]
      <3>1. l \in Line /\ l.start = start
        BY <2>1 DEF Line
      <3>2. lines' = Append(lines, l) /\ ~built /\ built' /\ start' = start
        BY <2>8 DEF Finish
      <3> HIDE DEF l
      <3>3. /\ Len(lines') = Len(lines) + 1
            /\ \A n \in DOMAIN lines' :
                 /\ Starts(lines'[n].start)
                 /\ Cardinality(BreaksBefore(lines'[n].start)) = n - 1
        BY <2>5, <3>1, <3>2
      <3>4. Len(lines) = Cardinality(BreaksBefore(start))
        BY <2>1, <3>2, BreaksFinite DEF Numbered
      <3>5. Starts(start)' /\ BreaksBefore(start)' = BreaksBefore(start)
        BY <2>2, <3>2 DEF Numbered, Starts, BreaksBefore, bytes
      <3>6. \A n \in DOMAIN lines' : /\ Starts(lines[n].start)'
                                     /\ Cardinality(BreaksBefore(lines[n].start)') = n - 1
        BY <2>2, <3>3 DEF Starts, BreaksBefore, bytes
      <3>7. QED
        BY <3>2, <3>3, <3>4, <3>5, <3>6 DEF Numbered
    <2>9. QED
      BY <2>4, <2>7, <2>8 DEF Next, vars, ScanOther
  <1>3. QED
    BY Inductive, <1>1, <1>2, PTL DEF Spec

\* For every text and at every step of the scan, the lines cut so far are the
\* text before `start' cut behind each of its line feeds (LineIndex::new).
THEOREM BreaksCut == Spec => []ScanCutsAtBreaks
  <1>1. IInv /\ Numbered => ScanCutsAtBreaks
    <2> SUFFICES ASSUME IInv, Numbered PROVE ScanCutsAtBreaks
      OBVIOUS
    <2>1. i \in Nat /\ start \in Nat /\ start <= i /\ Unbroken(start, i)
      BY SourceType DEF IInv, Typed, Scanned
    <2>2. start = StartOf(i)
      <3>1. BreaksBefore(i) = BreaksBefore(start)
        BY <2>1, SameLine
      <3>2. StartOf(i) = StartOf(start)
        BY <3>1 DEF StartOf
      <3>3. QED
        BY <2>1, <3>2, StartsAt DEF Numbered
    <2>3. ASSUME NEW n \in DOMAIN lines
          PROVE  LineOf(lines[n].start) = n /\ StartOf(lines[n].start) = lines[n].start
      <3>1. lines[n].start \in Nat /\ n \in Nat
        BY SourceType DEF IInv
      <3>2. StartOf(lines[n].start) = lines[n].start
        BY <3>1, StartsAt DEF Numbered
      <3>3. (n - 1) + 1 = n
        BY <3>1
      <3>4. QED
        BY <3>2, <3>3 DEF Numbered, LineOf
    <2>4. QED
      BY <2>2, <2>3 DEF ScanCutsAtBreaks, Numbered
  <1>2. QED
    BY Inductive, AlwaysNumbered, <1>1, PTL

\* The line an offset of the text is on, terminator included.
LEMMA LineFound ==
  ASSUME IInv, Numbered, built, NEW p \in 0..len
  PROVE  /\ LineOf(p) \in 1..Len(lines) /\ partition_point(p) = LineOf(p)
         /\ lines[LineOf(p)].start = StartOf(p)
  <1> DEFINE k == LineOf(p)
             c == Cardinality(BreaksBefore(p))
  <1>1. /\ Len(lines) \in Nat /\ DOMAIN lines = 1..Len(lines) /\ len \in Nat /\ p \in Nat
        /\ start \in Nat
    BY SourceType DEF IInv
  <1>2. c \in Nat /\ k = c + 1
    BY <1>1, BreaksFinite DEF LineOf
  <1>3. c <= Cardinality(BreaksBefore(start)) /\ Cardinality(BreaksBefore(start)) \in Nat
    <2>1. i = len /\ start <= len /\ Unbroken(start, len)
      BY <1>1 DEF IInv, Typed, Scanned
    <2>2. BreaksBefore(len) = BreaksBefore(start)
      BY <1>1, <2>1, SameLine
    <2>3. p <= len
      BY <1>1
    <2>4. QED
      BY <1>1, <2>2, <2>3, BreaksGrow, BreaksFinite
  <1>4. Len(lines) = Cardinality(BreaksBefore(start)) + 1
    BY DEF Numbered
  <1>5. k \in 1..Len(lines)
    BY <1>2, <1>3, <1>4
  <1>6. ASSUME NEW n \in DOMAIN lines
        PROVE  lines[n].start <= p <=> n <= k
    <2> DEFINE s == lines[n].start
               d == Cardinality(BreaksBefore(s))
    <2>1. s \in Nat /\ n \in Nat /\ Starts(s) /\ d = n - 1
      BY SourceType DEF IInv, Numbered
    <2>2. d \in Nat
      BY <2>1, BreaksFinite
    <2> HIDE DEF s
    <2>3. CASE s <= p
      <3>1. d <= c
        BY <1>1, <2>1, <2>3, BreaksGrow
      <3>2. n <= k
        <4> HIDE DEF c, d, k
        <4> QED BY <1>2, <2>1, <2>2, <3>1
      <3>3. QED
        BY <2>3, <3>2 DEF s
    <2>4. CASE ~(s <= p)
      <3>1. p <= s /\ s - 1 \in BreaksBefore(s) /\ s - 1 \notin BreaksBefore(p)
        BY <1>1, <2>1, <2>4 DEF Starts, BreaksBefore
      <3>2. c <= d /\ c # d
        BY <1>1, <2>1, <3>1, BreaksGrow
      <3>3. ~(n <= k)
        <4> HIDE DEF c, d, k
        <4> QED BY <1>2, <2>1, <2>2, <3>2
      <3>4. QED
        BY <2>4, <3>3 DEF s
    <2>5. QED
      BY <2>3, <2>4
  <1>7. partition_point(p) = k
    <2> HIDE DEF k
    <2>1. {n \in DOMAIN lines : lines[n].start <= p} = 1..k
      BY <1>1, <1>5, <1>6
    <2>2. Cardinality(1..k) = k
      BY <1>5, FS_Interval
    <2>3. QED
      BY <2>1, <2>2 DEF partition_point
  <1>8. lines[k].start = StartOf(p)
    <2> DEFINE s == lines[k].start
    <2>1. k \in DOMAIN lines /\ k \in Nat
      BY <1>1, <1>5
    <2>2. s \in Nat /\ Starts(s) /\ Cardinality(BreaksBefore(s)) = k - 1 /\ s <= p
      BY <1>6, <2>1, SourceType DEF IInv, Numbered
    <2>3. k - 1 = c
      BY <1>2
    <2> HIDE DEF s, k, c
    <2>4. Cardinality(BreaksBefore(s)) = Cardinality(BreaksBefore(p))
      BY <2>2, <2>3 DEF c
    <2>5. BreaksBefore(s) = BreaksBefore(p)
      BY <1>1, <2>2, <2>4, BreaksGrow
    <2>6. StartOf(p) = StartOf(s)
      BY <2>5 DEF StartOf
    <2>7. QED
      BY <2>2, <2>6, StartsAt DEF s
  <1>9. QED
    BY <1>5, <1>7, <1>8

\* For every text and every offset, the end and terminators included, the binary
\* search finds the line of the line feeds before it and the column of its
\* distance from the last of them; past the end, those of the end
\* (offset_to_line_col).
THEOREM EveryOffsetLocated == Spec => []OffsetsLocated
  <1>1. IInv /\ Numbered => OffsetsLocated
    <2> SUFFICES ASSUME IInv, Numbered, built, NEW o \in 0..Word - 1
                 PROVE  LET p == IF o > len THEN len ELSE o IN
                        offset_to_line_col(o) = <<LineOf(p), p - StartOf(p) + 1>>
      BY DEF OffsetsLocated
    <2> DEFINE p == IF o > len THEN len ELSE o
    <2>1. len \in Nat /\ o \in Nat /\ Word \in Nat
      BY SourceType DEF IInv
    <2>2. p \in 0..len /\ Clamp(0, o, len) = p
      BY <2>1 DEF Clamp
    <2> HIDE DEF p
    <2>3. /\ LineOf(p) \in 1..Len(lines) /\ partition_point(p) = LineOf(p)
          /\ lines[LineOf(p)].start = StartOf(p)
      BY <2>2, LineFound
    <2>4. Clamp(1, LineOf(p), Len(lines)) = LineOf(p)
      BY <2>3, SourceType DEF Clamp, IInv
    <2>5. offset_to_line_col(o) = <<LineOf(p), p - StartOf(p) + 1>>
      BY <2>2, <2>3, <2>4 DEF offset_to_line_col
    <2>6. QED
      BY <2>5 DEF p
  <1>2. QED
    BY Inductive, AlwaysNumbered, <1>1, PTL
=============================================================================

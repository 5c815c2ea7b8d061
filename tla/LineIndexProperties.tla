------------------------ MODULE LineIndexProperties ------------------------
(***************************************************************************)
(* What the line index of module LineIndex guarantees.                     *)
(***************************************************************************)
EXTENDS LineIndex

TypeOK ==
  /\ source \in Sources /\ built \in BOOLEAN
  /\ i \in 0..len /\ start \in 0..i
  /\ \A n \in DOMAIN lines : lines[n] \in [start : 0..len, end : 0..len]

-----------------------------------------------------------------------------
(* The reference: positions counted from the line feeds alone.             *)

BreaksBefore(o) == {b \in 0..o - 1 : bytes(b) = "lf"}
LineOf(o) == Cardinality(BreaksBefore(o)) + 1
StartOf(o) == IF BreaksBefore(o) = {} THEN 0
              ELSE (CHOOSE b \in BreaksBefore(o) : \A c \in BreaksBefore(o) : c <= b) + 1

\* The bytes of a line after its content.
Ending(n) == [k \in 1..full_end(n) - lines[n].end |-> bytes(lines[n].end + k - 1)]

-----------------------------------------------------------------------------
\* At every step of the scan the lines cut so far are the text before `start'
\* cut behind each of its line feeds: the invariant of the loop, proved only.
ScanCutsAtBreaks ==
  /\ Len(lines) = Cardinality(BreaksBefore(start)) + (IF built THEN 1 ELSE 0)
  /\ \A n \in DOMAIN lines : LineOf(lines[n].start) = n /\ StartOf(lines[n].start) = lines[n].start
  /\ start = StartOf(i)

\* The full ranges tile the source, and each is its content followed by the very
\* terminator line_terminator names: content, full range and kind agree.
RangesTile ==
  built =>
    /\ line_full_range(1)[1] = 0 /\ line_full_range(Len(lines))[2] = len
    /\ \A n \in DOMAIN lines :
         /\ n > 1 => line_full_range(n)[1] = line_full_range(n - 1)[2]
         /\ \A o \in line_range(n)[1]..line_range(n)[2] - 1 : bytes(o) # "lf"
         /\ Ending(n) = CASE line_terminator(n) = "Lf" -> <<"lf">>
                          [] line_terminator(n) = "CrLf" -> <<"cr", "lf">>
                          [] line_terminator(n) = "Terminator::None" -> <<>>
         /\ line_terminator(n) = "Lf" /\ lines[n].end > lines[n].start =>
              bytes(lines[n].end - 1) # "cr"

\* An offset has the line of the line feeds before it and the column of its
\* distance from the last of them; one past the end, that of the end.
OffsetsLocated ==
  built => \A o \in 0..Word - 1 :
    LET p == IF o > len THEN len ELSE o IN
    offset_to_line_col(o) = <<LineOf(p), p - StartOf(p) + 1>>

\* Within a line's content the two maps are inverse to each other.
RoundTrips ==
  built => \A n \in DOMAIN lines : \A o \in lines[n].start..lines[n].end :
    /\ offset_to_line_col(o) = <<n, o - lines[n].start + 1>>
    /\ line_col_to_offset(n, o - lines[n].start + 1) = o

\* A column past the content means the end of the content, as long as the sum
\* fits the word.
ColumnsClamp ==
  built => \A n \in DOMAIN lines : \A col \in 0..Word - 1 :
    lines[n].start + col <= Word /\ col > lines[n].end - lines[n].start =>
      line_col_to_offset(n, col) = lines[n].end

-----------------------------------------------------------------------------
(* A statement of the repository that the code does not meet.              *)

\* "an overflowing `col` clamps to just past the line's last content byte"
\* (line_index.rs:107): for every column there is.
EveryColumnClamps ==
  built => \A n \in DOMAIN lines : \A col \in 0..Word - 1 :
    col > lines[n].end - lines[n].start => line_col_to_offset(n, col) = lines[n].end
=============================================================================

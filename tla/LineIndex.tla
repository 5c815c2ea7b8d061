----------------------------- MODULE LineIndex -----------------------------
(***************************************************************************)
(* The line/column index of lispexp (src/src/line_index.rs, ADR-0024): the *)
(* scan that builds it, and its queries.  Offsets, lines and columns are   *)
(* u32: Word is 2^32.  An addition wraps, as in the release build; the     *)
(* debug build panics there.                                               *)
(***************************************************************************)
EXTENDS Integers, Sequences, FiniteSets

CONSTANTS
  Sources,   (* the source texts considered: every byte "lf", "cr" or "other" *)
  Word       (* the number of values of an offset                          *)

ASSUME LineIndexAssumption ==
  /\ Word \in Nat
  /\ \A s \in Sources : s \in Seq({"lf", "cr", "other"}) /\ Len(s) + 1 < Word

VARIABLES
  source,   (* the text indexed; never changes                             *)
  i,        (* the bytes scanned                                           *)
  start,    (* where the line being scanned starts                         *)
  lines,    (* LineIndex::lines                                            *)
  built     (* new has returned                                            *)

vars == <<source, i, start, lines, built>>

len == Len(source)
bytes(o) == source[o + 1]   \* the byte at an offset

-----------------------------------------------------------------------------
(* LineIndex::new                                                          *)

line_endKeepingCr == i   \* faulty: `\r\n' leaves its `\r' in the content

\* Where the content of the line ends whose `\n' is the byte i.
line_end == IF i > start /\ bytes(i - 1) = "cr" THEN i - 1 ELSE i

ScanBreak ==
  /\ ~built /\ i < len /\ bytes(i) = "lf"
  /\ lines' = Append(lines, [start |-> start, end |-> line_end])
  /\ start' = i + 1 /\ i' = i + 1
  /\ UNCHANGED <<source, built>>

ScanOther ==
  /\ ~built /\ i < len /\ bytes(i) # "lf"
  /\ i' = i + 1
  /\ UNCHANGED <<source, start, lines, built>>

\* The final line is always pushed.
Finish ==
  /\ ~built /\ i = len
  /\ lines' = Append(lines, [start |-> start, end |-> len])
  /\ built' = TRUE
  /\ UNCHANGED <<source, i, start>>

-----------------------------------------------------------------------------
(* The queries of a finished index; None is Rust's.                        *)

None == "None"
Clamp(lo, n, hi) == IF n < lo THEN lo ELSE IF n > hi THEN hi ELSE n

\* The number of lines that start at or before an offset.
partition_pointBefore(o) == Cardinality({n \in DOMAIN lines : lines[n].start < o})   \* faulty
partition_point(o) == Cardinality({n \in DOMAIN lines : lines[n].start <= o})

offset_to_line_col(offset) ==
  LET o == Clamp(0, offset, len)
      n == Clamp(1, partition_point(o), Len(lines))
  IN  <<n, o - lines[n].start + 1>>

line_col_to_offsetUnclamped(line, col) ==   \* faulty: a long column runs on
  lines[Clamp(1, line, Len(lines))].start + Clamp(0, col - 1, Word)

line_col_to_offsetZeroBased(line, col) ==   \* faulty: counts columns from 0
  LET l == lines[Clamp(1, line, Len(lines))] IN Clamp(0, (l.start + col) % Word, l.end)

line_col_to_offset(line, col) ==
  LET l == lines[Clamp(1, line, Len(lines))]
      o == (l.start + Clamp(0, col - 1, Word)) % Word
  IN  Clamp(0, o, l.end)

line_range(n) == IF n \in DOMAIN lines THEN <<lines[n].start, lines[n].end>> ELSE None

full_endOfContent(n) == lines[n].end   \* faulty: stops before the terminator
full_end(n) == IF n + 1 \in DOMAIN lines THEN lines[n + 1].start ELSE len

line_full_range(n) == IF n \in DOMAIN lines THEN <<lines[n].start, full_end(n)>> ELSE None

line_terminator(n) ==
  CASE n \notin DOMAIN lines -> None
    [] n \in DOMAIN lines /\ full_end(n) - lines[n].end = 0 -> "Terminator::None"
    [] n \in DOMAIN lines /\ full_end(n) - lines[n].end = 1 -> "Lf"
    [] OTHER -> "CrLf"

-----------------------------------------------------------------------------
Init == source \in Sources /\ i = 0 /\ start = 0 /\ lines = <<>> /\ built = FALSE
Next == ScanBreak \/ ScanOther \/ Finish
Spec == Init /\ [][Next]_vars
=============================================================================

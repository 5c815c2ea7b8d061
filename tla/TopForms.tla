------------------------------ MODULE TopForms ------------------------------
(***************************************************************************)
(* What reading a source text promises its caller, whatever the grammar    *)
(* and the recovery strategy (docs/adr/0004): the input is worked through  *)
(* from left to right; every stretch of it yields one top-level form,      *)
(* or is passed over because of a defect that was reported inside it or    *)
(* because it is a datum comment; and reading ends only when the whole     *)
(* input has been worked through.                                          *)
(***************************************************************************)
EXTENDS Integers, Sequences

VARIABLES
  input,      (* the significant tokens                                    *)
  comments,   (* the kinds of token that hide the datum after them         *)
  cursor,     (* the first token not yet worked through                    *)
  forms,      (* where each form read so far begins                        *)
  defects,    (* the tokens at which a defect was reported, as a sequence  *)
  finished

vars == <<input, comments, cursor, forms, defects, finished>>

Init == cursor = 1 /\ forms = <<>> /\ defects = <<>> /\ finished = FALSE

\* A defect is reported.
Report ==
  /\ \E at \in DOMAIN input : defects' = Append(defects, at)
  /\ UNCHANGED <<input, comments, cursor, forms, finished>>

\* The tokens up to `next' are worked through and yield the form that begins
\* at one of them.
ReadForm(next) ==
  /\ \E first \in cursor..next - 1 : forms' = Append(forms, first)
  /\ cursor' = next
  /\ UNCHANGED <<input, comments, defects, finished>>

\* A reason, visible to the caller, why the tokens from..to - 1 yield no form.
Excused(from, to, reported) ==
  \/ \E i \in from..to - 1 : input[i] \in comments
  \/ \E i \in DOMAIN reported : reported[i] \in from..to - 1

\* The tokens up to `next' yield nothing; a defect may be reported with it.
PassOver(next) ==
  /\ \/ defects' = defects
     \/ \E at \in cursor..next - 1 : defects' = Append(defects, at)
  /\ Excused(cursor, next, defects')
  /\ cursor' = next
  /\ UNCHANGED <<input, comments, forms, finished>>

\* Reading ends; the last tokens may be passed over in the same step.
Finish ==
  /\ cursor = Len(input) + 1 \/ Excused(cursor, Len(input) + 1, defects)
  /\ cursor' = Len(input) + 1
  /\ finished' = TRUE
  /\ UNCHANGED <<input, comments, forms, defects>>

Next ==
  \/ Report
  \/ \E next \in cursor + 1..Len(input) + 1 : ReadForm(next) \/ PassOver(next)
  \/ Finish

Spec == Init /\ [][Next]_vars
=============================================================================

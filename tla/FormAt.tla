------------------------------- MODULE FormAt -------------------------------
(***************************************************************************)
(* A consumer of parse and parse_form_at (src/src/reader.rs:93, ADR-0023): *)
(* an editor parses a text once, then reads it again form by form from one *)
(* of the boundaries parse gave it, feeding the end of each form back as   *)
(* the start of the next call.  Every call of parse_form_at makes a Parser *)
(* of its own over the same tokens; its inner steps are those of Reader.   *)
(***************************************************************************)
EXTENDS Reader

VARIABLES
  phase,    (* "parse": in parse; "chain": in a call of parse_form_at;     *)
            (* "end": a call returned None; "cut": MaxCalls forms read     *)
  parsed,   (* what parse returned: the forms' spans, and its errors       *)
  from,     (* the token the consumer's first call starts at               *)
  read,     (* the spans of the forms the calls returned                   *)
  noted     (* the diagnostics the calls returned                          *)

consumer == <<parsed, from, read, noted>>
formVars == <<vars, phase, consumer>>

SpanOf(d) == [first |-> heap[d].first, end |-> heap[d].end]

\* The bound on the consumer's calls: a chain of calls that advances makes at
\* most one per token.
MaxCalls == Len(tokens)

FormInit ==
  /\ Init
  /\ phase = "parse"
  /\ parsed = [forms |-> <<>>, errors |-> <<>>]
  /\ from = 1 /\ read = <<>> /\ noted = <<>>

NewParserKeepingErrors(p) ==   \* faulty: the diagnostics of earlier calls stay
  /\ pos' = p /\ depth' = 0
  /\ data' = <<>> /\ heap' = <<>> /\ stack' = <<>> /\ pc' = "top" /\ ret' = None
  /\ UNCHANGED <<input, errors>>

\* A new Parser whose pos is the first token that starts at or after a given
\* offset, the start of token p.
NewParser(p) ==
  /\ pos' = p /\ depth' = 0
  /\ errors' = <<>> /\ data' = <<>> /\ heap' = <<>>
  /\ stack' = <<>> /\ pc' = "top" /\ ret' = None
  /\ UNCHANGED input

Parse ==
  /\ phase = "parse" /\ Next
  /\ UNCHANGED <<phase, consumer>>

\* The consumer picks the beginning of the text or of one of its forms.
StartChain ==
  /\ phase = "parse" /\ pc = "done"
  /\ phase' = "chain"
  /\ parsed' = [forms |-> [i \in DOMAIN data |-> SpanOf(data[i])], errors |-> errors]
  /\ from' \in {1} \union {heap[data[i]].first : i \in DOMAIN data}
  /\ NewParser(from')
  /\ UNCHANGED <<read, noted>>

FormStrayClose ==
  /\ phase = "chain" /\ TopStrayClose
  /\ UNCHANGED <<phase, consumer>>

FormCall ==
  /\ phase = "chain" /\ TopCall
  /\ UNCHANGED <<phase, consumer>>

FormDatum ==
  /\ phase = "chain" /\ ReadDatum
  /\ UNCHANGED <<phase, consumer>>

\* parse_form_at's `?': no token left, or parse_datum returned None.
FormNone ==
  /\ phase = "chain"
  /\ \/ pc = "top" /\ peek = EOF
     \/ pc = "return" /\ top.fn = "top" /\ ret = None
  /\ phase' = "end"
  /\ UNCHANGED <<vars, consumer>>

FeedBackPast(end) == end + 2   \* faulty: skips the token at the boundary
FeedBackLast(end) == IF end = 0 THEN 1 ELSE end   \* faulty: reads the last token again

\* partition_point: the first token that starts at or after the end of a form.
FeedBack(end) == end + 1

\* A form: the consumer keeps it and calls again at its end.
FormRead ==
  /\ phase = "chain" /\ pc = "return" /\ top.fn = "top" /\ ret # None
  /\ read' = Append(read, SpanOf(ret))
  /\ noted' = noted \o errors
  /\ phase' = IF Len(read') = MaxCalls + 1 THEN "cut" ELSE "chain"
  /\ NewParser(FeedBack(heap[ret].end))
  /\ UNCHANGED <<parsed, from>>

FormNext == \/ Parse \/ StartChain \/ FormStrayClose \/ FormCall \/ FormDatum
            \/ FormNone \/ FormRead

FormSpec == FormInit /\ [][FormNext]_formVars
FairFormSpec == FormSpec /\ WF_formVars(FormNext)

-----------------------------------------------------------------------------
\* The forms and the diagnostics parse found from token `from' on.
Ahead(seq, At(_)) == SelectSeq(seq, LAMBDA x : At(x) >= from)
FormsAhead  == Ahead(parsed.forms, LAMBDA f : f.first)
ErrorsAhead == Ahead(parsed.errors, LAMBDA e : e.at)

\* A stray close that does not directly follow a form, another stray close or
\* the beginning: a dangling prefix, a discarded form or a malformed token
\* stands before it.
Strays == {e.at : e \in {x \in ToSet(parsed.errors) : x.kind = "UnexpectedDelimiter"}}
StrayAfterNothing ==
  \E at \in Strays \ {1} : /\ at - 1 \notin Strays
                           /\ \A i \in DOMAIN parsed.forms : parsed.forms[i].end # at - 1

\* Some form of parse ends at offset 0: it holds a list that exceeds the depth
\* cap with the last token.  Its end cannot be fed back.
EndLost == \E i \in DOMAIN parsed.forms : parsed.forms[i].end = 0

\* The last form of parse is, or holds, a list that is never closed and that
\* goes on with a dot: its end is that of the item before the dot
\* (reader.rs:456), so that the dot and its tail are read again as forms.
TailLost ==
  \E i \in DOMAIN parsed.forms, e \in DOMAIN parsed.errors, k \in DOMAIN tokens :
    /\ parsed.errors[e].kind = "UnclosedList"
    /\ parsed.errors[e].at \in parsed.forms[i].first..parsed.forms[i].end
    /\ opts.dotted_pairs /\ tokens[k] = "." /\ k > parsed.forms[i].end

\* From any boundary, the calls return the forms parse returned from there on,
\* each with its own diagnostics and no other: re-reading one form of a text
\* neither invents nor hides a diagnostic (ADR-0023).
ChainFollowsParse ==
  phase # "parse" => /\ IsPrefix(read, FormsAhead) \/ EndLost \/ TailLost
                     /\ IsPrefix(noted, ErrorsAhead) \/ EndLost \/ TailLost

\* The chain reads all of them unless a stray close follows tokens that read
\* as no form: there parse goes on and parse_form_at gives up (reader.rs:107).
ChainComplete ==
  phase = "end" /\ ~StrayAfterNothing /\ ~TailLost => read = FormsAhead

\* The consumer's loop ends with a None, after at most one call per token,
\* unless the end it feeds back is lost.
ChainEnds == <>(phase = "end" \/ (phase = "cut" /\ EndLost))

=============================================================================

# A TLA+ model of lispexp

lispexp reads S-expression source text of some thirty Lisp dialects: it lexes
the text under an `Options` value, builds a tree of spanned data with
fault-tolerant recovery, and offers a few services over text and tree (a
code-vs-data walker, a line index, an annotator of definition forms, indent
specs, dialect detection, and a sub-crate for Emacs' local variables). It is a
library of sequential functions: nothing is shared between threads and nothing
is persisted. What is hard about it is long sequences of recovery steps on
malformed text, positions and counters at their limits, state kept in step by
hand on several paths, and separate pieces of code that must agree.

## Inventory

| Component | State | Operations | Interacts with | What is hard | What makes it correct |
|---|---|---|---|---|---|
| **Reader**, `src/reader.rs` | tokens, position, depth, errors; one Rust stack frame per open list or prefix | `parse_top_level`, `parse_datum`, `finish_list`, `finish_hash`, `skip_balanced`, `fold_longhand` | pulls all tokens from the Lexer, consults Options, builds Datum | three meanings of `None`, recovery from every delimiter error, the depth cap, dotted tails | stops; loses no datum; works through the whole text; a diagnostic exactly for a defect; spans nest; depth exact |
| **parse_form_at**, `src/reader.rs:93` | a Parser of its own per call | one form at or after an offset; the consumer feeds `end` back | same inner functions as parse, its own outer loop | two outer loops that must agree, ends fed back | same forms and diagnostics as one parse |
| **Walker**, `src/walk.rs` | the recursion of `walk_datum` with a context; the worklist of `CodeNodes` | `walk`, `walk_regions` with a callback (descend/skip/stop), `code_nodes` | reads Datum | quasiquote depth, stop through nested loops, pruning porous data | right region for each datum, pre-order, pruning loses no code |
| **LineIndex**, `src/line_index.rs` | lines, length | the scan of `new`; six queries | takes the source | terminators, ends, u32 arithmetic | tiling, location, round trip |
| **Lexer**, `src/lexer.rs` | source, position, Options | `next_token` and some thirty sub-lexers | feeds the Reader | one glyph with many meanings, backtracking out of unterminated strings | tokens tile the source, progress, resynchronisation |
| **Options and dialects**, `src/options.rs` | none | 30-odd presets | every stage | combinations of switches | presets are consistent |
| **Datum, Span, Error, Token** | data types | accessors, Display | - | - | - |
| **Annotator**, `src/annotate.rs` | `Registry` of form specs | `annotate_form`, `annotate_tree`, insert/remove/merge, harvest of macro definitions | Reader, Datum | specs overridden by later ones, roles read off a parameter list and applied to uses of another shape | the last layer wins; an argument gets the role its parameter names; parts tile the form |
| **Indent specs**, `src/indent.rs` | `IndentTable` | insert/remove/merge, harvest of `put` and `declare` | layered like the registry | precedence, which forms are data | the last declaration wins |
| **Detect**, `src/detect.rs` | scores of a project | `detect`, `detect_project` | Options | precedence of signals, votes, ties | no dependence on file order |
| **Emacs dir-locals**, `crates/lispexp-emacs/src/dir_locals.rs` | entries | `parse`, `for_path`, `for_mode` | Reader | scope nesting, order | the nearest scope wins |
| **Emacs file-locals**, `.../local_vars.rs` | bindings | header, footer, `get` | names the mode dir-locals are resolved for | precedence, block boundaries | the last block beats the cookie, nothing else binds |
| **Emacs indent data**, `.../indent.rs` | table | lookup | base layer of Indent specs | - | - |

Every hazard we know of is listed at its line in `PROJECT.json`, with the
properties that cover it or the reason why none does.

## Modules

| Module | Models / states | Kind |
|---|---|---|
| `Reader` | `parse`: all of `src/reader.rs` but `parse_form_at`, over significant tokens | component |
| `ReaderProperties` | type invariant, safety, liveness, refinement, and the statements the code does not meet | properties |
| `TopForms` | what reading promises a caller, with no grammar in it | abstract specification |
| `Grammar` | structurally clean text, as a grammar: for each text one recursive function, `Ends`, of a part, a position and a level | reference definition |
| `MCReader` | instances of the reader | TLC |
| `FormAt`, `MCFormAt` | a consumer of `parse` and `parse_form_at`; extends `Reader` and drives its actions | composition, TLC |
| `Walk`, `WalkProperties`, `MCWalk` | `src/walk.rs` over forests of data | component, TLC |
| `LineIndex`, `LineIndexProperties`, `MCLineIndex` | `src/line_index.rs` | component, TLC |
| `Options` | the dialect presets of `src/options.rs`, as far as the lexer consults them | constants |
| `Lexer`, `LexerProperties`, `MCLexer` | `src/lexer.rs`, character by character | component, TLC |
| `Builtins` | the bundled form specs of every dialect | constants |
| `Harvest` | what one definition form says: the macro harvester, `harvest_put`, `harvest_declare`; the bundled indent table | operators |
| `Annotate`, `AnnotateProperties`, `MCAnnotate` | layering of tables, the loops of both harvesters, `annotate_form` step by step | component, TLC |
| `Detect`, `FileLocals`, `DirLocals` | one file's signals and the votes; cookie and block; the alist and its scopes | operators |
| `Settings`, `SettingsProperties`, `MCSettings` | a tool that calls the three for a project, loop turn by loop turn | composition, TLC |
| `ReaderProofs`, `ReaderTreeProofs`, `ReaderGrammarProofs` | theorems about `Reader`: types, depth, the calls, the skip and the refinement of `TopForms`; what is built; the diagnostics against `Grammar` | TLAPS |
| `LexerProofs`, `WalkProofs`, `LineIndexProofs` | theorems about `Lexer`, `Walk`, `LineIndex` | TLAPS |
| `AnnotateProofs` | theorems about `Annotate` and the operators of `Builtins` and `Harvest` it is built from | TLAPS |
| `SettingsProofs` | theorems about `Settings` and the operators of `Detect`, `FileLocals` and `DirLocals` | TLAPS |

### How Reader corresponds to the code

- `tokens`, `pos`, `depth`, `errors` are the Parser's fields, `data` the
  result of `parse_top_level`, `heap` every datum built (`items`, `tail` and
  `arg` are indices into it). `stack` is the Rust call stack: one frame for a
  call that waits for a `parse_datum` (`top`, `discard`, `arg`, `prefix`,
  `label`, `tag`, `list`) or runs `skip_balanced` (`skip`). `pc` says which
  function runs and `ret` what `parse_datum` returned.
- A `Top..` action is a turn of `parse_top_level`, a `Datum..` action an arm of
  `parse_datum`, a `..Take` action what an arm does with the datum it waited
  for, a `List..` action a turn of `finish_list`, a `Skip..` action a turn of
  `skip_balanced`. `Complete` is the end of `finish_list` together with
  `finish_hash` and `fold_longhand`.
- Offsets are token indices: tokens do not overlap and are not empty, so the
  code's comparisons of offsets are comparisons of indices. 0 is offset 0,
  which `skip_balanced` returns at the end of the input. Lines, texts and
  the classification of an atom are left out; of an atom only "is it `.`" and
  "does it name a quote form" matter. `'` stands for all generic prefixes, `^`
  and `#+` for the two that read two data, `(`, `[`, `{`, `#{` and `#(`, `#[` for
  the delimiters.
- `Lexable` says which token sequences the lexer can produce: which kinds exclude
  each other under one set of options. An unterminated lexeme may be followed by
  anything (`lexer.rs:420`).

### FormAt

A consumer parses the text (`Parse` runs Reader's `Next`), picks the beginning of
the text or of a form (`StartChain`), and then calls `parse_form_at` again and
again, each call with a new Parser (`NewParser`). The steps inside a call are
Reader's. `FormNone` is the two `?` of `parse_form_at`, `FormRead` its result,
which the consumer feeds back. A chain is cut after more calls than there are
tokens (`MaxCalls`), so that one that does not advance shows as a liveness error.

### Walk

A forest is its data in pre-order with the last datum inside each. `calls` is
the recursion of `walk_datum`: for each `for_each_child` in progress the children
still to come. The callback's answer is free at every datum. After the visitor
the consumer runs the iterator, whose worklist is `work`. The reference
(`RegionOf`) reads the region of a datum off the prefixes around it, with no
context threaded through.

### LineIndex

One action per byte of the scan; the queries are operators over the finished
index. Addition wraps at `Word` (2^32 in the code, 16 in the run), as it does
in a release build.

### Lexer

A character stands for its role: `dq` is `"`, `esc` is `\`, and a run of letters
that the code looks ahead for as a whole (`true`, `lang`, `vu8`) is one character.
`leads` and `hash_leads` are the branches of `next_token` and `lex_hash` in the
order in which they are tried; each completes a token or enters a loop. `mode`
names the loop, and each turn of it is a step. The options are the presets of
`Options`. The numeric text of an atom, the kind of a delimiter and the reason of
an `Unterminated` are left out. The reader's `tokens` are those the lexer
produces without whitespace, comments and `#lang` lines.

### Annotate

- A consumer starts from the bundled tables of its dialect and applies `plan.layers`
  in order: `InsertSpec`, `RemoveSpec`, `MergeTables` on both tables, or a harvest.
  Registry and indent table have no common owner in the code; that a layer touches
  both is the consumer's doing, the two never read each other.
- A source is its data in pre-order (`form`) with the last datum inside each
  (`last`). `HarvestDatum` is a turn of `harvest_source_for`, which looks at the
  top level only (`at` jumps behind `last`); `HarvestForm` is a call of the indent
  harvester's `harvest_form`, which descends into every round list and into nothing
  else (`SkipForm`).
- A definition form is a record (`Form` in `Harvest`): head, parameters, docstring,
  metadata, attribute map, clauses, rule patterns, `put`. A parameter is one
  name of the class its role is read from (`class`), a marker of the lambda list, or
  `list` for a nested list.
- `annotate_form` has one action per arm: `TagLeading`, `NotNamed` (the `?` of a
  `Name` slot), `LeadingEnd`, `TagQualifier`, `TagSpecializedArglist`,
  `TagDispatchValue`, `NoDispatch`, `TagDocstring`, `TagBody`. An argument is only
  its shape.
- `Builtins` holds every bundled form spec; of the bundled indent table one symbol
  stands for all with the same spec. A table is a function; `Table` puts the rows of a
  registry together as the code's `insert` calls do, which never mention a head twice.
- A loop over parameters or rules (`classify_arglist_params`, `classify_pattern`,
  `richest`) is a recursive function of the number of elements read, its turn an operator of
  its own (`read_param`, `read_element`, `better`).

### Settings

The three calls are independent in the code; their order, and that the mode the
file asks for is the one the directory locals are resolved for, is that of a tool.
`Vote` is a turn of `detect_project`'s loop and `Decide` its `max_by`; `ReadHeader` the
cookie and the search for a block, `ReadLine` and `EndBlock` the block; `Collect`
an element of the alist; `Resolve` is `for_path`. A line is what stands before its first letter
and its kind; no prefix used begins with another. A directory is its components and
whether it is spelled with a slash: the code compares spellings when it collects
and components when it nests. A file whose content is examined is the
set of structural markers in it. `FlattenSeq` is the code's `flat_map`. `IsProject` says
that what the code has as a `Vec` is a sequence here, and no more.

## Runs

| Run | Checks | Bounds |
|---|---|---|
| `reader` | 8 invariants, `NoDatumLost` (action), `RefinesTopForms` (refinement), `Terminates` | all texts of up to 3 tokens over all kinds (4 with the strict options), 5 over lists with datum comments, 6 over dotted lists and over hash literals; depth cap 2 |
| `form_at` | `ChainFollowsParse`, `ChainComplete`, `ChainEnds` | 4 tokens over nine kinds, 6 over three, 5 over lists with dots; every boundary as start; depth cap 2 |
| `walk` | 5 invariants, `Ends` | every forest of 3 data over all kinds, of 4 over template kinds, every chain of 4 region-shifting macros; every answer of the callback |
| `line_index` | 4 invariants | every text of 6 bytes over `\n`, `\r`, other; offsets and columns of 4 bits |
| `lexer` | 7 invariants, `Ends` | per dialect every text of 3 to 7 characters over the glyphs with a meaning in it |
| `definitions` | 5 invariants | every sequence of 3 of eight layers; one definition with every parameter list of 4 (3 in every dialect with each of its heads, with and without a docstring in front of the parameters) or pattern of 3, with metadata on the name, in an attribute map or both, and seven uses; every form of 3 arguments under every bundled head |
| `settings` | 3 invariants | every list of 3 of eleven files, every text of 4 of ten lines, every alist of 3 of thirteen elements for four paths |
| `stale_dot`, `span_backward`, `roles_shift`, `iterator_disagrees`, `column_overflow` | one statement each that the code does not meet | as the run of the same module; `roles_shift` with one layer |

Why the bounds are enough: the reader's decisions look at one token, one frame
and one datum, so each pair of recovery paths meets within a list of four
tokens in another; six tokens allow three nested lists, one more than the depth
cap (2), with content in the skipped region, and two dots after one item with
the close. Longer texts repeat these situations. What the bounds cannot show
(any depth, any length) is what the theorems are for. In the walker four
macros in a row reach depth 4, saturate it and cross a quote and a `#.` on the way.
In the lexer a lexeme needs an opener, content, an escape and a closer, and what is
interesting is at most two of them with a break between: seven characters for comments
that nest, six for strings with a line to give back, four where glyphs only
compete. Six bytes hold two `\r\n` breaks, a lone `\r` and an empty line; 4 bits leave
room for sums that overflow. Three layers let one be overridden twice and removed
in between; a definition's roles are decided by at most a leading parameter, a
docstring, a marker and a rest, which is four; three files let one strong vote tie
with two weaker ones, in each order; four lines hold a cookie and a
block with two pairs or with an early `End:`, or a second block; three groups put two scopes of one
depth beside a deeper one, in each order.

### What the properties say

- **Reader.** `NoneMeansStop`: `None` from `parse_datum` always has a close or
  the end behind it, which `finish_list`'s fallback branch relies on.
  `CallsConsume`: the "guarantee progress" branch is never needed.
  `DepthCounted`: the depth counter is the number of open lists. `SkipNesting`: the skip stops at
  the balancing close. `SpansNest`: children in source order, inside their
  parents, dots between. `NoDatumLost`: no step drops a datum except those the
  code drops on purpose. `DiagnosticFree`: a text of `Grammar` gets no diagnostic, and
  none is given exactly when the text as the reader took it (`AsRead`: a symbol in place
  of each dot it took for one) is a text of `Grammar`. `DotsSeparate`: which dots those
  cannot be, those directly behind an item or a tail. `RefinesTopForms`: each call from the top level yields a form, or
  a diagnostic inside what it passed over, or a datum comment; the whole input
  is worked through. `Terminates`.
- **FormAt.** The chain gives a prefix of parse's forms and diagnostics
  (`ChainFollowsParse`), all of them unless a stray close follows tokens that
  read as no form (`ChainComplete`), and ends (`ChainEnds`). Texts in which the end of a
  form is not behind it (`EndLost`, `TailLost`) are excluded.
- **Walk.** `VisitsInOrder`, `RegionsRight`, `PruningKeepsCode`,
  `YieldsInOrder`, `Ends`.
- **LineIndex.** `RangesTile`, `OffsetsLocated`,
  `RoundTrips`, `ColumnsClamp`.
- **Lexer.** `Tiles`: tokens tile the source and none is empty.
  `QuotedEndsRight`: a lexeme ends at the first closing character with an even
  number of backslashes before it. `ResumesAtLineStart`: text is given back only by
  an unterminated string or quoted identifier, and exactly from the first line that
  begins with `(`. `BlockCommentsNest`: comments are those of a grammar.
  `DelimitersSeen` (the reader sees every list open and close), `NamesAreWhole`,
  `Ends`.
- **Annotate.** `LaterLayersWin`: the tables after all layers are what the last
  layer, and in a source the last form, to mention a key said, read without
  running anything. `RolesFollowParameters`: the roles of a use, against the
  parameters of the macro's definition; it speaks of definitions whose roles nothing but the
  parameters decides (`Plainly`) and uses that put a string where a docstring is
  expected (`Suits`). `DefinitionsRecognised`: harvester and annotator are two readings of the same
  `defmacro`, and this says what the annotator makes of every definition the harvester registers:
  nothing if the name is inside `^` metadata; else the registered name is its `Name`, a docstring in
  front of the parameters its `Docstring` in Clojure, Phel and Janet, where one may stand there
  (`DocFirst`), and the parameters, from which the harvester reads the roles, `Body` there
  (their specs have the name alone as a leading slot, `annotate.rs:1498`) and `Arglist` in the
  other dialects, where the annotator takes whatever follows the name for the parameters, also
  a string that the harvester would skip (`annotate.rs:723`). It does not speak of a source that
  redefines the form it defines macros with (its own definition is then read by the new spec). `DocstringsAreNoValues`.
- **Settings.** `VotesOrderFree`: the dialect is a function of the set of votes.
  `LocalsInForce`: the value of a variable, from the lines alone, for files whose block
  is written behind one prefix (`Aligned`, which asks that prefix of every line behind a marker
  line, more than the block needs). `NearestScopeWins`: applied in order, the
  result of `for_path` leaves each variable with the value of the nearest group, for alists that
  spell a directory in one way (`SpelledOnce`). Paths and directories are sequences of components,
  so that the check in `under_dir` for the `/` behind a directory's name is modelled by comparing
  components, and not exercised character by character.

Some of the properties exclude a case in which the code is known to fail:
`SpansNest` and the FormAt properties the texts with an end at offset 0
(`EndsAtZero`, `EndLost`), `ColumnsClamp` the sums that overflow,
`RolesFollowParameters` the docstring parameters that others follow, which the violation
runs show; and the FormAt properties the lists that are never closed and go on with a dot (`TailLost`,
below).

### Findings

1. `stale_dot`: a second dot with nothing after it leaves `dot` set without a
   tail (`reader.rs:479`), against `datum.rs:33`.
2. `span_backward`: a list opened past the depth cap by the very last token ends
   at 0 (`reader.rs:556`), and so do the lists around it and `FormAt::end`.
3. `roles_shift`: a docstring parameter holds no slot in the harvested spec, so the
   role of every parameter behind it goes to the argument before its own
   (`annotate.rs:880`), against ADR-0032's "never a fabricated one".
4. `iterator_disagrees`: `#.` inside a quote (`walk.rs:189`) is code for the
   visitor, pruned by the iterator.
5. `column_overflow`: `line_index.rs:112`.

Divergences met while reading, without a run of their own:

- A dot is a separator only if its list has an item before it and it is the next token
  `finish_list` looks at (`reader.rs:476`). Elsewhere, in an empty list, after a prefix, at top level
  or behind a datum comment, it is silently a symbol: `(.)`, `( . a)`, `'.`, `(a #;b .)` and
  `(a #;b . c)` are read without a diagnostic where dots separate, although a dot without a tail is said to be reported
  (`error.rs:57`) and an empty `errors` to mean clean structure (ADR-0030). `DiagnosticFree` says that
  nothing else passes: `Grammar` refuses these texts, and they are the difference between the source
  and `AsRead`.
- The span of an unclosed list leaves out its tail (`reader.rs:456`; compare
  `tests/recovery.rs:124`), so that `FormAt::end`, "just past the form" (`reader.rs:54`), fed back
  (`reader.rs:72`) after `(a . b` makes forms of the dot and of `b` (`TailLost`).
- `parse_form_at` gives up at `') x`, where `parse` goes on to read `x`
  (`reader.rs:107`, `reader.rs:62`).
- `DepthLimitExceeded` is reported once for each too-deep region, not once
  (`reader.rs:426`).
- In ADR-0019's `defhydra` example a second parameter called `body` ends the
  leading roles.
- A definition whose name carries `^meta` is harvested, but the annotator's `Name`
  slot does not accept it: the definition is not annotated at all (`DefinitionsRecognised` says so).
- The dotted tail of a `syntax-rules` pattern is ignored, and that of a `defmacro` lambda
  list, `(defmacro m (a . body) ...)`: only `define-macro` opens the body for it
  (`annotate.rs:1052`; `Plainly` asks for it); a pattern variable called
  `doc` makes a Docstring slot although Scheme has none; `(declare (doc-string N))`
  is read without its `N`; an indent spec of `nil` leaves an earlier entry standing.
- The answer "extension (default)" of `detect` is unreachable: a shared extension is
  always reported as "extension + content", also when the content gave no sign. `from_extension`
  and `Dialect::extensions` are not inverse on `cljx` and for Gauche, Mosh and Gambit.
- `rest_items` drops the elements before the dot of `(mode (a . 1) . ((b . 2)))`;
  `"foo"` and `"foo/"` are two scopes for the collector and one for the nesting.
- A line of a block behind another prefix than the block's first line keeps its prefix in
  the key, and an `End:` behind one does not end the block.

## Fairness

`FairSpec` is weak fairness of the whole next-state relation. The modelled
functions are loops and recursions of a sequential program: as long as one can
take a step the processor takes it. No fairness is asked of single actions. In
Walk the callback's answer is nondeterministic but always comes: it is a Rust
closure that returns.

## What is proved

Every theorem has the form `Spec => []P` or `Spec => [][A]_vars` and holds for all
values of the constants that satisfy the module's assumption. A proof begins with
an inductive invariant, shows that the initial states have it and that each action
keeps it (one step per action, by row for the lexer's `leads` and `hash_leads`), and
then reads the property off it.

**Reader**, for every set of token sequences and options that satisfies
`ReaderAssumption` (the types of the cases, `Lexable`, `MAX_DEPTH \in Nat`):

- `ReaderProofs`: `TypeCorrect` (`TypeOK`) and `DepthIsCounted` (`DepthCounted`), by
  `IInv == TypeOK /\ DepthCounted`. Each needs the other: `depth` stays in its
  range only because it counts frames, and the count is a finite number only
  because the stack is a sequence of typed frames. A step pushes a frame, pops one or
  replaces the innermost one (`ListsPush`, `NestedPop`, ...), and only adds
  data to the heap (`TypesGrow`, `HeapGrows`), so what referred to existing data
  still does.
- `ReaderProofs`, of the calls: `NoneIsAStop` (`NoneMeansStop`): of the actions that return,
  those that return None either see a stop or pass on a None that was returned in
  front of one. `TopLevelProgress` (`CallsConsume`), by `Begun`: a top-level call in
  progress has consumed a token, or `parse_datum` still stands at the token the call
  was entered on and that token is no close. `SkipsTheRegion` (`SkipNesting`), by
  `SkipCounts`: the counter is the opens minus the closes since the region's first
  token, counted as cardinalities, and at least 1 as long as the skip runs.
- `PromiseKept`: `Spec` implements `TopForms` (`RefinesTopForms`).
  A step of the detailed reader is a step of `TopForms` or a stutter, which needs
  to know what happened since the call from the top level began. `PInv` adds to `IInv` and
  `Begun`: every nested call and every datum returned begins behind the top-level
  call's first token (`CallsInside`, `ReturnInside`), a `discard` frame stands on a `#;`
  (`DiscardsHide`), and while tokens have been consumed without a datum to show for
  them, one of them is a datum comment or a diagnostic points at one (`Accounted`).
- `ReaderTreeProofs`: `NoneLost` (the action property `NoDatumLost`), by `Shaped`, what
  each kind of frame may hold. `SpansAreNested` (`SpansNest`), by
  `Nesting == Shaped /\ SkipEnd /\ (EndsAtZero \/ Tree)`. `Tree` says where data lie
  while they are built: every datum encloses its children and ends before `pos`;
  what a frame has collected lies between its own token and where the next call began
  (`Waits`, `Limit`); the top-level data come in order (`Laid`). `Limit` is what makes it
  inductive: a datum handed up begins behind everything its new parent has, though
  `pos` has moved on. Once a list ends at 0 `EndsAtZero` stays true and nothing
  more is claimed, as the property does.
- `ReaderGrammarProofs`: `ReportsJustDefects` (`DiagnosticFree`). First the grammar: that the
  recursive definition of `Ends` has a solution is proved by induction from the end of the text
  (`Backwards`, `EndsExist`), since the rules for a position use only positions behind it; then
  what each rule says of the first token (`DatumBegins`, `OthersBegin`). The invariant `Judged`
  says: as long as nothing has been reported, a text is well-formed just when its
  `Rest` is what the calls in progress lack. It says so of every text that agrees with what the
  reader has taken so far (`Reading`), since which dots are symbols is settled only on the way;
  the fewer remain, until at the end `AsRead` is one of them. `Rest` takes the stack from the
  innermost frame outwards: `Gives` says what a frame can return once it gets a datum or None, and `Leads` that
  these returns can go on until the top level reaches the end. Every step either leaves `Rest` as
  it was or reports a diagnostic where `Rest` was false (`Faithful`); after that the text is
  known not to be well-formed, whatever recovery does. It needs `NoneMeansStop`, `Begun`,
  `TailBehindItem` (a tail and a pending dot stand behind an item) and `DotsPassed` besides `IInv`.
  That a well-formed source is not complained about follows because a symbol in place of a dot makes
  no text worse (`SoftenedIsNoWorse`).

These are all of the run's properties but `Terminates` and `DotsSeparate`.

**LineIndex**, for every set of texts and every `Word` as `LineIndexAssumption` has them:
`IndexTiles` (`RangesTile`), `MapsAreInverse` (`RoundTrips`), `ColumnsClampToLine`
(`ColumnsClamp`), `EveryOffsetLocated` (`OffsetsLocated`): all of the run's; and `BreaksCut`, that
the scan at every step has cut the text at its breaks (`ScanCutsAtBreaks`), which only the proof
speaks of: the run looks at the finished index. The invariant is `Typed /\ Scanned /\ Ordered`.
`Scanned` says of each line that it ends at the first break behind its start and that the
line after it starts behind that break, and of the text between the last break and the
scan that it holds none; without that a break could lie inside a line. `Ordered` says
that lines come in the order of the text and none reaches into the next. So the line
of an offset, the last that begins at or before it, exists and is unique.
`OffsetsLocated` counts line feeds instead of lines; `Numbered` ties the two: every line
starts behind a line feed, and as many line feeds lie before it as lines.

**Lexer**, for every text and all options that satisfy `LexerAssumption` (a block
comment with an opener has a closer; `#{` is a symbol or a set, not both) and
`MarkersAssumption` (what the presets give to fields a caller could set to any
character: a comment begins with `;`, or with `#` where that is no reader syntax, a block
comment with one of the presets' openers, the splicing suffix is no delimiter). All presets
satisfy both, which TLC evaluates for those the run uses.

- `LexerTyped` (`TypeOK`) and `TokensTile` (`Tiles`), by `Typed /\ Reading /\ Tiled`. `Reading`
  says where a token may still be empty: only before its first look ahead and in front of
  the first turn of a loop that must take a character. `start < pos` everywhere else is
  what makes every token non-empty.
- `QuotedEnd`, `ResumptionAtLineStart`, `NoDelimiterHidden`, `NamesReadWhole` (the
  properties of the like names), by `Lexing`: `OnTheWay` says, loop by loop, what is
  known of the text between `start` and `pos`, and `tokens` is a sequence of `Lexemes`,
  tokens that are right on their own. Both are read off the text: what a lexeme that begins
  at `start` would have to be (`Quoted`) against the loop that is running. In a quoted
  lexeme nothing unescaped has closed it and `pos` is not escaped (`Clean`; `EscapedNext`: each backslash
  flips the parity); in a name every delimiter was escaped (`InName`). The work is in the
  branches (`LeadRead`, `HashRead`): for each row, that the lexeme it enters is the one the
  text says, which depends on the order of the rows.

- `CommentsNest` (`BlockCommentsNest`) compares the lexer's counter with a grammar: `Bodies[i]`
  is the set of positions up to which the text from `i` can be read as comments and
  characters without a marker. The invariant, `Commenting`, says what the counter stands for:
  `Pending(q, n, pos)`, a sequence `q` of as many comment starts as are open, each inside
  the one before it, with a body from each to the next and from the last to `pos`. The
  grammar is deterministic (`OneEnd`), so what ends here ends nowhere else. That the
  recursive definition has a solution at all is proved by induction from the end of
  the text (`Backwards`), stated over a set of positions and its least element.

These are all of the run's invariants.

**Walk**, for every forest that satisfies `WalkAssumption` and whatever the callback answers:

- `CallbackToldRight` (`RegionsRight`) and `WalkTyped` (`TypeOK`). The invariant (`IInv`) says
  of every pending datum, whether on the recursion's stack or on the iterator's, that its
  context is `Right`: `hard_quote` just when a sealing macro is around it, and `qq` the
  most that the innermost quasiquotes outweigh the unquotes (`Depth`), which is what a
  counter saturating at 0 holds. That is why a depth of 0 is not the same as as many unquotes
  as quasiquotes.
- `CallbackInOrder` (`VisitsInOrder`) and `PruningIsSafe` (`PruningKeepsCode`), by
  `Walking`: the callback has seen, in order, what it was due to see up to the last datum,
  and the loops in progress have just the rest to come (`Ahead`), one loop behind the other.
- `IteratorInOrder` (`YieldsInOrder`), by `Iterating`: no pending datum has a sealed one
  around it, the reversed worklist covers exactly the data behind some `h`, and what was
  yielded is the code up to `h`.

These are all of the run's invariants.

**Annotate**, for every set of plans that satisfies `AnnotateAssumption` (a bundled dialect,
layers and sources of the types the code gives them):

- `PartsTileForms` (`PartsTile`): the invariant states the parts as one sequence built from
  `i` (`Tiled`), which `Push` extends; the steps where it could break are those that take more
  than one item or perhaps none.
- `AnnotatorTyped` (`TypeOK`), by `TInv`. What has to be known is what the harvesters return.
  `classify_arglist_params`, `classify_pattern` and `richest` are recursive functions, and that
  each has a value of the type of its turns is proved by counting up (`Upwards`, `LoopRuns`,
  `ArglistRun`, `PatternRun`, `RichestRead`); the bundled tables are typed row by row
  (`TablesUnite`, `BuiltinsSober`).
- `ValuesStayValues` (`DocstringsAreNoValues`), by `DocInv`: a spec that takes a lone trailing
  string has two leading arguments and no body, but in Emacs Lisp and Hy (`Sober`); every
  bundled spec and every harvested one is so. Its hypothesis, `LayersSober`, asks the same of
  the specs a consumer inserts or merges himself: nothing in the code keeps him from adding others.
- `LastLayerWins` (`LaterLayersWin`), by `WInv`: of a key the tables say at every moment what the
  layers before this one, and the part of this one that is done (`Sofar`), said last
  (`Spoken`). What makes the two harvests different is `Standing`: `at` is never inside a datum
  that has been passed over, so a datum looked at is on the top level, or inside round lists only.
- `ParametersGiveRoles` (`RolesFollowParameters`), the annotator's main promise, ties four pieces of
  code together. `ArglistFollows` and `PatternFollows` follow the loop over the parameters
  and the one that reads its slots (`slots`) side by side (`ParamInv`, `ElementInv`): the leading roles
  are those of the slots (`Mirrors`, `Images`), and the body is open just when something takes what is
  left. `SpecFaithful` carries that through `harvest_defmacro` with its profiles, declarations and
  Clojure metadata, `harvest_define_macro` and `harvest_scheme_macro`. `AInv` is the invariant
  of annotate_form: the role of each part is the one its position and the spec ask for
  (`RoleAt`), and in the end just the arguments that have one are tagged (`TaggedAt`). `Settled`, from
  `WInv`, says that the spec in force for the macro is the harvested one.
- `DefinitionsAreRecognised` (`DefinitionsRecognised`), from the same `RInv == WInv /\ AInv /\ Settled`:
  the form that defines a macro still has its bundled spec, and by `MacroHeads`, dialect by dialect,
  the bundled spec of every head that the harvester looks for has a body and begins with a name and, but
  where a docstring may come first, a slot for the parameters (`MacroSpec`). `AInv` says that a form is given
  up just when a name slot holds no name, or its head no spec (`GivenUp`), which decides the definitions
  with metadata; the roles of the others are those of `RoleAt`.

**Settings**, for every set of projects that satisfies `SettingsAssumption`:

- `LastBindingInForce` (`LocalsInForce`), by `LInv`: what is in force after some lines of the block is
  what those lines, and before them the cookie, say last (`Holds`).
- `OrderOfFilesIsNothing` (`VotesOrderFree`), by `VInv`: the scores list each dialect once, with the
  votes of the files so far (`Tallied`). `Votes` is a sum of cardinalities, which a file raises for one
  dialect by its weight. `max_by` takes the last of several best, and that this is the first
  of `Dialect::ALL` follows from the tie-break by position (`Elected`).
- `NearestGroupWins` (`NearestScopeWins`), by `EInv` and an account of `for_path` as a whole: the directories
  the file lies under come in order of depth (two of one depth are the same), in each the
  mode's bindings after those of all modes, and the last of the resulting list is the
  nearest (`LastIn`, `Gathers`, `Behind`, `Weaker`).

These are all invariants of the runs `definitions` and `settings`. Of all passing runs together
the only invariants without a theorem are `DotsSeparate` and the two of `form_at`.

## Only model-checked

- Liveness: `Terminates`, `ChainEnds` and `Ends` of the walker and the lexer.
- `DotsSeparate`, about every list and every dot; a proof would have to bound where each datum still to
  become an item can end.
- `ChainFollowsParse` and `ChainComplete` compare a chain of calls with one parse of the
  whole text; a proof would pair the steps of two runs of the reader, by induction over the runs.

## Not modelled

- `annotate_tree`, which applies `annotate_form` at every list of a tree and keeps
  no state; `split_specialized_arglist`, a helper that splits a list after the
  annotation; the counts the harvesters return.
- The data: the bundled indent table holds some three hundred names, of which one
  stands for all with the same spec; `Dialect::extensions`; names and parsing of dialects; the switches that
  only classify an atom.
- Display, accessors, `len` and `iter`, `#lang` capture and the lines of data and errors
  are formatting or lookups.
- The native stack: only lists count towards the depth cap, so a long run of
  prefixes, tags, labels or datum comments recurses without a limit (listed under hazards).
- Crashes, lost messages and timeouts do not occur: nothing is persisted and nothing
  communicates.

## What is left

1. FormAt: a call of `parse_form_at` and the turn of `parse_top_level` that begins at the same
   token take the same steps until one of them reports depth or meets the end. To prove
   `ChainFollowsParse` one needs what such a turn yields as a function of the position it
   begins at, defined by recursion from the end of the text, and the two runs compared with it.
2. Liveness stays with TLC: no installed prover handles fairness.
3. `annotate_tree` and `split_specialized_arglist`, and the entries of the bundled indent table.

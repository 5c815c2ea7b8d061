------------------------------ MODULE DirLocals ------------------------------
(***************************************************************************)
(* Emacs directory-local variables                                         *)
(* (src/crates/lispexp-emacs/src/dir_locals.rs): the alist of a            *)
(* .dir-locals.el and what it says for one file and mode.  A datum is      *)
(* [kind, text, items, tail]: its kind is "list", "symbol", "str" or       *)
(* "other"; its tail is what follows a dot, a sequence of length at most   *)
(* 1.  The text of a string is a directory, [path, slash]: its components, *)
(* and whether it is spelled with a slash at the end.                      *)
(***************************************************************************)
EXTENDS Integers, Sequences, SequencesExt

\* The elements after the first; a list after a dot replaces them.
rest_items(d) ==
  IF d.tail = <<>> THEN Tail(d.items)
  ELSE IF d.tail[1].kind = "list" THEN d.tail[1].items ELSE <<>>

\* The binding that (NAME . VALUE) or (NAME VALUE) is; nothing if it is neither.
pair(d) ==
  IF d.kind # "list" \/ d.items = <<>> \/ (d.tail = <<>> /\ Len(d.items) # 2) THEN <<>>
  ELSE << [name |-> d.items[1].text,
           value |-> IF d.tail # <<>> THEN d.tail[1].text ELSE d.items[2].text] >>

opens(d, kind) == d.kind = "list" /\ d.items # <<>> /\ d.items[1].kind = kind

\* collect_entry on (MODE . BINDINGS), in a directory or outside all of them.
mode_group(d, subdir) ==
  IF ~ opens(d, "symbol") THEN <<>>
  ELSE << [subdir |-> subdir,
           mode   |-> IF d.items[1].text = "nil" THEN <<>> ELSE <<d.items[1].text>>,
           vars   |-> FlattenSeq([k \in DOMAIN rest_items(d) |-> pair(rest_items(d)[k])])] >>

\* collect_entry on an element of the alist: a directory opens mode groups, and
\* only here.
collect_entry(d) ==
  IF opens(d, "str")
  THEN FlattenSeq([k \in DOMAIN rest_items(d) |-> mode_group(rest_items(d)[k], <<d.items[1].text>>)])
  ELSE mode_group(d, <<>>)

\* What DirLocals::parse goes through: the first datum of the file, if a list.
elements(data) == IF data = <<>> THEN <<>> ELSE IF data[1].kind = "list" THEN data[1].items ELSE <<>>

-----------------------------------------------------------------------------
\* A file or directory that is rel lies under dir: more than dir itself.
under_dir(rel, dir) == dir.path # <<>> /\ IsStrictPrefix(dir.path, rel)
depth(dir) == Len(dir.path)

\* Each spelling of a directory above rel once, in the order of the alist.
matching(entries, rel) ==
  FlattenSeq([k \in DOMAIN entries |->
    LET dir == entries[k].subdir IN
    IF dir # <<>> /\ under_dir(rel, dir[1]) /\ \A e \in 1..k - 1 : entries[e].subdir # dir
    THEN dir ELSE <<>>])

shallow_firstUnsorted(dirs, rel) == dirs   \* faulty: keeps the order of the alist
\* sort_by_key is stable.
shallow_first(dirs, rel) ==
  FlattenSeq([n \in DOMAIN rel |->
    FlattenSeq([k \in DOMAIN dirs |-> IF depth(dirs[k]) = n THEN <<dirs[k]>> ELSE <<>>])])

emit(entries, scope, mode) ==
  FlattenSeq([k \in DOMAIN entries |->
    IF entries[k].subdir = scope /\ entries[k].mode = mode THEN entries[k].vars ELSE <<>>])

\* The groups for all modes come before those of the mode.
emit_scope(entries, scope, mode) == emit(entries, scope, <<>>) \o emit(entries, scope, <<mode>>)

\* DirLocals::for_path; for_mode is for_path with an empty path.
for_path(entries, mode, rel) ==
  LET dirs == shallow_first(matching(entries, rel), rel)
  IN  emit_scope(entries, <<>>, mode)
        \o FlattenSeq([k \in DOMAIN dirs |-> emit_scope(entries, <<dirs[k]>>, mode)])
=============================================================================

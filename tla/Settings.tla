------------------------------ MODULE Settings ------------------------------
(***************************************************************************)
(* How a tool that opens a file of a project finds out what is in force    *)
(* there: detect_project votes on the dialect file by file, file_locals    *)
(* reads the cookie and the block of the file line by line,                *)
(* DirLocals::parse collects the .dir-locals.el element by element, and    *)
(* for_path resolves it for the mode the file asks for.  The order of the  *)
(* three calls is the tool's; within each, a step is one turn of the loop. *)
(***************************************************************************)
EXTENDS Detect, FileLocals, DirLocals

CONSTANT Projects   \* what a tool may find: see IsProject

IsSequence(s) == s \in Seq({s[k] : k \in DOMAIN s})

IsFile(f) ==
  /\ f.lang \in BOOLEAN /\ f.content \subseteq Markers
  /\ IsSequence(f.shebang)
IsLine(l) ==
  /\ l.kind \in {"shebang", "cookie", "marker", "end", "pair", "text"}
  /\ IsSequence(l.pairs)

\* A datum, those directly inside it or inside what follows its dot, and so on
\* down to the bindings of an alist: nothing deeper is looked at.
IsDatum(d) ==
  /\ IsSequence(d.items)
  /\ IsSequence(d.tail) /\ \A t \in DOMAIN d.tail : IsSequence(d.tail[t].items)
  /\ d.kind = "str" => IsSequence(d.text.path)
Inside(d) == {d.items[k] : k \in DOMAIN d.items}
               \cup UNION {{d.tail[t].items[k] : k \in DOMAIN d.tail[t].items} : t \in DOMAIN d.tail}
IsAlist(a) ==
  /\ IsDatum(a)
  /\ \A element \in Inside(a) :
       /\ IsDatum(element)
       /\ \A group \in Inside(element) :
            IsDatum(group) /\ \A binding \in Inside(group) : IsDatum(binding)

IsProject(p) ==
  /\ IsSequence(p.files) /\ \A k \in DOMAIN p.files : IsFile(p.files[k])
  /\ IsSequence(p.lines) /\ \A k \in DOMAIN p.lines : IsLine(p.lines[k])
  /\ IsSequence(p.data) /\ \A k \in DOMAIN p.data : IsAlist(p.data[k])
  /\ IsSequence(p.rel)

ASSUME SettingsAssumption == \A p \in Projects : IsProject(p)

VARIABLES
  project,    \* the project: its files, the lines of the one that is opened,
              \* the data of its .dir-locals.el, the path and the usual mode
  pc,         \* which call is running
  i,          \* how far its loop has come
  scores,     \* the votes of detect_project
  dialect,    \* what they decided: a sequence of length at most 1
  locals,     \* the file-local bindings
  entries,    \* the groups of the .dir-locals.el
  settings    \* the bindings for_path returned

vars == <<project, pc, i, scores, dialect, locals, entries, settings>>

-----------------------------------------------------------------------------
Vote ==
  /\ pc = "votes" /\ i <= Len(project.files)
  /\ scores' = vote(scores, project.files[i])
  /\ i' = i + 1
  /\ UNCHANGED <<project, pc, dialect, locals, entries, settings>>

Decide ==
  /\ pc = "votes" /\ i > Len(project.files)
  /\ dialect' = IF scores = <<>> THEN <<>> ELSE <<argmax(scores).dialect>>
  /\ pc' = "header" /\ i' = 1
  /\ UNCHANGED <<project, scores, locals, entries, settings>>

\* Reads the cookie, and looks for a block.
ReadHeader ==
  /\ pc = "header"
  /\ locals' = read_header(project.lines)
  /\ IF marker(project.lines) = 0
     THEN pc' = "elements" /\ i' = 1
     ELSE pc' = "footer" /\ i' = marker(project.lines) + 1
  /\ UNCHANGED <<project, scores, dialect, entries, settings>>

marked == project.lines[marker(project.lines)]
InBlock == i <= Len(project.lines) /\ ~ ends_block(marked, project.lines[i])

ReadLine ==
  /\ pc = "footer" /\ InBlock
  /\ locals' = locals \o read_line(marked, project.lines[i])
  /\ i' = i + 1
  /\ UNCHANGED <<project, pc, scores, dialect, entries, settings>>

EndBlock ==
  /\ pc = "footer" /\ ~ InBlock
  /\ pc' = "elements" /\ i' = 1
  /\ UNCHANGED <<project, scores, dialect, locals, entries, settings>>

Collect ==
  /\ pc = "elements" /\ i <= Len(elements(project.data))
  /\ entries' = entries \o collect_entry(elements(project.data)[i])
  /\ i' = i + 1
  /\ UNCHANGED <<project, pc, scores, dialect, locals, settings>>

\* The mode of the file: what it asks for itself, or the usual one.
mode == IF get(locals, "mode") = <<>> THEN project.mode ELSE get(locals, "mode")[1]

Resolve ==
  /\ pc = "elements" /\ i > Len(elements(project.data))
  /\ settings' = for_path(entries, mode, project.rel)
  /\ pc' = "done"
  /\ UNCHANGED <<project, i, scores, dialect, locals, entries>>

Init ==
  /\ project \in Projects
  /\ pc = "votes" /\ i = 1
  /\ scores = <<>> /\ dialect = <<>>
  /\ locals = <<>> /\ entries = <<>> /\ settings = <<>>

Next == Vote \/ Decide \/ ReadHeader \/ ReadLine \/ EndBlock \/ Collect \/ Resolve

Spec == Init /\ [][Next]_vars
=============================================================================

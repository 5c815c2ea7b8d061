------------------------- MODULE SettingsProperties -------------------------
(***************************************************************************)
(* What dialect detection and the readers of Emacs' local variables        *)
(* promise, stated on the inputs of a project.                             *)
(***************************************************************************)
EXTENDS Settings

\* What the files say for a dialect, in whatever order they came.
VotesFor(d) ==
  LET Sure(c) == {k \in DOMAIN project.files : detect(project.files[k]) = some(d, c)}
  IN  3 * Cardinality(Sure("High")) + 2 * Cardinality(Sure("Medium")) + Cardinality(Sure("Low"))

\* The dialect of a project does not depend on the order its files are listed
\* in: it is, of the dialects with the most votes, the first of Dialect::ALL, and
\* there is none only when no file says anything (detect_project).
VotesOrderFree ==
  pc = "header" =>
    LET votes   == [k \in DOMAIN ALL |-> VotesFor(ALL[k])]
        Leading == {k \in DOMAIN ALL : \A e \in DOMAIN ALL : votes[e] <= votes[k]}
    IN  IF \A k \in DOMAIN ALL : votes[k] = 0
        THEN dialect = <<>>
        ELSE dialect = << ALL[CHOOSE k \in Leading : \A e \in Leading : k <= e] >>

-----------------------------------------------------------------------------
\* The lines of the last block, up to its End: or the end of the file.
Block ==
  LET lines == project.lines
      from  == {k \in DOMAIN lines : lines[k].kind = "marker"}
      IsLast(k)  == \A m \in from : m <= k
      IsOpen(k, n) == \A e \in k..n : lines[e].kind # "end"
  IN  {n \in DOMAIN lines : \E k \in from : k < n /\ IsLast(k) /\ IsOpen(k, n)}

\* Every line behind a marker line starts with the prefix of that line.  A block
\* asks this of its own lines only; here it is asked of all up to the end of the
\* file, and behind every marker line, the last one or not.
Aligned ==
  \A k \in DOMAIN project.lines, n \in DOMAIN project.lines :
    project.lines[k].kind = "marker" /\ k < n => project.lines[n].prefix = project.lines[k].prefix

\* What a cookie on the line where one counts says of a variable.
CookieSays(called) ==
  LET lines == project.lines
      n     == IF lines # <<>> /\ lines[1].kind = "shebang" THEN 2 ELSE 1
      pairs == IF lines[n].mode = "" THEN lines[n].pairs
               ELSE << [name |-> "mode", value |-> lines[n].mode] >>
      said  == {p \in DOMAIN pairs : pairs[p].name = called}
  IN  IF n > Len(lines) \/ lines[n].kind # "cookie" \/ said = {} THEN <<>>
      ELSE <<pairs[Max(said)].value>>

NamedInFile ==
  {"mode"} \cup UNION {{l.name} \cup {l.pairs[p].name : p \in DOMAIN l.pairs} :
                        l \in {project.lines[k] : k \in DOMAIN project.lines}}

\* In a file whose block is aligned, the value in force for a variable is the
\* last one the last block gives it; if that block is silent about it, the last
\* one of the cookie; nothing else in the file binds it (file_locals, get).
LocalsInForce ==
  pc = "elements" /\ Aligned =>
    \A called \in NamedInFile \ {""} :
      LET said == {k \in Block : project.lines[k].kind = "pair" /\ project.lines[k].name = called}
      IN  get(locals, called) =
            IF said = {} THEN CookieSays(called) ELSE <<project.lines[Max(said)].value>>

-----------------------------------------------------------------------------
\* The bindings of the alist that hold for the file: those of the mode or of all
\* modes, outside of directories or in one that the file lies under.
Applicable(called) ==
  {b \in UNION {{<<e, p>> : p \in DOMAIN entries[e].vars} : e \in DOMAIN entries} :
     LET group == entries[b[1]] IN
     /\ group.vars[b[2]].name = called
     /\ group.mode \in {<<>>, <<mode>>}
     /\ group.subdir # <<>> => under_dir(project.rel, group.subdir[1])}

\* How near a binding is to the file: a deeper directory, then the mode itself,
\* then a later place in the alist.
Nearness(b) ==
  LET group == entries[b[1]] IN
  << IF group.subdir = <<>> THEN 0 ELSE depth(group.subdir[1]),
     IF group.mode = <<>> THEN 0 ELSE 1, b[1], b[2] >>
AsNear(b, c) ==   \* b is no nearer than c
  \/ b = c
  \/ \E n \in 1..4 : /\ Nearness(b)[n] < Nearness(c)[n]
                     /\ \A m \in 1..(n - 1) : Nearness(b)[m] = Nearness(c)[m]

\* Each directory is spelled in one way.
SpelledOnce ==
  \A a \in DOMAIN entries, b \in DOMAIN entries :
    entries[a].subdir # <<>> /\ entries[b].subdir # <<>>
      /\ entries[a].subdir[1].path = entries[b].subdir[1].path =>
    entries[a].subdir = entries[b].subdir

\* Applied in order, the bindings that for_path returns leave each variable with
\* the value of the nearest group that binds it, whatever the order of the
\* groups in the alist; no other group has a say.
NearestScopeWins ==
  pc = "done" /\ SpelledOnce =>
    \A called \in UNION {{g.vars[p].name : p \in DOMAIN g.vars} : g \in {entries[e] : e \in DOMAIN entries}} :
      LET said     == {k \in DOMAIN settings : settings[k].name = called}
          applying == Applicable(called)
          nearest  == CHOOSE b \in applying : \A c \in applying : AsNear(c, b)
      IN  /\ said = {} <=> applying = {}
          /\ applying # {} =>
               settings[Max(said)].value = entries[nearest[1]].vars[nearest[2]].value
=============================================================================

---------------------------- MODULE MCSkillTool ----------------------------
(* Small instances of SkillTool.                                           *)
EXTENDS SkillTool

CONSTANTS c1                          \* a call
CONSTANTS f0, f1, fBad                \* frontmatter: loaded, rewritten, no YAML
CONSTANTS b0, b1                      \* bodies
CONSTANTS text, big, nul, png, other  \* bytes

OneCall == {c1}
AllFronts == {f0, f1, fBad}
GoodFronts == {f0, f1}
AllBodies == {b0, b1}
AllData == {text, big, nul, png, other}
Sizes == [d \in AllData |-> IF d = big THEN 3 ELSE 1]
ValidUtf8 == {text, big, nul}
WithNul == {nul}
Sniffs == [d \in AllData |->
             IF d = png THEN "image" ELSE IF d = other THEN "other" ELSE "text"]

(* Resources: 1, a file without extension, and 2, a file named Skill.md.   *)
(* Paths besides: 0, 3 for SKILL.md and 4 for ../x.                        *)
Res1 == {1}
Res2 == {1, 2}
Extensions == [r \in Res |-> IF r = 1 THEN "other" ELSE "text"]
Spellings == {2, 3}
Invalid == {4}
InstructionPaths == {0}
FilePaths == {0, 1, 2, 3, 4}
ShortPaths == {0, 1}

D(f, b) == [kind |-> "file", closed |-> TRUE, front |-> f, body |-> b]
E(kind, d) == [kind |-> kind, data |-> d]
Disk(docs, fs) == [listed |-> TRUE, folds |-> FALSE, docs |-> docs, files |-> fs]
One(k, v) == [x \in {k} |-> v]
Loaded == One(Upper, D(f0, b0))

EditedDocs ==
  {D(f0, b1), D(f1, b1), [D(f0, b0) EXCEPT !.closed = FALSE],
   [D(f0, b0) EXCEPT !.kind = "dangling"], [D(f0, b0) EXCEPT !.kind = "failing"]}
BadDocs == {D(fBad, b1)}
Nothing == {}

SomeEntries == {E("file", big), E("refused", text), E("dirlink", text)}

(* Starts: the skill with every entry, and under either spelling, both,    *)
(* not listed or on a host that folds case.                                *)
EveryEntry == [kind : {"file"}, data : AllData]
              \cup [kind : Links \cup Dirs \cup {"sealed"}, data : {text}]
Starts ==
  {Disk(Loaded, One(1, e)) : e \in EveryEntry}
  \cup {Disk([f \in skillFiles |-> D(f0, b0)], One(2, E(kind, text))) :
          kind \in {"file", "dir"}}
ShortStarts == {Disk(Loaded, One(1, E("file", text))), Disk(One(Lower, D(f0, b0)), <<>>)}
Folding == {[d EXCEPT !.folds = TRUE] : d \in ShortStarts}
ReadStarts ==
  Starts \cup ShortStarts \cup Folding
  \cup {[d EXCEPT !.listed = FALSE] : d \in ShortStarts \cup Folding}

BuiltSkills ==
  {[listed |-> TRUE, FS |-> fs, file |-> NoFile, front |-> f0, body |-> b1] :
     fs \in BOOLEAN}
=============================================================================

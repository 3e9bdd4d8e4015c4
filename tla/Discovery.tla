----------------------------- MODULE Discovery -----------------------------
(***************************************************************************)
(* Discover (discover.go): the search of several sources for skills, in    *)
(* order, that builds a Catalog.  A step is one read of a source's file    *)
(* system with the computation that follows it, so that the trees may      *)
(* change between two reads (action Edit).                                 *)
(*                                                                         *)
(* Abstractions.  A name or qualifier is the sequence of its colon         *)
(* separated segments, <<>> the empty string, so that joining with ":" is  *)
(* concatenation and a name holds a colon when it has two segments.  The   *)
(* entries of a directory are numbers, in the order of fs.ReadDir.  A      *)
(* location is the tuple of what joinLocation joins.  A description is     *)
(* whether it is non-empty, and what Validate reports is a set.  Two       *)
(* probes of one unlistable directory are one read.                        *)
(***************************************************************************)
EXTENDS Naturals, Sequences

CONSTANTS
  Segments,     \* the colon-free strings names are made of
  SourceLists,  \* the argument lists Discover may be called with
  Dirs,         \* the entry names a source's root may hold
  Children,     \* what may stand under an entry's name
  Trees,        \* those of them a search of each list may start from
  EditedLists,  \* those whose trees are edited while Discover runs
  Edits,        \* what an editor may put there
  Findings      \* what Validate may report

Upper == "SKILL.md"
Lower == "skill.md"
Mixed == "Skill.md"
skillFiles == {Upper, Lower}
Spellings == {Upper, Lower, Mixed}

Names == Seq(Segments)
NoFile == "none"

(* What Load finds in a skill file: ok says that it reads and parses.      *)
Docs == [ok : BOOLEAN, name : Names, description : BOOLEAN,
         problems : SUBSET Findings]

(* A source: its location, with or without a trailing slash; folds says    *)
(* that its host opens a file under any case of its name.                  *)
Source == [location : STRING, slash : BOOLEAN, qualifier : Names,
           badRune : BOOLEAN, fs : {"nil", "unreadable", "ok"}, folds : BOOLEAN]

(* What stands under a name: nothing, a file, a directory, a link to a     *)
(* directory or a link the source refuses.  listed says that ReadDir works *)
(* in the directory; files are its spellings of the skill file.            *)
Kinds == {"none", "file", "dir", "link", "refused"}
IsChild(c) ==
  /\ c.kind \in Kinds
  /\ c.listed \in BOOLEAN
  /\ DOMAIN c.files \subseteq Spellings
  /\ \A f \in DOMAIN c.files : c.files[f] \in Docs

ASSUME DirsAssumption == Dirs \subseteq Nat
ASSUME SourcesAssumption == SourceLists \subseteq Seq(Source)
ASSUME ChildrenAssumption ==
  /\ \A c \in Children : IsChild(c)
  /\ Edits \subseteq Children
  /\ \A list \in SourceLists : Trees[list] \subseteq Children

VARIABLES
  sources,    \* the argument of the call
  disk,       \* the tree under each source
  pc,         \* what Discover does next
  i,          \* the source being searched
  todo,       \* entries of its root not yet visited, with their kinds
  cur,        \* the entry being visited and what was learnt of it
  locations,  \* the trimmed locations of the sources so far
  seen,       \* the claim on each name
  Skills, Shadowed, Problems   \* the Catalog

vars == <<sources, disk, pc, i, todo, cur, locations, seen,
          Skills, Shadowed, Problems>>
catalog == <<seen, Skills, Shadowed, Problems>>

----------------------------------------------------------------------------
(* Helpers on skills and trees.                                            *)

Put(f, k, v) == [x \in DOMAIN f \cup {k} |-> IF x = k THEN v ELSE f[x]]
Drop(f, k) == [x \in DOMAIN f \ {k} |-> f[x]]

(* Bug: "b" and "b/" told apart.                                         *)
RawLocation(src) == <<src.location, src.slash>>
TrimmedLocation(src) == src.location
Location(s) == <<sources[s.src].location, s.dir, s.file>>
HasColon(name) == Len(name) > 1
(* Bug: a name with a colon passes for a qualified one.                    *)
listableColon(s) == s.name # <<>> /\ s.description
listable(s) == s.name # <<>> /\ s.description /\ ~HasColon(s.name)
ListedName(s) == s.qualifier \o s.name

Reachable(child) == child.kind \in {"dir", "link"}
CanList(child) == Reachable(child) /\ child.listed

(* Bug: the listing compared without regard to case.                       *)
foldedSkillFile(files) ==
  IF files = {} THEN NoFile ELSE CHOOSE f \in files : TRUE
listedSkillFile(files) ==
  IF Upper \in files THEN Upper ELSE IF Lower \in files THEN Lower ELSE NoFile

(* Whether a probe of a directory of the source opens a file under name.   *)
Opens(child, name) ==
  /\ Reachable(child)
  /\ \E f \in DOMAIN child.files : f = name \/ sources[i].folds

(* The name a probe of the two spellings succeeds under.                   *)
ProbedSkillFile(child) == listedSkillFile({f \in skillFiles : Opens(child, f)})

(* Bug: the directory probed although it can be listed.                    *)
SkillFileProbe(child) == ProbedSkillFile(child)

(* The skill file of a directory as findSkillFile and readSkillFile name   *)
(* it.                                                                     *)
SkillFileName(child) ==
  IF CanList(child) THEN listedSkillFile(DOMAIN child.files)
                    ELSE ProbedSkillFile(child)

(* Bug: a misnamed file is passed over.                                    *)
neverMisnamed(child) == NoFile

misnamedSkillFile(child) ==
  IF CanList(child) /\ Mixed \in DOMAIN child.files THEN Mixed ELSE NoFile

(* The contents ReadFile returns under name, when it opens.                *)
Contents(child, name) ==
  child.files[CHOOSE f \in DOMAIN child.files :
                f = name \/ (sources[i].folds /\ name \notin DOMAIN child.files)]

----------------------------------------------------------------------------
NoEntry == [dir |-> 0, found |-> NoFile, file |-> NoFile]

Init ==
  /\ sources \in SourceLists
  /\ disk \in [1..Len(sources) -> [Dirs -> Trees[sources]]]
  /\ pc = "source"
  /\ i = 1
  /\ todo = <<>>
  /\ cur = NoEntry
  /\ locations = {}
  /\ seen = <<>>
  /\ Skills = <<>>
  /\ Shadowed = <<>>
  /\ Problems = <<>>

(* The checks of a source before its root is read.                         *)
SharedLocation == TrimmedLocation(sources[i]) \in locations

BadSource ==
  \/ SharedLocation
  \/ sources[i].badRune
  \/ sources[i].fs # "ok"

RefuseSources ==
  /\ pc = "source"
  /\ i <= Len(sources)
  /\ BadSource
  /\ pc' = "failed"
  /\ UNCHANGED <<sources, disk, i, todo, cur, locations, catalog>>

ReadRoot ==
  /\ pc = "source"
  /\ i <= Len(sources)
  /\ ~BadSource
  /\ locations' = locations \cup {TrimmedLocation(sources[i])}
  /\ todo' = [d \in {x \in Dirs : disk[i][x].kind # "none"} |-> disk[i][d].kind]
  /\ pc' = "entry"
  /\ UNCHANGED <<sources, disk, i, cur, catalog>>

Return ==
  /\ pc = "source"
  /\ i > Len(sources)
  /\ pc' = "done"
  /\ UNCHANGED <<sources, disk, i, todo, cur, locations, catalog>>

NextSource ==
  /\ pc = "entry"
  /\ DOMAIN todo = {}
  /\ i' = i + 1
  /\ pc' = "source"
  /\ UNCHANGED <<sources, disk, todo, cur, locations, catalog>>

(* An entry the listing gave as a directory is one; a link is followed.    *)
isDir(d) == \/ todo[d] = "dir"
            \/ todo[d] \in {"link", "refused"} /\ Reachable(disk[i][d])

VisitEntry ==
  /\ pc = "entry"
  /\ \E d \in DOMAIN todo :
       /\ \A x \in DOMAIN todo : d <= x
       /\ todo' = Drop(todo, d)
       /\ IF isDir(d)
            THEN cur' = [NoEntry EXCEPT !.dir = d] /\ pc' = "find"
            ELSE UNCHANGED <<cur, pc>>
  /\ UNCHANGED <<sources, disk, i, locations, catalog>>

----------------------------------------------------------------------------
Here == disk[i][cur.dir]
HereLocation(file) == <<sources[i].location, cur.dir, file>>

(* Leaving the entry: the next one is looked at from a clean slate.        *)
Leave == pc' = "entry" /\ cur' = NoEntry

(* Bug: a skill that does not load is dropped without a word.              *)
FailedSilently(file) == UNCHANGED catalog

Failed(file) ==
  /\ Problems' = Put(Problems, HereLocation(file), {"error"})
  /\ UNCHANGED <<seen, Skills, Shadowed>>

findSkillFile ==
  /\ pc = "find"
  /\ IF SkillFileName(Here) # NoFile
       THEN /\ cur' = [cur EXCEPT !.found = SkillFileName(Here)]
            /\ pc' = "load"
            /\ UNCHANGED Problems
       ELSE /\ Leave
            /\ Problems' = IF misnamedSkillFile(Here) = NoFile THEN Problems
                           ELSE Put(Problems, HereLocation(misnamedSkillFile(Here)),
                                    {"misnamed"})
  /\ UNCHANGED <<sources, disk, i, todo, locations, seen, Skills, Shadowed>>

(* The skill as Load returns it.                                           *)
Loaded(doc, file) ==
  [src |-> i, dir |-> cur.dir, file |-> file, name |-> doc.name,
   description |-> doc.description, qualifier |-> <<>>, shadowedBy |-> <<>>]

(* Bug: a source's own duplicate qualified too.                            *)
QualifiesOwn(s) == s.name \in DOMAIN seen /\ sources[i].qualifier # <<>>

(* The qualifier is used on a name an earlier source has taken.            *)
Qualifies(s) ==
  /\ s.name \in DOMAIN seen
  /\ seen[s.name].source < i
  /\ sources[i].qualifier # <<>>

Qualified(s) == IF Qualifies(s) THEN [s EXCEPT !.qualifier = sources[i].qualifier]
                                ELSE s

(* Bug: a qualified name taken without asking who has it.                  *)
ClaimUnchecked(s) ==
  LET q == Qualified(s)
  IN IF s.name \in DOMAIN seen /\ q = s
       THEN /\ Shadowed' = Append(Shadowed,
                 [s EXCEPT !.shadowedBy = Location(seen[s.name].skill)])
            /\ UNCHANGED <<seen, Skills>>
       ELSE /\ seen' = Put(seen, ListedName(q), [source |-> i, skill |-> q])
            /\ Skills' = Append(Skills, q)
            /\ UNCHANGED Shadowed

(* Bug: the holder of the bare name blamed for a taken qualified one.      *)
ClaimBlamingBare(s) ==
  LET q == Qualified(s)
      key == ListedName(q)
  IN IF key \in DOMAIN seen
       THEN /\ Shadowed' = Append(Shadowed,
                 [s EXCEPT !.shadowedBy = Location(seen[s.name].skill)])
            /\ UNCHANGED <<seen, Skills>>
       ELSE /\ seen' = Put(seen, key, [source |-> i, skill |-> q])
            /\ Skills' = Append(Skills, q)
            /\ UNCHANGED Shadowed

(* A listable skill takes its name, or is shadowed by the one that has it. *)
Claim(s) ==
  LET q == Qualified(s)
      key == ListedName(q)
  IN IF key \in DOMAIN seen
       THEN /\ Shadowed' = Append(Shadowed,
                 [q EXCEPT !.qualifier = <<>>,
                           !.shadowedBy = Location(seen[key].skill)])
            /\ UNCHANGED <<seen, Skills>>
       ELSE /\ seen' = Put(seen, key, [source |-> i, skill |-> q])
            /\ Skills' = Append(Skills, q)
            /\ UNCHANGED Shadowed

AddSkill(s, problems) ==
  /\ Problems' = IF problems = {} THEN Problems
                 ELSE Put(Problems, Location(s), problems)
  /\ IF listable(s)
       THEN Claim(s)
       ELSE /\ Skills' = Append(Skills, s)
            /\ UNCHANGED <<seen, Shadowed>>

(* What Discover does with the result of reading file.                     *)
Finish(file) ==
  IF Opens(Here, file) /\ Contents(Here, file).ok
    THEN AddSkill(Loaded(Contents(Here, file), file), Contents(Here, file).problems)
    ELSE Failed(cur.found)

(* Load, first read: the listing names the file to read; without a listing *)
(* the probe is the read.                                                  *)
LoadList ==
  /\ pc = "load"
  /\ IF CanList(Here) /\ SkillFileName(Here) # NoFile
       THEN /\ cur' = [cur EXCEPT !.file = SkillFileName(Here)]
            /\ pc' = "read"
            /\ UNCHANGED catalog
       ELSE /\ Leave
            /\ IF SkillFileName(Here) # NoFile THEN Finish(SkillFileName(Here))
                                               ELSE Failed(cur.found)
  /\ UNCHANGED <<sources, disk, i, todo, locations>>

LoadRead ==
  /\ pc = "read"
  /\ Finish(cur.file)
  /\ Leave
  /\ UNCHANGED <<sources, disk, i, todo, locations>>

----------------------------------------------------------------------------
(* An editor of the sources' trees, which nothing keeps out.               *)
Edit ==
  /\ sources \in EditedLists
  /\ pc \notin {"done", "failed"}
  /\ \E k \in 1..Len(sources), d \in Dirs, c \in Edits :
       disk' = [disk EXCEPT ![k][d] = c]
  /\ UNCHANGED <<sources, pc, i, todo, cur, locations, catalog>>

Discover ==
  \/ RefuseSources \/ ReadRoot \/ Return \/ NextSource
  \/ VisitEntry \/ findSkillFile \/ LoadList \/ LoadRead

Next == Discover \/ Edit

Spec == Init /\ [][Next]_vars
----------------------------------------------------------------------------
(* Types.                                                                  *)

Locations == STRING \X Dirs \X Spellings
Skill == [src : DOMAIN sources, dir : Dirs, file : skillFiles, name : Names,
          description : BOOLEAN, qualifier : Names,
          shadowedBy : Locations \cup {<<>>}]

(* The state's types: skill files are loaded under one of the two          *)
(* accepted spellings only (skillFiles, load.go:17), a claim is held by a  *)
(* loaded skill of a source already begun.                                 *)
TypeOK ==
  /\ sources \in SourceLists
  /\ disk \in [1..Len(sources) -> [Dirs -> Children]]
  /\ pc \in {"source", "entry", "find", "load", "read", "done", "failed"}
  /\ i \in Nat \ {0}
  /\ pc \in {"entry", "find", "load", "read"} => i \in 1..Len(sources)
  /\ DOMAIN todo \subseteq Dirs
  /\ pc \in {"find", "load", "read"} => cur.dir \in Dirs
  /\ pc \in {"load", "read"} => cur.found \in skillFiles
  /\ pc = "read" => cur.file \in skillFiles
  /\ Skills \in Seq(Skill)
  /\ Shadowed \in Seq(Skill)
  /\ DOMAIN seen \subseteq Names
  /\ \A n \in DOMAIN seen : seen[n] \in [source : 1..i, skill : Skill]

----------------------------------------------------------------------------
(* Properties.                                                             *)

SkillSet == {Skills[k] : k \in DOMAIN Skills}
ShadowedSet == {Shadowed[k] : k \in DOMAIN Shadowed}
ListedSet == {s \in SkillSet : listable(s)}

(* One skill was reached before another by the search.                     *)
Before(s, t) == s.src < t.src \/ (s.src = t.src /\ s.dir < t.dir)

(* Two skills the prompt lists never have one listed name, whatever the    *)
(* sources' qualifiers, so that Lookup (discover.go:227-237), which takes  *)
(* the first match, reaches every skill the model is shown.                *)
NamesUnique ==
  \A j, k \in DOMAIN Skills :
    /\ listable(Skills[j])
    /\ listable(Skills[k])
    /\ ListedName(Skills[j]) = ListedName(Skills[k])
    => j = k

(* The skills that could be offered, found first to last, resolve as PATH  *)
(* does (discover.go:29-42), said without the claims table: the first of a *)
(* name has it bare; of those a later source found under a taken name, the *)
(* first of each qualifier is listed under it; every other is shadowed.    *)
PathResolution ==
  LET Found == ListedSet \cup ShadowedSet
      Bare(s) == \A t \in Found : Before(t, s) => t.name # s.name
      Later(s) == /\ sources[s.src].qualifier # <<>>
                  /\ \E t \in Found : t.name = s.name /\ t.src < s.src
      First(s) == \A t \in Found :
                    /\ Before(t, s)
                    /\ Later(t)
                    /\ t.name = s.name
                    => sources[t.src].qualifier # sources[s.src].qualifier
  IN \A s \in Found :
       /\ s \in ListedSet <=> Bare(s) \/ (Later(s) /\ First(s))
       /\ s.qualifier = IF s \in ListedSet /\ ~Bare(s)
                           THEN sources[s.src].qualifier ELSE <<>>

(* Each shadowed skill names a skill the prompt lists, found before it,    *)
(* under the very name the shadowed one wanted: its own, or the qualified  *)
(* one when that was taken too (skill.go:98-102, discover.go:111-119).     *)
ShadowedByHolder ==
  \A s \in ShadowedSet :
    \E w \in ListedSet :
      /\ Location(w) = s.shadowedBy
      /\ Before(w, s)
      /\ \/ ListedName(w) = s.name
         \/ /\ ListedName(w) = sources[s.src].qualifier \o s.name
            /\ \E b \in ListedSet : ListedName(b) = s.name /\ b.src < s.src
      /\ ListedName(w) = s.name =>
           w.src = s.src \/ sources[s.src].qualifier = <<>>

(* A listed name with a colon was made by Discover: the source of the      *)
(* skill has that qualifier, and an earlier source holds the rest of the   *)
(* name.  A skill whose own name holds a colon never stands for a          *)
(* qualified one (discover.go:134-140, 205-208).                           *)
ColonMeansQualified ==
  \A s \in ListedSet :
    Len(ListedName(s)) > 1 =>
      /\ s.qualifier = sources[s.src].qualifier
      /\ Len(s.name) = 1
      /\ \E b \in ListedSet : ListedName(b) = s.name /\ b.src < s.src

(* No two skills of a catalog have one location, so that ShadowedBy, the   *)
(* prompt and the keys of Problems say which skill is meant                *)
(* (discover.go:48-50, 64-70).                                             *)
LocationsDistinct ==
  /\ \A j, k \in DOMAIN Skills : Location(Skills[j]) = Location(Skills[k]) => j = k
  /\ \A j, k \in DOMAIN Shadowed : Location(Shadowed[j]) = Location(Shadowed[k]) => j = k
  /\ \A s \in SkillSet, t \in ShadowedSet : Location(s) # Location(t)

(* What Problems says of one location is never lost to what is found at    *)
(* another (discover.go:49-50).                                            *)
ProblemsStand ==
  [][\A l \in DOMAIN Problems :
       l \in DOMAIN Problems' /\ Problems'[l] = Problems[l]]_vars

(* A directory in which a skill file was found does not vanish, whatever   *)
(* happens to it before it is loaded: leaving it, Discover has one more    *)
(* skill, listed or shadowed, or the error under the location of the file  *)
(* it found (discover.go:44-45, 99-103).                                   *)
NothingVanishes ==
  [][cur.found # NoFile /\ cur' = NoEntry =>
       \/ Len(Skills') + Len(Shadowed') = Len(Skills) + Len(Shadowed) + 1
       \/ HereLocation(cur.found) \in DOMAIN Problems']_vars

(* Of trees nobody edits, a skill's location spells its file as the        *)
(* directory's listing does, even where the host opens it under any case   *)
(* (load.go:64-73).                                                        *)
SpelledAsListed ==
  sources \notin EditedLists =>
    \A s \in SkillSet \cup ShadowedSet :
      CanList(disk[s.src][s.dir]) => s.file \in DOMAIN disk[s.src][s.dir].files

(* Of trees nobody edits, every directory that can be listed and holds a   *)
(* skill file, the misnamed ones included, is in the catalog or in its     *)
(* Problems when Discover returns (discover.go:35-45, 86-93).  Where the   *)
(* listing fails a misnamed file is not seen (discover.go:170-194).        *)
Accounted ==
  pc = "done" /\ sources \notin EditedLists =>
    \A k \in 1..Len(sources), d \in Dirs :
      CanList(disk[k][d]) /\ DOMAIN disk[k][d].files # {} =>
        \/ \E s \in SkillSet \cup ShadowedSet : s.src = k /\ s.dir = d
        \/ \E f \in Spellings : <<sources[k].location, d, f>> \in DOMAIN Problems
=============================================================================

----------------------------- MODULE SkillDisk -----------------------------
(***************************************************************************)
(* A skill's directory as the skill tool meets it (load.go, tool.go), what *)
(* single calls of fs.FS return for it, and what may be asked of the tool. *)
(*                                                                         *)
(* Abstractions.  Frontmatter, bodies and bytes are values compared for    *)
(* equality, so a digest is the value itself.  Resource files are numbers  *)
(* in the order of their names.  A directory among them is empty: what     *)
(* matters of it is that the walk lists it, or cannot ("closed").  A file  *)
(* that stats but cannot be read is "sealed".  A link leads to a file      *)
(* ("link") or a directory ("dirlink") inside, dangles or leads outside    *)
(* ("refused"), or does not resolve for another reason ("loop"); DirGuard  *)
(* has the resolution itself.  A skill file is one that reads, a link that *)
(* dangles, or one whose read fails otherwise ("failing": a link outside,  *)
(* a loop, no permission); a directory of that name is left out.  A host   *)
(* that folds case has one entry for both spellings, which opens under     *)
(* either, and a skill file of a third spelling on it is left out.         *)
(***************************************************************************)
EXTENDS Naturals

CONSTANTS
  Fronts,        \* frontmatter, the bytes between the fences
  Parsing,       \* the frontmatter that Parse accepts
  Bodies,        \* what follows the closing fence
  Res,           \* the names of resource files
  Extension,     \* the class of a name's extension in detect's tables
  Data,          \* the bytes of resource files
  Size,          \* their number
  Utf8, Nul,     \* those that are valid UTF-8, those that hold a NUL
  Sniffed,       \* what http.DetectContentType makes of them
  DirSize,       \* what Stat gives as the size of a directory
  Paths,         \* the paths a call may give, 0 for none
  SkillPaths,    \* those that spell SKILL.md in some case
  InvalidPaths,  \* those fs.ValidPath refuses
  MaxBytes       \* WithMaxBytes

Upper == "SKILL.md"
Lower == "skill.md"
NoFile == "none"
skillFiles == {Upper, Lower}

Doc == [kind : {"file", "dangling", "failing"},
        closed : BOOLEAN, front : Fronts, body : Bodies]
Links == {"link", "dirlink", "refused", "loop"}
Dirs == {"dir", "closed"}
Entry == [kind : {"file", "sealed"} \cup Dirs \cup Links, data : Data]

(* A directory: whether it can be listed, whether its host folds case, its *)
(* skill files and its other entries, those that exist.                    *)
IsDisk(d) ==
  /\ d \in [listed : BOOLEAN, folds : BOOLEAN, docs : {d.docs}, files : {d.files}]
  /\ d.folds => DOMAIN d.docs # skillFiles /\ DOMAIN d.files \cap SkillPaths = {}
  /\ DOMAIN d.docs \subseteq skillFiles
  /\ \A f \in DOMAIN d.docs : d.docs[f] \in Doc
  /\ DOMAIN d.files \subseteq Res
  /\ \A r \in DOMAIN d.files : d.files[r] \in Entry

ASSUME ParsingAssumption == Parsing \subseteq Fronts
ASSUME ResAssumption == Res \subseteq Nat \ {0}
ASSUME SizeAssumption == Size \in [Data -> Nat] /\ DirSize \in Nat /\ MaxBytes \in Nat
ASSUME DetectAssumption ==
  /\ Extension \in [Res -> {"image", "text", "other"}]
  /\ Sniffed \in [Data -> {"image", "text", "other"}]
ASSUME PathsAssumption ==
  /\ 0 \in Paths
  /\ Paths \subseteq {0} \cup Res \cup SkillPaths \cup InvalidPaths
  /\ 0 \notin InvalidPaths \cup SkillPaths
  /\ InvalidPaths \cap (Res \cup SkillPaths) = {}

(* listedSkillFile: the skill file's name in a listing, uppercase first.   *)
listedSkillFile(files) ==
  IF Upper \in files THEN Upper ELSE IF Lower \in files THEN Lower ELSE NoFile

(* ReadFile of a skill file's name: the entry it reaches, and what comes.  *)
Reached(d, f) == {g \in DOMAIN d.docs : g = f \/ d.folds}
DocOf(d, f) == d.docs[CHOOSE g \in Reached(d, f) : TRUE]
DocRead(d, f) ==
  IF Reached(d, f) = {} \/ DocOf(d, f).kind = "dangling" THEN "missing"
  ELSE IF DocOf(d, f).kind = "failing" THEN "error" ELSE "ok"

(* Stat of r: missing, another failure, or what it finds.                  *)
Missing(d, r) == r \notin DOMAIN d.files \/ d.files[r].kind = "refused"
Stats(d, r) == ~Missing(d, r) /\ d.files[r].kind # "loop"
IsDir(d, r) == Stats(d, r) /\ d.files[r].kind \in Dirs \cup {"dirlink"}
Stands(d, r) == Stats(d, r) /\ ~IsDir(d, r)
StatSize(d, r) == IF IsDir(d, r) THEN DirSize ELSE Size[d.files[r].data]

(* ReadDir of r succeeds, and ReadFile.                                    *)
Lists(d, r) == IsDir(d, r) /\ d.files[r].kind # "closed"
Reads(d, r) == Stands(d, r) /\ d.files[r].kind # "sealed"

(* How a file is shown: by its extension, then by a sniff of its bytes.    *)
detect(r, b) ==
  CASE Extension[r] = "image" -> "image"
    [] Extension[r] = "text"  -> IF b \in Utf8 THEN "text" ELSE "binary"
    [] Extension[r] = "other" ->
         IF Sniffed[b] = "text" /\ b \in Utf8 \ Nul THEN "text"
         ELSE IF Sniffed[b] = "image" THEN "image" ELSE "binary"

(* splitFrontmatter fails on a fence that is not closed.                   *)
Splits(doc) == doc.closed

(* A skill Load built from the directory d, one a product built itself and *)
(* a skill the catalog does not offer.                                     *)
Skill == [listed : BOOLEAN, FS : BOOLEAN, file : skillFiles \cup {NoFile},
          front : Fronts, body : Bodies]

(* The name readSkillFile settles on: of the listing, or probed.           *)
Spelled(d) ==
  IF d.listed THEN listedSkillFile(DOMAIN d.docs)
  ELSE listedSkillFile({f \in skillFiles : DocRead(d, f) # "missing"})

Loads(d) ==
  LET f == Spelled(d)
  IN /\ f # NoFile /\ DocRead(d, f) = "ok"
     /\ Splits(DocOf(d, f)) /\ DocOf(d, f).front \in Parsing

Load(d) ==
  LET f == Spelled(d)
  IN [listed |-> TRUE, FS |-> TRUE, file |-> f,
      front |-> DocOf(d, f).front, body |-> DocOf(d, f).body]

(* A call without a path, or with one that names the skill file, is a read *)
(* of the instructions.                                                    *)
IsInstructions(p) == p = 0 \/ p \in SkillPaths

NoAnswer == [kind |-> "none"]
Refusal(why) == [kind |-> "error", why |-> why]
Panic == [kind |-> "panic"]
=============================================================================

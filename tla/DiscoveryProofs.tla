-------------------------- MODULE DiscoveryProofs --------------------------
(* Theorems about Discovery, for every list of sources and every tree.     *)
EXTENDS Discovery, TLAPS, SequenceTheorems

(* The names of skill files that the two readings can return.              *)
LEMMA SkillFileNames ==
  \A c : SkillFileName(c) \in skillFiles \cup {NoFile}
BY DEF SkillFileName, listedSkillFile, ProbedSkillFile, skillFiles, Upper, Lower, NoFile

(* The contents of a file that opens are one of the documents.             *)
LEMMA OpenedContents ==
  ASSUME NEW c \in Children, NEW f, Opens(c, f)
  PROVE  Contents(c, f) \in Docs
<1>1. IsChild(c)
  BY ChildrenAssumption
<1>2. \E g \in DOMAIN c.files : g = f \/ (sources[i].folds /\ f \notin DOMAIN c.files)
  BY DEF Opens
<1> QED
  BY <1>1, <1>2 DEF Contents, IsChild

(* Sources and their qualifiers.                                           *)
LEMMA SourceTypes ==
  ASSUME TypeOK, i \in 1..Len(sources)
  PROVE  sources[i] \in Source
BY SourcesAssumption DEF TypeOK

(* Locations of loaded skills.                                             *)
LEMMA LocationType ==
  ASSUME TypeOK, NEW w \in Skill
  PROVE  Location(w) \in Locations
<1>1. sources \in Seq(Source)
  BY SourcesAssumption DEF TypeOK
<1>2. sources[w.src] \in Source
  BY <1>1 DEF Skill
<1>3. sources[w.src].location \in STRING
  BY <1>2 DEF Source
<1>4. w.dir \in Dirs /\ w.file \in Spellings
  BY DEF Skill, skillFiles, Spellings
<1> QED
  BY <1>3, <1>4 DEF Location, Locations

(* A skill as Load returns it, before and after it is qualified.           *)
LEMMA LoadedType ==
  ASSUME TypeOK, pc \in {"load", "read"}, NEW doc \in Docs, NEW f \in skillFiles
  PROVE  /\ Loaded(doc, f) \in Skill
         /\ Qualified(Loaded(doc, f)) \in Skill
         /\ ListedName(Qualified(Loaded(doc, f))) \in Names
<1> DEFINE s == Loaded(doc, f)
<1>1. i \in 1..Len(sources) /\ cur.dir \in Dirs /\ sources[i].qualifier \in Names
  BY SourceTypes DEF TypeOK, Source
<1>2. <<>> \in Names
  BY DEF Names
<1>3. s \in Skill
  BY <1>1, <1>2 DEF Loaded, Skill, Docs, TypeOK
<1>4. [s EXCEPT !.qualifier = sources[i].qualifier] \in Skill
  BY <1>1, <1>3 DEF Skill
<1>5. Qualified(s) \in Skill
  BY <1>3, <1>4 DEF Qualified
<1>6. ListedName(Qualified(s)) \in Names
  BY <1>5, ConcatProperties DEF ListedName, Names, Skill
<1> QED
  BY <1>3, <1>5, <1>6

(* The part of the type invariant the catalog is in.                       *)
CatalogOK ==
  /\ Skills \in Seq(Skill)
  /\ Shadowed \in Seq(Skill)
  /\ DOMAIN seen \subseteq Names
  /\ \A n \in DOMAIN seen : seen[n] \in [source : 1..i, skill : Skill]

(* A skill that is added leaves the catalog well typed.                    *)
LEMMA AddSkillType ==
  ASSUME TypeOK, pc \in {"load", "read"}, NEW doc \in Docs, NEW f \in skillFiles,
         NEW ps, AddSkill(Loaded(doc, f), ps),
         UNCHANGED <<i, sources>>
  PROVE  CatalogOK'
<1> DEFINE s == Loaded(doc, f)
           q == Qualified(s)
           key == ListedName(q)
<1>1. s \in Skill /\ q \in Skill /\ key \in Names
  BY LoadedType
<1>2. CASE ~listable(s)
  <2>1. Skills' = Append(Skills, s) /\ UNCHANGED <<seen, Shadowed>>
    BY <1>2 DEF AddSkill
  <2> QED
    BY <1>1, <2>1, AppendProperties DEF CatalogOK, TypeOK, Skill
<1>3. CASE listable(s) /\ key \in DOMAIN seen
  <2> DEFINE t == [q EXCEPT !.qualifier = <<>>,
                            !.shadowedBy = Location(seen[key].skill)]
  <2>1. Shadowed' = Append(Shadowed, t) /\ UNCHANGED <<seen, Skills>>
    BY <1>3 DEF AddSkill, Claim
  <2>2. seen[key].skill \in Skill
    BY <1>3 DEF TypeOK
  <2>3. Location(seen[key].skill) \in Locations
    BY <2>2, LocationType
  <2>4. t \in Skill
    <3>1. <<>> \in Names
      BY DEF Names
    <3> QED
      BY <1>1, <2>3, <3>1 DEF Skill
  <2> QED
    BY <2>1, <2>4, AppendProperties DEF CatalogOK, TypeOK, Skill
<1>4. CASE listable(s) /\ key \notin DOMAIN seen
  <2>1. /\ seen' = Put(seen, key, [source |-> i, skill |-> q])
        /\ Skills' = Append(Skills, q)
        /\ UNCHANGED Shadowed
    BY <1>4 DEF AddSkill, Claim
  <2>2. DOMAIN seen' = DOMAIN seen \cup {key}
    BY <2>1 DEF Put
  <2>3. \A n \in DOMAIN seen' : seen'[n] = IF n = key THEN [source |-> i, skill |-> q]
                                                      ELSE seen[n]
    BY <2>1, <2>2 DEF Put
  <2>4. i \in 1..i
    BY DEF TypeOK
  <2>5. \A n \in DOMAIN seen' : seen'[n] \in [source : 1..i', skill : Skill]
    BY <1>1, <2>2, <2>3, <2>4 DEF TypeOK, Skill
  <2> QED
    BY <1>1, <2>1, <2>2, <2>5, AppendProperties DEF CatalogOK, TypeOK, Skill
<1> QED
  BY <1>2, <1>3, <1>4

(* The tree under the entry being visited.                                 *)
LEMMA HereType ==
  ASSUME TypeOK, pc \in {"find", "load", "read"}
  PROVE  Here \in Children
<1>1. i \in 1..Len(sources) /\ cur.dir \in Dirs
  BY DEF TypeOK
<1>2. disk[i] \in [Dirs -> Children]
  BY <1>1 DEF TypeOK
<1> QED
  BY <1>1, <1>2 DEF Here

(* The end of a load leaves the catalog well typed.                        *)
LEMMA FinishType ==
  ASSUME TypeOK, pc \in {"load", "read"}, NEW f \in skillFiles, Finish(f),
         UNCHANGED <<i, sources>>
  PROVE  CatalogOK'
<1>1. CASE Opens(Here, f) /\ Contents(Here, f).ok
  <2>1. Contents(Here, f) \in Docs
    BY <1>1, HereType, OpenedContents
  <2>2. AddSkill(Loaded(Contents(Here, f), f), Contents(Here, f).problems)
    BY <1>1 DEF Finish
  <2> QED
    BY <2>1, <2>2, AddSkillType
<1>2. CASE ~(Opens(Here, f) /\ Contents(Here, f).ok)
  <2>1. UNCHANGED <<seen, Skills, Shadowed>>
    BY <1>2 DEF Finish, Failed
  <2> QED
    BY <2>1 DEF CatalogOK, TypeOK, Skill
<1> QED
  BY <1>1, <1>2

(* The state keeps its types: only files of the two accepted spellings are *)
(* loaded, and a claim is always a loaded skill's.                         *)
LEMMA TypeInit == Init => TypeOK
<1> SUFFICES ASSUME Init PROVE TypeOK
  OBVIOUS
<1>1. Skills \in Seq(Skill) /\ Shadowed \in Seq(Skill)
  BY DEF Init
<1>2. i \in Nat \ {0} /\ DOMAIN todo = {} /\ DOMAIN seen = {}
  BY DEF Init
<1>3. disk \in [1..Len(sources) -> [Dirs -> Children]]
  <2>1. Trees[sources] \subseteq Children
    BY ChildrenAssumption DEF Init
  <2>2. disk \in [1..Len(sources) -> [Dirs -> Trees[sources]]]
    BY DEF Init
  <2> QED
    BY <2>1, <2>2
<1> QED
  BY <1>1, <1>2, <1>3 DEF Init, TypeOK

LEMMA TypeStep == TypeOK /\ [Next]_vars => TypeOK'
<1> SUFFICES ASSUME TypeOK, [Next]_vars PROVE TypeOK'
  OBVIOUS
<1> USE DEF TypeOK
<1>1. CASE RefuseSources
  BY <1>1 DEF RefuseSources, catalog, Skill
<1>2. CASE ReadRoot
  BY <1>2 DEF ReadRoot, catalog, Skill
<1>3. CASE Return
  BY <1>3 DEF Return, catalog, Skill
<1>4. CASE NextSource
  <2>1. \A k \in DOMAIN seen : seen[k].source \in 1..i'
    BY <1>4 DEF NextSource
  <2>2. \A k \in DOMAIN seen : seen[k] \in [source : 1..i', skill : Skill]
    BY <2>1
  <2> QED
    BY <1>4, <2>2 DEF NextSource, catalog, Skill
<1>5. CASE VisitEntry
  <2> PICK d \in DOMAIN todo :
          /\ todo' = Drop(todo, d)
          /\ IF isDir(d)
               THEN cur' = [NoEntry EXCEPT !.dir = d] /\ pc' = "find"
               ELSE UNCHANGED <<cur, pc>>
    BY <1>5 DEF VisitEntry
  <2>1. DOMAIN todo' \subseteq Dirs
    BY DEF Drop
  <2>2. pc = "entry" /\ UNCHANGED <<sources, disk, i, locations, catalog>>
    BY <1>5 DEF VisitEntry
  <2>3. pc' = "find" => cur'.dir \in Dirs
    BY <2>2 DEF NoEntry
  <2> QED
    BY <2>1, <2>2, <2>3 DEF catalog, Skill
<1>6. CASE findSkillFile
  <2>1. UNCHANGED <<sources, disk, i, todo, seen, Skills, Shadowed>>
    BY <1>6 DEF findSkillFile
  <2>2. CASE SkillFileName(Here) # NoFile
    <3>1. cur' = [cur EXCEPT !.found = SkillFileName(Here)] /\ pc' = "load"
      BY <1>6, <2>2 DEF findSkillFile
    <3> QED
      BY <1>6, <2>1, <2>2, <3>1, SkillFileNames DEF findSkillFile, Skill
  <2>3. CASE SkillFileName(Here) = NoFile
    BY <1>6, <2>1, <2>3 DEF findSkillFile, Leave, Skill
  <2> QED
    BY <2>2, <2>3
<1>7. CASE LoadList
  <2>1. UNCHANGED <<sources, disk, i, todo, locations>> /\ pc = "load"
    BY <1>7 DEF LoadList
  <2>2. CASE CanList(Here) /\ SkillFileName(Here) # NoFile
    <3>1. cur' = [cur EXCEPT !.file = SkillFileName(Here)] /\ pc' = "read"
      BY <1>7, <2>2 DEF LoadList
    <3> QED
      BY <1>7, <2>1, <2>2, <3>1, SkillFileNames DEF LoadList, catalog, Skill
  <2>3. CASE ~CanList(Here) /\ SkillFileName(Here) # NoFile
    <3>1. Finish(SkillFileName(Here)) /\ Leave
      BY <1>7, <2>3 DEF LoadList
    <3>2. CatalogOK'
      BY <2>1, <2>3, <3>1, FinishType, SkillFileNames
    <3> QED
      BY <2>1, <3>1, <3>2 DEF CatalogOK, Leave
  <2>4. CASE SkillFileName(Here) = NoFile
    <3>1. Leave /\ UNCHANGED <<seen, Skills, Shadowed>>
      BY <1>7, <2>4 DEF LoadList, Failed
    <3> QED
      BY <2>1, <3>1 DEF Leave, Skill
  <2> QED
    BY <2>2, <2>3, <2>4
<1>8. CASE LoadRead
  <2>1. UNCHANGED <<sources, disk, i, todo, locations>> /\ Finish(cur.file) /\ Leave
    BY <1>8 DEF LoadRead
  <2>2. CatalogOK'
    BY <1>8, <2>1, FinishType DEF LoadRead
  <2> QED
    BY <1>8, <2>1, <2>2 DEF CatalogOK, Leave, LoadRead
<1>9. CASE Edit
  <2>1. PICK k \in 1..Len(sources), d \in Dirs, c \in Edits :
          disk' = [disk EXCEPT ![k][d] = c]
    BY <1>9 DEF Edit
  <2>2. disk' \in [1..Len(sources) -> [Dirs -> Children]]
    <3>1. disk[k] \in [Dirs -> Children] /\ c \in Children
      BY ChildrenAssumption
    <3>2. [disk[k] EXCEPT ![d] = c] \in [Dirs -> Children]
      BY <3>1
    <3> QED
      BY <2>1, <3>2
  <2>3. UNCHANGED <<sources, pc, i, todo, cur, locations, catalog>>
    BY <1>9 DEF Edit
  <2> QED
    BY <2>2, <2>3 DEF catalog, Skill
<1>10. CASE UNCHANGED vars
  BY <1>10 DEF vars, catalog, Skill
<1> QED
  BY <1>1, <1>2, <1>3, <1>4, <1>5, <1>6, <1>7, <1>8, <1>9, <1>10 DEF Next, Discover

(* The types of every reachable state.                                     *)
THEOREM TypeCorrect == Spec => []TypeOK
BY TypeInit, TypeStep, PTL DEF Spec

----------------------------------------------------------------------------
(* NamesUnique needs the claims table: a listed skill's name is claimed,   *)
(* so the name given to the next skill, being free, is none of theirs.     *)
KeysClaimed ==
  \A k \in DOMAIN Skills : listable(Skills[k]) => ListedName(Skills[k]) \in DOMAIN seen

NamesInv == KeysClaimed /\ NamesUnique

LEMMA FinishNames ==
  ASSUME TypeOK, NamesInv, pc \in {"load", "read"}, NEW f \in skillFiles, Finish(f)
  PROVE  NamesInv'
<1> DEFINE s == Loaded(Contents(Here, f), f)
           q == Qualified(s)
           key == ListedName(q)
<1> USE DEF NamesInv, KeysClaimed, NamesUnique
<1>1. CASE UNCHANGED <<seen, Skills>>
  BY <1>1
<1>2. CASE ~listable(s) /\ Skills' = Append(Skills, s) /\ UNCHANGED seen
  BY <1>2 DEF TypeOK
<1>3. CASE /\ key \notin DOMAIN seen
           /\ seen' = Put(seen, key, [source |-> i, skill |-> q])
           /\ Skills' = Append(Skills, q)
  <2>1. DOMAIN seen' = DOMAIN seen \cup {key}
    BY <1>3 DEF Put
  <2>2. /\ DOMAIN Skills' = DOMAIN Skills \cup {Len(Skills) + 1}
        /\ \A k \in DOMAIN Skills : Skills'[k] = Skills[k]
        /\ Skills'[Len(Skills) + 1] = q
    BY <1>3 DEF TypeOK
  <2> HIDE DEF key, q
  <2>3. KeysClaimed'
    BY <2>1, <2>2 DEF key
  <2>4. NamesUnique'
    BY <1>3, <2>1, <2>2 DEF key
  <2> QED
    BY <2>3, <2>4
<1> QED
  BY <1>1, <1>2, <1>3 DEF Finish, Failed, AddSkill, Claim

(* Two skills offered to the model never share the name it calls them by,  *)
(* while the trees are edited as while they stand still.                   *)
THEOREM NamesUniqueAlways == Spec => []NamesUnique
<1>1. Init => NamesInv
  BY DEF Init, NamesInv, KeysClaimed, NamesUnique
<1>2. TypeOK /\ NamesInv /\ [Next]_vars => NamesInv'
  <2> SUFFICES ASSUME TypeOK, NamesInv, [Next]_vars PROVE NamesInv'
    OBVIOUS
  <2>1. CASE UNCHANGED <<seen, Skills>>
    BY <2>1 DEF NamesInv, KeysClaimed, NamesUnique
  <2>2. CASE LoadList
    <3>1. CASE ~CanList(Here) /\ SkillFileName(Here) # NoFile
      BY <2>2, <3>1, FinishNames, SkillFileNames DEF LoadList
    <3> QED
      BY <2>1, <2>2, <3>1 DEF LoadList, Failed, catalog
  <2>3. CASE LoadRead
    BY <2>3, FinishNames DEF LoadRead, TypeOK
  <2> QED
    BY <2>1, <2>2, <2>3 DEF Next, Discover, vars, catalog, RefuseSources, ReadRoot,
         Return, NextSource, VisitEntry, findSkillFile, Edit
<1>3. NamesInv => NamesUnique
  BY DEF NamesInv
<1> QED
  BY <1>1, <1>2, <1>3, TypeCorrect, PTL DEF Spec
=============================================================================

---------------------------- MODULE CatalogProofs ----------------------------
(* Theorems about the catalog Discovery makes, for every list of sources   *)
(* and every tree, edited or not: who is listed, under which name, who is  *)
(* shadowed by whom, and that nothing found is lost.                       *)
EXTENDS DiscoveryProofs

----------------------------------------------------------------------------
(* The search.  What is in the catalog was found in the past of the        *)
(* search, and the entry it is at is not of its past.                      *)
Searching == pc \in {"entry", "find", "load", "read"}
Visiting == pc \in {"find", "load", "read"}
Begun(k) == k \in 1..Len(sources) /\ (k < i \/ (k = i /\ Searching))

Past(k, d) ==
  /\ k \in 1..Len(sources) /\ d \in Dirs
  /\ \/ k < i
     \/ /\ k = i /\ Searching
        /\ \A x \in DOMAIN todo : d < x
        /\ Visiting => d < cur.dir

Frontier ==
  /\ Visiting => \A x \in DOMAIN todo : cur.dir < x
  /\ cur.found # NoFile => pc \in {"load", "read"}

(* The sources begun have locations of their own.                          *)
Apart ==
  /\ \A k \in 1..Len(sources) : Begun(k) => sources[k].location \in locations
  /\ \A j, k \in 1..Len(sources) :
       Begun(j) /\ Begun(k) /\ sources[j].location = sources[k].location => j = k

ProblemsPast ==
  \A l \in DOMAIN Problems :
    \E k \in 1..Len(sources), d \in Dirs, f \in Spellings :
      l = <<sources[k].location, d, f>> /\ Past(k, d)

InOrder(q) == \A j, k \in DOMAIN q : j < k => Before(q[j], q[k])

SkillsPast ==
  /\ \A s \in SkillSet \cup ShadowedSet : Past(s.src, s.dir)
  /\ InOrder(Skills) /\ InOrder(Shadowed)
  /\ \A s \in SkillSet, t \in ShadowedSet : s.src # t.src \/ s.dir # t.dir

SearchInv == Frontier /\ Apart /\ ProblemsPast /\ SkillsPast

----------------------------------------------------------------------------
(* The claims.  Each name is held by the first skill that wanted it: a     *)
(* skill wants its own name, or the qualified one when a source before its *)
(* own has that.                                                           *)
Found == ListedSet \cup ShadowedSet
Late(s) == sources[s.src].qualifier # <<>> /\ seen[s.name].source < s.src
Wanted(s) == IF Late(s) THEN sources[s.src].qualifier \o s.name ELSE s.name
AtOrBefore(s, t) == s = t \/ Before(s, t)

Held ==
  \A n \in DOMAIN seen :
    /\ seen[n].skill \in ListedSet
    /\ ListedName(seen[n].skill) = n
    /\ seen[n].source = seen[n].skill.src

FirstHolds ==
  \A t \in Found :
    /\ t.name \in DOMAIN seen /\ Wanted(t) \in DOMAIN seen
    /\ AtOrBefore(seen[t.name].skill, t)
    /\ AtOrBefore(seen[Wanted(t)].skill, t)

ListedHolds ==
  \A t \in ListedSet :
    /\ seen[Wanted(t)].skill = t
    /\ t.qualifier = IF Late(t) THEN sources[t.src].qualifier ELSE <<>>

ShadowedLoses ==
  \A t \in ShadowedSet :
    /\ listable(t)
    /\ t.qualifier = <<>>
    /\ t.shadowedBy = Location(seen[Wanted(t)].skill)

ClaimInv == Held /\ FirstHolds /\ ListedHolds /\ ShadowedLoses
----------------------------------------------------------------------------
(* What a step does to the catalog.  Only the step that leaves an entry    *)
(* changes it, for that entry.                                             *)
Leaves ==
  Visiting /\ Leave /\ UNCHANGED <<sources, disk, i, todo, locations>>

Adds(s) ==
  /\ Leaves
  /\ s \in Skill /\ s.src = i /\ s.dir = cur.dir
  /\ s.qualifier = <<>>
  /\ IF listable(s) THEN Claim(s) ELSE Skills' = Append(Skills, s) /\ UNCHANGED <<seen, Shadowed>>

Reports(f) ==
  /\ Leaves /\ f \in Spellings
  /\ \E ps : Problems' = Put(Problems, HereLocation(f), ps)

LEMMA FinishLeaves ==
  ASSUME TypeOK, Frontier, pc \in {"load", "read"}, Leaves, NEW f \in skillFiles, Finish(f)
  PROVE  /\ (\E s : Adds(s) /\ s.file = f) \/ Failed(cur.found)
         /\ UNCHANGED Problems \/ \E g : Reports(g)
<1>1. CASE Opens(Here, f) /\ Contents(Here, f).ok
  <2> DEFINE doc == Contents(Here, f)
             s == Loaded(doc, f)
  <2>1. doc \in Docs
    BY <1>1, HereType, OpenedContents
  <2>2. AddSkill(s, doc.problems)
    BY <1>1 DEF Finish
  <2> HIDE DEF doc
  <2>3. s \in Skill
    BY <2>1, LoadedType
  <2>4. s.src = i /\ s.dir = cur.dir /\ s.qualifier = <<>> /\ s.file = f
    BY DEF Loaded
  <2> HIDE DEF s
  <2>5. Location(s) = HereLocation(f)
    BY <2>4 DEF Location, HereLocation
  <2>6. Adds(s)
    BY <2>2, <2>3, <2>4 DEF AddSkill, Adds
  <2>7. UNCHANGED Problems \/ Problems' = Put(Problems, HereLocation(f), doc.problems)
    BY <2>2, <2>5 DEF AddSkill
  <2>8. f \in Spellings
    BY DEF skillFiles, Spellings
  <2> QED
    BY <2>4, <2>6, <2>7, <2>8 DEF Reports
<1>2. CASE ~(Opens(Here, f) /\ Contents(Here, f).ok)
  <2>1. Failed(cur.found)
    BY <1>2 DEF Finish
  <2>2. cur.found \in Spellings
    BY DEF TypeOK, skillFiles, Spellings
  <2> QED
    BY <2>1, <2>2 DEF Failed, Reports
<1> QED
  BY <1>1, <1>2

LEMMA CatalogStep ==
  ASSUME TypeOK, Frontier, [Next]_vars
  PROVE  /\ UNCHANGED <<seen, Skills, Shadowed>> \/ \E s : Adds(s)
         /\ UNCHANGED Problems \/ \E g : Reports(g)
<1>1. CASE findSkillFile
  <2>1. CASE SkillFileName(Here) # NoFile
    BY <1>1, <2>1 DEF findSkillFile
  <2>2. CASE SkillFileName(Here) = NoFile
    <3>1. Leaves
      BY <1>1, <2>2 DEF findSkillFile, Leaves, Visiting
    <3>2. misnamedSkillFile(Here) \in {NoFile} \cup Spellings
      BY DEF misnamedSkillFile, Spellings
    <3> QED
      BY <1>1, <2>2, <3>1, <3>2 DEF findSkillFile, Reports
  <2> QED
    BY <2>1, <2>2
<1>2. CASE LoadList
  <2>1. CASE CanList(Here) /\ SkillFileName(Here) # NoFile
    BY <1>2, <2>1 DEF LoadList, catalog
  <2>2. CASE ~CanList(Here) /\ SkillFileName(Here) # NoFile
    <3>1. Leaves /\ Finish(SkillFileName(Here)) /\ pc = "load"
      BY <1>2, <2>2 DEF LoadList, Leaves, Visiting
    <3> QED
      BY <2>2, <3>1, FinishLeaves, SkillFileNames DEF Failed
  <2>3. CASE SkillFileName(Here) = NoFile
    <3>1. Leaves /\ Failed(cur.found) /\ cur.found \in Spellings
      BY <1>2, <2>3 DEF LoadList, Leaves, Visiting, TypeOK, skillFiles, Spellings
    <3> QED
      BY <3>1 DEF Failed, Reports
  <2> QED
    BY <2>1, <2>2, <2>3
<1>3. CASE LoadRead
  <2>1. Leaves /\ Finish(cur.file) /\ cur.file \in skillFiles /\ pc = "read"
    BY <1>3 DEF LoadRead, Leaves, Visiting, TypeOK
  <2> QED
    BY <2>1, FinishLeaves DEF Failed
<1>4. CASE UNCHANGED catalog
  BY <1>4 DEF catalog
<1> QED
  BY <1>1, <1>2, <1>3, <1>4 DEF Next, Discover, vars, catalog, RefuseSources, ReadRoot,
     Return, NextSource, VisitEntry, Edit

----------------------------------------------------------------------------
(* The search goes forward.                                                *)
LEMMA EntrySteps ==
  ASSUME TypeOK, findSkillFile \/ LoadList
  PROVE  /\ UNCHANGED <<sources, i, todo>> /\ pc \in {"find", "load"}
         /\ Leave \/ (pc' \in {"load", "read"} /\ cur'.dir = cur.dir)
<1>1. CASE findSkillFile
  <2>1. CASE SkillFileName(Here) # NoFile
    <3>1. cur' = [cur EXCEPT !.found = SkillFileName(Here)] /\ pc' = "load"
      BY <1>1, <2>1 DEF findSkillFile
    <3> QED
      BY <1>1, <3>1 DEF findSkillFile
  <2> QED
    BY <1>1, <2>1 DEF findSkillFile
<1>2. CASE LoadList
  <2>1. CASE CanList(Here) /\ SkillFileName(Here) # NoFile
    <3>1. cur' = [cur EXCEPT !.file = SkillFileName(Here)] /\ pc' = "read"
      BY <1>2, <2>1 DEF LoadList
    <3> QED
      BY <1>2, <3>1 DEF LoadList
  <2> QED
    BY <1>2, <2>1 DEF LoadList
<1> QED
  BY <1>1, <1>2

LEMMA PastStays ==
  ASSUME TypeOK, Frontier, [Next]_vars, NEW k, NEW d, Past(k, d)
  PROVE  Past(k, d)'
<1> USE DEF Past, Searching, Visiting
<1>0. i \in Nat /\ d \in Nat /\ k \in Nat /\ DOMAIN todo \subseteq Nat
  <2>1. i \in Nat /\ DOMAIN todo \subseteq Dirs
    BY DEF TypeOK
  <2>2. k \in 1..i /\ d \in Dirs
    BY <2>1
  <2>3. d \in Nat /\ DOMAIN todo \subseteq Nat
    BY <2>1, <2>2, DirsAssumption
  <2>4. k \in Nat
    BY <2>1, <2>2
  <2> QED
    BY <2>1, <2>3, <2>4
<1>1. CASE RefuseSources \/ Return \/ Edit
  BY <1>1 DEF RefuseSources, Return, Edit
<1>2. CASE ReadRoot
  BY <1>2 DEF ReadRoot
<1>3. CASE NextSource
  BY <1>0, <1>3 DEF NextSource, Frontier
<1>4. CASE VisitEntry
  <2>1. PICK e \in DOMAIN todo :
          /\ todo' = Drop(todo, e)
          /\ IF isDir(e)
               THEN cur' = [NoEntry EXCEPT !.dir = e] /\ pc' = "find"
               ELSE UNCHANGED <<cur, pc>>
    BY <1>4 DEF VisitEntry
  <2>2. pc = "entry" /\ UNCHANGED <<sources, i>>
    BY <1>4 DEF VisitEntry
  <2>3. DOMAIN todo' \subseteq DOMAIN todo
    BY <2>1 DEF Drop
  <2>4. pc' = "entry" \/ (pc' = "find" /\ cur'.dir = e)
    BY <2>1, <2>2 DEF NoEntry
  <2> QED
    BY <2>2, <2>3, <2>4
<1>5. CASE findSkillFile \/ LoadList
  BY <1>5, EntrySteps DEF Leave
<1>6. CASE LoadRead
  BY <1>6 DEF LoadRead, Leave
<1>7. CASE UNCHANGED vars
  BY <1>7 DEF vars
<1> QED
  BY <1>1, <1>2, <1>3, <1>4, <1>5, <1>6, <1>7 DEF Next, Discover

(* The entry that is left passes into the past; it was not of it before.   *)
LEMMA HerePast ==
  ASSUME TypeOK, Frontier, Leaves, NEW k, NEW d, k = i, d = cur.dir
  PROVE  Past(k, d)' /\ ~Past(k, d)
<1>1. k \in 1..Len(sources) /\ d \in Dirs /\ d \in Nat /\ k \in Nat
  BY DirsAssumption DEF TypeOK, Leaves, Visiting
<1>2. ~Past(k, d)
  BY <1>1 DEF Past, Leaves
<1>3. Past(k, d)'
  BY <1>1 DEF Past, Leaves, Leave, Frontier, Searching, Visiting
<1> QED
  BY <1>2, <1>3

LEMMA BeforeHere ==
  ASSUME TypeOK, Visiting, NEW s, Past(s.src, s.dir), NEW t, t.src = i, t.dir = cur.dir
  PROVE  Before(s, t)
BY DEF Past, Before, TypeOK, Searching

LEMMA FrontierStep ==
  ASSUME TypeOK, Frontier, [Next]_vars
  PROVE  Frontier'
<1> USE DEF Frontier, Visiting
<1>0. DOMAIN todo \subseteq Nat
  BY DirsAssumption DEF TypeOK
<1>1. CASE RefuseSources \/ Return \/ Edit
  BY <1>1 DEF RefuseSources, Return, Edit
<1>2. CASE ReadRoot
  BY <1>2 DEF ReadRoot
<1>3. CASE NextSource
  BY <1>3 DEF NextSource
<1>4. CASE VisitEntry
  <2>1. PICK e \in DOMAIN todo :
          /\ \A x \in DOMAIN todo : e <= x
          /\ todo' = Drop(todo, e)
          /\ IF isDir(e)
               THEN cur' = [NoEntry EXCEPT !.dir = e] /\ pc' = "find"
               ELSE UNCHANGED <<cur, pc>>
    BY <1>4 DEF VisitEntry
  <2>2. pc = "entry" /\ cur.found = NoFile
    BY <1>4 DEF VisitEntry
  <2>3. DOMAIN todo' = DOMAIN todo \ {e}
    BY <2>1 DEF Drop
  <2>4. \A x \in DOMAIN todo' : e < x
    BY <1>0, <2>1, <2>3
  <2>5. CASE isDir(e)
    BY <2>1, <2>4, <2>5 DEF NoEntry
  <2>6. CASE ~isDir(e)
    BY <2>1, <2>2, <2>6
  <2> QED
    BY <2>5, <2>6
<1>5. CASE findSkillFile \/ LoadList
  BY <1>5, EntrySteps DEF Leave, NoEntry
<1>6. CASE LoadRead
  BY <1>6 DEF LoadRead, Leave, NoEntry
<1>7. CASE UNCHANGED vars
  BY <1>7 DEF vars
<1> QED
  BY <1>1, <1>2, <1>3, <1>4, <1>5, <1>6, <1>7 DEF Next, Discover

LEMMA ApartStep ==
  ASSUME TypeOK, Frontier, Apart, [Next]_vars
  PROVE  Apart'
<1> USE DEF Apart, Begun, Searching
<1>0. i \in Nat
  BY DEF TypeOK
<1>1. CASE RefuseSources \/ Return \/ Edit
  BY <1>1 DEF RefuseSources, Return, Edit
<1>2. CASE ReadRoot
  <2>1. /\ i \in 1..Len(sources) /\ UNCHANGED <<sources, i>>
        /\ locations' = locations \cup {sources[i].location}
        /\ sources[i].location \notin locations
        /\ pc = "source"
    BY <1>0, <1>2 DEF ReadRoot, BadSource, SharedLocation, TrimmedLocation, TypeOK
  <2> QED
    BY <1>0, <2>1
<1>3. CASE NextSource
  BY <1>0, <1>3 DEF NextSource
<1>4. CASE VisitEntry
  BY <1>4 DEF VisitEntry
<1>5. CASE findSkillFile \/ LoadList
  BY <1>5, EntrySteps DEF Leave, findSkillFile, LoadList
<1>6. CASE LoadRead
  BY <1>6 DEF LoadRead, Leave
<1>7. CASE UNCHANGED vars
  BY <1>7 DEF vars
<1> QED
  BY <1>1, <1>2, <1>3, <1>4, <1>5, <1>6, <1>7 DEF Next, Discover

(* A location says which source and which entry it is of.                  *)
LEMMA LocationTells ==
  ASSUME Apart, NEW j, NEW k, Begun(j), Begun(k), NEW d, NEW e, NEW f, NEW g,
         <<sources[j].location, d, f>> = <<sources[k].location, e, g>>
  PROVE  j = k /\ d = e
<1>1. sources[j].location = sources[k].location /\ d = e
  OBVIOUS
<1> QED
  BY <1>1 DEF Apart, Begun

LEMMA PastBegun ==
  ASSUME NEW k, NEW d, Past(k, d)
  PROVE  Begun(k) /\ k \in 1..Len(sources) /\ d \in Dirs
BY DEF Past, Begun

LEMMA HereBegun ==
  ASSUME TypeOK, Visiting
  PROVE  Begun(i)
BY DEF TypeOK, Visiting, Begun, Searching

(* Nothing is said yet of the entry that is left.                          *)
LEMMA HereUnreported ==
  ASSUME TypeOK, SearchInv, Leaves, NEW f
  PROVE  HereLocation(f) \notin DOMAIN Problems
<1> SUFFICES ASSUME HereLocation(f) \in DOMAIN Problems PROVE FALSE
  OBVIOUS
<1>1. PICK k \in 1..Len(sources), d \in Dirs, g \in Spellings :
        HereLocation(f) = <<sources[k].location, d, g>> /\ Past(k, d)
  BY DEF SearchInv, ProblemsPast
<1>2. Begun(k) /\ Begun(i)
  BY <1>1, PastBegun, HereBegun DEF Leaves
<1>3. k = i /\ d = cur.dir
  BY <1>1, <1>2, LocationTells DEF HereLocation, SearchInv
<1> QED
  BY <1>1, <1>3, HerePast DEF SearchInv

LEMMA ProblemsPastStep ==
  ASSUME TypeOK, SearchInv, [Next]_vars
  PROVE  ProblemsPast'
<1>1. UNCHANGED sources
  BY DEF Next, Discover, vars, RefuseSources, ReadRoot, Return, NextSource, VisitEntry,
         findSkillFile, LoadList, LoadRead, Edit
<1>2. ASSUME NEW l \in DOMAIN Problems
      PROVE  \E k \in 1..Len(sources'), d \in Dirs, f \in Spellings :
               l = <<sources'[k].location, d, f>> /\ Past(k, d)'
  <2>1. PICK k \in 1..Len(sources), d \in Dirs, f \in Spellings :
          l = <<sources[k].location, d, f>> /\ Past(k, d)
    BY DEF SearchInv, ProblemsPast
  <2>2. Past(k, d)'
    BY <2>1, PastStays DEF SearchInv
  <2> QED
    BY <1>1, <2>1, <2>2
<1>3. CASE UNCHANGED Problems
  BY <1>2, <1>3 DEF ProblemsPast
<1>4. CASE \E g : Reports(g)
  <2>1. PICK g, ps : Leaves /\ g \in Spellings /\ Problems' = Put(Problems, HereLocation(g), ps)
    BY <1>4 DEF Reports
  <2>2. DOMAIN Problems' = DOMAIN Problems \cup {HereLocation(g)}
    BY <2>1 DEF Put
  <2>3. \E k \in 1..Len(sources'), d \in Dirs, f \in Spellings :
          HereLocation(g) = <<sources'[k].location, d, f>> /\ Past(k, d)'
    <3>1. i \in 1..Len(sources) /\ cur.dir \in Dirs
      BY <2>1 DEF TypeOK, Leaves, Visiting
    <3>2. PICK k, d : k = i /\ d = cur.dir
      OBVIOUS
    <3>3. Past(k, d)'
      BY <2>1, <3>2, HerePast DEF SearchInv
    <3> QED
      BY <1>1, <2>1, <3>1, <3>2, <3>3 DEF HereLocation
  <2> QED
    BY <1>2, <2>2, <2>3 DEF ProblemsPast
<1> QED
  BY <1>3, <1>4, CatalogStep DEF SearchInv

(* The skills and the shadowed ones a step leaves.                         *)
LEMMA AddedSets ==
  ASSUME TypeOK, NEW s, Adds(s), NEW q, NEW t,
         \/ Skills' = Append(Skills, q) /\ UNCHANGED Shadowed
         \/ Shadowed' = Append(Shadowed, t) /\ UNCHANGED Skills
  PROVE  \/ SkillSet' = SkillSet \cup {q} /\ UNCHANGED ShadowedSet
         \/ ShadowedSet' = ShadowedSet \cup {t} /\ UNCHANGED SkillSet
<1>1. Skills \in Seq(Skill) /\ Shadowed \in Seq(Skill)
  BY DEF TypeOK
<1>2. ASSUME Skills' = Append(Skills, q) PROVE SkillSet' = SkillSet \cup {q}
  <2>1. /\ DOMAIN Skills' = DOMAIN Skills \cup {Len(Skills) + 1}
        /\ \A k \in DOMAIN Skills : Skills'[k] = Skills[k]
        /\ Skills'[Len(Skills) + 1] = q
    BY <1>1, <1>2
  <2> QED
    BY <2>1 DEF SkillSet
<1>3. ASSUME Shadowed' = Append(Shadowed, t) PROVE ShadowedSet' = ShadowedSet \cup {t}
  <2>1. /\ DOMAIN Shadowed' = DOMAIN Shadowed \cup {Len(Shadowed) + 1}
        /\ \A k \in DOMAIN Shadowed : Shadowed'[k] = Shadowed[k]
        /\ Shadowed'[Len(Shadowed) + 1] = t
    BY <1>1, <1>3
  <2> QED
    BY <2>1 DEF ShadowedSet
<1>4. (UNCHANGED Skills => UNCHANGED SkillSet) /\ (UNCHANGED Shadowed => UNCHANGED ShadowedSet)
  BY DEF SkillSet, ShadowedSet
<1> QED
  BY <1>2, <1>3, <1>4

LEMMA QualifiedSkill ==
  ASSUME TypeOK, NEW s, Adds(s)
  PROVE  /\ Qualified(s) \in Skill
         /\ Qualified(s).src = i /\ Qualified(s).dir = cur.dir
         /\ Qualified(s).file = s.file /\ Qualified(s).name = s.name
         /\ Qualified(s).description = s.description
         /\ Qualified(s).qualifier = IF Qualifies(s) THEN sources[i].qualifier ELSE <<>>
         /\ ~Qualifies(s) => Qualified(s) = s
<1>1. s \in Skill /\ s.src = i /\ s.dir = cur.dir /\ s.qualifier = <<>>
  BY DEF Adds
<1>2. sources[i].qualifier \in Names
  BY SourceTypes DEF Adds, Leaves, Visiting, TypeOK, Source
<1>3. CASE Qualifies(s)
  <2> DEFINE q == [s EXCEPT !.qualifier = sources[i].qualifier]
  <2>1. /\ q \in Skill /\ q.src = s.src /\ q.dir = s.dir /\ q.file = s.file
        /\ q.name = s.name /\ q.description = s.description /\ q.qualifier = sources[i].qualifier
    BY <1>1, <1>2 DEF Skill
  <2> QED
    BY <1>1, <1>3, <2>1 DEF Qualified
<1>4. CASE ~Qualifies(s)
  BY <1>1, <1>4 DEF Qualified
<1> QED
  BY <1>3, <1>4

(* The three ways a skill is added.                                        *)
Lists(s) ==
  LET q == Qualified(s)
  IN /\ listable(s) /\ ListedName(q) \notin DOMAIN seen
     /\ seen' = Put(seen, ListedName(q), [source |-> i, skill |-> q])
     /\ Skills' = Append(Skills, q) /\ UNCHANGED Shadowed

Shadows(s) ==
  LET q == Qualified(s)
  IN /\ listable(s) /\ ListedName(q) \in DOMAIN seen
     /\ Shadowed' = Append(Shadowed,
          [q EXCEPT !.qualifier = <<>>, !.shadowedBy = Location(seen[ListedName(q)].skill)])
     /\ UNCHANGED <<seen, Skills>>

Keeps(s) ==
  ~listable(s) /\ Skills' = Append(Skills, s) /\ UNCHANGED <<seen, Shadowed>>

LEMMA AddsForms ==
  ASSUME TypeOK, NEW s, Adds(s)
  PROVE  Lists(s) \/ Shadows(s) \/ Keeps(s)
BY DEF Adds, Claim, Lists, Shadows, Keeps

LEMMA AddedWhere ==
  ASSUME TypeOK, NEW s, Adds(s)
  PROVE  \E a : /\ a.src = i /\ a.dir = cur.dir /\ a.file = s.file
                /\ \/ Skills' = Append(Skills, a) /\ UNCHANGED Shadowed
                   \/ Shadowed' = Append(Shadowed, a) /\ UNCHANGED Skills
<1>1. CASE Lists(s)
  BY <1>1, QualifiedSkill DEF Lists
<1>2. CASE Shadows(s)
  <2> DEFINE loc == Location(seen[ListedName(Qualified(s))].skill)
             t == [Qualified(s) EXCEPT !.qualifier = <<>>, !.shadowedBy = loc]
  <2>1. Shadowed' = Append(Shadowed, t) /\ UNCHANGED Skills
    BY <1>2 DEF Shadows
  <2>2. t = [Qualified(s) EXCEPT !.qualifier = <<>>, !.shadowedBy = loc]
    OBVIOUS
  <2> HIDE DEF t, loc
  <2>3. t.src = i /\ t.dir = cur.dir /\ t.file = s.file
    BY <2>2, QualifiedSkill DEF Skill
  <2> QED
    BY <2>1, <2>3
<1>3. CASE Keeps(s)
  BY <1>3 DEF Keeps, Adds
<1> QED
  BY <1>1, <1>2, <1>3, AddsForms

LEMMA AppendInOrder ==
  ASSUME NEW S, NEW q \in Seq(S), NEW a, InOrder(q), \A j \in DOMAIN q : Before(q[j], a)
  PROVE  InOrder(Append(q, a))
<1> DEFINE r == Append(q, a)
<1>1. /\ DOMAIN q = 1..Len(q) /\ DOMAIN r = 1..(Len(q) + 1) /\ Len(q) \in Nat
      /\ \A k \in DOMAIN q : r[k] = q[k]
      /\ r[Len(q) + 1] = a
  OBVIOUS
<1> HIDE DEF r
<1>2. \A j, k \in DOMAIN q : j < k => Before(q[j], q[k])
  BY DEF InOrder
<1>3. \A j, k \in DOMAIN r : j < k => Before(r[j], r[k])
  BY <1>1, <1>2
<1> QED
  BY <1>3 DEF InOrder, r

LEMMA SkillsPastStep ==
  ASSUME TypeOK, SearchInv, [Next]_vars
  PROVE  SkillsPast'
<1>1. \A s \in SkillSet \cup ShadowedSet : Past(s.src, s.dir) /\ Past(s.src, s.dir)'
  <2>1. ASSUME NEW k, NEW d, Past(k, d) PROVE Past(k, d)'
    BY <2>1, PastStays DEF SearchInv
  <2>2. \A s \in SkillSet \cup ShadowedSet : Past(s.src, s.dir)
    BY DEF SearchInv, SkillsPast
  <2> QED
    BY <2>1, <2>2
<1>2. CASE UNCHANGED <<Skills, Shadowed>>
  BY <1>1, <1>2 DEF SearchInv, SkillsPast, InOrder, SkillSet, ShadowedSet, Before
<1>3. ASSUME NEW s, Adds(s) PROVE SkillsPast'
  <2>1. PICK a : /\ a.src = i /\ a.dir = cur.dir
                 /\ \/ Skills' = Append(Skills, a) /\ UNCHANGED Shadowed
                    \/ Shadowed' = Append(Shadowed, a) /\ UNCHANGED Skills
    BY <1>3, AddedWhere
  <2>2. Leaves /\ Visiting
    BY <1>3 DEF Adds, Leaves
  <2>3. \/ SkillSet' = SkillSet \cup {a} /\ UNCHANGED ShadowedSet
        \/ ShadowedSet' = ShadowedSet \cup {a} /\ UNCHANGED SkillSet
    BY <1>3, <2>1, AddedSets
  <2>4. Past(a.src, a.dir)' /\ ~Past(a.src, a.dir)
    BY <2>1, <2>2, HerePast DEF SearchInv
  <2>5. \A t \in SkillSet \cup ShadowedSet : Before(t, a) /\ (t.src # a.src \/ t.dir # a.dir)
    BY <1>1, <2>1, <2>2, <2>4, BeforeHere
  <2>6. \A t \in SkillSet' \cup ShadowedSet' : Past(t.src, t.dir)'
    BY <1>1, <2>3, <2>4
  <2>7. \A t \in SkillSet', u \in ShadowedSet' : t.src # u.src \/ t.dir # u.dir
    BY <2>3, <2>5 DEF SearchInv, SkillsPast
  <2>8. InOrder(Skills') /\ InOrder(Shadowed')
    <3>1. /\ Skills \in Seq(Skill) /\ InOrder(Skills)
          /\ Shadowed \in Seq(Skill) /\ InOrder(Shadowed)
      BY DEF SearchInv, SkillsPast, TypeOK
    <3>2. /\ \A j \in DOMAIN Skills : Before(Skills[j], a)
          /\ \A j \in DOMAIN Shadowed : Before(Shadowed[j], a)
      BY <2>5 DEF SkillSet, ShadowedSet
    <3> QED
      BY <2>1, <3>1, <3>2, AppendInOrder
  <2> QED
    BY <2>6, <2>7, <2>8 DEF SkillsPast, InOrder, Before
<1> QED
  BY <1>2, <1>3, CatalogStep DEF SearchInv

LEMMA SearchInit ==
  ASSUME Init
  PROVE  SearchInv
<1>1. Frontier
  BY DEF Init, Frontier, Visiting, NoEntry
<1>2. Apart
  BY DEF Init, Apart, Begun, Searching
<1>3. ProblemsPast /\ SkillsPast
  BY DEF Init, ProblemsPast, SkillsPast, InOrder, SkillSet, ShadowedSet
<1> QED
  BY <1>1, <1>2, <1>3 DEF SearchInv

LEMMA SearchStep ==
  ASSUME TypeOK, SearchInv, [Next]_vars
  PROVE  SearchInv'
<1>1. Frontier'
  BY FrontierStep DEF SearchInv
<1>2. Apart'
  BY ApartStep DEF SearchInv
<1>3. ProblemsPast' /\ SkillsPast'
  BY ProblemsPastStep, SkillsPastStep
<1> QED
  BY <1>1, <1>2, <1>3 DEF SearchInv

(* The search goes forward through sources with locations of their own,    *)
(* and the catalog is of its past (discover.go:64-84, 94-120).             *)
THEOREM SearchGoesForward == Spec => []SearchInv
<1>1. TypeOK /\ SearchInv /\ [Next]_vars => SearchInv'
  BY SearchStep
<1> QED
  BY <1>1, SearchInit, TypeCorrect, PTL DEF Spec

(* No two skills of a catalog have one location, so that a location names  *)
(* the skill meant, for any sources (discover.go:48-50, 64-70).            *)
THEOREM LocationsDistinctAlways == Spec => []LocationsDistinct
<1>1. ASSUME TypeOK, SearchInv PROVE LocationsDistinct
  <2>1. \A s, t \in SkillSet \cup ShadowedSet :
          Location(s) = Location(t) => s.src = t.src /\ s.dir = t.dir
    <3> SUFFICES ASSUME NEW s \in SkillSet \cup ShadowedSet, NEW t \in SkillSet \cup ShadowedSet,
                        Location(s) = Location(t)
                 PROVE  s.src = t.src /\ s.dir = t.dir
      OBVIOUS
    <3>1. Begun(s.src) /\ Begun(t.src)
      BY <1>1, PastBegun DEF SearchInv, SkillsPast
    <3> QED
      BY <1>1, <3>1, LocationTells DEF Location, SearchInv
  <2>2. ASSUME NEW q \in Seq(Skill), InOrder(q),
               \A k \in DOMAIN q : q[k] \in SkillSet \cup ShadowedSet
        PROVE  \A j, k \in DOMAIN q : Location(q[j]) = Location(q[k]) => j = k
    <3>1. ASSUME NEW j \in DOMAIN q, NEW k \in DOMAIN q, Location(q[j]) = Location(q[k])
          PROVE  ~Before(q[j], q[k]) /\ ~Before(q[k], q[j])
      <4>1. q[j].src = q[k].src /\ q[j].dir = q[k].dir
        BY <2>1, <2>2, <3>1
      <4>2. q[j] \in Skill /\ q[k] \in Skill
        BY <2>2
      <4>3. q[j].src \in Nat /\ q[j].dir \in Nat
        <5>1. sources \in Seq(Source) /\ DOMAIN sources \subseteq Nat
          BY <1>1, SourcesAssumption DEF TypeOK
        <5> QED
          BY <4>2, <5>1, DirsAssumption DEF Skill
      <4> QED
        BY <4>1, <4>3 DEF Before
    <3>2. \A j, k \in DOMAIN q : j = k \/ j < k \/ k < j
      BY <2>2
    <3> QED
      BY <2>2, <3>1, <3>2 DEF InOrder
  <2>3. \A s \in SkillSet, t \in ShadowedSet : Location(s) # Location(t)
    BY <1>1, <2>1 DEF SearchInv, SkillsPast
  <2>4. /\ Skills \in Seq(Skill) /\ InOrder(Skills)
        /\ Shadowed \in Seq(Skill) /\ InOrder(Shadowed)
    BY <1>1 DEF SearchInv, SkillsPast, TypeOK
  <2>5. /\ \A k \in DOMAIN Skills : Skills[k] \in SkillSet \cup ShadowedSet
        /\ \A k \in DOMAIN Shadowed : Shadowed[k] \in SkillSet \cup ShadowedSet
    BY DEF SkillSet, ShadowedSet
  <2> QED
    BY <2>2, <2>3, <2>4, <2>5 DEF LocationsDistinct
<1> QED
  BY <1>1, SearchGoesForward, TypeCorrect, PTL

(* What Problems says of a location stays said: later steps report on      *)
(* locations it holds nothing of (discover.go:49-50).                      *)
THEOREM ProblemsStandAlways == Spec => ProblemsStand
<1> DEFINE Stand == \A l \in DOMAIN Problems :
                      l \in DOMAIN Problems' /\ Problems'[l] = Problems[l]
<1>1. ASSUME TypeOK, SearchInv, [Next]_vars PROVE [Stand]_vars
  <2>1. CASE UNCHANGED Problems
    BY <2>1
  <2>2. ASSUME NEW g, Reports(g) PROVE Stand
    <3>1. PICK ps : Problems' = Put(Problems, HereLocation(g), ps)
      BY <2>2 DEF Reports
    <3>2. HereLocation(g) \notin DOMAIN Problems
      BY <1>1, <2>2, HereUnreported DEF Reports
    <3> QED
      BY <3>1, <3>2 DEF Put
  <2> QED
    BY <1>1, <2>1, <2>2, CatalogStep DEF SearchInv
<1> QED
  BY <1>1, SearchGoesForward, TypeCorrect, PTL DEF Spec, ProblemsStand

(* A directory in which a skill file was found ends up as one more skill,  *)
(* or as the error of that file, also when it is edited away in between    *)
(* (discover.go:44-45, 99-103).                                            *)
THEOREM NothingVanishesAlways == Spec => NothingVanishes
<1> DEFINE Kept == cur.found # NoFile /\ cur' = NoEntry =>
                     \/ Len(Skills') + Len(Shadowed') = Len(Skills) + Len(Shadowed) + 1
                     \/ HereLocation(cur.found) \in DOMAIN Problems'
<1>1. ASSUME TypeOK, SearchInv, [Next]_vars PROVE [Kept]_vars
  <2> SUFFICES ASSUME cur.found # NoFile, cur' = NoEntry PROVE Kept
    OBVIOUS
  <2>1. pc \in {"load", "read"} /\ cur' # cur
    BY <1>1 DEF SearchInv, Frontier, NoEntry
  <2>2. ASSUME NEW s, Adds(s)
        PROVE  Len(Skills') + Len(Shadowed') = Len(Skills) + Len(Shadowed) + 1
    <3>1. PICK a : \/ Skills' = Append(Skills, a) /\ UNCHANGED Shadowed
                   \/ Shadowed' = Append(Shadowed, a) /\ UNCHANGED Skills
      BY <1>1, <2>2, AddedWhere
    <3> QED
      BY <1>1, <3>1 DEF TypeOK
  <2>3. ASSUME Failed(cur.found) PROVE HereLocation(cur.found) \in DOMAIN Problems'
    BY <2>3 DEF Failed, Put
  <2>4. CASE LoadList
    <3>2. CASE CanList(Here) /\ SkillFileName(Here) # NoFile
      <4>1. cur' = [cur EXCEPT !.file = SkillFileName(Here)]
        BY <2>4, <3>2 DEF LoadList
      <4>2. cur'.found = cur.found
        BY <4>1 DEF NoEntry
      <4> QED
        BY <4>2 DEF NoEntry
    <3>3. CASE ~CanList(Here) /\ SkillFileName(Here) # NoFile
      <4>1. Leaves /\ Finish(SkillFileName(Here))
        BY <2>4, <3>3 DEF LoadList, Leaves, Visiting
      <4> QED
        BY <1>1, <2>1, <2>2, <2>3, <3>3, <4>1, FinishLeaves, SkillFileNames DEF SearchInv
    <3>4. CASE SkillFileName(Here) = NoFile
      BY <2>3, <2>4, <3>4 DEF LoadList
    <3> QED
      BY <3>2, <3>3, <3>4
  <2>5. CASE LoadRead
    <3>1. Leaves /\ Finish(cur.file) /\ cur.file \in skillFiles
      BY <1>1, <2>5 DEF LoadRead, Leaves, Visiting, TypeOK
    <3> QED
      BY <1>1, <2>1, <2>2, <2>3, <3>1, FinishLeaves DEF SearchInv
  <2> QED
    BY <1>1, <2>1, <2>4, <2>5 DEF Next, Discover, vars, RefuseSources, ReadRoot, Return,
       NextSource, VisitEntry, findSkillFile, Edit
<1> QED
  BY <1>1, SearchGoesForward, TypeCorrect, PTL DEF Spec, NothingVanishes

----------------------------------------------------------------------------
(* The claims.                                                             *)
LEMMA SourcesStay ==
  ASSUME [Next]_vars
  PROVE  UNCHANGED sources
BY DEF Next, Discover, vars, RefuseSources, ReadRoot, Return, NextSource, VisitEntry,
       findSkillFile, LoadList, LoadRead, Edit

LEMMA WantsKey ==
  ASSUME TypeOK, NEW s, Adds(s)
  PROVE  ListedName(Qualified(s)) =
           IF Qualifies(s) THEN sources[i].qualifier \o s.name ELSE s.name
<1>1. s.name \in Seq(Segments)
  BY DEF Adds, Skill, Names
<1>2. <<>> \o s.name = s.name
  BY <1>1
<1> QED
  BY <1>2, QualifiedSkill DEF ListedName

LEMMA HolderBefore ==
  ASSUME TypeOK, SearchInv, Held, Visiting, NEW n \in DOMAIN seen,
         NEW a, a.src = i, a.dir = cur.dir
  PROVE  Before(seen[n].skill, a)
<1>1. seen[n].skill \in SkillSet
  BY DEF Held, ListedSet
<1> QED
  BY <1>1, BeforeHere DEF SearchInv, SkillsPast

LEMMA ListsClaims ==
  ASSUME TypeOK, SearchInv, ClaimInv, [Next]_vars, NEW s, Adds(s), Lists(s)
  PROVE  ClaimInv'
<1>1. PICK q, key : q = Qualified(s) /\ key = ListedName(q)
  OBVIOUS
<1>2. /\ key \notin DOMAIN seen
      /\ seen' = Put(seen, key, [source |-> i, skill |-> q])
      /\ Skills' = Append(Skills, q) /\ UNCHANGED Shadowed
      /\ listable(s)
  BY <1>1 DEF Lists
<1>3. /\ q.src = i /\ q.dir = cur.dir /\ q.name = s.name
      /\ q.description = s.description
      /\ q.qualifier = IF Qualifies(s) THEN sources[i].qualifier ELSE <<>>
      /\ key = IF Qualifies(s) THEN sources[i].qualifier \o s.name ELSE s.name
  BY <1>1, QualifiedSkill, WantsKey
<1>4. listable(q)
  BY <1>2, <1>3 DEF listable
<1>5. UNCHANGED sources /\ Visiting /\ i \in Nat
  BY SourcesStay DEF Adds, Leaves, TypeOK
<1>6. /\ DOMAIN seen' = DOMAIN seen \cup {key}
      /\ \A n \in DOMAIN seen : seen'[n] = seen[n]
      /\ seen'[key].source = i /\ seen'[key].skill = q
  BY <1>2 DEF Put
<1>7. ListedSet' = ListedSet \cup {q} /\ UNCHANGED ShadowedSet
  <2>1. SkillSet' = SkillSet \cup {q} /\ UNCHANGED ShadowedSet
    <3>1. /\ DOMAIN Skills' = DOMAIN Skills \cup {Len(Skills) + 1}
          /\ \A k \in DOMAIN Skills : Skills'[k] = Skills[k]
          /\ Skills'[Len(Skills) + 1] = q
      BY <1>2 DEF TypeOK
    <3> QED
      BY <1>2, <3>1 DEF SkillSet, ShadowedSet
  <2> QED
    BY <1>4, <2>1 DEF ListedSet, listable
<1>8. \A t \in Found : (Late(t)' <=> Late(t)) /\ Wanted(t)' = Wanted(t)
  BY <1>5, <1>6 DEF ClaimInv, FirstHolds, Late, Wanted
<1>9. (Late(q)' <=> Qualifies(s)) /\ Wanted(q)' = key
  BY <1>2, <1>3, <1>5, <1>6 DEF Late, Wanted, Qualifies
<1>10. q.name \in DOMAIN seen' /\ AtOrBefore(seen'[q.name].skill, q)
  <2>1. CASE Qualifies(s)
    <3>1. q.name \in DOMAIN seen
      BY <1>3, <2>1 DEF Qualifies
    <3>2. Before(seen[q.name].skill, q)
      BY <1>3, <1>5, <3>1, HolderBefore DEF ClaimInv
    <3> QED
      BY <1>6, <3>1, <3>2 DEF AtOrBefore
  <2>2. CASE ~Qualifies(s)
    BY <1>3, <1>6, <2>2 DEF AtOrBefore
  <2> QED
    BY <2>1, <2>2
<1>11. Held'
  BY <1>1, <1>3, <1>6, <1>7 DEF ClaimInv, Held, ListedName
<1>12. FirstHolds'
  <2>1. \A t \in Found' : t \in Found \/ t = q
    BY <1>7 DEF Found
  <2>2. \A t \in Found : /\ t.name \in DOMAIN seen' /\ Wanted(t)' \in DOMAIN seen'
                         /\ AtOrBefore(seen'[t.name].skill, t)
                         /\ AtOrBefore(seen'[Wanted(t)'].skill, t)
    BY <1>6, <1>8 DEF ClaimInv, FirstHolds
  <2>3. /\ Wanted(q)' \in DOMAIN seen'
        /\ AtOrBefore(seen'[Wanted(q)'].skill, q)
    BY <1>6, <1>9 DEF AtOrBefore
  <2> QED
    BY <1>10, <2>1, <2>2, <2>3 DEF FirstHolds, AtOrBefore, Before
<1>13. ListedHolds'
  <2>1. \A t \in ListedSet : seen'[Wanted(t)'].skill = t
    BY <1>6, <1>8 DEF ClaimInv, FirstHolds, ListedHolds, Found
  <2>2. \A t \in ListedSet :
          t.qualifier = IF Late(t)' THEN sources'[t.src].qualifier ELSE <<>>
    BY <1>5, <1>8 DEF ClaimInv, ListedHolds, Found
  <2>3. seen'[Wanted(q)'].skill = q
    BY <1>6, <1>9
  <2>4. q.qualifier = IF Late(q)' THEN sources'[q.src].qualifier ELSE <<>>
    BY <1>3, <1>5, <1>9
  <2> QED
    BY <1>7, <2>1, <2>2, <2>3, <2>4 DEF ListedHolds
<1>14. ShadowedLoses'
  <2>1. \A t \in ShadowedSet : seen'[Wanted(t)'] = seen[Wanted(t)]
    BY <1>6, <1>8 DEF ClaimInv, FirstHolds, Found
  <2> QED
    BY <1>5, <1>7, <2>1 DEF ClaimInv, ShadowedLoses, Location, listable
<1> QED
  BY <1>11, <1>12, <1>13, <1>14 DEF ClaimInv

LEMMA ShadowsClaims ==
  ASSUME TypeOK, SearchInv, ClaimInv, [Next]_vars, NEW s, Adds(s), Shadows(s)
  PROVE  ClaimInv'
<1>1. PICK q, key, w, t :
        /\ q = Qualified(s) /\ key = ListedName(q) /\ w = seen[key].skill
        /\ t = [q EXCEPT !.qualifier = <<>>, !.shadowedBy = Location(w)]
  OBVIOUS
<1>2. /\ key \in DOMAIN seen /\ listable(s)
      /\ Shadowed' = Append(Shadowed, t)
      /\ UNCHANGED <<seen, Skills>>
  BY <1>1 DEF Shadows
<1>3. key = IF Qualifies(s) THEN sources[i].qualifier \o s.name ELSE s.name
  BY <1>1, WantsKey
<1>4. /\ t.src = i /\ t.dir = cur.dir /\ t.name = s.name
      /\ t.description = s.description
      /\ t.qualifier = <<>> /\ t.shadowedBy = Location(w)
  BY <1>1, QualifiedSkill DEF Skill
<1>5. listable(t)
  BY <1>2, <1>4 DEF listable
<1>6. UNCHANGED sources /\ Visiting /\ i \in Nat
  BY SourcesStay DEF Adds, Leaves, TypeOK
<1>7. UNCHANGED ListedSet /\ ShadowedSet' = ShadowedSet \cup {t}
  <2>1. /\ DOMAIN Shadowed' = DOMAIN Shadowed \cup {Len(Shadowed) + 1}
        /\ \A k \in DOMAIN Shadowed : Shadowed'[k] = Shadowed[k]
        /\ Shadowed'[Len(Shadowed) + 1] = t
    BY <1>2 DEF TypeOK
  <2> QED
    BY <1>2, <2>1 DEF ListedSet, SkillSet, ShadowedSet, listable
<1>8. \A u : (Late(u)' <=> Late(u)) /\ Wanted(u)' = Wanted(u) /\ Location(u)' = Location(u)
  BY <1>2, <1>6 DEF Late, Wanted, Location
<1>9. s.name \in DOMAIN seen /\ (Late(t) <=> Qualifies(s)) /\ Wanted(t) = key
  BY <1>2, <1>3, <1>4 DEF Late, Wanted, Qualifies
<1>10. AtOrBefore(seen[t.name].skill, t) /\ AtOrBefore(seen[key].skill, t)
  BY <1>2, <1>4, <1>6, <1>9, HolderBefore DEF ClaimInv, AtOrBefore
<1>11. Held'
  BY <1>2, <1>7 DEF ClaimInv, Held, ListedName
<1>12. FirstHolds'
  <2>1. \A u \in Found' : u \in Found \/ u = t
    BY <1>7 DEF Found
  <2> QED
    BY <1>2, <1>4, <1>8, <1>9, <1>10, <2>1 DEF ClaimInv, FirstHolds, AtOrBefore, Before
<1>13. ListedHolds'
  BY <1>2, <1>6, <1>7, <1>8 DEF ClaimInv, ListedHolds
<1>14. ShadowedLoses'
  <2>1. \A u \in ShadowedSet : /\ listable(u) /\ u.qualifier = <<>>
                               /\ u.shadowedBy = Location(seen[Wanted(u)].skill)
    BY DEF ClaimInv, ShadowedLoses
  <2>2. t.shadowedBy = Location(seen[Wanted(t)].skill)
    BY <1>1, <1>4, <1>9
  <2> QED
    BY <1>2, <1>4, <1>5, <1>7, <1>8, <2>1, <2>2 DEF ShadowedLoses, listable
<1> QED
  BY <1>11, <1>12, <1>13, <1>14 DEF ClaimInv

LEMMA SameClaims ==
  ASSUME ClaimInv, UNCHANGED <<sources, seen>>, UNCHANGED <<ListedSet, ShadowedSet>>
  PROVE  ClaimInv'
<1>1. \A u : (Late(u)' <=> Late(u)) /\ Wanted(u)' = Wanted(u) /\ Location(u)' = Location(u)
  BY DEF Late, Wanted, Location
<1>2. Held'
  BY DEF ClaimInv, Held, ListedName
<1>3. FirstHolds'
  BY <1>1 DEF ClaimInv, FirstHolds, Found, AtOrBefore, Before
<1>4. ListedHolds'
  BY <1>1 DEF ClaimInv, ListedHolds
<1>5. ShadowedLoses'
  BY <1>1 DEF ClaimInv, ShadowedLoses, listable
<1> QED
  BY <1>2, <1>3, <1>4, <1>5 DEF ClaimInv

LEMMA KeepsClaims ==
  ASSUME TypeOK, ClaimInv, [Next]_vars, NEW s, Keeps(s)
  PROVE  ClaimInv'
<1>1. /\ DOMAIN Skills' = DOMAIN Skills \cup {Len(Skills) + 1}
      /\ \A k \in DOMAIN Skills : Skills'[k] = Skills[k]
      /\ Skills'[Len(Skills) + 1] = s
      /\ ~listable(s)
  BY DEF Keeps, TypeOK
<1>2. SkillSet' = SkillSet \cup {s}
  BY <1>1 DEF SkillSet
<1>3. UNCHANGED <<ListedSet, ShadowedSet>>
  BY <1>1, <1>2 DEF ListedSet, ShadowedSet, listable, Keeps
<1> QED
  BY <1>3, SourcesStay, SameClaims DEF Keeps

LEMMA ClaimStep ==
  ASSUME TypeOK, SearchInv, ClaimInv, [Next]_vars
  PROVE  ClaimInv'
<1>1. CASE UNCHANGED <<seen, Skills, Shadowed>>
  <2>1. UNCHANGED <<ListedSet, ShadowedSet>>
    BY <1>1 DEF ListedSet, ShadowedSet, SkillSet, listable
  <2> QED
    BY <1>1, <2>1, SourcesStay, SameClaims
<1>2. ASSUME NEW s, Adds(s) PROVE ClaimInv'
  BY <1>2, AddsForms, ListsClaims, ShadowsClaims, KeepsClaims
<1> QED
  BY <1>1, <1>2, CatalogStep DEF SearchInv

LEMMA ClaimInit ==
  ASSUME Init
  PROVE  ClaimInv
<1>1. SkillSet = {} /\ ShadowedSet = {} /\ DOMAIN seen = {}
  BY DEF Init, SkillSet, ShadowedSet
<1> QED
  BY <1>1 DEF ClaimInv, Held, FirstHolds, ListedHolds, ShadowedLoses, Found, ListedSet

(* Each name is held by the first skill that wanted it, each listed skill  *)
(* holds the name it is listed under, and each shadowed one names the      *)
(* holder of the name it wanted (discover.go:104-120).                     *)
THEOREM ClaimsKept == Spec => []ClaimInv
<1>1. TypeOK /\ SearchInv /\ ClaimInv /\ [Next]_vars => ClaimInv'
  BY ClaimStep
<1> QED
  BY <1>1, ClaimInit, SearchGoesForward, TypeCorrect, PTL DEF Spec

----------------------------------------------------------------------------
(* What the claims come to.                                                *)
LEMMA SameTail ==
  ASSUME NEW S, NEW a \in Seq(S), NEW b \in Seq(S), NEW c \in Seq(S), NEW d \in Seq(S),
         Len(b) = 1, Len(d) = 1, a \o b = c \o d
  PROVE  a = c /\ b = d
<1>1. Len(a) = Len(c)
  <2>1. Len(a \o b) = Len(a) + Len(b) /\ Len(c \o d) = Len(c) + Len(d)
    BY ConcatProperties, Zenon
  <2>2. Len(a) \in Nat /\ Len(c) \in Nat
    BY LenProperties, Zenon
  <2>3. Len(a) + 1 = Len(c) + 1
    BY <2>1, Zenon
  <2> QED
    BY <2>2, <2>3
<1>2. \A k \in 1..Len(a) : a[k] = c[k]
  <2>1. \A k \in 1..Len(a) : (a \o b)[k] = a[k] /\ (c \o d)[k] = c[k]
    BY <1>1
  <2> QED
    BY <2>1
<1>3. b[1] = d[1]
  <2>1. (a \o b)[Len(a) + 1] = b[1] /\ (c \o d)[Len(a) + 1] = d[1]
    BY <1>1, ConcatProperties
  <2> QED
    BY <2>1
<1> QED
  BY <1>1, <1>2, <1>3, SeqEqual

LEMMA FoundTypes ==
  ASSUME TypeOK, ClaimInv, NEW t \in Found
  PROVE  /\ t.name \in Seq(Segments) /\ Len(t.name) = 1
         /\ t.src \in Nat /\ t.dir \in Nat
         /\ t.qualifier \in Seq(Segments)
         /\ sources[t.src].qualifier \in Seq(Segments)
<1>1. t \in Skill /\ listable(t)
  BY DEF Found, ListedSet, SkillSet, ShadowedSet, ClaimInv, ShadowedLoses, TypeOK
<1>2. sources \in Seq(Source)
  BY SourcesAssumption DEF TypeOK
<1>3. t.name \in Seq(Segments) /\ t.src \in DOMAIN sources /\ t.dir \in Nat
      /\ t.qualifier \in Seq(Segments)
  BY <1>1, DirsAssumption DEF Skill, Names
<1>4. Len(t.name) = 1
  <2>1. Len(t.name) \in Nat \ {0}
    BY <1>1, <1>3, EmptySeq, Zenon DEF listable
  <2>2. \A n \in Nat \ {0} : ~(n > 1) => n = 1
    OBVIOUS
  <2>3. ~(Len(t.name) > 1)
    BY <1>1, Zenon DEF listable, HasColon
  <2> QED
    BY <2>1, <2>2, <2>3, Zenon
<1>5. sources[t.src].qualifier \in Seq(Segments) /\ t.src \in Nat
  <2>1. sources[t.src] \in Source /\ DOMAIN sources = 1..Len(sources)
    BY <1>2, <1>3
  <2> QED
    BY <1>3, <2>1 DEF Source, Names
<1> QED
  BY <1>3, <1>4, <1>5

LEMMA BeforeOrder ==
  ASSUME TypeOK, ClaimInv, NEW s \in Found, NEW t \in Found, Before(s, t)
  PROVE  ~Before(t, s) /\ s # t
BY FoundTypes DEF Before

(* Who holds a name: a name of one segment is its holder's own.            *)
LEMMA Holder ==
  ASSUME TypeOK, ClaimInv, NEW n \in DOMAIN seen, NEW w, w = seen[n].skill
  PROVE  /\ w \in ListedSet /\ w \in Found
         /\ ListedName(w) = n /\ seen[n].source = w.src
         /\ Len(n) = 1 => w.qualifier = <<>> /\ w.name = n
<1>1. w \in ListedSet /\ w \in Found /\ ListedName(w) = n /\ seen[n].source = w.src
  BY DEF ClaimInv, Held, Found
<1>2. /\ w.name \in Seq(Segments) /\ Len(w.name) = 1 /\ w.qualifier \in Seq(Segments)
  BY <1>1, FoundTypes
<1>3. n = w.qualifier \o w.name /\ Len(n) = Len(w.qualifier) + 1 /\ Len(w.qualifier) \in Nat
  <2>1. Len(w.qualifier \o w.name) = Len(w.qualifier) + Len(w.name)
    BY <1>2, ConcatProperties, Zenon
  <2>2. Len(w.qualifier) \in Nat
    BY <1>2, LenProperties, Zenon
  <2> QED
    BY <1>1, <1>2, <2>1, <2>2, Zenon DEF ListedName
<1>4. Len(n) = 1 => w.qualifier = <<>>
  <2>1. \A l \in Nat \ {0} : l + 1 # 1
    OBVIOUS
  <2> QED
    BY <1>2, <1>3, <2>1, EmptySeq, Zenon
<1>5. <<>> \o w.name = w.name
  BY <1>2, ConcatEmptySeq
<1> QED
  BY <1>1, <1>3, <1>4, <1>5

(* The first skill of a name holds it.                                     *)
LEMMA FirstOfName ==
  ASSUME TypeOK, ClaimInv, NEW s \in Found, NEW h, h = seen[s.name].skill
  PROVE  /\ h \in ListedSet /\ h \in Found /\ h.name = s.name /\ h.qualifier = <<>>
         /\ h.src <= s.src
         /\ \A t \in Found : t.name = s.name => AtOrBefore(h, t)
         /\ Late(s) <=> sources[s.src].qualifier # <<>> /\ h.src < s.src
<1>1. s.name \in DOMAIN seen /\ AtOrBefore(h, s)
  BY DEF ClaimInv, FirstHolds
<1>2. /\ h \in ListedSet /\ h \in Found /\ h.name = s.name /\ h.qualifier = <<>>
      /\ seen[s.name].source = h.src
  BY <1>1, FoundTypes, Holder
<1>3. h.src <= s.src
  BY <1>1, <1>2, FoundTypes DEF AtOrBefore, Before
<1> QED
  BY <1>1, <1>2, <1>3 DEF ClaimInv, FirstHolds, Late

LEMMA LaterIsLate ==
  ASSUME TypeOK, ClaimInv, NEW s \in Found
  PROVE  Late(s) <=> /\ sources[s.src].qualifier # <<>>
                     /\ \E t \in Found : t.name = s.name /\ t.src < s.src
<1>1. PICK h : h = seen[s.name].skill
  OBVIOUS
<1>2. /\ h \in Found /\ h.name = s.name
      /\ \A t \in Found : t.name = s.name => AtOrBefore(h, t)
      /\ Late(s) <=> sources[s.src].qualifier # <<>> /\ h.src < s.src
  BY <1>1, FirstOfName
<1>3. ASSUME NEW t \in Found, t.name = s.name, t.src < s.src PROVE h.src < s.src
  <2>1. h.src \in Nat /\ t.src \in Nat /\ s.src \in Nat
    BY <1>2, FoundTypes
  <2> QED
    BY <1>2, <1>3, <2>1 DEF AtOrBefore, Before
<1> QED
  BY <1>2, <1>3

(* The name a listed skill holds is the one it wanted.                     *)
LEMMA ListedWanted ==
  ASSUME TypeOK, ClaimInv, NEW s \in ListedSet
  PROVE  /\ ListedName(s) = Wanted(s) /\ Wanted(s) \in DOMAIN seen
         /\ seen[Wanted(s)].skill = s
<1>1. s \in Found
  BY DEF Found
<1>2. s.name \in Seq(Segments) /\ <<>> \o s.name = s.name
  BY <1>1, FoundTypes
<1> QED
  BY <1>1, <1>2 DEF ClaimInv, ListedHolds, FirstHolds, ListedName, Wanted

(* A listed name with a colon was made by Discover, of the qualifier of    *)
(* the skill's source and a name an earlier source holds, for any sources  *)
(* (discover.go:134-140, 205-208).                                         *)
THEOREM ColonMeansQualifiedAlways == Spec => []ColonMeansQualified
<1>1. ASSUME TypeOK, ClaimInv PROVE ColonMeansQualified
  <2> SUFFICES ASSUME NEW s \in ListedSet, Len(ListedName(s)) > 1
               PROVE  /\ s.qualifier = sources[s.src].qualifier
                      /\ Len(s.name) = 1
                      /\ \E b \in ListedSet : ListedName(b) = s.name /\ b.src < s.src
    BY DEF ColonMeansQualified
  <2>1. s \in Found /\ ListedName(s) = Wanted(s)
    BY <1>1, ListedWanted DEF Found
  <2>2. Len(s.name) = 1
    BY <1>1, <2>1, FoundTypes
  <2>3. Late(s)
    <3> SUFFICES ASSUME ~Late(s) PROVE FALSE
      OBVIOUS
    <3>1. ListedName(s) = s.name
      BY <2>1 DEF Wanted
    <3>2. ~(1 > 1)
      OBVIOUS
    <3> QED
      BY <2>2, <3>1, <3>2, Zenon
  <2>4. PICK h : h = seen[s.name].skill
    OBVIOUS
  <2>5. s.name \in DOMAIN seen /\ s.qualifier = sources[s.src].qualifier
    BY <1>1, <2>1, <2>3 DEF ClaimInv, FirstHolds, ListedHolds
  <2>6. h \in ListedSet /\ ListedName(h) = s.name
    BY <1>1, <2>4, <2>5, Holder
  <2>7. h.src < s.src
    BY <1>1, <2>1, <2>3, <2>4, FirstOfName
  <2> QED
    BY <2>2, <2>5, <2>6, <2>7
<1> QED
  BY <1>1, ClaimsKept, TypeCorrect, PTL

(* A shadowed skill names the skill that holds the name it wanted, which   *)
(* was found before it, for any sources (skill.go:98-102,                  *)
(* discover.go:111-119).                                                   *)
THEOREM ShadowedByHolderAlways == Spec => []ShadowedByHolder
<1>1. ASSUME TypeOK, SearchInv, ClaimInv PROVE ShadowedByHolder
  <2> SUFFICES ASSUME NEW s \in ShadowedSet
               PROVE  \E w \in ListedSet :
                        /\ Location(w) = s.shadowedBy
                        /\ Before(w, s)
                        /\ \/ ListedName(w) = s.name
                           \/ /\ ListedName(w) = sources[s.src].qualifier \o s.name
                              /\ \E b \in ListedSet : ListedName(b) = s.name /\ b.src < s.src
                        /\ ListedName(w) = s.name =>
                             w.src = s.src \/ sources[s.src].qualifier = <<>>
    BY DEF ShadowedByHolder
  <2>1. PICK w, h : w = seen[Wanted(s)].skill /\ h = seen[s.name].skill
    OBVIOUS
  <2>2. /\ s \in Found /\ s.name \in DOMAIN seen /\ Wanted(s) \in DOMAIN seen
        /\ AtOrBefore(w, s) /\ s.shadowedBy = Location(w)
    BY <1>1, <2>1 DEF Found, ClaimInv, FirstHolds, ShadowedLoses
  <2>3. /\ w \in ListedSet /\ ListedName(w) = Wanted(s) /\ w \in Found
        /\ h \in ListedSet /\ ListedName(h) = s.name
    BY <1>1, <2>1, <2>2, Holder
  <2>4. Before(w, s)
    <3>1. w # s
      BY <1>1, <2>3 DEF SearchInv, SkillsPast, ListedSet
    <3> QED
      BY <2>2, <3>1 DEF AtOrBefore
  <2>5. h.src <= s.src /\ (Late(s) <=> sources[s.src].qualifier # <<>> /\ h.src < s.src)
    BY <1>1, <2>1, <2>2, FirstOfName
  <2>6. CASE Late(s)
    <3>1. ListedName(w) = sources[s.src].qualifier \o s.name
      BY <2>3, <2>6 DEF Wanted
    <3>2. sources[s.src].qualifier \o s.name # s.name
      <4>1. s.name \in Seq(Segments) /\ sources[s.src].qualifier \in Seq(Segments)
        BY <1>1, <2>2, FoundTypes
      <4>2. sources[s.src].qualifier # <<>>
        BY <2>5, <2>6
      <4>3. \A a, b \in Seq(Segments) : a \o b = b => a = <<>>
        <5> SUFFICES ASSUME NEW a \in Seq(Segments), NEW b \in Seq(Segments), a \o b = b
                     PROVE  a = <<>>
          OBVIOUS
        <5> QED
          BY ConcatEqualIffEmpty
      <4> QED
        BY <4>1, <4>2, <4>3, Zenon
    <3> QED
      BY <2>2, <2>3, <2>4, <2>5, <2>6, <3>1, <3>2
  <2>7. CASE ~Late(s)
    <3>1. ListedName(w) = s.name /\ w = h
      BY <2>1, <2>3, <2>7 DEF Wanted
    <3>2. h.src \in Nat /\ s.src \in Nat
      BY <1>1, <2>2, <2>3, <3>1, FoundTypes
    <3>3. w.src = s.src \/ sources[s.src].qualifier = <<>>
      BY <2>5, <2>7, <3>1, <3>2
    <3> QED
      BY <2>2, <2>3, <2>4, <3>1, <3>3
  <2> QED
    BY <2>6, <2>7
<1> QED
  BY <1>1, ClaimsKept, SearchGoesForward, TypeCorrect, PTL

(* PathResolution speaks of the skills only; the claims say the same.      *)
BareOf(s) == \A t \in Found : Before(t, s) => t.name # s.name
LaterOf(s) ==
  /\ sources[s.src].qualifier # <<>>
  /\ \E t \in Found : t.name = s.name /\ t.src < s.src
FirstOf(s) ==
  \A t \in Found :
    /\ Before(t, s)
    /\ LaterOf(t)
    /\ t.name = s.name
    => sources[t.src].qualifier # sources[s.src].qualifier

LEMMA BareIsHolder ==
  ASSUME TypeOK, ClaimInv, NEW s \in Found
  PROVE  BareOf(s) <=> s = seen[s.name].skill
<1>1. PICK h : h = seen[s.name].skill
  OBVIOUS
<1>2. /\ h \in Found /\ h.name = s.name
      /\ \A t \in Found : t.name = s.name => AtOrBefore(h, t)
  BY <1>1, FirstOfName
<1>3. ASSUME BareOf(s) PROVE s = h
  BY <1>2, <1>3 DEF BareOf, AtOrBefore
<1>4. ASSUME s = h PROVE BareOf(s)
  BY <1>2, <1>4, BeforeOrder DEF BareOf, AtOrBefore
<1> QED
  BY <1>1, <1>3, <1>4

LEMMA FirstIsHolder ==
  ASSUME TypeOK, ClaimInv, NEW s \in Found, Late(s)
  PROVE  FirstOf(s) <=> s = seen[Wanted(s)].skill
<1>1. PICK w : w = seen[Wanted(s)].skill
  OBVIOUS
<1>2. /\ Wanted(s) = sources[s.src].qualifier \o s.name /\ Wanted(s) \in DOMAIN seen
      /\ AtOrBefore(w, s) /\ sources[s.src].qualifier # <<>>
  BY <1>1 DEF Wanted, Late, ClaimInv, FirstHolds
<1>3. w \in ListedSet /\ w \in Found /\ ListedName(w) = Wanted(s)
  BY <1>1, <1>2, Holder
<1>4. /\ s.name \in Seq(Segments) /\ Len(s.name) = 1
      /\ w.name \in Seq(Segments) /\ Len(w.name) = 1
      /\ w.qualifier \in Seq(Segments) /\ sources[s.src].qualifier \in Seq(Segments)
  BY <1>3, FoundTypes
<1>5. w.qualifier = sources[s.src].qualifier /\ w.name = s.name
  <2>1. w.qualifier \o w.name = sources[s.src].qualifier \o s.name
    BY <1>2, <1>3 DEF ListedName
  <2> QED
    <3>1. \A a, b, c, d \in Seq(Segments) :
            Len(b) = 1 /\ Len(d) = 1 /\ a \o b = c \o d => a = c /\ b = d
      BY SameTail, Zenon
    <3>2. PICK a, b : a = w.qualifier /\ b = w.name
      OBVIOUS
    <3>3. PICK c, d : c = sources[s.src].qualifier /\ d = s.name
      OBVIOUS
    <3>4. /\ a \in Seq(Segments) /\ b \in Seq(Segments) /\ c \in Seq(Segments)
          /\ d \in Seq(Segments) /\ Len(b) = 1 /\ Len(d) = 1 /\ a \o b = c \o d
      BY <1>4, <2>1, <3>2, <3>3
    <3>5. a = c /\ b = d
      BY <3>1, <3>4
    <3> QED
      BY <3>2, <3>3, <3>5
<1>6. Late(w) /\ sources[w.src].qualifier = sources[s.src].qualifier
  BY <1>2, <1>3, <1>5 DEF ClaimInv, ListedHolds
<1>7. ASSUME FirstOf(s) PROVE s = w
  BY <1>2, <1>3, <1>5, <1>6, <1>7, LaterIsLate DEF FirstOf, AtOrBefore, LaterOf
<1>8. ASSUME s = w PROVE FirstOf(s)
  <2> SUFFICES ASSUME NEW t \in Found, Before(t, s), LaterOf(t), t.name = s.name,
                      sources[t.src].qualifier = sources[s.src].qualifier
               PROVE  FALSE
    BY DEF FirstOf
  <2>1. Late(t) /\ Wanted(t) = Wanted(s)
    BY <1>2, LaterIsLate DEF LaterOf, Wanted
  <2>2. AtOrBefore(s, t)
    BY <1>1, <1>8, <2>1 DEF ClaimInv, FirstHolds
  <2> QED
    BY <2>2, BeforeOrder DEF AtOrBefore
<1> QED
  BY <1>1, <1>7, <1>8

(* The catalog resolves names as PATH does: the first skill of a name has  *)
(* it bare, the first of each later source's qualifier has it qualified,   *)
(* every other is shadowed, for any sources and trees, edited or not       *)
(* (discover.go:29-42, 104-120).                                           *)
THEOREM PathResolutionAlways == Spec => []PathResolution
<1>1. ASSUME TypeOK, SearchInv, ClaimInv PROVE PathResolution
  <2>1. ASSUME NEW s \in Found
        PROVE  /\ s \in ListedSet <=> BareOf(s) \/ (LaterOf(s) /\ FirstOf(s))
               /\ s.qualifier = IF s \in ListedSet /\ ~BareOf(s)
                                   THEN sources[s.src].qualifier ELSE <<>>
    <3>1. s \in ListedSet \/ s \in ShadowedSet
      BY DEF Found
    <3>2. LaterOf(s) <=> Late(s)
      BY <1>1, LaterIsLate DEF LaterOf
    <3>3. BareOf(s) <=> s = seen[s.name].skill
      BY <1>1, BareIsHolder
    <3>4. Late(s) => (FirstOf(s) <=> s = seen[Wanted(s)].skill)
      BY <1>1, FirstIsHolder
    <3>5. ~Late(s) => Wanted(s) = s.name
      BY DEF Wanted
    <3>6. /\ seen[s.name].skill \in ListedSet /\ seen[Wanted(s)].skill \in ListedSet
          /\ seen[s.name].skill.qualifier = <<>>
      BY <1>1, FirstOfName, Holder DEF ClaimInv, FirstHolds
    <3>7. s \in ListedSet => /\ s = seen[Wanted(s)].skill
                            /\ s.qualifier = IF Late(s) THEN sources[s.src].qualifier ELSE <<>>
      BY <1>1 DEF ClaimInv, ListedHolds
    <3>8. s \notin ListedSet => s.qualifier = <<>>
      BY <1>1, <3>1 DEF ClaimInv, ShadowedLoses
    <3> QED
      BY <3>2, <3>3, <3>4, <3>5, <3>6, <3>7, <3>8
  <2> QED
    BY <2>1 DEF PathResolution, BareOf, LaterOf, FirstOf, Found
<1> QED
  BY <1>1, ClaimsKept, SearchGoesForward, TypeCorrect, PTL

----------------------------------------------------------------------------
(* Trees nobody edits: what the search has passed is in the catalog.       *)
Still == sources \notin EditedLists
Passed(k, d) ==
  k < i \/ (k = i /\ Searching /\ d \notin DOMAIN todo /\ ~(Visiting /\ d = cur.dir))
Holds(k, d) == CanList(disk[k][d]) /\ DOMAIN disk[k][d].files # {}
InCatalog(k, d) ==
  \/ \E s \in SkillSet \cup ShadowedSet : s.src = k /\ s.dir = d
  \/ \E f \in Spellings : <<sources[k].location, d, f>> \in DOMAIN Problems

TodoTrue == Searching => \A d \in DOMAIN todo : todo[d] = disk[i][d].kind
FileTrue == pc = "read" /\ CanList(Here) => cur.file \in DOMAIN Here.files
PassedKept ==
  \A k \in 1..Len(sources), d \in Dirs : Passed(k, d) /\ Holds(k, d) => InCatalog(k, d)
Spelled ==
  \A s \in SkillSet \cup ShadowedSet :
    CanList(disk[s.src][s.dir]) => s.file \in DOMAIN disk[s.src][s.dir].files

StillInv ==
  /\ pc = "done" => i > Len(sources)
  /\ Still => TodoTrue /\ FileTrue /\ PassedKept /\ Spelled

LEMMA StillDisk ==
  ASSUME Still, [Next]_vars
  PROVE  UNCHANGED <<sources, disk>> /\ Still'
BY DEF Still, Next, Discover, vars, RefuseSources, ReadRoot, Return, NextSource, VisitEntry,
       findSkillFile, LoadList, LoadRead, Edit

(* The catalog only grows, by what its new entry is.                       *)
LEMMA CatalogGrows ==
  ASSUME TypeOK, SearchInv, [Next]_vars
  PROVE  /\ SkillSet \cup ShadowedSet \subseteq (SkillSet \cup ShadowedSet)'
         /\ DOMAIN Problems \subseteq DOMAIN Problems'
<1>1. SkillSet \cup ShadowedSet \subseteq (SkillSet \cup ShadowedSet)'
  <2>1. CASE UNCHANGED <<Skills, Shadowed>>
    BY <2>1 DEF SkillSet, ShadowedSet
  <2>2. ASSUME NEW s, Adds(s)
        PROVE  SkillSet \cup ShadowedSet \subseteq (SkillSet \cup ShadowedSet)'
    <3>1. PICK a : \/ Skills' = Append(Skills, a) /\ UNCHANGED Shadowed
                   \/ Shadowed' = Append(Shadowed, a) /\ UNCHANGED Skills
      BY <2>2, AddedWhere
    <3> QED
      BY <2>2, <3>1, AddedSets
  <2> QED
    BY <2>1, <2>2, CatalogStep DEF SearchInv
<1>2. DOMAIN Problems \subseteq DOMAIN Problems'
  <2>1. ASSUME NEW g, Reports(g) PROVE DOMAIN Problems \subseteq DOMAIN Problems'
    BY <2>1 DEF Reports, Put
  <2> QED
    BY <2>1, CatalogStep DEF SearchInv
<1> QED
  BY <1>1, <1>2

LEMMA InCatalogStays ==
  ASSUME TypeOK, SearchInv, [Next]_vars, NEW k, NEW d, InCatalog(k, d)
  PROVE  InCatalog(k, d)'
<1>1. UNCHANGED sources
  BY SourcesStay
<1> QED
  BY <1>1, CatalogGrows DEF InCatalog

LEMMA AddedInCatalog ==
  ASSUME TypeOK, NEW s, Adds(s)
  PROVE  \E a : /\ a.src = i /\ a.dir = cur.dir /\ a.file = s.file
                /\ (SkillSet \cup ShadowedSet)' = SkillSet \cup ShadowedSet \cup {a}
<1>1. PICK a : /\ a.src = i /\ a.dir = cur.dir /\ a.file = s.file
               /\ \/ Skills' = Append(Skills, a) /\ UNCHANGED Shadowed
                  \/ Shadowed' = Append(Shadowed, a) /\ UNCHANGED Skills
  BY AddedWhere
<1>2. (SkillSet \cup ShadowedSet)' = SkillSet \cup ShadowedSet \cup {a}
  <2>1. \/ SkillSet' = SkillSet \cup {a} /\ UNCHANGED ShadowedSet
        \/ ShadowedSet' = ShadowedSet \cup {a} /\ UNCHANGED SkillSet
    BY <1>1, AddedSets
  <2> QED
    BY <2>1
<1> QED
  BY <1>1, <1>2

(* The directory that is left, when it holds a skill file, is in the       *)
(* catalog: as a skill, as a failure or as misnamed.                       *)
LEMMA FinishAccounts ==
  ASSUME TypeOK, Frontier, pc \in {"load", "read"}, Leaves, NEW f \in skillFiles, Finish(f),
         NEW k, NEW d, k = i, d = cur.dir
  PROVE  InCatalog(k, d)'
<1>1. ASSUME NEW s, Adds(s) PROVE InCatalog(k, d)'
  BY <1>1, AddedInCatalog DEF InCatalog
<1>2. ASSUME Failed(cur.found) PROVE InCatalog(k, d)'
  <2>1. HereLocation(cur.found) \in DOMAIN Problems' /\ cur.found \in Spellings
    BY <1>2 DEF Failed, Put, TypeOK, skillFiles, Spellings
  <2> QED
    BY <2>1 DEF InCatalog, HereLocation, Leaves
<1> QED
  BY <1>1, <1>2, FinishLeaves

LEMMA LeavesAccounts ==
  ASSUME TypeOK, SearchInv, Still, [Next]_vars, Visiting, pc' = "entry",
         NEW k, NEW d, k = i, d = cur.dir, Holds(k, d)
  PROVE  InCatalog(k, d)'
<1>0. Here = disk[k][d] /\ Frontier
  BY DEF Here, SearchInv
<1>1. CASE findSkillFile
  <2>1. SkillFileName(Here) = NoFile
    BY <1>1 DEF findSkillFile
  <2>2. misnamedSkillFile(Here) = Mixed /\ Mixed # NoFile
    <3>1. IsChild(Here)
      BY <1>1, HereType, ChildrenAssumption DEF findSkillFile
    <3>2. CanList(Here) /\ DOMAIN Here.files # {} /\ DOMAIN Here.files \subseteq Spellings
      BY <1>0, <3>1 DEF Holds, IsChild
    <3>3. listedSkillFile(DOMAIN Here.files) = NoFile
      BY <2>1, <3>2 DEF SkillFileName
    <3>4. Upper \notin DOMAIN Here.files /\ Lower \notin DOMAIN Here.files
      BY <3>3 DEF listedSkillFile, Upper, Lower, NoFile
    <3> QED
      BY <3>2, <3>4 DEF misnamedSkillFile, Spellings, Mixed, NoFile
  <2>3. Leave /\ HereLocation(Mixed) \in DOMAIN Problems' /\ UNCHANGED sources
    BY <1>1, <2>1, <2>2 DEF findSkillFile, Put
  <2> QED
    BY <2>3 DEF InCatalog, HereLocation, Spellings
<1>2. CASE LoadList
  <2>1. Leave /\ UNCHANGED <<sources, disk, i, todo, locations>> /\ pc = "load"
        /\ ~(CanList(Here) /\ SkillFileName(Here) # NoFile)
    BY <1>2 DEF LoadList
  <2>2. Leaves
    BY <2>1 DEF Leaves
  <2>3. CASE SkillFileName(Here) # NoFile
    BY <1>0, <1>2, <2>1, <2>2, <2>3, FinishAccounts, SkillFileNames DEF LoadList
  <2>4. CASE SkillFileName(Here) = NoFile
    <3>1. Failed(cur.found) /\ cur.found \in Spellings
      BY <1>2, <2>4 DEF LoadList, TypeOK, skillFiles, Spellings
    <3>2. HereLocation(cur.found) \in DOMAIN Problems'
      BY <3>1 DEF Failed, Put
    <3> QED
      BY <2>1, <3>1, <3>2 DEF InCatalog, HereLocation
  <2> QED
    BY <2>3, <2>4
<1>3. CASE LoadRead
  <2>1. Leaves /\ Finish(cur.file) /\ cur.file \in skillFiles /\ pc = "read"
    BY <1>3 DEF LoadRead, Leaves, Visiting, TypeOK
  <2> QED
    BY <1>0, <2>1, FinishAccounts
<1> QED
  BY <1>1, <1>2, <1>3 DEF Next, Discover, vars, RefuseSources, ReadRoot, Return,
     NextSource, VisitEntry, Edit, Visiting

(* What the search passes in a step is the entry it leaves, or holds       *)
(* nothing: an entry that is no directory, or was never listed.            *)
LEMMA PassedStep ==
  ASSUME TypeOK, SearchInv, StillInv, Still, [Next]_vars,
         NEW k \in 1..Len(sources), NEW d \in Dirs, Passed(k, d)', ~Passed(k, d)
  PROVE  ~Holds(k, d) \/ (Visiting /\ pc' = "entry" /\ k = i /\ d = cur.dir)
<1> USE DEF Passed, Searching, Visiting
<1>0. i \in Nat /\ k \in Nat
  BY DEF TypeOK
<1>1. CASE RefuseSources \/ Return \/ Edit
  BY <1>1 DEF RefuseSources, Return, Edit
<1>2. CASE ReadRoot
  <2>1. /\ k = i /\ d \notin DOMAIN todo'
        /\ todo' = [e \in {x \in Dirs : disk[i][x].kind # "none"} |-> disk[i][e].kind]
    BY <1>2 DEF ReadRoot
  <2>2. disk[k][d].kind = "none"
    BY <2>1
  <2> QED
    BY <2>2 DEF Holds, CanList, Reachable
<1>3. CASE NextSource
  BY <1>0, <1>3 DEF NextSource
<1>4. CASE VisitEntry
  <2>1. PICK e \in DOMAIN todo :
          /\ todo' = Drop(todo, e)
          /\ IF isDir(e)
               THEN cur' = [NoEntry EXCEPT !.dir = e] /\ pc' = "find"
               ELSE UNCHANGED <<cur, pc>>
    BY <1>4 DEF VisitEntry
  <2>2. pc = "entry" /\ UNCHANGED <<sources, i>>
    BY <1>4 DEF VisitEntry
  <2>3. DOMAIN todo' = DOMAIN todo \ {e}
    BY <2>1 DEF Drop
  <2>4. k = i /\ d = e /\ ~isDir(e)
    <3>1. isDir(e) => pc' = "find" /\ cur'.dir = e
      BY <2>1 DEF NoEntry
    <3> QED
      BY <2>2, <2>3, <3>1
  <2>5. todo[e] = disk[i][e].kind
    BY <2>1, <2>2 DEF StillInv, TodoTrue
  <2> QED
    BY <2>4, <2>5 DEF isDir, Holds, CanList, Reachable
<1>5. CASE findSkillFile \/ LoadList
  BY <1>5, EntrySteps DEF Leave
<1>6. CASE LoadRead
  BY <1>6 DEF LoadRead, Leave
<1>7. CASE UNCHANGED vars
  BY <1>7 DEF vars
<1> QED
  BY <1>1, <1>2, <1>3, <1>4, <1>5, <1>6, <1>7 DEF Next, Discover

LEMMA PassedKeptStep ==
  ASSUME TypeOK, SearchInv, StillInv, Still, [Next]_vars
  PROVE  PassedKept'
<1>1. UNCHANGED <<sources, disk>>
  BY StillDisk
<1>2. ASSUME NEW k \in 1..Len(sources), NEW d \in Dirs, Passed(k, d)', Holds(k, d)
      PROVE  InCatalog(k, d)'
  <2>1. CASE Passed(k, d)
    BY <1>2, <2>1, InCatalogStays DEF StillInv, PassedKept
  <2>2. CASE ~Passed(k, d)
    BY <1>2, <2>2, PassedStep, LeavesAccounts
  <2> QED
    BY <2>1, <2>2
<1>3. \A k, d : Holds(k, d)' <=> Holds(k, d)
  BY <1>1 DEF Holds
<1> QED
  BY <1>1, <1>2, <1>3 DEF PassedKept

LEMMA TodoTrueStep ==
  ASSUME TypeOK, StillInv, Still, [Next]_vars
  PROVE  TodoTrue'
<1> USE DEF TodoTrue, Searching, StillInv
<1>0. UNCHANGED <<sources, disk>>
  BY StillDisk
<1>1. CASE RefuseSources \/ Return \/ Edit
  BY <1>0, <1>1 DEF RefuseSources, Return, Edit
<1>2. CASE ReadRoot
  BY <1>0, <1>2 DEF ReadRoot
<1>3. CASE NextSource
  BY <1>3 DEF NextSource
<1>4. CASE VisitEntry
  <2>1. PICK e \in DOMAIN todo : todo' = Drop(todo, e)
    BY <1>4 DEF VisitEntry
  <2>2. pc = "entry" /\ UNCHANGED i
    BY <1>4 DEF VisitEntry
  <2> QED
    BY <1>0, <2>1, <2>2 DEF Drop
<1>5. CASE findSkillFile \/ LoadList
  BY <1>0, <1>5, EntrySteps DEF Leave
<1>6. CASE LoadRead
  BY <1>0, <1>6 DEF LoadRead, Leave
<1>7. CASE UNCHANGED vars
  BY <1>7 DEF vars
<1> QED
  BY <1>1, <1>2, <1>3, <1>4, <1>5, <1>6, <1>7 DEF Next, Discover

LEMMA FileTrueStep ==
  ASSUME TypeOK, StillInv, Still, [Next]_vars
  PROVE  FileTrue'
<1>0. UNCHANGED <<sources, disk>>
  BY StillDisk
<1>1. CASE LoadList
  <2>1. CASE CanList(Here) /\ SkillFileName(Here) # NoFile
    <3>1. PICK f : f = SkillFileName(Here)
      OBVIOUS
    <3>2. cur' = [cur EXCEPT !.file = f] /\ UNCHANGED i
      BY <1>1, <2>1, <3>1 DEF LoadList
    <3>3. f \in DOMAIN Here.files
      BY <2>1, <3>1 DEF SkillFileName, listedSkillFile
    <3> QED
      BY <1>0, <3>2, <3>3 DEF FileTrue, Here
  <2>2. CASE ~(CanList(Here) /\ SkillFileName(Here) # NoFile)
    BY <1>1, <2>2 DEF LoadList, Leave, FileTrue
  <2> QED
    BY <2>1, <2>2
<1>2. CASE pc' # "read"
  BY <1>2 DEF FileTrue
<1>3. CASE UNCHANGED <<pc, i, cur>>
  BY <1>0, <1>3 DEF FileTrue, Here, StillInv
<1> QED
  BY <1>1, <1>2, <1>3 DEF Next, Discover, vars, RefuseSources, ReadRoot, Return,
     NextSource, VisitEntry, findSkillFile, LoadRead, Leave, Edit

LEMMA SpelledStep ==
  ASSUME TypeOK, SearchInv, StillInv, Still, [Next]_vars
  PROVE  Spelled'
<1>0. UNCHANGED <<sources, disk>> /\ Frontier /\ Spelled
  BY StillDisk DEF SearchInv, StillInv
<1>1. CASE UNCHANGED <<Skills, Shadowed>>
  BY <1>0, <1>1 DEF Spelled, SkillSet, ShadowedSet
<1>2. ASSUME NEW s, Adds(s), CanList(Here) => s.file \in DOMAIN Here.files
      PROVE  Spelled'
  <2>1. PICK a : /\ a.src = i /\ a.dir = cur.dir /\ a.file = s.file
                 /\ (SkillSet \cup ShadowedSet)' = SkillSet \cup ShadowedSet \cup {a}
    BY <1>2, AddedInCatalog
  <2>2. CanList(disk[a.src][a.dir]) => a.file \in DOMAIN disk[a.src][a.dir].files
    BY <1>2, <2>1 DEF Here
  <2> QED
    BY <1>0, <2>1, <2>2 DEF Spelled
<1>3. CASE LoadList
  <2>1. CASE CanList(Here) /\ SkillFileName(Here) # NoFile
    BY <1>1, <1>3, <2>1 DEF LoadList, catalog
  <2>2. CASE ~CanList(Here) /\ SkillFileName(Here) # NoFile
    <3>1. Leaves /\ Finish(SkillFileName(Here)) /\ pc = "load"
      BY <1>3, <2>2 DEF LoadList, Leaves, Visiting
    <3> QED
      BY <1>0, <1>1, <1>2, <2>2, <3>1, FinishLeaves, SkillFileNames DEF Failed
  <2>3. CASE SkillFileName(Here) = NoFile
    BY <1>1, <1>3, <2>3 DEF LoadList, Failed
  <2> QED
    BY <2>1, <2>2, <2>3
<1>4. CASE LoadRead
  <2>1. Leaves /\ Finish(cur.file) /\ cur.file \in skillFiles /\ pc = "read"
    BY <1>4 DEF LoadRead, Leaves, Visiting, TypeOK
  <2>2. CanList(Here) => cur.file \in DOMAIN Here.files
    BY <2>1 DEF StillInv, FileTrue
  <2> QED
    BY <1>0, <1>1, <1>2, <2>1, <2>2, FinishLeaves DEF Failed
<1> QED
  BY <1>1, <1>3, <1>4 DEF Next, Discover, vars, catalog, RefuseSources, ReadRoot, Return,
     NextSource, VisitEntry, findSkillFile, Edit

LEMMA StillStep ==
  ASSUME TypeOK, SearchInv, StillInv, [Next]_vars
  PROVE  StillInv'
<1>1. pc' = "done" => i' > Len(sources')
  <2>1. pc' = "done" => Return \/ UNCHANGED <<pc, i, sources>>
    BY DEF Next, Discover, vars, RefuseSources, ReadRoot, NextSource, VisitEntry,
           findSkillFile, LoadList, LoadRead, Leave, Edit
  <2> QED
    BY <2>1 DEF StillInv, Return
<1>2. CASE Still
  BY <1>1, <1>2, TodoTrueStep, FileTrueStep, PassedKeptStep, SpelledStep DEF StillInv
<1>3. CASE ~Still
  <2>1. ~Still'
    BY <1>3, SourcesStay DEF Still
  <2> QED
    BY <1>1, <2>1 DEF StillInv
<1> QED
  BY <1>2, <1>3

LEMMA StillInit ==
  ASSUME Init
  PROVE  StillInv
<1>1. pc = "source" /\ i = 1 /\ SkillSet = {} /\ ShadowedSet = {}
  BY DEF Init, SkillSet, ShadowedSet
<1>2. \A k \in 1..Len(sources), d \in Dirs : ~Passed(k, d)
  <2>1. Len(sources) \in Nat
    BY SourcesAssumption DEF Init
  <2> QED
    BY <1>1, <2>1 DEF Passed, Searching
<1> QED
  BY <1>1, <1>2 DEF StillInv, TodoTrue, Searching, FileTrue, PassedKept, Spelled

(* While the trees stand still, what discovery passed over and wrote down  *)
(* is what they hold (discover.go:80-103, load.go:64-73).                  *)
THEOREM StillKept == Spec => []StillInv
<1>1. TypeOK /\ SearchInv /\ StillInv /\ [Next]_vars => StillInv'
  BY StillStep
<1> QED
  BY <1>1, StillInit, SearchGoesForward, TypeCorrect, PTL DEF Spec

(* Of trees nobody edits, a location spells its file as the listing does,  *)
(* for any trees and hosts (load.go:64-73).                                *)
THEOREM SpelledAsListedAlways == Spec => []SpelledAsListed
<1>1. StillInv => SpelledAsListed
  BY DEF StillInv, Still, Spelled, SpelledAsListed
<1> QED
  BY <1>1, StillKept, PTL

(* Of trees nobody edits, every directory with a skill file, a misnamed    *)
(* one included, is in the catalog or its Problems when Discover returns   *)
(* (discover.go:35-45, 86-93).                                             *)
THEOREM AccountedAlways == Spec => []Accounted
<1>1. ASSUME TypeOK, StillInv PROVE Accounted
  <2> SUFFICES ASSUME pc = "done", Still, NEW k \in 1..Len(sources), NEW d \in Dirs, Holds(k, d)
               PROVE  InCatalog(k, d)
    BY DEF Accounted, Still, Holds, InCatalog
  <2>1. Passed(k, d)
    <3>1. Len(sources) \in Nat /\ i \in Nat /\ i > Len(sources)
      BY <1>1, SourcesAssumption DEF TypeOK, StillInv
    <3> QED
      BY <3>1 DEF Passed
  <2> QED
    BY <1>1, <2>1 DEF StillInv, PassedKept
<1> QED
  BY <1>1, StillKept, TypeCorrect, PTL
=============================================================================

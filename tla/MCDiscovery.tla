---------------------------- MODULE MCDiscovery ----------------------------
(* Small instances of Discovery.                                           *)
EXTENDS Discovery

CONSTANTS name1, name2, qual      \* segments of names

Doc(name, description) ==
  [ok |-> TRUE, name |-> name, description |-> description,
   problems |-> IF Len(name) = 1 /\ description THEN {} ELSE {"field"}]
Broken == [Doc(<<>>, FALSE) EXCEPT !.ok = FALSE]
Advised == [Doc(<<name1>>, TRUE) EXCEPT !.problems = {"warning"}]

Absent == [kind |-> "none", listed |-> FALSE, files |-> <<>>]
Holding(file, doc) == [kind |-> "dir", listed |-> TRUE, files |-> [f \in {file} |-> doc]]
Plain == [kind |-> "dir", listed |-> TRUE, files |-> <<>>]
Both == [kind |-> "dir", listed |-> TRUE,
         files |-> [f \in skillFiles |-> IF f = Upper THEN Doc(<<name1>>, TRUE) ELSE Broken]]

At(location, slash, qualifier) ==
  [location |-> location, slash |-> slash, qualifier |-> qualifier,
   badRune |-> FALSE, fs |-> "ok", folds |-> FALSE]

(* Names: every way three sources of two directories can hold one name, a  *)
(* name that looks qualified and a skill without a description, under      *)
(* every choice of qualifiers.                                             *)
NamesSources ==
  {<<At("a", FALSE, qa), At("b", FALSE, qb), At("c", FALSE, qc)>> :
     qa \in {<<>>, <<qual>>}, qb \in {<<>>, <<qual>>}, qc \in {<<>>, <<qual>>, <<name2>>}}
NamesChildren ==
  {Absent, Holding(Upper, Doc(<<name1>>, TRUE)), Holding(Upper, Doc(<<name1>>, FALSE)),
   Holding(Upper, Doc(<<qual, name1>>, TRUE))}

(* Trees: every kind of entry, under sources that may share a location, on *)
(* a host that folds case and one that does not; and two sources with an   *)
(* editor at work during the search.                                       *)
EditedSources == {<<At("a", FALSE, <<>>), At("b", FALSE, <<qual>>)>>}
TreesSources ==
  EditedSources \cup
  {<<[At("a", TRUE, <<>>) EXCEPT !.folds = folds], t>> :
     folds \in BOOLEAN,
     t \in {At("a", FALSE, <<>>), At("b", TRUE, <<qual>>),
            [At("b", FALSE, <<qual>>) EXCEPT !.badRune = TRUE],
            [At("b", FALSE, <<>>) EXCEPT !.fs = "unreadable"],
            [At("b", FALSE, <<>>) EXCEPT !.fs = "nil"]}}
TreesChildren ==
  {Absent, Plain, Both, Holding(Upper, Advised), Holding(Lower, Doc(<<name2>>, TRUE)),
   Holding(Mixed, Doc(<<name1>>, TRUE)), Holding(Upper, Broken),
   [Plain EXCEPT !.kind = "file"],
   [Holding(Upper, Doc(<<name2>>, TRUE)) EXCEPT !.kind = "link"],
   [Holding(Upper, Doc(<<name1>>, TRUE)) EXCEPT !.kind = "refused"],
   [Both EXCEPT !.listed = FALSE],
   [Holding(Mixed, Doc(<<name1>>, TRUE)) EXCEPT !.listed = FALSE]}

EditedChildren ==
  {Absent, Holding(Upper, Advised), Holding(Mixed, Doc(<<name1>>, TRUE)),
   [Holding(Upper, Doc(<<name2>>, TRUE)) EXCEPT !.kind = "link"]}

AllSources == NamesSources \cup TreesSources
AllChildren == NamesChildren \cup TreesChildren
StartTrees ==
  [list \in AllSources |-> IF list \in NamesSources THEN NamesChildren
                           ELSE IF list \in EditedSources THEN EditedChildren
                           ELSE TreesChildren]
Segs == {name1, name2, qual}
TwoDirs == 1..2
Reported == {"field", "warning"}
=============================================================================

--------------------------- MODULE MCFrontmatter ---------------------------
(* Small instances of Frontmatter: names of up to three characters.        *)
EXTENDS Frontmatter

Plain == [kind |-> "text"]
CRFence == [Fence EXCEPT !.cr = TRUE]
ScalarEntry(key, t) == Entry(key, Scalar(t))
Whole == ScalarOf(<<"a">>, "zeroes")
Twice == Entry("metadata", Mapping(<< <<"k", Scalar(<<"a">>)>>, <<"k", Scalar(<<>>)>> >>))

NameEntries ==
  {ScalarEntry("name", t) :
     t \in {<<>>, <<"space">>, <<"a">>, <<"space", "a">>, <<"A">>, <<"-">>, <<"a", "-">>,
            <<"a", "-", "a">>, <<"a", ":", "a">>, <<"a", "-", "-", "a">>, <<"a", "a", "a", "a">>,
            <<"a", "a", "a", "a", "a">>}}
  \cup {Entry("name", List)}
DescriptionEntries ==
  {ScalarEntry("description", t) : t \in {<<"space">>, <<"a">>, <<"a", "a", "a">>}}
  \cup {Entry("description", List)}
OtherEntries ==
  {ScalarEntry("license", <<"space">>), Entry("license", List),
   ScalarEntry("compatibility", <<>>), ScalarEntry("compatibility", <<"a", "a", "a">>),
   ScalarEntry("allowed-tools", <<"a">>), ScalarEntry("allowed-tools", <<":">>),
   Entry("metadata", List),
   Entry("metadata", Mapping(<< <<"k", Scalar(<<"a">>)>>, <<"l", Scalar(<<>>)>> >>)),
   Entry("metadata", Mapping(<< <<"k", Scalar(<<"a">>)>>, <<"l", List>> >>)),
   Entry("metadata", Mapping(<< <<NoScalar, Scalar(<<"a">>)>> >>)),
   ScalarEntry("x", <<"a">>), ScalarEntry("y", <<>>),
   Entry("x", Mapping(<< <<"k", Scalar(<<"a">>)>>, <<"k", Scalar(<<>>)>> >>)),
   Entry("x", Mapping(<< <<"k", Scalar(<<"a">>)>>, <<"l", Whole>>, <<"m", List>> >>)),
   Entry("x", Mapping(<< <<NoScalar, Scalar(<<"a">>)>> >>)), Entry("x", List),
   Entry("x", Whole), Entry("x", ScalarOf(<<"a">>, "digits")),
   Entry("y", ScalarOf(<<"a">>, "fraction")), Entry("metadata", Mapping(<< <<"k", Whole>> >>)),
   Twice, ScalarEntry(NoScalar, <<"a">>)}
Entries == NameEntries \cup DescriptionEntries \cup OtherEntries

(* Frontmatter: any two entries, or a name and a description with one more *)
(* entry after them or two.                                                *)
Pairs == {<<a, b>> : a \in Entries, b \in Entries}
Fuller ==
  {<<n, d, o>> : n \in NameEntries, d \in DescriptionEntries, o \in Entries}
  \cup {<<ScalarEntry("name", <<"a">>), ScalarEntry("description", <<"a">>), o, e>> :
          o \in OtherEntries, e \in OtherEntries}

Bodies == {<<>>, <<Plain, Fence, Plain>>}
WellFormed == {<<Fence>> \o f \o <<CRFence>> \o body :
            f \in {<<>>} \cup Pairs \cup Fuller, body \in Bodies}
Malformed ==
  {<<Plain>>, <<Fence>>, <<Fence, Plain>>, <<Plain, Fence, Fence>>, <<Fence, Plain, Fence>>,
   <<Fence, ScalarEntry("name", <<"a">>), Plain, Fence>>,
   <<Fence, ScalarEntry("name", <<"a">>)>>}
AllFiles == WellFormed \cup Malformed
TwiceFiles ==
  {<<Fence, ScalarEntry("name", <<"a">>), o, Fence>> : o \in OtherEntries}
NameFiles ==
  {<<Fence, n, d, Fence>> : n \in NameEntries, d \in DescriptionEntries}

Directories == {<<>>, <<"a">>, <<"a", "-", "a">>}
Unparsed == {<<":">>}
=============================================================================

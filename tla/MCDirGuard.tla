----------------------------- MODULE MCDirGuard -----------------------------
(* A small instance of DirGuard: a root, a sibling whose name begins with  *)
(* the root's, and a link to the root.                                     *)
EXTENDS DirGuard

R == <<"r">>
X == <<"r", "x">>
A == <<"a">>
B == <<"b">>
L == <<"l">>

Inner == {<<R, A>>, <<R, B>>, <<R, A, B>>}
AllPlaces == {<<R>>, <<X>>, <<X, B>>, <<L>>} \cup Inner

File == [kind |-> "file"]
Folder == [kind |-> "dir"]
To(p) == [kind |-> "link", to |-> p]
AllNodes ==
  {Nothing, File, Folder} \cup {To(p) : p \in {<<R>>, <<R, A>>, <<R, B>>, <<X>>, <<X, B>>}}

Outer(inner) ==
  [p \in AllPlaces |-> CASE p \in Inner -> inner[p]
                         [] p \in {<<R>>, <<X>>} -> Folder
                         [] p = <<X, B>> -> File
                         [] p = <<L>> -> To(<<R>>)]
AllTrees == {t \in {Outer(inner) : inner \in [Inner -> AllNodes]} : IsTree(t)}

Given == {<<R>>, <<L>>}
AllNames == {<<>>, <<A>>, <<B>>, <<A, B>>, <<B, B>>, <<A, A>>, <<B, A, B>>}
TheSkillFile == {<<B>>}
=============================================================================

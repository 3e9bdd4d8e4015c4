----------------------------- MODULE MCRelease -----------------------------
(* Two clones, two versions above the one published first.          *)
EXTENDS Release, TLC

CONSTANTS c1, c2   \* clones

TwoClones == {c1, c2}
SomeVersions == 1..3
Swapped == Permutations(TwoClones)
=============================================================================

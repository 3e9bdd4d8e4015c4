------------------------------- MODULE Release -------------------------------
(***************************************************************************)
(* make release (Makefile, scripts/release-guard.sh): several clones cut   *)
(* releases of one branch of one origin.  The procedure dates the          *)
(* changelog, commits, guards, tags and pushes, and may stop after any of  *)
(* these; what it did is then undone as the Makefile says.  Everything but *)
(* the push is local, and origin moves while it runs.                      *)
(*                                                                         *)
(* Abstractions.  A history is the sequence of its commits; a commit says  *)
(* which version's section it dates, 0 for work, which is noted under      *)
(* Unreleased.  Versions are numbers in the order of sort -V.  git is      *)
(* modelled by what the procedure uses of it.                              *)
(***************************************************************************)
EXTENDS Naturals, SequencesExt

CONSTANTS
  Clones,      \* the clones releases are cut from
  Versions,    \* the versions a release may be given
  First,       \* the one published at the start
  MaxCommits   \* how many commits are made

ASSUME VersionsAssumption == Versions \subseteq Nat \ {0} /\ First \in Nat \ {0}
ASSUME BoundAssumption == MaxCommits \in Nat

VARIABLES
  origin,      \* the branch at origin
  published,   \* the tags at origin, and the history each names
  clone,       \* the clones, with the make release each runs
  commits      \* commits made, which tells them apart

vars == <<origin, published, clone, commits>>

Commits == [version : {0, First} \cup Versions, nth : 0..MaxCommits]
Above(v, tags) == \A u \in tags : u < v

(* A clone: its branch, its tags, whether its tree differs from HEAD, the  *)
(* next step of the procedure, its VERSION and the tags ls-remote gave.    *)
Init ==
  /\ origin = <<[version |-> First, nth |-> 0]>>
  /\ published = [v \in {First} |-> origin]
  /\ clone = [c \in Clones |-> [branch |-> origin, tags |-> {First}, dirty |-> FALSE,
                                pc |-> "idle", version |-> 0, seen |-> {}]]
  /\ commits = 0

At(c, step) == clone[c].pc = step
Becomes(c, k) == clone' = [clone EXCEPT ![c] = k]
Rest(k) == [k EXCEPT !.pc = "idle", !.version = 0, !.seen = {}]
Local == UNCHANGED <<origin, published>>

Committed(c, v, next) ==
  /\ commits < MaxCommits
  /\ commits' = commits + 1
  /\ Becomes(c, [clone[c] EXCEPT
       !.branch = Append(@, [version |-> v, nth |-> commits + 1]),
       !.dirty = FALSE, !.pc = next])
  /\ Local

----------------------------------------------------------------------------
(* A developer edits, commits with a note under Unreleased, pushes, and    *)
(* rebases onto origin, with the tags that came since or without.          *)
Touch(c) ==
  /\ Becomes(c, [clone[c] EXCEPT !.dirty = TRUE])
  /\ UNCHANGED commits /\ Local

Commit(c) == At(c, "idle") /\ clone[c].dirty /\ Committed(c, 0, "idle")

PushBranch(c) ==
  /\ At(c, "idle")
  /\ IsPrefix(origin, clone[c].branch)
  /\ origin' = clone[c].branch
  /\ UNCHANGED <<published, clone, commits>>

(* The first k commits of the clone are the merge base.                    *)
Base(c, k) ==
  /\ k <= Len(origin)
  /\ SubSeq(clone[c].branch, 1, k) = SubSeq(origin, 1, k)
  /\ k < Len(clone[c].branch) /\ k < Len(origin) =>
       clone[c].branch[k + 1] # origin[k + 1]

Pull(c) ==
  /\ At(c, "idle") /\ ~clone[c].dirty
  /\ \E k \in 0..Len(clone[c].branch), tags \in {{}, DOMAIN published} :
       /\ Base(c, k)
       /\ Becomes(c, [clone[c] EXCEPT
            !.branch = origin \o SubSeq(@, k + 1, Len(@)), !.tags = @ \cup tags])
  /\ UNCHANGED commits /\ Local

----------------------------------------------------------------------------
(* make release: a clean tree with an Unreleased section, which is dated.  *)
Start(c) ==
  /\ At(c, "idle") /\ ~clone[c].dirty
  /\ Last(clone[c].branch).version = 0
  /\ \E v \in Versions :
       Becomes(c, [clone[c] EXCEPT !.version = v, !.dirty = TRUE, !.pc = "check"])
  /\ UNCHANGED commits /\ Local

(* make tidy and make check passed; git add -A takes all there is.         *)
CommitRelease(c) == At(c, "check") /\ Committed(c, clone[c].version, "guard")

(* The guard: a clean tree, then the tags at origin.                       *)
ReadPublished(c) ==
  /\ At(c, "guard")
  /\ \/ clone[c].dirty /\ Becomes(c, [clone[c] EXCEPT !.pc = "failed"])
     \/ /\ ~clone[c].dirty
        /\ Becomes(c, [clone[c] EXCEPT !.seen = DOMAIN published, !.pc = "floor"])
  /\ UNCHANGED commits /\ Local

(* Bug: the floor of the local tags alone.                                 *)
GuardLocal(c) ==
  /\ At(c, "floor")
  /\ Becomes(c, [clone[c] EXCEPT
       !.pc = IF Above(clone[c].version, clone[c].tags) THEN "tag" ELSE "failed"])
  /\ UNCHANGED commits /\ Local

(* The tag is new and sorts above the newest of the local tags and         *)
(* origin's, of which there is one.                                        *)
Guard(c) ==
  LET tags == clone[c].tags \cup clone[c].seen
  IN /\ At(c, "floor")
     /\ Becomes(c, [clone[c] EXCEPT
          !.pc = IF tags # {} /\ Above(clone[c].version, tags) THEN "tag" ELSE "failed"])
     /\ UNCHANGED commits /\ Local

WriteTag(c) ==
  /\ At(c, "tag")
  /\ Becomes(c, [clone[c] EXCEPT !.tags = @ \cup {clone[c].version}, !.pc = "push"])
  /\ UNCHANGED commits /\ Local

FastForward(c) == IsPrefix(origin, clone[c].branch)
NewTag(c) == clone[c].version \notin DOMAIN published
Tagged(c) == [v \in DOMAIN published \cup {clone[c].version} |->
                IF v \in DOMAIN published THEN published[v] ELSE clone[c].branch]

(* Bug: the branch and the tag each accepted or refused alone.             *)
PushApart(c) ==
  /\ At(c, "push")
  /\ origin' = IF FastForward(c) THEN clone[c].branch ELSE origin
  /\ published' = Tagged(c)
  /\ Becomes(c, IF FastForward(c) THEN Rest(clone[c]) ELSE [clone[c] EXCEPT !.pc = "failed"])
  /\ UNCHANGED commits

(* One transaction at origin, whose answer may be lost.                    *)
Push(c) ==
  /\ At(c, "push")
  /\ \/ /\ FastForward(c) /\ NewTag(c)
        /\ origin' = clone[c].branch
        /\ published' = Tagged(c)
        /\ \/ Becomes(c, Rest(clone[c]))
           \/ Becomes(c, [clone[c] EXCEPT !.pc = "failed"])
     \/ /\ ~(FastForward(c) /\ NewTag(c))
        /\ Becomes(c, [clone[c] EXCEPT !.pc = "failed"])
        /\ Local
  /\ UNCHANGED commits

(* A step fails, or whoever runs the procedure stops it.                   *)
Fail(c) ==
  /\ clone[c].pc \in {"check", "guard", "floor", "tag", "push"}
  /\ Becomes(c, [clone[c] EXCEPT !.pc = "failed"])
  /\ UNCHANGED commits /\ Local

Dated(k) == Last(k.branch).version = k.version
HasCommitted(c) == Dated(clone[c])

(* Bug: the tree reset and the commit kept.                                *)
UndoTree(c) ==
  /\ At(c, "failed")
  /\ Becomes(c, Rest([clone[c] EXCEPT !.dirty = FALSE]))
  /\ UNCHANGED commits /\ Local

(* git reset --hard, to HEAD~1 once the commit is made, and git tag -d,    *)
(* which may be forgotten.                                                 *)
Undo(c) ==
  /\ At(c, "failed")
  /\ \E tags \in {clone[c].tags, clone[c].tags \ {clone[c].version}} :
       Becomes(c, Rest([clone[c] EXCEPT
         !.branch = IF HasCommitted(c) THEN Front(@) ELSE @,
         !.tags = tags, !.dirty = FALSE]))
  /\ UNCHANGED commits /\ Local

Next ==
  \E c \in Clones :
    \/ Touch(c) \/ Commit(c) \/ PushBranch(c) \/ Pull(c)
    \/ Start(c) \/ CommitRelease(c) \/ ReadPublished(c) \/ Guard(c)
    \/ WriteTag(c) \/ Push(c) \/ Fail(c) \/ Undo(c)

Spec == Init /\ [][Next]_vars
----------------------------------------------------------------------------
Steps == {"idle", "check", "guard", "floor", "tag", "push", "failed"}

Tags == SUBSET ({First} \cup Versions)
Clone == [branch : Seq(Commits), tags : Tags, dirty : BOOLEAN, pc : Steps,
          version : Versions \cup {0}, seen : Tags]

InOrder(k) ==
  /\ k.branch # <<>>
  /\ k.pc \in {"guard", "floor", "tag", "push"} => Dated(k)
  /\ k.pc \in {"tag", "push"} => Above(k.version, k.seen)

(* The state's types.  From the guard on the commit of the release is      *)
(* HEAD, and a tag is written only above every tag the guard read.         *)
TypeOK ==
  /\ commits \in 0..MaxCommits
  /\ origin \in Seq(Commits)
  /\ First \in DOMAIN published /\ DOMAIN published \in Tags
  /\ clone \in [Clones -> Clone]
  /\ \A c \in Clones : InOrder(clone[c])

Dates(h, v) == h # <<>> /\ Last(h).version = v

(* A published version and the commit that dates it stand and fall         *)
(* together: each tag names a commit of the branch, the one that dates its *)
(* section, and the branch dates no version that is not published, whoever *)
(* else releases or pushes meanwhile (Makefile:71-76).                     *)
TagsOnBranch ==
  /\ \A v \in DOMAIN published : IsPrefix(published[v], origin) /\ Dates(published[v], v)
  /\ \A i \in DOMAIN origin :
       LET v == origin[i].version
       IN v # 0 => v \in DOMAIN published /\ published[v] = SubSeq(origin, 1, i)

(* A version is published once, and only above all that are published,     *)
(* although the guard read them before the push, from a clone that may     *)
(* lack their tags (release-guard.sh:39-45, 79-90).                        *)
PublishedAscend ==
  [][/\ \A v \in DOMAIN published : v \in DOMAIN published' /\ published'[v] = published[v]
     /\ \A v \in DOMAIN published' \ DOMAIN published : Above(v, DOMAIN published)]_vars

(* A release that failed, even one whose push landed and whose answer was  *)
(* lost, leaves nothing of it once undone: a clone that runs none has no   *)
(* release commit that origin does not publish (release-guard.sh:10-12,    *)
(* CONTRIBUTING.md:64-66).                                                 *)
NothingHalfReleased ==
  \A c \in Clones : At(c, "idle") =>
    \A i \in DOMAIN clone[c].branch :
      clone[c].branch[i].version # 0 =>
        /\ clone[c].branch[i].version \in DOMAIN published
        /\ Contains(origin, clone[c].branch[i])
=============================================================================

--------------------------- MODULE ReleaseProofs ---------------------------
(* Theorems about Release, for any clones, versions and number of commits. *)
EXTENDS Release, TLAPS, SequenceTheorems

(* The inductive invariant speaks of histories s and t, of the history o   *)
(* and the tags p of origin, of a clone k and of the commits made, n.      *)

HasNth(s, nth) == \E j \in 1..Len(s) : s[j].nth = nth

(* A history begins with the first release, holds no commit twice and only *)
(* commits already made.                                                   *)
History(s, n) ==
  /\ s # <<>> /\ s[1].version = First
  /\ \A j \in 1..Len(s) : s[j].nth <= n
  /\ \A j, m \in 1..Len(s) : s[j].nth = s[m].nth => j = m

(* A commit in common with origin stands in the merge base.                *)
Aligned(s, o) ==
  \A j \in 1..Len(s), m \in 1..Len(o) :
    s[j].nth = o[m].nth => j = m /\ \A l \in 1..m : s[l] = o[l]

(* A commit in common with another clone is one that origin has.           *)
Owned(s, t, o) ==
  \A j \in 1..Len(s), m \in 1..Len(t) :
    s[j].nth = t[m].nth => HasNth(o, s[j].nth)

(* A release commit not on origin is HEAD, and of the release that runs.   *)
Unreleased(k, o) ==
  \A j \in 1..Len(k.branch) :
    k.branch[j].version # 0 =>
      \/ j <= Len(o) /\ k.branch[j] = o[j]
      \/ /\ j = Len(k.branch) /\ k.branch[j].version = k.version
         /\ k.pc \in {"guard", "floor", "tag", "push", "failed"}

(* The release that runs has a version to give, and a commit besides the   *)
(* first one; before its own commit, HEAD is work.                         *)
Releasing(k) ==
  k.pc # "idle" =>
    /\ k.version \in Versions
    /\ Len(k.branch) > 1
    /\ k.pc = "check" => Last(k.branch).version = 0

(* What the guard read is still what is published as long as origin would  *)
(* take the push.                                                          *)
Floor(k, o, p) ==
  IsPrefix(o, k.branch) =>
    /\ k.pc = "floor" => DOMAIN p \subseteq k.seen
    /\ k.pc \in {"tag", "push"} => Above(k.version, DOMAIN p)

(* A tag names the branch of origin as it was up to the commit that dates  *)
(* its version.                                                            *)
Tagging(o, p) ==
  /\ \A v \in DOMAIN p : \E j \in 1..Len(o) :
       o[j].version = v /\ p[v] = SubSeq(o, 1, j)
  /\ \A j \in 1..Len(o) : o[j].version # 0 =>
       o[j].version \in DOMAIN p /\ p[o[j].version] = SubSeq(o, 1, j)

CloneInv(k, o, p, n) ==
  /\ InOrder(k)
  /\ History(k.branch, n)
  /\ Aligned(k.branch, o)
  /\ Unreleased(k, o)
  /\ Releasing(k)
  /\ Floor(k, o, p)

IInv ==
  /\ TypeOK
  /\ History(origin, commits)
  /\ Tagging(origin, published)
  /\ \A c \in Clones : CloneInv(clone[c], origin, published, commits)
  /\ \A c, d \in Clones : c # d => Owned(clone[c].branch, clone[d].branch, origin)

----------------------------------------------------------------------------
(* Sequences.                                                              *)
LEMMA Subsequence ==
  ASSUME NEW S, NEW s \in Seq(S), NEW m \in 1..Len(s) + 1, NEW n \in 0..Len(s)
  PROVE  /\ SubSeq(s, m, n) \in Seq(S)
         /\ Len(SubSeq(s, m, n)) = IF m <= n THEN n - m + 1 ELSE 0
         /\ \A k \in 1..n - m + 1 : SubSeq(s, m, n)[k] = s[m + k - 1]
<1>1. \A k \in m..n : s[k] \in S
  OBVIOUS
<1> QED
  BY <1>1, SubSeqProperties

LEMMA Initial ==
  ASSUME NEW S, NEW s \in Seq(S), NEW n \in 0..Len(s)
  PROVE  /\ SubSeq(s, 1, n) \in Seq(S)
         /\ Len(SubSeq(s, 1, n)) = n
         /\ \A k \in 1..n : SubSeq(s, 1, n)[k] = s[k]
BY Subsequence

LEMMA SamePrefix ==
  ASSUME NEW S, NEW s \in Seq(S), NEW t \in Seq(S), NEW n \in 0..Len(s), n <= Len(t)
  PROVE  SubSeq(s, 1, n) = SubSeq(t, 1, n) <=> \A k \in 1..n : s[k] = t[k]
<1> DEFINE u == SubSeq(s, 1, n)
           v == SubSeq(t, 1, n)
<1>1. /\ u \in Seq(S) /\ Len(u) = n /\ \A k \in 1..n : u[k] = s[k]
      /\ v \in Seq(S) /\ Len(v) = n /\ \A k \in 1..n : v[k] = t[k]
  BY Initial
<1> HIDE DEF u, v
<1>2. (\A k \in 1..n : u[k] = v[k]) => u = v
  BY <1>1, SeqEqual
<1> QED
  BY <1>1, <1>2 DEF u, v

LEMMA PrefixElements ==
  ASSUME NEW S, NEW s \in Seq(S), NEW t \in Seq(S)
  PROVE  IsPrefix(s, t) <=>
           Len(s) <= Len(t) /\ \A k \in 1..Len(s) : s[k] = t[k]
BY SamePrefix DEF IsPrefix

LEMMA FrontElements ==
  ASSUME NEW S, NEW s \in Seq(S), s # <<>>
  PROVE  /\ Front(s) \in Seq(S)
         /\ Len(Front(s)) = Len(s) - 1
         /\ \A k \in 1..Len(s) - 1 : Front(s)[k] = s[k]
<1>1. Len(s) - 1 \in 0..Len(s)
  BY EmptySeq
<1> QED
  BY <1>1, Initial DEF Front

LEMMA Elements ==
  ASSUME NEW s \in Seq(Commits), NEW j \in 1..Len(s)
  PROVE  s[j] \in Commits /\ s[j].nth \in Nat
<1>1. s[j] \in Commits
  BY ElementOfSeq
<1> QED
  BY <1>1, BoundAssumption DEF Commits

(* A rebase: what s has after its first m, put after all of o.             *)
Onto(s, o, m) == o \o SubSeq(s, m + 1, Len(s))

LEMMA Rebased ==
  ASSUME NEW S, NEW s \in Seq(S), NEW o \in Seq(S), NEW m \in 0..Len(s)
  PROVE  /\ Onto(s, o, m) \in Seq(S) /\ Len(Onto(s, o, m)) = Len(o) + Len(s) - m
         /\ \A j \in 1..Len(o) : Onto(s, o, m)[j] = o[j]
         /\ \A j \in Len(o) + 1..Len(Onto(s, o, m)) :
              j - Len(o) + m \in m + 1..Len(s) /\ Onto(s, o, m)[j] = s[j - Len(o) + m]
<1> DEFINE u == SubSeq(s, m + 1, Len(s))
           r == o \o u
<1>1. /\ u \in Seq(S) /\ Len(u) = Len(s) - m
      /\ \A i \in 1..Len(s) - m : u[i] = s[m + i]
  <2>1. m + 1 \in 1..Len(s) + 1 /\ Len(s) \in 0..Len(s)
    OBVIOUS
  <2> QED
    BY <2>1, Subsequence
<1> HIDE DEF u
<1>2. /\ r \in Seq(S) /\ Len(r) = Len(o) + Len(u)
      /\ \A j \in 1..Len(o) + Len(u) : r[j] = IF j <= Len(o) THEN o[j] ELSE u[j - Len(o)]
  BY <1>1, ConcatProperties
<1> HIDE DEF r
<1>3. ASSUME NEW j \in Len(o) + 1..Len(r)
      PROVE  j - Len(o) + m \in m + 1..Len(s) /\ r[j] = s[j - Len(o) + m]
  <2>1. j - Len(o) \in 1..Len(u) /\ m + (j - Len(o)) = j - Len(o) + m
    BY <1>1, <1>2
  <2>2. u[j - Len(o)] = s[m + (j - Len(o))]
    BY <1>1, <2>1
  <2>3. j \in 1..Len(o) + Len(u) /\ ~(j <= Len(o))
    BY <1>1, <1>2
  <2> QED
    BY <1>1, <1>2, <2>1, <2>2, <2>3
<1>4. Len(r) = Len(o) + Len(s) - m
  BY <1>1, <1>2
<1>6. ASSUME NEW j \in 1..Len(o) PROVE r[j] = o[j]
  <2>1. j \in 1..Len(o) + Len(u)
    BY <1>1
  <2> QED
    BY <1>2, <2>1
<1>5. r = Onto(s, o, m)
  BY DEF r, u, Onto
<1> QED
  BY <1>2, <1>3, <1>4, <1>5, <1>6

----------------------------------------------------------------------------
(* The step of one clone.                                                  *)
LEMMA BecomesClone ==
  ASSUME TypeOK, NEW c \in Clones, NEW k \in Clone, Becomes(c, k)
  PROVE  /\ clone' \in [Clones -> Clone]
         /\ clone'[c] = k
         /\ \A d \in Clones : d # c => clone'[d] = clone[d]
BY DEF Becomes, TypeOK

(* A step that leaves origin as it is need only be looked at in the clone  *)
(* that takes it.                                                          *)
LEMMA LocalStep ==
  ASSUME IInv, NEW c \in Clones, NEW k \in Clone, Becomes(c, k),
         UNCHANGED <<origin, published>>, commits' \in commits..MaxCommits,
         CloneInv(k, origin, published, commits'),
         \A d \in Clones : d # c => Owned(k.branch, clone[d].branch, origin)
  PROVE  IInv'
<1>1. /\ clone' \in [Clones -> Clone]
      /\ clone'[c] = k
      /\ \A d \in Clones : d # c => clone'[d] = clone[d]
  BY BecomesClone DEF IInv
<1>2. commits \in Nat /\ commits' \in Nat /\ commits <= commits'
  BY BoundAssumption DEF IInv, TypeOK
<1>3. \A s \in Seq(Commits) : History(s, commits) => History(s, commits')
  BY <1>2, Elements DEF History
<1>4. \A d \in Clones : CloneInv(clone'[d], origin, published, commits')
  BY <1>1, <1>3 DEF IInv, TypeOK, Clone, CloneInv
<1>5. \A d \in Clones : InOrder(clone'[d])
  BY <1>4 DEF CloneInv
<1>6. ASSUME NEW d \in Clones, NEW e \in Clones, d # e
      PROVE  Owned(clone'[d].branch, clone'[e].branch, origin)
  <2>1. CASE d = c
    BY <1>1, <1>6, <2>1
  <2>2. CASE e = c
    <3>1. Owned(k.branch, clone[d].branch, origin) /\ clone'[d] = clone[d] /\ clone'[e] = k
      BY <1>1, <1>6, <2>2
    <3>2. Owned(clone[d].branch, k.branch, origin)
      BY <3>1 DEF Owned
    <3> QED
      BY <3>1, <3>2
  <2>3. CASE d # c /\ e # c
    BY <1>1, <1>6, <2>3 DEF IInv
  <2> QED
    BY <2>1, <2>2, <2>3
<1>7. TypeOK'
  BY <1>1, <1>2, <1>5 DEF IInv, TypeOK
<1>8. History(origin, commits')
  BY <1>3 DEF IInv, TypeOK
<1> QED
  BY <1>4, <1>6, <1>7, <1>8 DEF IInv

(* One that leaves the branch as it is too.                                *)
LEMMA StepInPlace ==
  ASSUME IInv, NEW c \in Clones, NEW k \in Clone, Becomes(c, k),
         k.branch = clone[c].branch, UNCHANGED <<origin, published, commits>>,
         InOrder(k), Unreleased(k, origin), Releasing(k), Floor(k, origin, published)
  PROVE  IInv'
<1>1. CloneInv(k, origin, published, commits)
  BY DEF IInv, CloneInv
<1>2. commits' = commits /\ commits \in commits..MaxCommits
  BY BoundAssumption DEF IInv, TypeOK
<1> QED
  BY <1>1, <1>2, LocalStep DEF IInv

(* A developer's edit, and the steps of make release that only look.       *)
LEMMA TouchStep ==
  ASSUME IInv, NEW c \in Clones, Touch(c)
  PROVE  IInv'
<1> DEFINE k == [clone[c] EXCEPT !.dirty = TRUE]
<1>1. k \in Clone /\ Becomes(c, k)
  BY DEF Touch, IInv, TypeOK, Clone
<1>2. InOrder(k) /\ Unreleased(k, origin) /\ Releasing(k) /\ Floor(k, origin, published)
  BY DEF IInv, TypeOK, Clone, CloneInv, InOrder, Dated, Unreleased, Releasing, Floor
<1> QED
  BY <1>1, <1>2, StepInPlace DEF Touch, Local, IInv, TypeOK, Clone

LEMMA StartStep ==
  ASSUME IInv, NEW c \in Clones, Start(c)
  PROVE  IInv'
<1>1. PICK v \in Versions :
        Becomes(c, [clone[c] EXCEPT !.version = v, !.dirty = TRUE, !.pc = "check"])
  BY DEF Start
<1> DEFINE k == [clone[c] EXCEPT !.version = v, !.dirty = TRUE, !.pc = "check"]
<1>2. k \in Clone /\ Becomes(c, k)
  BY <1>1 DEF IInv, TypeOK, Clone, Steps
<1>3. InOrder(k) /\ Unreleased(k, origin) /\ Floor(k, origin, published)
  BY DEF Start, At, IInv, TypeOK, Clone, CloneInv, InOrder, Dated, Unreleased, Floor
<1>4. Releasing(k)
  <2>1. /\ Last(clone[c].branch).version = 0 /\ clone[c].branch[1].version = First
        /\ clone[c].branch # <<>> /\ clone[c].branch \in Seq(Commits)
    BY DEF Start, IInv, TypeOK, Clone, CloneInv, History
  <2>2. Len(clone[c].branch) > 1
    BY <2>1, VersionsAssumption, EmptySeq DEF Last
  <2> QED
    BY <2>1, <2>2 DEF Releasing, IInv, TypeOK, Clone
<1> QED
  BY <1>2, <1>3, <1>4, StepInPlace DEF Start, Local, IInv, TypeOK, Clone

(* What stops the release.                                                 *)
LEMMA FailedStep ==
  ASSUME IInv, NEW c \in Clones, clone[c].pc # "idle",
         Becomes(c, [clone[c] EXCEPT !.pc = "failed"]),
         UNCHANGED <<origin, published, commits>>
  PROVE  IInv'
<1> DEFINE k == [clone[c] EXCEPT !.pc = "failed"]
<1>1. k \in Clone /\ Becomes(c, k)
  BY DEF IInv, TypeOK, Clone, Steps
<1>2. InOrder(k) /\ Unreleased(k, origin) /\ Releasing(k) /\ Floor(k, origin, published)
  BY DEF IInv, TypeOK, Clone, CloneInv, InOrder, Dated, Unreleased, Releasing, Floor
<1> QED
  BY <1>1, <1>2, StepInPlace DEF IInv, TypeOK, Clone

LEMMA ReadPublishedStep ==
  ASSUME IInv, NEW c \in Clones, ReadPublished(c)
  PROVE  IInv'
<1>1. CASE clone[c].dirty
  BY <1>1, FailedStep DEF ReadPublished, At, Local
<1>2. CASE ~clone[c].dirty
  <2> DEFINE k == [clone[c] EXCEPT !.seen = DOMAIN published, !.pc = "floor"]
  <2>1. k \in Clone /\ Becomes(c, k) /\ clone[c].pc = "guard"
    BY <1>2 DEF ReadPublished, At, IInv, TypeOK, Clone, Steps
  <2>2. InOrder(k) /\ Unreleased(k, origin) /\ Releasing(k) /\ Floor(k, origin, published)
    BY <2>1 DEF IInv, TypeOK, Clone, CloneInv, InOrder, Dated, Unreleased, Releasing, Floor
  <2> QED
    BY <2>1, <2>2, StepInPlace DEF ReadPublished, Local, IInv, TypeOK, Clone
<1> QED
  BY <1>1, <1>2 DEF ReadPublished

LEMMA GuardStep ==
  ASSUME IInv, NEW c \in Clones, Guard(c)
  PROVE  IInv'
<1> DEFINE tags == clone[c].tags \cup clone[c].seen
<1>1. CASE tags # {} /\ Above(clone[c].version, tags)
  <2> DEFINE k == [clone[c] EXCEPT !.pc = "tag"]
  <2>1. k \in Clone /\ Becomes(c, k) /\ clone[c].pc = "floor"
    BY <1>1 DEF Guard, At, IInv, TypeOK, Clone, Steps
  <2>2. Above(clone[c].version, clone[c].seen)
    BY <1>1 DEF Above
  <2>3. InOrder(k) /\ Unreleased(k, origin) /\ Releasing(k)
    BY <2>1, <2>2 DEF IInv, TypeOK, Clone, CloneInv, InOrder, Dated, Unreleased, Releasing
  <2>4. Floor(k, origin, published)
    BY <2>1, <2>2 DEF IInv, TypeOK, Clone, CloneInv, Floor, Above
  <2> QED
    BY <2>1, <2>3, <2>4, StepInPlace DEF Guard, Local, IInv, TypeOK, Clone
<1>2. CASE ~(tags # {} /\ Above(clone[c].version, tags))
  BY <1>2, FailedStep DEF Guard, At, Local
<1> QED
  BY <1>1, <1>2

LEMMA WriteTagStep ==
  ASSUME IInv, NEW c \in Clones, WriteTag(c)
  PROVE  IInv'
<1> DEFINE k == [clone[c] EXCEPT !.tags = @ \cup {clone[c].version}, !.pc = "push"]
<1>1. clone[c].pc = "tag" /\ clone[c] \in Clone
  BY DEF WriteTag, At, IInv, TypeOK
<1>2. clone[c].version \in Versions
  BY <1>1 DEF IInv, CloneInv, Releasing
<1>3. k \in Clone /\ Becomes(c, k)
  BY <1>1, <1>2 DEF WriteTag, Clone, Steps, Tags
<1>4. InOrder(k) /\ Unreleased(k, origin) /\ Releasing(k) /\ Floor(k, origin, published)
  BY <1>1 DEF IInv, Clone, CloneInv, InOrder, Dated, Unreleased, Releasing, Floor
<1> QED
  BY <1>1, <1>3, <1>4, StepInPlace DEF WriteTag, Local, Clone
----------------------------------------------------------------------------
(* The steps that change a clone's branch.                                 *)

(* A commit.                                                               *)
LEMMA CommittedStep ==
  ASSUME IInv, NEW c \in Clones, NEW v \in {0} \cup Versions, NEW next \in {"idle", "guard"},
         clone[c].pc \in {"idle", "check"}, Committed(c, v, next),
         next = "guard" => clone[c].pc = "check" /\ v = clone[c].version,
         next = "idle" => v = 0
  PROVE  IInv'
<1> DEFINE b == clone[c].branch
           e == [version |-> v, nth |-> commits + 1]
           k == [clone[c] EXCEPT !.branch = Append(@, e), !.dirty = FALSE, !.pc = next]
<1>1. /\ clone[c] \in Clone /\ b \in Seq(Commits) /\ commits \in Nat
      /\ CloneInv(clone[c], origin, published, commits)
  BY BoundAssumption DEF IInv, TypeOK, Clone
<1>2. commits' = commits + 1 /\ commits' \in commits..MaxCommits /\ e \in Commits
  BY <1>1, BoundAssumption DEF Committed, Commits
<1> DEFINE B == Append(b, e)
<1>3. /\ B \in Seq(Commits) /\ Len(B) = Len(b) + 1 /\ Len(b) \in Nat
      /\ \A j \in 1..Len(b) : B[j] = b[j]
      /\ B[Len(b) + 1].version = v /\ B[Len(b) + 1].nth = commits + 1
  BY <1>1, <1>2, AppendProperties
<1>4. /\ k \in Clone /\ Becomes(c, k) /\ k.branch = B /\ k.pc = next
      /\ k.version = clone[c].version
  BY <1>1, <1>3 DEF Committed, Clone, Steps
<1>5. \A j \in 1..Len(B) : j \in 1..Len(b) \/ j = Len(b) + 1
  BY <1>3
<1>6. \A j \in 1..Len(b) : b[j].nth <= commits /\ b[j].nth \in Nat
  BY <1>1, Elements DEF CloneInv, History
<1> HIDE DEF b, B, k
<1>7. InOrder(k)
  BY <1>3, <1>4, EmptySeq DEF InOrder, Dated, Last
<1>8. History(k.branch, commits')
  <2>1. History(b, commits)
    BY <1>1 DEF CloneInv, b
  <2>2. B # <<>> /\ B[1].version = First
    BY <1>1, <1>3, <2>1, EmptySeq DEF History, b
  <2>3. \A j \in 1..Len(B) : B[j].nth <= commits + 1
    BY <1>1, <1>3, <1>5, <1>6
  <2>4. \A j, m \in 1..Len(B) : B[j].nth = B[m].nth => j = m
    BY <1>1, <1>3, <1>5, <1>6, <2>1 DEF History
  <2> QED
    BY <1>2, <1>4, <2>2, <2>3, <2>4 DEF History
<1>9. Aligned(k.branch, origin)
  <2>1. Aligned(b, origin) /\ \A m \in 1..Len(origin) : origin[m].nth # commits + 1
    BY <1>1, Elements DEF IInv, TypeOK, CloneInv, History, b
  <2>2. \A j \in 1..Len(b) : \A l \in 1..j : l \in 1..Len(b)
    BY <1>3
  <2> QED
    BY <1>3, <1>4, <1>5, <2>1, <2>2 DEF Aligned
<1>10. Unreleased(k, origin)
  <2>1. /\ Unreleased(clone[c], origin) /\ clone[c].branch = b
        /\ clone[c].pc \notin {"guard", "floor", "tag", "push", "failed"}
    BY <1>1 DEF CloneInv, b
  <2>2. \A j \in 1..Len(b) : b[j].version # 0 => j <= Len(origin) /\ b[j] = origin[j]
    BY <2>1 DEF Unreleased
  <2> QED
    BY <1>3, <1>4, <1>5, <2>2 DEF Unreleased
<1>11. Releasing(k)
  BY <1>1, <1>3, <1>4 DEF CloneInv, Releasing, b
<1>12. Floor(k, origin, published)
  BY <1>4 DEF Floor
<1>13. \A d \in Clones : d # c => Owned(k.branch, clone[d].branch, origin)
  <2> SUFFICES ASSUME NEW d \in Clones, d # c,
                      NEW j \in 1..Len(B), NEW l \in 1..Len(clone[d].branch),
                      B[j].nth = clone[d].branch[l].nth
               PROVE  HasNth(origin, B[j].nth)
    BY <1>4 DEF Owned
  <2>1. clone[d].branch[l].nth <= commits /\ clone[d].branch[l].nth \in Nat
    BY Elements DEF IInv, TypeOK, Clone, CloneInv, History
  <2>2. j \in 1..Len(b) /\ B[j] = b[j]
    BY <1>1, <1>3, <1>5, <2>1
  <2> QED
    BY <2>2 DEF IInv, Owned, b
<1> QED
  BY <1>2, <1>4, <1>7, <1>8, <1>9, <1>10, <1>11, <1>12, <1>13, LocalStep
     DEF Committed, Local, CloneInv

LEMMA CommitStep ==
  ASSUME IInv, NEW c \in Clones, Commit(c)
  PROVE  IInv'
BY CommittedStep DEF Commit, At

LEMMA CommitReleaseStep ==
  ASSUME IInv, NEW c \in Clones, CommitRelease(c)
  PROVE  IInv'
<1>1. clone[c].pc = "check" /\ clone[c].version \in Versions
  BY DEF CommitRelease, At, IInv, CloneInv, Releasing
<1> QED
  BY <1>1, CommittedStep DEF CommitRelease

(* What a clone has after the merge base, origin has not, so the branch    *)
(* rebased onto origin is a history again.                                 *)
LEMMA PullStep ==
  ASSUME IInv, NEW c \in Clones, Pull(c)
  PROVE  IInv'
<1> DEFINE b == clone[c].branch
<1>1. PICK m \in 0..Len(b), tags \in {{}, DOMAIN published} :
        /\ Base(c, m)
        /\ Becomes(c, [clone[c] EXCEPT
             !.branch = origin \o SubSeq(@, m + 1, Len(@)), !.tags = @ \cup tags])
  BY DEF Pull
<1> DEFINE n == Len(origin)
           B == Onto(b, origin, m)
           k == [clone[c] EXCEPT !.branch = origin \o SubSeq(@, m + 1, Len(@)),
                                 !.tags = @ \cup tags]
<1>2. /\ clone[c] \in Clone /\ b \in Seq(Commits) /\ origin \in Seq(Commits)
      /\ n \in Nat /\ Len(b) \in Nat /\ m <= n
      /\ CloneInv(clone[c], origin, published, commits) /\ clone[c].pc = "idle"
      /\ DOMAIN published \in Tags
  BY <1>1 DEF Pull, At, IInv, TypeOK, Clone, Base
<1>3. /\ B \in Seq(Commits) /\ Len(B) = n + Len(b) - m
      /\ \A j \in 1..n : B[j] = origin[j]
      /\ \A j \in n + 1..Len(B) : j - n + m \in m + 1..Len(b) /\ B[j] = b[j - n + m]
  <2> HIDE DEF b
  <2> QED
    BY <1>2, Rebased
<1>4. k \in Clone /\ Becomes(c, k) /\ k.branch = B /\ k.pc = "idle"
  BY <1>1, <1>2, <1>3 DEF Clone, Tags, Onto
<1>5. /\ History(origin, commits) /\ History(b, commits) /\ Aligned(b, origin)
      /\ \A i \in 1..Len(b) : b[i].version # 0 => i \in 1..n /\ b[i] = origin[i]
      /\ \A d \in Clones : d # c => Owned(b, clone[d].branch, origin)
  BY <1>2 DEF IInv, CloneInv, Unreleased
<1>6. \A i \in m + 1..Len(b) : i \in 1..Len(b)
  BY <1>2
<1>7. \A j \in 1..Len(B) : j \in 1..n \/ j \in n + 1..Len(B)
  BY <1>2, <1>3
<1> HIDE DEF k, B, b
<1>8. \A i \in m + 1..Len(b), q \in 1..n : b[i].nth # origin[q].nth
  <2> SUFFICES ASSUME NEW i \in m + 1..Len(b), NEW q \in 1..n, b[i].nth = origin[q].nth
               PROVE  FALSE
    OBVIOUS
  <2>1. i = q /\ \A l \in 1..q : b[l] = origin[l]
    BY <1>5, <1>6 DEF Aligned
  <2>2. m < Len(b) /\ m < Len(origin) /\ m + 1 \in 1..q
    BY <1>2, <2>1
  <2> QED
    BY <1>1, <2>1, <2>2 DEF Base, b
<1>9. History(B, commits)
  <2>1. n > 0 /\ B # <<>> /\ B[1].version = First
    BY <1>2, <1>3, <1>5, EmptySeq DEF History
  <2>2. \A j \in 1..Len(B) : B[j].nth <= commits
    <3>1. \A j \in 1..n : B[j].nth <= commits
      BY <1>3, <1>5 DEF History
    <3>2. \A j \in n + 1..Len(B) : B[j].nth <= commits
      BY <1>3, <1>5, <1>6 DEF History
    <3> QED
      BY <1>7, <3>1, <3>2
  <2>3. ASSUME NEW j \in 1..Len(B), NEW l \in 1..Len(B), B[j].nth = B[l].nth
        PROVE  j = l
    <3>1. CASE j \in 1..n /\ l \in 1..n
      BY <1>3, <1>5, <2>3, <3>1 DEF History
    <3>2. CASE j \in 1..n /\ l \in n + 1..Len(B)
      BY <1>3, <1>8, <2>3, <3>2
    <3>3. CASE j \in n + 1..Len(B) /\ l \in 1..n
      BY <1>3, <1>8, <2>3, <3>3
    <3>4. CASE j \in n + 1..Len(B) /\ l \in n + 1..Len(B)
      <4>1. /\ j - n + m \in 1..Len(b) /\ B[j] = b[j - n + m]
            /\ l - n + m \in 1..Len(b) /\ B[l] = b[l - n + m]
        BY <1>3, <1>6, <3>4
      <4>2. j - n + m = l - n + m
        BY <1>5, <2>3, <4>1 DEF History
      <4> QED
        BY <1>2, <3>4, <4>2
    <3> QED
      BY <1>7, <3>1, <3>2, <3>3, <3>4
  <2> QED
    BY <2>1, <2>2, <2>3 DEF History
<1>10. Aligned(B, origin)
  <2> SUFFICES ASSUME NEW j \in 1..Len(B), NEW q \in 1..n, B[j].nth = origin[q].nth
               PROVE  j = q /\ \A l \in 1..q : B[l] = origin[l]
    BY DEF Aligned
  <2>1. \A i \in n + 1..Len(B) : B[i].nth # origin[q].nth
    BY <1>3, <1>8
  <2>2. j \in 1..n
    BY <1>7, <2>1
  <2>3. j = q
    BY <1>3, <1>5, <2>2 DEF History
  <2>4. \A l \in 1..q : l \in 1..n
    BY <1>2
  <2> QED
    BY <1>3, <2>3, <2>4
<1>11. \A j \in 1..Len(B) : B[j].version # 0 => j \in 1..n /\ B[j] = origin[j]
  BY <1>3, <1>5, <1>6, <1>7, <1>8
<1>12. Unreleased(k, origin)
  BY <1>2, <1>4, <1>11 DEF Unreleased
<1>13. InOrder(k) /\ Releasing(k) /\ Floor(k, origin, published)
  BY <1>4, <1>9 DEF InOrder, History, Releasing, Floor
<1>14. ASSUME NEW d \in Clones, d # c
       PROVE  Owned(B, clone[d].branch, origin)
  <2>1. \A j \in 1..n : HasNth(origin, B[j].nth)
    BY <1>3 DEF HasNth
  <2>2. Owned(b, clone[d].branch, origin)
    BY <1>5, <1>14
  <2> QED
    BY <1>3, <1>6, <1>7, <2>1, <2>2 DEF Owned
<1>15. commits' = commits /\ commits \in commits..MaxCommits /\ UNCHANGED <<origin, published>>
  BY BoundAssumption DEF Pull, Local, IInv, TypeOK
<1> QED
  BY <1>4, <1>9, <1>10, <1>12, <1>13, <1>14, <1>15, LocalStep DEF CloneInv
(* What is undone is the release's own commit, which is HEAD.              *)
LEMMA UndoStep ==
  ASSUME IInv, NEW c \in Clones, Undo(c)
  PROVE  IInv'
<1> DEFINE b == clone[c].branch
           B == IF HasCommitted(c) THEN Front(b) ELSE b
<1>1. PICK tags \in {clone[c].tags, clone[c].tags \ {clone[c].version}} :
        Becomes(c, Rest([clone[c] EXCEPT
          !.branch = IF HasCommitted(c) THEN Front(@) ELSE @, !.tags = tags, !.dirty = FALSE]))
  BY DEF Undo
<1> DEFINE k == Rest([clone[c] EXCEPT
                  !.branch = IF HasCommitted(c) THEN Front(@) ELSE @,
                  !.tags = tags, !.dirty = FALSE])
<1>2. /\ clone[c] \in Clone /\ b \in Seq(Commits) /\ b # <<>> /\ Len(b) > 1
      /\ CloneInv(clone[c], origin, published, commits) /\ clone[c].pc = "failed"
  BY DEF Undo, At, IInv, TypeOK, Clone, CloneInv, InOrder, Releasing
<1>3. /\ B \in Seq(Commits) /\ Len(B) \in 1..Len(b)
      /\ \A j \in 1..Len(B) : j \in 1..Len(b) /\ B[j] = b[j]
      /\ HasCommitted(c) => Len(B) = Len(b) - 1
  BY <1>2, FrontElements
<1>4. k \in Clone /\ Becomes(c, k) /\ k.branch = B /\ k.pc = "idle"
  BY <1>1, <1>2, <1>3 DEF Clone, Rest, Tags, Steps
<1>5. /\ History(b, commits) /\ Aligned(b, origin)
      /\ \A j \in 1..Len(b) : b[j].version # 0 =>
           \/ j <= Len(origin) /\ b[j] = origin[j]
           \/ j = Len(b) /\ HasCommitted(c)
      /\ \A d \in Clones : d # c => Owned(b, clone[d].branch, origin)
  BY <1>2 DEF IInv, CloneInv, Unreleased, HasCommitted, Dated, Last
<1> HIDE DEF k, B, b
<1>6. History(B, commits)
  BY <1>3, <1>5, EmptySeq DEF History
<1>7. Aligned(B, origin)
  <2>1. \A j \in 1..Len(B) : \A l \in 1..j : l \in 1..Len(B)
    BY <1>3
  <2> QED
    BY <1>3, <1>5, <2>1 DEF Aligned
<1>8. Unreleased(k, origin)
  <2>1. \A j \in 1..Len(B) : ~(j = Len(b) /\ HasCommitted(c))
    BY <1>3
  <2> QED
    BY <1>3, <1>4, <1>5, <2>1 DEF Unreleased
<1>9. InOrder(k) /\ Releasing(k) /\ Floor(k, origin, published)
  BY <1>4, <1>6 DEF InOrder, History, Releasing, Floor
<1>10. \A d \in Clones : d # c => Owned(B, clone[d].branch, origin)
  BY <1>3, <1>5 DEF Owned
<1>11. commits' = commits /\ commits \in commits..MaxCommits /\ UNCHANGED <<origin, published>>
  BY BoundAssumption DEF Undo, Local, IInv, TypeOK
<1> QED
  BY <1>4, <1>6, <1>7, <1>8, <1>9, <1>10, <1>11, LocalStep DEF CloneInv

----------------------------------------------------------------------------
(* The steps that move origin.                                             *)

(* When origin takes a clone's branch, every clone stands to the new       *)
(* origin as it stood to the old one.                                      *)
LEMMA OriginMoves ==
  ASSUME IInv, NEW c \in Clones, FastForward(c), NEW d \in Clones
  PROVE  /\ Aligned(clone[d].branch, clone[c].branch)
         /\ \A j \in 1..Len(clone[d].branch) :
              j <= Len(origin) /\ clone[d].branch[j] = origin[j] =>
                j <= Len(clone[c].branch) /\ clone[d].branch[j] = clone[c].branch[j]
         /\ \A nth : HasNth(origin, nth) => HasNth(clone[c].branch, nth)
<1> DEFINE b == clone[c].branch
           t == clone[d].branch
<1>1. /\ b \in Seq(Commits) /\ t \in Seq(Commits) /\ origin \in Seq(Commits)
      /\ History(b, commits) /\ Aligned(b, origin) /\ Aligned(t, origin)
      /\ IsPrefix(origin, b)
      /\ d # c => Owned(t, b, origin)
  BY DEF IInv, TypeOK, Clone, CloneInv, FastForward
<1>2. t = b \/ d # c
  OBVIOUS
<1> HIDE DEF b, t
<1>3. /\ Len(origin) <= Len(b) /\ Len(origin) \in Nat /\ Len(b) \in Nat /\ Len(t) \in Nat
      /\ \A j \in 1..Len(origin) : j \in 1..Len(b) /\ origin[j] = b[j]
  BY <1>1, PrefixElements
<1>4. Aligned(t, b)
  <2> SUFFICES ASSUME NEW j \in 1..Len(t), NEW m \in 1..Len(b), t[j].nth = b[m].nth
               PROVE  j = m /\ \A l \in 1..m : t[l] = b[l]
    BY DEF Aligned
  <2>1. CASE t = b
    BY <1>1, <2>1 DEF History
  <2>2. CASE d # c
    <3>1. PICK q \in 1..Len(origin) : origin[q].nth = t[j].nth
      BY <1>1, <2>2 DEF Owned, HasNth
    <3>2. /\ j = q /\ \A l \in 1..q : t[l] = origin[l]
          /\ m = q /\ \A l \in 1..q : b[l] = origin[l]
      BY <1>1, <3>1 DEF Aligned
    <3> QED
      BY <3>2
  <2> QED
    BY <1>2, <2>1, <2>2
<1>5. \A j \in 1..Len(t) : j <= Len(origin) /\ t[j] = origin[j] => j <= Len(b) /\ t[j] = b[j]
  BY <1>3
<1>6. \A nth : HasNth(origin, nth) => HasNth(b, nth)
  BY <1>3 DEF HasNth
<1> QED
  BY <1>4, <1>5, <1>6 DEF b, t

(* So a step in which origin takes the branch of a clone, which keeps it,  *)
(* need only be looked at in what is published, and in the floors.         *)
LEMMA PushedStep ==
  ASSUME IInv, NEW c \in Clones, FastForward(c), NEW k \in Clone, Becomes(c, k),
         k.branch = clone[c].branch, origin' = clone[c].branch, UNCHANGED commits,
         First \in DOMAIN published', DOMAIN published' \in Tags,
         Tagging(origin', published'),
         InOrder(k), Releasing(k), Floor(k, origin', published'),
         \A d \in Clones : d # c => Floor(clone[d], origin', published')
  PROVE  IInv'
<1> DEFINE b == clone[c].branch
<1>1. /\ clone' \in [Clones -> Clone]
      /\ clone'[c] = k
      /\ \A d \in Clones : d # c => clone'[d] = clone[d]
  BY BecomesClone DEF IInv
<1>2. \A d \in Clones : /\ InOrder(clone[d]) /\ Releasing(clone[d]) /\ Unreleased(clone[d], origin)
                        /\ History(clone[d].branch, commits)
  BY DEF IInv, CloneInv
<1>3. \A d \in Clones : clone'[d].branch = clone[d].branch
  BY <1>1
<1>4. \A d \in Clones : Unreleased(clone'[d], b)
  <2>1. Unreleased(k, b)
    BY DEF Unreleased, IInv, TypeOK, Clone
  <2>2. \A d \in Clones : Unreleased(clone[d], b)
    BY <1>2, OriginMoves DEF Unreleased
  <2> QED
    BY <1>1, <2>1, <2>2
<1>5. \A d \in Clones : Aligned(clone'[d].branch, b)
  BY <1>3, OriginMoves
<1>6. \A d, e \in Clones : d # e => Owned(clone'[d].branch, clone'[e].branch, b)
  <2>1. \A nth : HasNth(origin, nth) => HasNth(b, nth)
    BY OriginMoves
  <2> QED
    BY <1>3, <2>1 DEF IInv, Owned
<1>7. \A d \in Clones : InOrder(clone'[d]) /\ Releasing(clone'[d])
                        /\ Floor(clone'[d], origin', published')
  BY <1>1, <1>2
<1>8. History(origin', commits')
  BY <1>2
<1>9. \A d \in Clones : CloneInv(clone'[d], origin', published', commits')
  BY <1>2, <1>3, <1>4, <1>5, <1>7 DEF CloneInv
<1>10. TypeOK'
  BY <1>1, <1>7 DEF IInv, TypeOK, Clone
<1> QED
  BY <1>6, <1>8, <1>9, <1>10 DEF IInv

(* The tags still name the branch, which only grew.                        *)
LEMMA TagsKept ==
  ASSUME IInv, NEW c \in Clones, FastForward(c)
  PROVE  LET b == clone[c].branch
         IN  /\ \A j \in 1..Len(origin) : /\ j \in 1..Len(b) /\ b[j] = origin[j]
                                          /\ SubSeq(b, 1, j) = SubSeq(origin, 1, j)
             /\ \A v \in DOMAIN published : \E j \in 1..Len(b) :
                  b[j].version = v /\ published[v] = SubSeq(b, 1, j)
<1> DEFINE b == clone[c].branch
<1>1. b \in Seq(Commits) /\ origin \in Seq(Commits) /\ IsPrefix(origin, b)
  BY DEF IInv, TypeOK, Clone, FastForward
<1> HIDE DEF b
<1>2. /\ Len(origin) <= Len(b) /\ Len(origin) \in Nat /\ Len(b) \in Nat
      /\ \A j \in 1..Len(origin) : origin[j] = b[j]
  BY <1>1, PrefixElements
<1>3. ASSUME NEW j \in 1..Len(origin)
      PROVE  j \in 1..Len(b) /\ b[j] = origin[j] /\ SubSeq(b, 1, j) = SubSeq(origin, 1, j)
  <2>1. j \in 0..Len(b) /\ j <= Len(origin) /\ \A l \in 1..j : b[l] = origin[l]
    BY <1>2
  <2>2. SubSeq(b, 1, j) = SubSeq(origin, 1, j)
    BY <1>1, <2>1, SamePrefix
  <2> QED
    BY <1>2, <2>2
<1>4. \A v \in DOMAIN published : \E j \in 1..Len(b) :
        b[j].version = v /\ published[v] = SubSeq(b, 1, j)
  BY <1>3 DEF IInv, Tagging
<1> QED
  BY <1>3, <1>4 DEF b
(* A developer's push publishes no version: the branch has no commit of a  *)
(* release that origin has not.                                            *)
LEMMA PushBranchStep ==
  ASSUME IInv, NEW c \in Clones, PushBranch(c)
  PROVE  IInv'
<1> DEFINE b == clone[c].branch
<1>1. /\ FastForward(c) /\ clone[c].pc = "idle" /\ origin' = b
      /\ UNCHANGED <<published, clone, commits>>
  BY DEF PushBranch, FastForward, At
<1>2. /\ clone \in [Clones -> Clone] /\ clone[c] \in Clone /\ b \in Seq(Commits)
      /\ origin \in Seq(Commits)
      /\ First \in DOMAIN published /\ DOMAIN published \in Tags
      /\ CloneInv(clone[c], origin, published, commits)
  BY DEF IInv, TypeOK, Clone
<1>3. Becomes(c, clone[c])
  BY <1>1, <1>2 DEF Becomes
<1>4. Tagging(b, published)
  <2>1. \A j \in 1..Len(b) : b[j].version # 0 => j \in 1..Len(origin) /\ b[j] = origin[j]
    BY <1>1, <1>2 DEF CloneInv, Unreleased
  <2>2. \A j \in 1..Len(b) : b[j].version # 0 =>
          b[j].version \in DOMAIN published /\ published[b[j].version] = SubSeq(b, 1, j)
    BY <1>1, <2>1, TagsKept DEF IInv, Tagging
  <2>3. \A v \in DOMAIN published : \E j \in 1..Len(b) :
          b[j].version = v /\ published[v] = SubSeq(b, 1, j)
    BY <1>1, TagsKept
  <2> QED
    BY <2>2, <2>3 DEF Tagging
<1>5. \A d \in Clones : Floor(clone[d], b, published)
  <2> SUFFICES ASSUME NEW d \in Clones, IsPrefix(b, clone[d].branch)
               PROVE  IsPrefix(origin, clone[d].branch)
    BY DEF Floor, IInv, CloneInv
  <2>1. clone[d].branch \in Seq(Commits)
    BY <1>2 DEF Clone
  <2>2. Len(b) <= Len(clone[d].branch) /\ \A l \in 1..Len(b) : b[l] = clone[d].branch[l]
    BY <1>2, <2>1, PrefixElements
  <2>3. Len(origin) <= Len(b) /\ \A l \in 1..Len(origin) : l \in 1..Len(b) /\ origin[l] = b[l]
    BY <1>1, <1>2, TagsKept, PrefixElements DEF FastForward
  <2>4. Len(origin) <= Len(clone[d].branch) /\ \A l \in 1..Len(origin) : origin[l] = clone[d].branch[l]
    BY <1>2, <2>1, <2>2, <2>3
  <2> QED
    BY <1>2, <2>1, <2>4, PrefixElements
<1> QED
  BY <1>1, <1>2, <1>3, <1>4, <1>5, PushedStep DEF CloneInv

(* The commit of a release that may be pushed is not on origin, which      *)
(* would have published it.                                                *)
LEMMA HeadIsNew ==
  ASSUME IInv, NEW c \in Clones, At(c, "push"), NewTag(c)
  PROVE  LET b == clone[c].branch
         IN  /\ Len(b) \in 1..Len(b) /\ b[Len(b)].version = clone[c].version
             /\ ~HasNth(origin, b[Len(b)].nth)
<1> DEFINE b == clone[c].branch
           n == Len(b)
<1>1. /\ b \in Seq(Commits) /\ origin \in Seq(Commits) /\ b # <<>>
      /\ CloneInv(clone[c], origin, published, commits)
      /\ b[n].version = clone[c].version /\ clone[c].version \in Versions
  BY DEF At, IInv, TypeOK, Clone, CloneInv, InOrder, Releasing, Dated, Last
<1>2. n \in 1..n
  BY <1>1, EmptySeq
<1>3. ASSUME NEW q \in 1..Len(origin), origin[q].nth = b[n].nth
      PROVE  FALSE
  <2>1. q = n /\ b[n] = origin[n]
    BY <1>1, <1>2, <1>3 DEF CloneInv, Aligned
  <2>2. clone[c].version # 0
    BY <1>1, VersionsAssumption
  <2> QED
    BY <1>1, <2>1, <2>2 DEF IInv, Tagging, NewTag
<1> QED
  BY <1>1, <1>2, <1>3 DEF HasNth

(* The release's push publishes its commit and its tag, and origin then    *)
(* takes the branch of no clone that does not hold them.                   *)
LEMMA PushStep ==
  ASSUME IInv, NEW c \in Clones, Push(c)
  PROVE  IInv'
<1>1. CASE ~(FastForward(c) /\ NewTag(c))
  BY <1>1, FailedStep DEF Push, At, Local
<1>2. CASE FastForward(c) /\ NewTag(c)
  <2> DEFINE b == clone[c].branch
             v == clone[c].version
  <2>1. PICK k \in {Rest(clone[c]), [clone[c] EXCEPT !.pc = "failed"]} : Becomes(c, k)
    BY <1>2 DEF Push
  <2>2. /\ clone \in [Clones -> Clone] /\ clone[c] \in Clone /\ clone[c].pc = "push"
        /\ b \in Seq(Commits) /\ origin \in Seq(Commits)
        /\ First \in DOMAIN published /\ DOMAIN published \in Tags
        /\ CloneInv(clone[c], origin, published, commits)
        /\ origin' = b /\ published' = Tagged(c) /\ UNCHANGED commits
        /\ v \notin DOMAIN published /\ v \in Versions
    BY <1>2 DEF Push, At, IInv, TypeOK, Clone, CloneInv, Releasing, NewTag
  <2>3. /\ k \in Clone /\ k.branch = b /\ k.pc \in {"idle", "failed"}
        /\ k.pc = "failed" => k.version = v
    BY <2>2 DEF Clone, Rest, Steps, Tags
  <2>4. InOrder(k) /\ Releasing(k) /\ Floor(k, b, Tagged(c))
    BY <2>2, <2>3 DEF CloneInv, InOrder, Releasing, Floor
  <2>5. /\ DOMAIN published' = DOMAIN published \cup {v}
        /\ \A u \in DOMAIN published : published'[u] = published[u]
        /\ published'[v] = b
    BY <2>2 DEF Tagged
  <2>6. First \in DOMAIN published' /\ DOMAIN published' \in Tags
    BY <2>2, <2>5 DEF Tags
  <2>7. Len(b) \in 1..Len(b) /\ b[Len(b)].version = v /\ ~HasNth(origin, b[Len(b)].nth)
    BY <1>2, <2>2, HeadIsNew DEF At
  <2>8. SubSeq(b, 1, Len(b)) = b
    <3> HIDE DEF b
    <3>1. Len(b) \in 0..Len(b)
      BY <2>2
    <3> QED
      BY <2>2, <3>1, Initial, SeqEqual
  <2>9. Tagging(b, published')
    <3>1. ASSUME NEW j \in 1..Len(b), b[j].version # 0
          PROVE  b[j].version \in DOMAIN published' /\ published'[b[j].version] = SubSeq(b, 1, j)
      <4>1. CASE j \in 1..Len(origin) /\ b[j] = origin[j]
        BY <1>2, <2>5, <3>1, <4>1, TagsKept DEF IInv, Tagging
      <4>2. CASE j = Len(b) /\ b[j].version = v
        BY <2>5, <2>8, <4>2
      <4> QED
        BY <2>2, <3>1, <4>1, <4>2 DEF CloneInv, Unreleased
    <3>2. ASSUME NEW u \in DOMAIN published'
          PROVE  \E j \in 1..Len(b) : b[j].version = u /\ published'[u] = SubSeq(b, 1, j)
      <4>1. CASE u \in DOMAIN published
        <5>1. PICK j \in 1..Len(b) : b[j].version = u /\ published[u] = SubSeq(b, 1, j)
          BY <1>2, <4>1, TagsKept
        <5> QED
          BY <2>5, <4>1, <5>1
      <4>2. CASE u = v
        BY <2>5, <2>7, <2>8, <4>2
      <4> QED
        BY <2>5, <4>1, <4>2
    <3> QED
      BY <3>1, <3>2 DEF Tagging
  <2>10. ASSUME NEW d \in Clones, d # c
         PROVE  Floor(clone[d], b, published')
    <3> SUFFICES ASSUME IsPrefix(b, clone[d].branch)
                 PROVE  FALSE
      BY DEF Floor
    <3>1. clone[d].branch \in Seq(Commits)
      BY <2>2 DEF Clone
    <3>2. Len(b) \in 1..Len(clone[d].branch) /\ b[Len(b)] = clone[d].branch[Len(b)]
      <4> HIDE DEF b
      <4>1. Len(b) <= Len(clone[d].branch) /\ \A l \in 1..Len(b) : b[l] = clone[d].branch[l]
        BY <2>2, <3>1, PrefixElements
      <4> QED
        BY <2>2, <2>7, <3>1, <4>1
    <3>3. Owned(b, clone[d].branch, origin)
      BY <2>10 DEF IInv
    <3> QED
      BY <2>7, <3>2, <3>3 DEF Owned
  <2> QED
    BY <1>2, <2>1, <2>2, <2>3, <2>4, <2>6, <2>9, <2>10, PushedStep
<1> QED
  BY <1>1, <1>2

----------------------------------------------------------------------------
LEMMA InitStep ==
  ASSUME Init
  PROVE  IInv
<1> DEFINE o == <<[version |-> First, nth |-> 0]>>
<1>1. /\ o \in Seq(Commits) /\ Len(o) = 1 /\ o # <<>>
      /\ o[1].version = First /\ o[1].nth = 0 /\ SubSeq(o, 1, 1) = o
  <2>1. o \in Seq(Commits) /\ Len(o) = 1 /\ o[1].version = First /\ o[1].nth = 0
    BY BoundAssumption DEF Commits
  <2> HIDE DEF o
  <2> QED
    BY <2>1, Initial, SeqEqual, EmptySeq
<1>2. /\ origin = o /\ commits = 0 /\ published = [v \in {First} |-> o]
      /\ \A c \in Clones : clone[c] =
           [branch |-> o, tags |-> {First}, dirty |-> FALSE,
            pc |-> "idle", version |-> 0, seen |-> {}]
      /\ clone \in [Clones -> Clone]
  BY <1>1 DEF Init, Clone, Tags, Steps
<1> HIDE DEF o
<1>3. \A j \in 1..Len(o) : j = 1
  BY <1>1
<1>4. TypeOK
  BY <1>1, <1>2, BoundAssumption DEF TypeOK, InOrder, Tags
<1>5. History(o, 0)
  BY <1>1, <1>3 DEF History
<1>6. Tagging(o, published)
  BY <1>1, <1>2, <1>3 DEF Tagging
<1>7. Aligned(o, o)
  BY <1>3 DEF Aligned
<1>8. \A c \in Clones : CloneInv(clone[c], origin, published, commits)
  <2>1. \A c \in Clones : InOrder(clone[c])
    BY <1>4 DEF TypeOK
  <2> QED
    BY <1>1, <1>2, <1>5, <1>7, <2>1 DEF CloneInv, Unreleased, Releasing, Floor
<1>9. Owned(o, o, o)
  BY <1>1 DEF Owned, HasNth
<1> QED
  BY <1>2, <1>4, <1>5, <1>6, <1>8, <1>9 DEF IInv

LEMMA NextStep ==
  ASSUME IInv, [Next]_vars
  PROVE  IInv'
<1>1. CASE UNCHANGED vars
  BY <1>1 DEF vars, IInv, TypeOK, CloneInv, InOrder, Dated, Releasing, Unreleased, Floor
<1>2. ASSUME NEW c \in Clones,
             \/ Touch(c) \/ Commit(c) \/ PushBranch(c) \/ Pull(c)
             \/ Start(c) \/ CommitRelease(c) \/ ReadPublished(c) \/ Guard(c)
             \/ WriteTag(c) \/ Push(c) \/ Fail(c) \/ Undo(c)
      PROVE  IInv'
  <2>1. CASE Fail(c)
    BY <2>1, FailedStep DEF Fail, Local
  <2> QED
    BY <1>2, <2>1, TouchStep, CommitStep, PushBranchStep, PullStep, StartStep,
       CommitReleaseStep, ReadPublishedStep, GuardStep, WriteTagStep, PushStep, UndoStep
<1> QED
  BY <1>1, <1>2 DEF Next

(* However clones release, push and pull, and wherever a release stops,    *)
(* the invariant holds.                                                    *)
THEOREM Invariant == Spec => []IInv
<1>1. Init => IInv
  BY InitStep
<1>2. IInv /\ [Next]_vars => IInv'
  BY NextStep
<1> QED
  BY <1>1, <1>2, PTL DEF Spec

(* From the guard on HEAD is the commit of the release that runs, and a    *)
(* tag is written only above every tag the guard read                      *)
(* (release-guard.sh:39-45, 79-90).                                        *)
THEOREM TypeCorrect == Spec => []TypeOK
<1>1. IInv => TypeOK
  BY DEF IInv
<1> QED
  BY <1>1, Invariant, PTL

(* The branch and the tags of origin tell of the same releases, for any    *)
(* number of clones that release and push at once (Makefile:71-76).        *)
THEOREM TagsOnBranchAlways == Spec => []TagsOnBranch
<1>1. ASSUME IInv PROVE TagsOnBranch
  <2>1. origin \in Seq(Commits) /\ DOMAIN published \in Tags /\ Tagging(origin, published)
    BY <1>1 DEF IInv, TypeOK
  <2>2. ASSUME NEW v \in DOMAIN published
        PROVE  IsPrefix(published[v], origin) /\ Dates(published[v], v)
    <3>1. PICK j \in 1..Len(origin) : origin[j].version = v /\ published[v] = SubSeq(origin, 1, j)
      BY <2>1 DEF Tagging
    <3> DEFINE h == SubSeq(origin, 1, j)
    <3>2. h \in Seq(Commits) /\ Len(h) = j /\ \A l \in 1..j : h[l] = origin[l]
      BY <2>1, Initial
    <3> HIDE DEF h
    <3>3. IsPrefix(h, origin)
      BY <2>1, <3>2, PrefixElements
    <3>4. Dates(h, v)
      BY <3>1, <3>2, EmptySeq DEF Dates, Last
    <3> QED
      BY <3>1, <3>3, <3>4 DEF h
  <2>3. DOMAIN origin = 1..Len(origin)
    BY <2>1
  <2> QED
    BY <2>1, <2>2, <2>3 DEF TagsOnBranch, Tagging
<1> QED
  BY <1>1, Invariant, PTL

(* A clone that runs no release holds no release commit that origin does   *)
(* not publish: a release that stopped anywhere and was undone has left    *)
(* nothing (release-guard.sh:10-12, CONTRIBUTING.md:64-66).                *)
THEOREM NothingHalfReleasedAlways == Spec => []NothingHalfReleased
<1>1. ASSUME IInv PROVE NothingHalfReleased
  <2> SUFFICES ASSUME NEW c \in Clones, At(c, "idle"), NEW i \in DOMAIN clone[c].branch,
                      clone[c].branch[i].version # 0
               PROVE  /\ clone[c].branch[i].version \in DOMAIN published
                      /\ Contains(origin, clone[c].branch[i])
    BY DEF NothingHalfReleased
  <2>1. origin \in Seq(Commits) /\ clone[c].branch \in Seq(Commits)
    BY <1>1 DEF IInv, TypeOK, Clone
  <2>2. i \in 1..Len(clone[c].branch)
    BY <2>1
  <2>3. i \in 1..Len(origin) /\ clone[c].branch[i] = origin[i]
    BY <1>1, <2>1, <2>2 DEF At, IInv, CloneInv, Unreleased
  <2> QED
    BY <1>1, <2>3 DEF IInv, Tagging, Contains
<1> QED
  BY <1>1, Invariant, PTL

(* A version is published once, and above all that are published, although *)
(* the guard read them before, without a lock (release-guard.sh:79-90).    *)
THEOREM PublishedAscendAlways == Spec => PublishedAscend
<1> DEFINE Ascends ==
      /\ \A v \in DOMAIN published : v \in DOMAIN published' /\ published'[v] = published[v]
      /\ \A v \in DOMAIN published' \ DOMAIN published : Above(v, DOMAIN published)
<1>1. ASSUME IInv, [Next]_vars PROVE [Ascends]_vars
  <2>1. CASE UNCHANGED published
    BY <2>1 DEF Ascends
  <2>2. ASSUME NEW c \in Clones, Push(c), FastForward(c), NewTag(c), published' = Tagged(c)
        PROVE  Ascends
    <3>1. Above(clone[c].version, DOMAIN published)
      BY <1>1, <2>2 DEF Push, At, IInv, CloneInv, Floor, FastForward
    <3>2. /\ DOMAIN published' = DOMAIN published \cup {clone[c].version}
          /\ \A u \in DOMAIN published : published'[u] = published[u]
      BY <2>2 DEF Tagged
    <3> QED
      BY <3>1, <3>2
  <2>3. CASE UNCHANGED vars
    BY <2>3 DEF vars
  <2> QED
    BY <1>1, <2>1, <2>2, <2>3
       DEF Next, Touch, Commit, PushBranch, Pull, Start, CommitRelease, ReadPublished,
           Guard, WriteTag, Push, Fail, Undo, Committed, Local
<1> QED
  BY <1>1, Invariant, PTL DEF Spec, PublishedAscend
=============================================================================

--------------------------- MODULE DirGuardProofs ---------------------------
(* Theorems about DirGuard, for any places, trees, names and edits, and    *)
(* however many links are followed.                                        *)
EXTENDS DirGuard, TLAPS, SequenceTheorems, NatSets

(* What an operation found is where its path led in a tree of the call,    *)
(* and it was let through in a tree of the call, perhaps another.          *)
LetThrough == \E t \in saw : check(t, name) = "ok"

Answered ==
  Found(answer) =>
    /\ LetThrough
    /\ \E t \in saw : answer = Resolve(t, root \o name)

(* The root stands until somebody edits.                                   *)
RootStands == edits \in Nat /\ (pc # "dir" /\ edits = 0 => tree[root].kind = "dir")

IInv == TypeOK /\ Answered /\ RootStands /\ RefusedLeadsOut

----------------------------------------------------------------------------
(* Paths.                                                                  *)
LEMMA UptoIs ==
  ASSUME NEW p \in Path, NEW k \in 0..Len(p)
  PROVE  Upto(p, k) \in Path /\ Len(Upto(p, k)) = k /\ \A j \in 1..k : Upto(p, k)[j] = p[j]
<1>1. 1 \in Int /\ k \in Int /\ Len(p) \in Nat
  BY DEF Path
<1>2. \A j \in 1..k : p[j] \in Seq(STRING)
  BY <1>1 DEF Path
<1>3. \A j \in 1..k - 1 + 1 : SubSeq(p, 1, k)[j] = p[1 + j - 1]
  BY <1>1, <1>2, SubSeqProperties
<1>4. SubSeq(p, 1, k) \in Path /\ Len(SubSeq(p, 1, k)) = IF 1 <= k THEN k - 1 + 1 ELSE 0
  BY <1>1, <1>2, SubSeqProperties DEF Path
<1> QED
  BY <1>3, <1>4 DEF Upto

LEMMA Joined ==
  ASSUME NEW p \in Path, NEW q \in Path
  PROVE  /\ p \o q \in Path /\ Len(p \o q) = Len(p) + Len(q)
         /\ Upto(p \o q, Len(p)) = p /\ IsPrefix(p, p \o q)
         /\ \A k \in 0..Len(q) : p \o Upto(q, k) = Upto(p \o q, Len(p) + k)
<1>1. /\ p \o q \in Path /\ Len(p \o q) = Len(p) + Len(q)
      /\ Len(p) \in Nat /\ Len(q) \in Nat
  BY DEF Path
<1>2. \A j \in 1..Len(p) + Len(q) :
        (p \o q)[j] = IF j <= Len(p) THEN p[j] ELSE q[j - Len(p)]
  BY DEF Path
<1>3. Upto(p \o q, Len(p)) = p
  <2>1. Len(p) \in 0..Len(p \o q)
    BY <1>1
  <2>2. /\ Upto(p \o q, Len(p)) \in Path /\ Len(Upto(p \o q, Len(p))) = Len(p)
        /\ \A j \in 1..Len(p) : Upto(p \o q, Len(p))[j] = (p \o q)[j]
    BY <1>1, <2>1, UptoIs
  <2>3. \A j \in 1..Len(p) : Upto(p \o q, Len(p))[j] = p[j]
    BY <1>1, <1>2, <2>2
  <2> QED
    BY <2>2, <2>3, SeqEqual DEF Path
<1>4. IsPrefix(p, p \o q)
  <2>1. SubSeq(p, 1, Len(p)) = p
    BY SubSeqFull DEF Path
  <2> QED
    BY <1>1, <1>3, <2>1 DEF IsPrefix, Upto
<1>5. ASSUME NEW k \in 0..Len(q)
      PROVE  p \o Upto(q, k) = Upto(p \o q, Len(p) + k)
  <2> DEFINE a == p \o Upto(q, k)
             b == Upto(p \o q, Len(p) + k)
  <2>1. Len(p) + k \in 0..Len(p \o q)
    BY <1>1
  <2>2. /\ Upto(q, k) \in Path /\ Len(Upto(q, k)) = k
        /\ \A j \in 1..k : Upto(q, k)[j] = q[j]
    BY UptoIs
  <2>3. /\ b \in Path /\ Len(b) = Len(p) + k
        /\ \A j \in 1..Len(p) + k : b[j] = (p \o q)[j]
    BY <1>1, <2>1, UptoIs
  <2>4. /\ a \in Path /\ Len(a) = Len(p) + k
        /\ \A j \in 1..Len(p) + k : a[j] = IF j <= Len(p) THEN p[j] ELSE Upto(q, k)[j - Len(p)]
    <3>1. PICK c : c = Upto(q, k)
      OBVIOUS
    <3>2. c \in Path /\ Len(c) = k
      BY <2>2, <3>1
    <3>3. p \o c \in Path /\ Len(p \o c) = Len(p) + Len(c)
      BY <3>2, ConcatProperties, Zenon DEF Path
    <3>4. \A j \in 1..Len(p) + Len(c) : (p \o c)[j] = IF j <= Len(p) THEN p[j] ELSE c[j - Len(p)]
      BY <3>2, ConcatProperties, Zenon DEF Path
    <3> QED
      BY <3>1, <3>2, <3>3, <3>4
  <2> HIDE DEF a, b
  <2>5. \A j \in 1..Len(p) + k : a[j] = b[j]
    BY <1>1, <1>2, <2>2, <2>3, <2>4
  <2> QED
    BY <2>3, <2>4, <2>5, SeqEqual DEF a, b, Path
<1> QED
  BY <1>1, <1>3, <1>4, <1>5

LEMMA IsPrefixOf ==
  ASSUME NEW p \in Path, NEW q \in Path
  PROVE  IsPrefix(p, q) <=> Len(p) <= Len(q) /\ Upto(q, Len(p)) = p
BY SubSeqFull DEF IsPrefix, Upto, Path

(* What stands somewhere stands in directories up to the top.              *)
LEMMA Ancestors ==
  ASSUME NEW t, IsTree(t), NEW p \in Places, t[p].kind # "none", NEW k \in 1..Len(p) - 1
  PROVE  Upto(p, k) \in Places /\ t[Upto(p, k)].kind = "dir"
<1>1. p \in Path /\ Len(p) \in Nat
  BY PlacesAssumption DEF Path
<1> DEFINE q(m) == Upto(p, Len(p) - m)
           Stands(m) == /\ q(m) \in Places /\ t[q(m)].kind # "none"
                        /\ m > 0 => t[q(m)].kind = "dir"
           S == {m \in Nat : m < Len(p) => Stands(m)}
<1>2. 0 \in S
  <2>1. Len(p) - 0 = Len(p) /\ q(0) = p
    BY <1>1, SubSeqFull DEF Path, Upto
  <2> QED
    BY <2>1
<1>3. ASSUME NEW m \in S
      PROVE  m + 1 \in S
  <2> SUFFICES ASSUME m + 1 < Len(p) PROVE Stands(m + 1)
    OBVIOUS
  <2>1. Stands(m) /\ m \in Nat
    BY <1>1
  <2>2. PICK n \in Nat : n = Len(p) - m /\ n - 1 = Len(p) - (m + 1)
    BY <1>1
  <2>3. n > 1 /\ n \in 0..Len(p) /\ n - 1 \in 0..Len(p)
    BY <1>1, <2>2
  <2>4. q(m) = Upto(p, n) /\ q(m + 1) = Upto(p, n - 1)
    BY <2>2
  <2>5. /\ Upto(p, n) \in Path /\ Len(Upto(p, n)) = n
        /\ \A j \in 1..n : Upto(p, n)[j] = p[j]
    BY <1>1, <2>3, UptoIs
  <2>6. /\ Upto(p, n - 1) \in Path /\ Len(Upto(p, n - 1)) = n - 1
        /\ \A j \in 1..n - 1 : Upto(p, n - 1)[j] = p[j]
    BY <1>1, <2>3, UptoIs
  <2>7. /\ Upto(Upto(p, n), n - 1) \in Path /\ Len(Upto(Upto(p, n), n - 1)) = n - 1
        /\ \A j \in 1..n - 1 : Upto(Upto(p, n), n - 1)[j] = Upto(p, n)[j]
    <3>1. n - 1 \in 0..Len(Upto(p, n))
      BY <2>3, <2>5
    <3> QED
      BY <2>5, <3>1, UptoIs
  <2>8. Parent(q(m)) = q(m + 1)
    <3>1. Parent(Upto(p, n)) = Upto(Upto(p, n), n - 1)
      BY <2>5 DEF Parent, Front, Upto
    <3>2. \A j \in 1..n - 1 : Upto(Upto(p, n), n - 1)[j] = Upto(p, n - 1)[j]
      BY <2>3, <2>5, <2>6, <2>7
    <3>3. Upto(Upto(p, n), n - 1) = Upto(p, n - 1)
      BY <2>6, <2>7, <3>2, SeqEqual DEF Path
    <3> QED
      BY <2>4, <3>1, <3>3
  <2>9. Parent(q(m)) \in Places /\ t[Parent(q(m))].kind = "dir"
    BY <2>1, <2>3, <2>4, <2>5, PlacesAssumption DEF IsTree
  <2> HIDE DEF q
  <2> QED
    BY <2>1, <2>8, <2>9
<1>4. Len(p) - k \in S
  <2> HIDE DEF S
  <2>1. S = Nat
    <3>1. S \in SUBSET Nat
      BY DEF S
    <3> QED
      BY <1>2, <1>3, <3>1, SetInduction
  <2> QED
    BY <1>1, <2>1
<1>5. Len(p) - (Len(p) - k) = k /\ Len(p) - k > 0 /\ Len(p) - k < Len(p)
  BY <1>1
<1> QED
  BY <1>4, <1>5

LEMMA UptoUpto ==
  ASSUME NEW p \in Path, NEW k \in 0..Len(p), NEW j \in 0..k
  PROVE  Upto(Upto(p, k), j) = Upto(p, j)
<1>1. j \in 0..Len(p) /\ k \in Nat /\ Len(p) \in Nat
  BY DEF Path
<1>2. /\ Upto(p, k) \in Path /\ Len(Upto(p, k)) = k
      /\ \A i \in 1..k : Upto(p, k)[i] = p[i]
  BY UptoIs
<1>3. /\ Upto(p, j) \in Path /\ Len(Upto(p, j)) = j
      /\ \A i \in 1..j : Upto(p, j)[i] = p[i]
  BY <1>1, UptoIs
<1>4. j \in 0..Len(Upto(p, k))
  BY <1>2
<1>5. /\ Upto(Upto(p, k), j) \in Path /\ Len(Upto(Upto(p, k), j)) = j
      /\ \A i \in 1..j : Upto(Upto(p, k), j)[i] = Upto(p, k)[i]
  BY <1>2, <1>4, UptoIs
<1>6. \A i \in 1..j : Upto(Upto(p, k), j)[i] = Upto(p, j)[i]
  BY <1>1, <1>2, <1>3, <1>5
<1> QED
  BY <1>3, <1>5, <1>6, SeqEqual DEF Path

LEMMA PrefixGrows ==
  ASSUME NEW a \in Path, NEW p \in Path, NEW q \in Path, IsPrefix(a, p)
  PROVE  p \o q \in Path /\ IsPrefix(a, p \o q)
<1>1. Len(a) <= Len(p) /\ Upto(p, Len(a)) = a
  BY IsPrefixOf
<1>2. p \o q \in Path /\ Len(p \o q) = Len(p) + Len(q) /\ Upto(p \o q, Len(p)) = p
  BY Joined
<1>3. Len(a) \in Nat /\ Len(p) \in Nat /\ Len(q) \in Nat
  BY DEF Path
<1>4. Len(a) \in 0..Len(p) /\ Len(p) \in 0..Len(p \o q)
  BY <1>1, <1>2, <1>3
<1>5. Upto(p \o q, Len(a)) = Upto(Upto(p \o q, Len(p)), Len(a))
  BY <1>2, <1>4, UptoUpto
<1>6. Len(a) <= Len(p \o q) /\ Upto(p \o q, Len(a)) = a
  BY <1>1, <1>2, <1>3, <1>5
<1>7. p \o q \in Path
  BY <1>2
<1>8. IsPrefix(a, p \o q)
  BY <1>6, <1>7, IsPrefixOf, Zenon
<1> QED
  BY <1>7, <1>8

----------------------------------------------------------------------------
(* Following links.                                                        *)
Hops(t, p, m, g) == g = [n \in 0..m |-> IF n = 0 THEN p ELSE Hop(t, g[n - 1])]

LEMMA HopsExist ==
  ASSUME NEW t, NEW p, NEW m \in Nat
  PROVE  \E g : Hops(t, p, m, g)
<1> DEFINE S == {n \in Nat : \E g : Hops(t, p, n, g)}
<1>1. 0 \in S
  <2> DEFINE g == [n \in 0..0 |-> p]
  <2>1. \A n \in 0..0 : n = 0
    OBVIOUS
  <2>2. g = [n \in 0..0 |-> IF n = 0 THEN p ELSE Hop(t, g[n - 1])]
    BY <2>1
  <2> QED
    BY <2>2 DEF Hops
<1>2. ASSUME NEW k \in S
      PROVE  k + 1 \in S
  <2>1. PICK g : g = [n \in 0..k |-> IF n = 0 THEN p ELSE Hop(t, g[n - 1])]
    BY DEF Hops
  <2>2. k \in Nat
    OBVIOUS
  <2> DEFINE h == [n \in 0..k + 1 |-> IF n = k + 1 THEN Hop(t, g[k]) ELSE g[n]]
  <2>3. ASSUME NEW n \in 0..k + 1
        PROVE  h[n] = IF n = 0 THEN p ELSE Hop(t, h[n - 1])
    <3>1. CASE n = 0
      BY <2>1, <2>2, <3>1
    <3>2. CASE n = k + 1
      BY <2>2, <3>2
    <3>3. CASE n # 0 /\ n # k + 1
      <4>1. n \in 0..k /\ n - 1 \in 0..k + 1 /\ n - 1 # k + 1
        BY <2>2, <3>3
      <4>2. g[n] = Hop(t, g[n - 1])
        BY <2>1, <3>3, <4>1
      <4> QED
        BY <3>3, <4>1, <4>2
    <3> QED
      BY <3>1, <3>2, <3>3
  <2>4. h = [n \in 0..k + 1 |-> IF n = 0 THEN p ELSE Hop(t, h[n - 1])]
    BY <2>3
  <2> HIDE DEF h
  <2> QED
    BY <2>2, <2>4 DEF Hops
<1> HIDE DEF S
<1>3. S = Nat
  <2>1. S \in SUBSET Nat
    BY DEF S
  <2> QED
    BY <1>1, <1>2, <2>1, SetInduction
<1> QED
  BY <1>3 DEF S

LEMMA FollowedIs ==
  ASSUME NEW t, NEW p
  PROVE  \E g : Hops(t, p, MaxHops, g) /\ Followed(t, p) = g[MaxHops]
<1>1. \E g : Hops(t, p, MaxHops, g)
  BY HopsExist, BoundsAssumption
<1> QED
  BY <1>1 DEF Followed, Hops

(* What each hop keeps, following keeps.                                   *)
LEMMA FollowedIn ==
  ASSUME NEW t, NEW K, NEW p \in K, \A q \in K : Hop(t, q) \in K
  PROVE  Followed(t, p) \in K
<1>1. PICK g : Hops(t, p, MaxHops, g) /\ Followed(t, p) = g[MaxHops]
  BY FollowedIs
<1>2. \A n \in 0..MaxHops : g[n] = IF n = 0 THEN p ELSE Hop(t, g[n - 1])
  BY <1>1 DEF Hops
<1> DEFINE S == {n \in Nat : n <= MaxHops => g[n] \in K}
<1>3. 0 \in S
  BY <1>2, BoundsAssumption
<1>4. ASSUME NEW n \in S
      PROVE  n + 1 \in S
  <2> SUFFICES ASSUME n + 1 <= MaxHops PROVE g[n + 1] \in K
    OBVIOUS
  <2>1. n \in Nat /\ n + 1 \in 0..MaxHops /\ n + 1 # 0 /\ (n + 1) - 1 = n /\ n <= MaxHops
    BY BoundsAssumption
  <2>2. g[n + 1] = Hop(t, g[n])
    BY <1>2, <2>1
  <2> QED
    BY <2>1, <2>2
<1> HIDE DEF S
<1>5. S = Nat
  <2>1. S \in SUBSET Nat
    BY DEF S
  <2> QED
    BY <1>3, <1>4, <2>1, SetInduction
<1>6. MaxHops \in S
  BY <1>5, BoundsAssumption
<1> QED
  BY <1>1, <1>6, BoundsAssumption DEF S

(* What is no link and stands somewhere is where its place leads.          *)
LEMMA Straight ==
  ASSUME NEW t, IsTree(t), NEW p \in Places, t[p].kind \in {"file", "dir"}
  PROVE  Resolve(t, p) = [kind |-> t[p].kind, place |-> p]
<1>1. p \in Path /\ Len(p) \in Nat /\ Upto(p, Len(p)) = p
  BY PlacesAssumption, SubSeqFull DEF Path, Upto
<1>2. \A k \in 1..Len(p) - 1 : Node(t, Upto(p, k)).kind = "dir"
  BY Ancestors DEF Node
<1>3. Node(t, p) = t[p]
  BY DEF Node
<1>4. LinksOn(t, p) = {}
  <2>1. \A k \in 1..Len(p) : k = Len(p) \/ k \in 1..Len(p) - 1
    BY <1>1
  <2> QED
    BY <1>1, <1>2, <1>3, <2>1 DEF LinksOn
<1>5. Hop(t, p) = p
  BY <1>4 DEF Hop
<1>6. Followed(t, p) = p
  <2>1. Followed(t, p) \in {p}
    BY <1>5, FollowedIn
  <2> QED
    BY <2>1
<1>7. "file" \notin {Node(t, Upto(p, k)).kind : k \in 1..Len(p) - 1}
  BY <1>2
<1> QED
  BY <1>3, <1>4, <1>6, <1>7 DEF Resolve

(* Links that lead inside never lead out.                                  *)
LEMMA StaysUnder ==
  ASSUME NEW t, IsTree(t), NEW r \in Places, t[r].kind = "dir",
         \A p \in Places : IsPrefix(r, p) /\ p # r /\ t[p].kind = "link" => IsPrefix(r, t[p].to),
         NEW q \in Path, IsPrefix(r, q)
  PROVE  Hop(t, q) \in Path /\ IsPrefix(r, Hop(t, q))
<1>1. CASE LinksOn(t, q) = {}
  BY <1>1 DEF Hop
<1>2. CASE LinksOn(t, q) # {}
  <2>0. Len(q) \in Nat /\ r \in Path /\ Len(r) \in Nat /\ Len(r) <= Len(q) /\ Upto(q, Len(r)) = r
    BY IsPrefixOf, PlacesAssumption DEF Path
  <2> DEFINE k == CHOOSE k \in LinksOn(t, q) : \A j \in LinksOn(t, q) : k <= j
  <2>1. k \in LinksOn(t, q)
    <3>1. LinksOn(t, q) \in SUBSET Nat
      BY DEF LinksOn
    <3>2. \E n \in LinksOn(t, q) : \A j \in LinksOn(t, q) : n <= j
      BY <1>2, <3>1, Least
    <3> QED
      BY <3>2
  <2>2. Hop(t, q) = Node(t, Upto(q, k)).to \o SubSeq(q, k + 1, Len(q))
    BY <1>2, Zenon DEF Hop
  <2> HIDE DEF k
  <2>3. k \in 1..Len(q) /\ k \in 0..Len(q) /\ Node(t, Upto(q, k)).kind = "link"
    BY <2>0, <2>1 DEF LinksOn
  <2>4. Upto(q, k) \in Places /\ t[Upto(q, k)].kind = "link" /\ Node(t, Upto(q, k)) = t[Upto(q, k)]
    BY <2>3 DEF Node, Nothing
  <2>5. ~(k < Len(r))
    <3> SUFFICES ASSUME k < Len(r) PROVE FALSE
      OBVIOUS
    <3>1. k \in 1..Len(r) - 1 /\ k \in 0..Len(r) /\ Len(r) \in 0..Len(q)
      BY <2>0, <2>3
    <3>2. Upto(q, k) = Upto(r, k)
      BY <2>0, <3>1, UptoUpto
    <3>3. t[Upto(r, k)].kind = "dir"
      BY <3>1, Ancestors
    <3> QED
      BY <2>4, <3>2, <3>3
  <2>6. k # Len(r)
    BY <2>0, <2>4
  <2>7. k \in 0..Len(q) /\ Len(r) \in 0..k /\ Len(r) < k
    BY <2>0, <2>3, <2>5, <2>6
  <2>8. IsPrefix(r, Upto(q, k)) /\ Upto(q, k) # r
    <3>1. Upto(q, k) \in Path /\ Len(Upto(q, k)) = k
      BY <2>7, UptoIs
    <3>2. Upto(Upto(q, k), Len(r)) = r
      BY <2>0, <2>7, UptoUpto
    <3> QED
      BY <2>0, <2>7, <3>1, <3>2, IsPrefixOf
  <2>9. t[Upto(q, k)].to \in Path /\ IsPrefix(r, t[Upto(q, k)].to)
    BY <2>4, <2>8 DEF IsTree, IsNode
  <2>10. SubSeq(q, k + 1, Len(q)) \in Path
    <3>1. k + 1 \in Int /\ Len(q) \in Int /\ \A j \in k + 1..Len(q) : q[j] \in Seq(STRING)
      BY <2>0, <2>3 DEF Path
    <3> QED
      BY <3>1, SubSeqProperties DEF Path
  <2> QED
    BY <2>0, <2>2, <2>4, <2>9, <2>10, PrefixGrows
<1> QED
  BY <1>1, <1>2

----------------------------------------------------------------------------
(* Resolution ends at a place, or with a word that is not "none".          *)
LEMMA Resolved ==
  ASSUME NEW t, NEW p
  PROVE  LET r == Resolve(t, p)
         IN /\ r.kind # "none" /\ (IsTree(t) => r.kind # "outside")
            /\ Found(r) => /\ r.place \in Places /\ r.place = Followed(t, p)
                           /\ t[r.place].kind = r.kind
<1> DEFINE q == Followed(t, p)
           bad == LinksOn(t, q) # {} \/ "file" \in {Node(t, Upto(q, k)).kind : k \in 1..Len(q) - 1}
<1>1. Resolve(t, p) = IF bad THEN [kind |-> "error"]
                      ELSE IF Node(t, q).kind = "none" THEN [kind |-> "missing"]
                      ELSE [kind |-> Node(t, q).kind, place |-> q]
  BY Zenon DEF Resolve
<1>2. Node(t, q).kind # "none" => q \in Places /\ Node(t, q) = t[q]
  BY DEF Node, Nothing
<1>3. q \in Places /\ IsTree(t) => t[q].kind # "outside"
  BY DEF IsTree, IsNode, Kinds
<1>4. q = Followed(t, p)
  OBVIOUS
<1> HIDE DEF q, bad
<1> QED
  BY <1>1, <1>2, <1>3, <1>4 DEF Found

(* An operation gives what its path leads to, or an error.                 *)
LEMMA Done ==
  ASSUME NEW t, NEW o, NEW n
  PROVE  /\ Do(t, o, n).kind # "none" /\ (IsTree(t) => Do(t, o, n).kind # "outside")
         /\ Found(Do(t, o, n)) =>
              /\ Do(t, o, n) = Resolve(t, root \o n)
              /\ Do(t, o, n).place \in Places
BY Resolved DEF Do, Found

LEMMA Checked ==
  ASSUME NEW t, NEW n
  PROVE  check(t, n) \in {"ok", "error", "outside"}
BY DEF check

(* What an editor does leaves a tree.                                      *)
LEMMA Edited ==
  ASSUME NEW t, IsTree(t), NEW p \in Places, NEW n \in Nodes,
         Len(p) > 1 => t[Parent(p)].kind = "dir"
  PROVE  IsTree([q \in Places |-> IF q = p THEN n
                                  ELSE IF IsPrefix(p, q) THEN Nothing ELSE t[q]])
<1> DEFINE new == [q \in Places |-> IF q = p THEN n
                                    ELSE IF IsPrefix(p, q) THEN Nothing ELSE t[q]]
<1>1. ASSUME NEW q \in Places, Len(q) > 1
      PROVE  /\ Parent(q) \in Places /\ Parent(q) # q
             /\ IsPrefix(p, Parent(q)) => IsPrefix(p, q) /\ p # q
  <2>1. /\ p \in Seq(Seq(STRING)) /\ q \in Seq(Seq(STRING))
        /\ Parent(q) \in Places
    BY <1>1, PlacesAssumption DEF Path
  <2>2. /\ Len(Parent(q)) = Len(q) - 1
        /\ \A j \in 1..Len(q) - 1 : Parent(q)[j] = q[j]
    BY <1>1, <2>1 DEF Parent, Front
  <2>3. ASSUME IsPrefix(p, Parent(q))
        PROVE  IsPrefix(p, q)
    <3>1. Len(p) <= Len(q) - 1 /\ SubSeq(p, 1, Len(p)) = SubSeq(Parent(q), 1, Len(p))
      BY <2>2, <2>3 DEF IsPrefix
    <3>2. SubSeq(Parent(q), 1, Len(p)) = SubSeq(q, 1, Len(p))
      BY <2>1, <2>2, <3>1 DEF Parent, Front
    <3> QED
      BY <2>1, <3>1, <3>2 DEF IsPrefix
  <2> QED
    BY <1>1, <2>1, <2>2, <2>3 DEF IsPrefix
<1>2. ASSUME NEW q \in Places
      PROVE  IsNode(new[q])
  BY NodesAssumption DEF IsTree, Nothing, IsNode, Kinds
<1>3. ASSUME NEW q \in Places, new[q].kind # "none", Len(q) > 1
      PROVE  new[Parent(q)].kind = "dir"
  <2>1. Parent(q) # p /\ ~IsPrefix(p, Parent(q))
    <3>1. IsPrefix(p, p)
      BY PlacesAssumption DEF IsPrefix, Path
    <3>2. q = p \/ ~IsPrefix(p, q)
      BY <1>3 DEF Nothing
    <3>3. q = p => ~IsPrefix(p, Parent(q))
      BY <1>1, <1>3
    <3> QED
      BY <1>1, <1>3, <3>1, <3>2, <3>3
  <2>2. new[Parent(q)] = t[Parent(q)]
    BY <1>1, <1>3, <2>1
  <2>3. t[Parent(q)].kind = "dir"
    BY <1>3 DEF IsTree, Nothing
  <2> QED
    BY <2>2, <2>3
<1> HIDE DEF new
<1>4. DOMAIN new = Places
  BY DEF new
<1> QED
  BY <1>2, <1>3, <1>4 DEF IsTree, new

----------------------------------------------------------------------------
(* What is refused while the root stands, a link leads out to.             *)
LEMMA LeadsOut ==
  ASSUME TypeOK, RootStands, pc = "check", check(tree, name) = "outside"
  PROVE  \/ \E p \in Places :
              Under(p) /\ p # root /\ tree[p].kind = "link" /\ ~Under(tree[p].to)
         \/ edits > 0 /\ tree[root].kind # "dir"
<1> SUFFICES ASSUME \A p \in Places : Under(p) /\ p # root /\ tree[p].kind = "link"
                                      => Under(tree[p].to),
                    edits > 0 => tree[root].kind = "dir"
             PROVE  FALSE
  OBVIOUS
<1>1. IsTree(tree) /\ root \in Places /\ tree[root].kind = "dir"
  BY DEF TypeOK, RootStands
<1>2. root \in Path /\ name \in Path
  BY <1>1, PlacesAssumption, NamesAssumption DEF TypeOK
<1> DEFINE K == {q \in Path : IsPrefix(root, q)}
<1>3. \A q \in K : Hop(tree, q) \in K
  BY <1>1, StaysUnder DEF Under
<1>4. root \o name \in K
  BY <1>2, Joined
<1>5. Followed(tree, root \o name) \in K
  <2> HIDE DEF K
  <2> QED
    BY <1>3, <1>4, FollowedIn
<1>6. /\ Found(Resolve(tree, root \o name))
      /\ ~IsPrefix(root, Resolve(tree, root \o name).place)
  BY DEF check, Inside
<1> QED
  BY <1>5, <1>6, Resolved

LEMMA Starts == Init => IInv
BY TreesAssumption, NamesAssumption
   DEF Init, IInv, TypeOK, Answered, RootStands, RefusedLeadsOut, Found, Nothing, Ops

LEMMA DirStep == IInv /\ Dir => IInv'
<1> SUFFICES ASSUME IInv, Dir PROVE IInv'
  OBVIOUS
<1>1. root' \in Places /\ tree[root'].kind = "dir"
  BY Resolved DEF Dir, Found
<1>2. answer = Nothing
  BY DEF Dir, IInv, TypeOK
<1> QED
  BY <1>1, <1>2
  DEF Dir, IInv, TypeOK, Answered, RootStands, RefusedLeadsOut, Found, Nothing

LEMMA AskStep == IInv /\ Ask => IInv'
<1> SUFFICES ASSUME IInv, Ask PROVE IInv'
  OBVIOUS
<1>1. answer = Nothing
  BY DEF Ask, IInv, TypeOK
<1> QED
  BY <1>1 DEF Ask, IInv, TypeOK, Answered, RootStands, RefusedLeadsOut, Found, Nothing

LEMMA CheckStep == IInv /\ Check => IInv'
<1> SUFFICES ASSUME IInv, Check PROVE IInv'
  OBVIOUS
<1>1. answer = Nothing /\ tree \in saw
  BY DEF Check, IInv, TypeOK
<1>2. ~Found(answer') /\ (pc' = "done" <=> answer' # Nothing)
  BY <1>1, Checked DEF Check, Found, Nothing
<1>3. pc' = "do" => \E t \in saw : check(t, name) = "ok"
  BY <1>1 DEF Check
<1>4. UNCHANGED root
  BY DEF Check
<1>5. (\E t \in saw : check(t, name) = "ok") => (\E t \in saw : check(t, name) = "ok")'
  BY <1>4 DEF Check, check, Inside
<1>6. TypeOK'
  BY <1>1, <1>2, <1>3, <1>5 DEF Check, IInv, TypeOK, Found, Nothing
<1>7. Answered' /\ RootStands'
  BY <1>2 DEF Check, IInv, Answered, RootStands
<1>8. RefusedLeadsOut'
  <2> SUFFICES ASSUME answer'.kind = "outside" PROVE RefusedLeadsOut'
    BY DEF RefusedLeadsOut
  <2>1. check(tree, name) = "outside"
    BY <1>1 DEF Check, Nothing
  <2> QED
    BY <1>1, <2>1, LeadsOut DEF Check, IInv, RefusedLeadsOut, Under
<1> QED
  BY <1>6, <1>7, <1>8 DEF IInv

LEMMA DoStep == IInv /\ DoIt => IInv'
<1> SUFFICES ASSUME IInv, DoIt PROVE IInv'
  OBVIOUS
<1>1. tree \in saw /\ (\E t \in saw : check(t, name) = "ok") /\ IsTree(tree)
  BY DEF DoIt, IInv, TypeOK
<1>2. (\E t \in saw : check(t, name) = "ok")'
  BY <1>1 DEF DoIt, check, Inside
<1>3. answer' # Nothing /\ (Found(answer') => answer'.place \in Places)
  BY Done DEF DoIt, Nothing
<1>4. Found(answer') => answer' = Resolve(tree, root \o name)
  BY Done DEF DoIt
<1>5. answer'.kind # "outside"
  BY <1>1, Done DEF DoIt
<1>6. TypeOK' /\ Answered'
  BY <1>1, <1>2, <1>3, <1>4 DEF DoIt, IInv, TypeOK, Answered, LetThrough, Found
<1>7. RootStands' /\ RefusedLeadsOut'
  BY <1>5 DEF DoIt, IInv, RootStands, RefusedLeadsOut
<1> QED
  BY <1>6, <1>7 DEF IInv

LEMMA EditStep == IInv /\ Edit => IInv'
<1> SUFFICES ASSUME IInv, Edit PROVE IInv'
  OBVIOUS
<1>1. IsTree(tree')
  BY Edited DEF Edit, IInv, TypeOK
<1>2. saw \subseteq saw' /\ (tree' \in saw' \/ pc \in {"dir", "idle"})
  BY DEF Edit, IInv, TypeOK
<1>3. pc = "do" => (\E t \in saw : check(t, name) = "ok")'
  BY <1>2 DEF Edit, IInv, TypeOK, check, Inside
<1>4. answer = Nothing
  BY DEF Edit, IInv, TypeOK
<1>5. TypeOK' /\ Answered'
  BY <1>1, <1>2, <1>3, <1>4 DEF Edit, IInv, TypeOK, Answered, Found, Nothing
<1>6. RootStands' /\ RefusedLeadsOut'
  BY <1>4 DEF Edit, IInv, RootStands, RefusedLeadsOut, Nothing
<1> QED
  BY <1>5, <1>6 DEF IInv

(* Whatever the editor does, the invariant holds.                          *)
THEOREM Invariant == Spec => []IInv
<1>1. ASSUME IInv, UNCHANGED vars
      PROVE  IInv'
  <2>1. TypeOK' /\ Answered'
    BY <1>1 DEF vars, IInv, TypeOK, IsTree, Answered, LetThrough, Found, check, Inside, Nothing
  <2>2. RootStands' /\ RefusedLeadsOut'
    BY <1>1 DEF vars, IInv, RootStands, RefusedLeadsOut, Under
  <2> QED
    BY <2>1, <2>2 DEF IInv
<1>2. IInv /\ [Next]_vars => IInv'
  BY <1>1, DirStep, AskStep, CheckStep, DoStep, EditStep DEF Next
<1> QED
  BY <1>2, Starts, PTL DEF Spec

(* Every edit leaves a tree, an operation is done only of a path that was  *)
(* checked, and what is found stands somewhere (load.go:241-274).          *)
THEOREM TypeCorrect == Spec => []TypeOK
<1>1. IInv => TypeOK
  BY DEF IInv
<1> QED
  BY <1>1, Invariant, PTL

(* Of a tree that stood still during the call, what is served is where the *)
(* path leads in it, and stands under the root (docs/source.md:133-141).   *)
THEOREM StillContainedAlways == Spec => []StillContained
<1>1. ASSUME IInv
      PROVE  StillContained
  <2> SUFFICES ASSUME Found(answer), saw = {tree}
               PROVE  /\ answer = Resolve(tree, root \o name)
                      /\ Under(answer.place)
    BY DEF StillContained
  <2>1. check(tree, name) = "ok" /\ answer = Resolve(tree, root \o name)
    BY <1>1 DEF IInv, Answered, LetThrough
  <2> QED
    BY <2>1 DEF check, Inside, Under
<1> QED
  BY <1>1, Invariant, PTL

(* Nothing is refused as outside while every link below the root leads to  *)
(* a place under it and the root is what Dir found (load.go:208-210).      *)
THEOREM RefusedLeadsOutAlways == Spec => []RefusedLeadsOut
<1>1. IInv => RefusedLeadsOut
  BY DEF IInv
<1> QED
  BY <1>1, Invariant, PTL

(* What is listed is read, and what stands under the root is listed, of    *)
(* every tree (load.go:147-154, 170-174).                                  *)
LEMMA Listed ==
  ASSUME TypeOK
  PROVE  ListedIsServed
<1> SUFFICES ASSUME root # <<>>, Node(tree, root).kind = "dir"
             PROVE  /\ \A n \in Files : Guarded(tree, "read", n).kind = "file"
                    /\ \A n \in Names \ SkillFiles : Entry(n).kind = "file" => n \in Files
  BY DEF ListedIsServed
<1>1. IsTree(tree) /\ root \in Places /\ root \in Path
  BY PlacesAssumption DEF TypeOK, Node, Nothing
<1>2. Len(root) \in Nat \ {0} /\ root \o <<>> = root
  BY <1>1 DEF Path
<1>3. ASSUME NEW n \in Names, Entry(n).kind = "file"
      PROVE  root \o n \in Places /\ tree[root \o n].kind = "file"
  BY <1>3 DEF Entry, Node, Nothing
<1>4. ASSUME NEW n \in Files
      PROVE  Guarded(tree, "read", n).kind = "file"
  <2>1. n \in Names /\ n \in Path
    BY NamesAssumption DEF Files
  <2>2. CASE Entry(n).kind = "file"
    <3>1. Resolve(tree, root \o n) = [kind |-> "file", place |-> root \o n]
      BY <1>1, <1>3, <2>1, <2>2, Straight
    <3>2. IsPrefix(root, root \o n)
      BY <1>1, <2>1, Joined
    <3> QED
      BY <3>1, <3>2 DEF Guarded, check, Do, Inside
  <2>3. CASE Entry(n).kind # "file"
    <3>1. Guarded(tree, "stat", n).kind = "file"
      BY <2>3 DEF Files, Kept
    <3>2. check(tree, n) = "ok"
      BY <3>1, Checked DEF Guarded
    <3>3. Resolve(tree, root \o n).kind = "file"
      BY <3>1, <3>2 DEF Guarded, Do
    <3> QED
      BY <3>2, <3>3 DEF Guarded, Do
  <2> QED
    BY <2>2, <2>3
<1>5. ASSUME NEW n \in Names \ SkillFiles, Entry(n).kind = "file"
      PROVE  n \in Files
  <2>1. n # <<>>
    BY <1>2, <1>5 DEF Entry
  <2>2. n \in Path /\ Len(n) \in Nat
    BY NamesAssumption DEF Path
  <2>3. ASSUME NEW k \in 0..Len(n) - 1
        PROVE  Node(tree, root \o Upto(n, k)).kind = "dir"
    <3>1. k \in 0..Len(n)
      BY <2>2
    <3>2. /\ root \o Upto(n, k) = Upto(root \o n, Len(root) + k)
          /\ Len(root \o n) = Len(root) + Len(n)
      BY <1>1, <2>2, <3>1, Joined
    <3>3. Len(root) + k \in 1..Len(root \o n) - 1
      BY <1>2, <2>2, <3>2
    <3>4. root \o n \in Places /\ tree[root \o n].kind # "none"
      BY <1>3, <1>5
    <3>5. /\ Upto(root \o n, Len(root) + k) \in Places
          /\ tree[Upto(root \o n, Len(root) + k)].kind = "dir"
      BY <1>1, <3>3, <3>4, Ancestors
    <3> QED
      BY <3>2, <3>5 DEF Node
  <2> QED
    BY <1>5, <2>1, <2>3 DEF Files, Entered
<1> QED
  BY <1>4, <1>5

(* The list of files holds what reading serves, and every file that stands *)
(* under the root but the skill file, of every tree (load.go:147-154,      *)
(* 170-174).                                                               *)
THEOREM ListedIsServedAlways == Spec => []ListedIsServed
<1>1. IInv => ListedIsServed
  BY Listed DEF IInv
<1> QED
  BY <1>1, Invariant, PTL
=============================================================================

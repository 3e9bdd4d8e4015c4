------------------------------ MODULE DirGuard ------------------------------
(***************************************************************************)
(* The source of a local directory, Dir and dirFS (load.go): each          *)
(* operation resolves its path and checks where it leads, then is done by  *)
(* os.DirFS, which resolves the path again.  The two are two steps, with   *)
(* an editor of the tree between them.                                     *)
(*                                                                         *)
(* Abstractions.  A place is an absolute path without links or dots, a     *)
(* sequence of elements, each a sequence of letters.  A link is where it   *)
(* leads, relative ones included.  The bytes of a file are its place.      *)
(***************************************************************************)
EXTENDS Naturals, SequencesExt

CONSTANTS
  Places,      \* the places where something may stand
  Trees,       \* the trees a run starts from
  Nodes,       \* what an editor may put at a place
  Arguments,   \* the directories Dir may be called with
  Names,       \* the paths asked of the source, <<>> for "."
  SkillFiles,  \* those that are a skill file at the root
  MaxHops,     \* how many links are followed
  MaxEdits     \* how many edits are made

VARIABLES
  tree,        \* what stands at each place
  root,        \* dirFS.root, <<>> before Dir
  pc, op, name,\* the call of the source: its next step and arguments
  saw,         \* history: the trees of the call
  answer,      \* what it returned
  edits        \* edits made

vars == <<tree, root, pc, op, name, saw, answer, edits>>

Ops == {"stat", "read", "list"}
Kinds == {"none", "file", "dir", "link"}
Nothing == [kind |-> "none"]
Path == Seq(Seq(STRING))
Parent(p) == Front(p)

IsNode(n) == n.kind \in Kinds /\ (n.kind = "link" => n.to \in Path)

(* A tree: what stands somewhere stands in a directory.                    *)
IsTree(t) ==
  /\ DOMAIN t = Places
  /\ \A p \in Places :
       /\ IsNode(t[p])
       /\ t[p].kind # "none" /\ Len(p) > 1 => t[Parent(p)].kind = "dir"

ASSUME PlacesAssumption ==
  /\ Places \subseteq Path \ {<<>>}
  /\ \A p \in Places : Len(p) > 1 => Parent(p) \in Places
ASSUME TreesAssumption == \A t \in Trees : IsTree(t)
ASSUME NodesAssumption == \A n \in Nodes : IsNode(n)
ASSUME NamesAssumption == Names \subseteq Path /\ <<>> \in Names
ASSUME BoundsAssumption == MaxHops \in Nat /\ MaxEdits \in Nat

----------------------------------------------------------------------------
(* Resolution, by filepath.EvalSymlinks and by the host alike: the first   *)
(* link on the way is replaced by where it leads, until there is none.     *)
Node(t, p) == IF p \in Places THEN t[p] ELSE Nothing
Upto(p, k) == SubSeq(p, 1, k)
LinksOn(t, p) == {k \in 1..Len(p) : Node(t, Upto(p, k)).kind = "link"}

Hop(t, p) ==
  LET k == CHOOSE k \in LinksOn(t, p) : \A j \in LinksOn(t, p) : k <= j
  IN IF LinksOn(t, p) = {} THEN p
     ELSE Node(t, Upto(p, k)).to \o SubSeq(p, k + 1, Len(p))

Followed(t, p) ==
  LET f[n \in 0..MaxHops] == IF n = 0 THEN p ELSE Hop(t, f[n - 1]) IN f[MaxHops]

(* Where p leads: a place, nowhere, or the failure of a loop or of a path  *)
(* through a file.                                                         *)
Resolve(t, p) ==
  LET q == Followed(t, p)
      through == {Node(t, Upto(q, k)).kind : k \in 1..Len(q) - 1}
  IN IF LinksOn(t, q) # {} \/ "file" \in through THEN [kind |-> "error"]
     ELSE IF Node(t, q).kind = "none" THEN [kind |-> "missing"]
     ELSE [kind |-> Node(t, q).kind, place |-> q]

Found(r) == r.kind \in {"file", "dir"}
(* Bug: the text of the paths compared, without the separator.             *)
InsideByText(p) ==
  /\ Len(root) <= Len(p)
  /\ IsPrefix(Front(root), p)
  /\ IsPrefix(Last(root), p[Len(root)])

Inside(p) == IsPrefix(root, p)

(* check: a path that leads nowhere passes.                                *)
check(t, n) ==
  LET r == Resolve(t, root \o n)
  IN IF r.kind = "error" THEN "error"
     ELSE IF Found(r) /\ ~Inside(r.place) THEN "outside" ELSE "ok"

(* The operation of os.DirFS.                                              *)
Do(t, o, n) ==
  LET r == Resolve(t, root \o n)
  IN IF \/ o = "read" /\ r.kind = "dir"
        \/ o = "list" /\ r.kind = "file" THEN [kind |-> "error"] ELSE r

Guarded(t, o, n) == IF check(t, n) = "ok" THEN Do(t, o, n) ELSE [kind |-> check(t, n)]

----------------------------------------------------------------------------
Init ==
  /\ tree \in Trees
  /\ root = <<>>
  /\ pc = "dir"
  /\ op = "list"
  /\ name = <<>>
  /\ saw = {}
  /\ answer = Nothing
  /\ edits = 0

(* Bug: the root kept as it was given.                                     *)
DirUnresolved ==
  /\ pc = "dir"
  /\ root' \in {arg \in Arguments : Resolve(tree, arg).kind = "dir"}
  /\ pc' = "idle"
  /\ UNCHANGED <<tree, op, name, saw, answer, edits>>

(* Dir resolves its argument once, and refuses what is no directory.       *)
Dir ==
  /\ pc = "dir"
  /\ root' \in {Resolve(tree, arg).place :
                  arg \in {a \in Arguments : Resolve(tree, a).kind = "dir"}}
  /\ pc' = "idle"
  /\ UNCHANGED <<tree, op, name, saw, answer, edits>>

Ask ==
  /\ pc = "idle"
  /\ op' \in Ops
  /\ name' \in Names
  /\ saw' = {tree}
  /\ pc' = "check"
  /\ UNCHANGED <<tree, root, answer, edits>>

(* Bug: whatever check says but "outside" passed on.                      *)
CheckLoosely ==
  /\ pc = "check"
  /\ IF check(tree, name) # "outside"
       THEN pc' = "do" /\ UNCHANGED answer
       ELSE pc' = "done" /\ answer' = [kind |-> "outside"]
  /\ UNCHANGED <<tree, root, op, name, saw, edits>>

Check ==
  /\ pc = "check"
  /\ IF check(tree, name) = "ok"
       THEN pc' = "do" /\ UNCHANGED answer
       ELSE pc' = "done" /\ answer' = [kind |-> check(tree, name)]
  /\ UNCHANGED <<tree, root, op, name, saw, edits>>

DoIt ==
  /\ pc = "do"
  /\ answer' = Do(tree, op, name)
  /\ pc' = "done"
  /\ UNCHANGED <<tree, root, op, name, saw, edits>>

(* An editor puts something at a place, with nothing below it.             *)
Edit ==
  /\ pc # "done"
  /\ edits < MaxEdits
  /\ edits' = edits + 1
  /\ \E p \in Places, n \in Nodes :
       /\ Len(p) > 1 => tree[Parent(p)].kind = "dir"
       /\ tree' = [q \in Places |-> IF q = p THEN n
                                    ELSE IF IsPrefix(p, q) THEN Nothing ELSE tree[q]]
  /\ saw' = IF pc \in {"check", "do"} THEN saw \cup {tree'} ELSE saw
  /\ UNCHANGED <<root, pc, op, name, answer>>

Next == Dir \/ Ask \/ Check \/ DoIt \/ Edit

Spec == Init /\ [][Next]_vars
----------------------------------------------------------------------------
(* Skill.Files over the source: the walk enters the directories that the   *)
(* listings give as such, and keeps a link only when it stats as a file.   *)
Entered(n) == \A k \in 0..Len(n) - 1 : Node(tree, root \o Upto(n, k)).kind = "dir"
Entry(n) == Node(tree, root \o n)

(* Bug: a link kept whenever it stats.                                     *)
KeptIfStats(n) == Found(Guarded(tree, "stat", n))

Kept(n) == Guarded(tree, "stat", n).kind = "file"

Files ==
  {n \in Names \ SkillFiles :
     /\ n # <<>>
     /\ Entered(n)
     /\ Entry(n).kind = "file" \/ (Entry(n).kind = "link" /\ Kept(n))}

----------------------------------------------------------------------------
(* The state's types.  An operation is done only of a path that was        *)
(* checked, and only for a source that has a root (load.go:241-274).       *)
TypeOK ==
  /\ IsTree(tree)
  /\ pc \in {"dir", "idle", "check", "do", "done"}
  /\ op \in Ops /\ name \in Names
  /\ pc # "dir" => root \in Places
  /\ answer.kind \in {"file", "dir"} => answer.place \in Places
  /\ pc = "done" <=> answer # Nothing
  /\ pc = "do" => \E t \in saw : check(t, name) = "ok"
  /\ tree \in saw \/ pc \in {"dir", "idle"}

(* Where a place stands with respect to the root.                          *)
Under(p) == IsPrefix(root, p)

(* Of a tree that stands still during a call nothing is served from        *)
(* outside the root, through whatever chain of links and however the       *)
(* outside is named: what is found is what the path leads to, and it       *)
(* stands under the root (load.go:212-217, 276-295;                        *)
(* docs/source.md:133-141).                                                *)
StillContained ==
  Found(answer) /\ saw = {tree} =>
    /\ answer = Resolve(tree, root \o name)
    /\ Under(answer.place)

(* While the root stands nothing outside it is ever served: docs/source.md *)
(* :133-137 says that such a path MUST be refused for every operation, and *)
(* load.go:212-217 that it must not be readable.                           *)
NeverOutside ==
  Found(answer) /\ (\A t \in saw : t[root].kind = "dir") => Under(answer.place)

(* Nothing is refused as outside while every link below the root leads to  *)
(* a place under it and the root is what Dir found: a root reached through *)
(* a link is no mistake (load.go:208-210, docs/source.md:141-143, 149).    *)
RefusedLeadsOut ==
  answer.kind = "outside" =>
    \E t \in saw :
      \/ \E p \in Places :
           Under(p) /\ p # root /\ t[p].kind = "link" /\ ~Under(t[p].to)
      \/ edits > 0 /\ t[root].kind # "dir"

(* The list of files holds what reading serves, and every file that stands *)
(* under the root but the skill file (load.go:147-154, 170-174;            *)
(* docs/source.md:162-165).                                                *)
ListedIsServed ==
  root # <<>> /\ Node(tree, root).kind = "dir" =>
    /\ \A n \in Files : Guarded(tree, "read", n).kind = "file"
    /\ \A n \in Names \ SkillFiles : Entry(n).kind = "file" => n \in Files
=============================================================================

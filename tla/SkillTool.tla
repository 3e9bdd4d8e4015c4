----------------------------- MODULE SkillTool -----------------------------
(***************************************************************************)
(* Calls of the skill tool (tool.go) against a directory that is edited    *)
(* while they run.  A step of a call is one read of the skill's file       *)
(* system with the computation that follows it.  Calls share nothing but   *)
(* the directory and the catalog, which a product replaces by discovering  *)
(* again; a call keeps the skill of the catalog its tool was made from.    *)
(* A walk reads the root and then each entry in the order of the names.    *)
(***************************************************************************)
EXTENDS SkillDisk

CONSTANTS
  Calls,         \* the calls of the tool
  InitDisks,     \* the directories a run starts from
  InitSkills,    \* the skills a product may have built without Load
  Docs,          \* the skill files an editor writes
  Entries,       \* the entries an editor makes
  MaxEdits       \* how many edits it makes

ASSUME DisksAssumption == \A d \in InitDisks : IsDisk(d)
ASSUME SkillsAssumption == \A s \in InitSkills : s \in Skill /\ s.file = NoFile
ASSUME EditsAssumption == Docs \subseteq Doc /\ Entries \subseteq Entry /\ MaxEdits \in Nat

VARIABLES
  disk,     \* the skill's directory
  skill,    \* the skill as the product's catalog holds it
  call,     \* the calls, each with the locals of the functions it runs
  during,   \* history: the directory at each moment of a call
  edits     \* edits made

vars == <<disk, skill, call, during, edits>>

(* A call: its next step, path argument, skill, claim (WithFileClaim), the *)
(* name readSkillFile returned, currentBody's results, the entries a walk  *)
(* has listed and not visited, Files' result so far, the files still to be *)
(* statted for the list, their sizes, and the answer.                      *)
Idle(s) ==
  [pc |-> "idle", path |-> 0, held |-> s, claim |-> {}, file |-> NoFile,
   body |-> s.body, changed |-> FALSE, todo |-> <<>>, files |-> {},
   unsized |-> {}, sizes |-> <<>>, answer |-> NoAnswer]

Put(f, k, v) == [x \in DOMAIN f \cup {k} |-> IF x = k THEN v ELSE f[x]]
Drop(f, k) == [x \in DOMAIN f \ {k} |-> f[x]]

Init ==
  /\ disk \in InitDisks
  /\ skill \in InitSkills \cup (IF Loads(disk) THEN {Load(disk)} ELSE {})
  /\ call = [c \in Calls |-> Idle(skill)]
  /\ during = [c \in Calls |-> {}]
  /\ edits = 0

----------------------------------------------------------------------------
At(c, step) == call[c].pc = step /\ UNCHANGED <<disk, skill, during, edits>>
Becomes(c, k) == call' = [call EXCEPT ![c] = k]
Goto(c, step) == Becomes(c, [call[c] EXCEPT !.pc = step])
Return(c, a) == Becomes(c, [call[c] EXCEPT !.pc = "done", !.answer = a])
Refuse(c, why) == Return(c, Refusal(why))

(* The call arrives, decoded; its tool holds the catalog of now.           *)
Call(c) ==
  /\ call[c].pc = "idle"
  /\ \E p \in Paths : Becomes(c, [call[c] EXCEPT !.pc = "claim", !.path = p,
                                          !.held = skill])
  /\ during' = [during EXCEPT ![c] = {disk}]
  /\ UNCHANGED <<disk, skill, edits>>

(* The tool's target refuses a call, or says which file it is about.       *)
TargetRefusal(c) ==
  IF ~call[c].held.listed THEN "unknown skill"
  ELSE IF call[c].path \in InvalidPaths THEN "invalid path" ELSE "none"

(* The claim a policy is given before the call runs.                       *)
Claimed(c) ==
  IF TargetRefusal(c) # "none" THEN {}
  ELSE IF ~IsInstructions(call[c].path) THEN {<<"resource", call[c].path>>}
  ELSE {<<"skill file", f>> : f \in {call[c].held.file} \ {NoFile}}

Claim(c) ==
  /\ At(c, "claim")
  /\ Becomes(c, [call[c] EXCEPT !.pc = "target", !.claim = Claimed(c)])

(* A skill Load did not build has its body at hand.                        *)
HoldsBody(s) == ~s.FS \/ s.file = NoFile

Target(c) ==
  /\ At(c, "target")
  /\ IF TargetRefusal(c) # "none" THEN Refuse(c, TargetRefusal(c))
     ELSE IF ~IsInstructions(call[c].path) THEN Goto(c, "stat")
     ELSE IF ~HoldsBody(call[c].held) THEN Goto(c, "list")
     ELSE Becomes(c, [call[c] EXCEPT !.pc = "walk", !.body = call[c].held.body])

----------------------------------------------------------------------------
Listing == listedSkillFile(DOMAIN disk.docs)

(* Bug: a directory without a skill file is listed again.                  *)
ListAgain(c) ==
  /\ At(c, "list")
  /\ IF ~disk.listed THEN Goto(c, "probe")
     ELSE IF Listing = NoFile THEN UNCHANGED call
     ELSE Becomes(c, [call[c] EXCEPT !.pc = "read", !.file = Listing])

(* Bug: a listing without a skill file passed on.                          *)
ListBlindly(c) ==
  /\ At(c, "list")
  /\ IF ~disk.listed THEN Goto(c, "probe")
     ELSE Becomes(c, [call[c] EXCEPT !.pc = "read", !.file = Listing])

(* readSkillFile: the listing, then the read of the name it gave.          *)
List(c) ==
  /\ At(c, "list")
  /\ IF ~disk.listed THEN Goto(c, "probe")
     ELSE IF Listing = NoFile THEN Refuse(c, "skill changed")
     ELSE Becomes(c, [call[c] EXCEPT !.pc = "read", !.file = Listing])

Serve(c, name, doc) ==
  Becomes(c, [call[c] EXCEPT !.pc = "walk", !.file = name, !.body = doc.body,
                              !.changed = doc.front # call[c].held.front])

(* Bug: the body served under whichever spelling it is found.              *)
CurrentBodyAnyName(c, name) ==
  IF ~Splits(DocOf(disk, name))
    THEN Refuse(c, "skill changed")
    ELSE Serve(c, name, DocOf(disk, name))

(* currentBody with the skill file in hand.                                *)
CurrentBody(c, name) ==
  IF name # call[c].held.file \/ ~Splits(DocOf(disk, name))
    THEN Refuse(c, "skill changed")
    ELSE Serve(c, name, DocOf(disk, name))

(* A read that fails, whatever the reason, is an error of the call.        *)
ReadSkill(c) ==
  /\ At(c, "read")
  /\ IF DocRead(disk, call[c].file) = "ok" THEN CurrentBody(c, call[c].file)
                                           ELSE Refuse(c, "read skill file")

(* Without a listing the two names are probed in order; only a name that   *)
(* is not there is passed over.                                            *)
ProbeUpper(c) ==
  /\ At(c, "probe")
  /\ \/ DocRead(disk, Upper) = "ok" /\ CurrentBody(c, Upper)
     \/ DocRead(disk, Upper) = "error" /\ Refuse(c, "read skill file")
     \/ DocRead(disk, Upper) = "missing" /\ Goto(c, "probe again")

ProbeLower(c) ==
  /\ At(c, "probe again")
  /\ \/ DocRead(disk, Lower) = "ok" /\ CurrentBody(c, Lower)
     \/ DocRead(disk, Lower) = "error" /\ Refuse(c, "read skill file")
     \/ DocRead(disk, Lower) = "missing" /\ Refuse(c, "skill changed")

----------------------------------------------------------------------------
(* Files: the root is listed, then each entry visited; a link is statted,  *)
(* a directory entered.                                                    *)
WalkRoot(c) ==
  /\ At(c, "walk")
  /\ IF ~call[c].held.FS THEN Goto(c, "visit")
     ELSE IF ~disk.listed THEN Refuse(c, "list files")
     ELSE Becomes(c, [call[c] EXCEPT !.pc = "visit",
                       !.todo = [r \in DOMAIN disk.files |-> disk.files[r].kind]])

First(S, r) == r \in S /\ \A x \in S : r <= x

VisitFile(c, r) ==
  LET kind == call[c].todo[r]
      left == kind \in Links /\ (~Stats(disk, r) \/ IsDir(disk, r))
  IN /\ kind \notin Dirs
     /\ Becomes(c, [call[c] EXCEPT !.todo = Drop(@, r),
                                   !.files = IF left THEN @ ELSE @ \cup {r}])

VisitDir(c, r) ==
  /\ call[c].todo[r] \in Dirs
  /\ IF Lists(disk, r) THEN Becomes(c, [call[c] EXCEPT !.todo = Drop(@, r)])
                       ELSE Refuse(c, "list files")

Visit(c) ==
  /\ At(c, "visit")
  /\ \E r \in DOMAIN call[c].todo :
       First(DOMAIN call[c].todo, r) /\ (VisitFile(c, r) \/ VisitDir(c, r))

(* The walk is for the instructions, or for the message of noSuchFile.     *)
WalkEnd(c) ==
  /\ At(c, "visit")
  /\ DOMAIN call[c].todo = {}
  /\ IF IsInstructions(call[c].path)
       THEN Becomes(c, [call[c] EXCEPT !.pc = "size", !.unsized = call[c].files])
       ELSE Refuse(c, "no such file")

(* The list carries the size of each file that stats.                      *)
SizeOf(c) ==
  /\ At(c, "size")
  /\ \E r \in call[c].unsized :
       /\ First(call[c].unsized, r)
       /\ Becomes(c, [call[c] EXCEPT !.unsized = @ \ {r},
            !.sizes = IF Stats(disk, r) THEN Put(@, r, StatSize(disk, r)) ELSE @])

Reply(c) ==
  /\ At(c, "size")
  /\ call[c].unsized = {}
  /\ Return(c, [kind |-> "instructions", front |-> call[c].held.front,
                changed |-> call[c].changed, body |-> call[c].body,
                files |-> call[c].files, sizes |-> call[c].sizes])

----------------------------------------------------------------------------
(* file: a resource is statted, then read.                                 *)
StatFile(c) ==
  LET p == call[c].path
  IN /\ At(c, "stat")
     /\ IF ~call[c].held.FS THEN Return(c, Panic)
        ELSE IF Missing(disk, p) THEN Goto(c, "walk")
        ELSE IF ~Stats(disk, p) THEN Refuse(c, "stat")
        ELSE IF IsDir(disk, p) THEN Goto(c, "walk")
        ELSE IF StatSize(disk, p) > MaxBytes THEN Refuse(c, "too large")
        ELSE Goto(c, "read file")

(* Bug: the size of the stat relied on.                                    *)
NeverTooLarge(b) == FALSE

(* The bytes read are measured again before they are shown.                *)
TooLarge(b) == Size[b] > MaxBytes

ReadFile(c) ==
  LET p == call[c].path
      b == disk.files[p].data
  IN /\ At(c, "read file")
     /\ IF ~Reads(disk, p) THEN Refuse(c, "read")
        ELSE IF TooLarge(b) THEN Refuse(c, "too large")
        ELSE IF detect(p, b) = "binary" THEN Refuse(c, "not shown")
        ELSE Return(c, [kind |-> "file", front |-> call[c].held.front, path |-> p,
                        shown |-> detect(p, b), data |-> b])

----------------------------------------------------------------------------
(* The editor writes or removes one skill file or one entry at a time, and *)
(* may rename the skill file to its other spelling or let the directory be *)
(* listed or not.  On a host that folds case a write under the one name    *)
(* replaces what the other names.                                          *)
Entrance(f) ==
  IF Reached(disk, f) = {} THEN f ELSE CHOOSE g \in Reached(disk, f) : TRUE

Writable == {r \in Res : disk.folds => r \notin SkillPaths}

Edited ==
  {[disk EXCEPT !.listed = ~@]}
  \cup {[disk EXCEPT !.docs = Put(@, Entrance(f), d)] : f \in skillFiles, d \in Docs}
  \cup {[disk EXCEPT !.docs = Drop(@, f)] : f \in DOMAIN disk.docs}
  \cup {[disk EXCEPT !.docs = [g \in skillFiles \ {f} |-> @[f]]] : f \in DOMAIN disk.docs}
  \cup {[disk EXCEPT !.files = Put(@, r, e)] : r \in Writable, e \in Entries}
  \cup {[disk EXCEPT !.files = Drop(@, r)] : r \in DOMAIN disk.files}

(* What is edited once every call is answered, and the catalogs made after *)
(* the last call, no call sees: the two are left out.                      *)
SomeToAnswer == \E c \in Calls : call[c].pc # "done"
SomeToCome == \E c \in Calls : call[c].pc = "idle"
Running(c) == call[c].pc \notin {"idle", "done"}

Edit ==
  /\ SomeToAnswer
  /\ edits < MaxEdits
  /\ edits' = edits + 1
  /\ disk' \in Edited
  /\ during' = [c \in Calls |-> IF Running(c) THEN during[c] \cup {disk'} ELSE during[c]]
  /\ UNCHANGED <<skill, call>>

(* The product discovers the skills again and makes its tool anew.         *)
Discover ==
  /\ SomeToCome
  /\ skill.file # NoFile
  /\ skill' = IF Loads(disk) THEN Load(disk) ELSE [skill EXCEPT !.listed = FALSE]
  /\ UNCHANGED <<disk, call, during, edits>>

Step(c) ==
  \/ Claim(c) \/ Target(c)
  \/ List(c) \/ ReadSkill(c) \/ ProbeUpper(c) \/ ProbeLower(c)
  \/ WalkRoot(c) \/ Visit(c) \/ WalkEnd(c) \/ SizeOf(c) \/ Reply(c)
  \/ StatFile(c) \/ ReadFile(c)

Next == (\E c \in Calls : Call(c) \/ Step(c)) \/ Edit \/ Discover

(* A call that runs goes on: fs calls return.                              *)
Spec == Init /\ [][Next]_vars /\ \A c \in Calls : WF_vars(Step(c))
----------------------------------------------------------------------------
Steps == {"idle", "claim", "target", "list", "read", "probe", "probe again",
          "walk", "visit", "size", "stat", "read file", "done"}

(* The state's types, with what a step may rely on: a name is read only    *)
(* when the listing gave one (load.go:78-82), sizes are of listed files    *)
(* (tool.go:333-338), and a call is done exactly when it is answered.      *)
TypeOK ==
  /\ IsDisk(disk)
  /\ skill \in Skill
  /\ edits \in 0..MaxEdits
  /\ \A c \in Calls :
       LET k == call[c]
       IN /\ k.pc \in Steps
          /\ k.path \in Paths
          /\ k.held \in Skill
          /\ k.pc = "read" => k.file \in skillFiles
          /\ k.body \in Bodies /\ k.changed \in BOOLEAN
          /\ DOMAIN k.todo \subseteq Res
          /\ k.unsized \subseteq k.files /\ k.files \subseteq Res
          /\ DOMAIN k.sizes \subseteq k.files \ k.unsized
          /\ k.pc = "done" <=> k.answer # NoAnswer

(* The file a call serves is the one it claimed beforehand, although the   *)
(* skill file may be renamed between the claim and the read                *)
(* (tool.go:39-66, 211-249, 358-360).                                      *)
ServedIsClaimed ==
  \A c \in Calls :
    LET k == call[c]
    IN /\ k.answer.kind = "instructions" =>
            k.claim = IF HoldsBody(k.held)
                        THEN {<<"skill file", f>> : f \in {k.held.file} \ {NoFile}}
                        ELSE {<<"skill file", k.file>>}
       /\ k.answer.kind = "file" => k.claim = {<<"resource", k.answer.path>>}

(* Every call is answered, whatever is edited meanwhile (tool.go:170-203). *)
Answered == \A c \in Calls : call[c].pc = "claim" ~> call[c].pc = "done"

(* The tool keeps its promise: each answer is made of what stood in the    *)
(* directory during the call, and each refusal has its cause there         *)
(* (tool.go:124-148, 280-291).                                             *)
Promise == INSTANCE ToolPromise WITH
  path <- [c \in Calls |-> call[c].path],
  held <- [c \in Calls |-> call[c].held],
  answer <- [c \in Calls |-> call[c].answer]

PromiseSpec == Promise!Spec

----------------------------------------------------------------------------
(* What the documents say of the tool and the code does not do.            *)

(* A skill file found gone when it is read, or whose frontmatter no longer *)
(* parses, is refused with ErrSkillChanged (tool.go:143-144, 286-288).     *)
GoneOrUnparsedIsChanged ==
  [][\A c \in Calls :
       LET f == call[c].file
       IN /\ call[c].pc = "read"
          /\ \/ Reached(disk, f) = {}
             \/ DocRead(disk, f) = "ok" /\ DocOf(disk, f).front \notin Parsing
          /\ call'[c].pc # "read"
          => call'[c].answer = Refusal("skill changed")]_vars

(* An unknown path is an error listing the files, and a skill with no FS   *)
(* has no files (tool.go:125-126, load.go:148-149).                        *)
UnknownPathIsError ==
  \A c \in Calls : call[c].answer # Panic
=============================================================================

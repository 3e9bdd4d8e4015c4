-------------------------- MODULE SkillToolProofs --------------------------
(* Theorems about SkillTool, for any calls, directories and edits.         *)
EXTENDS SkillTool, TLAPS

(* The inductive invariant speaks of a call k, of the directories saw that *)
(* stood while it ran and of the directory now.                            *)

IsCall(k) ==
  k \in [pc : Steps, path : Paths, held : Skill, claim : {k.claim}, file : {k.file},
         body : Bodies, changed : BOOLEAN, todo : {k.todo}, files : SUBSET Res,
         unsized : SUBSET Res, sizes : {k.sizes}, answer : {k.answer}]

(* What it may hold at each step.                                          *)
Locals(k) ==
  /\ k.pc = "read" => k.file \in skillFiles
  /\ DOMAIN k.todo \subseteq Res
  /\ k.unsized \subseteq k.files
  /\ DOMAIN k.sizes \subseteq k.files \ k.unsized
  /\ k.pc \in {"idle", "claim", "target"} => ~k.changed
  /\ k.pc \notin {"visit", "size", "done"} => k.files = {} /\ DOMAIN k.todo = {}
  /\ k.pc \notin {"size", "done"} => k.unsized = {} /\ DOMAIN k.sizes = {}
  /\ k.pc = "size" => DOMAIN k.todo = {}

(* What its path says of the step it is at.                                *)
Directed(k) ==
  /\ k.pc \notin {"idle", "claim", "target", "done"} =>
       k.held.listed /\ k.path \notin InvalidPaths
  /\ k.pc \in {"list", "read", "probe", "probe again"} =>
       IsInstructions(k.path) /\ ~HoldsBody(k.held)
  /\ k.pc = "size" => IsInstructions(k.path)
  /\ k.pc \in {"stat", "read file"} => ~IsInstructions(k.path)

(* It claimed what its arguments name.                                     *)
Claiming(k) ==
  k.pc \notin {"idle", "claim"} =>
    k.claim = IF ~k.held.listed \/ k.path \in InvalidPaths THEN {}
              ELSE IF ~IsInstructions(k.path) THEN {<<"resource", k.path>>}
              ELSE {<<"skill file", f>> : f \in {k.held.file} \ {NoFile}}

(* It looks for the skill file under a name that a listing gave, or,       *)
(* without one, under either name, the uppercase one missing first.        *)
Naming(k, saw) ==
  /\ k.pc = "read" =>
       \E d \in saw : d.listed /\ k.file = listedSkillFile(DOMAIN d.docs)
  /\ k.pc \in {"probe", "probe again"} => \E d \in saw : ~d.listed
  /\ k.pc = "probe again" => \E d \in saw : DocRead(d, Upper) = "missing"

(* Past the skill file, it has the body of the claimed one.                *)
Bodied(k, saw) ==
  k.pc \in {"walk", "visit", "size"} /\ IsInstructions(k.path) =>
    IF HoldsBody(k.held) THEN k.body = k.held.body /\ ~k.changed
    ELSE /\ k.file = k.held.file
         /\ \E d \in saw :
              /\ DocRead(d, k.file) = "ok"
              /\ Splits(DocOf(d, k.file))
              /\ k.body = DocOf(d, k.file).body
              /\ k.changed = (DocOf(d, k.file).front # k.held.front)

(* A walk for another file is one for a file that was not found, and what  *)
(* is read is what was.                                                    *)
Sought(k, saw) ==
  /\ k.pc \in {"walk", "visit"} /\ ~IsInstructions(k.path) =>
       \E d \in saw : Missing(d, k.path) \/ IsDir(d, k.path)
  /\ k.pc = "read file" => \E d \in saw : Stands(d, k.path)

(* What the walk has still to visit was listed, what it kept was a file,   *)
(* and a file that was one all along is among the two.                     *)
Walked(k, saw) ==
  k.pc \in {"visit", "size"} =>
    /\ \A r \in DOMAIN k.todo : \E d \in saw :
         r \in DOMAIN d.files /\ k.todo[r] = d.files[r].kind
    /\ \A r \in k.files : \E d \in saw : Stands(d, r)
    /\ k.held.FS => \A r \in Res :
         (\A d \in saw : Stands(d, r)) => r \in k.files \cup DOMAIN k.todo

(* Each size is one the file had, and one is left out of a file that was   *)
(* not there to be statted.                                                *)
Sized(k, saw) ==
  k.pc = "size" =>
    /\ \A r \in DOMAIN k.sizes : \E d \in saw : Stats(d, r) /\ k.sizes[r] = StatSize(d, r)
    /\ \A r \in k.files \ (k.unsized \cup DOMAIN k.sizes) : \E d \in saw : ~Stats(d, r)

(* The answer is as promised, and of the file that was claimed.            *)
Kept(k, saw) ==
  /\ k.pc = "done" <=> k.answer # NoAnswer
  /\ k.pc = "done" => Promise!Allowed(k.held, k.path, saw, k.answer)
  /\ k.answer.kind = "instructions" =>
       k.claim = IF HoldsBody(k.held)
                   THEN {<<"skill file", f>> : f \in {k.held.file} \ {NoFile}}
                   ELSE {<<"skill file", k.file>>}
  /\ k.answer.kind = "file" => k.claim = {<<"resource", k.answer.path>>}

Lived(k, saw, now) ==
  /\ k.pc = "idle" <=> saw = {}
  /\ k.pc \notin {"idle", "done"} => now \in saw
  /\ \A d \in saw : IsDisk(d)

CallInv(k, saw, now) ==
  /\ IsCall(k)
  /\ Locals(k)
  /\ Directed(k)
  /\ Claiming(k)
  /\ Naming(k, saw)
  /\ Bodied(k, saw)
  /\ Sought(k, saw)
  /\ Walked(k, saw)
  /\ Sized(k, saw)
  /\ Kept(k, saw)
  /\ Lived(k, saw, now)

IInv ==
  /\ IsDisk(disk) /\ skill \in Skill /\ edits \in 0..MaxEdits
  /\ call = [c \in Calls |-> call[c]]
  /\ during = [c \in Calls |-> during[c]]
  /\ \A c \in Calls : CallInv(call[c], during[c], disk)
----------------------------------------------------------------------------
(* A step of one call, of which only that call need be looked at.          *)
LEMMA OwnStep ==
  ASSUME IInv, NEW c \in Calls, NEW k, Becomes(c, k), CallInv(k, during[c], disk),
         UNCHANGED <<disk, skill, during, edits>>
  PROVE  IInv'
<1>1. /\ call' = [d \in Calls |-> call'[d]]
      /\ call'[c] = k
      /\ \A d \in Calls : d # c => call'[d] = call[d]
  BY DEF Becomes, IInv
<1>2. \A d \in Calls : CallInv(call'[d], during'[d], disk')
  BY <1>1 DEF IInv
<1> QED
  BY <1>1, <1>2 DEF IInv

(* An answer that is allowed.                                              *)
LEMMA ReturnStep ==
  ASSUME IInv, NEW c \in Calls, NEW a, Return(c, a), a # NoAnswer,
         call[c].pc \notin {"idle", "claim", "done"},
         Promise!Allowed(call[c].held, call[c].path, during[c], a),
         a.kind = "instructions" =>
           call[c].claim = IF HoldsBody(call[c].held)
                        THEN {<<"skill file", f>> : f \in {call[c].held.file} \ {NoFile}}
                        ELSE {<<"skill file", call[c].file>>},
         a.kind = "file" => call[c].claim = {<<"resource", a.path>>},
         UNCHANGED <<disk, skill, during, edits>>
  PROVE  IInv'
<1> DEFINE k == [call[c] EXCEPT !.pc = "done", !.answer = a]
<1>1. CallInv(call[c], during[c], disk)
  BY DEF IInv
<1>2. /\ k.pc = "done" /\ k.answer = a /\ k.held = call[c].held /\ k.path = call[c].path
      /\ k.claim = call[c].claim /\ k.file = call[c].file /\ k.todo = call[c].todo
      /\ k.files = call[c].files /\ k.unsized = call[c].unsized /\ k.sizes = call[c].sizes
      /\ k.changed = call[c].changed /\ k.body = call[c].body
  BY <1>1 DEF CallInv, IsCall
<1>3. IsCall(k)
  BY <1>1 DEF CallInv, IsCall, Steps
<1> HIDE DEF k
<1>4. Locals(k) /\ Directed(k) /\ Claiming(k) /\ Naming(k, during[c])
      /\ Bodied(k, during[c]) /\ Sought(k, during[c]) /\ Walked(k, during[c])
      /\ Sized(k, during[c]) /\ Lived(k, during[c], disk)
  BY <1>1, <1>2 DEF CallInv, Locals, Directed, Claiming, Naming, Bodied, Sought, Walked,
                    Sized, Lived
<1>5. Kept(k, during[c])
  BY <1>2 DEF Kept
<1> QED
  BY <1>3, <1>4, <1>5, OwnStep DEF Return, CallInv, k

LEMMA RefuseStep ==
  ASSUME IInv, NEW c \in Calls, NEW why, Refuse(c, why),
         call[c].pc \notin {"idle", "claim", "done"},
         Promise!RefusalAllowed(call[c].held, call[c].path, during[c], why),
         UNCHANGED <<disk, skill, during, edits>>
  PROVE  IInv'
<1> DEFINE a == Refusal(why)
<1>1. a.kind = "error" /\ a.why = why /\ a # NoAnswer
  BY DEF Refusal, NoAnswer
<1>2. Promise!Allowed(call[c].held, call[c].path, during[c], a)
  BY <1>1 DEF Promise!Allowed
<1> HIDE DEF a
<1> QED
  BY <1>1, <1>2, ReturnStep DEF Refuse, a
(* The promise speaks of a directory in the same words.                    *)
LEMMA SameWords ==
  /\ \A p : IsInstructions(p) = Promise!IsInstructions(p)
  /\ \A files : listedSkillFile(files) = Promise!listedSkillFile(files)
  /\ \A d : Splits(d) = Promise!Splits(d)
  /\ \A d, f : DocOf(d, f) = Promise!DocOf(d, f)
  /\ \A d, f : DocRead(d, f) = Promise!DocRead(d, f)
  /\ \A d : Spelled(d) = Promise!Spelled(d)
  /\ \A d, r : Missing(d, r) = Promise!Missing(d, r)
  /\ \A d, r : Stats(d, r) = Promise!Stats(d, r)
  /\ \A d, r : IsDir(d, r) = Promise!IsDir(d, r)
  /\ \A d, r : Stands(d, r) = Promise!Stands(d, r)
  /\ \A d, r : Lists(d, r) = Promise!Lists(d, r)
  /\ \A d, r : Reads(d, r) = Promise!Reads(d, r)
  /\ \A d, r : StatSize(d, r) = Promise!StatSize(d, r)
  /\ NoFile = Promise!NoFile /\ NoAnswer = Promise!NoAnswer
  /\ Upper = Promise!Upper /\ Lower = Promise!Lower
  /\ skillFiles = Promise!skillFiles
<1>1. /\ \A p : IsInstructions(p) = Promise!IsInstructions(p)
      /\ \A files : listedSkillFile(files) = Promise!listedSkillFile(files)
      /\ \A d : Splits(d) = Promise!Splits(d)
      /\ \A d, r : Missing(d, r) = Promise!Missing(d, r)
      /\ NoFile = Promise!NoFile /\ NoAnswer = Promise!NoAnswer
      /\ Upper = Promise!Upper /\ Lower = Promise!Lower
      /\ skillFiles = Promise!skillFiles
  BY DEF IsInstructions, Promise!IsInstructions, listedSkillFile, Promise!listedSkillFile,
         Splits, Promise!Splits, Missing, Promise!Missing, Upper, Lower, NoFile,
         Promise!Upper, Promise!Lower, Promise!NoFile, NoAnswer, Promise!NoAnswer,
         skillFiles, Promise!skillFiles
<1>2. /\ \A d, r : Stats(d, r) = Promise!Stats(d, r)
      /\ \A d, r : IsDir(d, r) = Promise!IsDir(d, r)
  BY <1>1 DEF Stats, Promise!Stats, IsDir, Promise!IsDir, Dirs, Promise!Dirs
<1>3. /\ \A d, r : Stands(d, r) = Promise!Stands(d, r)
      /\ \A d, r : Lists(d, r) = Promise!Lists(d, r)
  BY <1>2 DEF Stands, Promise!Stands, Lists, Promise!Lists
<1>4. \A d, r : Reads(d, r) = Promise!Reads(d, r)
  BY <1>3 DEF Reads, Promise!Reads
<1>5. \A d, r : StatSize(d, r) = Promise!StatSize(d, r)
  BY <1>2 DEF StatSize, Promise!StatSize
<1>6. /\ \A d, f : Reached(d, f) = Promise!Reached(d, f)
      /\ \A d, f : DocOf(d, f) = Promise!DocOf(d, f)
  BY DEF Reached, Promise!Reached, DocOf, Promise!DocOf
<1>7. \A d, f : DocRead(d, f) = Promise!DocRead(d, f)
  BY <1>6 DEF DocRead, Promise!DocRead
<1>8. \A d : Spelled(d) = Promise!Spelled(d)
  BY <1>1, <1>7 DEF Spelled, Promise!Spelled
<1> QED
  BY <1>1, <1>2, <1>3, <1>4, <1>5, <1>6, <1>7, <1>8

(* What the promise allows as a refusal, said in the terms of this module. *)
LEMMA ChangeCauses ==
  ASSUME NEW s, NEW saw
  PROVE  /\ (\E d \in saw : d.listed /\ listedSkillFile(DOMAIN d.docs) # s.file)
            => Promise!ChangedAllowed(s, saw)
         /\ /\ \E d \in saw : ~d.listed
            /\ \E d \in saw : \/ DocRead(d, s.file) = "missing"
                              \/ s.file = Lower /\ DocRead(d, Upper) = "ok"
            => Promise!ChangedAllowed(s, saw)
         /\ (\E d \in saw : DocRead(d, s.file) = "ok" /\ ~Splits(DocOf(d, s.file)))
            => Promise!ChangedAllowed(s, saw)
BY SameWords DEF Promise!ChangedAllowed

LEMMA UnreadCauses ==
  ASSUME NEW saw, NEW d \in saw, NEW e \in saw, NEW f \in skillFiles,
         \/ d.listed /\ listedSkillFile(DOMAIN d.docs) = f /\ DocRead(e, f) # "ok"
         \/ ~d.listed /\ DocRead(e, f) = "error"
  PROVE  Promise!UnreadAllowed(saw)
BY SameWords DEF Promise!UnreadAllowed

LEMMA Causes ==
  ASSUME NEW s, NEW p, NEW saw
  PROVE  /\ ~s.listed => Promise!RefusalAllowed(s, p, saw, "unknown skill")
         /\ p \in InvalidPaths => Promise!RefusalAllowed(s, p, saw, "invalid path")
         /\ IsInstructions(p) /\ Promise!ChangedAllowed(s, saw)
            => Promise!RefusalAllowed(s, p, saw, "skill changed")
         /\ IsInstructions(p) /\ Promise!UnreadAllowed(saw)
            => Promise!RefusalAllowed(s, p, saw, "read skill file")
         /\ /\ IsInstructions(p) \/ \E d \in saw : ~Stands(d, p)
            /\ \/ \E d \in saw : ~d.listed
               \/ \E d, e \in saw : \E r \in DOMAIN d.files : IsDir(d, r) /\ ~Lists(e, r)
            => Promise!RefusalAllowed(s, p, saw, "list files")
         /\ (\E d \in saw : Missing(d, p) \/ IsDir(d, p))
            => Promise!RefusalAllowed(s, p, saw, "no such file")
         /\ (\E d \in saw : ~Missing(d, p) /\ ~Stats(d, p))
            => Promise!RefusalAllowed(s, p, saw, "stat")
         /\ (\E d, e \in saw : Stands(d, p) /\ ~Reads(e, p))
            => Promise!RefusalAllowed(s, p, saw, "read")
         /\ (\E d \in saw : Stands(d, p) /\ Size[d.files[p].data] > MaxBytes)
            => Promise!RefusalAllowed(s, p, saw, "too large")
         /\ (\E d \in saw :
               /\ Reads(d, p)
               /\ d.files[p].data \in Utf8 \ Nul =>
                    Extension[p] = "other" /\ Sniffed[d.files[p].data] # "text")
            => Promise!RefusalAllowed(s, p, saw, "not shown")
BY SameWords DEF Promise!RefusalAllowed

(* A skill file that reads is one of the directory.                        *)
LEMMA DocRange ==
  ASSUME NEW d, IsDisk(d), NEW f, DocRead(d, f) = "ok"
  PROVE  DocOf(d, f) \in Doc
<1>1. Reached(d, f) # {}
  BY DEF DocRead
<1>2. (CHOOSE g \in Reached(d, f) : TRUE) \in Reached(d, f)
  BY <1>1
<1>3. Reached(d, f) \subseteq DOMAIN d.docs
  BY DEF Reached
<1> QED
  BY <1>2, <1>3 DEF DocOf, IsDisk

(* A step of a call before its walk.                                       *)
Unwalked(k) == k.pc \notin {"idle", "visit", "size", "done"}

LEMMA EarlyStep ==
  ASSUME NEW h, NEW k, NEW saw, NEW now, NEW was, CallInv(h, was, now),
         h.pc \notin {"visit", "size", "done"}, Unwalked(k), IsCall(k),
         k.answer = h.answer, k.todo = h.todo, k.files = h.files,
         k.unsized = h.unsized, k.sizes = h.sizes,
         now \in saw, \A d \in saw : IsDisk(d),
         k.pc = "read" => k.file \in skillFiles,
         k.pc \in {"claim", "target"} => ~k.changed,
         Directed(k), Claiming(k), Naming(k, saw), Bodied(k, saw), Sought(k, saw)
  PROVE  CallInv(k, saw, now)
<1>1. Locals(k)
  BY DEF CallInv, Locals, Unwalked
<1>2. Walked(k, saw) /\ Sized(k, saw)
  BY DEF Walked, Sized, Unwalked
<1>3. h.answer = NoAnswer
  BY DEF CallInv, Kept
<1>4. Kept(k, saw)
  BY <1>3 DEF Kept, Unwalked, NoAnswer
<1>5. Lived(k, saw, now)
  BY DEF Lived, Unwalked
<1> QED
  BY <1>1, <1>2, <1>4, <1>5 DEF CallInv

----------------------------------------------------------------------------
(* The call arrives, and claims and targets its file.                      *)
LEMMA CallStep ==
  ASSUME IInv, NEW c \in Calls, Call(c)
  PROVE  IInv'
<1>1. PICK p \in Paths :
        Becomes(c, [call[c] EXCEPT !.pc = "claim", !.path = p, !.held = skill])
  BY DEF Call
<1> DEFINE k == [call[c] EXCEPT !.pc = "claim", !.path = p, !.held = skill]
<1>2. CallInv(call[c], during[c], disk) /\ call[c].pc = "idle" /\ IsDisk(disk) /\ skill \in Skill
  BY DEF Call, IInv
<1>3. /\ k.pc = "claim" /\ k.answer = call[c].answer /\ k.changed = call[c].changed
      /\ k.todo = call[c].todo /\ k.files = call[c].files
      /\ k.unsized = call[c].unsized /\ k.sizes = call[c].sizes
      /\ IsCall(k)
  BY <1>2 DEF CallInv, IsCall, Steps
<1>4. Becomes(c, k)
  BY <1>1
<1> HIDE DEF k
<1>5. CallInv(k, {disk}, disk)
  <2>1. /\ Directed(k) /\ Claiming(k) /\ Naming(k, {disk}) /\ Bodied(k, {disk})
        /\ Sought(k, {disk}) /\ Unwalked(k) /\ ~k.changed
    BY <1>2, <1>3 DEF Directed, Claiming, Naming, Bodied, Sought, Unwalked, CallInv, Locals
  <2> QED
    BY <1>2, <1>3, <2>1, EarlyStep
<1>6. /\ call' = [d \in Calls |-> call'[d]] /\ during' = [d \in Calls |-> during'[d]]
      /\ call'[c] = k /\ during'[c] = {disk}
      /\ \A d \in Calls : d # c => call'[d] = call[d] /\ during'[d] = during[d]
  BY <1>4 DEF Call, Becomes, IInv
<1>7. \A d \in Calls : CallInv(call'[d], during'[d], disk)
  BY <1>5, <1>6 DEF IInv
<1> QED
  BY <1>6, <1>7 DEF Call, IInv

LEMMA ClaimStep ==
  ASSUME IInv, NEW c \in Calls, Claim(c)
  PROVE  IInv'
<1> DEFINE k == [call[c] EXCEPT !.pc = "target", !.claim = Claimed(c)]
<1>1. /\ CallInv(call[c], during[c], disk) /\ call[c].pc = "claim" /\ Becomes(c, k)
      /\ UNCHANGED <<disk, skill, during, edits>>
  BY DEF Claim, At, IInv
<1>2. /\ k.pc = "target" /\ k.answer = call[c].answer /\ k.changed = call[c].changed
      /\ k.todo = call[c].todo /\ k.files = call[c].files
      /\ k.unsized = call[c].unsized /\ k.sizes = call[c].sizes
      /\ k.held = call[c].held /\ k.path = call[c].path /\ k.claim = Claimed(c)
      /\ IsCall(k)
  BY <1>1 DEF CallInv, IsCall, Steps
<1> HIDE DEF k
<1>3. Claiming(k)
  BY <1>2 DEF Claiming, Claimed, TargetRefusal
<1>4. CallInv(k, during[c], disk)
  <2>1. /\ Directed(k) /\ Naming(k, during[c]) /\ Bodied(k, during[c])
        /\ Sought(k, during[c]) /\ Unwalked(k) /\ ~k.changed
    BY <1>1, <1>2 DEF Directed, Naming, Bodied, Sought, Unwalked, CallInv, Locals
  <2>2. disk \in during[c] /\ \A d \in during[c] : IsDisk(d)
    BY <1>1 DEF CallInv, Lived
  <2> QED
    BY <1>1, <1>2, <1>3, <2>1, <2>2, EarlyStep
<1> QED
  BY <1>1, <1>4, OwnStep

LEMMA TargetStep ==
  ASSUME IInv, NEW c \in Calls, Target(c)
  PROVE  IInv'
<1>1. /\ CallInv(call[c], during[c], disk) /\ call[c].pc = "target"
      /\ UNCHANGED <<disk, skill, during, edits>>
  BY DEF Target, At, IInv
<1>2. CASE TargetRefusal(c) # "none"
  <2>1. Promise!RefusalAllowed(call[c].held, call[c].path, during[c], TargetRefusal(c))
    BY <1>2, Causes DEF TargetRefusal
  <2> QED
    BY <1>1, <1>2, <2>1, RefuseStep DEF Target
<1>3. CASE /\ TargetRefusal(c) = "none"
           /\ ~(IsInstructions(call[c].path) /\ HoldsBody(call[c].held))
  <2> DEFINE step == IF IsInstructions(call[c].path) THEN "list" ELSE "stat"
             k == [call[c] EXCEPT !.pc = step]
  <2>1. Becomes(c, k)
    BY <1>3 DEF Target, Goto
  <2>2. /\ k.pc = step /\ k.answer = call[c].answer /\ k.changed = call[c].changed
        /\ k.todo = call[c].todo /\ k.files = call[c].files
        /\ k.unsized = call[c].unsized /\ k.sizes = call[c].sizes
        /\ k.held = call[c].held /\ k.path = call[c].path /\ k.claim = call[c].claim
        /\ IsCall(k)
    BY <1>1 DEF CallInv, IsCall, Steps
  <2>3. k.held.listed /\ k.path \notin InvalidPaths
    BY <1>3, <2>2 DEF TargetRefusal
  <2> HIDE DEF k
  <2>4. Directed(k)
    BY <1>3, <2>2, <2>3 DEF Directed
  <2>5. CallInv(k, during[c], disk)
    <3>1. /\ Claiming(k) /\ Naming(k, during[c]) /\ Bodied(k, during[c])
          /\ Sought(k, during[c]) /\ Unwalked(k)
      BY <1>1, <2>2 DEF Claiming, Naming, Bodied, Sought, Unwalked, CallInv
    <3>2. disk \in during[c] /\ \A d \in during[c] : IsDisk(d)
      BY <1>1 DEF CallInv, Lived
    <3> QED
      BY <1>1, <2>2, <2>4, <3>1, <3>2, EarlyStep
  <2> QED
    BY <1>1, <2>1, <2>5, OwnStep
<1>4. CASE /\ TargetRefusal(c) = "none"
           /\ IsInstructions(call[c].path) /\ HoldsBody(call[c].held)
  <2> DEFINE k == [call[c] EXCEPT !.pc = "walk", !.body = call[c].held.body]
  <2>1. Becomes(c, k)
    BY <1>4 DEF Target
  <2>2. /\ k.pc = "walk" /\ k.answer = call[c].answer /\ k.changed = call[c].changed
        /\ k.todo = call[c].todo /\ k.files = call[c].files /\ k.body = k.held.body
        /\ k.unsized = call[c].unsized /\ k.sizes = call[c].sizes
        /\ k.held = call[c].held /\ k.path = call[c].path /\ k.claim = call[c].claim
        /\ IsCall(k)
    BY <1>1 DEF CallInv, IsCall, Steps, Skill
  <2>3. k.held.listed /\ k.path \notin InvalidPaths
    BY <1>4, <2>2 DEF TargetRefusal
  <2> HIDE DEF k
  <2>4. Bodied(k, during[c])
    BY <1>1, <1>4, <2>2 DEF Bodied, CallInv, Locals
  <2>5. Directed(k) /\ Sought(k, during[c])
    BY <1>4, <2>2, <2>3 DEF Directed, Sought
  <2>6. CallInv(k, during[c], disk)
    <3>1. Claiming(k) /\ Naming(k, during[c]) /\ Unwalked(k)
      BY <1>1, <2>2 DEF Claiming, Naming, Unwalked, CallInv
    <3>2. disk \in during[c] /\ \A d \in during[c] : IsDisk(d)
      BY <1>1 DEF CallInv, Lived
    <3> QED
      BY <1>1, <2>2, <2>4, <2>5, <3>1, <3>2, EarlyStep
  <2> QED
    BY <1>1, <2>1, <2>6, OwnStep
<1> QED
  BY <1>2, <1>3, <1>4

----------------------------------------------------------------------------
(* The skill file: its name, then its text.                                *)

(* A name that reads is refused unless it is the claimed one, and one      *)
(* refused was found where the claimed one is not the skill file.          *)
LEMMA CurrentBodyStep ==
  ASSUME IInv, NEW c \in Calls, NEW name, CurrentBody(c, name),
         call[c].pc \in {"read", "probe", "probe again"}, DocRead(disk, name) = "ok",
         name # call[c].held.file => Promise!ChangedAllowed(call[c].held, during[c]),
         UNCHANGED <<disk, skill, during, edits>>
  PROVE  IInv'
<1>1. /\ CallInv(call[c], during[c], disk) /\ disk \in during[c] /\ IsDisk(disk)
      /\ IsInstructions(call[c].path) /\ ~HoldsBody(call[c].held)
  BY DEF IInv, CallInv, Lived, Directed
<1>2. CASE name # call[c].held.file \/ ~Splits(DocOf(disk, name))
  <2>1. Promise!ChangedAllowed(call[c].held, during[c])
    BY <1>1, <1>2, ChangeCauses
  <2>2. Promise!RefusalAllowed(call[c].held, call[c].path, during[c], "skill changed")
    BY <1>1, <2>1, Causes
  <2> QED
    BY <1>2, <2>2, RefuseStep DEF CurrentBody
<1>3. CASE name = call[c].held.file /\ Splits(DocOf(disk, name))
  <2> DEFINE doc == DocOf(disk, name)
             k == [call[c] EXCEPT !.pc = "walk", !.file = name, !.body = doc.body,
                                  !.changed = doc.front # call[c].held.front]
  <2>1. Becomes(c, k)
    BY <1>3 DEF CurrentBody, Serve
  <2>2. doc \in Doc
    BY <1>1, DocRange
  <2>3. /\ k.pc = "walk" /\ k.answer = call[c].answer /\ k.file = name
        /\ k.body = doc.body /\ k.changed = (doc.front # k.held.front)
        /\ k.todo = call[c].todo /\ k.files = call[c].files
        /\ k.unsized = call[c].unsized /\ k.sizes = call[c].sizes
        /\ k.held = call[c].held /\ k.path = call[c].path /\ k.claim = call[c].claim
        /\ IsCall(k)
    BY <1>1, <2>2 DEF CallInv, IsCall, Steps, Doc
  <2> HIDE DEF k
  <2>4. Bodied(k, during[c])
    BY <1>1, <1>3, <2>3 DEF Bodied
  <2>5. CallInv(k, during[c], disk)
    <3>1. /\ Directed(k) /\ Claiming(k) /\ Naming(k, during[c])
          /\ Sought(k, during[c]) /\ Unwalked(k)
      BY <1>1, <2>3 DEF Directed, Claiming, Naming, Sought, Unwalked, CallInv
    <3>2. disk \in during[c] /\ \A d \in during[c] : IsDisk(d)
      BY <1>1 DEF CallInv, Lived
    <3> QED
      BY <1>1, <2>3, <2>4, <3>1, <3>2, EarlyStep
  <2> QED
    BY <2>1, <2>5, OwnStep
<1> QED
  BY <1>2, <1>3

LEMMA ListStep ==
  ASSUME IInv, NEW c \in Calls, List(c)
  PROVE  IInv'
<1>1. /\ CallInv(call[c], during[c], disk) /\ call[c].pc = "list" /\ disk \in during[c]
      /\ IsInstructions(call[c].path) /\ ~HoldsBody(call[c].held)
      /\ UNCHANGED <<disk, skill, during, edits>>
  BY DEF List, At, IInv, CallInv, Lived, Directed
<1>2. CASE ~disk.listed
  <2> DEFINE k == [call[c] EXCEPT !.pc = "probe"]
  <2>1. Becomes(c, k)
    BY <1>2 DEF List, Goto
  <2>2. /\ k.pc = "probe" /\ k.answer = call[c].answer
        /\ k.todo = call[c].todo /\ k.files = call[c].files
        /\ k.unsized = call[c].unsized /\ k.sizes = call[c].sizes
        /\ k.held = call[c].held /\ k.path = call[c].path /\ k.claim = call[c].claim
        /\ IsCall(k)
    BY <1>1 DEF CallInv, IsCall, Steps
  <2> HIDE DEF k
  <2>3. CallInv(k, during[c], disk)
    <3>1. /\ Directed(k) /\ Claiming(k) /\ Bodied(k, during[c])
          /\ Sought(k, during[c]) /\ Unwalked(k)
      BY <1>1, <2>2 DEF Directed, Claiming, Bodied, Sought, Unwalked, CallInv
    <3>2. Naming(k, during[c])
      BY <1>1, <1>2, <2>2 DEF Naming
    <3>3. disk \in during[c] /\ \A d \in during[c] : IsDisk(d)
      BY <1>1 DEF CallInv, Lived
    <3> QED
      BY <1>1, <2>2, <3>1, <3>2, <3>3, EarlyStep
  <2> QED
    BY <1>1, <2>1, <2>3, OwnStep
<1>3. CASE disk.listed /\ Listing = NoFile
  <2>1. Promise!ChangedAllowed(call[c].held, during[c])
    BY <1>1, <1>3, ChangeCauses DEF Listing, HoldsBody
  <2>2. Promise!RefusalAllowed(call[c].held, call[c].path, during[c], "skill changed")
    BY <1>1, <2>1, Causes
  <2> QED
    BY <1>1, <1>3, <2>2, RefuseStep DEF List
<1>4. CASE disk.listed /\ Listing # NoFile
  <2> DEFINE k == [call[c] EXCEPT !.pc = "read", !.file = Listing]
  <2>1. Becomes(c, k)
    BY <1>4 DEF List
  <2>2. /\ k.pc = "read" /\ k.answer = call[c].answer /\ k.file = Listing
        /\ k.todo = call[c].todo /\ k.files = call[c].files
        /\ k.unsized = call[c].unsized /\ k.sizes = call[c].sizes
        /\ k.held = call[c].held /\ k.path = call[c].path /\ k.claim = call[c].claim
        /\ IsCall(k)
    BY <1>1 DEF CallInv, IsCall, Steps
  <2> HIDE DEF k
  <2>3. Listing \in skillFiles
    BY <1>4 DEF Listing, listedSkillFile, skillFiles
  <2>4. Naming(k, during[c])
    BY <1>1, <1>4, <2>2 DEF Naming, Listing
  <2>5. CallInv(k, during[c], disk)
    <3>1. /\ Directed(k) /\ Claiming(k) /\ Bodied(k, during[c])
          /\ Sought(k, during[c]) /\ Unwalked(k)
      BY <1>1, <2>2 DEF Directed, Claiming, Bodied, Sought, Unwalked, CallInv
    <3>2. disk \in during[c] /\ \A d \in during[c] : IsDisk(d)
      BY <1>1 DEF CallInv, Lived
    <3> QED
      BY <1>1, <2>2, <2>3, <2>4, <3>1, <3>2, EarlyStep
  <2> QED
    BY <1>1, <2>1, <2>5, OwnStep
<1> QED
  BY <1>2, <1>3, <1>4

LEMMA ReadSkillStep ==
  ASSUME IInv, NEW c \in Calls, ReadSkill(c)
  PROVE  IInv'
<1>1. /\ CallInv(call[c], during[c], disk) /\ call[c].pc = "read" /\ disk \in during[c]
      /\ IsInstructions(call[c].path) /\ call[c].file \in skillFiles
      /\ UNCHANGED <<disk, skill, during, edits>>
  BY DEF ReadSkill, At, IInv, CallInv, Lived, Directed, Locals
<1>2. PICK d \in during[c] : d.listed /\ call[c].file = listedSkillFile(DOMAIN d.docs)
  BY <1>1 DEF CallInv, Naming
<1>3. CASE DocRead(disk, call[c].file) = "ok"
  <2>1. call[c].file # call[c].held.file => Promise!ChangedAllowed(call[c].held, during[c])
    BY <1>2, ChangeCauses
  <2> QED
    BY <1>1, <1>3, <2>1, CurrentBodyStep DEF ReadSkill
<1>4. CASE DocRead(disk, call[c].file) # "ok"
  <2>1. Promise!UnreadAllowed(during[c])
    BY <1>1, <1>2, <1>4, UnreadCauses
  <2>2. Promise!RefusalAllowed(call[c].held, call[c].path, during[c], "read skill file")
    BY <1>1, <2>1, Causes
  <2> QED
    BY <1>1, <1>4, <2>2, RefuseStep DEF ReadSkill
<1> QED
  BY <1>3, <1>4

(* A probe that fails for another reason than that nothing is there.       *)
LEMMA ProbeFailed ==
  ASSUME IInv, NEW c \in Calls, call[c].pc \in {"probe", "probe again"},
         NEW f \in skillFiles, DocRead(disk, f) = "error",
         Refuse(c, "read skill file"), UNCHANGED <<disk, skill, during, edits>>
  PROVE  IInv'
<1>1. /\ CallInv(call[c], during[c], disk) /\ disk \in during[c]
      /\ IsInstructions(call[c].path)
  BY DEF IInv, CallInv, Lived, Directed
<1>2. Promise!UnreadAllowed(during[c])
  BY <1>1, UnreadCauses DEF CallInv, Naming
<1>3. Promise!RefusalAllowed(call[c].held, call[c].path, during[c], "read skill file")
  BY <1>1, <1>2, Causes
<1> QED
  BY <1>3, RefuseStep

LEMMA ProbeUpperStep ==
  ASSUME IInv, NEW c \in Calls, ProbeUpper(c)
  PROVE  IInv'
<1>1. /\ CallInv(call[c], during[c], disk) /\ call[c].pc = "probe" /\ disk \in during[c]
      /\ call[c].held.file \in skillFiles
      /\ UNCHANGED <<disk, skill, during, edits>>
  BY DEF ProbeUpper, At, IInv, CallInv, IsCall, Lived, Directed, Skill, HoldsBody
<1>2. \E d \in during[c] : ~d.listed
  BY <1>1 DEF CallInv, Naming
<1>3. CASE DocRead(disk, Upper) = "ok" /\ CurrentBody(c, Upper)
  <2>1. Upper # call[c].held.file => Promise!ChangedAllowed(call[c].held, during[c])
    BY <1>1, <1>2, <1>3, ChangeCauses DEF skillFiles
  <2> QED
    BY <1>1, <1>3, <2>1, CurrentBodyStep
<1>4. CASE DocRead(disk, Upper) = "error" /\ Refuse(c, "read skill file")
  BY <1>1, <1>4, ProbeFailed DEF skillFiles
<1>5. CASE DocRead(disk, Upper) = "missing" /\ Goto(c, "probe again")
  <2> DEFINE k == [call[c] EXCEPT !.pc = "probe again"]
  <2>1. Becomes(c, k)
    BY <1>5 DEF Goto
  <2>2. /\ k.pc = "probe again" /\ k.answer = call[c].answer
        /\ k.todo = call[c].todo /\ k.files = call[c].files
        /\ k.unsized = call[c].unsized /\ k.sizes = call[c].sizes
        /\ k.held = call[c].held /\ k.path = call[c].path /\ k.claim = call[c].claim
        /\ IsCall(k)
    BY <1>1 DEF CallInv, IsCall, Steps
  <2> HIDE DEF k
  <2>3. Naming(k, during[c])
    BY <1>1, <1>2, <1>5, <2>2 DEF Naming
  <2>4. CallInv(k, during[c], disk)
    <3>1. /\ Directed(k) /\ Claiming(k) /\ Bodied(k, during[c])
          /\ Sought(k, during[c]) /\ Unwalked(k)
      BY <1>1, <2>2 DEF Directed, Claiming, Bodied, Sought, Unwalked, CallInv
    <3>2. disk \in during[c] /\ \A d \in during[c] : IsDisk(d)
      BY <1>1 DEF CallInv, Lived
    <3> QED
      BY <1>1, <2>2, <2>3, <3>1, <3>2, EarlyStep
  <2> QED
    BY <1>1, <2>1, <2>4, OwnStep
<1> QED
  BY <1>3, <1>4, <1>5 DEF ProbeUpper

(* Whichever of the two names was claimed, it was missing once.            *)
LEMMA ProbeLowerStep ==
  ASSUME IInv, NEW c \in Calls, ProbeLower(c)
  PROVE  IInv'
<1>1. /\ CallInv(call[c], during[c], disk) /\ call[c].pc = "probe again"
      /\ disk \in during[c] /\ IsInstructions(call[c].path)
      /\ call[c].held.file \in skillFiles
      /\ UNCHANGED <<disk, skill, during, edits>>
  BY DEF ProbeLower, At, IInv, CallInv, IsCall, Lived, Directed, Skill, HoldsBody
<1>2. /\ \E d \in during[c] : ~d.listed
      /\ \E d \in during[c] : DocRead(d, Upper) = "missing"
  BY <1>1 DEF CallInv, Naming
<1>3. call[c].held.file = Upper => Promise!ChangedAllowed(call[c].held, during[c])
  BY <1>2, ChangeCauses
<1>4. CASE DocRead(disk, Lower) = "ok" /\ CurrentBody(c, Lower)
  BY <1>1, <1>3, <1>4, CurrentBodyStep DEF skillFiles
<1>5. CASE DocRead(disk, Lower) = "error" /\ Refuse(c, "read skill file")
  BY <1>1, <1>5, ProbeFailed DEF skillFiles
<1>6. CASE DocRead(disk, Lower) = "missing" /\ Refuse(c, "skill changed")
  <2>1. Promise!ChangedAllowed(call[c].held, during[c])
    BY <1>1, <1>2, <1>3, <1>6, ChangeCauses DEF skillFiles
  <2>2. Promise!RefusalAllowed(call[c].held, call[c].path, during[c], "skill changed")
    BY <1>1, <2>1, Causes
  <2> QED
    BY <1>1, <1>6, <2>2, RefuseStep
<1> QED
  BY <1>4, <1>5, <1>6 DEF ProbeLower

----------------------------------------------------------------------------
(* The walk over the other files.                                          *)

LEMMA WalkStep ==
  ASSUME NEW h, NEW k, NEW saw, NEW now, CallInv(h, saw, now),
         h.pc \in {"walk", "visit"}, k.pc = "visit", IsCall(k),
         k.held = h.held, k.path = h.path, k.claim = h.claim, k.file = h.file,
         k.body = h.body, k.changed = h.changed, k.answer = h.answer,
         k.unsized = h.unsized, k.sizes = h.sizes,
         DOMAIN k.todo \subseteq Res, Walked(k, saw)
  PROVE  CallInv(k, saw, now)
<1>1. Locals(k) /\ Directed(k) /\ Claiming(k) /\ Naming(k, saw)
  BY DEF CallInv, IsCall, Locals, Directed, Claiming, Naming
<1>2. Bodied(k, saw) /\ Sought(k, saw) /\ Sized(k, saw)
  BY DEF CallInv, Bodied, Sought, Sized
<1>3. h.answer = NoAnswer
  BY DEF CallInv, Kept
<1>4. Kept(k, saw)
  BY <1>3 DEF Kept, NoAnswer
<1>5. Lived(k, saw, now)
  BY DEF CallInv, Lived
<1> QED
  BY <1>1, <1>2, <1>4, <1>5 DEF CallInv

(* A walk for a file that was not found may be refused too.                *)
LEMMA WalkRefused ==
  ASSUME IInv, NEW c \in Calls, call[c].pc \in {"walk", "visit"},
         Refuse(c, "list files"),
         \/ \E d \in during[c] : ~d.listed
         \/ \E d, e \in during[c] : \E r \in DOMAIN d.files : IsDir(d, r) /\ ~Lists(e, r),
         UNCHANGED <<disk, skill, during, edits>>
  PROVE  IInv'
<1>1. IsInstructions(call[c].path) \/ \E d \in during[c] : ~Stands(d, call[c].path)
  BY DEF IInv, CallInv, Sought, Stands, Stats
<1>2. Promise!RefusalAllowed(call[c].held, call[c].path, during[c], "list files")
  BY <1>1, Causes
<1> QED
  BY <1>2, RefuseStep

LEMMA WalkRootStep ==
  ASSUME IInv, NEW c \in Calls, WalkRoot(c)
  PROVE  IInv'
<1>1. /\ CallInv(call[c], during[c], disk) /\ call[c].pc = "walk" /\ disk \in during[c]
      /\ IsDisk(disk) /\ call[c].files = {} /\ DOMAIN call[c].todo = {}
      /\ UNCHANGED <<disk, skill, during, edits>>
  BY DEF WalkRoot, At, IInv, CallInv, Lived, Locals
<1>2. CASE ~call[c].held.FS
  <2> DEFINE k == [call[c] EXCEPT !.pc = "visit"]
  <2>1. Becomes(c, k)
    BY <1>2 DEF WalkRoot, Goto
  <2>2. /\ k.pc = "visit" /\ k.answer = call[c].answer /\ k.file = call[c].file
        /\ k.body = call[c].body /\ k.changed = call[c].changed
        /\ k.todo = call[c].todo /\ k.files = call[c].files
        /\ k.unsized = call[c].unsized /\ k.sizes = call[c].sizes
        /\ k.held = call[c].held /\ k.path = call[c].path /\ k.claim = call[c].claim
        /\ IsCall(k)
    BY <1>1 DEF CallInv, IsCall, Steps
  <2> HIDE DEF k
  <2>3. Walked(k, during[c])
    BY <1>1, <1>2, <2>2 DEF Walked
  <2>4. CallInv(k, during[c], disk)
    BY <1>1, <2>2, <2>3, WalkStep
  <2> QED
    BY <1>1, <2>1, <2>4, OwnStep
<1>3. CASE call[c].held.FS /\ ~disk.listed
  BY <1>1, <1>3, WalkRefused DEF WalkRoot
<1>4. CASE call[c].held.FS /\ disk.listed
  <2> DEFINE listing == [r \in DOMAIN disk.files |-> disk.files[r].kind]
             k == [call[c] EXCEPT !.pc = "visit", !.todo = listing]
  <2>1. Becomes(c, k)
    BY <1>4 DEF WalkRoot
  <2>2. /\ k.pc = "visit" /\ k.answer = call[c].answer /\ k.file = call[c].file
        /\ k.body = call[c].body /\ k.changed = call[c].changed
        /\ k.todo = listing /\ k.files = call[c].files
        /\ k.unsized = call[c].unsized /\ k.sizes = call[c].sizes
        /\ k.held = call[c].held /\ k.path = call[c].path /\ k.claim = call[c].claim
        /\ IsCall(k)
    BY <1>1 DEF CallInv, IsCall, Steps
  <2>3. /\ DOMAIN listing = DOMAIN disk.files /\ DOMAIN listing \subseteq Res
        /\ \A r \in DOMAIN listing : listing[r] = disk.files[r].kind
    BY <1>1 DEF IsDisk
  <2> HIDE DEF k, listing
  <2>4. Walked(k, during[c])
    <3>1. \A r : Stands(disk, r) => r \in DOMAIN disk.files
      BY DEF Stands, Stats, Missing
    <3> QED
      BY <1>1, <2>2, <2>3, <3>1 DEF Walked
  <2>5. CallInv(k, during[c], disk)
    BY <1>1, <2>2, <2>3, <2>4, WalkStep
  <2> QED
    BY <1>1, <2>1, <2>5, OwnStep
<1> QED
  BY <1>2, <1>3, <1>4

(* An entry listed as a directory is no file then, a link is a file now or *)
(* is none, and any other entry was a file when it was listed.             *)
LEMMA VisitStep ==
  ASSUME IInv, NEW c \in Calls, Visit(c)
  PROVE  IInv'
<1>1. PICK r \in DOMAIN call[c].todo : VisitFile(c, r) \/ VisitDir(c, r)
  BY DEF Visit
<1>2. /\ CallInv(call[c], during[c], disk) /\ call[c].pc = "visit" /\ disk \in during[c]
      /\ \A d \in during[c] : IsDisk(d)
      /\ DOMAIN call[c].todo \subseteq Res /\ call[c].files \in SUBSET Res
      /\ UNCHANGED <<disk, skill, during, edits>>
  BY DEF Visit, At, IInv, CallInv, IsCall, Lived, Locals
<1>3. PICK d \in during[c] : r \in DOMAIN d.files /\ call[c].todo[r] = d.files[r].kind
  BY <1>2 DEF CallInv, Walked
<1> DEFINE left == Drop(call[c].todo, r)
<1>4. /\ DOMAIN left = DOMAIN call[c].todo \ {r}
      /\ \A x \in DOMAIN left : left[x] = call[c].todo[x]
  BY DEF Drop
<1> HIDE DEF left
<1>5. ASSUME NEW files \in {call[c].files, call[c].files \cup {r}},
             Becomes(c, [call[c] EXCEPT !.todo = left, !.files = files]),
             r \in files => r \in call[c].files \/ \E e \in during[c] : Stands(e, r),
             r \notin files => \E e \in during[c] : ~Stands(e, r)
      PROVE  IInv'
  <2> DEFINE k == [call[c] EXCEPT !.todo = left, !.files = files]
  <2>1. files \in SUBSET Res
    BY <1>2, <1>5
  <2>2. /\ k.pc = "visit" /\ k.answer = call[c].answer /\ k.file = call[c].file
        /\ k.body = call[c].body /\ k.changed = call[c].changed
        /\ k.todo = left /\ k.files = files
        /\ k.unsized = call[c].unsized /\ k.sizes = call[c].sizes
        /\ k.held = call[c].held /\ k.path = call[c].path /\ k.claim = call[c].claim
        /\ IsCall(k)
    BY <1>2, <2>1 DEF CallInv, IsCall
  <2>3. Becomes(c, k)
    BY <1>5
  <2> HIDE DEF k
  <2>4. Walked(k, during[c])
    <3>1. Walked(call[c], during[c])
      BY <1>2 DEF CallInv
    <3>2. \A x \in DOMAIN k.todo : \E e \in during[c] :
            x \in DOMAIN e.files /\ k.todo[x] = e.files[x].kind
      BY <1>2, <1>4, <2>2, <3>1 DEF Walked
    <3>3. \A x \in k.files : \E e \in during[c] : Stands(e, x)
      BY <1>2, <1>5, <2>2, <3>1 DEF Walked
    <3>4. k.held.FS => \A x \in Res :
            (\A e \in during[c] : Stands(e, x)) => x \in k.files \cup DOMAIN k.todo
      BY <1>2, <1>4, <1>5, <2>2, <3>1 DEF Walked
    <3> QED
      BY <3>2, <3>3, <3>4 DEF Walked
  <2>5. CallInv(k, during[c], disk)
    <3>1. DOMAIN k.todo \subseteq Res
      BY <1>2, <1>4, <2>2
    <3> QED
      BY <1>2, <2>2, <2>4, <3>1, WalkStep
  <2> QED
    BY <1>2, <2>3, <2>5, OwnStep
<1>6. CASE VisitFile(c, r)
  <2> DEFINE kind == call[c].todo[r]
             gone == kind \in Links /\ (~Stats(disk, r) \/ IsDir(disk, r))
             files == IF gone THEN call[c].files ELSE call[c].files \cup {r}
  <2>1. kind \notin Dirs /\ Becomes(c, [call[c] EXCEPT !.todo = left, !.files = files])
    BY <1>6 DEF VisitFile, left
  <2>2. gone => ~Stands(disk, r)
    BY DEF Stands
  <2>3. ~gone => Stands(disk, r) \/ Stands(d, r)
    <3>1. kind \in Links \/ kind \in {"file", "sealed"}
      BY <1>2, <1>3, <2>1 DEF IsDisk, Entry
    <3>2. kind \in {"file", "sealed"} => Stands(d, r)
      BY <1>3 DEF Stands, Stats, Missing, IsDir, Dirs
    <3> QED
      BY <3>1, <3>2 DEF Stands
  <2> QED
    BY <1>2, <1>3, <1>5, <2>1, <2>2, <2>3
<1>7. CASE VisitDir(c, r)
  <2>1. IsDir(d, r)
    BY <1>3, <1>7 DEF VisitDir, IsDir, Stats, Missing, Dirs
  <2>2. CASE Lists(disk, r)
    <3>1. Becomes(c, [call[c] EXCEPT !.todo = left])
      BY <1>7, <2>2 DEF VisitDir, left
    <3>2. [call[c] EXCEPT !.todo = left] =
            [call[c] EXCEPT !.todo = left, !.files = call[c].files]
      BY <1>2 DEF CallInv, IsCall
    <3>3. ~Stands(d, r)
      BY <2>1 DEF Stands
    <3> QED
      BY <1>5, <3>1, <3>2, <3>3
  <2>3. CASE ~Lists(disk, r)
    BY <1>2, <1>3, <1>7, <2>1, <2>3, WalkRefused DEF VisitDir
  <2> QED
    BY <2>2, <2>3
<1> QED
  BY <1>1, <1>6, <1>7

LEMMA WalkEndStep ==
  ASSUME IInv, NEW c \in Calls, WalkEnd(c)
  PROVE  IInv'
<1>1. /\ CallInv(call[c], during[c], disk) /\ call[c].pc = "visit"
      /\ DOMAIN call[c].todo = {} /\ call[c].unsized = {} /\ DOMAIN call[c].sizes = {}
      /\ call[c].answer = NoAnswer
      /\ UNCHANGED <<disk, skill, during, edits>>
  BY DEF WalkEnd, At, IInv, CallInv, Locals, Kept
<1>2. CASE IsInstructions(call[c].path)
  <2> DEFINE k == [call[c] EXCEPT !.pc = "size", !.unsized = call[c].files]
  <2>1. Becomes(c, k)
    BY <1>2 DEF WalkEnd
  <2>2. /\ k.pc = "size" /\ k.answer = call[c].answer /\ k.file = call[c].file
        /\ k.body = call[c].body /\ k.changed = call[c].changed
        /\ k.todo = call[c].todo /\ k.files = call[c].files
        /\ k.unsized = call[c].files /\ k.sizes = call[c].sizes
        /\ k.held = call[c].held /\ k.path = call[c].path /\ k.claim = call[c].claim
        /\ IsCall(k)
    BY <1>1 DEF CallInv, IsCall, Steps
  <2> HIDE DEF k
  <2>3. Locals(k) /\ Directed(k) /\ Claiming(k) /\ Naming(k, during[c])
    BY <1>1, <1>2, <2>2 DEF CallInv, Locals, Directed, Claiming, Naming
  <2>4. Bodied(k, during[c]) /\ Sought(k, during[c]) /\ Sized(k, during[c])
    BY <1>1, <2>2 DEF CallInv, Bodied, Sought, Sized
  <2>5. Walked(k, during[c])
    BY <1>1, <2>2 DEF CallInv, Walked
  <2>6. Kept(k, during[c]) /\ Lived(k, during[c], disk)
    BY <1>1, <2>2 DEF CallInv, Kept, Lived, NoAnswer
  <2> QED
    BY <1>1, <2>1, <2>2, <2>3, <2>4, <2>5, <2>6, OwnStep DEF CallInv
<1>3. CASE ~IsInstructions(call[c].path)
  <2>1. Promise!RefusalAllowed(call[c].held, call[c].path, during[c], "no such file")
    BY <1>1, <1>3, Causes DEF CallInv, Sought
  <2> QED
    BY <1>1, <1>3, <2>1, RefuseStep DEF WalkEnd
<1> QED
  BY <1>2, <1>3

LEMMA SizeOfStep ==
  ASSUME IInv, NEW c \in Calls, SizeOf(c)
  PROVE  IInv'
<1>1. PICK r \in call[c].unsized :
        Becomes(c, [call[c] EXCEPT !.unsized = @ \ {r},
          !.sizes = IF Stats(disk, r) THEN Put(@, r, StatSize(disk, r)) ELSE @])
  BY DEF SizeOf
<1>2. /\ CallInv(call[c], during[c], disk) /\ call[c].pc = "size" /\ disk \in during[c]
      /\ call[c].unsized \subseteq call[c].files
      /\ DOMAIN call[c].sizes \subseteq call[c].files \ call[c].unsized
      /\ DOMAIN call[c].todo = {} /\ call[c].answer = NoAnswer
      /\ UNCHANGED <<disk, skill, during, edits>>
  BY DEF SizeOf, At, IInv, CallInv, Lived, Locals, Kept
<1> DEFINE sizes == IF Stats(disk, r) THEN Put(call[c].sizes, r, StatSize(disk, r))
                    ELSE call[c].sizes
           k == [call[c] EXCEPT !.unsized = call[c].unsized \ {r}, !.sizes = sizes]
<1>3. Becomes(c, k)
  BY <1>1
<1>4. /\ DOMAIN sizes = IF Stats(disk, r) THEN DOMAIN call[c].sizes \cup {r}
                        ELSE DOMAIN call[c].sizes
      /\ \A x \in DOMAIN call[c].sizes : sizes[x] = call[c].sizes[x]
      /\ Stats(disk, r) => sizes[r] = StatSize(disk, r)
  <2>1. r \notin DOMAIN call[c].sizes
    BY <1>2
  <2> QED
    BY <2>1 DEF Put
<1> HIDE DEF sizes
<1>5. /\ k.pc = "size" /\ k.answer = call[c].answer /\ k.file = call[c].file
      /\ k.body = call[c].body /\ k.changed = call[c].changed
      /\ k.todo = call[c].todo /\ k.files = call[c].files
      /\ k.unsized = call[c].unsized \ {r} /\ k.sizes = sizes
      /\ k.held = call[c].held /\ k.path = call[c].path /\ k.claim = call[c].claim
      /\ IsCall(k)
  BY <1>2 DEF CallInv, IsCall
<1> HIDE DEF k
<1>6. Locals(k) /\ Directed(k) /\ Claiming(k) /\ Naming(k, during[c])
  BY <1>2, <1>4, <1>5 DEF CallInv, Locals, Directed, Claiming, Naming
<1>7. Bodied(k, during[c]) /\ Sought(k, during[c]) /\ Walked(k, during[c])
  BY <1>2, <1>5 DEF CallInv, Bodied, Sought, Walked
<1>8. Sized(k, during[c])
  <2>1. Sized(call[c], during[c])
    BY <1>2 DEF CallInv
  <2>2. \A x \in DOMAIN k.sizes : \E d \in during[c] : Stats(d, x) /\ k.sizes[x] = StatSize(d, x)
    BY <1>2, <1>4, <1>5, <2>1 DEF Sized
  <2>3. \A x \in k.files \ (k.unsized \cup DOMAIN k.sizes) : \E d \in during[c] : ~Stats(d, x)
    BY <1>2, <1>4, <1>5, <2>1 DEF Sized
  <2> QED
    BY <2>2, <2>3 DEF Sized
<1>9. Kept(k, during[c]) /\ Lived(k, during[c], disk)
  BY <1>2, <1>5 DEF CallInv, Kept, Lived, NoAnswer
<1> QED
  BY <1>2, <1>3, <1>5, <1>6, <1>7, <1>8, <1>9, OwnStep DEF CallInv

(* The instructions, each part of which stood in the directory.            *)
LEMMA ReplyStep ==
  ASSUME IInv, NEW c \in Calls, Reply(c)
  PROVE  IInv'
<1> DEFINE h == call[c]
           saw == during[c]
           a == [kind |-> "instructions", front |-> h.held.front, changed |-> h.changed,
                 body |-> h.body, files |-> h.files, sizes |-> h.sizes]
<1>1. /\ CallInv(h, saw, disk) /\ h.pc = "size" /\ h.unsized = {} /\ Return(c, a)
      /\ UNCHANGED <<disk, skill, during, edits>>
  BY DEF Reply, At, IInv
<1>2. /\ IsInstructions(h.path) /\ h.held.listed /\ h.path \notin InvalidPaths
      /\ DOMAIN h.sizes \subseteq h.files /\ DOMAIN h.todo = {}
      /\ Bodied(h, saw) /\ Walked(h, saw) /\ Sized(h, saw) /\ Claiming(h)
  BY <1>1 DEF CallInv, Directed, Locals
<1>3. /\ a.kind = "instructions" /\ a.front = h.held.front /\ a.changed = h.changed
      /\ a.body = h.body /\ a.files = h.files /\ a.sizes = h.sizes /\ a # NoAnswer
  BY DEF NoAnswer
<1> HIDE DEF a, h, saw
<1>4. Promise!InstructionsAllowed(h.held, h.path, saw, a)
  <2>1. IF HoldsBody(h.held) THEN a.body = h.held.body /\ ~a.changed
        ELSE \E d \in saw : /\ DocRead(d, h.held.file) = "ok"
                            /\ Splits(DocOf(d, h.held.file))
                            /\ a.body = DocOf(d, h.held.file).body
                            /\ a.changed = (DocOf(d, h.held.file).front # h.held.front)
    BY <1>1, <1>2, <1>3 DEF Bodied
  <2>2. /\ \A r \in a.files : \E d \in saw : Stands(d, r)
        /\ h.held.FS => \A r \in Res : (\A d \in saw : Stands(d, r)) => r \in a.files
    BY <1>1, <1>2, <1>3 DEF Walked
  <2>3. /\ \A r \in DOMAIN a.sizes : \E d \in saw : Stats(d, r) /\ a.sizes[r] = StatSize(d, r)
        /\ \A r \in a.files \ DOMAIN a.sizes : \E d \in saw : ~Stats(d, r)
    BY <1>1, <1>2, <1>3 DEF Sized
  <2> QED
    BY <1>2, <1>3, <2>1, <2>2, <2>3, SameWords DEF Promise!InstructionsAllowed, HoldsBody
<1>5. Promise!Allowed(h.held, h.path, saw, a)
  BY <1>2, <1>3, <1>4 DEF Promise!Allowed
<1>6. h.claim = IF HoldsBody(h.held) THEN {<<"skill file", f>> : f \in {h.held.file} \ {NoFile}}
                ELSE {<<"skill file", h.file>>}
  <2>1. h.claim = {<<"skill file", f>> : f \in {h.held.file} \ {NoFile}}
    BY <1>1, <1>2 DEF Claiming
  <2>2. ~HoldsBody(h.held) => h.file = h.held.file /\ h.held.file # NoFile
    BY <1>1, <1>2 DEF Bodied, HoldsBody
  <2>3. h.held.file # NoFile =>
          {<<"skill file", f>> : f \in {h.held.file} \ {NoFile}} = {<<"skill file", h.held.file>>}
    OBVIOUS
  <2> QED
    BY <2>1, <2>2, <2>3
<1> QED
  BY <1>1, <1>3, <1>5, <1>6, ReturnStep DEF h, saw

----------------------------------------------------------------------------
(* Another file.                                                           *)
LEMMA StatFileStep ==
  ASSUME IInv, NEW c \in Calls, StatFile(c)
  PROVE  IInv'
<1> DEFINE p == call[c].path
<1>1. /\ CallInv(call[c], during[c], disk) /\ call[c].pc = "stat" /\ disk \in during[c]
      /\ ~IsInstructions(p) /\ call[c].held.listed /\ p \notin InvalidPaths
      /\ \A d \in during[c] : IsDisk(d)
      /\ UNCHANGED <<disk, skill, during, edits>>
  BY DEF StatFile, At, IInv, CallInv, Lived, Directed
<1>2. ASSUME NEW step \in {"walk", "read file"}, Goto(c, step),
             step = "walk" => Missing(disk, p) \/ IsDir(disk, p),
             step = "read file" => Stands(disk, p)
      PROVE  IInv'
  <2> DEFINE k == [call[c] EXCEPT !.pc = step]
  <2>1. /\ k.pc = step /\ k.answer = call[c].answer
        /\ k.todo = call[c].todo /\ k.files = call[c].files
        /\ k.unsized = call[c].unsized /\ k.sizes = call[c].sizes
        /\ k.held = call[c].held /\ k.path = call[c].path /\ k.claim = call[c].claim
        /\ IsCall(k)
    BY <1>1 DEF CallInv, IsCall, Steps
  <2> HIDE DEF k
  <2>2. /\ Directed(k) /\ Claiming(k) /\ Naming(k, during[c]) /\ Bodied(k, during[c])
        /\ Unwalked(k)
    BY <1>1, <2>1 DEF Directed, Claiming, Naming, Bodied, Unwalked, CallInv
  <2>3. Sought(k, during[c])
    BY <1>1, <1>2, <2>1 DEF Sought
  <2>4. CallInv(k, during[c], disk)
    BY <1>1, <2>1, <2>2, <2>3, EarlyStep
  <2> QED
    BY <1>1, <1>2, <2>4, OwnStep DEF Goto, k
<1>3. CASE ~call[c].held.FS
  <2>1. Panic.kind = "panic" /\ Panic # NoAnswer
    BY DEF Panic, NoAnswer
  <2>2. Promise!Allowed(call[c].held, p, during[c], Panic)
    BY <1>1, <1>3, <2>1, SameWords DEF Promise!Allowed
  <2> QED
    BY <1>1, <1>3, <2>1, <2>2, ReturnStep DEF StatFile
<1>4. CASE call[c].held.FS /\ (Missing(disk, p) \/ IsDir(disk, p))
  BY <1>2, <1>4 DEF StatFile, IsDir
<1>5. CASE call[c].held.FS /\ ~Missing(disk, p) /\ ~Stats(disk, p)
  BY <1>1, <1>5, Causes, RefuseStep DEF StatFile
<1>6. CASE call[c].held.FS /\ Stats(disk, p) /\ ~IsDir(disk, p)
  <2>1. Stands(disk, p) /\ ~Missing(disk, p) /\ StatSize(disk, p) = Size[disk.files[p].data]
    BY <1>6 DEF Stands, Stats, StatSize
  <2>2. CASE StatSize(disk, p) > MaxBytes
    <3>1. Promise!RefusalAllowed(call[c].held, p, during[c], "too large")
      BY <1>1, <2>1, <2>2, Causes
    <3> QED
      BY <1>1, <1>6, <2>1, <2>2, <3>1, RefuseStep DEF StatFile
  <2>3. CASE ~(StatSize(disk, p) > MaxBytes)
    BY <1>2, <1>6, <2>1, <2>3 DEF StatFile
  <2> QED
    BY <2>2, <2>3
<1> QED
  BY <1>3, <1>4, <1>5, <1>6

(* The bytes shown are those of one read, measured and classified.         *)
LEMMA ReadFileStep ==
  ASSUME IInv, NEW c \in Calls, ReadFile(c)
  PROVE  IInv'
<1> DEFINE p == call[c].path
           b == disk.files[p].data
<1>1. /\ CallInv(call[c], during[c], disk) /\ call[c].pc = "read file" /\ disk \in during[c]
      /\ ~IsInstructions(p) /\ call[c].held.listed /\ p \notin InvalidPaths
      /\ p \in Paths /\ IsDisk(disk) /\ Claiming(call[c])
      /\ UNCHANGED <<disk, skill, during, edits>>
  BY DEF ReadFile, At, IInv, CallInv, IsCall, Lived, Directed
<1>2. p \in Res
  BY <1>1, PathsAssumption DEF IsInstructions
<1>3. CASE ~Reads(disk, p)
  <2>1. \E d \in during[c] : Stands(d, p)
    BY <1>1 DEF CallInv, Sought
  <2>2. Promise!RefusalAllowed(call[c].held, p, during[c], "read")
    BY <1>1, <1>3, <2>1, Causes
  <2> QED
    BY <1>1, <1>3, <2>2, RefuseStep DEF ReadFile
<1>4. CASE Reads(disk, p) /\ TooLarge(b)
  <2>1. Promise!RefusalAllowed(call[c].held, p, during[c], "too large")
    BY <1>1, <1>4, Causes DEF TooLarge, Reads
  <2> QED
    BY <1>1, <1>4, <2>1, RefuseStep DEF ReadFile
<1>5. CASE Reads(disk, p) /\ ~TooLarge(b)
  <2>1. b \in Data /\ Size[b] \in Nat
    BY <1>1, <1>5, SizeAssumption DEF Reads, Stands, Stats, Missing, IsDisk, Entry
  <2>2. /\ detect(p, b) \in {"binary", "text", "image"}
        /\ detect(p, b) = "text" => b \in Utf8
        /\ detect(p, b) = "binary" /\ b \in Utf8 \ Nul =>
             Extension[p] = "other" /\ Sniffed[b] # "text"
    BY <1>2, <2>1, DetectAssumption DEF detect
  <2>3. CASE detect(p, b) = "binary"
    <3>1. Promise!RefusalAllowed(call[c].held, p, during[c], "not shown")
      BY <1>1, <1>5, <2>2, <2>3, Causes
    <3> QED
      BY <1>1, <1>5, <2>3, <3>1, RefuseStep DEF ReadFile
  <2>4. CASE detect(p, b) # "binary"
    <3> DEFINE a == [kind |-> "file", front |-> call[c].held.front, path |-> p,
                     shown |-> detect(p, b), data |-> b]
    <3>1. Return(c, a)
      BY <1>5, <2>4 DEF ReadFile
    <3>2. /\ a.kind = "file" /\ a.front = call[c].held.front /\ a.path = p
          /\ a.shown = detect(p, b) /\ a.data = b /\ a # NoAnswer
      BY DEF NoAnswer
    <3> HIDE DEF a
    <3>3. Size[b] <= MaxBytes
      BY <1>5, <2>1, SizeAssumption DEF TooLarge
    <3>4. Promise!FileAllowed(call[c].held, p, during[c], a)
      BY <1>1, <1>5, <2>2, <2>4, <3>2, <3>3, SameWords DEF Promise!FileAllowed
    <3>5. Promise!Allowed(call[c].held, p, during[c], a)
      BY <1>1, <3>2, <3>4 DEF Promise!Allowed
    <3>6. call[c].claim = {<<"resource", p>>}
      BY <1>1 DEF Claiming
    <3> QED
      BY <1>1, <3>1, <3>2, <3>5, <3>6, ReturnStep
  <2> QED
    BY <2>3, <2>4
<1> QED
  BY <1>3, <1>4, <1>5
----------------------------------------------------------------------------
(* The editor and the product.                                             *)

(* What was seen stays seen.                                               *)
LEMMA SeenStays ==
  ASSUME NEW k, NEW saw, NEW now, NEW next, IsDisk(next), CallInv(k, saw, now),
         k.pc \notin {"idle", "done"}
  PROVE  CallInv(k, saw \cup {next}, next)
<1>1. Naming(k, saw \cup {next}) /\ Bodied(k, saw \cup {next}) /\ Sought(k, saw \cup {next})
  BY DEF CallInv, Naming, Bodied, Sought
<1>2. Walked(k, saw \cup {next}) /\ Sized(k, saw \cup {next})
  BY DEF CallInv, Walked, Sized
<1>3. Kept(k, saw \cup {next}) /\ Lived(k, saw \cup {next}, next)
  BY DEF CallInv, Kept, Lived
<1> QED
  BY <1>1, <1>2, <1>3 DEF CallInv

LEMMA EditedIsDisk ==
  ASSUME IInv, disk' \in Edited
  PROVE  IsDisk(disk')
<1>1. IsDisk(disk) /\ Docs \subseteq Doc /\ Entries \subseteq Entry
  BY EditsAssumption DEF IInv
<1>2. CASE disk' = [disk EXCEPT !.listed = ~@]
  BY <1>1, <1>2 DEF IsDisk
<1>3. ASSUME NEW docs, disk' = [disk EXCEPT !.docs = docs], DOMAIN docs \subseteq skillFiles,
             disk.folds => DOMAIN docs # skillFiles, \A f \in DOMAIN docs : docs[f] \in Doc
      PROVE  IsDisk(disk')
  BY <1>1, <1>3 DEF IsDisk
<1>4. ASSUME NEW files, disk' = [disk EXCEPT !.files = files], DOMAIN files \subseteq Res,
             disk.folds => DOMAIN files \cap SkillPaths = {},
             \A r \in DOMAIN files : files[r] \in Entry
      PROVE  IsDisk(disk')
  BY <1>1, <1>4 DEF IsDisk
<1>5. ASSUME NEW f \in skillFiles, NEW d \in Docs,
             disk' = [disk EXCEPT !.docs = Put(@, Entrance(f), d)]
      PROVE  IsDisk(disk')
  <2> DEFINE g == Entrance(f)
             docs == Put(disk.docs, g, d)
  <2>1. g \in skillFiles /\ (disk.folds => DOMAIN disk.docs \subseteq {g})
    <3>1. CASE Reached(disk, f) = {}
      BY <1>1, <3>1 DEF Entrance, Reached, IsDisk
    <3>2. CASE Reached(disk, f) # {}
      <4>1. g \in Reached(disk, f)
        BY <3>2 DEF Entrance
      <4> HIDE DEF g
      <4> QED
        BY <1>1, <4>1 DEF Reached, IsDisk, skillFiles
    <3> QED
      BY <3>1, <3>2
  <2> HIDE DEF g
  <2>2. /\ DOMAIN docs = DOMAIN disk.docs \cup {g}
        /\ \A h \in DOMAIN docs : docs[h] \in Doc
    BY <1>1, <2>1 DEF IsDisk, Put
  <2> HIDE DEF docs
  <2>3. disk.folds => DOMAIN docs # skillFiles
    BY <2>1, <2>2 DEF skillFiles, Upper, Lower
  <2>4. DOMAIN docs \subseteq skillFiles
    BY <1>1, <2>1, <2>2 DEF IsDisk
  <2> QED
    BY <1>3, <1>5, <2>2, <2>3, <2>4 DEF docs, g
<1>6. ASSUME NEW f \in DOMAIN disk.docs, disk' = [disk EXCEPT !.docs = Drop(@, f)]
      PROVE  IsDisk(disk')
  <2>1. /\ DOMAIN Drop(disk.docs, f) \subseteq skillFiles \ {f} /\ f \in skillFiles
        /\ \A g \in DOMAIN Drop(disk.docs, f) : Drop(disk.docs, f)[g] \in Doc
    BY <1>1 DEF IsDisk, Drop
  <2> QED
    BY <1>3, <1>6, <2>1
<1>7. ASSUME NEW f \in DOMAIN disk.docs,
             disk' = [disk EXCEPT !.docs = [g \in skillFiles \ {f} |-> @[f]]]
      PROVE  IsDisk(disk')
  <2> DEFINE docs == [g \in skillFiles \ {f} |-> disk.docs[f]]
  <2>1. /\ DOMAIN docs = skillFiles \ {f} /\ f \in skillFiles
        /\ \A g \in DOMAIN docs : docs[g] \in Doc
    BY <1>1 DEF IsDisk
  <2> QED
    BY <1>3, <1>7, <2>1
<1>8. ASSUME NEW r \in Writable, NEW e \in Entries, disk' = [disk EXCEPT !.files = Put(@, r, e)]
      PROVE  IsDisk(disk')
  <2>1. /\ DOMAIN Put(disk.files, r, e) \subseteq Res
        /\ disk.folds => DOMAIN Put(disk.files, r, e) \cap SkillPaths = {}
        /\ \A g \in DOMAIN Put(disk.files, r, e) : Put(disk.files, r, e)[g] \in Entry
    BY <1>1 DEF IsDisk, Put, Writable
  <2> QED
    BY <1>4, <1>8, <2>1
<1>9. ASSUME NEW r \in DOMAIN disk.files, disk' = [disk EXCEPT !.files = Drop(@, r)]
      PROVE  IsDisk(disk')
  <2>1. /\ DOMAIN Drop(disk.files, r) \subseteq Res
        /\ disk.folds => DOMAIN Drop(disk.files, r) \cap SkillPaths = {}
        /\ \A g \in DOMAIN Drop(disk.files, r) : Drop(disk.files, r)[g] \in Entry
    BY <1>1 DEF IsDisk, Drop
  <2> QED
    BY <1>4, <1>9, <2>1
<1> DEFINE Listed  == {[disk EXCEPT !.listed = ~@]}
           Written == {[disk EXCEPT !.docs = Put(@, Entrance(f), d)] : f \in skillFiles, d \in Docs}
           Removed == {[disk EXCEPT !.docs = Drop(@, f)] : f \in DOMAIN disk.docs}
           Renamed == {[disk EXCEPT !.docs = [g \in skillFiles \ {f} |-> @[f]]] :
                         f \in DOMAIN disk.docs}
           Made    == {[disk EXCEPT !.files = Put(@, r, e)] : r \in Writable, e \in Entries}
           Gone    == {[disk EXCEPT !.files = Drop(@, r)] : r \in DOMAIN disk.files}
<1>10. CASE disk' \in Listed
  BY <1>2, <1>10
<1>11. CASE disk' \in Written
  BY <1>5, <1>11
<1>12. CASE disk' \in Removed
  BY <1>6, <1>12
<1>13. CASE disk' \in Renamed
  BY <1>7, <1>13
<1>14. CASE disk' \in Made
  BY <1>8, <1>14
<1>15. CASE disk' \in Gone
  BY <1>9, <1>15
<1>16. Edited = Listed \cup Written \cup Removed \cup Renamed \cup Made \cup Gone
  BY DEF Edited
<1> HIDE DEF Listed, Written, Removed, Renamed, Made, Gone
<1> QED
  BY <1>10, <1>11, <1>12, <1>13, <1>14, <1>15, <1>16

LEMMA EditStep ==
  ASSUME IInv, Edit
  PROVE  IInv'
<1>1. IsDisk(disk') /\ edits' \in 0..MaxEdits
  BY EditedIsDisk, EditsAssumption DEF Edit, IInv
<1>2. /\ UNCHANGED <<skill, call>>
      /\ during' = [c \in Calls |-> during'[c]]
      /\ \A c \in Calls :
           during'[c] = IF Running(c) THEN during[c] \cup {disk'} ELSE during[c]
  BY DEF Edit
<1>3. ASSUME NEW c \in Calls PROVE CallInv(call[c], during'[c], disk')
  <2>1. CallInv(call[c], during[c], disk)
    BY DEF IInv
  <2>2. CASE Running(c)
    BY <1>1, <1>2, <2>1, <2>2, SeenStays DEF Running
  <2>3. CASE ~Running(c)
    BY <1>2, <2>1, <2>3 DEF Running, CallInv, Lived
  <2> QED
    BY <2>2, <2>3
<1> QED
  BY <1>1, <1>2, <1>3 DEF IInv

LEMMA LoadedSkill ==
  ASSUME NEW d, IsDisk(d), Loads(d)
  PROVE  Load(d) \in Skill
<1> DEFINE f == Spelled(d)
<1>1. f \in skillFiles \cup {NoFile} /\ DocRead(d, f) = "ok"
  BY DEF Loads, Spelled, listedSkillFile, skillFiles
<1> HIDE DEF f
<1>2. DocOf(d, f) \in Doc
  BY <1>1, DocRange
<1> QED
  BY <1>1, <1>2 DEF Load, Skill, Doc, f

LEMMA DiscoverStep ==
  ASSUME IInv, Discover
  PROVE  IInv'
<1>1. skill' \in Skill
  <2>1. IsDisk(disk) /\ [skill EXCEPT !.listed = FALSE] \in Skill
    BY DEF IInv, Skill
  <2> QED
    BY <2>1, LoadedSkill DEF Discover
<1> QED
  BY <1>1 DEF Discover, IInv

LEMMA InitStep ==
  ASSUME Init
  PROVE  IInv
<1>1. IsDisk(disk) /\ edits \in 0..MaxEdits
  BY DisksAssumption, EditsAssumption DEF Init
<1>2. skill \in Skill
  BY <1>1, SkillsAssumption, LoadedSkill DEF Init
<1> DEFINE k == Idle(skill)
<1>3. /\ k.pc = "idle" /\ k.answer = NoAnswer /\ ~k.changed /\ DOMAIN k.todo = {}
      /\ k.files = {} /\ k.unsized = {} /\ DOMAIN k.sizes = {} /\ IsCall(k)
  BY <1>2, PathsAssumption DEF Idle, IsCall, Steps, Skill
<1> HIDE DEF k
<1>4. Locals(k) /\ Directed(k) /\ Claiming(k) /\ Naming(k, {})
  BY <1>3 DEF Locals, Directed, Claiming, Naming
<1>5. Bodied(k, {}) /\ Sought(k, {}) /\ Walked(k, {}) /\ Sized(k, {})
  BY <1>3 DEF Bodied, Sought, Walked, Sized
<1>6. Kept(k, {}) /\ Lived(k, {}, disk)
  BY <1>3 DEF Kept, Lived, NoAnswer
<1>7. CallInv(k, {}, disk)
  BY <1>3, <1>4, <1>5, <1>6 DEF CallInv
<1> QED
  BY <1>1, <1>2, <1>7 DEF Init, IInv, k

LEMMA NextStep ==
  ASSUME IInv, [Next]_vars
  PROVE  IInv'
<1>1. CASE UNCHANGED vars
  BY <1>1 DEF vars, IInv
<1>2. ASSUME NEW c \in Calls, Call(c) \/ Step(c) PROVE IInv'
  BY <1>2, CallStep, ClaimStep, TargetStep, ListStep, ReadSkillStep, ProbeUpperStep,
     ProbeLowerStep, WalkRootStep, VisitStep, WalkEndStep, SizeOfStep, ReplyStep,
     StatFileStep, ReadFileStep DEF Step
<1> QED
  BY <1>1, <1>2, EditStep, DiscoverStep DEF Next

(* However the directory is edited while calls run, the invariant holds.   *)
THEOREM Invariant == Spec => []IInv
<1>1. Init => IInv
  BY InitStep
<1>2. IInv /\ [Next]_vars => IInv'
  BY NextStep
<1> QED
  BY <1>1, <1>2, PTL DEF Spec

(* A name is read only when the listing gave one, sizes are of listed      *)
(* files, and a call is done exactly when it is answered (load.go:78-82,   *)
(* tool.go:333-338).                                                       *)
THEOREM TypeCorrect == Spec => []TypeOK
<1>1. IInv => TypeOK
  BY DEF IInv, CallInv, IsCall, Locals, Kept, TypeOK
<1> QED
  BY <1>1, Invariant, PTL

(* The file a call serves is the one a policy was told of, for any number  *)
(* of calls and edits (tool.go:39-66, 211-249, 358-360).                   *)
THEOREM ServedIsClaimedAlways == Spec => []ServedIsClaimed
<1>1. IInv => ServedIsClaimed
  BY DEF IInv, CallInv, Kept, ServedIsClaimed
<1> QED
  BY <1>1, Invariant, PTL

----------------------------------------------------------------------------
(* The refinement.                                                         *)
LEMMA PromiseInit ==
  ASSUME Init
  PROVE  Promise!Init
<1>1. \A c \in Calls : /\ call[c].path = 0 /\ call[c].held = skill
                       /\ call[c].answer = NoAnswer
  BY DEF Init, Idle
<1> QED
  BY <1>1, SameWords DEF Init, Promise!Init

(* A step of a call is of that call, and leaves its arguments alone.       *)
Own(c) ==
  /\ call'[c].path = call[c].path /\ call'[c].held = call[c].held
  /\ \A d \in Calls : d # c => call'[d] = call[d]

LEMMA OwnBecomes ==
  ASSUME IInv, NEW c \in Calls, NEW k, Becomes(c, k),
         k.path = call[c].path, k.held = call[c].held
  PROVE  Own(c)
BY DEF Becomes, IInv, Own

LEMMA OwnGoto ==
  ASSUME IInv, NEW c \in Calls, NEW step, Goto(c, step)
  PROVE  Own(c)
<1> DEFINE k == [call[c] EXCEPT !.pc = step]
<1>1. k.path = call[c].path /\ k.held = call[c].held
  BY DEF IInv, CallInv, IsCall
<1>2. Becomes(c, k)
  BY DEF Goto
<1> HIDE DEF k
<1> QED
  BY <1>1, <1>2, OwnBecomes

LEMMA OwnReturn ==
  ASSUME IInv, NEW c \in Calls, NEW a, Return(c, a)
  PROVE  Own(c)
<1> DEFINE k == [call[c] EXCEPT !.pc = "done", !.answer = a]
<1>1. k.path = call[c].path /\ k.held = call[c].held
  BY DEF IInv, CallInv, IsCall
<1>2. Becomes(c, k)
  BY DEF Return
<1> HIDE DEF k
<1> QED
  BY <1>1, <1>2, OwnBecomes

LEMMA OwnRefuse ==
  ASSUME IInv, NEW c \in Calls, NEW why, Refuse(c, why)
  PROVE  Own(c)
BY OwnReturn DEF Refuse

LEMMA OwnBody ==
  ASSUME IInv, NEW c \in Calls, NEW name, CurrentBody(c, name)
  PROVE  Own(c)
<1> DEFINE k == [call[c] EXCEPT !.pc = "walk", !.file = name,
                   !.body = DocOf(disk, name).body,
                   !.changed = DocOf(disk, name).front # call[c].held.front]
<1>1. k.path = call[c].path /\ k.held = call[c].held
  BY DEF IInv, CallInv, IsCall
<1>2. Refuse(c, "skill changed") \/ Becomes(c, k)
  BY DEF CurrentBody, Serve
<1> HIDE DEF k
<1> QED
  BY <1>1, <1>2, OwnBecomes, OwnRefuse

LEMMA OwnClaim ==
  ASSUME IInv, NEW c \in Calls, Claim(c)
  PROVE  Own(c)
<1> DEFINE k == [call[c] EXCEPT !.pc = "target", !.claim = Claimed(c)]
<1>1. k.path = call[c].path /\ k.held = call[c].held
  BY DEF IInv, CallInv, IsCall
<1>2. Becomes(c, k)
  BY DEF Claim
<1> HIDE DEF k
<1> QED
  BY <1>1, <1>2, OwnBecomes

LEMMA OwnTarget ==
  ASSUME IInv, NEW c \in Calls, Target(c)
  PROVE  Own(c)
<1> DEFINE k == [call[c] EXCEPT !.pc = "walk", !.body = call[c].held.body]
<1>1. k.path = call[c].path /\ k.held = call[c].held
  BY DEF IInv, CallInv, IsCall
<1>2. \/ Refuse(c, TargetRefusal(c)) \/ Becomes(c, k)
      \/ Goto(c, "stat") \/ Goto(c, "list")
  BY DEF Target
<1> HIDE DEF k
<1> QED
  BY <1>1, <1>2, OwnBecomes, OwnGoto, OwnRefuse

LEMMA OwnList ==
  ASSUME IInv, NEW c \in Calls, List(c)
  PROVE  Own(c)
<1> DEFINE k == [call[c] EXCEPT !.pc = "read", !.file = Listing]
<1>1. k.path = call[c].path /\ k.held = call[c].held
  BY DEF IInv, CallInv, IsCall
<1>2. Goto(c, "probe") \/ Refuse(c, "skill changed") \/ Becomes(c, k)
  BY DEF List
<1> HIDE DEF k
<1> QED
  BY <1>1, <1>2, OwnBecomes, OwnGoto, OwnRefuse

LEMMA OwnWalkRoot ==
  ASSUME IInv, NEW c \in Calls, WalkRoot(c)
  PROVE  Own(c)
<1> DEFINE k == [call[c] EXCEPT !.pc = "visit",
                   !.todo = [r \in DOMAIN disk.files |-> disk.files[r].kind]]
<1>1. k.path = call[c].path /\ k.held = call[c].held
  BY DEF IInv, CallInv, IsCall
<1>2. Goto(c, "visit") \/ Refuse(c, "list files") \/ Becomes(c, k)
  BY DEF WalkRoot
<1> HIDE DEF k
<1> QED
  BY <1>1, <1>2, OwnBecomes, OwnGoto, OwnRefuse

LEMMA OwnWalkEnd ==
  ASSUME IInv, NEW c \in Calls, WalkEnd(c)
  PROVE  Own(c)
<1> DEFINE k == [call[c] EXCEPT !.pc = "size", !.unsized = call[c].files]
<1>1. k.path = call[c].path /\ k.held = call[c].held
  BY DEF IInv, CallInv, IsCall
<1>2. Becomes(c, k) \/ Refuse(c, "no such file")
  BY DEF WalkEnd
<1> HIDE DEF k
<1> QED
  BY <1>1, <1>2, OwnBecomes, OwnRefuse

LEMMA OwnVisit ==
  ASSUME IInv, NEW c \in Calls, Visit(c)
  PROVE  Own(c)
<1>1. PICK r : VisitFile(c, r) \/ VisitDir(c, r)
  BY DEF Visit
<1>2. CASE VisitFile(c, r)
  <2>1. PICK todo, files : Becomes(c, [call[c] EXCEPT !.todo = todo, !.files = files])
    BY <1>2 DEF VisitFile
  <2> DEFINE k == [call[c] EXCEPT !.todo = todo, !.files = files]
  <2>2. k.path = call[c].path /\ k.held = call[c].held
    BY DEF IInv, CallInv, IsCall
  <2> HIDE DEF k
  <2> QED
    BY <2>1, <2>2, OwnBecomes DEF k
<1>3. CASE VisitDir(c, r)
  <2> DEFINE k == [call[c] EXCEPT !.todo = Drop(@, r)]
  <2>1. k.path = call[c].path /\ k.held = call[c].held
    BY DEF IInv, CallInv, IsCall
  <2>2. Becomes(c, k) \/ Refuse(c, "list files")
    BY <1>3 DEF VisitDir
  <2> HIDE DEF k
  <2> QED
    BY <2>1, <2>2, OwnBecomes, OwnRefuse
<1> QED
  BY <1>1, <1>2, <1>3

LEMMA OwnSizeOf ==
  ASSUME IInv, NEW c \in Calls, SizeOf(c)
  PROVE  Own(c)
<1>1. PICK unsized, sizes :
        Becomes(c, [call[c] EXCEPT !.unsized = unsized, !.sizes = sizes])
  BY DEF SizeOf
<1> DEFINE k == [call[c] EXCEPT !.unsized = unsized, !.sizes = sizes]
<1>2. k.path = call[c].path /\ k.held = call[c].held
  BY DEF IInv, CallInv, IsCall
<1> HIDE DEF k
<1> QED
  BY <1>1, <1>2, OwnBecomes DEF k

LEMMA StepFrame ==
  ASSUME IInv, NEW c \in Calls, Step(c)
  PROVE  Own(c) /\ call[c].pc \notin {"idle", "done"} /\ UNCHANGED <<disk, skill, during>>
<1>1. call[c].pc \notin {"idle", "done"} /\ UNCHANGED <<disk, skill, during>>
  BY DEF Step, At, Claim, Target, List, ReadSkill, ProbeUpper, ProbeLower, WalkRoot,
         Visit, WalkEnd, SizeOf, Reply, StatFile, ReadFile
<1>2. ASSUME ReadSkill(c) \/ ProbeUpper(c) \/ ProbeLower(c)
      PROVE  Own(c)
  <2>1. \/ CurrentBody(c, call[c].file) \/ CurrentBody(c, Upper) \/ CurrentBody(c, Lower)
        \/ Refuse(c, "read skill file") \/ Goto(c, "probe again") \/ Refuse(c, "skill changed")
    BY <1>2 DEF ReadSkill, ProbeUpper, ProbeLower
  <2> QED
    BY <2>1, OwnGoto, OwnRefuse, OwnBody
<1>3. ASSUME Reply(c) \/ StatFile(c) \/ ReadFile(c)
      PROVE  Own(c)
  <2>1. CASE Reply(c)
    <3> DEFINE a == [kind |-> "instructions", front |-> call[c].held.front,
                     changed |-> call[c].changed, body |-> call[c].body,
                     files |-> call[c].files, sizes |-> call[c].sizes]
    <3>1. Return(c, a)
      BY <2>1 DEF Reply
    <3> HIDE DEF a
    <3> QED
      BY <3>1, OwnReturn
  <2>2. CASE StatFile(c)
    <3>1. \/ Return(c, Panic) \/ Refuse(c, "stat") \/ Refuse(c, "too large")
          \/ Goto(c, "walk") \/ Goto(c, "read file")
      BY <2>2 DEF StatFile
    <3> QED
      BY <3>1, OwnReturn, OwnRefuse, OwnGoto
  <2>3. CASE ReadFile(c)
    <3> DEFINE p == call[c].path
               b == disk.files[p].data
               a == [kind |-> "file", front |-> call[c].held.front, path |-> p,
                     shown |-> detect(p, b), data |-> b]
    <3>1. \/ Return(c, a) \/ Refuse(c, "read") \/ Refuse(c, "too large")
          \/ Refuse(c, "not shown")
      BY <2>3 DEF ReadFile
    <3> HIDE DEF a
    <3> QED
      BY <3>1, OwnReturn, OwnRefuse
  <2> QED
    BY <1>3, <2>1, <2>2, <2>3
<1> QED
  BY <1>1, <1>2, <1>3, OwnClaim, OwnTarget, OwnList, OwnWalkRoot, OwnWalkEnd, OwnVisit,
     OwnSizeOf DEF Step

(* A step of a call answers it, as promised, or is none of the promise.    *)
LEMMA PromiseStep ==
  ASSUME IInv, IInv', NEW c \in Calls, Step(c)
  PROVE  Promise!Answer(c) \/ UNCHANGED Promise!vars
<1>1. /\ call[c].pc \notin {"idle", "done"}
      /\ call'[c].path = call[c].path /\ call'[c].held = call[c].held
      /\ \A d \in Calls : d # c => call'[d] = call[d]
      /\ UNCHANGED <<disk, skill, during>>
  BY StepFrame DEF Own
<1>2. CallInv(call[c], during[c], disk) /\ CallInv(call'[c], during[c], disk)
  BY <1>1 DEF IInv
<1>3. call[c].answer = NoAnswer /\ during[c] # {}
  BY <1>1, <1>2 DEF CallInv, Kept, Lived
<1>4. UNCHANGED <<[d \in Calls |-> call[d].path], [d \in Calls |-> call[d].held]>>
  <2>1. \A d \in Calls : call'[d].path = call[d].path /\ call'[d].held = call[d].held
    BY <1>1
  <2> QED
    BY <2>1
<1>5. CASE call'[c].answer = NoAnswer
  <2>1. \A d \in Calls : call'[d].answer = call[d].answer
    BY <1>1, <1>3, <1>5
  <2> QED
    BY <1>1, <1>4, <2>1 DEF Promise!vars
<1>6. CASE call'[c].answer # NoAnswer
  <2>1. Promise!Allowed(call[c].held, call[c].path, during[c], call'[c].answer)
    BY <1>1, <1>2, <1>6 DEF CallInv, Kept
  <2>2. [d \in Calls |-> call'[d].answer] =
          [[d \in Calls |-> call[d].answer] EXCEPT ![c] = call'[c].answer]
    BY <1>1
  <2> QED
    BY <1>1, <1>3, <1>4, <1>6, <2>1, <2>2, SameWords DEF Promise!Answer, Promise!Busy
<1> QED
  BY <1>5, <1>6

LEMMA PromiseNext ==
  ASSUME IInv, IInv', [Next]_vars
  PROVE  [Promise!Next]_(Promise!vars)
<1>1. CASE UNCHANGED vars
  BY <1>1 DEF vars, Promise!vars
<1>2. ASSUME NEW c \in Calls, Step(c) PROVE [Promise!Next]_(Promise!vars)
  BY <1>2, PromiseStep DEF Promise!Next
<1>3. ASSUME NEW c \in Calls, Call(c) PROVE Promise!Begin(c)
  <2>1. PICK p \in Paths :
          Becomes(c, [call[c] EXCEPT !.pc = "claim", !.path = p, !.held = skill])
    BY <1>3 DEF Call
  <2>2. IsCall(call[c]) /\ call[c].pc = "idle" /\ during[c] = {}
    BY <1>3 DEF Call, IInv, CallInv, Lived
  <2>3. /\ call'[c].path = p /\ call'[c].held = skill /\ call'[c].answer = call[c].answer
        /\ \A d \in Calls : d # c => call'[d] = call[d]
    BY <2>1, <2>2 DEF Becomes, IInv, IsCall
  <2>4. /\ [d \in Calls |-> call'[d].path] = [[d \in Calls |-> call[d].path] EXCEPT ![c] = p]
        /\ [d \in Calls |-> call'[d].held] = [[d \in Calls |-> call[d].held] EXCEPT ![c] = skill]
        /\ [d \in Calls |-> call'[d].answer] = [d \in Calls |-> call[d].answer]
    BY <2>3
  <2> QED
    BY <1>3, <2>2, <2>4 DEF Call, Promise!Begin
<1>4. ASSUME Edit PROVE Promise!Change
  <2>1. \A c \in Calls : Running(c) <=> during[c] # {} /\ call[c].answer = NoAnswer
    BY DEF IInv, CallInv, Lived, Kept, Running
  <2> QED
    BY <1>4, <2>1, SameWords DEF Edit, Promise!Change, Promise!Busy
<1>5. ASSUME Discover PROVE Promise!Rediscover
  <2>1. Loads(disk) = Promise!Loads(disk) /\ Load(disk) = Promise!Load(disk)
    BY SameWords DEF Loads, Promise!Loads, Load, Promise!Load
  <2> QED
    BY <1>5, <2>1 DEF Discover, Promise!Rediscover
<1> QED
  BY <1>1, <1>2, <1>3, <1>4, <1>5 DEF Next, Promise!Next

(* The tool keeps its promise, for any calls and edits: an answer is made  *)
(* of what stood in the directory during the call, and a refusal has its   *)
(* cause there (tool.go:124-148, 280-291).                                 *)
THEOREM PromiseKept == Spec => PromiseSpec
<1>1. Init => Promise!Init
  BY PromiseInit
<1>2. IInv /\ IInv' /\ [Next]_vars => [Promise!Next]_(Promise!vars)
  BY PromiseNext
<1> QED
  BY <1>1, <1>2, Invariant, PTL DEF Spec, PromiseSpec, Promise!Spec
=============================================================================

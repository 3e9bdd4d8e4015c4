---------------------------- MODULE ToolPromise ----------------------------
(***************************************************************************)
(* What a call of the skill tool promises, said of the directory alone: an *)
(* answer is made of what stood in the skill's directory at some moment of *)
(* the call, and a refusal has a cause that stood there.  The directory is *)
(* edited meanwhile, so the parts of an answer may be of different moments *)
(* but none is of before the call or of never.                             *)
(***************************************************************************)
EXTENDS SkillDisk

CONSTANT Calls      \* the calls of the tool

VARIABLES
  disk,     \* the skill's directory
  skill,    \* the skill as the product's catalog holds it
  path,     \* the path argument of a call
  held,     \* the skill of the catalog the call was made on
  during,   \* the directory at each moment of a call
  answer    \* what the call returned

vars == <<disk, skill, path, held, during, answer>>

InstructionsAllowed(s, p, saw, a) ==
  /\ IsInstructions(p)
  /\ a.front = s.front
  /\ IF s.file = NoFile \/ ~s.FS
       THEN a.body = s.body /\ ~a.changed
       ELSE \E d \in saw :
              /\ DocRead(d, s.file) = "ok"
              /\ Splits(DocOf(d, s.file))
              /\ a.body = DocOf(d, s.file).body
              /\ a.changed = (DocOf(d, s.file).front # s.front)
  /\ \A r \in a.files : \E d \in saw : Stands(d, r)
  /\ s.FS => \A r \in Res :
               (\A d \in saw : Stands(d, r)) => r \in a.files
  /\ DOMAIN a.sizes \subseteq a.files
  /\ \A r \in DOMAIN a.sizes : \E d \in saw : Stats(d, r) /\ a.sizes[r] = StatSize(d, r)
  /\ \A r \in a.files \ DOMAIN a.sizes : \E d \in saw : ~Stats(d, r)

(* Text is valid UTF-8 whatever the extension (tool.go:450-451).           *)
FileAllowed(s, p, saw, a) ==
  /\ a.path = p
  /\ a.front = s.front
  /\ Size[a.data] <= MaxBytes
  /\ a.shown \in {"text", "image"}
  /\ a.shown = "text" => a.data \in Utf8
  /\ \E d \in saw : Reads(d, p) /\ d.files[p].data = a.data

(* The skill file of s is not there any more, or is under another name, or *)
(* has no closing fence.  Without a listing the uppercase name comes first.*)
ChangedAllowed(s, saw) ==
  \/ \E d \in saw : d.listed /\ listedSkillFile(DOMAIN d.docs) # s.file
  \/ /\ \E d \in saw : ~d.listed
     /\ \E d \in saw : \/ DocRead(d, s.file) = "missing"
                       \/ s.file = Lower /\ DocRead(d, Upper) = "ok"
  \/ \E d \in saw : DocRead(d, s.file) = "ok" /\ ~Splits(DocOf(d, s.file))

(* A name that was listed does not read, or one that was not fails.        *)
UnreadAllowed(saw) ==
  \E f \in skillFiles, d \in saw, e \in saw :
    \/ d.listed /\ listedSkillFile(DOMAIN d.docs) = f /\ DocRead(e, f) # "ok"
    \/ ~d.listed /\ DocRead(e, f) = "error"

RefusalAllowed(s, p, saw, why) ==
  \/ why = "unknown skill" /\ ~s.listed
  \/ why = "invalid path" /\ p \in InvalidPaths
  \/ /\ why = "skill changed"
     /\ IsInstructions(p)
     /\ ChangedAllowed(s, saw)
  \/ /\ why = "read skill file"
     /\ IsInstructions(p)
     /\ UnreadAllowed(saw)
  \/ /\ why = "list files"
     /\ \/ IsInstructions(p)
        \/ \E d \in saw : ~Stands(d, p)
     /\ \/ \E d \in saw : ~d.listed
        \/ \E d, e \in saw : \E r \in DOMAIN d.files : IsDir(d, r) /\ ~Lists(e, r)
  \/ /\ why = "no such file"
     /\ \E d \in saw : Missing(d, p) \/ IsDir(d, p)
  \/ /\ why = "stat"
     /\ \E d \in saw : ~Missing(d, p) /\ ~Stats(d, p)
  \/ /\ why = "read"
     /\ \E d, e \in saw : Stands(d, p) /\ ~Reads(e, p)
  \/ /\ why = "too large"
     /\ \E d \in saw : Stands(d, p) /\ Size[d.files[p].data] > MaxBytes
  \/ /\ why = "not shown"
     /\ \E d \in saw :
          /\ Reads(d, p)
          /\ d.files[p].data \in Utf8 \ Nul =>
               Extension[p] = "other" /\ Sniffed[d.files[p].data] # "text"

Allowed(s, p, saw, a) ==
  \/ a.kind = "instructions" /\ s.listed /\ InstructionsAllowed(s, p, saw, a)
  \/ a.kind = "file" /\ s.listed /\ FileAllowed(s, p, saw, a)
  \/ a.kind = "error" /\ RefusalAllowed(s, p, saw, a.why)
  \/ a.kind = "panic" /\ ~s.FS /\ ~IsInstructions(p)

----------------------------------------------------------------------------
Busy(c) == during[c] # {} /\ answer[c] = NoAnswer

Begin(c) ==
  /\ during[c] = {}
  /\ path' \in {[path EXCEPT ![c] = p] : p \in Paths}
  /\ held' = [held EXCEPT ![c] = skill]
  /\ during' = [during EXCEPT ![c] = {disk}]
  /\ UNCHANGED <<disk, skill, answer>>

Answer(c) ==
  /\ Busy(c)
  /\ answer'[c] # NoAnswer
  /\ answer' = [answer EXCEPT ![c] = answer'[c]]
  /\ Allowed(held[c], path[c], during[c], answer'[c])
  /\ UNCHANGED <<disk, skill, path, held, during>>

Change ==
  /\ during' = [c \in Calls |-> IF Busy(c) THEN during[c] \cup {disk'} ELSE during[c]]
  /\ UNCHANGED <<skill, path, held, answer>>

Rediscover ==
  /\ skill' = IF Loads(disk) THEN Load(disk) ELSE [skill EXCEPT !.listed = FALSE]
  /\ UNCHANGED <<disk, path, held, during, answer>>

Init ==
  /\ path = [c \in Calls |-> 0]
  /\ held = [c \in Calls |-> skill]
  /\ during = [c \in Calls |-> {}]
  /\ answer = [c \in Calls |-> NoAnswer]

Next == (\E c \in Calls : Begin(c) \/ Answer(c)) \/ Change \/ Rediscover

Spec == Init /\ [][Next]_vars
=============================================================================

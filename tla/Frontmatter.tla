---------------------------- MODULE Frontmatter ----------------------------
(***************************************************************************)
(* A SKILL.md file read (parse.go), validated (validate.go), given to the  *)
(* commands (cmd/agentskill/main.go), written back by Encode and read      *)
(* again.  A step is one line of the file, one key of its frontmatter or   *)
(* one call.                                                               *)
(*                                                                         *)
(* Abstractions.  A file is its lines: a fence, one entry of a mapping or  *)
(* plain text.  Text is a sequence of characters: "a" is any lowercase     *)
(* letter or digit, "A" any uppercase one, "space" any white space.  A     *)
(* YAML value is a scalar, a list or a mapping of scalars and lists; what  *)
(* a list holds is left out, and the keys of a mapping are strings.  A     *)
(* scalar has the form YAML resolves it by: a word, digits, a number with  *)
(* a fraction, or one whose fraction is zeroes (1.0), below a million; the *)
(* text of a number stands for its value.  Problems are a set: their order *)
(* and wording are left out, but for what load looks at.                   *)
(***************************************************************************)
EXTENDS Naturals, Sequences, SequencesExt

CONSTANTS
  Files,          \* the files a run starts from
  DirNames,       \* the names of the directory they are in, <<>> for none
  BadRules,       \* the texts Rules refuses (see RuleScan)
  MaxNameLength, MaxDescriptionLength, MaxCompatibilityLength, MaxBodyLines

knownKeys == {"name", "description", "license", "compatibility", "allowed-tools", "metadata"}
scalarKeys == knownKeys \ {"metadata"}
trimmedKeys == {"name", "description"}
NoField == "no-field"       \* of a problem that is of no field
NoScalar == "no-scalar"     \* a key that is not a scalar
Chars == {"a", "A", "-", ":", "space"}
Text == Seq(Chars)

(* The values of a file: the text of a scalar, the pairs of a mapping.     *)
IsSequence(q) == q \in Seq(Range(q))
IsValue(v) ==
  /\ v.kind \in {"scalar", "list", "map"}
  /\ v.kind = "scalar" => v.text \in Text
  /\ v.kind = "map" => IsSequence(v.pairs)
IsFile(f) ==
  /\ IsSequence(f)
  /\ \A j \in DOMAIN f : f[j].kind = "entry" => IsValue(f[j].value)

ASSUME FilesAssumption == \A f \in Files : IsFile(f) /\ f # <<>>
ASSUME LimitsAssumption ==
  /\ MaxNameLength \in Nat \ {0} /\ MaxDescriptionLength \in Nat \ {0}
  /\ MaxCompatibilityLength \in Nat /\ MaxBodyLines \in Nat

ScalarOf(t, form) == [kind |-> "scalar", text |-> t, form |-> form]
Scalar(t) == ScalarOf(t, "word")
List == [kind |-> "list"]
Mapping(pairs) == [kind |-> "map", pairs |-> pairs]
Fence == [kind |-> "fence", cr |-> FALSE]
Entry(key, value) == [kind |-> "entry", key |-> key, value |-> value]

VARIABLES
  file,       \* the lines of the file
  dirName,    \* the directory's name
  round,      \* 1, or 2 for the file Encode wrote
  pc,         \* "open", "scan", "yaml", "keys", "parsed", "validated", "failed", "unwritten"
  at,         \* the line or entry looked at next
  front,      \* the lines between the fences
  s,          \* the Skill being built
  problems,   \* what Validate returned
  kept,       \* the skill and problems of round 1
  exits       \* the commands run, with their exit status and the skills they show

vars == <<file, dirName, round, pc, at, front, s, problems, kept, exits>>

EmptySkill == [field |-> [k \in scalarKeys |-> <<>>], Metadata |-> <<>>, Extra |-> <<>>,
               Body |-> <<>>, keys |-> {}, shape |-> {}]

Init ==
  /\ file \in Files
  /\ dirName \in DirNames
  /\ round = 1
  /\ pc = "open"
  /\ at = 1
  /\ front = <<>>
  /\ s = EmptySkill
  /\ problems = {}
  /\ kept = <<>>
  /\ exits = <<>>

Put(f, k, v) == [x \in DOMAIN f \cup {k} |-> IF x = k THEN v ELSE f[x]]
Fail == pc' = "failed" /\ UNCHANGED s

----------------------------------------------------------------------------
(* splitFrontmatter: the fence is line based.                              *)

isFence(line) == line.kind = "fence"

Open ==
  /\ pc = "open"
  /\ IF isFence(file[1]) THEN pc' = "scan" /\ UNCHANGED s ELSE Fail
  /\ at' = 2
  /\ UNCHANGED <<file, dirName, round, front, problems, kept, exits>>

ScanLine ==
  /\ pc = "scan"
  /\ at <= Len(file)
  /\ IF isFence(file[at])
       THEN /\ front' = SubSeq(file, 2, at - 1)
            /\ s' = [s EXCEPT !.Body = SubSeq(file, at + 1, Len(file))]
            /\ pc' = "yaml"
            /\ at' = 1
       ELSE at' = at + 1 /\ UNCHANGED <<front, s, pc>>
  /\ UNCHANGED <<file, dirName, round, problems, kept, exits>>

ScanEnd ==
  /\ pc = "scan"
  /\ at > Len(file)
  /\ Fail
  /\ UNCHANGED <<file, dirName, round, at, front, problems, kept, exits>>

(* The frontmatter is a mapping when each of its lines is an entry; plain  *)
(* text alone is a scalar, and among entries it is no YAML.                *)
Unmarshal ==
  /\ pc = "yaml"
  /\ IF \A j \in DOMAIN front : front[j].kind = "entry"
       THEN pc' = (IF front = <<>> THEN "parsed" ELSE "keys") /\ UNCHANGED s
       ELSE Fail
  /\ UNCHANGED <<file, dirName, round, at, front, problems, kept, exits>>

----------------------------------------------------------------------------
(* The loop over the keys.                                                 *)

(* A mapping of the decoded kind refuses a key written twice, and one that *)
(* is no scalar.                                                           *)
Repeats(pairs) == \E j, k \in DOMAIN pairs : j < k /\ pairs[j][1] = pairs[k][1]
Decodes(v) ==
  v.kind = "map" => ~Repeats(v.pairs) /\ \A j \in DOMAIN v.pairs : v.pairs[j][1] # NoScalar

(* The Go value any other key's value is decoded to: a number written with *)
(* a fraction is a float64, whole when the fraction is zero.               *)
DecodedPlain(v) ==
  IF v.kind # "scalar" THEN List
  ELSE [kind |-> "scalar", text |-> v.text, whole |-> v.form \in {"digits", "zeroes"},
        go |-> IF v.form = "word" THEN "string"
               ELSE IF v.form = "digits" THEN "int" ELSE "float64"]

Decoded(v) ==
  IF v.kind # "map" THEN DecodedPlain(v)
  ELSE [kind |-> "map",
        held |-> [k \in {v.pairs[j][1] : j \in DOMAIN v.pairs} |->
                    DecodedPlain(v.pairs[CHOOSE j \in DOMAIN v.pairs : v.pairs[j][1] = k][2])]]

Trim(t) ==
  LET solid == {j \in DOMAIN t : t[j] # "space"}
  IN IF solid = {} THEN <<>>
     ELSE SubSeq(t, CHOOSE j \in solid : \A x \in solid : j <= x,
                    CHOOSE j \in solid : \A x \in solid : x <= j)

(* Bug: a value of the wrong shape passed over.                            *)
scalarUnreported(sk, key, v) ==
  IF v.kind # "scalar" THEN sk
  ELSE [sk EXCEPT !.field[key] = IF key \in trimmedKeys THEN Trim(v.text) ELSE v.text]

(* The text of a scalar, or a shape problem and an empty field.            *)
scalar(sk, key, v) ==
  IF v.kind # "scalar" THEN [sk EXCEPT !.shape = @ \cup {key}]
  ELSE [sk EXCEPT !.field[key] = IF key \in trimmedKeys THEN Trim(v.text) ELSE v.text]

(* The string pairs of metadata, the last of a key standing; any other is  *)
(* a shape problem.                                                        *)
Strings(pairs) ==
  {j \in DOMAIN pairs : pairs[j][1] # NoScalar /\ pairs[j][2].kind = "scalar"}
StringPairs(pairs) ==
  LET last(k) == CHOOSE j \in Strings(pairs) :
                   /\ pairs[j][1] = k
                   /\ \A x \in Strings(pairs) : pairs[x][1] = k => x <= j
  IN [k \in {pairs[j][1] : j \in Strings(pairs)} |-> pairs[last(k)][2].text]

metadata(sk, v) ==
  IF v.kind # "map" THEN [sk EXCEPT !.shape = @ \cup {"metadata"}]
  ELSE [sk EXCEPT !.Metadata = StringPairs(v.pairs),
                  !.shape = IF Strings(v.pairs) = DOMAIN v.pairs THEN @
                            ELSE @ \cup {"metadata"}]

Assigned(sk, key, v) ==
  IF key \in scalarKeys THEN scalar(sk, key, v)
  ELSE IF key = "metadata" THEN metadata(sk, v)
  ELSE [sk EXCEPT !.Extra = Put(@, key, Decoded(v))]

(* Bug: a key written twice is read twice.                                 *)
RefusedTwiceUnseen(key, v) ==
  \/ key = NoScalar
  \/ key \notin knownKeys /\ ~Decodes(v)

Refused(key, v) ==
  \/ key = NoScalar
  \/ key \in s.keys
  \/ key \notin knownKeys /\ ~Decodes(v)

ParseKey ==
  /\ pc = "keys"
  /\ at <= Len(front)
  /\ LET key == front[at].key
         v == front[at].value
     IN IF Refused(key, v) THEN Fail
        ELSE s' = [Assigned(s, key, v) EXCEPT !.keys = @ \cup {key}] /\ UNCHANGED pc
  /\ at' = at + 1
  /\ UNCHANGED <<file, dirName, round, front, problems, kept, exits>>

ParseEnd ==
  /\ pc = "keys"
  /\ at > Len(front)
  /\ pc' = "parsed"
  /\ UNCHANGED <<file, dirName, round, at, front, s, problems, kept, exits>>

----------------------------------------------------------------------------
(* Validate.                                                               *)

Err(field, why) == [severity |-> "error", field |-> field, why |-> why]
HasErrors(ps) == \E p \in ps : p.severity = "error"

present(sk, key) == key \in sk.keys

(* Bug: hyphens looked at one by one.                                      *)
nameFlawsNoPairs(name) ==
  (IF Len(name) > MaxNameLength THEN {"too-long"} ELSE {}) \cup
  (IF \E j \in DOMAIN name : name[j] = "A" THEN {"not-lowercase"} ELSE {}) \cup
  (IF name[1] = "-" \/ name[Len(name)] = "-" THEN {"end-hyphen"} ELSE {}) \cup
  (IF \E j \in DOMAIN name : name[j] \notin {"a", "A", "-"} THEN {"characters"} ELSE {}) \cup
  (IF dirName \notin {<<>>, name} THEN {"directory"} ELSE {})

nameFlaws(name) ==
  (IF Len(name) > MaxNameLength THEN {"too-long"} ELSE {}) \cup
  (IF \E j \in DOMAIN name : name[j] = "A" THEN {"not-lowercase"} ELSE {}) \cup
  (IF name[1] = "-" \/ name[Len(name)] = "-" THEN {"end-hyphen"} ELSE {}) \cup
  (IF \E j \in 1..Len(name) - 1 : name[j] = "-" /\ name[j + 1] = "-"
     THEN {"two-hyphens"} ELSE {}) \cup
  (IF \E j \in DOMAIN name : name[j] \notin {"a", "A", "-"} THEN {"characters"} ELSE {}) \cup
  (IF dirName \notin {<<>>, name} THEN {"directory"} ELSE {})

(* Bug: a name is looked at only when there is one.                        *)
validateNameIfAny(sk) == IF sk.field["name"] = <<>> THEN {} ELSE nameFlaws(sk.field["name"])

validateName(sk) ==
  IF sk.field["name"] = <<>> THEN {"empty"} ELSE nameFlaws(sk.field["name"])

(* Bug: an empty description passes.                                       *)
validateDescriptionLength(sk) ==
  IF Len(sk.field["description"]) > MaxDescriptionLength THEN {"too-long"} ELSE {}

validateDescription(sk) ==
  IF sk.field["description"] = <<>> THEN {"empty"}
  ELSE IF Len(sk.field["description"]) > MaxDescriptionLength THEN {"too-long"} ELSE {}

(* A required field: missing, or of the wrong shape, or looked into.       *)
Required(sk, key, flaws) ==
  IF ~present(sk, key) THEN {Err(key, "missing")}
  ELSE IF key \in sk.shape THEN {} ELSE {Err(key, why) : why \in flaws}

Validate(sk) ==
  (IF DOMAIN sk.Extra # {} THEN {Err(NoField, "unexpected")} ELSE {})
  \cup {Err(key, "shape") : key \in sk.shape}
  \cup Required(sk, "name", validateName(sk))
  \cup Required(sk, "description", validateDescription(sk))
  \cup (IF Len(sk.field["compatibility"]) > MaxCompatibilityLength
          THEN {Err("compatibility", "too-long")} ELSE {})
  \cup (IF sk.field["allowed-tools"] \in BadRules
          THEN {Err("allowed-tools", "rules")} ELSE {})
  \cup (IF Len(sk.Body) > MaxBodyLines
          THEN {[severity |-> "warning", field |-> "body", why |-> "long"]} ELSE {})

Report ==
  /\ pc = "parsed"
  /\ problems' = Validate(s)
  /\ pc' = "validated"
  /\ UNCHANGED <<file, dirName, round, at, front, s, kept, exits>>

----------------------------------------------------------------------------
(* The commands, on the directory the file is in.                          *)

listable(sk) ==
  /\ sk.field["name"] # <<>>
  /\ sk.field["description"] # <<>>
  /\ \A j \in DOMAIN sk.field["name"] : sk.field["name"][j] # ":"

(* load refuses what it finds reported missing or empty.                   *)
LoadRefuses ==
  \/ pc = "failed"
  \/ \E p \in problems : p.field \in trimmedKeys /\ p.why \in {"missing", "empty"}

Exit(status, shown) == [status |-> status, shown |-> shown]

validate ==
  /\ exits' = Put(exits, "validate",
                  Exit(IF pc = "failed" \/ HasErrors(problems) THEN 1 ELSE 0, {}))

readProperties ==
  /\ exits' = Put(exits, "read-properties",
                  IF LoadRefuses THEN Exit(1, {}) ELSE Exit(0, {s.field["name"]}))

toPrompt ==
  /\ exits' = Put(exits, "to-prompt",
                  IF LoadRefuses THEN Exit(1, {})
                  ELSE Exit(0, IF listable(s) THEN {s.field["name"]} ELSE {}))

Command ==
  /\ pc \in {"validated", "failed"}
  /\ round = 1
  /\ dirName # <<>>
  /\ validate \/ readProperties \/ toPrompt
  /\ UNCHANGED <<file, dirName, round, pc, at, front, s, problems, kept>>

----------------------------------------------------------------------------
(* Encode.                                                                 *)

Given(sk, key) ==
  IF sk.field[key] = <<>> THEN <<>> ELSE <<Entry(key, Scalar(sk.field[key]))>>

MetadataEntry(sk) ==
  IF DOMAIN sk.Metadata = {} THEN <<>>
  ELSE LET ks == SetToSeq(DOMAIN sk.Metadata)
       IN <<Entry("metadata", Mapping([j \in DOMAIN ks |->
                                         <<ks[j], Scalar(sk.Metadata[ks[j]])>>]))>>

(* The YAML a Go value is written as: the shortest text of the number, so  *)
(* a whole float64 has no fraction any more.                               *)
ReencodedPlain(d) ==
  IF d.kind # "scalar" THEN List
  ELSE ScalarOf(d.text, IF d.go = "string" THEN "word"
                        ELSE IF d.whole THEN "digits" ELSE "fraction")

Reencoded(d) ==
  IF d.kind # "map" THEN ReencodedPlain(d)
  ELSE LET ks == SetToSeq(DOMAIN d.held)
       IN Mapping([j \in DOMAIN ks |-> <<ks[j], ReencodedPlain(d.held[ks[j]])>>])

ExtraEntries(sk) ==
  LET ks == SetToSeq(DOMAIN sk.Extra)
  IN [j \in DOMAIN ks |-> Entry(ks[j], Reencoded(sk.Extra[ks[j]]))]

Frontmatter(sk) ==
  <<Entry("name", Scalar(sk.field["name"])),
    Entry("description", Scalar(sk.field["description"]))>>
  \o Given(sk, "license") \o Given(sk, "compatibility") \o Given(sk, "allowed-tools")
  \o MetadataEntry(sk) \o ExtraEntries(sk)

(* Bug: the keys the specification does not define are left out.           *)
EncodedKnown(sk) ==
  <<Fence, Entry("name", Scalar(sk.field["name"])),
    Entry("description", Scalar(sk.field["description"]))>>
  \o Given(sk, "license") \o Given(sk, "compatibility") \o Given(sk, "allowed-tools")
  \o MetadataEntry(sk) \o <<Fence>> \o sk.Body

(* Bug: allowed-tools forgotten.                                           *)
EncodedNoTools(sk) ==
  <<Fence, Entry("name", Scalar(sk.field["name"])),
    Entry("description", Scalar(sk.field["description"]))>>
  \o Given(sk, "license") \o Given(sk, "compatibility")
  \o MetadataEntry(sk) \o ExtraEntries(sk) \o <<Fence>> \o sk.Body

Encoded(sk) == <<Fence>> \o Frontmatter(sk) \o <<Fence>> \o sk.Body

Encode ==
  /\ pc = "validated"
  /\ round = 1
  /\ file' = Encoded(s)
  /\ kept' = <<s, problems>>
  /\ round' = 2
  /\ pc' = "open"
  /\ at' = 1
  /\ front' = <<>>
  /\ s' = EmptySkill
  /\ problems' = {}
  /\ UNCHANGED <<dirName, exits>>

(* The YAML encoder refuses a value or the whole.  Whether it does is the  *)
(* library's choice: no value that Parse decoded is known to be refused.   *)
EncodeFails ==
  /\ pc = "validated"
  /\ round = 1
  /\ pc' = "unwritten"
  /\ UNCHANGED <<file, dirName, round, at, front, s, problems, kept, exits>>

Parse == Open \/ ScanLine \/ ScanEnd \/ Unmarshal \/ ParseKey \/ ParseEnd

Next == Parse \/ Report \/ Command \/ Encode \/ EncodeFails

Spec == Init /\ [][Next]_vars
----------------------------------------------------------------------------
(* The state's types.  A field of the wrong shape is empty, and was there. *)
TypeOK ==
  /\ pc \in {"open", "scan", "yaml", "keys", "parsed", "validated", "failed",
            "unwritten"}
  /\ round \in 1..2
  /\ at \in 1..Len(file) + 1
  /\ s.field \in [scalarKeys -> Text]
  /\ s.shape \subseteq s.keys \cap knownKeys
  /\ \A key \in s.shape \cap scalarKeys : s.field[key] = <<>>
  /\ s.keys \ knownKeys = DOMAIN s.Extra
  /\ DOMAIN exits \subseteq {"validate", "read-properties", "to-prompt"}

Loaded == pc \in {"parsed", "validated"}

(* Every value of a frontmatter that parses stands in the skill, trimmed   *)
(* at most and decoded, or is reported: none is overwritten by another     *)
(* key's or dropped (parse.go:41-51, 118-126).  Within metadata only the   *)
(* last pair of a key stands (parse.go:136-146).                           *)
HeldOrReported ==
  pc = "validated" =>
    \A j \in DOMAIN front :
      LET key == front[j].key
          v == front[j].value
      IN \/ \E p \in problems : p.field = key
         \/ /\ key \in scalarKeys
            /\ v.kind = "scalar"
            /\ s.field[key] \in {v.text, Trim(v.text)}
         \/ /\ key = "metadata"
            /\ v.kind = "map"
            /\ DOMAIN s.Metadata = {v.pairs[x][1] : x \in DOMAIN v.pairs}
            /\ \A x \in DOMAIN v.pairs :
                 \/ s.Metadata[v.pairs[x][1]] = v.pairs[x][2].text
                 \/ \E y \in DOMAIN v.pairs : x < y /\ v.pairs[y][1] = v.pairs[x][1]
         \/ key \notin knownKeys /\ s.Extra[key] = Decoded(v)

(* A skill the model is never offered is never hidden without a word: an   *)
(* error about its name or its description is in Problems                  *)
(* (discover.go:128-140, README.md:33-36).                                 *)
HiddenIsReported ==
  pc = "validated" /\ ~listable(s) =>
    \E p \in problems : p.severity = "error" /\ p.field \in trimmedKeys

(* Validate passes exactly the names the specification describes: words of *)
(* lowercase letters and digits joined by single hyphens, no longer than   *)
(* the limit and the same as the directory's (validate.go:87-115).         *)
NameGrammar ==
  pc = "validated" =>
    LET name == s.field["name"]
    IN (\A p \in problems : p.field # "name") <=>
         /\ Len(name) \in 1..MaxNameLength
         /\ \A j \in DOMAIN name :
              \/ name[j] = "a"
              \/ /\ name[j] = "-"
                 /\ j \in 2..Len(name) - 1
                 /\ name[j - 1] = "a"
                 /\ name[j + 1] = "a"
         /\ dirName \in {<<>>, name}

(* The same Go value, but that a whole float64 may have become an int.     *)
SameScalar(new, old) ==
  \/ new = old
  \/ old.kind = "scalar" /\ old.go = "float64" /\ old.whole /\ new = [old EXCEPT !.go = "int"]
SameValue(new, old) ==
  IF old.kind # "map" THEN SameScalar(new, old)
  ELSE /\ new.kind = "map"
       /\ DOMAIN new.held = DOMAIN old.held
       /\ \A k \in DOMAIN old.held : SameScalar(new.held[k], old.held[k])

(* A skill that Encode wrote back parses and is the skill it was, the body *)
(* included, although a field of the wrong shape is gone from the file;    *)
(* of the other keys, and of those inside their mappings, a float64        *)
(* without a fraction may come back as an int, and nothing else changes    *)
(* (parse.go:178-182, 206-211).                                            *)
RoundTrip ==
  round = 2 =>
    /\ pc # "failed"
    /\ Loaded =>
         /\ s.field = kept[1].field
         /\ s.Metadata = kept[1].Metadata
         /\ s.Body = kept[1].Body
         /\ DOMAIN s.Extra = DOMAIN kept[1].Extra
         /\ \A key \in DOMAIN s.Extra : SameValue(s.Extra[key], kept[1].Extra[key])

(* Writing a skill back never changes whether it is valid, unless a value  *)
(* of the wrong shape was left out (parse.go:178-182, skill.go:81-85).     *)
VerdictKept ==
  round = 2 /\ pc = "validated" /\ kept[1].shape = {} =>
    (HasErrors(problems) <=> HasErrors(kept[2]))

(* What validate passes the other commands accept, and to-prompt shows it  *)
(* (main.go:83-105, 145-162, 187-207).                                     *)
ValidIsPrompted ==
  {"validate", "to-prompt", "read-properties"} = DOMAIN exits
  /\ exits["validate"].status = 0
    => /\ exits["read-properties"].status = 0
       /\ exits["to-prompt"] = exits["read-properties"]

----------------------------------------------------------------------------
(* What the comments say and the code does not do.                         *)

(* A key written twice is one of the YAML failures (parse.go:47-51).       *)
NothingSaidTwice ==
  Loaded =>
    /\ ~Repeats([j \in DOMAIN front |-> <<front[j].key>>])
    /\ \A j \in DOMAIN front :
         front[j].value.kind = "map" => ~Repeats(front[j].value.pairs)

(* Parse(Encode(s)) yields s (parse.go:180), and the keys that are not the *)
(* specification's re-encode without loss (skill.go:81-85).                *)
EncodeLosesNothing ==
  round = 2 /\ Loaded => s.Extra = kept[1].Extra

(* A missing or empty name or description is an error of the commands that *)
(* read a skill (main.go:141-142).                                         *)
EmptyIsRefused ==
  round = 1 =>
    \A cmd \in DOMAIN exits \ {"validate"} :
      exits[cmd].status = 0 => \A key \in trimmedKeys : s.field[key] # <<>>
=============================================================================

-------------------------- MODULE FrontmatterProofs --------------------------
(* Theorems about Frontmatter, for any files, directories and limits.      *)
EXTENDS Frontmatter, TLAPS, SequenceTheorems, FiniteSetTheorems, NatSets

(* What a key and its value make of a skill.                               *)
Said(key, v) ==
  IF v.kind # "scalar" THEN <<>> ELSE IF key \in trimmedKeys THEN Trim(v.text) ELSE v.text
Meta(v) == IF v.kind # "map" THEN <<>> ELSE StringPairs(v.pairs)
Misshapen(key, v) ==
  \/ key \in scalarKeys /\ v.kind # "scalar"
  \/ key = "metadata" /\ (v.kind = "map" => Strings(v.pairs) # DOMAIN v.pairs)

IsRecord(sk) ==
  sk = [field |-> sk.field, Metadata |-> sk.Metadata, Extra |-> sk.Extra,
        Body |-> sk.Body, keys |-> sk.keys, shape |-> sk.shape]

(* The skill sk is made of the entry e, whose key no other entry has.      *)
Made(sk, e) ==
  /\ e.kind = "entry" /\ e.key # NoScalar
  /\ e.key \in scalarKeys => sk.field[e.key] = Said(e.key, e.value)
  /\ e.key = "metadata" => sk.Metadata = Meta(e.value)
  /\ e.key \notin knownKeys => sk.Extra[e.key] = Decoded(e.value) /\ Decodes(e.value)
  /\ e.key \in sk.shape <=> Misshapen(e.key, e.value)

(* The skill sk is made of the first n entries of f and of nothing else.   *)
AsRead(sk, f, n) ==
  /\ \A j \in 1..n : Made(sk, f[j]) /\ \A k \in 1..n : f[k].key = f[j].key => k = j
  /\ sk.keys = {f[j].key : j \in 1..n}
  /\ \A key \in scalarKeys \ sk.keys : sk.field[key] = <<>>
  /\ "metadata" \notin sk.keys => sk.Metadata = <<>>
  /\ sk.Extra = [key \in sk.keys \ knownKeys |-> sk.Extra[key]]

(* The fences are at 1 and m.                                              *)
SplitAt(m) ==
  /\ isFence(file[m])
  /\ \A j \in 2..m - 1 : ~isFence(file[j])
  /\ front = SubSeq(file, 2, m - 1)
  /\ s.Body = SubSeq(file, m + 1, Len(file))

Scanned ==
  /\ pc = "open" => at = 1
  /\ pc \in {"open", "scan"} => s = EmptySkill
  /\ pc = "scan" => at > 1 /\ \A j \in 2..at - 1 : ~isFence(file[j])
  /\ pc \notin {"open", "scan", "failed"} => \E m \in 2..Len(file) : SplitAt(m)

Entered ==
  /\ pc = "yaml" => at = 1 /\ AsRead(s, front, 0)
  /\ pc = "keys" => /\ at <= Len(front) + 1 /\ AsRead(s, front, at - 1)
                    /\ \A j \in DOMAIN front : front[j].kind = "entry"
  /\ pc \in {"parsed", "validated", "unwritten"} => AsRead(s, front, Len(front))

(* What a value that was decoded is.                                       *)
IsGoPlain(d) ==
  \/ d = List
  \/ /\ d = [kind |-> "scalar", text |-> d.text, whole |-> d.whole, go |-> d.go]
     /\ \/ d.go = "string" /\ d.whole = FALSE
        \/ d.go = "int" /\ d.whole = TRUE
        \/ d.go = "float64" /\ d.whole \in BOOLEAN
IsGoMap(d) ==
  /\ d.kind = "map"
  /\ IsFiniteSet(DOMAIN d.held) /\ NoScalar \notin DOMAIN d.held
  /\ \A k \in DOMAIN d.held : IsGoPlain(d.held[k])
IsGo(d) ==
  \/ IsGoMap(d)
  \/ IsGoPlain(d) /\ (d.kind = "scalar" => d.text \in Text)

(* A skill that was read.                                                  *)
IsSkill(sk) ==
  /\ IsRecord(sk)
  /\ sk.field \in [scalarKeys -> Text]
  /\ \A key \in trimmedKeys : Trim(sk.field[key]) = sk.field[key]
  /\ sk.Metadata = [k \in DOMAIN sk.Metadata |-> sk.Metadata[k]]
  /\ IsFiniteSet(DOMAIN sk.Metadata) /\ NoScalar \notin DOMAIN sk.Metadata
  /\ sk.Extra = [k \in DOMAIN sk.Extra |-> sk.Extra[k]]
  /\ IsFiniteSet(DOMAIN sk.Extra) /\ DOMAIN sk.Extra \cap (knownKeys \cup {NoScalar}) = {}
  /\ \A k \in DOMAIN sk.Extra : IsGo(sk.Extra[k])
  /\ IsFile(sk.Body)
  /\ sk.shape \subseteq knownKeys
  /\ \A key \in scalarKeys : key \in sk.shape \/ key \notin sk.keys => sk.field[key] = <<>>

Rewritten ==
  round = 2 =>
    /\ IsSkill(kept[1])
    /\ kept[2] = Validate(kept[1])
    /\ file = Encoded(kept[1])
    /\ pc # "failed"

(* What the commands were run on, and what they said of it.                *)
Failed == round = 1 /\ pc = "failed"
Judged == IF round = 1 THEN <<s, problems>> ELSE kept
Refused1 ==
  Failed \/ \E p \in Judged[2] : p.field \in trimmedKeys /\ p.why \in {"missing", "empty"}

Ran ==
  /\ round = 1 /\ exits # <<>> => pc \in {"validated", "failed", "unwritten"}
  /\ "validate" \in DOMAIN exits /\ exits["validate"].status = 0 =>
       ~Failed /\ ~HasErrors(Judged[2])
  /\ "read-properties" \in DOMAIN exits =>
       exits["read-properties"] =
         IF Refused1 THEN Exit(1, {}) ELSE Exit(0, {Judged[1].field["name"]})
  /\ "to-prompt" \in DOMAIN exits =>
       exits["to-prompt"] =
         IF Refused1 THEN Exit(1, {})
         ELSE Exit(0, IF listable(Judged[1]) THEN {Judged[1].field["name"]} ELSE {})

IInv ==
  /\ TypeOK
  /\ IsRecord(s)
  /\ IsFile(file) /\ file # <<>>
  /\ Scanned
  /\ Entered
  /\ pc \in {"validated", "unwritten"} => problems = Validate(s)
  /\ Rewritten
  /\ Ran

----------------------------------------------------------------------------
(* Sequences and text.                                                     *)
LEMMA Slice ==
  ASSUME NEW S, NEW q \in Seq(S), NEW m \in 1..Len(q) + 1, NEW n \in 0..Len(q)
  PROVE  /\ SubSeq(q, m, n) \in Seq(S)
         /\ Len(SubSeq(q, m, n)) = IF m <= n THEN n - m + 1 ELSE 0
         /\ \A j \in 1..n - m + 1 : SubSeq(q, m, n)[j] = q[m + j - 1]
<1>1. m \in Int /\ n \in Int
  OBVIOUS
<1>2. \A j \in m..n : q[j] \in S
  OBVIOUS
<1> QED
  BY <1>1, <1>2, SubSeqProperties

LEMMA Extremes ==
  ASSUME NEW t \in Text, NEW D \in SUBSET DOMAIN t, D # {}
  PROVE  /\ \E j \in D : \A x \in D : j <= x
         /\ \E j \in D : \A x \in D : x <= j
<1>1. Len(t) \in Nat /\ DOMAIN t = 1..Len(t)
  BY DEF Text
<1>2. D \in SUBSET Nat /\ \A x \in D : x <= Len(t)
  BY <1>1
<1> QED
  BY <1>1, <1>2, Least, Greatest

(* Trimming leaves text, which has no space at either end.                 *)
Solid(t) == {j \in DOMAIN t : t[j] # "space"}
First(t) == CHOOSE j \in Solid(t) : \A x \in Solid(t) : j <= x
Final(t) == CHOOSE j \in Solid(t) : \A x \in Solid(t) : x <= j

LEMMA TrimIs ==
  ASSUME NEW t
  PROVE  Trim(t) = IF Solid(t) = {} THEN <<>> ELSE SubSeq(t, First(t), Final(t))
BY Zenon DEF Trim, Solid, First, Final

LEMMA Ends ==
  ASSUME NEW t \in Text, Solid(t) # {}
  PROVE  /\ First(t) \in Solid(t) /\ \A x \in Solid(t) : First(t) <= x
         /\ Final(t) \in Solid(t) /\ \A x \in Solid(t) : x <= Final(t)
<1>1. Solid(t) \in SUBSET DOMAIN t
  BY DEF Solid
<1>2. \E j \in Solid(t) : \A x \in Solid(t) : j <= x
  BY <1>1, Extremes
<1>3. \E j \in Solid(t) : \A x \in Solid(t) : x <= j
  BY <1>1, Extremes
<1>4. First(t) \in Solid(t) /\ \A x \in Solid(t) : First(t) <= x
  BY <1>2, Zenon DEF First
<1>5. Final(t) \in Solid(t) /\ \A x \in Solid(t) : x <= Final(t)
  BY <1>3, Zenon DEF Final
<1> QED
  BY <1>4, <1>5

LEMMA Trimmed ==
  ASSUME NEW t \in Text
  PROVE  Trim(t) \in Text /\ Trim(Trim(t)) = Trim(t)
<1>1. CASE Solid(t) = {}
  <2>1. Trim(t) = <<>>
    BY <1>1, TrimIs
  <2>2. Solid(<<>>) = {}
    BY DEF Solid
  <2>3. Trim(<<>>) = <<>>
    BY <2>2, TrimIs
  <2> QED
    BY <2>1, <2>3 DEF Text
<1>2. CASE Solid(t) # {}
  <2> DEFINE a == First(t)
             b == Final(t)
             u == SubSeq(t, a, b)
  <2>1. /\ a \in 1..Len(t) /\ b \in 1..Len(t) /\ a <= b
        /\ t[a] # "space" /\ t[b] # "space" /\ Len(t) \in Nat
    BY <1>2, Ends DEF Solid, Text
  <2>2. /\ u \in Text /\ Len(u) = b - a + 1
        /\ \A j \in 1..b - a + 1 : u[j] = t[a + j - 1]
    <3> HIDE DEF a, b
    <3>1. t \in Seq(Chars) /\ a \in 1..Len(t) + 1 /\ b \in 0..Len(t)
      BY <2>1 DEF Text
    <3>2. /\ u \in Seq(Chars) /\ Len(u) = IF a <= b THEN b - a + 1 ELSE 0
          /\ \A j \in 1..b - a + 1 : u[j] = t[a + j - 1]
      BY <3>1, Slice
    <3> QED
      BY <2>1, <3>2 DEF Text
  <2>3. Trim(t) = u
    BY <1>2, TrimIs
  <2> HIDE DEF a, b, u
  <2>4. 1 \in Solid(u) /\ Len(u) \in Solid(u)
    <3>1. u[1] = t[a] /\ u[b - a + 1] = t[b] /\ b - a + 1 \in 1..b - a + 1
      BY <2>1, <2>2
    <3>2. DOMAIN u = 1..Len(u) /\ 1 \in 1..Len(u)
      BY <2>1, <2>2 DEF Text
    <3> QED
      BY <2>1, <2>2, <3>1, <3>2 DEF Solid
  <2>5. First(u) = 1 /\ Final(u) = Len(u)
    <3>1. Solid(u) # {} /\ \A x \in Solid(u) : x \in 1..Len(u)
      <4>1. DOMAIN u = 1..Len(u)
        BY <2>2 DEF Text
      <4> QED
        BY <2>4, <4>1 DEF Solid
    <3>2. /\ First(u) \in Solid(u) /\ First(u) <= 1
          /\ Final(u) \in Solid(u) /\ Len(u) <= Final(u)
      BY <2>2, <2>4, <3>1, Ends
    <3> QED
      BY <2>2, <3>1, <3>2 DEF Text
  <2>6. Trim(u) = SubSeq(u, 1, Len(u))
    BY <2>4, <2>5, TrimIs
  <2>7. SubSeq(u, 1, Len(u)) = u
    BY <2>2, SubSeqFull DEF Text
  <2> QED
    BY <2>2, <2>3, <2>6, <2>7
<1> QED
  BY <1>1, <1>2

----------------------------------------------------------------------------
(* What Validate says of a skill whose fields that are missing or of the   *)
(* wrong shape are empty.                                                  *)
Fielded(sk) ==
  /\ sk.field \in [scalarKeys -> Text]
  /\ \A key \in scalarKeys : key \in sk.shape \/ key \notin sk.keys => sk.field[key] = <<>>

Long == [severity |-> "warning", field |-> "body", why |-> "long"]

LEMMA RequiredSays ==
  ASSUME NEW sk, NEW key, NEW flaws, NEW p
  PROVE  p \in Required(sk, key, flaws) <=>
           \/ key \notin sk.keys /\ p = Err(key, "missing")
           \/ key \in sk.keys /\ key \notin sk.shape /\ \E why \in flaws : p = Err(key, why)
BY DEF Required, present

LEMMA ValidateSays ==
  ASSUME NEW sk, NEW p
  PROVE  p \in Validate(sk) <=>
           \/ DOMAIN sk.Extra # {} /\ p = Err(NoField, "unexpected")
           \/ \E key \in sk.shape : p = Err(key, "shape")
           \/ p \in Required(sk, "name", validateName(sk))
           \/ p \in Required(sk, "description", validateDescription(sk))
           \/ /\ Len(sk.field["compatibility"]) > MaxCompatibilityLength
              /\ p = Err("compatibility", "too-long")
           \/ sk.field["allowed-tools"] \in BadRules /\ p = Err("allowed-tools", "rules")
           \/ Len(sk.Body) > MaxBodyLines /\ p = Long
<1> DEFINE long == Len(sk.field["compatibility"]) > MaxCompatibilityLength
           bad == sk.field["allowed-tools"] \in BadRules
           body == Len(sk.Body) > MaxBodyLines
           name == Required(sk, "name", validateName(sk))
           description == Required(sk, "description", validateDescription(sk))
           extra == DOMAIN sk.Extra # {}
<1>1. Validate(sk) =
        (IF extra THEN {Err(NoField, "unexpected")} ELSE {})
        \cup {Err(key, "shape") : key \in sk.shape} \cup name \cup description
        \cup (IF long THEN {Err("compatibility", "too-long")} ELSE {})
        \cup (IF bad THEN {Err("allowed-tools", "rules")} ELSE {})
        \cup (IF body THEN {Long} ELSE {})
  BY Zenon DEF Validate, Long
<1> HIDE DEF long, bad, body, name, description, extra
<1>2. p \in Validate(sk) <=>
        \/ extra /\ p = Err(NoField, "unexpected")
        \/ \E key \in sk.shape : p = Err(key, "shape")
        \/ p \in name \/ p \in description
        \/ long /\ p = Err("compatibility", "too-long")
        \/ bad /\ p = Err("allowed-tools", "rules")
        \/ body /\ p = Long
  BY <1>1
<1> QED
  BY <1>2 DEF long, bad, body, name, description, extra

(* Every problem is an error but that of a long body.                      *)
LEMMA Severe ==
  ASSUME NEW sk, NEW p \in Validate(sk)
  PROVE  p = Long \/ p.severity = "error"
<1>1. \A why : Err(NoField, why).severity = "error"
  BY DEF Err
<1>2. \A key, why : Err(key, why).severity = "error"
  BY DEF Err
<1>3. \A key, flaws : p \in Required(sk, key, flaws) => p.severity = "error"
  BY <1>2, RequiredSays
<1>4. \/ p = Err(NoField, "unexpected")
      \/ \E key, why : p = Err(key, why)
      \/ \E key, flaws : p \in Required(sk, key, flaws)
      \/ p = Long
  BY ValidateSays
<1> QED
  BY <1>1, <1>2, <1>3, <1>4

(* The problems of a required field.                                       *)
LEMMA NameSays ==
  ASSUME NEW sk
  PROVE  (\A p \in Validate(sk) : p.field # "name") <=>
           "name" \in sk.keys /\ "name" \notin sk.shape /\ validateName(sk) = {}
<1>1. \A key, why : Err(key, why).field = key
  BY DEF Err
<1>2. Long.field # "name"
  BY DEF Long
<1>3. \A p \in Validate(sk) : p.field = "name" =>
        \/ p = Err("name", "shape") /\ "name" \in sk.shape
        \/ p \in Required(sk, "name", validateName(sk))
  <2> SUFFICES ASSUME NEW p \in Validate(sk), p.field = "name"
               PROVE  \/ p = Err("name", "shape") /\ "name" \in sk.shape
                      \/ p \in Required(sk, "name", validateName(sk))
    OBVIOUS
  <2>1. p \notin Required(sk, "description", validateDescription(sk))
    BY <1>1, RequiredSays
  <2> QED
    BY <1>1, <1>2, <2>1, ValidateSays DEF NoField
<1>4. \A p \in Required(sk, "name", validateName(sk)) : p \in Validate(sk) /\ p.field = "name"
  BY <1>1, RequiredSays, ValidateSays
<1>5. "name" \in sk.shape => Err("name", "shape") \in Validate(sk)
  BY ValidateSays
<1>6. (\A p : p \notin Required(sk, "name", validateName(sk))) <=>
        "name" \in sk.keys /\ ("name" \in sk.shape \/ validateName(sk) = {})
  BY DEF Required, present
<1> QED
  BY <1>1, <1>3, <1>4, <1>5, <1>6

LEMMA DescriptionSays ==
  ASSUME NEW sk, Fielded(sk), sk.field["description"] = <<>>
  PROVE  \E p \in Validate(sk) : p.severity = "error" /\ p.field = "description"
<1>1. "description" \in sk.shape => Err("description", "shape") \in Validate(sk)
  BY ValidateSays
<1>2. "description" \notin sk.keys =>
        Err("description", "missing") \in Required(sk, "description", validateDescription(sk))
  BY DEF Required, present
<1>3. "description" \in sk.keys /\ "description" \notin sk.shape =>
        Err("description", "empty") \in Required(sk, "description", validateDescription(sk))
  BY DEF Required, present, validateDescription
<1>4. \A why : /\ Err("description", why).severity = "error"
               /\ Err("description", why).field = "description"
  BY DEF Err
<1> QED
  BY <1>1, <1>2, <1>3, <1>4, ValidateSays

(* The names without a flaw are those of the grammar.                      *)
Grammar(name) ==
  /\ Len(name) \in 1..MaxNameLength
  /\ \A j \in DOMAIN name :
       \/ name[j] = "a"
       \/ /\ name[j] = "-"
          /\ j \in 2..Len(name) - 1
          /\ name[j - 1] = "a"
          /\ name[j + 1] = "a"
  /\ dirName \in {<<>>, name}

LEMMA FlawlessIs ==
  ASSUME NEW name
  PROVE  nameFlaws(name) = {} <=>
           /\ ~(Len(name) > MaxNameLength)
           /\ \A j \in DOMAIN name : name[j] # "A"
           /\ name[1] # "-" /\ name[Len(name)] # "-"
           /\ \A j \in 1..Len(name) - 1 : ~(name[j] = "-" /\ name[j + 1] = "-")
           /\ \A j \in DOMAIN name : name[j] \in {"a", "A", "-"}
           /\ dirName \in {<<>>, name}
<1> DEFINE long == Len(name) > MaxNameLength
           upper == \E j \in DOMAIN name : name[j] = "A"
           end == name[1] = "-" \/ name[Len(name)] = "-"
           two == \E j \in 1..Len(name) - 1 : name[j] = "-" /\ name[j + 1] = "-"
           chars == \E j \in DOMAIN name : name[j] \notin {"a", "A", "-"}
           dir == dirName \notin {<<>>, name}
<1>1. nameFlaws(name) =
        (IF long THEN {"too-long"} ELSE {}) \cup
        (IF upper THEN {"not-lowercase"} ELSE {}) \cup
        (IF end THEN {"end-hyphen"} ELSE {}) \cup
        (IF two THEN {"two-hyphens"} ELSE {}) \cup
        (IF chars THEN {"characters"} ELSE {}) \cup
        (IF dir THEN {"directory"} ELSE {})
  BY Zenon DEF nameFlaws
<1> HIDE DEF long, upper, end, two, chars, dir
<1>2. nameFlaws(name) = {} <=> ~long /\ ~upper /\ ~end /\ ~two /\ ~chars /\ ~dir
  BY <1>1
<1> QED
  BY <1>2, Zenon DEF long, upper, end, two, chars, dir

LEMMA Flawless ==
  ASSUME NEW name \in Text
  PROVE  name # <<>> /\ nameFlaws(name) = {} <=> Grammar(name)
<1> DEFINE n == Len(name)
<1>1. n \in Nat /\ DOMAIN name = 1..n /\ (name # <<>> <=> n > 0)
  BY EmptySeq DEF Text
<1>2. \A j \in 1..n : name[j] \in Chars
  BY DEF Text
<1>3. MaxNameLength \in Nat
  BY LimitsAssumption
<1> HIDE DEF n
<1>4. ASSUME name # <<>>, nameFlaws(name) = {}
      PROVE  Grammar(name)
  <2>1. /\ n <= MaxNameLength /\ name[1] # "-" /\ name[n] # "-"
        /\ \A j \in 1..n : name[j] \in {"a", "-"}
        /\ \A j \in 1..n - 1 : ~(name[j] = "-" /\ name[j + 1] = "-")
        /\ dirName \in {<<>>, name}
    BY <1>1, <1>3, <1>4, FlawlessIs DEF n
  <2>2. ASSUME NEW j \in 1..n, name[j] = "-"
        PROVE  j \in 2..n - 1 /\ name[j - 1] = "a" /\ name[j + 1] = "a"
    <3>1. j # 1 /\ j # n
      BY <2>1, <2>2
    <3>2. j \in 2..n - 1 /\ j - 1 \in 1..n - 1 /\ j + 1 \in 1..n /\ (j - 1) + 1 = j
      BY <1>1, <3>1
    <3>3. name[j - 1] # "-" /\ name[j + 1] # "-"
      BY <2>1, <2>2, <3>2
    <3> QED
      BY <1>1, <2>1, <3>2, <3>3
  <2> QED
    BY <1>1, <1>4, <2>1, <2>2 DEF Grammar, n
<1>5. ASSUME Grammar(name)
      PROVE  name # <<>> /\ nameFlaws(name) = {}
  <2>1. n \in 1..MaxNameLength /\ dirName \in {<<>>, name}
    BY <1>5 DEF Grammar, n
  <2>2. \A j \in 1..n : name[j] # "a" =>
          name[j] = "-" /\ j \in 2..n - 1 /\ name[j - 1] = "a" /\ name[j + 1] = "a"
    BY <1>1, <1>5 DEF Grammar, n
  <2>3. \A j \in 1..n : name[j] \in {"a", "-"}
    BY <2>2
  <2>4. name[1] # "-" /\ name[n] # "-"
    BY <1>1, <2>1, <2>2
  <2>5. \A j \in 1..n - 1 : ~(name[j] = "-" /\ name[j + 1] = "-")
    BY <1>1, <2>2
  <2>6. ~(n > MaxNameLength)
    BY <1>3, <2>1
  <2> QED
    BY <1>1, <2>1, <2>3, <2>4, <2>5, <2>6, FlawlessIs DEF n
<1> QED
  BY <1>4, <1>5

LEMMA NameJudged ==
  ASSUME NEW sk, Fielded(sk)
  PROVE  (\A p \in Validate(sk) : p.field # "name") <=> Grammar(sk.field["name"])
<1> DEFINE name == sk.field["name"]
<1>1. name \in Text
  BY DEF Fielded, scalarKeys, knownKeys
<1>2. "name" \in sk.shape \/ "name" \notin sk.keys => name = <<>>
  BY DEF Fielded, scalarKeys, knownKeys
<1>3. validateName(sk) = {} <=> name # <<>> /\ nameFlaws(name) = {}
  BY DEF validateName
<1> HIDE DEF name
<1>4. name # <<>> /\ nameFlaws(name) = {} <=> Grammar(name)
  BY <1>1, Flawless
<1> QED
  BY <1>2, <1>3, <1>4, NameSays DEF name

(* A skill that is never listed has an error that says why.                *)
LEMMA Hidden ==
  ASSUME NEW sk, Fielded(sk), ~listable(sk)
  PROVE  \E p \in Validate(sk) : p.severity = "error" /\ p.field \in trimmedKeys
<1>1. CASE sk.field["description"] = <<>>
  BY <1>1, DescriptionSays DEF trimmedKeys
<1>2. CASE sk.field["description"] # <<>>
  <2>1. ~Grammar(sk.field["name"])
    BY <1>2 DEF Grammar, listable
  <2>2. PICK p \in Validate(sk) : p.field = "name"
    BY <2>1, NameJudged
  <2>3. p.severity = "error"
    BY <2>2, Severe DEF Long
  <2> QED
    BY <2>2, <2>3 DEF trimmedKeys
<1> QED
  BY <1>1, <1>2

----------------------------------------------------------------------------
(* Files.                                                                  *)
LEMMA Sequential ==
  ASSUME NEW S, NEW q \in Seq(S)
  PROVE  IsSequence(q)
<1>1. q \in [1..Len(q) -> S] /\ Len(q) \in Nat /\ DOMAIN q = 1..Len(q)
  OBVIOUS
<1>2. q \in [1..Len(q) -> Range(q)]
  BY <1>1 DEF Range
<1> QED
  BY <1>1, <1>2 DEF IsSequence

LEMMA Lines ==
  ASSUME NEW f, IsFile(f)
  PROVE  /\ Len(f) \in Nat /\ DOMAIN f = 1..Len(f)
         /\ f \in Seq(Range(f))
         /\ \A j \in 1..Len(f) : f[j].kind = "entry" => IsValue(f[j].value)
BY DEF IsFile, IsSequence

LEMMA SomeLines ==
  ASSUME NEW f, IsFile(f), NEW m \in 1..Len(f) + 1, NEW n \in 0..Len(f)
  PROVE  /\ IsFile(SubSeq(f, m, n))
         /\ Len(SubSeq(f, m, n)) = IF m <= n THEN n - m + 1 ELSE 0
         /\ \A j \in 1..n - m + 1 : SubSeq(f, m, n)[j] = f[m + j - 1]
<1> DEFINE q == SubSeq(f, m, n)
<1>1. /\ q \in Seq(Range(f)) /\ Len(q) = IF m <= n THEN n - m + 1 ELSE 0
      /\ \A j \in 1..n - m + 1 : q[j] = f[m + j - 1]
  BY Lines, Slice
<1>2. IsSequence(q)
  BY <1>1, Sequential
<1> HIDE DEF q
<1>3. ASSUME NEW j \in DOMAIN q, q[j].kind = "entry"
      PROVE  IsValue(q[j].value)
  <2>1. j \in 1..n - m + 1 /\ m + j - 1 \in 1..Len(f)
    BY <1>1, Lines
  <2> QED
    BY <1>1, <1>3, <2>1, Lines
<1> QED
  BY <1>1, <1>2, <1>3 DEF IsFile, q

LEMMA FrontIs ==
  ASSUME IsFile(file), NEW m \in 2..Len(file), SplitAt(m)
  PROVE  /\ IsFile(front) /\ IsFile(s.Body)
         /\ Len(front) = m - 2 /\ Len(front) + 1 < Len(file) + 1
         /\ \A j \in 1..m - 2 : front[j] = file[j + 1]
<1>1. Len(file) \in Nat /\ 2 \in 1..Len(file) + 1 /\ m - 1 \in 0..Len(file)
      /\ m + 1 \in 1..Len(file) + 1 /\ Len(file) \in 0..Len(file)
  BY Lines
<1>2. IsFile(SubSeq(file, m + 1, Len(file)))
  BY <1>1, SomeLines
<1>3. /\ IsFile(SubSeq(file, 2, m - 1))
      /\ Len(SubSeq(file, 2, m - 1)) = IF 2 <= m - 1 THEN (m - 1) - 2 + 1 ELSE 0
      /\ \A j \in 1..(m - 1) - 2 + 1 : SubSeq(file, 2, m - 1)[j] = file[2 + j - 1]
  BY <1>1, SomeLines
<1>4. front = SubSeq(file, 2, m - 1) /\ s.Body = SubSeq(file, m + 1, Len(file))
  BY DEF SplitAt
<1>5. \A j \in 1..m - 2 : front[j] = file[j + 1]
  <2>1. \A j \in 1..m - 2 : j \in 1..(m - 1) - 2 + 1 /\ 2 + j - 1 = j + 1
    OBVIOUS
  <2> QED
    BY <1>3, <1>4, <2>1
<1> QED
  BY <1>1, <1>2, <1>3, <1>4, <1>5

----------------------------------------------------------------------------
(* One key of the loop.                                                    *)
Grown(new, sk, key, v) ==
  /\ IsRecord(new)
  /\ new.field \in [scalarKeys -> Text]
  /\ \A k \in scalarKeys : new.field[k] = IF k = key THEN Said(key, v) ELSE sk.field[k]
  /\ new.Metadata = IF key = "metadata" THEN Meta(v) ELSE sk.Metadata
  /\ new.Extra = IF key \in knownKeys THEN sk.Extra ELSE Put(sk.Extra, key, Decoded(v))
  /\ new.shape = IF Misshapen(key, v) THEN sk.shape \cup {key} ELSE sk.shape
  /\ new.keys = sk.keys \cup {key}
  /\ new.Body = sk.Body

LEMMA AssignedIs ==
  ASSUME NEW sk, IsRecord(sk), NEW key, NEW v, IsValue(v),
         sk.field \in [scalarKeys -> Text],
         key \in scalarKeys => sk.field[key] = <<>>,
         key = "metadata" => sk.Metadata = <<>>,
         NEW new, new = [Assigned(sk, key, v) EXCEPT !.keys = @ \cup {key}]
  PROVE  Grown(new, sk, key, v)
<1> DEFINE got == Assigned(sk, key, v)
<1> USE DEF Grown
<1>1. IsRecord(got) =>
        /\ IsRecord(new)
        /\ new.field = got.field /\ new.Metadata = got.Metadata /\ new.Extra = got.Extra
        /\ new.shape = got.shape /\ new.Body = got.Body /\ new.keys = got.keys \cup {key}
  BY DEF IsRecord
<1>2. CASE key \in scalarKeys
  <2>1. got = scalar(sk, key, v)
    BY <1>2 DEF Assigned
  <2>2. key # "metadata" /\ key \in knownKeys
    BY <1>2 DEF scalarKeys
  <2>3. CASE v.kind # "scalar"
    <3>1. got = [sk EXCEPT !.shape = @ \cup {key}]
      BY <2>1, <2>3 DEF scalar
    <3>2. /\ IsRecord(got) /\ got.field = sk.field /\ got.Metadata = sk.Metadata
          /\ got.Extra = sk.Extra /\ got.Body = sk.Body /\ got.keys = sk.keys
          /\ got.shape = sk.shape \cup {key}
      BY <3>1 DEF IsRecord
    <3>3. Said(key, v) = <<>> /\ Misshapen(key, v)
      BY <1>2, <2>3 DEF Said, Misshapen
    <3> QED
      BY <1>1, <1>2, <2>2, <3>2, <3>3
  <2>4. CASE v.kind = "scalar"
    <3>1. got = [sk EXCEPT !.field[key] = Said(key, v)]
      BY <2>1, <2>4 DEF scalar, Said
    <3>2. /\ IsRecord(got) /\ got.field = [sk.field EXCEPT ![key] = Said(key, v)]
          /\ got.Metadata = sk.Metadata /\ got.shape = sk.shape
          /\ got.Extra = sk.Extra /\ got.Body = sk.Body /\ got.keys = sk.keys
      BY <3>1 DEF IsRecord
    <3>3. Said(key, v) \in Text /\ ~Misshapen(key, v)
      BY <2>2, <2>4, Trimmed DEF Said, Misshapen, IsValue
    <3> QED
      BY <1>1, <1>2, <2>2, <3>2, <3>3
  <2> QED
    BY <2>3, <2>4
<1>3. CASE key = "metadata"
  <2>1. key \notin scalarKeys /\ key \in knownKeys
    BY <1>3 DEF scalarKeys, knownKeys
  <2>2. got = metadata(sk, v)
    BY <1>3, <2>1 DEF Assigned
  <2>3. CASE v.kind # "map"
    <3>1. got = [sk EXCEPT !.shape = @ \cup {key}]
      BY <1>3, <2>2, <2>3 DEF metadata
    <3>2. /\ IsRecord(got) /\ got.field = sk.field /\ got.Metadata = sk.Metadata
          /\ got.Extra = sk.Extra /\ got.Body = sk.Body /\ got.keys = sk.keys
          /\ got.shape = sk.shape \cup {key}
      BY <3>1 DEF IsRecord
    <3>3. Meta(v) = <<>> /\ Misshapen(key, v)
      BY <1>3, <2>3 DEF Meta, Misshapen
    <3> QED
      BY <1>1, <1>3, <2>1, <3>2, <3>3
  <2>4. CASE v.kind = "map"
    <3>1. got = [sk EXCEPT !.Metadata = Meta(v),
                           !.shape = IF Misshapen(key, v) THEN @ \cup {key} ELSE @]
      BY <1>3, <2>1, <2>2, <2>4 DEF metadata, Meta, Misshapen
    <3>2. /\ IsRecord(got) /\ got.field = sk.field /\ got.Metadata = Meta(v)
          /\ got.Extra = sk.Extra /\ got.Body = sk.Body /\ got.keys = sk.keys
          /\ got.shape = IF Misshapen(key, v) THEN sk.shape \cup {key} ELSE sk.shape
      BY <3>1 DEF IsRecord
    <3> QED
      BY <1>1, <1>3, <2>1, <3>2
  <2> QED
    BY <2>3, <2>4
<1>4. CASE key \notin knownKeys
  <2>1. key \notin scalarKeys /\ key # "metadata"
    BY <1>4 DEF scalarKeys, knownKeys
  <2>2. got = [sk EXCEPT !.Extra = Put(sk.Extra, key, Decoded(v))]
    BY <2>1 DEF Assigned
  <2>3. /\ IsRecord(got) /\ got.field = sk.field /\ got.Metadata = sk.Metadata
        /\ got.Extra = Put(sk.Extra, key, Decoded(v)) /\ got.Body = sk.Body /\ got.keys = sk.keys
        /\ got.shape = sk.shape
    BY <2>2 DEF IsRecord
  <2>4. ~Misshapen(key, v)
    BY <2>1 DEF Misshapen
  <2> QED
    BY <1>1, <1>4, <2>1, <2>3, <2>4
<1> QED
  BY <1>2, <1>3, <1>4 DEF scalarKeys

Reading(sk, f, n) ==
  /\ AsRead(sk, f, n) /\ IsRecord(sk)
  /\ sk.field \in [scalarKeys -> Text] /\ sk.shape \subseteq sk.keys \cap knownKeys

NextKey(sk, f, n, key, v, new) ==
  /\ Reading(sk, f, n)
  /\ f[n + 1].kind = "entry" /\ f[n + 1].key = key /\ f[n + 1].value = v /\ IsValue(v)
  /\ key # NoScalar /\ key \notin sk.keys /\ (key \notin knownKeys => Decodes(v))
  /\ new = [Assigned(sk, key, v) EXCEPT !.keys = @ \cup {key}]

LEMMA ReadKey ==
  ASSUME NEW sk, NEW f, NEW n \in Nat, NEW key, NEW v, NEW new, NextKey(sk, f, n, key, v, new)
  PROVE  Reading(new, f, n + 1) /\ new.Body = sk.Body
<1>key. /\ IsRecord(sk) /\ AsRead(sk, f, n)
        /\ sk.field \in [scalarKeys -> Text] /\ sk.shape \subseteq sk.keys \cap knownKeys
        /\ f[n + 1].key = key /\ f[n + 1].value = v /\ f[n + 1].kind = "entry" /\ IsValue(v)
        /\ key # NoScalar /\ key \notin sk.keys /\ (key \notin knownKeys => Decodes(v))
        /\ new = [Assigned(sk, key, v) EXCEPT !.keys = @ \cup {key}]
  BY DEF NextKey, Reading
<1> USE <1>key
<1>1. key \in scalarKeys => sk.field[key] = <<>>
  BY DEF AsRead
<1>2. key = "metadata" => sk.Metadata = <<>>
  BY DEF AsRead
<1>0. Grown(new, sk, key, v)
  BY <1>1, <1>2, AssignedIs
<1>3. /\ IsRecord(new)
      /\ new.field \in [scalarKeys -> Text]
      /\ \A k \in scalarKeys : new.field[k] = IF k = key THEN Said(key, v) ELSE sk.field[k]
      /\ new.Metadata = IF key = "metadata" THEN Meta(v) ELSE sk.Metadata
      /\ new.Extra = IF key \in knownKeys THEN sk.Extra ELSE Put(sk.Extra, key, Decoded(v))
      /\ new.shape = IF Misshapen(key, v) THEN sk.shape \cup {key} ELSE sk.shape
      /\ new.keys = sk.keys \cup {key}
      /\ new.Body = sk.Body
  BY <1>0 DEF Grown
<1>4. /\ \A j \in 1..n : f[j].key \in sk.keys /\ f[j].key # key
      /\ \A j \in 1..n + 1 : j \in 1..n \/ j = n + 1
      /\ 1..n + 1 = 1..n \cup {n + 1}
  BY DEF AsRead
<1>5. DOMAIN sk.Extra = sk.keys \ knownKeys
  BY Zenon DEF AsRead
<1>6. key \notin knownKeys =>
        /\ new.Extra = [x \in DOMAIN sk.Extra \cup {key} |->
                          IF x = key THEN Decoded(v) ELSE sk.Extra[x]]
        /\ new.Extra[key] = Decoded(v)
        /\ \A k \in sk.keys \ knownKeys : new.Extra[k] = sk.Extra[k]
  BY <1>3, <1>5 DEF Put
<1>7. Misshapen(key, v) => key \in knownKeys
  BY DEF Misshapen, scalarKeys, knownKeys
<1>8. ASSUME NEW j \in 1..n
      PROVE  Made(new, f[j])
  <2>1. Made(sk, f[j]) /\ f[j].key # key /\ f[j].key \in sk.keys
    BY <1>4 DEF AsRead
  <2>2. f[j].key \in scalarKeys => new.field[f[j].key] = sk.field[f[j].key]
    BY <1>3, <2>1
  <2>3. f[j].key = "metadata" => new.Metadata = sk.Metadata
    BY <1>3, <2>1
  <2>4. f[j].key \notin knownKeys => new.Extra[f[j].key] = sk.Extra[f[j].key]
    BY <1>3, <1>6, <2>1
  <2>5. f[j].key \in new.shape <=> f[j].key \in sk.shape
    BY <1>3, <2>1
  <2> QED
    BY <2>1, <2>2, <2>3, <2>4, <2>5 DEF Made
<1>9. Made(new, f[n + 1])
  BY <1>3, <1>6 DEF Made
<1>10. \A j, k \in 1..n + 1 : f[k].key = f[j].key => k = j
  BY <1>4 DEF AsRead
<1>11. new.keys = {f[j].key : j \in 1..n + 1}
  <2>1. sk.keys = {f[j].key : j \in 1..n}
    BY DEF AsRead
  <2> QED
    BY <1>3, <1>4, <2>1
<1>12. \A k \in scalarKeys \ new.keys : new.field[k] = <<>>
  BY <1>3 DEF AsRead
<1>13. "metadata" \notin new.keys => new.Metadata = <<>>
  BY <1>3 DEF AsRead
<1>14. new.Extra = [k \in new.keys \ knownKeys |-> new.Extra[k]]
  <2>1. CASE key \in knownKeys
    <3>1. new.keys \ knownKeys = sk.keys \ knownKeys /\ new.Extra = sk.Extra
      BY <1>3, <2>1
    <3>2. sk.Extra = [k \in sk.keys \ knownKeys |-> sk.Extra[k]]
      BY Zenon DEF AsRead
    <3> QED
      BY <3>1, <3>2
  <2>2. CASE key \notin knownKeys
    <3>1. new.keys \ knownKeys = DOMAIN sk.Extra \cup {key}
      BY <1>3, <1>5, <2>2
    <3> QED
      BY <1>6, <2>2, <3>1
  <2> QED
    BY <2>1, <2>2
<1>15. AsRead(new, f, n + 1)
  <2>1. \A j \in 1..n + 1 : Made(new, f[j])
    BY <1>4, <1>8, <1>9
  <2> QED
    BY <1>10, <1>11, <1>12, <1>13, <1>14, <2>1 DEF AsRead
<1> QED
  BY <1>3, <1>7, <1>15 DEF Reading

(* The same of the entry that is next.                                     *)
With(sk, e) == [Assigned(sk, e.key, e.value) EXCEPT !.keys = @ \cup {e.key}]

LEMMA ReadOn ==
  ASSUME NEW sk, NEW f, NEW n \in Nat, Reading(sk, f, n), NEW e, e = f[n + 1],
         e.kind = "entry", IsValue(e.value), e.key # NoScalar, e.key \notin sk.keys,
         e.key \notin knownKeys => Decodes(e.value)
  PROVE  Reading(With(sk, e), f, n + 1) /\ With(sk, e).Body = sk.Body
<1>1. PICK key : key = e.key
  OBVIOUS
<1>2. PICK v : v = e.value
  OBVIOUS
<1>3. PICK new : new = With(sk, e)
  OBVIOUS
<1>4. NextKey(sk, f, n, key, v, new)
  BY <1>1, <1>2, <1>3 DEF NextKey, With
<1>5. Reading(new, f, n + 1) /\ new.Body = sk.Body
  BY <1>4, ReadKey
<1> QED
  BY <1>3, <1>5

----------------------------------------------------------------------------
(* A skill that was read whole.                                            *)
LEMMA FiniteImage ==
  ASSUME NEW D, IsFiniteSet(D), NEW h
  PROVE  IsFiniteSet({h[x] : x \in D})
<1> DEFINE T == {h[x] : x \in D}
           g == [x \in D |-> h[x]]
<1>1. g \in Surjection(D, T)
  BY DEF Surjection
<1> QED
  BY <1>1, FS_Surjection

LEMMA EmptyFunction ==
  <<>> = [k \in DOMAIN <<>> |-> <<>>[k]] /\ DOMAIN <<>> = {} /\ IsFiniteSet(DOMAIN <<>>)
BY FS_EmptySet

LEMMA TrimEmpty == Trim(<<>>) = <<>>
<1>1. Solid(<<>>) = {}
  BY DEF Solid
<1> QED
  BY <1>1, TrimIs

(* The pairs of metadata.                                                  *)
LEMMA MetaIs ==
  ASSUME NEW v, IsValue(v)
  PROVE  /\ Meta(v) = [k \in DOMAIN Meta(v) |-> Meta(v)[k]]
         /\ IsFiniteSet(DOMAIN Meta(v))
         /\ NoScalar \notin DOMAIN Meta(v)
<1>1. CASE v.kind # "map"
  <2>1. Meta(v) = <<>>
    BY <1>1 DEF Meta
  <2> QED
    BY <2>1, EmptyFunction
<1>2. CASE v.kind = "map"
  <2> DEFINE pairs == v.pairs
             good == Strings(pairs)
             h == [j \in good |-> pairs[j][1]]
  <2>1. Meta(v) = StringPairs(pairs)
    BY <1>2 DEF Meta
  <2>2. /\ DOMAIN StringPairs(pairs) = {pairs[j][1] : j \in good}
        /\ StringPairs(pairs) = [k \in DOMAIN StringPairs(pairs) |-> StringPairs(pairs)[k]]
    BY DEF StringPairs
  <2>3. pairs \in Seq(Range(pairs))
    BY <1>2 DEF IsValue, IsSequence
  <2>4. IsFiniteSet(good)
    <3>1. Len(pairs) \in Nat /\ DOMAIN pairs = 1..Len(pairs)
      BY <2>3
    <3>2. IsFiniteSet(1..Len(pairs))
      <4>1. 1 \in Int /\ Len(pairs) \in Int
        BY <3>1
      <4> HIDE DEF pairs
      <4> QED
        BY <4>1, FS_Interval
    <3>3. good \in SUBSET DOMAIN pairs
      BY DEF Strings
    <3> QED
      BY <3>1, <3>2, <3>3, FS_Subset
  <2>5. {pairs[j][1] : j \in good} = {h[j] : j \in good}
    OBVIOUS
  <2>6. IsFiniteSet({h[j] : j \in good})
    BY <2>4, FiniteImage
  <2>7. \A j \in good : pairs[j][1] # NoScalar
    BY DEF Strings
  <2> HIDE DEF pairs, good, h
  <2> QED
    BY <2>1, <2>2, <2>5, <2>6, <2>7
<1> QED
  BY <1>1, <1>2

(* A finite set as a sequence.                                             *)
LEMMA Listed ==
  ASSUME NEW D, IsFiniteSet(D)
  PROVE  LET ks == SetToSeq(D)
         IN /\ DOMAIN ks = 1..Cardinality(D) /\ Cardinality(D) \in Nat
            /\ ks \in [1..Cardinality(D) -> D]
            /\ \A i, j \in DOMAIN ks : ks[i] = ks[j] => i = j
            /\ \A k \in D : \E j \in DOMAIN ks : ks[j] = k
<1> DEFINE n == Cardinality(D)
           ks == SetToSeq(D)
<1>1. n \in Nat /\ ExistsBijection(1..n, D)
  BY FS_CardinalityType
<1>2. \E g \in [1..n -> D] : IsInjective(g)
  BY <1>1 DEF ExistsBijection, Bijection, Injection
<1>3. ks \in [1..n -> D] /\ IsInjective(ks)
  BY <1>2, Zenon DEF SetToSeq
<1>4. \A k \in D : \E j \in 1..n : ks[j] = k
  <2> DEFINE T == {ks[j] : j \in 1..n}
  <2>1. T \in SUBSET D /\ ks \in Surjection(1..n, T) /\ ks \in Injection(1..n, T)
    BY <1>3 DEF Surjection, Injection
  <2>2. IsFiniteSet(1..n) /\ Cardinality(1..n) = n
    BY <1>1, FS_Interval
  <2>3. Cardinality(T) = Cardinality(D)
    <3> HIDE DEF T
    <3> QED
      BY <2>1, <2>2, FS_Surjection
  <2>4. T = D
    <3> HIDE DEF T
    <3> QED
      BY <2>1, <2>3, FS_Subset
  <2> QED
    BY <2>4
<1> HIDE DEF n, ks
<1> QED
  BY <1>1, <1>3, <1>4 DEF IsInjective, n, ks

(* What is decoded, written and decoded again.                             *)
LEMMA PlainIs ==
  ASSUME NEW v
  PROVE  /\ IsGoPlain(DecodedPlain(v))
         /\ v.kind # "scalar" => DecodedPlain(v) = List
         /\ v.kind = "scalar" => DecodedPlain(v).kind = "scalar" /\ DecodedPlain(v).text = v.text
<1>1. CASE v.kind # "scalar"
  BY <1>1 DEF DecodedPlain, IsGoPlain
<1>2. CASE v.kind = "scalar"
  <2> DEFINE d == DecodedPlain(v)
             go == IF v.form = "word" THEN "string"
                   ELSE IF v.form = "digits" THEN "int" ELSE "float64"
             whole == v.form \in {"digits", "zeroes"}
  <2>1. d = [kind |-> "scalar", text |-> v.text, whole |-> whole, go |-> go]
    BY <1>2 DEF DecodedPlain
  <2>2. \/ go = "string" /\ whole = FALSE
        \/ go = "int" /\ whole = TRUE
        \/ go = "float64" /\ whole \in BOOLEAN
    OBVIOUS
  <2> HIDE DEF d, go, whole
  <2>3. d.kind = "scalar" /\ d.text = v.text /\ d.whole = whole /\ d.go = go
    BY <2>1
  <2>4. IsGoPlain(d)
    BY <2>1, <2>2, <2>3 DEF IsGoPlain
  <2> QED
    BY <1>2, <2>3, <2>4 DEF d
<1> QED
  BY <1>1, <1>2

LEMMA DecodedIs ==
  ASSUME NEW v, IsValue(v), Decodes(v)
  PROVE  IsGo(Decoded(v))
<1>1. CASE v.kind # "map"
  <2>1. Decoded(v) = DecodedPlain(v)
    BY <1>1 DEF Decoded
  <2>2. DecodedPlain(v).kind = "scalar" => DecodedPlain(v).text \in Text
    BY PlainIs DEF IsValue, List
  <2> QED
    BY <2>1, <2>2, PlainIs DEF IsGo
<1>2. CASE v.kind = "map"
  <2> DEFINE pairs == v.pairs
             K == {pairs[j][1] : j \in DOMAIN pairs}
             h == [j \in DOMAIN pairs |-> pairs[j][1]]
             first(k) == CHOOSE j \in DOMAIN pairs : pairs[j][1] = k
             held == [k \in K |-> DecodedPlain(pairs[first(k)][2])]
  <2>1. Decoded(v) = [kind |-> "map", held |-> held]
    BY <1>2, Zenon DEF Decoded
  <2>2. IsFiniteSet(K)
    <3>1. pairs \in Seq(Range(pairs))
      BY <1>2 DEF IsValue, IsSequence
    <3>2. Len(pairs) \in Nat /\ DOMAIN pairs = 1..Len(pairs)
      BY <3>1
    <3>3. IsFiniteSet(DOMAIN pairs)
      <4>1. 1 \in Int /\ Len(pairs) \in Int
        BY <3>2
      <4> HIDE DEF pairs
      <4> QED
        BY <3>2, <4>1, FS_Interval
    <3>4. K = {h[j] : j \in DOMAIN pairs}
      OBVIOUS
    <3> HIDE DEF h, K, pairs
    <3> QED
      BY <3>3, <3>4, FiniteImage
  <2>3. NoScalar \notin K
    BY <1>2 DEF Decodes
  <2>4. \A k \in K : IsGoPlain(held[k])
    BY PlainIs
  <2> HIDE DEF K, held
  <2>5. DOMAIN held = K
    BY DEF held
  <2> QED
    BY <2>1, <2>2, <2>3, <2>4, <2>5 DEF IsGo, IsGoMap
<1> QED
  BY <1>1, <1>2

LEMMA PlainSettles ==
  ASSUME NEW d, IsGoPlain(d)
  PROVE  /\ SameScalar(DecodedPlain(ReencodedPlain(d)), d)
         /\ ReencodedPlain(d).kind \in {"scalar", "list"} /\ d.kind \in {"scalar", "list"}
         /\ ReencodedPlain(d).kind = "scalar" => d.kind = "scalar" /\ ReencodedPlain(d).text = d.text
<1>1. CASE d = List
  BY <1>1 DEF ReencodedPlain, DecodedPlain, SameScalar, List
<1>2. CASE d # List
  <2>1. /\ d = [kind |-> "scalar", text |-> d.text, whole |-> d.whole, go |-> d.go]
        /\ \/ d.go = "string" /\ d.whole = FALSE
           \/ d.go = "int" /\ d.whole = TRUE
           \/ d.go = "float64" /\ d.whole \in BOOLEAN
    BY <1>2 DEF IsGoPlain
  <2>2. d.kind = "scalar"
    BY <2>1
  <2> DEFINE form == IF d.go = "string" THEN "word" ELSE IF d.whole THEN "digits" ELSE "fraction"
             e == ReencodedPlain(d)
  <2>3. e = [kind |-> "scalar", text |-> d.text, form |-> form]
    BY <2>2 DEF ReencodedPlain, ScalarOf
  <2> HIDE DEF e, form
  <2>4. e.kind = "scalar" /\ e.text = d.text /\ e.form = form
    BY <2>3
  <2>5. DecodedPlain(e) =
          [kind |-> "scalar", text |-> d.text, whole |-> form \in {"digits", "zeroes"},
           go |-> IF form = "word" THEN "string" ELSE IF form = "digits" THEN "int" ELSE "float64"]
    BY <2>4 DEF DecodedPlain
  <2>6. SameScalar(DecodedPlain(e), d)
    <3>1. CASE d.go = "string"
      <4>0. form = "word" /\ (form \in {"digits", "zeroes"}) = FALSE /\ d.whole = FALSE
        BY <2>1, <3>1 DEF form
      <4>1. DecodedPlain(e) = [kind |-> "scalar", text |-> d.text, whole |-> d.whole, go |-> d.go]
        BY <2>5, <3>1, <4>0
      <4> QED
        BY <2>1, <4>1 DEF SameScalar
    <3>2. CASE d.go = "int"
      <4>1. DecodedPlain(e) = [kind |-> "scalar", text |-> d.text, whole |-> d.whole, go |-> d.go]
        BY <2>1, <2>5, <3>2 DEF form
      <4> QED
        BY <2>1, <4>1 DEF SameScalar
    <3>3. CASE d.go = "float64" /\ d.whole = FALSE
      <4>1. DecodedPlain(e) = [kind |-> "scalar", text |-> d.text, whole |-> d.whole, go |-> d.go]
        BY <2>1, <2>5, <3>3 DEF form
      <4> QED
        BY <2>1, <4>1 DEF SameScalar
    <3>4. CASE d.go = "float64" /\ d.whole = TRUE
      <4>1. DecodedPlain(e) = [kind |-> "scalar", text |-> d.text, whole |-> d.whole, go |-> "int"]
        BY <2>1, <2>5, <3>4 DEF form
      <4>2. [d EXCEPT !.go = "int"] =
              [kind |-> "scalar", text |-> d.text, whole |-> d.whole, go |-> "int"]
        BY <2>1
      <4> QED
        BY <2>2, <3>4, <4>1, <4>2 DEF SameScalar
    <3> QED
      BY <2>1, <3>1, <3>2, <3>3, <3>4
  <2> QED
    BY <2>2, <2>4, <2>6 DEF e
<1> QED
  BY <1>1, <1>2

(* What is written of a decoded value decodes to the same, but for the     *)
(* float64 that has become an int.                                         *)
LEMMA Settles ==
  ASSUME NEW d, IsGo(d)
  PROVE  /\ IsValue(Reencoded(d)) /\ Decodes(Reencoded(d))
         /\ SameValue(Decoded(Reencoded(d)), d)
<1>1. CASE d.kind # "map"
  <2>1. IsGoPlain(d) /\ (d.kind = "scalar" => d.text \in Text)
    BY <1>1 DEF IsGo, IsGoMap
  <2>2. PICK e : e = Reencoded(d)
    OBVIOUS
  <2>3. e = ReencodedPlain(d)
    BY <1>1, <2>2 DEF Reencoded
  <2>4. e.kind \in {"scalar", "list"} /\ (e.kind = "scalar" => e.text \in Text)
    BY <2>1, <2>3, PlainSettles
  <2>5. Decoded(e) = DecodedPlain(e)
    BY <2>4 DEF Decoded
  <2>6. SameValue(Decoded(e), d)
    BY <1>1, <2>1, <2>3, <2>5, PlainSettles DEF SameValue
  <2> QED
    BY <2>2, <2>4, <2>6 DEF IsValue, Decodes
<1>2. CASE d.kind = "map"
  <2> DEFINE H == d.held
             D == DOMAIN H
             ks == SetToSeq(D)
             n == Cardinality(D)
  <2>0. PICK e : e = Reencoded(d)
    OBVIOUS
  <2> DEFINE pairs == e.pairs
             first(k) == CHOOSE j \in DOMAIN pairs : pairs[j][1] = k
  <2>1. e = Mapping([j \in DOMAIN ks |-> <<ks[j], ReencodedPlain(H[ks[j]])>>])
    BY <1>2, <2>0, Zenon DEF Reencoded
  <2>2. /\ IsFiniteSet(D) /\ NoScalar \notin D /\ \A k \in D : IsGoPlain(H[k])
    BY <1>2, PlainSettles DEF IsGo, IsGoMap
  <2>3. /\ DOMAIN ks = 1..n /\ n \in Nat
        /\ ks \in [1..n -> D]
        /\ \A i, j \in DOMAIN ks : ks[i] = ks[j] => i = j
        /\ \A k \in D : \E j \in DOMAIN ks : ks[j] = k
    <3> HIDE DEF D
    <3> QED
      BY <2>2, Listed
  <2>4. e.kind = "map" /\ pairs = [j \in DOMAIN ks |-> <<ks[j], ReencodedPlain(H[ks[j]])>>]
    BY <2>1 DEF Mapping
  <2> HIDE DEF ks, n, D, H
  <2>5. /\ DOMAIN pairs = 1..n
        /\ \A j \in 1..n : /\ pairs[j][1] = ks[j] /\ ks[j] \in D
                            /\ pairs[j][2] = ReencodedPlain(H[ks[j]])
    BY <2>3, <2>4
  <2>6. pairs \in Seq({pairs[j] : j \in 1..n})
    BY <2>3, <2>4, <2>5
  <2>7. IsSequence(pairs)
    BY <2>6, Sequential
  <2>8. IsValue(e)
    BY <2>4, <2>7 DEF IsValue
  <2>9. Decodes(e)
    <3>1. ~Repeats(pairs)
      BY <2>3, <2>5 DEF Repeats
    <3>2. \A j \in DOMAIN pairs : pairs[j][1] # NoScalar
      BY <2>2, <2>5
    <3> QED
      BY <2>4, <3>1, <3>2 DEF Decodes
  <2>10. {pairs[j][1] : j \in DOMAIN pairs} = D
    BY <2>3, <2>5
  <2>11. Decoded(e) = [kind |-> "map", held |-> [k \in D |-> DecodedPlain(pairs[first(k)][2])]]
    <3>1. Decoded(e) = [kind |-> "map", held |->
                          [k \in {pairs[j][1] : j \in DOMAIN pairs} |->
                             DecodedPlain(pairs[first(k)][2])]]
      BY <2>4, Zenon DEF Decoded
    <3> HIDE DEF first
    <3> QED
      BY <2>10, <3>1
  <2>12. ASSUME NEW k \in D
         PROVE  SameScalar(DecodedPlain(pairs[first(k)][2]), H[k])
    <3>1. \E j \in DOMAIN pairs : pairs[j][1] = k
      BY <2>10
    <3>2. first(k) \in DOMAIN pairs /\ pairs[first(k)][1] = k
      BY <3>1
    <3> HIDE DEF first
    <3>3. pairs[first(k)][2] = ReencodedPlain(H[k])
      BY <2>5, <3>2
    <3> QED
      BY <2>2, <3>3, PlainSettles
  <2> HIDE DEF first
  <2>13. SameValue(Decoded(e), d)
    <3> DEFINE held == [k \in D |-> DecodedPlain(pairs[first(k)][2])]
    <3>1. DOMAIN held = D /\ \A k \in D : SameScalar(held[k], H[k])
      BY <2>12
    <3> HIDE DEF held
    <3>2. Decoded(e).kind = "map" /\ Decoded(e).held = held
      BY <2>11 DEF held
    <3> QED
      BY <1>2, <3>1, <3>2 DEF SameValue, D, H
  <2> QED
    BY <2>0, <2>8, <2>9, <2>13
<1> QED
  BY <1>1, <1>2

(* Of the pairs of one key the last stands.                                *)
LEMMA LastStands ==
  ASSUME NEW v, IsValue(v), v.kind = "map", Strings(v.pairs) = DOMAIN v.pairs
  PROVE  /\ DOMAIN StringPairs(v.pairs) = {v.pairs[x][1] : x \in DOMAIN v.pairs}
         /\ \A x \in DOMAIN v.pairs :
              \/ StringPairs(v.pairs)[v.pairs[x][1]] = v.pairs[x][2].text
              \/ \E y \in DOMAIN v.pairs : x < y /\ v.pairs[y][1] = v.pairs[x][1]
<1> DEFINE q == v.pairs
           last(k) == CHOOSE j \in Strings(q) :
                        /\ q[j][1] = k
                        /\ \A x \in Strings(q) : q[x][1] = k => x <= j
<1>1. StringPairs(q) = [k \in {q[j][1] : j \in Strings(q)} |-> q[last(k)][2].text]
  BY Zenon DEF StringPairs
<1>2. Len(q) \in Nat /\ DOMAIN q = 1..Len(q)
  BY DEF IsValue, IsSequence
<1>3. Strings(q) = DOMAIN q
  OBVIOUS
<1> HIDE DEF q
<1>4. ASSUME NEW x \in DOMAIN q, NEW k, k = q[x][1]
      PROVE  /\ last(k) \in DOMAIN q /\ q[last(k)][1] = k /\ x <= last(k)
  <2> DEFINE T == {j \in DOMAIN q : q[j][1] = k}
  <2>1. T \in SUBSET Nat /\ T # {} /\ \A j \in T : j <= Len(q)
    BY <1>2, <1>4
  <2>2. \E j \in T : \A i \in T : i <= j
    <3> HIDE DEF T
    <3> QED
      BY <1>2, <2>1, Greatest
  <2>3. \E j \in Strings(q) : q[j][1] = k /\ \A i \in Strings(q) : q[i][1] = k => i <= j
    BY <1>3, <2>2
  <2>4. /\ last(k) \in Strings(q) /\ q[last(k)][1] = k
        /\ \A i \in Strings(q) : q[i][1] = k => i <= last(k)
    <3> HIDE DEF T
    <3> QED
      BY <2>3, Zenon
  <2> HIDE DEF last
  <2> QED
    BY <1>3, <1>4, <2>4
<1> HIDE DEF last
<1>5. ASSUME NEW x \in DOMAIN q
      PROVE  \/ StringPairs(q)[q[x][1]] = q[x][2].text
             \/ \E y \in DOMAIN q : x < y /\ q[y][1] = q[x][1]
  <2>1. PICK k : k = q[x][1]
    OBVIOUS
  <2>2. StringPairs(q)[k] = q[last(k)][2].text
    BY <1>1, <1>3, <2>1
  <2>3. last(k) \in DOMAIN q /\ q[last(k)][1] = k /\ x <= last(k)
    BY <1>4, <2>1
  <2>4. last(k) = x \/ x < last(k)
    BY <1>2, <2>3
  <2> QED
    BY <2>1, <2>2, <2>3, <2>4
<1>6. DOMAIN StringPairs(q) = {q[x][1] : x \in DOMAIN q}
  BY <1>1, <1>3
<1> QED
  BY <1>5, <1>6 DEF q

LEMMA ReadWhole ==
  ASSUME NEW sk, NEW f, IsFile(f), IsRecord(sk), IsFile(sk.Body),
         sk.field \in [scalarKeys -> Text], sk.shape \subseteq sk.keys \cap knownKeys,
         AsRead(sk, f, Len(f))
  PROVE  IsSkill(sk) /\ Fielded(sk)
<1> DEFINE n == Len(f)
<1>1. n \in Nat /\ \A j \in 1..n : f[j].kind = "entry" => IsValue(f[j].value)
  BY Lines
<1>2. /\ \A j \in 1..n : Made(sk, f[j])
      /\ \A key \in sk.keys : \E j \in 1..n : f[j].key = key
  BY DEF AsRead
<1>3. \A j \in 1..n : IsValue(f[j].value)
  BY <1>1, <1>2 DEF Made
<1>4. Fielded(sk)
  <2>1. ASSUME NEW key \in scalarKeys, key \in sk.shape
        PROVE  sk.field[key] = <<>>
    <3>1. PICK j \in 1..n : f[j].key = key
      BY <1>2, <2>1
    <3>2. Misshapen(key, f[j].value) /\ sk.field[key] = Said(key, f[j].value)
      BY <1>2, <2>1, <3>1 DEF Made
    <3>3. f[j].value.kind # "scalar"
      BY <2>1, <3>2 DEF Misshapen, scalarKeys
    <3> QED
      BY <3>2, <3>3 DEF Said
  <2>2. \A key \in scalarKeys : key \notin sk.keys => sk.field[key] = <<>>
    BY DEF AsRead
  <2> QED
    BY <2>1, <2>2 DEF Fielded
<1>5. ASSUME NEW key \in trimmedKeys
      PROVE  Trim(sk.field[key]) = sk.field[key]
  <2>1. key \in scalarKeys
    BY DEF trimmedKeys, scalarKeys, knownKeys
  <2>2. CASE key \notin sk.keys
    BY <2>1, <2>2, TrimEmpty DEF AsRead
  <2>3. CASE key \in sk.keys
    <3>1. PICK j \in 1..n : f[j].key = key
      BY <1>2, <2>3
    <3>2. sk.field[key] = Said(key, f[j].value) /\ IsValue(f[j].value)
      BY <1>2, <1>3, <2>1, <3>1 DEF Made
    <3> QED
      BY <3>2, Trimmed, TrimEmpty DEF Said, IsValue
  <2> QED
    BY <2>2, <2>3
<1>6. /\ sk.Metadata = [k \in DOMAIN sk.Metadata |-> sk.Metadata[k]]
      /\ IsFiniteSet(DOMAIN sk.Metadata) /\ NoScalar \notin DOMAIN sk.Metadata
  <2>1. CASE "metadata" \notin sk.keys
    <3>1. sk.Metadata = <<>>
      BY <2>1 DEF AsRead
    <3> QED
      BY <3>1, EmptyFunction
  <2>2. CASE "metadata" \in sk.keys
    <3>1. PICK j \in 1..n : f[j].key = "metadata"
      BY <1>2, <2>2
    <3>2. sk.Metadata = Meta(f[j].value) /\ IsValue(f[j].value)
      BY <1>2, <1>3, <3>1 DEF Made
    <3> QED
      BY <3>2, MetaIs
  <2> QED
    BY <2>1, <2>2
<1>7. /\ DOMAIN sk.Extra = sk.keys \ knownKeys
      /\ sk.Extra = [k \in DOMAIN sk.Extra |-> sk.Extra[k]]
  BY Zenon DEF AsRead
<1>8. IsFiniteSet(DOMAIN sk.Extra)
  <2> DEFINE h == [j \in 1..n |-> f[j].key]
  <2>1. sk.keys = {h[j] : j \in 1..n}
    BY DEF AsRead
  <2>2. IsFiniteSet(1..n)
    BY <1>1, FS_Interval
  <2> HIDE DEF h, n
  <2>3. IsFiniteSet({h[j] : j \in 1..n})
    BY <2>2, FiniteImage
  <2> QED
    BY <1>7, <2>1, <2>3, FS_Subset
<1>9. \A k \in DOMAIN sk.Extra :
        IsGo(sk.Extra[k]) /\ k # NoScalar /\ k \notin knownKeys
  <2>1. ASSUME NEW k \in DOMAIN sk.Extra
        PROVE  IsGo(sk.Extra[k]) /\ k # NoScalar /\ k \notin knownKeys
    <3>1. PICK j \in 1..n : f[j].key = k
      BY <1>2, <1>7
    <3>2. PICK e : e = f[j]
      OBVIOUS
    <3>3. Made(sk, e) /\ IsValue(e.value) /\ e.key = k
      BY <1>2, <1>3, <3>1, <3>2
    <3>4. k \notin knownKeys
      BY <1>7
    <3>5. sk.Extra[k] = Decoded(e.value) /\ Decodes(e.value) /\ k # NoScalar
      BY <3>3, <3>4 DEF Made
    <3> QED
      BY <3>3, <3>4, <3>5, DecodedIs
  <2> QED
    BY <2>1
<1>10. DOMAIN sk.Extra \cap (knownKeys \cup {NoScalar}) = {}
  BY <1>9
<1> QED
  BY <1>4, <1>5, <1>6, <1>7, <1>8, <1>9, <1>10 DEF IsSkill, Fielded

----------------------------------------------------------------------------
(* What Encode writes of a skill.  A block is a sequence of entries, one   *)
(* of each of the keys in K.                                               *)
ToPairs(sk) ==
  LET ks == SetToSeq(DOMAIN sk.Metadata)
  IN [j \in DOMAIN ks |-> <<ks[j], Scalar(sk.Metadata[ks[j]])>>]

ValueOf(sk, key) ==
  IF key \in scalarKeys THEN Scalar(sk.field[key])
  ELSE IF key = "metadata" THEN Mapping(ToPairs(sk)) ELSE Reencoded(sk.Extra[key])

Writings(sk, K) == {Entry(key, ValueOf(sk, key)) : key \in K}

Block(sk, q, K) ==
  /\ q \in Seq(Writings(sk, K))
  /\ \A i, j \in 1..Len(q) : q[i].key = q[j].key => i = j
  /\ \A key \in K : \E j \in 1..Len(q) : q[j].key = key

Written(sk) ==
  {"name", "description"}
  \cup {key \in {"license", "compatibility", "allowed-tools"} : sk.field[key] # <<>>}
  \cup {key \in {"metadata"} : DOMAIN sk.Metadata # {}}
  \cup DOMAIN sk.Extra

LEMMA Entries ==
  ASSUME NEW sk, NEW q, NEW K, Block(sk, q, K), NEW j \in 1..Len(q)
  PROVE  /\ q[j].key \in K /\ q[j].kind = "entry"
         /\ q[j].value = ValueOf(sk, q[j].key)
<1>1. q[j] \in Writings(sk, K)
  BY DEF Block
<1> QED
  BY <1>1 DEF Writings, Entry

LEMMA Joined ==
  ASSUME NEW sk, NEW p, NEW q, NEW K, NEW L,
         Block(sk, p, K), Block(sk, q, L), K \cap L = {}
  PROVE  Block(sk, p \o q, K \cup L)
<1> DEFINE W == Writings(sk, K \cup L)
           r == p \o q
           m == Len(p)
           n == Len(q)
<1>1. p \in Seq(W) /\ q \in Seq(W) /\ m \in Nat /\ n \in Nat
  <2>1. Writings(sk, K) \subseteq W /\ Writings(sk, L) \subseteq W
    BY DEF Writings
  <2>2. p \in Seq(Writings(sk, K)) /\ q \in Seq(Writings(sk, L))
    BY DEF Block
  <2> HIDE DEF W
  <2> QED
    BY <2>1, <2>2, SeqMonotonic
<1>2. /\ r \in Seq(W) /\ Len(r) = m + n
      /\ \A i \in 1..m + n : r[i] = IF i <= m THEN p[i] ELSE q[i - m]
  BY <1>1, ConcatProperties, Zenon
<1> HIDE DEF r
<1>3. \A i \in 1..m + n : i \in 1..m \/ (~(i <= m) /\ i - m \in 1..n)
  BY <1>1
<1>4. /\ \A i \in 1..m : p[i].key \in K
      /\ \A i \in 1..n : q[i].key \in L
  BY Entries
<1>5. /\ \A i, j \in 1..m : p[i].key = p[j].key => i = j
      /\ \A i, j \in 1..n : q[i].key = q[j].key => i = j
  BY DEF Block
<1>6. ASSUME NEW i \in 1..m + n, NEW j \in 1..m + n, r[i].key = r[j].key
      PROVE  i = j
  <2>1. CASE i \in 1..m
    <3>1. r[i] = p[i] /\ r[i].key \in K
      BY <1>1, <1>2, <1>4, <2>1
    <3>2. j \in 1..m
      BY <1>2, <1>3, <1>4, <1>6, <3>1
    <3>3. r[j] = p[j]
      BY <1>1, <1>2, <3>2
    <3> QED
      BY <1>5, <1>6, <2>1, <3>1, <3>2, <3>3
  <2>2. CASE ~(i <= m) /\ i - m \in 1..n
    <3>1. r[i] = q[i - m] /\ r[i].key \in L
      BY <1>2, <1>4, <2>2
    <3>2. ~(j <= m) /\ j - m \in 1..n
      <4>1. j \notin 1..m
        BY <1>1, <1>2, <1>4, <1>6, <3>1
      <4> QED
        BY <1>3, <4>1
    <3>3. r[j] = q[j - m]
      BY <1>2, <3>2
    <3>4. i - m = j - m
      BY <1>5, <1>6, <2>2, <3>1, <3>2, <3>3
    <3> QED
      BY <1>1, <3>4
  <2> QED
    BY <1>3, <2>1, <2>2
<1>7. ASSUME NEW key \in K \cup L
      PROVE  \E j \in 1..m + n : r[j].key = key
  <2>1. CASE key \in K
    <3>1. PICK j \in 1..m : p[j].key = key
      BY <2>1 DEF Block
    <3>2. j \in 1..m + n /\ j <= m
      BY <1>1, <3>1
    <3> QED
      BY <1>2, <3>1, <3>2
  <2>2. CASE key \in L
    <3>1. PICK j \in 1..n : q[j].key = key
      BY <2>2 DEF Block
    <3>2. m + j \in 1..m + n /\ ~(m + j <= m) /\ (m + j) - m = j
      BY <1>1, <3>1
    <3>3. r[m + j] = q[j]
      BY <1>2, <3>2
    <3> QED
      BY <3>1, <3>2, <3>3
  <2> QED
    BY <2>1, <2>2
<1> QED
  BY <1>2, <1>6, <1>7 DEF Block, r

LEMMA Alone ==
  ASSUME NEW sk, NEW key
  PROVE  Block(sk, <<Entry(key, ValueOf(sk, key))>>, {key})
<1> DEFINE e == Entry(key, ValueOf(sk, key))
<1>1. e.key = key /\ e \in Writings(sk, {key})
  BY DEF Entry, Writings
<1> HIDE DEF e
<1>2. <<e>> \in Seq(Writings(sk, {key})) /\ Len(<<e>>) = 1 /\ <<e>>[1] = e
  BY <1>1
<1>3. \A i \in 1..1 : i = 1
  OBVIOUS
<1> QED
  BY <1>1, <1>2, <1>3 DEF Block, e

LEMMA Two ==
  ASSUME NEW x, NEW y
  PROVE  <<x>> \o <<y>> = <<x, y>>
<1> DEFINE S == {x, y}
           p == <<x>>
           q == <<y>>
           r == <<x, y>>
<1>1. /\ p \in Seq(S) /\ Len(p) = 1 /\ p[1] = x
      /\ q \in Seq(S) /\ Len(q) = 1 /\ q[1] = y
      /\ r \in Seq(S) /\ Len(r) = 2 /\ r[1] = x /\ r[2] = y
  OBVIOUS
<1> HIDE DEF S, p, q, r
<1>2. /\ p \o q \in Seq(S) /\ Len(p \o q) = Len(p) + Len(q)
      /\ \A i \in 1..Len(p) + Len(q) : (p \o q)[i] = IF i <= Len(p) THEN p[i] ELSE q[i - Len(p)]
  BY <1>1, ConcatProperties, Zenon
<1>3. (p \o q)[1] = x /\ (p \o q)[2] = y /\ Len(p \o q) = 2
  BY <1>1, <1>2
<1>4. \A i \in 1..2 : i = 1 \/ i = 2
  OBVIOUS
<1>5. p \o q = r
  BY <1>1, <1>2, <1>3, <1>4, SeqEqual
<1> QED
  BY <1>5 DEF p, q, r

LEMMA NoBlock == ASSUME NEW sk PROVE Block(sk, <<>>, {})
BY DEF Block

LEMMA ExtraBlock ==
  ASSUME NEW sk, IsSkill(sk)
  PROVE  Block(sk, ExtraEntries(sk), DOMAIN sk.Extra)
<1> DEFINE D == DOMAIN sk.Extra
           ks == SetToSeq(D)
           q == ExtraEntries(sk)
           n == Cardinality(D)
<1>1. /\ DOMAIN ks = 1..n /\ n \in Nat
      /\ ks \in [1..n -> D]
      /\ \A i, j \in DOMAIN ks : ks[i] = ks[j] => i = j
      /\ \A k \in D : \E j \in DOMAIN ks : ks[j] = k
  BY Listed DEF IsSkill
<1>2. q = [j \in DOMAIN ks |-> Entry(ks[j], Reencoded(sk.Extra[ks[j]]))]
  BY DEF ExtraEntries
<1>3. \A k \in D : ValueOf(sk, k) = Reencoded(sk.Extra[k])
  BY DEF IsSkill, ValueOf, scalarKeys, knownKeys
<1> HIDE DEF D, ks, q, n
<1>4. \A j \in 1..n : /\ q[j] = Entry(ks[j], ValueOf(sk, ks[j]))
                      /\ q[j].key = ks[j] /\ q[j] \in Writings(sk, D)
  BY <1>1, <1>2, <1>3 DEF Entry, Writings
<1>5. q \in [1..n -> Writings(sk, D)]
  BY <1>1, <1>2, <1>4
<1>6. q \in Seq(Writings(sk, D)) /\ Len(q) = n
  BY <1>1, <1>5
<1>7. Block(sk, q, D)
  BY <1>1, <1>4, <1>6 DEF Block
<1> QED
  BY <1>7 DEF D, q

LEMMA GivenBlock ==
  ASSUME NEW sk, NEW key \in scalarKeys
  PROVE  Block(sk, Given(sk, key), {k \in {key} : sk.field[k] # <<>>})
<1>1. CASE sk.field[key] = <<>>
  <2>1. Given(sk, key) = <<>> /\ {k \in {key} : sk.field[k] # <<>>} = {}
    BY <1>1 DEF Given
  <2> QED
    BY <2>1, NoBlock
<1>2. CASE sk.field[key] # <<>>
  <2>1. Given(sk, key) = <<Entry(key, ValueOf(sk, key))>>
    BY <1>2 DEF Given, ValueOf
  <2>2. {k \in {key} : sk.field[k] # <<>>} = {key}
    BY <1>2
  <2> QED
    BY <2>1, <2>2, Alone
<1> QED
  BY <1>1, <1>2

LEMMA MetadataBlock ==
  ASSUME NEW sk
  PROVE  Block(sk, MetadataEntry(sk), {k \in {"metadata"} : DOMAIN sk.Metadata # {}})
<1>1. CASE DOMAIN sk.Metadata = {}
  <2>1. MetadataEntry(sk) = <<>> /\ {k \in {"metadata"} : DOMAIN sk.Metadata # {}} = {}
    BY <1>1 DEF MetadataEntry
  <2> QED
    BY <2>1, NoBlock
<1>2. CASE DOMAIN sk.Metadata # {}
  <2>1. MetadataEntry(sk) = <<Entry("metadata", Mapping(ToPairs(sk)))>>
    BY <1>2, Zenon DEF MetadataEntry, ToPairs
  <2>2. ValueOf(sk, "metadata") = Mapping(ToPairs(sk))
    BY DEF ValueOf, scalarKeys
  <2>3. {k \in {"metadata"} : DOMAIN sk.Metadata # {}} = {"metadata"}
    BY <1>2
  <2>4. MetadataEntry(sk) = <<Entry("metadata", ValueOf(sk, "metadata"))>>
    BY <2>1, <2>2
  <2> QED
    BY <2>3, <2>4, Alone
<1> QED
  BY <1>1, <1>2

(* The frontmatter holds what there is to write, once each.                *)
LEMMA FrontmatterBlock ==
  ASSUME NEW sk, IsSkill(sk)
  PROVE  Block(sk, Frontmatter(sk), Written(sk))
<1> DEFINE K(key) == {k \in {key} : sk.field[k] # <<>>}
           M == {k \in {"metadata"} : DOMAIN sk.Metadata # {}}
           X == DOMAIN sk.Extra
           n == <<Entry("name", ValueOf(sk, "name"))>>
           d == <<Entry("description", ValueOf(sk, "description"))>>
           l == Given(sk, "license")
           c == Given(sk, "compatibility")
           a == Given(sk, "allowed-tools")
<1>1. Block(sk, n, {"name"}) /\ Block(sk, d, {"description"})
  BY Alone
<1>2. /\ Block(sk, l, K("license")) /\ Block(sk, c, K("compatibility"))
      /\ Block(sk, a, K("allowed-tools"))
  BY GivenBlock DEF scalarKeys, knownKeys
<1>3. Block(sk, MetadataEntry(sk), M) /\ Block(sk, ExtraEntries(sk), X)
  BY MetadataBlock, ExtraBlock
<1>4. X \cap knownKeys = {}
  BY DEF IsSkill
<1>5. n \o d = <<Entry("name", Scalar(sk.field["name"])),
                 Entry("description", Scalar(sk.field["description"]))>>
  <2>1. /\ ValueOf(sk, "name") = Scalar(sk.field["name"])
        /\ ValueOf(sk, "description") = Scalar(sk.field["description"])
    BY DEF ValueOf, scalarKeys, knownKeys
  <2> QED
    BY <2>1, Two
<1>6. Frontmatter(sk) =
        n \o d \o l \o c \o a \o MetadataEntry(sk) \o ExtraEntries(sk)
  BY <1>5, Zenon DEF Frontmatter
<1>7. Written(sk) = {"name"} \cup {"description"} \cup K("license") \cup K("compatibility")
                    \cup K("allowed-tools") \cup M \cup X
  BY DEF Written
<1>8. K("license") \subseteq {"license"} /\ K("compatibility") \subseteq {"compatibility"}
      /\ K("allowed-tools") \subseteq {"allowed-tools"} /\ M \subseteq {"metadata"}
  OBVIOUS
<1> HIDE DEF K, M, X, n, d, l, c, a
<1>9. Block(sk, n \o d, {"name"} \cup {"description"})
  BY <1>1, Joined
<1>10. Block(sk, n \o d \o l, {"name"} \cup {"description"} \cup K("license"))
  <2>1. ({"name"} \cup {"description"}) \cap K("license") = {}
    BY <1>8
  <2> QED
    BY <1>2, <1>9, <2>1, Joined
<1>11. Block(sk, n \o d \o l \o c,
             {"name"} \cup {"description"} \cup K("license") \cup K("compatibility"))
  <2>1. ({"name"} \cup {"description"} \cup K("license")) \cap K("compatibility") = {}
    BY <1>8
  <2> QED
    BY <1>2, <1>10, <2>1, Joined
<1>12. Block(sk, n \o d \o l \o c \o a,
             {"name"} \cup {"description"} \cup K("license") \cup K("compatibility")
             \cup K("allowed-tools"))
  <2>1. ({"name"} \cup {"description"} \cup K("license") \cup K("compatibility"))
        \cap K("allowed-tools") = {}
    BY <1>8
  <2> QED
    BY <1>2, <1>11, <2>1, Joined
<1>13. Block(sk, n \o d \o l \o c \o a \o MetadataEntry(sk),
             {"name"} \cup {"description"} \cup K("license") \cup K("compatibility")
             \cup K("allowed-tools") \cup M)
  <2>1. ({"name"} \cup {"description"} \cup K("license") \cup K("compatibility")
         \cup K("allowed-tools")) \cap M = {}
    BY <1>8
  <2> QED
    BY <1>3, <1>12, <2>1, Joined
<1>14. ({"name"} \cup {"description"} \cup K("license") \cup K("compatibility")
        \cup K("allowed-tools") \cup M) \cap X = {}
  BY <1>4, <1>8 DEF knownKeys
<1> QED
  BY <1>3, <1>6, <1>7, <1>13, <1>14, Joined

(* The lines of the file: the fences are around the frontmatter, and the   *)
(* body follows.                                                           *)
LEMMA EncodedIs ==
  ASSUME NEW sk, IsSkill(sk)
  PROVE  LET f == Encoded(sk)
             F == Frontmatter(sk)
             n == Len(F)
         IN /\ n \in Nat /\ Len(f) \in Nat /\ n + 2 <= Len(f)
            /\ IsFile(f) /\ f[1] = Fence /\ f[n + 2] = Fence
            /\ SubSeq(f, 2, n + 1) = F
            /\ SubSeq(f, n + 3, Len(f)) = sk.Body
            /\ \A j \in 1..n : F[j].kind = "entry"
<1> DEFINE F == Frontmatter(sk)
           B == sk.Body
           S == Writings(sk, Written(sk)) \cup Range(B) \cup {Fence}
           n == Len(F)
           b == Len(B)
           p == <<Fence>> \o F
           q == <<Fence>> \o F \o <<Fence>>
           f == <<Fence>> \o F \o <<Fence>> \o B
<1>1. f = Encoded(sk)
  BY Zenon DEF Encoded
<1>2. F \in Seq(S) /\ B \in Seq(S) /\ <<Fence>> \in Seq(S) /\ n \in Nat /\ b \in Nat
  <2>1. F \in Seq(Writings(sk, Written(sk)))
    BY FrontmatterBlock DEF Block
  <2>2. B \in Seq(Range(B))
    BY Lines DEF IsSkill
  <2>3. F \in Seq(S) /\ B \in Seq(S)
    BY <2>1, <2>2, SeqMonotonic
  <2> QED
    BY <2>3
<1>3. Len(<<Fence>>) = 1 /\ <<Fence>>[1] = Fence
  OBVIOUS
<1>4. \A j \in 1..n : F[j].kind = "entry"
  BY FrontmatterBlock, Entries
<1>5. \A j \in 1..n : IsValue(F[j].value)
  <2>1. \A key \in Written(sk) : IsValue(ValueOf(sk, key))
    <3>1. \A key \in scalarKeys : IsValue(Scalar(sk.field[key]))
      BY DEF IsSkill, IsValue, Scalar, ScalarOf
    <3>2. IsValue(Mapping(ToPairs(sk)))
      <4>1. IsSequence(ToPairs(sk))
        <5> DEFINE ks == SetToSeq(DOMAIN sk.Metadata)
                   m == Cardinality(DOMAIN sk.Metadata)
                   T == {<<ks[j], Scalar(sk.Metadata[ks[j]])>> : j \in 1..m}
        <5>1. m \in Nat /\ DOMAIN ks = 1..m
          BY Listed DEF IsSkill
        <5>2. ToPairs(sk) = [j \in 1..m |-> <<ks[j], Scalar(sk.Metadata[ks[j]])>>]
          BY <5>1, Zenon DEF ToPairs
        <5>3. ToPairs(sk) \in Seq(T)
          <6>1. ToPairs(sk) \in [1..m -> T]
            BY <5>2
          <6> HIDE DEF T, m
          <6> QED
            BY <5>1, <6>1
        <5> QED
          BY <5>3, Sequential
      <4> QED
        BY <4>1 DEF IsValue, Mapping
    <3>3. \A key \in DOMAIN sk.Extra : IsValue(Reencoded(sk.Extra[key]))
      BY Settles DEF IsSkill
    <3> QED
      BY <3>1, <3>2, <3>3 DEF Written, ValueOf, scalarKeys, knownKeys
  <2> QED
    BY <2>1, FrontmatterBlock, Entries
<1>6. \A j \in 1..b : B[j].kind = "entry" => IsValue(B[j].value)
  BY Lines DEF IsSkill
<1> HIDE DEF F, B, S
<1>7. /\ p \in Seq(S) /\ Len(p) = 1 + n
      /\ \A i \in 1..1 + n : p[i] = IF i <= 1 THEN <<Fence>>[i] ELSE F[i - 1]
  BY <1>2, <1>3, ConcatProperties, Zenon
<1> HIDE DEF p
<1>8. q = p \o <<Fence>> /\ f = q \o B
  BY DEF p
<1> HIDE DEF q, f, n, b
<1>9. n \in Nat /\ b \in Nat
  BY <1>2 DEF n, b
<1>10. /\ q \in Seq(S) /\ Len(q) = (1 + n) + 1
       /\ \A i \in 1..(1 + n) + 1 : q[i] = IF i <= 1 + n THEN p[i] ELSE <<Fence>>[i - (1 + n)]
  <2> DEFINE e == <<Fence>>
  <2>1. e \in Seq(S) /\ Len(e) = 1
    BY <1>2, <1>3
  <2> HIDE DEF e
  <2>2. /\ p \o e \in Seq(S) /\ Len(p \o e) = Len(p) + Len(e)
        /\ \A i \in 1..Len(p) + Len(e) : (p \o e)[i] = IF i <= Len(p) THEN p[i] ELSE e[i - Len(p)]
    BY <1>7, <2>1, ConcatProperties, Zenon
  <2> QED
    BY <1>7, <1>8, <2>1, <2>2, Zenon DEF e
<1>11. /\ f \in Seq(S) /\ Len(f) = ((1 + n) + 1) + b
       /\ \A i \in 1..((1 + n) + 1) + b : f[i] = IF i <= (1 + n) + 1 THEN q[i] ELSE B[i - ((1 + n) + 1)]
  <2>1. /\ q \o B \in Seq(S) /\ Len(q \o B) = Len(q) + Len(B)
        /\ \A i \in 1..Len(q) + Len(B) : (q \o B)[i] = IF i <= Len(q) THEN q[i] ELSE B[i - Len(q)]
    BY <1>2, <1>10, ConcatProperties, Zenon
  <2> QED
    BY <1>8, <1>10, <2>1, Zenon DEF b
<1>12. Len(f) = n + 2 + b
  BY <1>9, <1>11
<1>13. f[1] = Fence
  <2>1. p[1] = Fence
    BY <1>3, <1>7, <1>9
  <2>2. q[1] = Fence
    BY <1>9, <1>10, <2>1
  <2> QED
    BY <1>9, <1>11, <2>2
<1>14. f[n + 2] = Fence
  <2>1. n + 2 \in 1..(1 + n) + 1 /\ ~(n + 2 <= 1 + n) /\ (n + 2) - (1 + n) = 1
    BY <1>9
  <2>2. q[n + 2] = Fence
    BY <1>3, <1>10, <2>1
  <2>3. n + 2 \in 1..((1 + n) + 1) + b /\ n + 2 <= (1 + n) + 1
    BY <1>9
  <2> QED
    BY <1>11, <2>2, <2>3
<1>15. ASSUME NEW j \in 1..n
       PROVE  f[j + 1] = F[j]
  <2>1. j + 1 \in 1..1 + n /\ ~(j + 1 <= 1) /\ (j + 1) - 1 = j
    BY <1>9
  <2>2. p[j + 1] = F[j]
    BY <1>7, <2>1
  <2>3. j + 1 \in 1..(1 + n) + 1 /\ j + 1 <= 1 + n
    BY <1>9
  <2>4. q[j + 1] = F[j]
    BY <1>10, <2>2, <2>3
  <2>5. j + 1 \in 1..((1 + n) + 1) + b /\ j + 1 <= (1 + n) + 1
    BY <1>9
  <2> QED
    BY <1>11, <2>4, <2>5
<1>16. ASSUME NEW j \in 1..b
       PROVE  f[n + 2 + j] = B[j]
  <2>1. /\ n + 2 + j \in 1..((1 + n) + 1) + b /\ ~(n + 2 + j <= (1 + n) + 1)
        /\ (n + 2 + j) - ((1 + n) + 1) = j
    BY <1>9
  <2> QED
    BY <1>11, <2>1
<1>17. SubSeq(f, 2, n + 1) = F
  <2>1. 2 \in 1..Len(f) + 1 /\ n + 1 \in 0..Len(f)
    BY <1>9, <1>12
  <2>2. /\ SubSeq(f, 2, n + 1) \in Seq(S)
        /\ Len(SubSeq(f, 2, n + 1)) = IF 2 <= n + 1 THEN (n + 1) - 2 + 1 ELSE 0
        /\ \A j \in 1..(n + 1) - 2 + 1 : SubSeq(f, 2, n + 1)[j] = f[2 + j - 1]
    BY <1>11, <2>1, Slice
  <2>3. \A j \in 1..n : j \in 1..(n + 1) - 2 + 1 /\ 2 + j - 1 = j + 1
    BY <1>9
  <2>4. \A j \in 1..n : SubSeq(f, 2, n + 1)[j] = F[j]
    BY <1>15, <2>2, <2>3
  <2>5. Len(SubSeq(f, 2, n + 1)) = Len(F)
    BY <1>9, <2>2 DEF n
  <2> QED
    BY <1>2, <2>2, <2>4, <2>5, SeqEqual DEF n
<1>18. SubSeq(f, n + 3, Len(f)) = B
  <2>1. n + 3 \in 1..Len(f) + 1 /\ Len(f) \in 0..Len(f)
    BY <1>9, <1>12
  <2>2. /\ SubSeq(f, n + 3, Len(f)) \in Seq(S)
        /\ Len(SubSeq(f, n + 3, Len(f))) = IF n + 3 <= Len(f) THEN Len(f) - (n + 3) + 1 ELSE 0
        /\ \A j \in 1..Len(f) - (n + 3) + 1 : SubSeq(f, n + 3, Len(f))[j] = f[n + 3 + j - 1]
    BY <1>11, <2>1, Slice
  <2>3. \A j \in 1..b : j \in 1..Len(f) - (n + 3) + 1 /\ n + 3 + j - 1 = n + 2 + j
    BY <1>9, <1>12
  <2>4. \A j \in 1..b : SubSeq(f, n + 3, Len(f))[j] = B[j]
    BY <1>16, <2>2, <2>3
  <2>5. Len(SubSeq(f, n + 3, Len(f))) = Len(B)
    BY <1>9, <1>12, <2>2 DEF b
  <2> QED
    BY <1>2, <2>2, <2>4, <2>5, SeqEqual DEF b
<1>19. IsFile(f)
  <2>1. IsSequence(f) /\ DOMAIN f = 1..n + 2 + b
    BY <1>9, <1>11, <1>12, Sequential
  <2>2. ASSUME NEW j \in 1..n + 2 + b, f[j].kind = "entry"
        PROVE  IsValue(f[j].value)
    <3>1. Fence.kind # "entry"
      BY DEF Fence
    <3>2. j # 1 /\ j # n + 2
      BY <1>13, <1>14, <2>2, <3>1
    <3>3. j - 1 \in 1..n \/ j - (n + 2) \in 1..b
      BY <1>9, <3>2
    <3>4. (j - 1) + 1 = j /\ n + 2 + (j - (n + 2)) = j
      BY <1>9
    <3>5. CASE j - 1 \in 1..n
      BY <1>5, <1>15, <3>4, <3>5
    <3>6. CASE j - (n + 2) \in 1..b
      BY <1>6, <1>16, <2>2, <3>4, <3>6
    <3> QED
      BY <3>3, <3>5, <3>6
  <2> QED
    BY <2>1, <2>2 DEF IsFile
<1>20. n + 2 <= Len(f) /\ Len(f) \in Nat
  BY <1>9, <1>12
<1> QED
  BY <1>1, <1>4, <1>9, <1>13, <1>14, <1>17, <1>18, <1>19, <1>20 DEF F, n, B

----------------------------------------------------------------------------
(* What is read of what was written.                                       *)
LEMMA PairsBack ==
  ASSUME NEW sk, IsSkill(sk)
  PROVE  /\ StringPairs(ToPairs(sk)) = sk.Metadata
         /\ Strings(ToPairs(sk)) = DOMAIN ToPairs(sk)
<1> DEFINE M == sk.Metadata
           D == DOMAIN M
           ks == SetToSeq(D)
           n == Cardinality(D)
           q == ToPairs(sk)
           last(k) == CHOOSE j \in Strings(q) :
                        /\ q[j][1] = k
                        /\ \A x \in Strings(q) : q[x][1] = k => x <= j
<1>1. /\ DOMAIN ks = 1..n /\ n \in Nat
      /\ ks \in [1..n -> D]
      /\ \A i, j \in DOMAIN ks : ks[i] = ks[j] => i = j
      /\ \A k \in D : \E j \in DOMAIN ks : ks[j] = k
  BY Listed DEF IsSkill
<1>2. q = [j \in DOMAIN ks |-> <<ks[j], Scalar(M[ks[j]])>>]
  BY Zenon DEF ToPairs
<1>3. M = [k \in D |-> M[k]] /\ NoScalar \notin D
  BY DEF IsSkill
<1>4. StringPairs(q) = [k \in {q[j][1] : j \in Strings(q)} |-> q[last(k)][2].text]
  BY Zenon DEF StringPairs
<1>5. Strings(q) = {j \in DOMAIN q : q[j][1] # NoScalar /\ q[j][2].kind = "scalar"}
  BY DEF Strings
<1> HIDE DEF M, D, ks, n, q
<1>6. /\ DOMAIN q = 1..n
      /\ \A j \in 1..n : q[j][1] = ks[j] /\ q[j][2] = Scalar(M[ks[j]])
  BY <1>1, <1>2
<1>7. ASSUME NEW j \in 1..n
      PROVE  q[j][1] # NoScalar /\ q[j][2].kind = "scalar" /\ q[j][2].text = M[ks[j]]
  <2>1. ks[j] \in D
    BY <1>1
  <2>2. \A t : Scalar(t).kind = "scalar" /\ Scalar(t).text = t
    BY DEF Scalar, ScalarOf
  <2> QED
    BY <1>3, <1>6, <2>1, <2>2
<1>8. Strings(q) = DOMAIN q
  BY <1>5, <1>6, <1>7
<1>9. {q[j][1] : j \in Strings(q)} = D
  BY <1>1, <1>6, <1>8
<1>10. ASSUME NEW k \in D
       PROVE  q[last(k)][2].text = M[k]
  <2>1. PICK j \in 1..n : ks[j] = k
    BY <1>1
  <2>2. q[j][1] = k /\ \A x \in Strings(q) : q[x][1] = k => x <= j
    BY <1>1, <1>6, <1>8, <2>1
  <2>3. last(k) \in Strings(q) /\ q[last(k)][1] = k
    <3>1. \E i \in Strings(q) : q[i][1] = k /\ \A x \in Strings(q) : q[x][1] = k => x <= i
      BY <1>6, <1>8, <2>2
    <3> QED
      BY <3>1
  <2> HIDE DEF last
  <2> QED
    BY <1>6, <1>7, <1>8, <2>3
<1>11. StringPairs(q) = [k \in D |-> M[k]]
  <2> HIDE DEF last
  <2> QED
    BY <1>4, <1>9, <1>10
<1> QED
  BY <1>3, <1>8, <1>11 DEF q, M

SameExtra(sk, k) ==
  /\ DOMAIN sk.Extra = DOMAIN k.Extra
  /\ \A key \in DOMAIN sk.Extra : SameValue(sk.Extra[key], k.Extra[key])

LEMMA ReadBack ==
  ASSUME NEW k, IsSkill(k), NEW sk, IsSkill(sk), sk.shape \subseteq sk.keys,
         AsRead(sk, Frontmatter(k), Len(Frontmatter(k)))
  PROVE  /\ sk.field = k.field /\ sk.Metadata = k.Metadata /\ SameExtra(sk, k)
         /\ sk.shape = {} /\ sk.keys = Written(k)
<1> DEFINE F == Frontmatter(k)
           n == Len(F)
           W == Written(k)
<1>1. Block(k, F, W)
  BY FrontmatterBlock
<1> HIDE DEF F, W
<1>2. /\ \A j \in 1..n : F[j].key \in W /\ F[j].value = ValueOf(k, F[j].key)
      /\ \A key \in W : \E j \in 1..n : F[j].key = key
  BY <1>1, Entries DEF Block
<1>3. sk.keys = {F[j].key : j \in 1..n} /\ \A j \in 1..n : Made(sk, F[j])
  BY DEF AsRead, F
<1>4. sk.keys = W
  BY <1>2, <1>3
<1>5. ASSUME NEW key \in W
      PROVE  /\ key \in scalarKeys => sk.field[key] = Said(key, ValueOf(k, key))
             /\ key = "metadata" => sk.Metadata = Meta(ValueOf(k, key))
             /\ key \notin knownKeys => sk.Extra[key] = Decoded(ValueOf(k, key))
             /\ key \in sk.shape <=> Misshapen(key, ValueOf(k, key))
  <2>1. PICK j \in 1..n : F[j].key = key
    BY <1>2
  <2>2. Made(sk, F[j]) /\ F[j].value = ValueOf(k, key)
    BY <1>2, <1>3, <2>1
  <2> QED
    BY <2>1, <2>2 DEF Made
<1>6. \A key \in scalarKeys : key \in W \/ k.field[key] = <<>>
  BY DEF W, Written, scalarKeys, knownKeys
<1>7. "metadata" \in W \/ DOMAIN k.Metadata = {}
  BY DEF W, Written
<1>8. DOMAIN k.Extra = W \ knownKeys
  <2>1. DOMAIN k.Extra \cap knownKeys = {}
    BY DEF IsSkill
  <2> QED
    BY <2>1 DEF W, Written, knownKeys
<1>9. ASSUME NEW key \in scalarKeys
      PROVE  sk.field[key] = k.field[key]
  <2>1. CASE key \notin W
    <3>1. sk.field[key] = <<>>
      BY <1>4, <2>1 DEF AsRead
    <3> QED
      BY <1>6, <2>1, <3>1
  <2>2. CASE key \in W
    <3>1. sk.field[key] = Said(key, ValueOf(k, key)) /\ ValueOf(k, key) = Scalar(k.field[key])
      BY <1>5, <2>2 DEF ValueOf
    <3>2. Said(key, Scalar(k.field[key])) =
            IF key \in trimmedKeys THEN Trim(k.field[key]) ELSE k.field[key]
      BY DEF Said, Scalar, ScalarOf
    <3>3. key \in trimmedKeys => Trim(k.field[key]) = k.field[key]
      BY DEF IsSkill
    <3> QED
      BY <3>1, <3>2, <3>3
  <2> QED
    BY <2>1, <2>2
<1>10. sk.field = k.field
  <2>1. sk.field \in [scalarKeys -> Text] /\ k.field \in [scalarKeys -> Text]
    BY DEF IsSkill
  <2> QED
    BY <1>9, <2>1
<1>11. ValueOf(k, "metadata") = Mapping(ToPairs(k))
  BY DEF ValueOf, scalarKeys
<1>12. sk.Metadata = k.Metadata
  <2>1. CASE "metadata" \notin W
    <3>1. sk.Metadata = <<>> /\ DOMAIN k.Metadata = {}
      BY <1>4, <1>7, <2>1 DEF AsRead
    <3>2. k.Metadata = [x \in {} |-> k.Metadata[x]]
      BY <3>1 DEF IsSkill
    <3>3. <<>> = [x \in {} |-> k.Metadata[x]]
      BY EmptyFunction
    <3> QED
      BY <3>1, <3>2, <3>3
  <2>2. CASE "metadata" \in W
    <3>1. sk.Metadata = Meta(Mapping(ToPairs(k)))
      BY <1>5, <1>11, <2>2
    <3>2. Meta(Mapping(ToPairs(k))) = StringPairs(ToPairs(k))
      BY DEF Meta, Mapping
    <3> QED
      BY <3>1, <3>2, PairsBack
  <2> QED
    BY <2>1, <2>2
<1>13. SameExtra(sk, k)
  <2>1. DOMAIN sk.Extra = W \ knownKeys
    BY <1>4, Zenon DEF AsRead
  <2>2. ASSUME NEW key \in W \ knownKeys
        PROVE  SameValue(sk.Extra[key], k.Extra[key])
    <3>1. sk.Extra[key] = Decoded(Reencoded(k.Extra[key]))
      BY <1>5, <2>2 DEF ValueOf, scalarKeys, knownKeys
    <3>2. IsGo(k.Extra[key])
      BY <1>8, <2>2 DEF IsSkill
    <3> QED
      BY <3>1, <3>2, Settles
  <2> QED
    BY <1>8, <2>1, <2>2 DEF SameExtra
<1>14. sk.shape = {}
  <2>1. ASSUME NEW key \in W
        PROVE  ~Misshapen(key, ValueOf(k, key))
    <3>1. CASE key \in scalarKeys
      BY <3>1 DEF ValueOf, Misshapen, Scalar, ScalarOf, scalarKeys
    <3>2. CASE key = "metadata"
      BY <1>11, <3>2, PairsBack DEF Misshapen, Mapping, scalarKeys
    <3>3. CASE key \notin scalarKeys /\ key # "metadata"
      BY <3>3 DEF Misshapen
    <3> QED
      BY <3>1, <3>2, <3>3
  <2> QED
    BY <1>4, <1>5, <2>1
<1> QED
  BY <1>4, <1>10, <1>12, <1>13, <1>14 DEF W

(* Whether there are errors.                                               *)
LEMMA ErrorsAre ==
  ASSUME NEW sk
  PROVE  HasErrors(Validate(sk)) <=>
           \/ DOMAIN sk.Extra # {} \/ sk.shape # {}
           \/ "name" \notin sk.keys \/ "description" \notin sk.keys
           \/ "name" \notin sk.shape /\ validateName(sk) # {}
           \/ "description" \notin sk.shape /\ validateDescription(sk) # {}
           \/ Len(sk.field["compatibility"]) > MaxCompatibilityLength
           \/ sk.field["allowed-tools"] \in BadRules
<1>1. \A p \in Validate(sk) : p.severity = "error" <=> p # Long
  <2>1. Long.severity # "error"
    BY DEF Long
  <2> QED
    BY <2>1, Severe
<1>2. HasErrors(Validate(sk)) <=> \E p \in Validate(sk) : p # Long
  BY <1>1 DEF HasErrors
<1>3. /\ \A key, why : Err(key, why) # Long
      /\ \A why : Err(NoField, why) # Long
  BY DEF Err, Long
<1>4. \A key, flaws : (\E p : p \in Required(sk, key, flaws)) <=>
                        key \notin sk.keys \/ (key \notin sk.shape /\ \E why \in flaws : TRUE)
  BY DEF Required, present
<1>5. \A key, flaws : \A p \in Required(sk, key, flaws) : p # Long
  BY <1>3, RequiredSays
<1> DEFINE N == Required(sk, "name", validateName(sk))
           D == Required(sk, "description", validateDescription(sk))
<1>6. /\ (\E p : p \in N) <=>
           "name" \notin sk.keys \/ ("name" \notin sk.shape /\ validateName(sk) # {})
      /\ (\E p : p \in D) <=>
           "description" \notin sk.keys \/ ("description" \notin sk.shape /\ validateDescription(sk) # {})
      /\ \A p \in N \cup D : p # Long
  BY <1>4, <1>5
<1>7. \A p : p \in Validate(sk) <=>
           \/ DOMAIN sk.Extra # {} /\ p = Err(NoField, "unexpected")
           \/ \E key \in sk.shape : p = Err(key, "shape")
           \/ p \in N \/ p \in D
           \/ /\ Len(sk.field["compatibility"]) > MaxCompatibilityLength
              /\ p = Err("compatibility", "too-long")
           \/ sk.field["allowed-tools"] \in BadRules /\ p = Err("allowed-tools", "rules")
           \/ Len(sk.Body) > MaxBodyLines /\ p = Long
  BY ValidateSays
<1> HIDE DEF N, D
<1> QED
  BY <1>2, <1>3, <1>6, <1>7

LEMMA SameErrors ==
  ASSUME NEW k, IsSkill(k), k.shape = {}, NEW sk,
         sk.field = k.field, DOMAIN sk.Extra = DOMAIN k.Extra, sk.shape = {}, sk.keys = Written(k)
  PROVE  HasErrors(Validate(sk)) <=> HasErrors(Validate(k))
<1>1. "name" \in sk.keys /\ "description" \in sk.keys
  BY DEF Written
<1>2. /\ "name" \notin k.keys => k.field["name"] = <<>>
      /\ "description" \notin k.keys => k.field["description"] = <<>>
  BY DEF IsSkill, scalarKeys, knownKeys
<1>3. validateName(sk) = validateName(k) /\ validateDescription(sk) = validateDescription(k)
  BY DEF validateName, validateDescription
<1>4. /\ "name" \notin k.keys => validateName(k) # {}
      /\ "description" \notin k.keys => validateDescription(k) # {}
  BY <1>2 DEF validateName, validateDescription
<1> QED
  BY <1>1, <1>3, <1>4, ErrorsAre

----------------------------------------------------------------------------
(* The steps.                                                              *)
LEMMA Blank ==
  /\ IsRecord(EmptySkill)
  /\ EmptySkill.field = [k \in scalarKeys |-> <<>>] /\ EmptySkill.field \in [scalarKeys -> Text]
  /\ EmptySkill.Metadata = <<>> /\ EmptySkill.Extra = <<>> /\ EmptySkill.Body = <<>>
  /\ EmptySkill.keys = {} /\ EmptySkill.shape = {}
BY EmptySeq DEF EmptySkill, IsRecord, Text

LEMMA Starts == Init => IInv
<1> SUFFICES ASSUME Init PROVE IInv
  OBVIOUS
<1>1. IsFile(file) /\ file # <<>>
  BY FilesAssumption DEF Init
<1>2. Len(file) \in Nat
  BY <1>1, Lines
<1>3. TypeOK
  BY <1>2, Blank, EmptyFunction DEF Init, TypeOK
<1>4. IsRecord(s) /\ Scanned /\ Entered /\ Rewritten
  BY Blank DEF Init, Scanned, Entered, Rewritten
<1>5. Ran
  BY EmptyFunction DEF Init, Ran
<1> QED
  BY <1>1, <1>3, <1>4, <1>5 DEF Init, IInv

(* The file that was written back is split where it was joined.            *)
LEMMA SecondRound ==
  ASSUME IInv, round = 2
  PROVE  /\ isFence(file[1])
         /\ pc = "scan" => at <= Len(file)
         /\ pc \notin {"open", "scan"} =>
              front = Frontmatter(kept[1]) /\ s.Body = kept[1].Body
<1> DEFINE k == kept[1]
           F == Frontmatter(k)
           n == Len(F)
<1>1. IsSkill(k) /\ file = Encoded(k) /\ pc # "failed"
  BY DEF IInv, Rewritten
<1>2. /\ n \in Nat /\ Len(file) \in Nat /\ n + 2 <= Len(file)
      /\ file[1] = Fence /\ file[n + 2] = Fence
      /\ SubSeq(file, 2, n + 1) = F
      /\ SubSeq(file, n + 3, Len(file)) = k.Body
      /\ \A j \in 1..n : F[j].kind = "entry"
      /\ IsFile(file)
  BY <1>1, EncodedIs
<1> HIDE DEF k, F, n
<1>3. isFence(Fence) /\ isFence(file[1]) /\ isFence(file[n + 2])
  BY <1>2 DEF isFence, Fence
<1>4. ASSUME pc = "scan"
      PROVE  at <= Len(file)
  <2>1. at \in 1..Len(file) + 1 /\ at > 1 /\ \A j \in 2..at - 1 : ~isFence(file[j])
    BY <1>4 DEF IInv, TypeOK, Scanned
  <2>2. n + 2 \notin 2..at - 1
    BY <1>3, <2>1
  <2> QED
    BY <1>2, <2>1, <2>2
<1>5. ASSUME pc \notin {"open", "scan"}
      PROVE  front = F /\ s.Body = k.Body
  <2>1. PICK m \in 2..Len(file) : SplitAt(m)
    BY <1>1, <1>5 DEF IInv, Scanned
  <2>2. ~(n + 2 \in 2..m - 1)
    BY <1>3, <2>1 DEF SplitAt
  <2>3. m <= n + 2
    BY <1>2, <2>1, <2>2
  <2>4. ~(m < n + 2)
    <3> SUFFICES ASSUME m < n + 2 PROVE FALSE
      OBVIOUS
    <3>1. 2 \in 1..Len(file) + 1 /\ n + 1 \in 0..Len(file)
      BY <1>2
    <3>2. \A a \in 1..Len(file) + 1, b \in 0..Len(file) :
            \A j \in 1..b - a + 1 : SubSeq(file, a, b)[j] = file[a + j - 1]
      BY <1>2, SomeLines
    <3>3. m - 1 \in 1..n /\ m - 1 \in 1..(n + 1) - 2 + 1 /\ 2 + (m - 1) - 1 = m
      BY <1>2, <2>1
    <3>4. F[m - 1] = file[m]
      BY <1>2, <3>1, <3>2, <3>3
    <3> QED
      BY <1>2, <2>1, <3>3, <3>4 DEF SplitAt, isFence
  <2>5. m = n + 2 /\ m - 1 = n + 1 /\ m + 1 = n + 3
    BY <1>2, <2>1, <2>3, <2>4
  <2> QED
    BY <1>2, <2>1, <2>5 DEF SplitAt
<1> QED
  BY <1>3, <1>4, <1>5 DEF F, k

(* No command is run between two steps of the parser.                      *)
LEMMA RanStays ==
  ASSUME IInv, UNCHANGED <<round, kept, exits>>, pc \notin {"validated", "failed", "unwritten"}
  PROVE  Ran'
<1>1. CASE round = 1
  <2>1. exits = <<>> /\ exits' = <<>>
    BY <1>1 DEF IInv, Ran
  <2>2. DOMAIN exits' = {}
    BY <2>1
  <2> QED
    BY <2>1, <2>2 DEF Ran
<1>2. CASE round # 1
  <2>1. ~Failed /\ ~Failed' /\ Judged = kept /\ Judged' = kept /\ round' # 1
    BY <1>2 DEF Failed, Judged
  <2>2. Refused1' <=> Refused1
    BY <2>1 DEF Refused1
  <2> QED
    BY <1>2, <2>1, <2>2 DEF IInv, Ran
<1> QED
  BY <1>1, <1>2

(* The directory's name is all that Validate looks at besides the skill.   *)
LEMMA VerdictStays ==
  ASSUME NEW sk, UNCHANGED dirName
  PROVE  Validate(sk)' = Validate(sk)
<1>1. nameFlaws(sk.field["name"])' = nameFlaws(sk.field["name"])
  BY DEF nameFlaws
<1>2. validateName(sk)' = validateName(sk)
  BY <1>1, Zenon DEF validateName
<1>3. Required(sk, "name", validateName(sk))' = Required(sk, "name", validateName(sk))
  BY <1>2, Zenon DEF Required, present
<1> QED
  BY <1>3, Zenon DEF Validate

(* Nor does the parser touch what was kept.                                *)
LEMMA RewrittenStays ==
  ASSUME IInv, UNCHANGED <<file, dirName, round, kept>>, round = 2 => pc' # "failed"
  PROVE  Rewritten'
<1>1. PICK k : k = kept
  OBVIOUS
<1>2. round = 2 => IsSkill(k[1]) /\ k[2] = Validate(k[1]) /\ file = Encoded(k[1])
  BY <1>1 DEF IInv, Rewritten
<1>3. Validate(k[1])' = Validate(k[1])
  BY VerdictStays
<1>4. round' = 2 => IsSkill(k[1]) /\ k[2] = Validate(k[1])' /\ file' = Encoded(k[1])
  BY <1>2, <1>3
<1>5. kept' = k
  BY <1>1
<1> QED
  BY <1>4, <1>5 DEF Rewritten

LEMMA OpenStep == IInv /\ Open => IInv'
<1> SUFFICES ASSUME IInv, Open PROVE IInv'
  OBVIOUS
<1>1. pc = "open" /\ s = EmptySkill /\ s' = s /\ at' = 2 /\ pc' \in {"scan", "failed"}
  BY DEF Open, Fail, IInv, Scanned
<1>2. Len(file) \in Nat \ {0}
  <2>1. file \in Seq(Range(file)) /\ file # <<>>
    BY Lines DEF IInv
  <2> QED
    BY <2>1, EmptySeq
<1>3. round = 2 => pc' # "failed"
  BY SecondRound DEF Open
<1>4. Ran' /\ Rewritten'
  BY <1>1, <1>3, RanStays, RewrittenStays DEF Open
<1>5. TypeOK'
  BY <1>1, <1>2 DEF IInv, TypeOK, Open
<1>6. Scanned' /\ Entered'
  BY <1>1 DEF Scanned, Entered, Open
<1> QED
  BY <1>1, <1>4, <1>5, <1>6 DEF IInv, Open, IsRecord

LEMMA ScanLineStep == IInv /\ ScanLine => IInv'
<1> SUFFICES ASSUME IInv, ScanLine PROVE IInv'
  OBVIOUS
<1>1. /\ pc = "scan" /\ s = EmptySkill /\ at <= Len(file) /\ at \in 2..Len(file)
      /\ Len(file) \in Nat /\ \A j \in 2..at - 1 : ~isFence(file[j])
  BY Lines DEF ScanLine, IInv, Scanned, TypeOK
<1>2. CASE ~isFence(file[at])
  <2>1. at' = at + 1 /\ UNCHANGED <<file, dirName, round, pc, front, s, problems, kept, exits>>
    BY <1>2 DEF ScanLine
  <2>2. Ran' /\ Rewritten'
    BY <1>1, <2>1, RanStays, RewrittenStays
  <2>3. TypeOK'
    BY <1>1, <2>1 DEF IInv, TypeOK
  <2>4. \A j \in 2..at' - 1 : ~isFence(file[j])
    BY <1>1, <1>2, <2>1
  <2>5. Scanned' /\ Entered'
    BY <1>1, <2>1, <2>4 DEF Scanned, Entered
  <2> QED
    BY <1>1, <2>1, <2>2, <2>3, <2>5 DEF IInv, IsRecord
<1>3. CASE isFence(file[at])
  <2>1. /\ front' = SubSeq(file, 2, at - 1)
        /\ s' = [s EXCEPT !.Body = SubSeq(file, at + 1, Len(file))]
        /\ pc' = "yaml" /\ at' = 1
        /\ UNCHANGED <<file, dirName, round, problems, kept, exits>>
    BY <1>3 DEF ScanLine
  <2>2. Ran' /\ Rewritten'
    BY <1>1, <2>1, RanStays, RewrittenStays
  <2>3. /\ IsRecord(s') /\ s'.Body = SubSeq(file, at + 1, Len(file))
        /\ s'.field = [k \in scalarKeys |-> <<>>] /\ s'.field \in [scalarKeys -> Text]
        /\ s'.Metadata = <<>> /\ s'.Extra = <<>> /\ s'.keys = {} /\ s'.shape = {}
    BY <1>1, <2>1, Blank DEF IsRecord
  <2>4. TypeOK'
    BY <1>1, <2>1, <2>3, EmptyFunction DEF IInv, TypeOK
  <2>5. AsRead(s', front', 0)
    <3>1. 1..0 = {} /\ {front'[j].key : j \in {}} = {} /\ {} \ knownKeys = {}
      OBVIOUS
    <3>2. <<>> = [key \in {} |-> <<>>[key]]
      BY EmptyFunction
    <3> QED
      BY <2>3, <3>1, <3>2 DEF AsRead
  <2>6. Scanned' /\ Entered'
    <3>1. PICK m \in 2..Len(file) : m = at
      BY <1>1
    <3>2. SplitAt(m)'
      BY <1>1, <1>3, <2>1, <2>3, <3>1 DEF SplitAt, isFence
    <3>3. \E k \in 2..Len(file') : SplitAt(k)'
      BY <2>1, <3>1, <3>2
    <3> QED
      BY <1>1, <2>1, <2>5, <3>3 DEF Scanned, Entered
  <2> QED
    BY <2>1, <2>2, <2>3, <2>4, <2>6 DEF IInv, IsRecord
<1> QED
  BY <1>2, <1>3
LEMMA ScanEndStep == IInv /\ ScanEnd => IInv'
<1> SUFFICES ASSUME IInv, ScanEnd PROVE IInv'
  OBVIOUS
<1>1. /\ pc = "scan" /\ pc' = "failed" /\ ~(at <= Len(file))
      /\ UNCHANGED <<file, dirName, round, at, front, s, problems, kept, exits>>
  BY Lines DEF ScanEnd, Fail, IInv, TypeOK
<1>2. Ran' /\ Rewritten'
  BY <1>1, SecondRound, RanStays, RewrittenStays
<1> QED
  BY <1>1, <1>2 DEF IInv, TypeOK, IsRecord, Scanned, Entered

(* A mapping is made of entries from here on.                              *)
LEMMA SplitStays ==
  ASSUME IInv, pc \notin {"open", "scan", "failed"}, UNCHANGED <<file, front>>,
         s'.Body = s.Body, pc' \notin {"open", "scan"}
  PROVE  Scanned'
<1>1. PICK m \in 2..Len(file) : SplitAt(m)
  BY DEF IInv, Scanned
<1>2. SplitAt(m)' /\ m \in 2..Len(file')
  BY <1>1 DEF SplitAt, isFence
<1> QED
  BY <1>2 DEF Scanned

LEMMA UnmarshalStep == IInv /\ Unmarshal => IInv'
<1> SUFFICES ASSUME IInv, Unmarshal PROVE IInv'
  OBVIOUS
<1>1. /\ pc = "yaml" /\ at = 1 /\ AsRead(s, front, 0)
      /\ UNCHANGED <<file, dirName, round, at, front, s, problems, kept, exits>>
  BY DEF Unmarshal, Fail, IInv, Entered
<1>2. PICK m \in 2..Len(file) : SplitAt(m)
  BY <1>1 DEF IInv, Scanned
<1>3. IsFile(front) /\ Len(front) \in Nat /\ DOMAIN front = 1..Len(front)
      /\ (front = <<>> => Len(front) = 0)
  BY <1>2, FrontIs, Lines, EmptySeq DEF IInv
<1>4. CASE \A j \in DOMAIN front : front[j].kind = "entry"
  <2>1. pc' = IF front = <<>> THEN "parsed" ELSE "keys"
    BY <1>4 DEF Unmarshal
  <2>2. Ran' /\ Rewritten' /\ Scanned'
    BY <1>1, <2>1, RanStays, RewrittenStays, SplitStays
  <2>3. Entered'
    BY <1>1, <1>3, <1>4, <2>1 DEF Entered
  <2> QED
    BY <1>1, <2>1, <2>2, <2>3 DEF IInv, TypeOK, IsRecord
<1>5. CASE ~(\A j \in DOMAIN front : front[j].kind = "entry")
  <2>1. pc' = "failed"
    BY <1>5 DEF Unmarshal, Fail
  <2>2. ASSUME round = 2
        PROVE  FALSE
    <3> DEFINE k == kept[1]
    <3>1. front = Frontmatter(k) /\ IsSkill(k)
      BY <1>1, <2>2, SecondRound DEF IInv, Rewritten
    <3>2. Block(k, Frontmatter(k), Written(k))
      BY <3>1, FrontmatterBlock
    <3> HIDE DEF k
    <3>3. \A j \in 1..Len(front) : front[j].kind = "entry"
      BY <3>1, <3>2, Entries
    <3> QED
      BY <1>3, <1>5, <3>3
  <2>3. Ran' /\ Rewritten'
    BY <1>1, <2>1, <2>2, RanStays, RewrittenStays
  <2> QED
    BY <1>1, <2>1, <2>3 DEF IInv, TypeOK, IsRecord, Scanned, Entered
<1> QED
  BY <1>4, <1>5

(* The types of a skill that some entries were read into.                  *)
LEMMA ReadTypes ==
  ASSUME NEW sk, NEW f, NEW n \in Nat, AsRead(sk, f, n), sk.shape \subseteq sk.keys
  PROVE  /\ \A key \in sk.shape \cap scalarKeys : sk.field[key] = <<>>
         /\ sk.keys \ knownKeys = DOMAIN sk.Extra
<1>1. ASSUME NEW key \in sk.shape \cap scalarKeys
      PROVE  sk.field[key] = <<>>
  <2>1. PICK j \in 1..n : f[j].key = key
    BY DEF AsRead
  <2>2. Made(sk, f[j])
    BY DEF AsRead
  <2>3. key # "metadata"
    BY DEF scalarKeys
  <2>4. f[j].value.kind # "scalar" /\ sk.field[key] = Said(key, f[j].value)
    BY <2>1, <2>2, <2>3 DEF Made, Misshapen
  <2> QED
    BY <2>4 DEF Said
<1>2. sk.keys \ knownKeys = DOMAIN sk.Extra
  BY DEF AsRead
<1> QED
  BY <1>1, <1>2

(* What Encode wrote is not refused.                                       *)
LEMMA NotRefused ==
  ASSUME IInv, round = 2, pc = "keys", at <= Len(front), Len(front) \in Nat
  PROVE  ~Refused(front[at].key, front[at].value)
<1> DEFINE k == kept[1]
           F == Frontmatter(k)
<1>1. front = F /\ IsSkill(k)
  BY SecondRound DEF IInv, Rewritten
<1>2. Block(k, F, Written(k))
  BY <1>1, FrontmatterBlock
<1> HIDE DEF k, F
<1>3. at \in 1..Len(front) /\ s.keys = {front[j].key : j \in 1..at - 1}
  BY DEF IInv, TypeOK, Entered, AsRead
<1>4. front[at].key \in Written(k) /\ front[at].value = ValueOf(k, front[at].key)
  BY <1>1, <1>2, <1>3, Entries
<1>5. front[at].key \notin s.keys
  <2>1. \A j \in 1..at - 1 : j \in 1..Len(front) /\ j # at
    BY <1>3
  <2> QED
    BY <1>1, <1>2, <1>3, <2>1 DEF Block
<1>6. front[at].key \in knownKeys \/ front[at].key \in DOMAIN k.Extra
  BY <1>4 DEF Written, knownKeys
<1>7. NoScalar \notin Written(k)
  BY <1>1 DEF Written, NoScalar, IsSkill
<1>8. front[at].key \notin knownKeys => Decodes(front[at].value)
  <2>1. CASE front[at].key \notin knownKeys
    <3>1. IsGo(k.Extra[front[at].key])
      BY <1>1, <1>6, <2>1 DEF IsSkill
    <3>2. front[at].value = Reencoded(k.Extra[front[at].key])
      BY <1>4, <2>1 DEF ValueOf, scalarKeys, knownKeys
    <3> QED
      BY <3>1, <3>2, Settles
  <2> QED
    BY <2>1
<1> QED
  BY <1>4, <1>5, <1>7, <1>8 DEF Refused

LEMMA ParseKeyStep == IInv /\ ParseKey => IInv'
<1> SUFFICES ASSUME IInv, ParseKey PROVE IInv'
  OBVIOUS
<1> DEFINE key == front[at].key
           v == front[at].value
<1>1. /\ pc = "keys" /\ at <= Len(front) /\ at' = at + 1 /\ at \in Nat \ {0}
      /\ UNCHANGED <<file, dirName, round, front, problems, kept, exits>>
      /\ IF Refused(key, v) THEN pc' = "failed" /\ s' = s
         ELSE pc' = pc /\ s' = [Assigned(s, key, v) EXCEPT !.keys = @ \cup {key}]
  BY Lines DEF ParseKey, Fail, IInv, TypeOK
<1>2. PICK m \in 2..Len(file) : SplitAt(m)
  BY <1>1 DEF IInv, Scanned
<1>3. /\ IsFile(front) /\ Len(front) \in Nat /\ DOMAIN front = 1..Len(front)
      /\ Len(front) + 1 < Len(file) + 1 /\ Len(file) \in Nat
  BY <1>2, FrontIs, Lines DEF IInv
<1>4. at \in 1..Len(front) /\ at' \in 1..Len(file) + 1 /\ at' <= Len(front) + 1
  BY <1>1, <1>3
<1>5. CASE Refused(key, v)
  <2>1. pc' = "failed" /\ s' = s
    BY <1>1, <1>5
  <2>2. Ran' /\ Rewritten'
    BY <1>1, <1>3, <1>5, <2>1, NotRefused, RanStays, RewrittenStays
  <2> QED
    BY <1>1, <1>4, <2>1, <2>2 DEF IInv, TypeOK, IsRecord, Scanned, Entered
<1>6. CASE ~Refused(key, v)
  <2>1. pc' = pc /\ s' = [Assigned(s, key, v) EXCEPT !.keys = @ \cup {key}]
    BY <1>1, <1>6
  <2>2. key # NoScalar /\ key \notin s.keys /\ (key \notin knownKeys => Decodes(v))
    BY <1>6 DEF Refused
  <2>3. /\ IsRecord(s) /\ s.field \in [scalarKeys -> Text]
        /\ s.shape \subseteq s.keys \cap knownKeys
        /\ AsRead(s, front, at - 1) /\ \A j \in DOMAIN front : front[j].kind = "entry"
    BY <1>1 DEF IInv, TypeOK, Entered
  <2>4. at - 1 \in Nat /\ (at - 1) + 1 = at /\ at' - 1 = at
    BY <1>1
  <2>5. front[at].kind = "entry" /\ IsValue(v)
    BY <1>3, <1>4, <2>3 DEF IsFile
  <2>6. PICK n \in Nat : n = at - 1
    BY <2>4
  <2>7. /\ AsRead(s', front, n + 1) /\ IsRecord(s') /\ s'.field \in [scalarKeys -> Text]
        /\ s'.shape \subseteq s'.keys \cap knownKeys /\ s'.Body = s.Body
    <3>1. Reading(s, front, n)
      BY <2>3, <2>6 DEF Reading
    <3>2. PICK e : e = front[at]
      OBVIOUS
    <3>3. e = front[n + 1] /\ s' = With(s, e)
      BY <2>1, <2>4, <2>6, <3>2 DEF With
    <3>4. /\ e.kind = "entry" /\ IsValue(e.value) /\ e.key # NoScalar /\ e.key \notin s.keys
          /\ (e.key \notin knownKeys => Decodes(e.value))
      BY <2>2, <2>5, <3>2
    <3>5. Reading(With(s, e), front, n + 1) /\ With(s, e).Body = s.Body
      BY <3>1, <3>3, <3>4, ReadOn
    <3> QED
      BY <3>3, <3>5 DEF Reading
  <2>8. AsRead(s', front', at' - 1)
    BY <1>1, <2>4, <2>6, <2>7
  <2>9. /\ \A x \in s'.shape \cap scalarKeys : s'.field[x] = <<>>
        /\ s'.keys \ knownKeys = DOMAIN s'.Extra
    BY <2>4, <2>6, <2>7, ReadTypes
  <2>10. Ran' /\ Rewritten' /\ Scanned'
    BY <1>1, <2>1, <2>7, RanStays, RewrittenStays, SplitStays
  <2>11. Entered'
    BY <1>1, <1>4, <2>1, <2>3, <2>8 DEF Entered
  <2>12. TypeOK'
    BY <1>1, <1>4, <2>1, <2>7, <2>9 DEF IInv, TypeOK
  <2> QED
    BY <1>1, <2>1, <2>7, <2>10, <2>11, <2>12 DEF IInv, IsRecord
<1> QED
  BY <1>5, <1>6

LEMMA ParseEndStep == IInv /\ ParseEnd => IInv'
<1> SUFFICES ASSUME IInv, ParseEnd PROVE IInv'
  OBVIOUS
<1>1. /\ pc = "keys" /\ pc' = "parsed" /\ at > Len(front)
      /\ UNCHANGED <<file, dirName, round, at, front, s, problems, kept, exits>>
  BY DEF ParseEnd
<1>2. PICK m \in 2..Len(file) : SplitAt(m)
  BY <1>1 DEF IInv, Scanned
<1>3. Len(front) \in Nat
  BY <1>2, FrontIs, Lines DEF IInv
<1>4. at - 1 = Len(front) /\ AsRead(s, front, at - 1)
  <2>1. at \in Nat
    BY Lines DEF IInv, TypeOK
  <2> QED
    BY <1>1, <1>3, <2>1 DEF IInv, Entered
<1>5. Ran' /\ Rewritten' /\ Scanned'
  BY <1>1, RanStays, RewrittenStays, SplitStays
<1> QED
  BY <1>1, <1>4, <1>5 DEF IInv, TypeOK, IsRecord, Entered

LEMMA ReportStep == IInv /\ Report => IInv'
<1> SUFFICES ASSUME IInv, Report PROVE IInv'
  OBVIOUS
<1>1. /\ pc = "parsed" /\ pc' = "validated" /\ problems' = Validate(s)
      /\ UNCHANGED <<file, dirName, round, at, front, s, kept, exits>>
  BY DEF Report
<1>2. PICK sk : sk = s
  OBVIOUS
<1>3. Validate(sk)' = Validate(sk) /\ s' = sk
  BY <1>1, <1>2, VerdictStays
<1>4. problems' = Validate(s)'
  BY <1>1, <1>2, <1>3
<1>5. Ran' /\ Rewritten' /\ Scanned'
  BY <1>1, RanStays, RewrittenStays, SplitStays
<1> QED
  BY <1>1, <1>4, <1>5 DEF IInv, TypeOK, IsRecord, Entered

(* The skill that is being validated was read whole.                       *)
LEMMA ReadIs ==
  ASSUME IInv, pc \in {"parsed", "validated", "unwritten"}
  PROVE  /\ IsSkill(s) /\ Fielded(s) /\ IsFile(front)
         /\ AsRead(s, front, Len(front))
<1>1. PICK m \in 2..Len(file) : SplitAt(m)
  BY DEF IInv, Scanned
<1>2. IsFile(front) /\ IsFile(s.Body)
  BY <1>1, FrontIs DEF IInv
<1>3. /\ IsRecord(s) /\ s.field \in [scalarKeys -> Text] /\ s.shape \subseteq s.keys \cap knownKeys
      /\ AsRead(s, front, Len(front))
  BY DEF IInv, TypeOK, Entered
<1> QED
  BY <1>2, <1>3, ReadWhole

(* What the commands say when validate exits with n.                       *)
Says(e, n, read, shown) ==
  /\ "validate" \in DOMAIN e /\ e["validate"].status = 0 => n = 0
  /\ "read-properties" \in DOMAIN e => e["read-properties"] = read
  /\ "to-prompt" \in DOMAIN e => e["to-prompt"] = shown

LEMMA SaysMore ==
  ASSUME NEW e, NEW n, NEW read, NEW shown, Says(e, n, read, shown),
         NEW cmd, NEW x,
         \/ cmd = "validate" /\ x.status = n
         \/ cmd = "read-properties" /\ x = read
         \/ cmd = "to-prompt" /\ x = shown
  PROVE  Says(Put(e, cmd, x), n, read, shown)
<1>1. PICK f : f = Put(e, cmd, x)
  OBVIOUS
<1>2. /\ DOMAIN f = DOMAIN e \cup {cmd} /\ f[cmd] = x
      /\ \A c \in DOMAIN e : c # cmd => f[c] = e[c]
  BY <1>1 DEF Put
<1>3. "validate" \in DOMAIN f /\ f["validate"].status = 0 => n = 0
  <2>1. CASE cmd = "validate"
    BY <1>2, <2>1
  <2>2. CASE cmd # "validate"
    BY <1>2, <2>2 DEF Says
  <2> QED
    BY <2>1, <2>2
<1>4. "read-properties" \in DOMAIN f => f["read-properties"] = read
  BY <1>2 DEF Says
<1>5. "to-prompt" \in DOMAIN f => f["to-prompt"] = shown
  BY <1>2 DEF Says
<1> QED
  BY <1>1, <1>3, <1>4, <1>5 DEF Says

LEMMA CommandStep == IInv /\ Command => IInv'
<1> SUFFICES ASSUME IInv, Command PROVE IInv'
  OBVIOUS
<1>1. /\ pc \in {"validated", "failed"} /\ round = 1
      /\ UNCHANGED <<file, dirName, round, pc, at, front, s, problems, kept>>
  BY DEF Command
<1>2. /\ Judged = <<s, problems>> /\ Judged' = <<s, problems>>
      /\ (Failed <=> pc = "failed") /\ (Failed' <=> pc = "failed")
  BY <1>1 DEF Judged, Failed
<1>3. Judged' = Judged /\ Judged[1] = s /\ Judged[2] = problems
  BY <1>2
<1>4. (Refused1 <=> LoadRefuses) /\ (Refused1' <=> LoadRefuses)
  BY <1>2, <1>3 DEF Refused1, LoadRefuses
<1>5. PICK n : n = IF pc = "failed" \/ HasErrors(problems) THEN 1 ELSE 0
  OBVIOUS
<1>6. PICK read : read = IF LoadRefuses THEN Exit(1, {}) ELSE Exit(0, {s.field["name"]})
  OBVIOUS
<1>7. PICK shown : shown = IF LoadRefuses THEN Exit(1, {})
                           ELSE Exit(0, IF listable(s) THEN {s.field["name"]} ELSE {})
  OBVIOUS
<1>8. Ran' /\ DOMAIN exits' \subseteq {"validate", "read-properties", "to-prompt"}
  <2>1. DOMAIN exits \subseteq {"validate", "read-properties", "to-prompt"}
    BY DEF IInv, TypeOK
  <2>2. Says(exits, n, read, shown)
    BY <1>2, <1>3, <1>4, <1>5, <1>6, <1>7 DEF IInv, Ran, Says
  <2>3. PICK cmd, x :
          /\ exits' = Put(exits, cmd, x)
          /\ \/ cmd = "validate" /\ x.status = n
             \/ cmd = "read-properties" /\ x = read
             \/ cmd = "to-prompt" /\ x = shown
    <3>1. CASE validate
      <4>1. Exit(n, {}).status = n
        BY DEF Exit
      <4> QED
        BY <1>5, <3>1, <4>1 DEF validate
    <3>2. CASE readProperties
      BY <1>6, <3>2 DEF readProperties
    <3>3. CASE toPrompt
      BY <1>7, <3>3 DEF toPrompt
    <3> QED
      BY <3>1, <3>2, <3>3 DEF Command
  <2>4. Says(exits', n, read, shown)
    BY <2>2, <2>3, SaysMore
  <2>5. DOMAIN exits' \subseteq {"validate", "read-properties", "to-prompt"}
    BY <2>1, <2>3 DEF Put
  <2>6. Judged'[1] = s /\ Judged'[2] = problems
    BY <1>2
  <2>7. Ran'
    BY <1>1, <1>2, <1>4, <1>5, <1>6, <1>7, <2>4, <2>6 DEF Ran, Says
  <2> QED
    BY <2>5, <2>7
<1>9. Rewritten'
  BY <1>1 DEF Rewritten
<1>10. TypeOK' /\ IsRecord(s)' /\ IsFile(file)' /\ file' # <<>>
  BY <1>1, <1>8 DEF IInv, TypeOK, IsRecord
<1>11. Scanned'
  <2>1. CASE pc = "failed"
    BY <1>1, <2>1 DEF Scanned
  <2>2. CASE pc = "validated"
    BY <1>1, <2>2, SplitStays
  <2> QED
    BY <1>1, <2>1, <2>2
<1>12. Entered'
  BY <1>1 DEF IInv, Entered
<1>13. pc' \in {"validated", "unwritten"} => problems' = Validate(s)'
  <2>1. PICK sk : sk = s
    OBVIOUS
  <2>2. Validate(sk)' = Validate(sk) /\ s' = sk
    BY <1>1, <2>1, VerdictStays
  <2> QED
    BY <1>1, <2>1, <2>2 DEF IInv
<1> QED
  BY <1>8, <1>9, <1>10, <1>11, <1>12, <1>13 DEF IInv

LEMMA EncodeStep == IInv /\ Encode => IInv'
<1> SUFFICES ASSUME IInv, Encode PROVE IInv'
  OBVIOUS
<1>1. /\ pc = "validated" /\ round = 1
      /\ file' = Encoded(s) /\ kept' = <<s, problems>> /\ round' = 2 /\ pc' = "open"
      /\ at' = 1 /\ front' = <<>> /\ s' = EmptySkill /\ problems' = {}
      /\ UNCHANGED <<dirName, exits>>
  BY DEF Encode
<1>2. PICK k : k = s
  OBVIOUS
<1>3. IsSkill(k) /\ problems = Validate(k)
  BY <1>1, <1>2, ReadIs DEF IInv
<1>4. IsFile(file') /\ Len(file') \in Nat /\ file' # <<>>
  <2>1. /\ Len(Frontmatter(k)) \in Nat /\ Len(Encoded(k)) \in Nat
        /\ Len(Frontmatter(k)) + 2 <= Len(Encoded(k)) /\ IsFile(Encoded(k))
    BY <1>3, EncodedIs
  <2>2. PICK f : f = Encoded(k)
    OBVIOUS
  <2>3. IsFile(f) /\ Len(f) \in Nat /\ Len(f) > 0
    BY <2>1, <2>2
  <2>4. f # <<>>
    BY <2>3
  <2> QED
    BY <1>1, <1>2, <2>2, <2>3, <2>4
<1>5. Rewritten'
  <2>1. Validate(k)' = Validate(k)
    BY <1>1, VerdictStays
  <2>2. kept' = <<k, problems>> /\ kept'[1] = k /\ kept'[2] = Validate(k)'
    BY <1>1, <1>2, <1>3, <2>1
  <2>3. file' = Encoded(k) /\ pc' # "failed"
    BY <1>1, <1>2
  <2> QED
    BY <1>3, <2>2, <2>3 DEF Rewritten
<1>6. Ran'
  <2>1. Judged = <<s, problems>> /\ Judged' = <<s, problems>> /\ ~Failed /\ ~Failed'
    BY <1>1 DEF Judged, Failed
  <2>2. Refused1' <=> Refused1
    BY <2>1 DEF Refused1
  <2> QED
    BY <1>1, <2>1, <2>2 DEF IInv, Ran
<1>7. TypeOK'
  BY <1>1, <1>4, Blank, EmptyFunction DEF IInv, TypeOK
<1>8. IsRecord(s)' /\ Scanned' /\ Entered'
  BY <1>1, Blank DEF Scanned, Entered, IsRecord
<1> QED
  BY <1>1, <1>4, <1>5, <1>6, <1>7, <1>8 DEF IInv

LEMMA EncodeFailsStep == IInv /\ EncodeFails => IInv'
<1> SUFFICES ASSUME IInv, EncodeFails PROVE IInv'
  OBVIOUS
<1>1. /\ pc = "validated" /\ round = 1 /\ pc' = "unwritten"
      /\ UNCHANGED <<file, dirName, round, at, front, s, problems, kept, exits>>
  BY DEF EncodeFails
<1>2. TypeOK' /\ IsRecord(s)' /\ IsFile(file)' /\ file' # <<>>
  BY <1>1 DEF IInv, TypeOK, IsRecord
<1>3. Scanned'
  BY <1>1, SplitStays
<1>4. Entered' /\ Rewritten'
  BY <1>1 DEF IInv, Entered, Rewritten
<1>5. problems' = Validate(s)'
  <2>1. PICK sk : sk = s
    OBVIOUS
  <2>2. Validate(sk)' = Validate(sk) /\ s' = sk
    BY <1>1, <2>1, VerdictStays
  <2> QED
    BY <1>1, <2>1, <2>2 DEF IInv
<1>6. Ran'
  <2>1. Judged' = Judged /\ ~Failed /\ ~Failed'
    BY <1>1 DEF Judged, Failed
  <2>2. Refused1' <=> Refused1
    BY <2>1 DEF Refused1
  <2> QED
    BY <1>1, <2>1, <2>2 DEF IInv, Ran
<1> QED
  BY <1>2, <1>3, <1>4, <1>5, <1>6 DEF IInv

LEMMA Stutter == IInv /\ UNCHANGED vars => IInv'
<1> SUFFICES ASSUME IInv, UNCHANGED vars PROVE IInv'
  OBVIOUS
<1>1. UNCHANGED <<file, dirName, round, pc, at, front, s, problems, kept, exits>>
  BY DEF vars
<1>2. TypeOK' /\ IsRecord(s)' /\ IsFile(file)' /\ file' # <<>>
  BY <1>1 DEF IInv, TypeOK, IsRecord
<1>3. Scanned'
  <2>1. CASE pc \in {"open", "scan", "failed"}
    BY <1>1, <2>1 DEF IInv, Scanned, isFence
  <2>2. CASE pc \notin {"open", "scan", "failed"}
    BY <1>1, <2>2, SplitStays
  <2> QED
    BY <2>1, <2>2
<1>4. Entered'
  BY <1>1 DEF IInv, Entered
<1>5. pc' \in {"validated", "unwritten"} => problems' = Validate(s)'
  <2>1. PICK sk : sk = s
    OBVIOUS
  <2>2. Validate(sk)' = Validate(sk) /\ s' = sk
    BY <1>1, <2>1, VerdictStays
  <2> QED
    BY <1>1, <2>1, <2>2 DEF IInv
<1>6. Rewritten'
  <2>1. round = 2 => pc' # "failed"
    BY <1>1 DEF IInv, Rewritten
  <2> QED
    BY <1>1, <2>1, RewrittenStays
<1>7. Ran'
  <2>1. Judged' = Judged /\ (Failed' <=> Failed)
    BY <1>1 DEF Judged, Failed
  <2>2. Refused1' <=> Refused1
    BY <2>1 DEF Refused1
  <2> QED
    BY <1>1, <2>1, <2>2 DEF IInv, Ran
<1> QED
  BY <1>2, <1>3, <1>4, <1>5, <1>6, <1>7 DEF IInv

----------------------------------------------------------------------------
(* The skill that is read is made of the entries before the one looked at, *)
(* each in its place, and the file of the second round is what Encode      *)
(* makes of a skill that was read and validated (parse.go:22-127, 178-244).*)
THEOREM Invariant == Spec => []IInv
<1>1. IInv /\ [Next]_vars => IInv'
  BY OpenStep, ScanLineStep, ScanEndStep, UnmarshalStep, ParseKeyStep, ParseEndStep,
     ReportStep, CommandStep, EncodeStep, EncodeFailsStep, Stutter DEF Next, Parse
<1> QED
  BY Starts, <1>1, PTL DEF Spec

(* The state keeps its types, and a field of the wrong shape is empty      *)
(* (parse.go:53-127).                                                      *)
THEOREM TypeCorrect == Spec => []TypeOK
<1>1. IInv => TypeOK
  BY DEF IInv
<1> QED
  BY Invariant, <1>1, PTL

(* Of every frontmatter that parses, each value stands in the skill or is  *)
(* reported (parse.go:41-51, 118-126); of the pairs of metadata each that  *)
(* no later pair of its key follows (parse.go:136-146).                    *)
THEOREM HeldOrReportedAlways == Spec => []HeldOrReported
<1>1. ASSUME IInv, pc = "validated", NEW j \in DOMAIN front
      PROVE  LET key == front[j].key
                 v == front[j].value
             IN \/ \E p \in problems : p.field = key
                \/ /\ key \in scalarKeys
                   /\ v.kind = "scalar"
                   /\ s.field[key] \in {v.text, Trim(v.text)}
                \/ /\ key = "metadata"
                   /\ v.kind = "map"
                   /\ DOMAIN s.Metadata = {v.pairs[x][1] : x \in DOMAIN v.pairs}
                   /\ \A x \in DOMAIN v.pairs :
                        \/ s.Metadata[v.pairs[x][1]] = v.pairs[x][2].text
                        \/ \E y \in DOMAIN v.pairs : x < y /\ v.pairs[y][1] = v.pairs[x][1]
                \/ key \notin knownKeys /\ s.Extra[key] = Decoded(v)
  <2>1. IsFile(front) /\ AsRead(s, front, Len(front)) /\ problems = Validate(s)
    BY <1>1, ReadIs DEF IInv
  <2>2. PICK e : e = front[j]
    OBVIOUS
  <2>3. Made(s, e)
    BY <2>1, <2>2, Lines DEF AsRead
  <2>4. CASE e.key \in s.shape
    <3>1. Err(e.key, "shape") \in problems
      BY <2>1, <2>4, ValidateSays
    <3>2. Err(e.key, "shape").field = e.key
      BY DEF Err
    <3> QED
      BY <2>2, <3>1, <3>2
  <2>5. CASE e.key \notin s.shape
    <3>1. ~Misshapen(e.key, e.value)
      BY <2>3, <2>5 DEF Made
    <3>2. CASE e.key \in scalarKeys
      BY <2>2, <2>3, <3>1, <3>2 DEF Made, Misshapen, Said
    <3>3. CASE e.key = "metadata"
      <4>1. e.value.kind = "map" /\ Strings(e.value.pairs) = DOMAIN e.value.pairs
        BY <3>1, <3>3 DEF Misshapen
      <4>2. s.Metadata = StringPairs(e.value.pairs)
        BY <2>3, <3>3, <4>1 DEF Made, Meta
      <4>3. IsValue(e.value)
        BY <2>1, <2>2, <2>3, Lines DEF Made
      <4>4. /\ DOMAIN s.Metadata = {e.value.pairs[x][1] : x \in DOMAIN e.value.pairs}
            /\ \A x \in DOMAIN e.value.pairs :
                 \/ s.Metadata[e.value.pairs[x][1]] = e.value.pairs[x][2].text
                 \/ \E y \in DOMAIN e.value.pairs :
                      x < y /\ e.value.pairs[y][1] = e.value.pairs[x][1]
        <5>1. PICK v : v = e.value
          OBVIOUS
        <5>2. IsValue(v) /\ v.kind = "map" /\ Strings(v.pairs) = DOMAIN v.pairs
          BY <4>1, <4>3, <5>1
        <5> QED
          BY <4>2, <5>1, <5>2, LastStands, Zenon
      <4> QED
        BY <2>2, <3>3, <4>1, <4>4
    <3>4. CASE e.key \notin knownKeys
      BY <2>2, <2>3, <3>4 DEF Made
    <3> QED
      BY <3>2, <3>3, <3>4 DEF scalarKeys
  <2> QED
    BY <2>4, <2>5
<1>2. IInv => HeldOrReported
  BY <1>1 DEF HeldOrReported
<1> QED
  BY Invariant, <1>2, PTL

(* Whatever is not listed has an error that says why                       *)
(* (discover.go:128-140).                                                  *)
THEOREM HiddenIsReportedAlways == Spec => []HiddenIsReported
<1>1. ASSUME IInv
      PROVE  HiddenIsReported
  <2>1. pc = "validated" => Fielded(s) /\ problems = Validate(s)
    BY <1>1, ReadIs DEF IInv
  <2> QED
    BY <2>1, Hidden DEF HiddenIsReported
<1> QED
  BY Invariant, <1>1, PTL

(* The names that pass are those of the grammar, whatever the limit        *)
(* (validate.go:87-115).                                                   *)
THEOREM NameGrammarAlways == Spec => []NameGrammar
<1>1. ASSUME IInv
      PROVE  NameGrammar
  <2>1. pc = "validated" => Fielded(s) /\ problems = Validate(s)
    BY <1>1, ReadIs DEF IInv
  <2> QED
    BY <2>1, NameJudged DEF NameGrammar, Grammar
<1> QED
  BY Invariant, <1>1, PTL

(* What is read of the file Encode wrote.                                  *)
LEMMA ReadAgain ==
  ASSUME IInv, round = 2, Loaded
  PROVE  /\ IsSkill(kept[1]) /\ kept[2] = Validate(kept[1])
         /\ s.field = kept[1].field /\ s.Metadata = kept[1].Metadata
         /\ SameExtra(s, kept[1]) /\ s.Body = kept[1].Body
         /\ s.shape = {} /\ s.keys = Written(kept[1])
<1>1. PICK k : k = kept[1]
  OBVIOUS
<1>2. IsSkill(k) /\ kept[2] = Validate(k)
  BY <1>1 DEF IInv, Rewritten
<1>3. front = Frontmatter(k) /\ s.Body = k.Body
  BY <1>1, SecondRound DEF Loaded
<1>4. IsSkill(s) /\ AsRead(s, Frontmatter(k), Len(Frontmatter(k)))
  BY <1>3, ReadIs DEF Loaded
<1>5. s.shape \subseteq s.keys
  BY DEF IInv, TypeOK
<1>6. /\ s.field = k.field /\ s.Metadata = k.Metadata /\ SameExtra(s, k)
      /\ s.shape = {} /\ s.keys = Written(k)
  BY <1>2, <1>4, <1>5, ReadBack
<1> QED
  BY <1>1, <1>2, <1>3, <1>6

(* Encode writes what parse reads back, whatever the skill, but for a      *)
(* float64 without a fraction under another key, which may come back as an *)
(* int (parse.go:178-244).                                                 *)
THEOREM RoundTripAlways == Spec => []RoundTrip
<1>1. ASSUME IInv
      PROVE  RoundTrip
  <2>1. round = 2 => pc # "failed"
    BY <1>1 DEF IInv, Rewritten
  <2> QED
    BY <1>1, <2>1, ReadAgain DEF RoundTrip, SameExtra
<1> QED
  BY Invariant, <1>1, PTL

(* Nor does it change the verdict, unless a value of the wrong shape was   *)
(* left out (parse.go:178-182, skill.go:81-85).                            *)
THEOREM VerdictKeptAlways == Spec => []VerdictKept
<1>1. ASSUME IInv, round = 2, pc = "validated", kept[1].shape = {}
      PROVE  HasErrors(problems) <=> HasErrors(kept[2])
  <2>1. /\ IsSkill(kept[1]) /\ kept[2] = Validate(kept[1])
        /\ s.field = kept[1].field /\ DOMAIN s.Extra = DOMAIN kept[1].Extra
        /\ s.shape = {} /\ s.keys = Written(kept[1])
    BY <1>1, ReadAgain DEF Loaded, SameExtra
  <2>2. problems = Validate(s)
    BY <1>1 DEF IInv
  <2> QED
    BY <1>1, <2>1, <2>2, SameErrors
<1>2. IInv => VerdictKept
  BY <1>1 DEF VerdictKept
<1> QED
  BY Invariant, <1>2, PTL

(* What validate passes the other two commands accept and show             *)
(* (main.go:83-105, 145-162, 187-207).                                     *)
THEOREM ValidIsPromptedAlways == Spec => []ValidIsPrompted
<1>1. ASSUME IInv, {"validate", "to-prompt", "read-properties"} = DOMAIN exits,
             exits["validate"].status = 0
      PROVE  exits["read-properties"].status = 0 /\ exits["to-prompt"] = exits["read-properties"]
  <2>1. ~Failed /\ ~HasErrors(Judged[2]) /\ exits # <<>>
    <3>1. DOMAIN <<>> = {}
      OBVIOUS
    <3> QED
      BY <1>1, <3>1 DEF IInv, Ran
  <2>2. PICK k : k = Judged[1]
    OBVIOUS
  <2>3. Fielded(k) /\ Judged[2] = Validate(k)
    <3>1. CASE round = 1
      <4>1. Judged = <<s, problems>> /\ pc \in {"validated", "unwritten"}
        BY <1>1, <2>1, <3>1 DEF IInv, Ran, Judged, Failed
      <4> QED
        BY <1>1, <2>2, <4>1, ReadIs DEF IInv
    <3>2. CASE round # 1
      <4>1. Judged = kept /\ round = 2
        BY <1>1, <3>2 DEF IInv, TypeOK, Judged
      <4> QED
        BY <1>1, <2>2, <4>1 DEF IInv, Rewritten, IsSkill, Fielded
    <3> QED
      BY <3>1, <3>2
  <2>4. \A p \in Validate(k) : p = Long
    BY <2>1, <2>3, Severe DEF HasErrors
  <2>5. ~Refused1
    BY <2>1, <2>3, <2>4 DEF Refused1, Long, trimmedKeys
  <2>6. listable(k)
    BY <2>1, <2>3, Hidden DEF HasErrors
  <2>7. /\ exits["read-properties"] = Exit(0, {k.field["name"]})
        /\ exits["to-prompt"] = Exit(0, {k.field["name"]})
    BY <1>1, <2>2, <2>5, <2>6 DEF IInv, Ran
  <2> QED
    BY <2>7 DEF Exit
<1>2. IInv => ValidIsPrompted
  BY <1>1 DEF ValidIsPrompted
<1> QED
  BY Invariant, <1>2, PTL
=============================================================================

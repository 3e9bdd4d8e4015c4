-------------------------- MODULE RuleScanProofs ---------------------------
(* Theorems about RuleScan, for every field of every length.               *)
EXTENDS RuleScan, TLAPS, SequenceTheorems, FiniteSetTheorems, NatSets

(* A character of the field.                                               *)
LEMMA FieldType ==
  ASSUME TypeOK
  PROVE  s \in Seq(Alphabet) /\ Len(s) \in Nat /\ \A j \in 1..Len(s) : s[j] \in Alphabet
BY InputsAssumption, ElementOfSeq DEF TypeOK

(* The first position of a character a token holds.                        *)
LEMMA FirstPosition ==
  ASSUME NEW tok \in Seq(Alphabet), NEW c, Holds(tok, c)
  PROVE  IndexOf(tok, c) \in 1..Len(tok)
<1>1. Positions(tok, c) \in SUBSET Nat /\ Positions(tok, c) # {}
  BY DEF Holds, Positions
<1>2. \E j \in Positions(tok, c) : \A x \in Positions(tok, c) : j <= x
  BY <1>1, Least
<1> QED
  BY <1>2 DEF IndexOf, Positions

(* A token that parses is cut into a tool and a specifier.                 *)
LEMMA ParsedType ==
  ASSUME NEW tok \in Seq(Alphabet), Verdict(tok) = "rule"
  PROVE  parseRule(tok) \in [tool : Seq(Alphabet), spec : Seq(Alphabet)]
<1>1. CASE ~Holds(tok, Open)
  BY <1>1 DEF parseRule, NoSpec
<1>2. CASE Holds(tok, Open)
  <2> DEFINE o == IndexOf(tok, Open)
             m == MatchOf(tok)
  <2>1. o \in 1..Len(tok)
    BY <1>2, FirstPosition
  <2>2. Balanced(tok) # {} /\ Balanced(tok) \subseteq 1..Len(tok) /\ Balanced(tok) \in SUBSET Nat
    BY <1>2, <2>1 DEF Verdict, Balanced
  <2>3. \E j \in Balanced(tok) : \A x \in Balanced(tok) : j <= x
    BY <2>2, Least
  <2>4. m \in 1..Len(tok)
    BY <2>2, <2>3 DEF MatchOf
  <2> HIDE DEF o, m
  <2>5. SubSeq(tok, 1, o - 1) \in Seq(Alphabet) /\ SubSeq(tok, o + 1, m - 1) \in Seq(Alphabet)
    BY <2>1, <2>4, SubSeqProperties
  <2> QED
    BY <1>2, <2>5 DEF parseRule, Specifier, o, m
<1> QED
  BY <1>1, <1>2

----------------------------------------------------------------------------
(* Counting.                                                               *)
LEMMA CountIs ==
  ASSUME NEW x, NEW c, NEW a \in Nat, NEW b \in Nat
  PROVE  /\ Count(x, c, a, b) \in Nat
         /\ Count(x, c, a, b) = 0 <=> \A j \in a..b : x[j] # c
<1> DEFINE S == {j \in a..b : x[j] = c}
<1>1. IsFiniteSet(a..b) /\ S \in SUBSET (a..b)
  BY FS_Interval
<1>2. IsFiniteSet(S)
  BY <1>1, FS_Subset
<1>3. Cardinality(S) \in Nat /\ (Cardinality(S) = 0 <=> S = {})
  BY <1>2, FS_CardinalityType, FS_EmptySet
<1> QED
  BY <1>3 DEF Count

LEMMA CountStep ==
  ASSUME NEW x, NEW c, NEW a \in Nat, NEW b \in Nat, a <= b + 1
  PROVE  Count(x, c, a, b + 1) = Count(x, c, a, b) + IF x[b + 1] = c THEN 1 ELSE 0
<1> DEFINE S == {j \in a..b : x[j] = c}
           T == {j \in a..b + 1 : x[j] = c}
<1>1. IsFiniteSet(a..b) /\ S \in SUBSET (a..b)
  BY FS_Interval
<1>2. IsFiniteSet(S)
  BY <1>1, FS_Subset
<1>3. b + 1 \notin S /\ Cardinality(S) \in Nat
  BY <1>2, FS_CardinalityType
<1>4. T = IF x[b + 1] = c THEN S \cup {b + 1} ELSE S
  OBVIOUS
<1> HIDE DEF S, T
<1>5. Cardinality(T) = Cardinality(S) + IF x[b + 1] = c THEN 1 ELSE 0
  BY <1>2, <1>3, <1>4, FS_AddElement
<1> QED
  BY <1>5 DEF Count, S, T

LEMMA CountNext ==
  ASSUME NEW x, NEW c, NEW b \in Nat
  PROVE  Count(x, c, 1, b + 1) = Count(x, c, 1, b) + IF x[b + 1] = c THEN 1 ELSE 0
<1>1. PICK a \in Nat : a = 1 /\ a <= b + 1
  OBVIOUS
<1>2. Count(x, c, a, b + 1) = Count(x, c, a, b) + IF x[b + 1] = c THEN 1 ELSE 0
  BY <1>1, CountStep
<1> QED
  BY <1>1, <1>2

LEMMA CountSplit ==
  ASSUME NEW x, NEW c, NEW a \in Nat, NEW m \in Nat, NEW b \in Nat, a <= m + 1, m <= b
  PROVE  Count(x, c, a, b) = Count(x, c, a, m) + Count(x, c, m + 1, b)
<1> DEFINE S == {j \in a..m : x[j] = c}
           T == {j \in m + 1..b : x[j] = c}
           U == {j \in a..b : x[j] = c}
<1>1. /\ IsFiniteSet(a..m) /\ S \in SUBSET (a..m)
      /\ IsFiniteSet(m + 1..b) /\ T \in SUBSET (m + 1..b)
  BY FS_Interval
<1>2. IsFiniteSet(S) /\ IsFiniteSet(T)
  BY <1>1, FS_Subset
<1>3. S \cap T = {} /\ U = S \cup T
  OBVIOUS
<1> HIDE DEF S, T, U
<1>4. Cardinality(S \cup T) = Cardinality(S) + Cardinality(T) - Cardinality(S \cap T)
  BY <1>2, FS_Union
<1>5. Cardinality(S) \in Nat /\ Cardinality(T) \in Nat
  BY <1>2, FS_CardinalityType
<1>6. Cardinality(U) = Cardinality(S) + Cardinality(T)
  BY <1>3, <1>4, <1>5, FS_EmptySet
<1> QED
  BY <1>6 DEF Count, S, T, U

(* A stretch of a text holds what the text holds there.                    *)
LEMMA CountWithin ==
  ASSUME NEW x, NEW y \in Seq(Alphabet), NEW c, NEW d \in Nat,
         \A i \in 1..Len(y) : y[i] = x[d + i], NEW j \in 0..Len(y)
  PROVE  Count(y, c, 1, j) = Count(x, c, d + 1, d + j)
<1> DEFINE S == {i \in Nat : i <= Len(y) => Count(y, c, 1, i) = Count(x, c, d + 1, d + i)}
<1>1. 0 \in S
  <2>1. \A i \in 1..0 : y[i] # c
    OBVIOUS
  <2>2. \A i \in d + 1..d : x[i] # c
    OBVIOUS
  <2>3. d + 1 \in Nat /\ d + 0 = d
    OBVIOUS
  <2>4. Count(y, c, 1, 0) = 0
    BY <2>1, CountIs
  <2>5. Count(x, c, d + 1, d) = 0
    BY <2>2, <2>3, CountIs
  <2> QED
    BY <2>3, <2>4, <2>5
<1>2. ASSUME NEW i \in S
      PROVE  i + 1 \in S
  <2> SUFFICES ASSUME i + 1 <= Len(y)
               PROVE  Count(y, c, 1, i + 1) = Count(x, c, d + 1, d + (i + 1))
    OBVIOUS
  <2>1. i \in Nat /\ Count(y, c, 1, i) = Count(x, c, d + 1, d + i)
    OBVIOUS
  <2>2. i + 1 \in 1..Len(y) /\ d + 1 \in Nat /\ d + i \in Nat /\ d + 1 <= (d + i) + 1
    BY <2>1
  <2>3. y[i + 1] = x[(d + i) + 1] /\ d + (i + 1) = (d + i) + 1 
    BY <2>1, <2>2
  <2>4. Count(y, c, 1, i + 1) = Count(y, c, 1, i) + IF y[i + 1] = c THEN 1 ELSE 0
    BY <2>1, CountNext
  <2>5. Count(x, c, d + 1, (d + i) + 1) =
          Count(x, c, d + 1, d + i) + IF x[(d + i) + 1] = c THEN 1 ELSE 0
    BY <2>2, CountStep
  <2> QED
    BY <2>1, <2>3, <2>4, <2>5
<1> HIDE DEF S
<1>3. S = Nat
  <2>1. S \in SUBSET Nat
    BY DEF S
  <2> QED
    BY <1>1, <1>2, <2>1, SetInduction
<1> QED
  BY <1>3 DEF S

----------------------------------------------------------------------------
(* Parentheses that match: what Matched says of the field, of any text.    *)
Nested(x) ==
  /\ \A j \in 1..Len(x) : Count(x, Close, 1, j) <= Count(x, Open, 1, j)
  /\ Count(x, Open, 1, Len(x)) = Count(x, Close, 1, Len(x))

(* The parenthesis opened first, in a text whose parentheses match.        *)
LEMMA FirstOpen ==
  ASSUME NEW tok \in Seq(Alphabet), Nested(tok), Holds(tok, Open)
  PROVE  LET o == IndexOf(tok, Open)
         IN /\ o \in 1..Len(tok) /\ tok[o] = Open
            /\ \A j \in 1..o - 1 : tok[j] # Open /\ tok[j] # Close
            /\ \A j \in o..Len(tok), c \in {Open, Close} :
                 Count(tok, c, o, j) = Count(tok, c, 1, j)
<1> DEFINE o == IndexOf(tok, Open)
<1>1. Positions(tok, Open) \in SUBSET Nat /\ Positions(tok, Open) # {}
  BY DEF Holds, Positions
<1>2. \E j \in Positions(tok, Open) : \A x \in Positions(tok, Open) : j <= x
  BY <1>1, Least
<1>3. o \in Positions(tok, Open) /\ \A x \in Positions(tok, Open) : o <= x
  BY <1>2 DEF IndexOf
<1> HIDE DEF o
<1>4. o \in 1..Len(tok) /\ tok[o] = Open /\ Len(tok) \in Nat
  BY <1>3 DEF Positions
<1>5. \A j \in 1..o - 1 : tok[j] # Open
  <2> SUFFICES ASSUME NEW j \in 1..o - 1, tok[j] = Open PROVE FALSE
    OBVIOUS
  <2>1. j \in Positions(tok, Open) /\ ~(o <= j)
    BY <1>4 DEF Positions
  <2> QED
    BY <1>3, <2>1
<1>6. o - 1 \in Nat /\ (o - 1) + 1 = o
  BY <1>4
<1>7. Count(tok, Open, 1, o - 1) = 0
  BY <1>5, <1>6, CountIs
<1>8. Count(tok, Close, 1, o - 1) = 0
  <2>1. CASE o = 1
    <3>1. \A j \in 1..o - 1 : tok[j] # Close
      BY <2>1
    <3> QED
      BY <1>6, <3>1, CountIs
  <2>2. CASE o # 1
    <3>1. o - 1 \in 1..Len(tok)
      BY <1>4, <2>2
    <3>2. Count(tok, Close, 1, o - 1) <= Count(tok, Open, 1, o - 1)
      BY <3>1 DEF Nested
    <3>3. Count(tok, Close, 1, o - 1) \in Nat
      BY <1>6, CountIs
    <3> QED
      BY <1>7, <3>2, <3>3
  <2> QED
    BY <2>1, <2>2
<1>9. \A j \in 1..o - 1 : tok[j] # Close
  BY <1>6, <1>8, CountIs
<1>10. ASSUME NEW j \in o..Len(tok), NEW c \in {Open, Close}
       PROVE  Count(tok, c, o, j) = Count(tok, c, 1, j)
  <2>1. j \in Nat /\ o - 1 <= j /\ 1 <= (o - 1) + 1
    BY <1>4
  <2>2. Count(tok, c, 1, j) = Count(tok, c, 1, o - 1) + Count(tok, c, o, j)
    <3>1. Count(tok, c, 1, j) = Count(tok, c, 1, o - 1) + Count(tok, c, (o - 1) + 1, j)
      BY <1>6, <2>1, CountSplit
    <3> QED
      BY <1>6, <3>1
  <2>3. Count(tok, c, o, j) \in Nat
    BY <1>4, <2>1, CountIs
  <2> QED
    BY <1>7, <1>8, <2>2, <2>3
<1> QED
  BY <1>4, <1>5, <1>9, <1>10 DEF o

(* Where as many are closed as opened, the first has been closed.          *)
LEMMA Closes ==
  ASSUME NEW tok \in Seq(Alphabet), Nested(tok), Holds(tok, Open),
         NEW n \in IndexOf(tok, Open)..Len(tok),
         Count(tok, Open, 1, n) = Count(tok, Close, 1, n)
  PROVE  \E j \in Balanced(tok) : j <= n
<1> DEFINE o == IndexOf(tok, Open)
           S == {j \in o..Len(tok) : Count(tok, Open, 1, j) = Count(tok, Close, 1, j)}
<1>1. /\ o \in 1..Len(tok) /\ tok[o] = Open /\ Len(tok) \in Nat
      /\ \A j \in 1..o - 1 : tok[j] # Open /\ tok[j] # Close
      /\ \A j \in o..Len(tok), c \in {Open, Close} :
           Count(tok, c, o, j) = Count(tok, c, 1, j)
  BY FirstOpen
<1> HIDE DEF o
<1>2. PICK j \in S : \A i \in S : j <= i
  <2>1. S \in SUBSET Nat /\ S # {}
    BY <1>1 DEF o
  <2> HIDE DEF S
  <2> QED
    BY <2>1, Least
<1>3. j \in o..Len(tok) /\ j - 1 \in Nat /\ (j - 1) + 1 = j /\ 1 <= (j - 1) + 1
  BY <1>1
<1>4. \A c \in {Open, Close} :
        /\ Count(tok, c, 1, j) = Count(tok, c, 1, j - 1) + IF tok[j] = c THEN 1 ELSE 0
        /\ Count(tok, c, 1, j - 1) \in Nat
  <2> TAKE c \in {Open, Close}
  <2>1. Count(tok, c, 1, (j - 1) + 1) = Count(tok, c, 1, j - 1) + IF tok[(j - 1) + 1] = c THEN 1 ELSE 0
    BY <1>3, CountNext
  <2>2. Count(tok, c, 1, j - 1) \in Nat
    BY <1>3, CountIs
  <2> QED
    BY <1>3, <2>1, <2>2
<1>5. j # o
  <2> SUFFICES ASSUME j = o PROVE FALSE
    OBVIOUS
  <2>0. o - 1 \in Nat
    BY <1>1
  <2>1. ASSUME NEW c \in {Open, Close}
        PROVE  Count(tok, c, 1, o - 1) = 0
    <3>1. \A i \in 1..o - 1 : tok[i] # c
      BY <1>1
    <3> QED
      BY <2>0, <3>1, CountIs
  <2> QED
    BY <1>1, <1>4, <2>1 DEF Open, Close
<1>6. Count(tok, Open, 1, j - 1) # Count(tok, Close, 1, j - 1)
  <2>1. j - 1 \in o..Len(tok) /\ ~(j <= j - 1)
    BY <1>1, <1>3, <1>5
  <2>2. j - 1 \notin S
    BY <1>2, <2>1
  <2> QED
    BY <2>1, <2>2
<1>7. Count(tok, Close, 1, j - 1) <= Count(tok, Open, 1, j - 1)
  <2>1. j - 1 \in 1..Len(tok)
    BY <1>1, <1>3, <1>5
  <2> QED
    BY <2>1 DEF Nested
<1>8. Count(tok, Open, 1, j) = Count(tok, Close, 1, j)
  OBVIOUS
<1>9. tok[j] = Close
  BY <1>4, <1>6, <1>7, <1>8 DEF Open, Close
<1>10. j \in Balanced(tok)
  <2>1. Count(tok, Open, o, j) = Count(tok, Close, o, j)
    BY <1>1, <1>3, <1>8
  <2> QED
    BY <1>3, <1>9, <2>1 DEF Balanced, o
<1>11. j <= n
  <2>1. n \in S
    BY DEF o
  <2> QED
    BY <1>2, <2>1
<1> QED
  BY <1>10, <1>11

(* Where the first parenthesis is closed again.                            *)
LEMMA FirstClosed ==
  ASSUME NEW tok \in Seq(Alphabet), Nested(tok), Holds(tok, Open)
  PROVE  /\ MatchOf(tok) \in Balanced(tok) /\ \A j \in Balanced(tok) : MatchOf(tok) <= j
         /\ \A j \in Balanced(tok) :
              /\ j \in IndexOf(tok, Open) + 1..Len(tok) /\ tok[j] = Close
              /\ Count(tok, Open, 1, j) = Count(tok, Close, 1, j)
<1> DEFINE o == IndexOf(tok, Open)
<1>1. /\ o \in 1..Len(tok) /\ tok[o] = Open /\ Len(tok) \in Nat
      /\ \A j \in o..Len(tok), c \in {Open, Close} :
           Count(tok, c, o, j) = Count(tok, c, 1, j)
  BY FirstOpen
<1>2. Len(tok) \in o..Len(tok) /\ Count(tok, Open, 1, Len(tok)) = Count(tok, Close, 1, Len(tok))
  BY <1>1 DEF Nested
<1>3. Balanced(tok) # {}
  BY <1>2, Closes
<1>4. Balanced(tok) \in SUBSET Nat
  BY <1>1 DEF Balanced
<1>5. \E j \in Balanced(tok) : \A x \in Balanced(tok) : j <= x
  BY <1>3, <1>4, Least
<1>6. MatchOf(tok) \in Balanced(tok) /\ \A j \in Balanced(tok) : MatchOf(tok) <= j
  BY <1>5 DEF MatchOf
<1>7. ASSUME NEW j \in Balanced(tok)
      PROVE  /\ j \in o + 1..Len(tok) /\ tok[j] = Close
             /\ Count(tok, Open, 1, j) = Count(tok, Close, 1, j)
  <2>1. j \in o..Len(tok) /\ tok[j] = Close /\ Count(tok, Open, o, j) = Count(tok, Close, o, j)
    BY DEF Balanced
  <2>2. j # o
    BY <1>1, <2>1 DEF Open, Close
  <2>3. Count(tok, Open, 1, j) = Count(tok, Close, 1, j)
    BY <1>1, <2>1
  <2> HIDE DEF o
  <2> QED
    BY <1>1, <2>1, <2>2, <2>3
<1> QED
  BY <1>6, <1>7

(* A token whose parentheses match has its verdict for another reason, and *)
(* is a rule exactly when the grammar has it.                              *)
LEMMA NotUnmatched ==
  ASSUME NEW tok \in Seq(Alphabet), Nested(tok)
  PROVE  /\ Verdict(tok) # "unmatched"
         /\ ~Holds(tok, Open) => ~Holds(tok, Close)
<1>1. ~Holds(tok, Open) => ~Holds(tok, Close)
  <2> SUFFICES ASSUME \A j \in 1..Len(tok) : tok[j] # Open, NEW i \in 1..Len(tok), tok[i] = Close
               PROVE  FALSE
    BY DEF Holds, Positions
  <2>1. Count(tok, Open, 1, Len(tok)) = 0
    BY CountIs
  <2>2. Count(tok, Close, 1, Len(tok)) # 0
    BY CountIs
  <2> QED
    BY <2>1, <2>2 DEF Nested
<1>2. Holds(tok, Open) => Balanced(tok) # {}
  BY FirstClosed
<1> QED
  BY <1>1, <1>2 DEF Verdict

(* A name has no parentheses, so it opens none.                            *)
LEMMA NameCount ==
  ASSUME NEW tok \in Seq(Alphabet), NEW n \in 1..Len(tok), IsName(SubSeq(tok, 1, n))
  PROVE  \A j \in 1..n : tok[j] # Open /\ tok[j] # Close
<1> DEFINE t == SubSeq(tok, 1, n)
<1>1. Len(t) = n /\ \A j \in 1..n : t[j] = tok[j]
  <2>1. 1 \in Int /\ n \in Int /\ \A j \in 1..n : tok[j] \in Alphabet
    BY ElementOfSeq
  <2>2. Len(t) = IF 1 <= n THEN n - 1 + 1 ELSE 0
    BY <2>1, SubSeqProperties
  <2>3. \A j \in 1..n - 1 + 1 : t[j] = tok[1 + j - 1]
    BY <2>1, SubSeqProperties
  <2> QED
    BY <2>2, <2>3
<1>2. ~Holds(t, Open) /\ ~Holds(t, Close)
  BY DEF IsName
<1> HIDE DEF t
<1> QED
  BY <1>1, <1>2 DEF Holds, Positions

(* The grammar has what is parsed.                                         *)
LEMMA RuleIsToken ==
  ASSUME NEW tok \in Seq(Alphabet), Nested(tok), tok # <<>>, Verdict(tok) = "rule"
  PROVE  IsToken(tok)
<1>1. CASE ~Holds(tok, Open)
  BY <1>1, NotUnmatched DEF IsToken, IsName
<1>2. CASE Holds(tok, Open)
  <2> DEFINE o == IndexOf(tok, Open)
  <2>1. /\ o \in 1..Len(tok) /\ tok[o] = Open /\ Len(tok) \in Nat
        /\ \A j \in 1..o - 1 : tok[j] # Open /\ tok[j] # Close
    BY <1>2, FirstOpen
  <2>2. tok[1] # Open /\ MatchOf(tok) = Len(tok)
    BY <1>2 DEF Verdict
  <2>3. Specifier(tok) # <<>> /\ Specifier(tok) # <<Bang>>
    BY <1>2 DEF Verdict
  <2>4. Specifier(tok) = SubSeq(tok, o + 1, Len(tok) - 1)
    BY <2>2 DEF Specifier
  <2>5. Len(tok) \in Balanced(tok) /\ \A j \in Balanced(tok) : Len(tok) <= j
    BY <1>2, <2>2, FirstClosed
  <2>6. Len(tok) \in o + 1..Len(tok) /\ tok[Len(tok)] = Close
    BY <1>2, <2>5, FirstClosed
  <2>7. ASSUME NEW j \in o..Len(tok) - 1
        PROVE  Count(tok, Open, 1, j) > Count(tok, Close, 1, j)
    <3>1. j \in 1..Len(tok) /\ j \in Nat /\ j \in o..Len(tok) /\ j < Len(tok)
      BY <2>1
    <3>2. Count(tok, Open, 1, j) # Count(tok, Close, 1, j)
      <4> SUFFICES ASSUME Count(tok, Open, 1, j) = Count(tok, Close, 1, j) PROVE FALSE
        OBVIOUS
      <4>1. PICK i \in Balanced(tok) : i <= j
        BY <1>2, <3>1, Closes
      <4>2. i \in Nat
        BY <2>1 DEF Balanced
      <4> QED
        BY <2>1, <2>5, <3>1, <4>1, <4>2
    <3>3. Count(tok, Open, 1, j) \in Nat /\ Count(tok, Close, 1, j) \in Nat
      BY <3>1, CountIs
    <3>4. Count(tok, Close, 1, j) <= Count(tok, Open, 1, j)
      BY <3>1 DEF Nested
    <3> QED
      BY <3>2, <3>3, <3>4
  <2>8. o - 1 \in 1..Len(tok) - 3
    <3>1. o # 1
      BY <2>1, <2>2
    <3>2. o + 1 <= Len(tok) - 1
      <4> SUFFICES ASSUME ~(o + 1 <= Len(tok) - 1) PROVE FALSE
        OBVIOUS
      <4>1. SubSeq(tok, o + 1, Len(tok) - 1) = <<>>
        BY <2>1, SubSeqEmpty
      <4> QED
        BY <2>3, <2>4, <4>1
    <3> HIDE DEF o
    <3> QED
      BY <2>1, <3>1, <3>2
  <2>9. IsName(SubSeq(tok, 1, o - 1))
    <3> HIDE DEF o
    <3>1. 1 \in Int /\ o - 1 \in Int /\ \A j \in 1..o - 1 : tok[j] \in Alphabet
      BY <2>1, ElementOfSeq
    <3>2. Len(SubSeq(tok, 1, o - 1)) = IF 1 <= o - 1 THEN o - 1 - 1 + 1 ELSE 0
      BY <3>1, SubSeqProperties
    <3>3. \A j \in 1..o - 1 - 1 + 1 : SubSeq(tok, 1, o - 1)[j] = tok[1 + j - 1]
      BY <3>1, SubSeqProperties
    <3>4. PICK t : t = SubSeq(tok, 1, o - 1)
      OBVIOUS
    <3>5. Len(t) = o - 1 /\ \A j \in 1..o - 1 : t[j] = tok[j]
      BY <2>1, <2>8, <3>2, <3>3, <3>4
    <3>6. ~Holds(t, Open) /\ ~Holds(t, Close)
      BY <2>1, <3>5 DEF Holds, Positions
    <3>7. t # <<>>
      BY <2>1, <2>8, <3>5
    <3> QED
      BY <3>4, <3>6, <3>7 DEF IsName
  <2>10. /\ tok[(o - 1) + 1] = Open /\ tok[Len(tok)] = Close
         /\ \A j \in (o - 1) + 1..Len(tok) - 1 : Count(tok, Open, 1, j) > Count(tok, Close, 1, j)
         /\ SubSeq(tok, (o - 1) + 2, Len(tok) - 1) # <<Bang>>
    <3>1. (o - 1) + 1 = o /\ (o - 1) + 2 = o + 1
      BY <2>1
    <3> QED
      BY <2>1, <2>3, <2>4, <2>6, <2>7, <3>1
  <2> HIDE DEF o
  <2> QED
    BY <2>8, <2>9, <2>10 DEF IsToken
<1> QED
  BY <1>1, <1>2

(* What the grammar has is parsed.                                         *)
LEMMA TokenIsRule ==
  ASSUME NEW tok \in Seq(Alphabet), Nested(tok), IsToken(tok)
  PROVE  Verdict(tok) = "rule"
<1>1. CASE IsName(tok)
  BY <1>1 DEF Verdict, IsName
<1>2. CASE ~IsName(tok)
  <2>1. PICK n \in 1..Len(tok) - 3 :
          /\ IsName(SubSeq(tok, 1, n))
          /\ tok[n + 1] = Open
          /\ tok[Len(tok)] = Close
          /\ \A j \in n + 1..Len(tok) - 1 : Count(tok, Open, 1, j) > Count(tok, Close, 1, j)
          /\ SubSeq(tok, n + 2, Len(tok) - 1) # <<Bang>>
    BY <1>2 DEF IsToken
  <2>2. Len(tok) \in Nat /\ n \in 1..Len(tok) /\ n + 1 \in 1..Len(tok)
    OBVIOUS
  <2>3. \A j \in 1..n : tok[j] # Open /\ tok[j] # Close
    BY <2>1, <2>2, NameCount
  <2>4. Holds(tok, Open)
    BY <2>1, <2>2 DEF Holds, Positions
  <2> DEFINE o == IndexOf(tok, Open)
  <2>5. /\ o \in 1..Len(tok) /\ tok[o] = Open
        /\ \A j \in 1..o - 1 : tok[j] # Open /\ tok[j] # Close
    BY <2>4, FirstOpen
  <2>6. o = n + 1
    <3> HIDE DEF o
    <3>1. ~(o < n + 1)
      BY <2>3, <2>5
    <3>2. ~(n + 1 < o)
      BY <2>1, <2>2, <2>5
    <3> QED
      BY <2>2, <2>5, <3>1, <3>2
  <2>7. MatchOf(tok) = Len(tok)
    <3>1. /\ MatchOf(tok) \in o + 1..Len(tok)
          /\ Count(tok, Open, 1, MatchOf(tok)) = Count(tok, Close, 1, MatchOf(tok))
      BY <2>4, FirstClosed
    <3>2. PICK m : m = MatchOf(tok)
      OBVIOUS
    <3>3. m \in o + 1..Len(tok) /\ Count(tok, Open, 1, m) = Count(tok, Close, 1, m)
      BY <3>1, <3>2
    <3>4. m \in Nat /\ Count(tok, Open, 1, m) \in Nat
      BY <2>2, <2>6, <3>3, CountIs
    <3>5. ~(m \in n + 1..Len(tok) - 1)
      BY <2>1, <3>3, <3>4
    <3> HIDE DEF o
    <3> QED
      BY <2>2, <2>6, <3>2, <3>3, <3>5
  <2>8. Specifier(tok) = SubSeq(tok, n + 2, Len(tok) - 1)
    <3>1. o + 1 = n + 2
      BY <2>2, <2>6
    <3> QED
      BY <2>7, <3>1 DEF Specifier
  <2>9. Specifier(tok) # <<>>
    <3>1. n + 2 \in Int /\ Len(tok) - 1 \in Int /\ \A j \in n + 2..Len(tok) - 1 : tok[j] \in Alphabet
      BY <2>2, ElementOfSeq
    <3>2. Len(SubSeq(tok, n + 2, Len(tok) - 1)) =
            IF n + 2 <= Len(tok) - 1 THEN Len(tok) - 1 - (n + 2) + 1 ELSE 0
      BY <3>1, SubSeqProperties
    <3>3. PICK t : t = SubSeq(tok, n + 2, Len(tok) - 1)
      OBVIOUS
    <3>4. Len(t) # 0
      BY <2>2, <3>2, <3>3
    <3>5. t # <<>>
      BY <3>4
    <3> QED
      BY <2>8, <3>3, <3>5
  <2>10. tok[1] # Open
    BY <2>2, <2>3
  <2>11. Balanced(tok) # {}
    BY <2>4, FirstClosed
  <2> QED
    BY <2>1, <2>4, <2>7, <2>8, <2>9, <2>10, <2>11 DEF Verdict
<1> QED
  BY <1>1, <1>2

(* A rule writes back as its token, and is bare only when the token is.    *)
LEMMA WritesBack ==
  ASSUME NEW tok \in Seq(Alphabet), Nested(tok), Verdict(tok) = "rule"
  PROVE  /\ Text(parseRule(tok)) = tok
         /\ parseRule(tok).spec = NoSpec <=> ~Holds(tok, Open)
<1>1. CASE ~Holds(tok, Open)
  BY <1>1 DEF parseRule, Text, NoSpec
<1>2. CASE Holds(tok, Open)
  <2> DEFINE o == IndexOf(tok, Open)
             tool == SubSeq(tok, 1, o - 1)
             spec == SubSeq(tok, o + 1, Len(tok) - 1)
             text == tool \o <<Open>> \o spec \o <<Close>>
  <2>1. o \in 1..Len(tok) /\ tok[o] = Open /\ Len(tok) \in Nat
    BY <1>2, FirstOpen
  <2>2. MatchOf(tok) = Len(tok) /\ Specifier(tok) # <<>>
    BY <1>2 DEF Verdict
  <2>3. Len(tok) \in o + 1..Len(tok) /\ tok[Len(tok)] = Close
    BY <1>2, <2>2, FirstClosed
  <2>4. Specifier(tok) = spec
    BY <2>2 DEF Specifier
  <2>5. /\ parseRule(tok) = [tool |-> tool, spec |-> spec] /\ spec # NoSpec
        /\ Text(parseRule(tok)) = text
    BY <1>2, <2>2, <2>4 DEF parseRule, NoSpec, Text
  <2> HIDE DEF o
  <2>6. /\ tool \in Seq(Alphabet) /\ Len(tool) = o - 1
        /\ \A j \in 1..o - 1 : tool[j] = tok[j]
    <3>1. 1 \in Int /\ o - 1 \in Int /\ \A j \in 1..o - 1 : tok[j] \in Alphabet
      BY <2>1, ElementOfSeq
    <3>2. tool \in Seq(Alphabet) /\ Len(tool) = IF 1 <= o - 1 THEN o - 1 - 1 + 1 ELSE 0
      BY <3>1, SubSeqProperties
    <3>3. \A j \in 1..o - 1 - 1 + 1 : tool[j] = tok[1 + j - 1]
      BY <3>1, SubSeqProperties
    <3> QED
      BY <2>1, <3>2, <3>3
  <2>7. /\ spec \in Seq(Alphabet) /\ Len(spec) = Len(tok) - 1 - o
        /\ \A j \in 1..Len(tok) - 1 - o : spec[j] = tok[o + j]
    <3>1. o + 1 \in Int /\ Len(tok) - 1 \in Int /\ \A j \in o + 1..Len(tok) - 1 : tok[j] \in Alphabet
      BY <2>1, ElementOfSeq
    <3>2. /\ spec \in Seq(Alphabet)
          /\ Len(spec) = IF o + 1 <= Len(tok) - 1 THEN Len(tok) - 1 - (o + 1) + 1 ELSE 0
      BY <3>1, SubSeqProperties
    <3>3. \A j \in 1..Len(tok) - 1 - (o + 1) + 1 : spec[j] = tok[o + 1 + j - 1]
      BY <3>1, SubSeqProperties
    <3> QED
      BY <2>1, <2>3, <3>2, <3>3
  <2> HIDE DEF tool, spec
  <2>8. Open \in Alphabet /\ Close \in Alphabet
    BY DEF Alphabet
  <2>9. /\ text \in Seq(Alphabet) /\ Len(text) = Len(tok)
        /\ \A j \in 1..Len(tok) : text[j] = tok[j]
    <3> DEFINE a == tool \o <<Open>>
               b == a \o spec
    <3>1. /\ a \in Seq(Alphabet) /\ Len(a) = o
          /\ \A j \in 1..o : a[j] = tok[j]
      BY <2>1, <2>6, <2>8
    <3> HIDE DEF a
    <3>2. /\ b \in Seq(Alphabet) /\ Len(b) = Len(tok) - 1
          /\ \A j \in 1..Len(tok) - 1 : b[j] = tok[j]
      <4>1. b \in Seq(Alphabet) /\ Len(b) = Len(a) + Len(spec)
        BY <2>7, <3>1, ConcatProperties, Zenon
      <4>2. \A j \in 1..Len(a) + Len(spec) : b[j] = IF j <= Len(a) THEN a[j] ELSE spec[j - Len(a)]
        BY <2>7, <3>1, ConcatProperties, Zenon
      <4>3. ASSUME NEW j \in 1..Len(tok) - 1
            PROVE  b[j] = tok[j]
        <5>1. CASE j <= o
          BY <2>1, <2>7, <3>1, <4>2, <5>1
        <5>2. CASE ~(j <= o)
          <6>1. j - o \in 1..Len(tok) - 1 - o /\ o + (j - o) = j
            BY <2>1, <5>2
          <6>2. spec[j - o] = tok[j]
            BY <2>7, <6>1
          <6> QED
            BY <2>1, <2>3, <2>7, <3>1, <4>2, <5>2, <6>2
        <5> QED
          BY <5>1, <5>2
      <4> HIDE DEF b
      <4> QED
        BY <2>1, <2>3, <2>7, <3>1, <4>1, <4>3
    <3> HIDE DEF b
    <3>3. text = b \o <<Close>>
      BY DEF a, b
    <3> HIDE DEF text
    <3> QED
      BY <2>1, <2>3, <2>8, <3>2, <3>3
  <2>10. text = tok
    <3> HIDE DEF text
    <3> QED
      BY <2>9, SeqEqual
  <2> QED
    BY <1>2, <2>5, <2>10
<1> QED
  BY <1>1, <1>2

----------------------------------------------------------------------------
(* The grammar, of any text.                                               *)
CutsOf(x) ==
  {j \in 1..Len(x) : isSpace(x[j]) /\ Count(x, Open, 1, j) = Count(x, Close, 1, j)}
SpansOf(x) ==
  {ab \in (1..Len(x)) \X (1..Len(x)) :
     /\ ab[1] <= ab[2]
     /\ CutsOf(x) \cap ab[1]..ab[2] = {}
     /\ ab[1] = 1 \/ ab[1] - 1 \in CutsOf(x)
     /\ ab[2] = Len(x) \/ ab[2] + 1 \in CutsOf(x)}
Piece(x, ab) == SubSeq(x, ab[1], ab[2])
Accepted(x) == Nested(x) /\ \A ab \in SpansOf(x) : IsToken(Piece(x, ab))
Before(x, ab) == {y \in SpansOf(x) : y[1] <= ab[1]}
Rank(x, ab) == Cardinality(Before(x, ab))

(* The spans the scanner at n has ended.                                   *)
Ended(x, n) == {ab \in SpansOf(x) : ab[2] + 1 < n}

(* The rules of rs, then the tokens of ts, are the spans of E in order.    *)
Listed(x, rs, ts, E) ==
  LET n == Len(rs) + Len(ts)
  IN /\ IsFiniteSet(E) /\ Cardinality(E) = n
     /\ \A ab \in E :
          /\ Rank(x, ab) \in 1..n
          /\ IF Rank(x, ab) <= Len(rs)
               THEN /\ Verdict(Piece(x, ab)) = "rule"
                    /\ rs[Rank(x, ab)] = parseRule(Piece(x, ab))
               ELSE ts[Rank(x, ab) - Len(rs)] = Piece(x, ab)
     /\ \A m \in 1..n : \E ab \in E : Rank(x, ab) = m

(* A span's parentheses match when the text's do.                          *)
LEMMA SpanNested ==
  ASSUME NEW x \in Seq(Alphabet), Nested(x), NEW ab \in SpansOf(x)
  PROVE  Piece(x, ab) \in Seq(Alphabet) /\ Piece(x, ab) # <<>> /\ Nested(Piece(x, ab))
<1>1. PICK a \in 1..Len(x), b \in 1..Len(x) :
        /\ ab = <<a, b>> /\ a <= b
        /\ a = 1 \/ a - 1 \in CutsOf(x)
        /\ b = Len(x) \/ b + 1 \in CutsOf(x)
  BY DEF SpansOf
<1>2. PICK d \in Nat, n \in Nat : d + 1 = a /\ n = b - d /\ d + n = b /\ n >= 1 /\ d < Len(x)
  <2>1. a - 1 \in Nat /\ b - (a - 1) \in Nat
    BY <1>1
  <2> QED
    BY <1>1, <2>1
<1>3. PICK t : t = Piece(x, ab)
  OBVIOUS
<1>4. t \in Seq(Alphabet) /\ Len(t) = n /\ \A i \in 1..n : t[i] = x[d + i]
  <2>1. a \in Int /\ b \in Int /\ \A j \in a..b : x[j] \in Alphabet
    BY <1>1, ElementOfSeq
  <2>2. t = SubSeq(x, a, b)
    BY <1>1, <1>3 DEF Piece
  <2>3. t \in Seq(Alphabet) /\ Len(t) = IF a <= b THEN b - a + 1 ELSE 0
    BY <2>1, <2>2, SubSeqProperties
  <2>4. \A i \in 1..b - a + 1 : t[i] = x[a + i - 1]
    BY <2>1, <2>2, SubSeqProperties
  <2>5. b - a + 1 = n /\ \A i \in 1..n : a + i - 1 = d + i
    BY <1>1, <1>2
  <2> QED
    BY <1>1, <2>3, <2>4, <2>5
<1>5. Count(x, Open, 1, d) = Count(x, Close, 1, d)
  <2>1. CASE a = 1
    <3>1. d = 0 /\ \A c : \A j \in 1..0 : x[j] # c
      BY <1>2, <2>1
    <3>2. Count(x, Open, 1, 0) = 0 /\ Count(x, Close, 1, 0) = 0
      BY <3>1, CountIs
    <3> QED
      BY <3>1, <3>2
  <2>2. CASE a # 1
    <3>1. d \in CutsOf(x)
      BY <1>1, <1>2, <2>2
    <3> QED
      BY <3>1 DEF CutsOf
  <2> QED
    BY <2>1, <2>2
<1>6. ASSUME NEW c, NEW j \in 1..n
      PROVE  /\ Count(t, c, 1, j) \in Nat /\ Count(x, c, 1, d) \in Nat
             /\ Count(x, c, 1, d + j) = Count(x, c, 1, d) + Count(t, c, 1, j)
  <2>1. j \in 0..n /\ j \in Nat /\ d + j \in Nat /\ 1 <= d + 1 /\ d <= d + j
    BY <1>2
  <2>2. Count(t, c, 1, j) = Count(x, c, d + 1, d + j)
    BY <1>2, <1>4, <2>1, CountWithin
  <2>3. Count(x, c, 1, d + j) = Count(x, c, 1, d) + Count(x, c, d + 1, d + j)
    BY <2>1, CountSplit
  <2>4. Count(t, c, 1, j) \in Nat /\ Count(x, c, 1, d) \in Nat
    BY <2>1, CountIs
  <2> QED
    BY <2>2, <2>3, <2>4
<1>7. Count(x, Open, 1, b) = Count(x, Close, 1, b)
  <2>1. CASE b = Len(x)
    BY <2>1 DEF Nested
  <2>2. CASE b # Len(x)
    <3>1. b + 1 \in CutsOf(x)
      BY <1>1, <2>2
    <3>2. /\ x[b + 1] # Open /\ x[b + 1] # Close
          /\ Count(x, Open, 1, b + 1) = Count(x, Close, 1, b + 1)
      BY <3>1 DEF CutsOf, isSpace, Space, Open, Close
    <3>3. b \in Nat /\ 1 <= b + 1
      BY <1>1
    <3>4. /\ Count(x, Open, 1, b + 1) = Count(x, Open, 1, b) + 0
          /\ Count(x, Close, 1, b + 1) = Count(x, Close, 1, b) + 0
      BY <3>2, <3>3, CountNext
    <3>5. Count(x, Open, 1, b) \in Nat /\ Count(x, Close, 1, b) \in Nat
      BY <3>3, CountIs
    <3> QED
      BY <3>2, <3>4, <3>5
  <2> QED
    BY <2>1, <2>2
<1>8. ASSUME NEW j \in 1..n
      PROVE  Count(t, Close, 1, j) <= Count(t, Open, 1, j)
  <2>1. d + j \in 1..Len(x)
    BY <1>1, <1>2
  <2>2. Count(x, Close, 1, d + j) <= Count(x, Open, 1, d + j)
    BY <2>1 DEF Nested
  <2>3. /\ Count(x, Open, 1, d + j) = Count(x, Open, 1, d) + Count(t, Open, 1, j)
        /\ Count(x, Close, 1, d + j) = Count(x, Close, 1, d) + Count(t, Close, 1, j)
        /\ Count(x, Open, 1, d) \in Nat
        /\ Count(t, Open, 1, j) \in Nat /\ Count(t, Close, 1, j) \in Nat
    BY <1>6
  <2> QED
    BY <1>5, <2>2, <2>3
<1>9. Count(t, Open, 1, n) = Count(t, Close, 1, n)
  <2>1. n \in 1..n
    BY <1>2
  <2>2. /\ Count(x, Open, 1, b) = Count(x, Open, 1, d) + Count(t, Open, 1, n)
        /\ Count(x, Close, 1, b) = Count(x, Close, 1, d) + Count(t, Close, 1, n)
        /\ Count(x, Open, 1, d) \in Nat
        /\ Count(t, Open, 1, n) \in Nat /\ Count(t, Close, 1, n) \in Nat
    BY <1>2, <1>6, <2>1
  <2> QED
    BY <1>5, <1>7, <2>2
<1>10. t # <<>>
  BY <1>2, <1>4
<1>11. Nested(t)
  BY <1>4, <1>8, <1>9 DEF Nested
<1> QED
  BY <1>3, <1>4, <1>10, <1>11

(* The span that ends before k is the next one.                            *)
LEMMA NextSpan ==
  ASSUME NEW x \in Seq(Alphabet), NEW n \in 1..Len(x), NEW m \in n + 1..Len(x) + 1,
         n = 1 \/ n - 1 \in CutsOf(x), CutsOf(x) \cap n..m - 1 = {},
         m = Len(x) + 1 \/ m \in CutsOf(x)
  PROVE  /\ Before(x, <<n, m - 1>>) = Ended(x, m) \cup {<<n, m - 1>>}
         /\ Ended(x, m + 1) = Ended(x, m) \cup {<<n, m - 1>>}
         /\ <<n, m - 1>> \notin Ended(x, m)
<1> DEFINE new == <<n, m - 1>>
<1>0. Len(x) \in Nat /\ n \in Nat /\ m \in Nat /\ m - 1 \in 1..Len(x) /\ n <= m - 1
      /\ (m - 1) + 1 = m
  OBVIOUS
<1>1. new \in SpansOf(x)
  <2>1. m - 1 = Len(x) \/ (m - 1) + 1 \in CutsOf(x)
    BY <1>0
  <2> QED
    BY <1>0, <2>1 DEF SpansOf
<1>2. ASSUME NEW ab \in SpansOf(x)
      PROVE  /\ ab[1] < n => ab[2] + 1 < n
             /\ ab[1] = n => ab = new
             /\ ab[1] > n => ab[2] >= m
             /\ ab[1] \in Nat /\ ab[2] \in Nat
  <2>1. PICK a \in 1..Len(x), b \in 1..Len(x) :
          /\ ab = <<a, b>> /\ a <= b
          /\ CutsOf(x) \cap a..b = {}
          /\ a = 1 \/ a - 1 \in CutsOf(x)
          /\ b = Len(x) \/ b + 1 \in CutsOf(x)
    BY DEF SpansOf
  <2>2. a < n => b + 1 < n
    <3> SUFFICES ASSUME a < n PROVE b + 1 < n
      OBVIOUS
    <3>1. n - 1 \in CutsOf(x) /\ n - 1 \notin a..b
      BY <1>0, <2>1
    <3> QED
      BY <1>0, <2>1, <3>1
  <2>3. a = n => b = m - 1
    <3> SUFFICES ASSUME a = n PROVE b = m - 1
      OBVIOUS
    <3>1. ~(b < m - 1)
      <4> SUFFICES ASSUME b < m - 1 PROVE FALSE
        OBVIOUS
      <4>1. b + 1 \in CutsOf(x) /\ b + 1 \in n..m - 1
        BY <1>0, <2>1
      <4> QED
        BY <4>1
    <3>2. ~(b > m - 1)
      <4> SUFFICES ASSUME b > m - 1 PROVE FALSE
        OBVIOUS
      <4>1. m \in CutsOf(x) /\ m \in a..b
        BY <1>0, <2>1
      <4> QED
        BY <2>1, <4>1
    <3> QED
      BY <1>0, <2>1, <3>1, <3>2
  <2>4. a > n => b >= m
    <3> SUFFICES ASSUME a > n, ~(b >= m) PROVE FALSE
      BY <1>0, <2>1
    <3>1. a - 1 \in CutsOf(x) /\ a - 1 \in n..m - 1
      BY <1>0, <2>1
    <3> QED
      BY <3>1
  <2> QED
    BY <2>1, <2>2, <2>3, <2>4
<1>3. new[1] = n /\ new[2] = m - 1
  OBVIOUS
<1> HIDE DEF new
<1>4. \A ab \in SpansOf(x) : ab[1] <= n <=> ab[2] + 1 < m \/ ab = new
  <2> TAKE ab \in SpansOf(x)
  <2> QED
    BY <1>0, <1>2, <1>3
<1>5. \A ab \in SpansOf(x) : ab[2] + 1 < m + 1 <=> ab[2] + 1 < m \/ ab = new
  <2> TAKE ab \in SpansOf(x)
  <2> QED
    BY <1>0, <1>2, <1>3
<1>6. Before(x, new) = Ended(x, m) \cup {new}
  BY <1>1, <1>3, <1>4 DEF Before, Ended
<1>7. Ended(x, m + 1) = Ended(x, m) \cup {new}
  BY <1>1, <1>5 DEF Ended
<1>8. new \notin Ended(x, m)
  BY <1>0, <1>3 DEF Ended
<1> QED
  BY <1>6, <1>7, <1>8 DEF new

(* No span ends before a cut that follows a cut, or before what is none.   *)
LEMMA NoSpan ==
  ASSUME NEW x \in Seq(Alphabet), NEW m \in 1..Len(x) + 1,
         m = 1 \/ m - 1 \in CutsOf(x) \/ (m # Len(x) + 1 /\ m \notin CutsOf(x))
  PROVE  Ended(x, m + 1) = Ended(x, m)
<1>1. ASSUME NEW ab \in SpansOf(x)
      PROVE  ab[2] \in Nat /\ ab[2] + 1 # m
  <2>1. PICK a \in 1..Len(x), b \in 1..Len(x) :
          /\ ab = <<a, b>> /\ a <= b
          /\ CutsOf(x) \cap a..b = {}
          /\ b = Len(x) \/ b + 1 \in CutsOf(x)
    BY DEF SpansOf
  <2>2. b + 1 # m
    <3> SUFFICES ASSUME b + 1 = m PROVE FALSE
      OBVIOUS
    <3>1. m # 1 /\ m - 1 = b /\ b \in a..b
      BY <2>1
    <3>2. m - 1 \notin CutsOf(x)
      BY <2>1, <3>1
    <3> QED
      BY <2>1, <3>1, <3>2
  <2> QED
    BY <2>1, <2>2
<1>2. \A ab \in SpansOf(x) : ab[2] + 1 < m + 1 <=> ab[2] + 1 < m
  BY <1>1
<1> QED
  BY <1>2 DEF Ended

(* A token more, and a rule for the first token.                           *)
LEMMA ListedMore ==
  ASSUME NEW x, NEW ts \in Seq(Seq(Alphabet)), NEW E, NEW new,
         Listed(x, <<>>, ts, E), new \notin E, Before(x, new) = E \cup {new},
         Piece(x, new) \in Seq(Alphabet)
  PROVE  Listed(x, <<>>, Append(ts, Piece(x, new)), E \cup {new})
<1> DEFINE t == Piece(x, new)
           us == Append(ts, t)
           F == E \cup {new}
<1>1. Len(<<>>) = 0 /\ Len(ts) \in Nat
  OBVIOUS
<1>2. /\ IsFiniteSet(E) /\ Cardinality(E) = Len(ts)
      /\ \A ab \in E : Rank(x, ab) \in 1..Len(ts) /\ ts[Rank(x, ab)] = Piece(x, ab)
      /\ \A m \in 1..Len(ts) : \E ab \in E : Rank(x, ab) = m
  BY <1>1 DEF Listed
<1>3. /\ Len(us) = Len(ts) + 1 /\ us[Len(ts) + 1] = t
      /\ \A m \in 1..Len(ts) : us[m] = ts[m]
  <2> HIDE DEF t
  <2> QED
    BY DEF t
<1> HIDE DEF t, us
<1>4. IsFiniteSet(F) /\ Cardinality(F) = Len(ts) + 1
  BY <1>2, FS_AddElement
<1>5. Rank(x, new) = Len(ts) + 1
  BY <1>4 DEF Rank
<1> HIDE DEF F
<1>6. ASSUME NEW ab \in F
      PROVE  Rank(x, ab) \in 1..Len(ts) + 1 /\ us[Rank(x, ab)] = Piece(x, ab)
  <2>1. CASE ab \in E
    BY <1>1, <1>2, <1>3, <2>1
  <2>2. CASE ab = new
    BY <1>1, <1>3, <1>5, <2>2 DEF t
  <2> QED
    BY <2>1, <2>2 DEF F
<1>7. ASSUME NEW m \in 1..Len(ts) + 1
      PROVE  \E ab \in F : Rank(x, ab) = m
  <2>1. CASE m = Len(ts) + 1
    BY <1>5, <2>1 DEF F
  <2>2. CASE m # Len(ts) + 1
    <3>1. m \in 1..Len(ts)
      BY <1>1, <2>2
    <3> QED
      BY <1>2, <3>1 DEF F
  <2> QED
    BY <2>1, <2>2
<1>8. Listed(x, <<>>, us, F)
  BY <1>1, <1>3, <1>4, <1>6, <1>7 DEF Listed
<1> QED
  BY <1>8 DEF F, us, t

LEMMA ListedParsed ==
  ASSUME NEW x, NEW R, NEW rs \in Seq(R), NEW ts \in Seq(Seq(Alphabet)), NEW E,
         Listed(x, rs, ts, E), ts # <<>>, Verdict(Head(ts)) = "rule",
         parseRule(Head(ts)) \in R
  PROVE  Listed(x, Append(rs, parseRule(Head(ts))), Tail(ts), E)
<1>1. PICK r : r = parseRule(Head(ts))
  OBVIOUS
<1>2. PICK qs : qs = Append(rs, r)
  OBVIOUS
<1>3. PICK us : us = Tail(ts)
  OBVIOUS
<1>4. /\ Len(rs) \in Nat /\ Len(ts) \in Nat \ {0} /\ Head(ts) = ts[1]
      /\ Len(us) = Len(ts) - 1
      /\ \A m \in 1..Len(ts) - 1 : us[m] = ts[m + 1]
  BY <1>3
<1>5. /\ Len(qs) = Len(rs) + 1 /\ qs[Len(rs) + 1] = r
      /\ \A m \in 1..Len(rs) : qs[m] = rs[m]
  BY <1>1, <1>2, AppendProperties
<1>6. Len(qs) + Len(us) = Len(rs) + Len(ts)
  BY <1>4, <1>5
<1>7. ASSUME NEW ab \in E
      PROVE  IF Rank(x, ab) <= Len(qs)
               THEN /\ Verdict(Piece(x, ab)) = "rule"
                    /\ qs[Rank(x, ab)] = parseRule(Piece(x, ab))
               ELSE us[Rank(x, ab) - Len(qs)] = Piece(x, ab)
  <2>1. PICK n : n = Rank(x, ab)
    OBVIOUS
  <2>2. /\ n \in 1..Len(rs) + Len(ts)
        /\ IF n <= Len(rs)
             THEN Verdict(Piece(x, ab)) = "rule" /\ rs[n] = parseRule(Piece(x, ab))
             ELSE ts[n - Len(rs)] = Piece(x, ab)
    BY <2>1 DEF Listed
  <2>3. CASE n <= Len(rs)
    BY <1>4, <1>5, <2>1, <2>2, <2>3
  <2>4. CASE n = Len(rs) + 1
    <3>1. n - Len(rs) = 1 /\ ~(n <= Len(rs))
      BY <1>4, <2>4
    <3>2. Head(ts) = Piece(x, ab)
      BY <1>4, <2>2, <3>1
    <3> QED
      BY <1>1, <1>4, <1>5, <2>1, <2>4, <3>2
  <2>5. CASE n > Len(rs) + 1
    <3>1. /\ ~(n <= Len(rs)) /\ ~(n <= Len(qs)) /\ n - Len(qs) \in 1..Len(ts) - 1
          /\ (n - Len(qs)) + 1 = n - Len(rs)
      BY <1>4, <1>5, <2>2, <2>5
    <3>2. us[n - Len(qs)] = ts[n - Len(rs)]
      BY <1>4, <3>1
    <3> QED
      BY <2>1, <2>2, <3>1, <3>2
  <2> QED
    BY <1>4, <2>2, <2>3, <2>4, <2>5
<1>8. Listed(x, qs, us, E)
  BY <1>6, <1>7 DEF Listed
<1> QED
  BY <1>1, <1>2, <1>3, <1>8

----------------------------------------------------------------------------
(* A token being scanned begins with a character that is no space, behind  *)
(* the character looked at, and its spaces and the parentheses still open  *)
(* come after one it opened: what the slices and the first characters of   *)
(* the tokens rest on.                                                     *)
Begun ==
  start > 0 =>
    /\ start \in 1..Len(s) /\ ~isSpace(s[start])
    /\ \A j \in start..k - 1 : isSpace(s[j]) => \E i \in start..j - 1 : s[i] = Open
    /\ depth > 0 => \E i \in start..k - 1 : s[i] = Open

ScanInv == SlicesInRange /\ TokensBegin /\ Begun

(* The token cut at the end of a stretch.                                  *)
WellBegun(t) ==
  /\ t # <<>>
  /\ \A j \in 1..Len(t) : isSpace(t[j]) => \E i \in 1..j - 1 : t[i] = Open

LEMMA TokenCut ==
  ASSUME TypeOK, SlicesInRange, Begun, pc = "split", start > 0
  PROVE  LET t == SubSeq(s, start, k - 1) IN t \in Seq(Alphabet) /\ WellBegun(t)
<1>1. start \in 1..Len(s) /\ start < k
  BY DEF Begun, SlicesInRange
<1>2. k - 1 \in start..Len(s)
  BY <1>1, FieldType DEF TypeOK
<1> DEFINE t == SubSeq(s, start, k - 1)
<1>3. /\ t \in Seq(Alphabet)
      /\ Len(t) = k - 1 - start + 1
      /\ \A j \in 1..(k - 1 - start + 1) : t[j] = s[start + j - 1]
  BY <1>1, <1>2, FieldType, SubSeqProperties
<1>4. k - 1 - start + 1 = k - start /\ k - start > 0
  BY <1>1, <1>2 DEF TypeOK
<1> HIDE DEF t
<1>5. t # <<>>
  BY <1>3, <1>4
<1>6. ASSUME NEW j \in 1..Len(t), isSpace(t[j])
      PROVE  \E i \in 1..j - 1 : t[i] = Open
  <2>1. start + j - 1 \in start..k - 1 /\ isSpace(s[start + j - 1])
    BY <1>1, <1>2, <1>3, <1>4, <1>6
  <2>2. PICK i \in start..(start + j - 1) - 1 : s[i] = Open
    BY <1>1, <2>1 DEF Begun
  <2>3. /\ i - start + 1 \in 1..j - 1
        /\ i - start + 1 \in 1..(k - 1 - start + 1)
        /\ start + (i - start + 1) - 1 = i
    BY <1>1, <1>2, <1>3, <1>4, <2>2
  <2>4. t[i - start + 1] = s[start + (i - start + 1) - 1]
    BY <1>3, <2>3
  <2> QED
    BY <2>2, <2>3, <2>4
<1> QED
  BY <1>3, <1>5, <1>6 DEF WellBegun, t

LEMMA EachWellBegun == TokensBegin <=> \A n \in DOMAIN tokens : WellBegun(tokens[n])
BY DEF TokensBegin, WellBegun

LEMMA EachWellBegunNext ==
  TokensBegin' <=> \A n \in DOMAIN tokens' : WellBegun(tokens'[n])
BY DEF TokensBegin, WellBegun, isSpace

(* Ending a token adds it, well typed and well begun, to the tokens.       *)
LEMMA EndTokenAdds ==
  ASSUME TypeOK, SlicesInRange, TokensBegin, Begun, pc = "split", EndToken
  PROVE  tokens' \in Seq(Seq(Alphabet)) /\ TokensBegin' /\ start' = 0
<1>1. CASE start > 0
  <2> DEFINE t == SubSeq(s, start, k - 1)
  <2>1. t \in Seq(Alphabet) /\ WellBegun(t)
    BY <1>1, TokenCut
  <2>2. tokens' = Append(tokens, t)
    BY <1>1 DEF EndToken
  <2> HIDE DEF t
  <2>3. /\ tokens' \in Seq(Seq(Alphabet))
        /\ \A n \in DOMAIN tokens' : n \in DOMAIN tokens \/ tokens'[n] = t
        /\ \A n \in DOMAIN tokens : tokens'[n] = tokens[n]
    <3>1. t \in Seq(Alphabet) /\ tokens \in Seq(Seq(Alphabet))
      BY <2>1 DEF TypeOK
    <3> QED
      BY <2>2, <3>1
  <2>4. \A n \in DOMAIN tokens' : WellBegun(tokens'[n])
    BY <2>1, <2>3, EachWellBegun
  <2> QED
    BY <2>3, <2>4, EachWellBegunNext DEF EndToken
<1>2. CASE start = 0
  BY <1>2 DEF EndToken, TypeOK, TokensBegin, isSpace
<1> QED
  BY <1>1, <1>2 DEF TypeOK

LEMMA ScanInit == Init => TypeOK /\ ScanInv
<1> SUFFICES ASSUME Init PROVE TypeOK /\ ScanInv
  OBVIOUS
<1>1. s \in Seq(Alphabet)
  BY InputsAssumption DEF Init
<1>2. Len(s) \in Nat
  BY <1>1, LenProperties
<1> QED
  BY <1>1, <1>2 DEF Init, TypeOK, ScanInv, SlicesInRange, TokensBegin, Begun

LEMMA ScanStep == TypeOK /\ ScanInv /\ [Next]_vars => TypeOK' /\ ScanInv'
<1> SUFFICES ASSUME TypeOK, ScanInv, [Next]_vars PROVE TypeOK' /\ ScanInv'
  OBVIOUS
<1>0. /\ SlicesInRange /\ TokensBegin /\ Begun
      /\ Len(s) \in Nat
      /\ \A j \in 1..Len(s) : s[j] \in Alphabet
  BY FieldType DEF ScanInv
<1>1. CASE SkipSpace
  <2>1. pc = "split" /\ k \in 1..Len(s) /\ depth = 0 /\ EndToken
    BY <1>1 DEF SkipSpace, Scanning, Separates, TypeOK
  <2>2. tokens' \in Seq(Seq(Alphabet)) /\ TokensBegin' /\ start' = 0
    BY <1>0, <2>1, EndTokenAdds
  <2>3. k' = k + 1 /\ UNCHANGED <<s, pc, depth, rules>>
    BY <1>1 DEF SkipSpace
  <2>4. TypeOK'
    BY <2>1, <2>2, <2>3, <1>0 DEF TypeOK
  <2>5. SlicesInRange' /\ Begun'
    BY <2>1, <2>2, <2>3 DEF SlicesInRange, Begun
  <2> QED
    BY <2>2, <2>4, <2>5 DEF ScanInv
<1>2. CASE Take
  <2>1. pc = "split" /\ k \in 1..Len(s) /\ ~Separates /\ UNCHANGED <<s, tokens, rules>>
    BY <1>2 DEF Take, Scanning, TypeOK
  <2>2. start' = IF start = 0 THEN k ELSE start
    BY <1>2 DEF Take
  <2>3. start' \in 1..Len(s) /\ start' <= k
    BY <1>0, <2>1, <2>2 DEF TypeOK, Begun, SlicesInRange
  <2>4. /\ ~isSpace(s[start'])
        /\ \A j \in start'..k - 1 : isSpace(s[j]) => \E i \in start'..j - 1 : s[i] = Open
        /\ depth > 0 => \E i \in start'..k - 1 : s[i] = Open
    <3>0. /\ k \in Int /\ start \in Nat /\ depth \in Nat
      BY DEF TypeOK
    <3>1. CASE start = 0
      <4>1. depth = 0 /\ start' = k
        BY <1>0, <2>2, <3>0, <3>1 DEF SlicesInRange
      <4>2. ~isSpace(s[k])
        BY <2>1, <4>1 DEF Separates
      <4> QED
        BY <3>0, <4>1, <4>2
    <3>2. CASE start > 0
      <4>1. start' = start
        BY <2>2, <3>2
      <4> QED
        BY <1>0, <3>2, <4>1 DEF Begun
    <3> QED
      BY <3>0, <3>1, <3>2
  <2>5. CASE s[k] = Close /\ depth = 0
    <3>1. pc' = "error" /\ UNCHANGED <<k, depth>>
      BY <1>2, <2>5 DEF Take
    <3>2. SlicesInRange'
      BY <2>3, <2>5, <3>1, <2>1 DEF SlicesInRange
    <3>3. Begun'
      BY <2>1, <2>3, <2>4, <3>1 DEF Begun, isSpace
    <3> QED
      BY <1>0, <2>1, <2>3, <3>1, <3>2, <3>3
      DEF ScanInv, TypeOK, TokensBegin, isSpace
  <2>6. CASE ~(s[k] = Close /\ depth = 0)
    <3>1. /\ depth' = IF s[k] = Open THEN depth + 1
                      ELSE IF s[k] = Close THEN depth - 1 ELSE depth
          /\ k' = k + 1
          /\ pc' = pc
      BY <1>2, <2>6 DEF Take
    <3>2. depth' \in Nat
      BY <2>6, <3>1 DEF TypeOK, Open, Close
    <3>3. SlicesInRange'
      BY <2>1, <2>3, <3>1 DEF SlicesInRange
    <3>4. ASSUME NEW j \in start'..k, isSpace(s[j])
          PROVE  \E i \in start'..j - 1 : s[i] = Open
      <4>1. CASE j = k
        <5>1. depth > 0
          BY <2>1, <3>4, <4>1 DEF Separates, TypeOK
        <5> QED
          BY <2>4, <4>1, <5>1
      <4>2. CASE j # k
        <5>1. j \in start'..k - 1
          BY <2>1, <2>3, <4>2
        <5> QED
          BY <2>4, <3>4, <5>1
      <4> QED
        BY <4>1, <4>2
    <3>5. depth' > 0 => \E i \in start'..k : s[i] = Open
      <4>1. CASE s[k] = Open
        BY <2>1, <2>3, <4>1
      <4>2. CASE s[k] # Open
        <5>1. depth' > 0 => depth > 0
          BY <2>6, <3>1, <4>2 DEF TypeOK
        <5>2. start'..k - 1 \subseteq start'..k
          BY <2>1, <2>3
        <5> QED
          BY <2>4, <5>1, <5>2
      <4> QED
        BY <4>1, <4>2
    <3>6. k' - 1 = k
      BY <2>1, <3>1
    <3>7. Begun'
      BY <2>1, <2>3, <2>4, <3>4, <3>5, <3>6 DEF Begun, isSpace
    <3> QED
      BY <1>0, <2>1, <2>3, <3>1, <3>2, <3>3, <3>7
      DEF ScanInv, TypeOK, TokensBegin, isSpace
  <2> QED
    BY <2>5, <2>6
<1>3. CASE EndSplit
  <2>1. pc = "split" /\ UNCHANGED <<s, k, depth, rules>>
    BY <1>3 DEF EndSplit
  <2>2. CASE depth # 0
    <3>1. pc' = "error" /\ UNCHANGED <<tokens, start>>
      BY <1>3, <2>2 DEF EndSplit
    <3> QED
      BY <1>0, <2>1, <3>1 DEF ScanInv, TypeOK, SlicesInRange, TokensBegin, Begun, isSpace
  <2>3. CASE depth = 0
    <3>1. pc' = "parse" /\ EndToken
      BY <1>3, <2>3 DEF EndSplit
    <3>2. tokens' \in Seq(Seq(Alphabet)) /\ TokensBegin' /\ start' = 0
      BY <1>0, <2>1, <3>1, EndTokenAdds
    <3> QED
      BY <2>1, <2>3, <3>1, <3>2 DEF ScanInv, TypeOK, SlicesInRange, Begun
  <2> QED
    BY <2>2, <2>3
<1>4. CASE Parse
  <2>1. pc = "parse" /\ tokens # <<>> /\ tokens' = Tail(tokens) /\ UNCHANGED <<s, k, depth, start>>
    BY <1>4 DEF Parse
  <2>2. /\ tokens' \in Seq(Seq(Alphabet))
        /\ Head(tokens) \in Seq(Alphabet)
        /\ \A n \in DOMAIN tokens' : n + 1 \in DOMAIN tokens /\ tokens'[n] = tokens[n + 1]
    BY <2>1 DEF TypeOK
  <2>3. TokensBegin'
    BY <1>0, <2>2, EachWellBegun, EachWellBegunNext
  <2>4. CASE Verdict(Head(tokens)) = "rule"
    <3>1. rules' = Append(rules, parseRule(Head(tokens))) /\ pc' = pc
      BY <1>4, <2>4 DEF Parse
    <3>2. parseRule(Head(tokens)) \in [tool : Seq(Alphabet), spec : Seq(Alphabet)]
      BY <2>2, <2>4, ParsedType
    <3>3. rules' \in Seq([tool : Seq(Alphabet), spec : Seq(Alphabet)])
      BY <3>1, <3>2, AppendProperties DEF TypeOK
    <3> QED
      BY <1>0, <2>1, <2>2, <2>3, <3>1, <3>3 DEF ScanInv, TypeOK, SlicesInRange, Begun
  <2>5. CASE Verdict(Head(tokens)) # "rule"
    <3>1. pc' = "error" /\ UNCHANGED rules
      BY <1>4, <2>5 DEF Parse
    <3> QED
      BY <1>0, <2>1, <2>2, <2>3, <3>1 DEF ScanInv, TypeOK, SlicesInRange, Begun
  <2> QED
    BY <2>4, <2>5
<1>5. CASE Return
  BY <1>0, <1>5 DEF Return, ScanInv, TypeOK, SlicesInRange, TokensBegin, Begun, isSpace
<1>6. CASE UNCHANGED vars
  BY <1>0, <1>6 DEF vars, ScanInv, TypeOK, SlicesInRange, TokensBegin, Begun, isSpace
<1> QED
  BY <1>1, <1>2, <1>3, <1>4, <1>5, <1>6 DEF Next

(* depth counts the parentheses open, and no more were ever closed than    *)
(* opened.                                                                 *)
Counted ==
  /\ Count(s, Open, 1, k - 1) = depth + Count(s, Close, 1, k - 1)
  /\ \A j \in 1..k - 1 : Count(s, Close, 1, j) <= Count(s, Open, 1, j)

(* The token begun is a span as far as it goes.                            *)
Bounded ==
  IF start > 0
    THEN (start = 1 \/ start - 1 \in CutsOf(s)) /\ CutsOf(s) \cap start..k - 1 = {}
    ELSE k = 1 \/ k - 1 \in CutsOf(s)

ReadInv ==
  /\ pc = "split" => rules = <<>> /\ Counted /\ Bounded /\ Listed(s, rules, tokens, Ended(s, k))
  /\ pc \in {"parse", "done"} => Nested(s) /\ Listed(s, rules, tokens, SpansOf(s))
  /\ pc = "done" => tokens = <<>>
  /\ pc = "error" => ~Accepted(s)

----------------------------------------------------------------------------
(* What has been read, after each step.                                    *)
LEMMA EndTokenReads ==
  ASSUME TypeOK, SlicesInRange, Begun, pc = "split", EndToken, Bounded,
         Listed(s, <<>>, tokens, Ended(s, k)),
         k = Len(s) + 1 \/ k \in CutsOf(s)
  PROVE  Listed(s, <<>>, tokens', Ended(s, k + 1))
<1>0. s \in Seq(Alphabet) /\ Len(s) \in Nat /\ k \in 1..Len(s) + 1 /\ start \in Nat
  BY FieldType DEF TypeOK
<1>1. CASE start > 0
  <2> DEFINE new == <<start, k - 1>>
  <2>1. /\ start \in 1..Len(s) /\ k \in start + 1..Len(s) + 1
        /\ start = 1 \/ start - 1 \in CutsOf(s)
        /\ CutsOf(s) \cap start..k - 1 = {}
    BY <1>0, <1>1 DEF Begun, SlicesInRange, Bounded
  <2>2. /\ Before(s, new) = Ended(s, k) \cup {new}
        /\ Ended(s, k + 1) = Ended(s, k) \cup {new}
        /\ new \notin Ended(s, k)
    BY <1>0, <2>1, NextSpan
  <2>3. Piece(s, new) = SubSeq(s, start, k - 1)
    BY DEF Piece
  <2>4. Piece(s, new) \in Seq(Alphabet)
    BY <1>1, <2>3, TokenCut
  <2>5. tokens' = Append(tokens, Piece(s, new))
    BY <1>1, <2>3 DEF EndToken
  <2>6. tokens \in Seq(Seq(Alphabet))
    BY DEF TypeOK
  <2> HIDE DEF new
  <2> QED
    BY <2>2, <2>4, <2>5, <2>6, ListedMore
<1>2. CASE start = 0
  <2>1. k = 1 \/ k - 1 \in CutsOf(s)
    BY <1>2 DEF Bounded
  <2>2. Ended(s, k + 1) = Ended(s, k)
    BY <1>0, <2>1, NoSpan
  <2> QED
    BY <1>2, <2>2 DEF EndToken
<1> QED
  BY <1>0, <1>1, <1>2

(* What the character looked at adds to the counts.                        *)
LEMMA CountHere ==
  ASSUME TypeOK, Counted, k <= Len(s), NEW c
  PROVE  /\ k - 1 \in Nat /\ Count(s, c, 1, k - 1) \in Nat
         /\ Count(s, c, 1, k) = Count(s, c, 1, k - 1) + IF s[k] = c THEN 1 ELSE 0
<1>1. k - 1 \in Nat /\ (k - 1) + 1 = k /\ 1 <= (k - 1) + 1
  BY DEF TypeOK
<1>2. Count(s, c, 1, (k - 1) + 1) = Count(s, c, 1, k - 1) + IF s[(k - 1) + 1] = c THEN 1 ELSE 0
  BY <1>1, CountNext
<1>3. Count(s, c, 1, k - 1) \in Nat
  BY <1>1, CountIs
<1> QED
  BY <1>1, <1>2, <1>3

LEMMA SkipSpaceReads ==
  ASSUME TypeOK, ScanInv, ReadInv, SkipSpace
  PROVE  ReadInv'
<1>1. /\ pc = "split" /\ k <= Len(s) /\ depth = 0 /\ isSpace(s[k]) /\ EndToken
      /\ k' = k + 1 /\ UNCHANGED <<s, pc, depth, rules>>
  BY DEF SkipSpace, Scanning, Separates
<1>2. rules = <<>> /\ Counted /\ Bounded /\ Listed(s, <<>>, tokens, Ended(s, k))
  BY <1>1 DEF ReadInv
<1>3. k \in 1..Len(s) /\ Len(s) \in Nat /\ (k + 1) - 1 = k
  BY <1>1, FieldType DEF TypeOK
<1>4. s[k] # Open /\ s[k] # Close
  BY <1>1 DEF isSpace, Space, Open, Close
<1>5. /\ Count(s, Open, 1, k) = Count(s, Open, 1, k - 1)
      /\ Count(s, Close, 1, k) = Count(s, Close, 1, k - 1)
      /\ Count(s, Close, 1, k) \in Nat
  BY <1>1, <1>2, <1>4, CountHere
<1>6. Count(s, Open, 1, k) = Count(s, Close, 1, k)
  BY <1>1, <1>2, <1>5 DEF Counted
<1>7. k \in CutsOf(s)
  BY <1>1, <1>3, <1>6 DEF CutsOf
<1>8. Listed(s, <<>>, tokens', Ended(s, k + 1))
  BY <1>1, <1>2, <1>7, EndTokenReads DEF ScanInv
<1>9. \A j \in 1..k : Count(s, Close, 1, j) <= Count(s, Open, 1, j)
  <2> TAKE j \in 1..k
  <2>1. j = k \/ j \in 1..k - 1
    BY <1>3
  <2> QED
    BY <1>2, <1>5, <1>6, <2>1 DEF Counted
<1>10. Counted'
  BY <1>1, <1>3, <1>5, <1>6, <1>9 DEF Counted
<1>11. Bounded'
  <2>1. start' = 0 /\ k' - 1 \in CutsOf(s)
    BY <1>1, <1>3, <1>7 DEF EndToken
  <2> QED
    BY <1>1, <2>1 DEF Bounded
<1> QED
  BY <1>1, <1>2, <1>8, <1>10, <1>11 DEF ReadInv

LEMMA TakeReads ==
  ASSUME TypeOK, ScanInv, ReadInv, Take
  PROVE  ReadInv'
<1>1. /\ pc = "split" /\ k <= Len(s) /\ ~Separates
      /\ start' = (IF start = 0 THEN k ELSE start)
      /\ UNCHANGED <<s, tokens, rules>>
  BY DEF Take, Scanning
<1>2. rules = <<>> /\ Counted /\ Bounded /\ Listed(s, <<>>, tokens, Ended(s, k))
  BY <1>1 DEF ReadInv
<1>3. /\ k \in 1..Len(s) /\ Len(s) \in Nat /\ (k + 1) - 1 = k /\ s \in Seq(Alphabet)
      /\ depth \in Nat /\ start \in Nat
  BY <1>1, FieldType DEF TypeOK
<1>4. /\ Count(s, Open, 1, k) = Count(s, Open, 1, k - 1) + IF s[k] = Open THEN 1 ELSE 0
      /\ Count(s, Close, 1, k) = Count(s, Close, 1, k - 1) + IF s[k] = Close THEN 1 ELSE 0
      /\ Count(s, Open, 1, k - 1) \in Nat /\ Count(s, Close, 1, k - 1) \in Nat
  BY <1>1, <1>2, CountHere
<1>5. Count(s, Open, 1, k - 1) = depth + Count(s, Close, 1, k - 1)
  BY <1>2 DEF Counted
<1>6. CASE s[k] = Close /\ depth = 0
  <2>1. pc' = "error"
    BY <1>6 DEF Take
  <2>2. Count(s, Close, 1, k) > Count(s, Open, 1, k)
    BY <1>4, <1>5, <1>6 DEF Open, Close
  <2>3. ~Nested(s)
    <3>1. Count(s, Open, 1, k) \in Nat /\ Count(s, Close, 1, k) \in Nat
      BY <1>4
    <3> QED
      BY <1>3, <2>2, <3>1 DEF Nested
  <2>4. ~Accepted(s')
    BY <1>1, <2>3 DEF Accepted
  <2> QED
    BY <2>1, <2>4 DEF ReadInv
<1>7. CASE ~(s[k] = Close /\ depth = 0)
  <2>1. /\ depth' = IF s[k] = Open THEN depth + 1
                    ELSE IF s[k] = Close THEN depth - 1 ELSE depth
        /\ k' = k + 1 /\ pc' = pc
    BY <1>7 DEF Take
  <2>2. Count(s, Open, 1, k) = depth' + Count(s, Close, 1, k) /\ depth' \in Nat
    BY <1>3, <1>4, <1>5, <1>7, <2>1 DEF Open, Close
  <2>3. Count(s, Close, 1, k) <= Count(s, Open, 1, k)
    BY <1>4, <2>2
  <2>4. \A j \in 1..k : Count(s, Close, 1, j) <= Count(s, Open, 1, j)
    <3> TAKE j \in 1..k
    <3>1. j = k \/ j \in 1..k - 1
      BY <1>3
    <3> QED
      BY <1>2, <2>3, <3>1 DEF Counted
  <2>5. Counted'
    BY <1>1, <1>3, <2>1, <2>2, <2>4 DEF Counted
  <2>6. k \notin CutsOf(s)
    <3> SUFFICES ASSUME isSpace(s[k]), Count(s, Open, 1, k) = Count(s, Close, 1, k) PROVE FALSE
      BY DEF CutsOf
    <3>1. depth # 0 /\ s[k] # Open /\ s[k] # Close
      BY <1>1 DEF Separates, isSpace, Space, Open, Close
    <3> QED
      BY <1>3, <1>4, <1>5, <3>1
  <2>7. Bounded'
    <3>1. CASE start = 0
      <4>1. start' = k /\ (k = 1 \/ k - 1 \in CutsOf(s))
        BY <1>1, <1>2, <3>1 DEF Bounded
      <4>2. CutsOf(s) \cap k..k = {}
        BY <1>3, <2>6
      <4>3. start' > 0 /\ k' - 1 = k
        BY <1>3, <2>1, <4>1
      <4> QED
        BY <1>1, <4>1, <4>2, <4>3 DEF Bounded
    <3>2. CASE start # 0
      <4>1. /\ start' = start /\ start > 0
            /\ start = 1 \/ start - 1 \in CutsOf(s)
            /\ CutsOf(s) \cap start..k - 1 = {}
        BY <1>1, <1>2, <1>3, <3>2 DEF Bounded
      <4>2. CutsOf(s) \cap start..k = {}
        <5>1. \A j \in start..k : j = k \/ j \in start..k - 1
          BY <1>3
        <5> QED
          BY <2>6, <4>1, <5>1
      <4>3. k' - 1 = k
        BY <1>3, <2>1
      <4> QED
        BY <1>1, <4>1, <4>2, <4>3 DEF Bounded
    <3> QED
      BY <3>1, <3>2
  <2>8. Ended(s, k + 1) = Ended(s, k)
    <3>1. k \in 1..Len(s) + 1 /\ k # Len(s) + 1
      BY <1>3
    <3> QED
      BY <1>3, <2>6, <3>1, NoSpan
  <2> QED
    BY <1>1, <1>2, <2>1, <2>5, <2>7, <2>8 DEF ReadInv
<1> QED
  BY <1>6, <1>7

LEMMA EndSplitReads ==
  ASSUME TypeOK, ScanInv, ReadInv, EndSplit
  PROVE  ReadInv'
<1>1. pc = "split" /\ k > Len(s) /\ UNCHANGED <<s, k, depth, rules>>
  BY DEF EndSplit
<1>2. rules = <<>> /\ Counted /\ Bounded /\ Listed(s, <<>>, tokens, Ended(s, k))
  BY <1>1 DEF ReadInv
<1>3. k = Len(s) + 1 /\ Len(s) \in Nat /\ k - 1 = Len(s) /\ depth \in Nat
  BY <1>1, FieldType DEF TypeOK
<1>4. /\ Count(s, Open, 1, Len(s)) = depth + Count(s, Close, 1, Len(s))
      /\ \A j \in 1..Len(s) : Count(s, Close, 1, j) <= Count(s, Open, 1, j)
  BY <1>2, <1>3 DEF Counted
<1>5. Count(s, Close, 1, Len(s)) \in Nat
  BY <1>3, CountIs
<1>6. CASE depth # 0
  <2>1. pc' = "error"
    BY <1>6 DEF EndSplit
  <2>2. ~Nested(s)
    BY <1>3, <1>4, <1>5, <1>6 DEF Nested
  <2>3. ~Accepted(s')
    BY <1>1, <2>2 DEF Accepted
  <2> QED
    BY <2>1, <2>3 DEF ReadInv
<1>7. CASE depth = 0
  <2>1. pc' = "parse" /\ EndToken
    BY <1>7 DEF EndSplit
  <2>2. Nested(s)
    BY <1>3, <1>4, <1>5, <1>7 DEF Nested
  <2>3. Listed(s, <<>>, tokens', Ended(s, k + 1))
    BY <1>1, <1>2, <1>3, <2>1, EndTokenReads DEF ScanInv
  <2>4. Ended(s, k + 1) = SpansOf(s)
    <3>1. \A ab \in SpansOf(s) : ab[2] \in 1..Len(s)
      BY DEF SpansOf
    <3>2. \A ab \in SpansOf(s) : ab[2] + 1 < k + 1
      BY <1>3, <3>1
    <3> QED
      BY <3>2 DEF Ended
  <2> QED
    BY <1>1, <1>2, <2>1, <2>2, <2>3, <2>4 DEF ReadInv
<1> QED
  BY <1>6, <1>7

LEMMA ParseReads ==
  ASSUME TypeOK, ReadInv, Parse
  PROVE  ReadInv'
<1>1. pc = "parse" /\ tokens # <<>> /\ tokens' = Tail(tokens) /\ UNCHANGED s
  BY DEF Parse
<1>2. Nested(s) /\ Listed(s, rules, tokens, SpansOf(s))
  BY <1>1 DEF ReadInv
<1>3. /\ tokens \in Seq(Seq(Alphabet)) /\ Head(tokens) \in Seq(Alphabet)
      /\ Len(tokens) \in Nat \ {0} /\ Head(tokens) = tokens[1]
  BY <1>1 DEF TypeOK
<1>4. rules \in Seq([tool : Seq(Alphabet), spec : Seq(Alphabet)]) /\ Len(rules) \in Nat
  BY DEF TypeOK
<1>5. CASE Verdict(Head(tokens)) = "rule"
  <2>1. rules' = Append(rules, parseRule(Head(tokens))) /\ pc' = pc
    BY <1>5 DEF Parse
  <2>2. parseRule(Head(tokens)) \in [tool : Seq(Alphabet), spec : Seq(Alphabet)]
    BY <1>3, <1>5, ParsedType
  <2>3. Listed(s, Append(rules, parseRule(Head(tokens))), Tail(tokens), SpansOf(s))
    BY <1>1, <1>2, <1>3, <1>4, <1>5, <2>2, ListedParsed
  <2> QED
    BY <1>1, <1>2, <2>1, <2>3 DEF ReadInv
<1>6. CASE Verdict(Head(tokens)) # "rule"
  <2>1. pc' = "error"
    BY <1>6 DEF Parse
  <2>2. PICK m : m = Len(rules) + 1 /\ m \in 1..Len(rules) + Len(tokens)
                 /\ ~(m <= Len(rules)) /\ m - Len(rules) = 1
    BY <1>3, <1>4
  <2>3. PICK ab \in SpansOf(s) : Rank(s, ab) = m
    BY <1>2, <2>2 DEF Listed
  <2>4. Head(tokens) = Piece(s, ab)
    BY <1>2, <1>3, <2>2, <2>3 DEF Listed
  <2>5. ~IsToken(Piece(s, ab))
    <3>1. s \in Seq(Alphabet)
      BY FieldType
    <3>2. Nested(Piece(s, ab)) /\ Piece(s, ab) \in Seq(Alphabet)
      BY <1>2, <3>1, SpanNested
    <3> QED
      BY <1>6, <2>4, <3>2, TokenIsRule
  <2>6. ~Accepted(s')
    BY <1>1, <2>5 DEF Accepted
  <2> QED
    BY <2>1, <2>6 DEF ReadInv
<1> QED
  BY <1>5, <1>6

LEMMA ReturnReads ==
  ASSUME ReadInv, Return
  PROVE  ReadInv'
BY DEF Return, ReadInv

LEMMA ReadInit == Init => ReadInv
<1> SUFFICES ASSUME Init PROVE ReadInv
  OBVIOUS
<1>1. /\ s \in Seq(Alphabet) /\ pc = "split" /\ k = 1 /\ depth = 0 /\ start = 0
      /\ tokens = <<>> /\ rules = <<>>
  BY InputsAssumption DEF Init
<1>2. Counted
  <2>1. 1 - 1 = 0 /\ 0 \in Nat /\ \A c : \A j \in 1..0 : s[j] # c
    OBVIOUS
  <2>2. Count(s, Open, 1, 0) = 0 /\ Count(s, Close, 1, 0) = 0
    BY <2>1, CountIs
  <2> QED
    BY <1>1, <2>2 DEF Counted
<1>3. Bounded
  BY <1>1 DEF Bounded
<1>4. Ended(s, 1) = {}
  <2>1. \A ab \in SpansOf(s) : ab[2] \in 1..Len(s)
    BY DEF SpansOf
  <2>2. \A ab \in SpansOf(s) : ~(ab[2] + 1 < 1)
    BY <2>1
  <2> QED
    BY <2>2 DEF Ended
<1>5. Listed(s, <<>>, <<>>, {})
  <2>1. Len(<<>>) + Len(<<>>) = 0 /\ IsFiniteSet({}) /\ Cardinality({}) = 0
    BY FS_EmptySet
  <2> QED
    BY <2>1 DEF Listed
<1> QED
  BY <1>1, <1>2, <1>3, <1>4, <1>5 DEF ReadInv

LEMMA ReadStep == TypeOK /\ ScanInv /\ ReadInv /\ [Next]_vars => ReadInv'
<1>1. ASSUME ReadInv, UNCHANGED vars
      PROVE  ReadInv'
  BY <1>1 DEF vars, ReadInv, Counted, Bounded
<1> QED
  BY <1>1, SkipSpaceReads, TakeReads, EndSplitReads, ParseReads, ReturnReads DEF Next

----------------------------------------------------------------------------
(* The scanner's state keeps its types; depth never goes below zero.       *)
THEOREM TypeCorrect == Spec => []TypeOK
BY ScanInit, ScanStep, PTL DEF Spec

(* No slice of the field is out of range, for a field of any length.       *)
THEOREM SlicesInRangeAlways == Spec => []SlicesInRange
<1>1. ScanInv => SlicesInRange
  BY DEF ScanInv
<1> QED
  BY <1>1, ScanInit, ScanStep, PTL DEF Spec

(* No token is empty, and every space in one comes after a parenthesis it *)
(* opened: names hold no spaces.                                           *)
THEOREM TokensBeginAlways == Spec => []TokensBegin
<1>1. ScanInv => TokensBegin
  BY DEF ScanInv
<1> QED
  BY <1>1, ScanInit, ScanStep, PTL DEF Spec
(* The tokens and the rules are the grammar's, whatever the field.         *)
THEOREM Invariant == Spec => [](TypeOK /\ ScanInv /\ ReadInv)
<1>1. Init => TypeOK /\ ScanInv /\ ReadInv
  BY ScanInit, ReadInit
<1>2. TypeOK /\ ScanInv /\ ReadInv /\ [Next]_vars => (TypeOK /\ ScanInv /\ ReadInv)'
  BY ScanStep, ReadStep
<1> QED
  BY <1>1, <1>2, PTL DEF Spec

(* parseRule never meets an unmatched parenthesis: splitRules has refused  *)
(* the field (rules.go:124-126, 154).                                      *)
THEOREM UnmatchedFoundFirstAlways == Spec => []UnmatchedFoundFirst
<1>1. ASSUME TypeOK, ReadInv
      PROVE  UnmatchedFoundFirst
  <2> SUFFICES ASSUME pc = "parse", NEW n \in DOMAIN tokens
               PROVE  Verdict(tokens[n]) # "unmatched"
    BY DEF UnmatchedFoundFirst
  <2>1. Nested(s) /\ Listed(s, rules, tokens, SpansOf(s)) /\ s \in Seq(Alphabet)
    BY <1>1, FieldType DEF ReadInv
  <2>2. Len(rules) \in Nat /\ Len(tokens) \in Nat /\ n \in 1..Len(tokens)
    BY <1>1 DEF TypeOK
  <2>3. PICK m : m = Len(rules) + n /\ m \in 1..Len(rules) + Len(tokens)
                 /\ ~(m <= Len(rules)) /\ m - Len(rules) = n
    BY <2>2
  <2>4. PICK ab \in SpansOf(s) : Rank(s, ab) = m
    BY <2>1, <2>3 DEF Listed
  <2>5. tokens[n] = Piece(s, ab)
    BY <2>1, <2>3, <2>4 DEF Listed
  <2>6. Nested(Piece(s, ab)) /\ Piece(s, ab) \in Seq(Alphabet)
    BY <2>1, SpanNested
  <2> QED
    BY <2>5, <2>6, NotUnmatched
<1> QED
  BY <1>1, Invariant, PTL

(* Rules accepts exactly the fields of the grammar, and gives one rule per *)
(* token, in order, that writes back as the token (rules.go:33-45).        *)
THEOREM RulesReadGrammarAlways == Spec => []RulesReadGrammar
<1>1. ASSUME TypeOK, ReadInv
      PROVE  RulesReadGrammar
  <2>1. Cuts = CutsOf(s)
    BY DEF Cuts, CutsOf
  <2>2. Spans = SpansOf(s)
    BY <2>1 DEF Spans, SpansOf
  <2>3. Matched = Nested(s)
    BY DEF Matched, Nested
  <2> DEFINE accepted == Matched /\ \A ab \in Spans : IsToken(SubSeq(s, ab[1], ab[2]))
             rank(ab) == Cardinality({x \in Spans : x[1] <= ab[1]})
  <2>4. accepted = Accepted(s)
    BY <2>2, <2>3 DEF Accepted, Piece
  <2>5. \A ab : rank(ab) = Rank(s, ab)
    BY <2>2 DEF Rank, Before
  <2> HIDE DEF accepted, rank
  <2>6. pc = "error" => ~accepted
    BY <1>1, <2>4 DEF ReadInv
  <2>7. ASSUME pc = "done"
        PROVE  /\ accepted
               /\ Len(rules) = Cardinality(Spans)
               /\ \A ab \in Spans :
                    /\ Text(rules[rank(ab)]) = SubSeq(s, ab[1], ab[2])
                    /\ rules[rank(ab)].spec = NoSpec <=> ~Holds(SubSeq(s, ab[1], ab[2]), Open)
    <3>1. Nested(s) /\ Listed(s, rules, <<>>, SpansOf(s)) /\ s \in Seq(Alphabet)
      BY <1>1, <2>7, FieldType DEF ReadInv
    <3>2. Len(rules) + Len(<<>>) = Len(rules) /\ Len(rules) \in Nat
      BY <1>1 DEF TypeOK
    <3>3. /\ Cardinality(SpansOf(s)) = Len(rules)
          /\ \A ab \in SpansOf(s) :
               /\ Verdict(Piece(s, ab)) = "rule"
               /\ rules[Rank(s, ab)] = parseRule(Piece(s, ab))
      BY <3>1, <3>2 DEF Listed
    <3>4. \A ab \in SpansOf(s) :
            /\ Piece(s, ab) \in Seq(Alphabet) /\ Piece(s, ab) # <<>> /\ Nested(Piece(s, ab))
      BY <3>1, SpanNested
    <3>5. Accepted(s)
      BY <3>1, <3>3, <3>4, RuleIsToken DEF Accepted
    <3>6. ASSUME NEW ab \in Spans
          PROVE  /\ Text(rules[rank(ab)]) = SubSeq(s, ab[1], ab[2])
                 /\ rules[rank(ab)].spec = NoSpec <=> ~Holds(SubSeq(s, ab[1], ab[2]), Open)
      <4>1. rules[rank(ab)] = parseRule(Piece(s, ab))
        BY <2>2, <2>5, <3>3
      <4>2. /\ Text(parseRule(Piece(s, ab))) = Piece(s, ab)
            /\ parseRule(Piece(s, ab)).spec = NoSpec <=> ~Holds(Piece(s, ab), Open)
        BY <2>2, <3>3, <3>4, WritesBack
      <4> QED
        BY <4>1, <4>2 DEF Piece
    <3> QED
      BY <2>2, <2>4, <3>3, <3>5, <3>6
  <2> QED
    BY <2>6, <2>7 DEF RulesReadGrammar, accepted, rank
<1> QED
  BY <1>1, Invariant, PTL
=============================================================================

------------------------------ MODULE RuleScan ------------------------------
(***************************************************************************)
(* Skill.Rules (rules.go): the scanner that cuts allowed-tools into tokens *)
(* and the parser of one token.  A step is one turn of a loop: a character *)
(* of splitRules, or a token of Rules.                                     *)
(*                                                                         *)
(* Abstractions.  A character is one of its classes; slices are 1-based    *)
(* and inclusive, so that the slice s[start:i] of the code is              *)
(* SubSeq(s, start, k - 1) here, and start = 0 stands for -1.              *)
(***************************************************************************)
EXTENDS Naturals, Sequences, FiniteSets

CONSTANTS
  Inputs,     \* the values of allowed-tools
  Chars       \* characters other than the ones named below

Open == "("
Close == ")"
Bang == "!"
Space == " "
Alphabet == {Open, Close, Bang, Space} \cup Chars

ASSUME InputsAssumption == Inputs \subseteq Seq(Alphabet)

VARIABLES
  s,        \* the field
  pc,       \* "split", "parse", "done" or "error"
  k,        \* the character splitRules looks at next
  depth,    \* parentheses open
  start,    \* where the current token starts, 0 for none
  tokens,   \* the tokens so far; those not yet parsed
  rules     \* the rules so far

vars == <<s, pc, k, depth, start, tokens, rules>>

isSpace(c) == c = Space

Init ==
  /\ s \in Inputs
  /\ pc = "split"
  /\ k = 1
  /\ depth = 0
  /\ start = 0
  /\ tokens = <<>>
  /\ rules = <<>>

----------------------------------------------------------------------------
(* splitRules.                                                             *)

Scanning == pc = "split" /\ k <= Len(s)

(* Bug: a space before a parenthesis taken for part of the token.          *)
SeparatesUnlessOpen ==
  depth = 0 /\ isSpace(s[k]) /\ ~(k < Len(s) /\ s[k + 1] = Open)

Separates == depth = 0 /\ isSpace(s[k])

EndToken ==
  /\ tokens' = IF start > 0 THEN Append(tokens, SubSeq(s, start, k - 1)) ELSE tokens
  /\ start' = 0

SkipSpace ==
  /\ Scanning
  /\ Separates
  /\ EndToken
  /\ k' = k + 1
  /\ UNCHANGED <<s, pc, depth, rules>>

(* Bug: a parenthesis closed although none is open.                        *)
TakeUnguarded ==
  /\ Scanning
  /\ ~Separates
  /\ start' = IF start = 0 THEN k ELSE start
  /\ depth' = IF s[k] = Open THEN depth + 1
              ELSE IF s[k] = Close THEN depth - 1 ELSE depth
  /\ k' = k + 1
  /\ UNCHANGED <<s, pc, tokens, rules>>

(* Bug: an opening parenthesis does not start a token.                     *)
TakeLate ==
  /\ Scanning
  /\ ~Separates
  /\ start' = IF start = 0 /\ s[k] # Open THEN k ELSE start
  /\ IF s[k] = Close /\ depth = 0
       THEN pc' = "error" /\ UNCHANGED <<k, depth>>
       ELSE /\ depth' = IF s[k] = Open THEN depth + 1
                        ELSE IF s[k] = Close THEN depth - 1 ELSE depth
            /\ k' = k + 1
            /\ UNCHANGED pc
  /\ UNCHANGED <<s, tokens, rules>>

Take ==
  /\ Scanning
  /\ ~Separates
  /\ start' = IF start = 0 THEN k ELSE start
  /\ IF s[k] = Close /\ depth = 0
       THEN pc' = "error" /\ UNCHANGED <<k, depth>>
       ELSE /\ depth' = IF s[k] = Open THEN depth + 1
                        ELSE IF s[k] = Close THEN depth - 1 ELSE depth
            /\ k' = k + 1
            /\ UNCHANGED pc
  /\ UNCHANGED <<s, tokens, rules>>

(* Bug: a parenthesis left open at the end is let through.                 *)
EndSplitOpen ==
  /\ pc = "split"
  /\ k > Len(s)
  /\ pc' = "parse"
  /\ EndToken
  /\ UNCHANGED <<s, k, depth, rules>>

EndSplit ==
  /\ pc = "split"
  /\ k > Len(s)
  /\ IF depth # 0
       THEN pc' = "error" /\ UNCHANGED <<tokens, start>>
       ELSE pc' = "parse" /\ EndToken
  /\ UNCHANGED <<s, k, depth, rules>>

----------------------------------------------------------------------------
(* parseRule.                                                              *)

Positions(tok, c) == {j \in 1..Len(tok) : tok[j] = c}
Holds(tok, c) == Positions(tok, c) # {}
IndexOf(tok, c) == CHOOSE j \in Positions(tok, c) : \A x \in Positions(tok, c) : j <= x

Count(tok, c, a, b) == Cardinality({j \in a..b : tok[j] = c})

(* The places at which the parenthesis opened first is closed again: the   *)
(* loop returns at the first of them.                                      *)
Balanced(tok) ==
  LET open == IndexOf(tok, Open)
  IN {j \in open..Len(tok) : tok[j] = Close /\
                             Count(tok, Open, open, j) = Count(tok, Close, open, j)}
MatchOf(tok) == CHOOSE j \in Balanced(tok) : \A x \in Balanced(tok) : j <= x

Specifier(tok) == SubSeq(tok, IndexOf(tok, Open) + 1, MatchOf(tok) - 1)
NoSpec == <<>>

(* Bug: what follows the matching parenthesis is ignored.                  *)
VerdictLoose(tok) ==
  IF ~Holds(tok, Open) THEN IF Holds(tok, Close) THEN "unmatched" ELSE "rule"
  ELSE IF tok[1] = Open THEN "missing tool name"
  ELSE IF Balanced(tok) = {} THEN "unmatched"
  ELSE IF Specifier(tok) = <<>> THEN "empty specifier"
  ELSE IF Specifier(tok) = <<Bang>> THEN "empty carve-out"
  ELSE "rule"

(* Why a token is refused, or "rule".                                      *)
Verdict(tok) ==
  IF ~Holds(tok, Open) THEN IF Holds(tok, Close) THEN "unmatched" ELSE "rule"
  ELSE IF tok[1] = Open THEN "missing tool name"
  ELSE IF Balanced(tok) = {} THEN "unmatched"
  ELSE IF MatchOf(tok) # Len(tok) THEN "text after the specifier"
  ELSE IF Specifier(tok) = <<>> THEN "empty specifier"
  ELSE IF Specifier(tok) = <<Bang>> THEN "empty carve-out"
  ELSE "rule"

parseRule(tok) ==
  IF Holds(tok, Open)
    THEN [tool |-> SubSeq(tok, 1, IndexOf(tok, Open) - 1), spec |-> Specifier(tok)]
    ELSE [tool |-> tok, spec |-> NoSpec]

Parse ==
  /\ pc = "parse"
  /\ tokens # <<>>
  /\ tokens' = Tail(tokens)
  /\ IF Verdict(Head(tokens)) = "rule"
       THEN rules' = Append(rules, parseRule(Head(tokens))) /\ UNCHANGED pc
       ELSE pc' = "error" /\ UNCHANGED rules
  /\ UNCHANGED <<s, k, depth, start>>

Return ==
  /\ pc = "parse"
  /\ tokens = <<>>
  /\ pc' = "done"
  /\ UNCHANGED <<s, k, depth, start, tokens, rules>>

Next == SkipSpace \/ Take \/ EndSplit \/ Parse \/ Return

Spec == Init /\ [][Next]_vars
----------------------------------------------------------------------------
(* The state's types.  depth is a Nat: a parenthesis is closed only when   *)
(* one is open (rules.go:98-102).                                          *)
TypeOK ==
  /\ s \in Inputs
  /\ pc \in {"split", "parse", "done", "error"}
  /\ k \in 1..Len(s) + 1
  /\ depth \in Nat
  /\ start \in Nat
  /\ tokens \in Seq(Seq(Alphabet))
  /\ rules \in Seq([tool : Seq(Alphabet), spec : Seq(Alphabet)])

(* Every slice splitRules takes of the field lies inside it: the token     *)
(* begun is behind the character looked at, and while a parenthesis is     *)
(* open a token is begun, so that s[start:] never has start at -1          *)
(* (rules.go:87, 100, 106, 109).                                           *)
SlicesInRange ==
  /\ start < k \/ (pc = "error" /\ start = k)
  /\ depth > 0 => start > 0

(* No token is handed to parseRule empty, where tok[:open] would name no   *)
(* tool, or with a space that no parenthesis precedes: a name followed by  *)
(* a space and a specifier is two tokens, the second refused (rules.go:85, *)
(* 122-131).                                                               *)
TokensBegin ==
  \A n \in DOMAIN tokens :
    /\ tokens[n] # <<>>
    /\ \A j \in 1..Len(tokens[n]) :
         isSpace(tokens[n][j]) => \E i \in 1..j - 1 : tokens[n][i] = Open

(* The unmatched parenthesis parseRule looks for (rules.go:124-126, 154)   *)
(* is always found by splitRules first.                                    *)
UnmatchedFoundFirst ==
  pc = "parse" => \A n \in DOMAIN tokens : Verdict(tokens[n]) # "unmatched"

(* The grammar of the field, by counting parentheses: the tokens are the   *)
(* longest stretches without a space outside parentheses.                  *)
Cuts == {j \in 1..Len(s) : isSpace(s[j]) /\ Count(s, Open, 1, j) = Count(s, Close, 1, j)}
Spans ==
  {ab \in (1..Len(s)) \X (1..Len(s)) :
     /\ ab[1] <= ab[2]
     /\ Cuts \cap ab[1]..ab[2] = {}
     /\ ab[1] = 1 \/ ab[1] - 1 \in Cuts
     /\ ab[2] = Len(s) \/ ab[2] + 1 \in Cuts}

Matched ==
  /\ \A j \in 1..Len(s) : Count(s, Close, 1, j) <= Count(s, Open, 1, j)
  /\ Count(s, Open, 1, Len(s)) = Count(s, Close, 1, Len(s))

(* A token is a name, or a name and a specifier in one pair of parentheses *)
(* that holds something other than a bare "!".                             *)
IsName(t) == t # <<>> /\ ~Holds(t, Open) /\ ~Holds(t, Close)
IsToken(t) ==
  \/ IsName(t)
  \/ \E n \in 1..Len(t) - 3 :
       /\ IsName(SubSeq(t, 1, n))
       /\ t[n + 1] = Open
       /\ t[Len(t)] = Close
       /\ \A j \in n + 1..Len(t) - 1 : Count(t, Open, 1, j) > Count(t, Close, 1, j)
       /\ SubSeq(t, n + 2, Len(t) - 1) # <<Bang>>

Text(r) == IF r.spec = NoSpec THEN r.tool ELSE r.tool \o <<Open>> \o r.spec \o <<Close>>

(* Rules accepts exactly the fields of the grammar, and returns one rule   *)
(* per token, in order, that writes back as the token and is bare only     *)
(* when the token is: a token with parentheses is never the grant of a     *)
(* whole tool (rules.go:33-45).                                            *)
RulesReadGrammar ==
  LET accepted == Matched /\ \A ab \in Spans : IsToken(SubSeq(s, ab[1], ab[2]))
      rank(ab) == Cardinality({x \in Spans : x[1] <= ab[1]})
  IN /\ pc = "error" => ~accepted
     /\ pc = "done" =>
          /\ accepted
          /\ Len(rules) = Cardinality(Spans)
          /\ \A ab \in Spans :
               LET r == rules[rank(ab)]
                   t == SubSeq(s, ab[1], ab[2])
               IN Text(r) = t /\ (r.spec = NoSpec <=> ~Holds(t, Open))
=============================================================================

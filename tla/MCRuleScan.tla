----------------------------- MODULE MCRuleScan -----------------------------
(* Every field of up to MaxLength characters.                              *)
EXTENDS RuleScan

CONSTANT MaxLength

Letters == {"a"}
Fields == UNION {[1..n -> Alphabet] : n \in 0..MaxLength}
=============================================================================

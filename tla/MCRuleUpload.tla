---------------------------- MODULE MCRuleUpload -----------------------------
(* Values for model checking RuleUpload. *)
EXTENDS RuleUpload, TLC

CONSTANTS p1, p2, r1, r2, r3

Two     == {p1, p2}
MCRules == {r1, r2, r3}

\* A set of two rules and a set of one; two sets of two.
TwoSets      == p1 :> <<r1, r2>> @@ p2 :> <<r3>>
EqualLengths == p1 :> <<r1, r2>> @@ p2 :> <<r2, r3>>

=============================================================================

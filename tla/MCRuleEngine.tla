---- MODULE MCRuleEngine ----
(* Instances of RuleEngine for TLC. *)
EXTENDS RuleEngine, TLC

\* Safety runs only: the targets are interchangeable.
TargetSymmetry == Permutations(Targets)
====

---- MODULE MCRuleStore ----
(* Instances of RuleStore for TLC. *)
EXTENDS RuleStore, TLC
====

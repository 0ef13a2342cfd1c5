---- MODULE MCRuleWizard ----
(* Instances of RuleWizard for TLC. *)
EXTENDS RuleWizard

\* A light and a climate; the climate is a safety domain.
OffersOf == [lamp |-> {"brightness", "rgb_color"}, heater |-> {"temperature"}]
====

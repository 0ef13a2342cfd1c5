---- MODULE MCGuardLoop ----
(* Instances of GuardLoop for TLC. *)
EXTENDS GuardLoop
====

---- MODULE MCForcePass ----
(* Instances of ForcePass for TLC. *)
EXTENDS ForcePass, TLC
====

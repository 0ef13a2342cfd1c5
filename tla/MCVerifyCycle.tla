---- MODULE MCVerifyCycle ----
(* Instances of VerifyCycle for TLC. *)
EXTENDS VerifyCycle, TLC

\* Safety runs only: the targets are interchangeable.
TargetSymmetry == Permutations(Targets)
====

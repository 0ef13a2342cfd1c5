---- MODULE MCOptionsWrites ----
(* Instances of OptionsWrites for TLC. *)
EXTENDS OptionsWrites, TLC

\* edit_basics submits no key that another writer also writes; edit_advanced submits
\* the slider, debounce and verify keys.
DialogPages == {{}, Keys}
====

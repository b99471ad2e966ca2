---------------------------- MODULE MCLifecycle -----------------------------
(* One service, of any of the five kinds, from its start to the program's end. *)
EXTENDS Lifecycle
=============================================================================

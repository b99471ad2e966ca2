----------------------------- MODULE MCEventBus -----------------------------
(***************************************************************************)
(* A small bus for TLC: the constants are given values in MCEventBus.cfg.  *)
(***************************************************************************)
EXTENDS EventBus
=============================================================================

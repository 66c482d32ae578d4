----------------------------- MODULE MCLifecycle -----------------------------
(***************************************************************************)
(* Two processes, the second of which may be started while the first is    *)
(* shutting down, and up to two requests in each.                          *)
(***************************************************************************)
EXTENDS LifecycleProofs, TLC

==============================================================================

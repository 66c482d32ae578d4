------------------------------ MODULE MCStartup ------------------------------
(***************************************************************************)
(* Three processes: two race, and the third starts when one of them has    *)
(* ended.                                                                  *)
(***************************************************************************)
EXTENDS StartupProofs, TLC

==============================================================================

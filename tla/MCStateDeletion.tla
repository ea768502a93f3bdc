----------------------------- MODULE MCStateDeletion -----------------------------
(* Small instances of StateDeletion for TLC. *)
EXTENDS StateDeletion
================================================================================

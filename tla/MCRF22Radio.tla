----------------------------- MODULE MCRF22Radio -----------------------------
(* RF22Radio with scaled lengths.                                           *)
EXTENDS RF22Radio
=============================================================================

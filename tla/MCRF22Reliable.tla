--------------------------- MODULE MCRF22Reliable ---------------------------
(* RF22Reliable on two or three nodes.                                      *)
EXTENDS RF22Reliable
=============================================================================

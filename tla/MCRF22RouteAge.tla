--------------------------- MODULE MCRF22RouteAge ---------------------------
(* RF22RouteAge on three slots and four addresses: one destination more than *)
(* fits.  No operation looks inside an address, so they are symmetric.       *)
EXTENDS RF22RouteAge, TLC

AddrSymmetry == Permutations(Addr)
=============================================================================

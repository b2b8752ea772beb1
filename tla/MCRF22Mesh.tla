----------------------------- MODULE MCRF22Mesh -----------------------------
(* RF22Mesh on four nodes: a chain, the test networks of RF22Router.cpp.    *)
EXTENDS RF22Mesh

CONSTANTS n1, n2, n3, n4

\* RF22_TEST_NETWORK 1 and 2.
Chain == {{n1, n2}, {n2, n3}, {n3, n4}}
Diamond == {{n1, n2}, {n1, n3}, {n2, n3}, {n2, n4}, {n3, n4}}
Kite == {{n1, n2}, {n2, n3}, {n2, n4}, {n3, n4}}
=============================================================================

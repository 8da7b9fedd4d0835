-------------------------- MODULE MCKeyManagement --------------------------
(* KeyManagement on a small instance: one connection and its letters.       *)
EXTENDS KeyManagement

CONSTANTS w1, w2, c1, k1, k2

\* Two that share their first key, two their second, two that share nothing.
SomePairs == {<<k1, k1>>, <<k1, k2>>, <<k2, k2>>}

=============================================================================

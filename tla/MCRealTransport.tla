-------------------------- MODULE MCRealTransport --------------------------
(* The transport on small instances: two hosts, two pool threads.          *)
EXTENDS RealTransport, TLC

CONSTANTS a, b, w1, w2

Sym == Permutations({a, b}) \cup Permutations({w1, w2})
=============================================================================

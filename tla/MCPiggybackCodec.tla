-------------------------- MODULE MCPiggybackCodec --------------------------
(* Datagrams over an alphabet of four bytes, words of two bytes.  All four *)
(* service identifiers in use are one more than the count can announce.    *)
EXTENDS PiggybackCodec

AllIDs == -2..1
FewerIDs == -1..1
=============================================================================

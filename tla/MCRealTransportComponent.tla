---------------------- MODULE MCRealTransportComponent ----------------------
(* The set-up of a process with two hosts.                                 *)
EXTENDS RealTransportComponent

CONSTANTS h1, h2, s1, s2, p1, p2, default

(* Both piggyback services have chosen the same identifier.                *)
ServiceIDs(s) == 0
=============================================================================

------------------------------- MODULE MCIPv4 -------------------------------
(* Two nodes on a LAN.  The first can also route to an address behind it,  *)
(* which the second one resolves while the first resolves the second's.    *)
EXTENDS IPv4, TLC

CONSTANTS n1, n2, a1, a2, far

MCIPAddress == n1 :> a1 @@ n2 :> a2
MCRouted == n1 :> {far} @@ n2 :> {}
MCMaxFrames ==
    [n \in Nodes |-> [a \in Hops |->
        CASE n = n1 /\ a = a2 -> 3
          [] n = n1 /\ a = Broadcast -> 1
          [] n = n2 /\ a = far -> 1
          [] OTHER -> 0]]
=============================================================================

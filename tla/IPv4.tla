-------------------------------- MODULE IPv4 --------------------------------
(***************************************************************************)
(* The sending side of INET's IPv4 (networklayer/ipv4/IPv4.cc) over ARP.   *)
(*                                                                         *)
(* A datagram whose next hop is not resolved waits in pendingPackets; ARP  *)
(* tells IPv4 by a signal, inside the same event, that a resolution was    *)
(* completed or has failed.  Routing has chosen the next hop before.       *)
(***************************************************************************)
EXTENDS ARP

CONSTANTS
    Broadcast,      \* the limited and the network broadcast address
    MaxFragments,   \* bound: fragments of a datagram
    MaxFrames,      \* bound: the fragments a node sends to a next hop
    MaxStops        \* bound: shutdowns and crashes

ASSUME BroadcastAssumption == Broadcast \notin Addresses \cup Nodes \cup {Unspecified}

ASSUME BoundAssumption ==
    /\ MaxFragments \in Nat \ {0}
    /\ MaxFrames \in [Nodes -> [Addresses \cup {Broadcast} -> Nat]]
    /\ MaxStops \in Nat

VARIABLES
    pendingPackets, \* per node and next hop: the queue of waiting fragments
    sent,           \* history: frames for a next hop, [id, mac]
    next,           \* history: the number of the next fragment for it
    stops,          \* history: shutdowns and crashes so far
    assertFailed    \* history: an ASSERT of ARP.cc or IPv4.cc has failed

ipVars == <<pendingPackets, sent, next, stops, assertFailed>>
vars == <<arpVars, ipVars>>

Hops == Addresses \cup {Broadcast}

Frame == [id : Nat, mac : Nodes \cup {Broadcast}]

Init ==
    /\ ArpInit
    /\ pendingPackets = [n \in Nodes |-> [a \in Addresses |-> << >>]]
    /\ sent = [n \in Nodes |-> [a \in Hops |-> << >>]]
    /\ next = [n \in Nodes |-> [a \in Hops |-> 1]]
    /\ stops = 0
    /\ assertFailed = FALSE

(* The fragments fragmentAndSend() makes of the next datagram to a.        *)
Fragments(n, a, k) == [i \in 1..k |-> next[n][a] + i - 1]

(* sendPacketToIeee802NIC() for a queue of fragments.                      *)
Frames(ids, m) == [i \in DOMAIN ids |-> [id |-> ids[i], mac |-> m]]

(* resolveNextHopMacAddress(): broadcasts need no resolution.              *)
NextHopMac(n, a) == IF a = Broadcast THEN Broadcast ELSE MACAddressFor(n, a)

(* sendDatagramToOutput() of every fragment.  The first one that finds no  *)
(* MAC address starts the resolution, and the ones behind it queue up.     *)
SendDatagram(n, a, k) ==
    /\ isUp[n] /\ next[n][a] + k - 1 <= MaxFrames[n][a]
    /\ next' = [next EXCEPT ![n][a] = @ + k]
    /\ LET m == NextHopMac(n, a) IN
       IF m = Unspecified
       THEN /\ pendingPackets' = [pendingPackets EXCEPT
                   ![n][a] = @ \o Fragments(n, a, k)]
            /\ StartAddressResolution(n, a)
            /\ UNCHANGED <<isUp, sent, assertFailed>>
       ELSE /\ assertFailed' = \/ assertFailed
                               \/ a # Broadcast /\ pendingPackets[n][a] # << >>
            /\ sent' = [sent EXCEPT ![n][a] = @ \o Frames(Fragments(n, a, k), m)]
            /\ UNCHANGED <<arpVars, pendingPackets>>
    /\ UNCHANGED stops

(* Mutant of ArpResolutionCompleted: the queue is popped from its end.     *)
ArpResolutionCompleted_Last(n, a, m) ==
    LET q == pendingPackets[n][a] IN
    /\ sent' = [sent EXCEPT ![n][a] =
                   @ \o Frames([i \in DOMAIN q |-> q[Len(q) + 1 - i]], m)]
    /\ pendingPackets' = [pendingPackets EXCEPT ![n][a] = << >>]

(* arpResolutionCompleted(): the queue of the address goes out.            *)
ArpResolutionCompleted(n, a, m) ==
    /\ sent' = [sent EXCEPT ![n][a] = @ \o Frames(pendingPackets[n][a], m)]
    /\ pendingPackets' = [pendingPackets EXCEPT ![n][a] = << >>]

(* Mutant of ArpResolutionTimedOut: the queue stays.                       *)
ArpResolutionTimedOut_Keep(n, a) == UNCHANGED pendingPackets

(* arpResolutionTimedOut(): the queue of the address is dropped.           *)
ArpResolutionTimedOut(n, a) ==
    pendingPackets' = [pendingPackets EXCEPT ![n][a] = << >>]

(* An ARP packet arrives, and completes a resolution if it merges.         *)
Receive(n, p) ==
    /\ ProcessARPPacket(n, p)
    /\ IF isUp[n] /\ Merges(n, p)
       THEN ArpResolutionCompleted(n, p.sip, p.smac)
       ELSE UNCHANGED <<sent, pendingPackets>>
    /\ UNCHANGED <<next, stops, assertFailed>>

(* A request timer fires.  The entry it points to must exist, and ARP      *)
(* must be up: handleMessageWhenDown() throws for a self message.          *)
Timeout(n, a) ==
    /\ a \in timers[n]
    /\ IF isUp[n] /\ a \in Cached(n)
       THEN /\ \/ RetryRequest(n, a) /\ UNCHANGED pendingPackets
               \/ ResolutionFails(n, a) /\ ArpResolutionTimedOut(n, a)
            /\ UNCHANGED assertFailed
       ELSE /\ assertFailed' = TRUE
            /\ UNCHANGED <<arpVars, pendingPackets>>
    /\ UNCHANGED <<sent, next, stops>>

Lose(p) == LosePacket(p) /\ UNCHANGED ipVars

Expire(n, a) == EntryExpires(n, a) /\ UNCHANGED ipVars

(* A shutdown or crash of the node stops ARP and IPv4 in one operation.    *)
Stop(n) ==
    /\ isUp[n] /\ stops < MaxStops
    /\ stops' = stops + 1
    /\ ArpStop(n)
    /\ pendingPackets' = [pendingPackets EXCEPT ![n] = [a \in Addresses |-> << >>]]
    /\ UNCHANGED <<sent, next, assertFailed>>

(* The node starts again; start() asserts that the cache is empty.         *)
Start(n) ==
    /\ ~isUp[n]
    /\ ArpStart(n)
    /\ assertFailed' = (assertFailed \/ Cached(n) # {})
    /\ UNCHANGED <<pendingPackets, sent, next, stops>>

Next ==
    \/ \E n \in Nodes, a \in Hops, k \in 1..MaxFragments :
          a # IPAddress[n] /\ SendDatagram(n, a, k)
    \/ \E n \in Nodes, p \in lan : Receive(n, p)
    \/ \E n \in Nodes, a \in Addresses : Timeout(n, a) \/ Expire(n, a)
    \/ \E p \in lan : Lose(p)
    \/ \E n \in Nodes : Stop(n) \/ Start(n)

Spec == Init /\ [][Next]_vars

(* A scheduled timer is an event of the simulation and is executed.        *)
FairSpec == Spec /\ \A n \in Nodes, a \in Addresses : WF_vars(Timeout(n, a))

-----------------------------------------------------------------------------
(* The type invariant: an entry never counts more retries than             *)
(* requestTimedOut() allows, and queues hold fragments of this node only.  *)
TypeOK ==
    /\ isUp \in [Nodes -> BOOLEAN]
    /\ arpCache \in [Nodes -> Cache]
    /\ timers \in [Nodes -> SUBSET Addresses]
    /\ lan \subseteq Packet
    /\ requests \in [Nodes -> [Addresses -> Nat]]
    /\ pendingPackets \in [Nodes -> [Addresses -> Seq(Nat)]]
    /\ \A n \in Nodes, a \in Addresses :
          pendingPackets[n][a] \in Seq(1..MaxFrames[n][a])
    /\ sent \in [Nodes -> [Hops -> Seq(Frame)]]
    /\ next \in [Nodes -> [Hops -> Nat \ {0}]]
    /\ stops \in 0..MaxStops
    /\ assertFailed \in BOOLEAN

Waiting(n, a) == a \in Cached(n) /\ arpCache[n][a].pending

(* Datagrams wait in IPv4's queue of a next hop exactly while ARP is       *)
(* resolving that address, whatever packets, timeouts, expiries and        *)
(* crashes came before; so the ASSERTs of IPv4.cc and ARP.cc hold.         *)
QueueMatchesResolution ==
    /\ \A n \in Nodes, a \in Addresses :
          (pendingPackets[n][a] # << >>) <=> Waiting(n, a)
    /\ ~assertFailed

(* A request timer is live exactly for the pending entries: no timer is    *)
(* left with an entry that was deleted, no resolution without a timer.     *)
TimerIffPending ==
    \A n \in Nodes : timers[n] = {a \in Cached(n) : arpCache[n][a].pending}

(* Datagrams for one next hop leave the node in the order they were sent,  *)
(* those that waited for a resolution and those that did not.              *)
InOrder ==
    \A n \in Nodes, a \in Hops : \A i, j \in DOMAIN sent[n][a] :
        i < j => sent[n][a][i].id < sent[n][a][j].id

(* A frame goes to a node that recognizes the next hop as its own or can   *)
(* route to it, whoever of them answered and however late.                 *)
RightNeighbour ==
    \A n \in Nodes, a \in Addresses : \A i \in DOMAIN sent[n][a] :
        LET m == sent[n][a][i].mac IN m \in Nodes /\ AddressRecognized(m, a)

(* What holds of one next hop and of the packets on the LAN, and how the   *)
(* numbers of sent, waiting and future fragments follow one another.       *)
HopInv(n, a) ==
    /\ Waiting(n, a) <=> a \in timers[n]
    /\ Waiting(n, a) <=> pendingPackets[n][a] # << >>
    /\ Waiting(n, a) => requests[n][a] = arpCache[n][a].numRetries + 1
    /\ ~Waiting(n, a) => requests[n][a] = 0
    /\ requests[n][a] <= RetryCount
    /\ a \in Cached(n) => isUp[n]
    /\ a \in Cached(n) /\ ~Waiting(n, a) =>
          /\ arpCache[n][a].mac \in Nodes
          /\ AddressRecognized(arpCache[n][a].mac, a)

ResolutionInv ==
    /\ \A n \in Nodes, a \in Addresses : HopInv(n, a)
    /\ \A p \in lan : AddressRecognized(p.smac, p.sip)
    /\ ~assertFailed

QueueInv(n, a) ==
    LET q == pendingPackets[n][a] IN
    /\ \A i, j \in DOMAIN q : i < j => q[i] < q[j]
    /\ \A i \in DOMAIN q : q[i] < next[n][a]
    /\ \A i \in DOMAIN sent[n][a], j \in DOMAIN q : sent[n][a][i].id < q[j]

OrderInv ==
    /\ \A n \in Nodes, a \in Hops : \A i \in DOMAIN sent[n][a] :
          sent[n][a][i].id < next[n][a]
    /\ \A n \in Nodes, a \in Addresses : QueueInv(n, a)

(* The inductive invariant: caches, timers, queues and packets agree for   *)
(* every next hop, and fragments are numbered without overtaking.          *)
IInv == TypeOK /\ ResolutionInv /\ OrderInv /\ InOrder /\ RightNeighbour

(* A resolution fails only after RetryCount requests, and never sends more *)
(* than that: an action property over requestTimedOut().                   *)
GivesUpAfterRetries ==
    [][\A n \in Nodes, a \in Addresses :
          /\ requests'[n][a] <= RetryCount
          /\ Waiting(n, a) /\ isUp'[n] /\ a \notin DOMAIN arpCache'[n]
                => requests[n][a] = RetryCount]_vars

(* Every datagram that waits for a resolution is sent, dropped or lost     *)
(* with a crash: no datagram is left in the queue for good.                *)
NoneWaitsForever ==
    \A n \in Nodes, a \in Addresses :
        (pendingPackets[n][a] # << >>) ~> (pendingPackets[n][a] = << >>)
=============================================================================

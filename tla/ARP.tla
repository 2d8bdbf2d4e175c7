-------------------------------- MODULE ARP --------------------------------
(***************************************************************************)
(* INET's address resolution (networklayer/arp/ARP.cc): one ARP module per *)
(* node, all of them on one IEEE 802 LAN that may lose any frame.          *)
(*                                                                         *)
(* A node has one interface on the LAN and is its own MAC address.  The    *)
(* handlers below are the parts of an event that belong to ARP; the events *)
(* themselves, with what IPv4 does in the signals ARP emits, are in module *)
(* IPv4.  Simulation time is abstracted to what ARP asks of it: a cache    *)
(* entry is fresh or older than cacheTimeout, and a request timer may fire *)
(* whenever it is scheduled.                                               *)
(***************************************************************************)
EXTENDS Integers, Sequences, FiniteSets, Functions

CONSTANTS
    Nodes,          \* the nodes, and their MAC addresses
    Addresses,      \* unicast IPv4 addresses that may be a next hop
    IPAddress,      \* the address of a node's interface
    Routed,         \* addresses a node can route out of another interface
    RetryCount,     \* parameter retryCount
    Unspecified     \* MACAddress::UNSPECIFIED_ADDRESS

ASSUME NodeAssumption ==
    /\ Unspecified \notin Nodes
    /\ IPAddress \in [Nodes -> Addresses]
    /\ \A m, n \in Nodes : IPAddress[m] = IPAddress[n] => m = n
    /\ Routed \in [Nodes -> SUBSET Addresses]

ASSUME RetryAssumption == RetryCount \in Nat \ {0}

VARIABLES
    isUp,           \* ARP::isUp and IPv4::isUp, set by the same operation
    arpCache,       \* arpCache of a node: a function on the cached addresses
    timers,         \* addresses whose entry is the context of a live timer
    lan,            \* ARP packets on their way to one node
    requests        \* history: requests a resolution in progress has sent

arpVars == <<isUp, arpCache, timers, lan, requests>>

Entry == [pending : BOOLEAN, mac : Nodes \cup {Unspecified},
          numRetries : 0..RetryCount, fresh : BOOLEAN]

Cache == UNION {[D -> Entry] : D \in SUBSET Addresses}

Packet == [op : {"request", "reply"}, smac : Nodes, sip : Addresses,
           dip : Addresses, to : Nodes]

ArpInit ==
    /\ isUp = [n \in Nodes |-> TRUE]
    /\ arpCache = [n \in Nodes |-> << >>]
    /\ timers = [n \in Nodes |-> {}]
    /\ lan = {}
    /\ requests = [n \in Nodes |-> [a \in Addresses |-> 0]]

Cached(n) == DOMAIN arpCache[n]

(* The cache of n with entry e for address a.                              *)
WithEntry(n, a, e) ==
    [b \in Cached(n) \cup {a} |-> IF b = a THEN e ELSE arpCache[n][b]]

(* getMACAddressFor(): cached, not pending and not expired.                *)
MACAddressFor(n, a) ==
    IF a \in Cached(n) /\ ~arpCache[n][a].pending /\ arpCache[n][a].fresh
    THEN arpCache[n][a].mac
    ELSE Unspecified

(* sendARPRequest(): a copy of the broadcast for every other node.         *)
Request(n, a) ==
    {[op |-> "request", smac |-> n, sip |-> IPAddress[n], dip |-> a, to |-> m] :
        m \in Nodes \ {n}}

(* addressRecognized(): local, or routed out of another interface.         *)
AddressRecognized(n, a) == a = IPAddress[n] \/ a \in Routed[n]

(* Mutant of StartAddressResolution: scheduleAt() is missing.              *)
StartAddressResolution_NoTimer(n, a) ==
    IF a \in Cached(n) /\ arpCache[n][a].pending
    THEN UNCHANGED <<arpCache, timers, lan, requests>>
    ELSE /\ arpCache' = [arpCache EXCEPT ![n] = WithEntry(n, a,
                [pending |-> TRUE, mac |-> Unspecified, numRetries |-> 0,
                 fresh |-> FALSE])]
         /\ lan' = lan \cup Request(n, a)
         /\ requests' = [requests EXCEPT ![n][a] = 1]
         /\ UNCHANGED timers

(* startAddressResolution() with initiateARPResolution(): nothing if a     *)
(* resolution is pending, else the entry is (re)set and a request sent.    *)
StartAddressResolution(n, a) ==
    IF a \in Cached(n) /\ arpCache[n][a].pending
    THEN UNCHANGED <<arpCache, timers, lan, requests>>
    ELSE /\ arpCache' = [arpCache EXCEPT ![n] = WithEntry(n, a,
                [pending |-> TRUE, mac |-> Unspecified, numRetries |-> 0,
                 fresh |-> FALSE])]
         /\ timers' = [timers EXCEPT ![n] = @ \cup {a}]
         /\ lan' = lan \cup Request(n, a)
         /\ requests' = [requests EXCEPT ![n][a] = 1]

(* Mutants of RetryRequest: no limit, and one retry too many.              *)
RetryRequest_NoLimit(n, a) ==
    /\ arpCache' = [arpCache EXCEPT ![n][a].numRetries = @ + 1]
    /\ lan' = lan \cup Request(n, a)
    /\ requests' = [requests EXCEPT ![n][a] = 1]
    /\ UNCHANGED <<isUp, timers>>

RetryRequest_OneMore(n, a) ==
    /\ arpCache[n][a].numRetries < RetryCount
    /\ arpCache' = [arpCache EXCEPT ![n][a].numRetries = @ + 1]
    /\ lan' = lan \cup Request(n, a)
    /\ requests' = [requests EXCEPT ![n][a] = @ + 1]
    /\ UNCHANGED <<isUp, timers>>

(* requestTimedOut(), a retry: the request is sent again and the timer     *)
(* rescheduled.                                                            *)
RetryRequest(n, a) ==
    /\ arpCache[n][a].numRetries + 1 < RetryCount
    /\ arpCache' = [arpCache EXCEPT ![n][a].numRetries = @ + 1]
    /\ lan' = lan \cup Request(n, a)
    /\ requests' = [requests EXCEPT ![n][a] = @ + 1]
    /\ UNCHANGED <<isUp, timers>>

(* requestTimedOut(), the last one: the entry leaves the cache.            *)
ResolutionFails(n, a) ==
    /\ arpCache[n][a].numRetries + 1 >= RetryCount
    /\ arpCache' = [arpCache EXCEPT ![n] = Restrict(@, Cached(n) \ {a})]
    /\ timers' = [timers EXCEPT ![n] = @ \ {a}]
    /\ requests' = [requests EXCEPT ![n][a] = 0]
    /\ UNCHANGED <<isUp, lan>>

(* processARPPacket() changes the cache: the sender is already known, or   *)
(* the packet asks for an address of this node.                            *)
Merges(n, p) == p.sip \in Cached(n) \/ AddressRecognized(n, p.dip)

(* Mutant of UpdateARPCache: the timer is not cancelled.                   *)
UpdateARPCache_KeepTimer(n, p) ==
    /\ arpCache' = [arpCache EXCEPT ![n] = WithEntry(n, p.sip,
           [pending |-> FALSE, mac |-> p.smac, numRetries |-> 0,
            fresh |-> TRUE])]
    /\ requests' = [requests EXCEPT ![n][p.sip] = 0]
    /\ UNCHANGED timers

(* updateARPCache(): whatever is pending for the sender is over.           *)
UpdateARPCache(n, p) ==
    /\ arpCache' = [arpCache EXCEPT ![n] = WithEntry(n, p.sip,
           [pending |-> FALSE, mac |-> p.smac, numRetries |-> 0,
            fresh |-> TRUE])]
    /\ timers' = [timers EXCEPT ![n] = @ \ {p.sip}]
    /\ requests' = [requests EXCEPT ![n][p.sip] = 0]

(* Mutant of Reply: the source MAC address is left as it was.              *)
Reply_OldSource(n, p) ==
    IF p.op = "request" /\ AddressRecognized(n, p.dip)
    THEN {[op |-> "reply", smac |-> p.smac, sip |-> p.dip, dip |-> p.sip,
           to |-> p.smac]}
    ELSE {}

(* The answer to a recognized request: the address asked for, with this    *)
(* node's MAC address.                                                     *)
Reply(n, p) ==
    IF p.op = "request" /\ AddressRecognized(n, p.dip)
    THEN {[op |-> "reply", smac |-> n, sip |-> p.dip, dip |-> p.sip,
           to |-> p.smac]}
    ELSE {}

(* handleMessage() with processARPPacket(); a node that is down drops it.  *)
ProcessARPPacket(n, p) ==
    /\ p \in lan /\ p.to = n
    /\ IF isUp[n]
       THEN /\ lan' = (lan \ {p}) \cup Reply(n, p)
            /\ IF Merges(n, p) THEN UpdateARPCache(n, p)
                               ELSE UNCHANGED <<arpCache, timers, requests>>
       ELSE /\ lan' = lan \ {p}
            /\ UNCHANGED <<arpCache, timers, requests>>
    /\ UNCHANGED isUp

(* The LAN loses a packet.                                                 *)
LosePacket(p) ==
    /\ p \in lan
    /\ lan' = lan \ {p}
    /\ UNCHANGED <<isUp, arpCache, timers, requests>>

(* cacheTimeout passes since the last update of an entry.                  *)
EntryExpires(n, a) ==
    /\ a \in Cached(n) /\ arpCache[n][a].fresh
    /\ arpCache' = [arpCache EXCEPT ![n][a].fresh = FALSE]
    /\ UNCHANGED <<isUp, timers, lan, requests>>

(* stop() with flush(): the timers are cancelled with the entries.         *)
ArpStop(n) ==
    /\ isUp' = [isUp EXCEPT ![n] = FALSE]
    /\ arpCache' = [arpCache EXCEPT ![n] = << >>]
    /\ timers' = [timers EXCEPT ![n] = {}]
    /\ requests' = [requests EXCEPT ![n] = [a \in Addresses |-> 0]]
    /\ UNCHANGED lan

(* start().                                                                *)
ArpStart(n) ==
    /\ isUp' = [isUp EXCEPT ![n] = TRUE]
    /\ UNCHANGED <<arpCache, timers, lan, requests>>
=============================================================================

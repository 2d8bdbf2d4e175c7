-------------------------------- MODULE DHCP --------------------------------
(***************************************************************************)
(* INET's DHCP: the client's state machine (applications/dhcp/             *)
(* DHCPClient.cc) against one server (DHCPServer.cc) over a network that   *)
(* delays, reorders and loses messages; clients and the server may crash   *)
(* and start again.  The client supports one server only.                  *)
(*                                                                         *)
(* Time is abstracted to the order of the timers: T1 is scheduled before   *)
(* T2, and T2 before the end of the lease.  intuniform() gives every       *)
(* transmission an xid that no message of the client in the network has.   *)
(* What goes wrong is counted: lost messages, answers that come after the  *)
(* response timeout, crashes, restarts and new associations.               *)
(***************************************************************************)
EXTENDS Integers, FiniteSets, FiniteSetsExt

CONSTANTS
    Clients,        \* the clients, and their MAC addresses
    PoolSize,       \* maxNumClients: the addresses are 1..PoolSize
    XIDs,           \* transaction ids a client may use
    MaxFaults       \* bound: faults

ASSUME PoolAssumption == PoolSize \in Nat \ {0}

ASSUME BoundAssumption ==
    /\ XIDs \subseteq Nat /\ Cardinality(XIDs) >= 2
    /\ MaxFaults \in Nat

Pool == 1..PoolSize
None == 0           \* an unspecified address, and no lease

VARIABLES
    clientState,    \* the state of a client; "DOWN" while not operational
    lease,          \* the address of the client's lease, kept over a crash
    ip,             \* the address configured on the client's interface
    route,          \* the default route of the lease is in the table
    timers,         \* the timers scheduled, of Timers
    xid,            \* the transaction a client waits for
    serverUp,       \* the server's isOperational
    leased,         \* the server's table: a function from addresses to MACs
    net,            \* messages in the network
    faults,         \* history: how many faults have happened
    forgotten       \* history: the server has lost its table

clientVars == <<clientState, lease, ip, route, timers, xid>>
serverVars == <<serverUp, leased>>
vars == <<clientVars, serverVars, net, faults, forgotten>>

Timers == {"TO", "T1", "T2", "LEASE"}
ClientStates == {"DOWN", "SELECTING", "REQUESTING", "BOUND", "RENEWING",
                 "REBINDING", "REBOOTING"}
Waiting == ClientStates \ {"DOWN", "BOUND"}

(* The forms of a DHCPREQUEST the server tells apart: with its identifier, *)
(* without it and without ciaddr, and with ciaddr.                         *)
Kinds == {"discover", "request", "reboot", "renew", "offer", "ack", "nak"}
Message == [kind : Kinds, client : Clients, xid : XIDs, ip : Pool \cup {None}]

(* The server's table when it starts.                                      *)
NoLeases == [a \in {} |-> None]

Init ==
    /\ clientState = [c \in Clients |-> "DOWN"]
    /\ lease = [c \in Clients |-> None]
    /\ ip = [c \in Clients |-> None]
    /\ route = [c \in Clients |-> FALSE]
    /\ timers = [c \in Clients |-> {}]
    /\ xid = [c \in Clients |-> Min(XIDs)]
    /\ serverUp = TRUE
    /\ leased = NoLeases
    /\ net = {}
    /\ faults = 0 /\ forgotten = FALSE

Fault == faults < MaxFaults /\ faults' = faults + 1

-----------------------------------------------------------------------------
(* The client.                                                             *)

FreshXids(c) == XIDs \ ({xid[c]} \cup {m.xid : m \in {n \in net : n.client = c}})

(* Mutant of Transmit: the xid of the last transmission.                   *)
Transmit_SameXid(c, k, a, rest) ==
    /\ UNCHANGED xid
    /\ net' = rest \cup {[kind |-> k, client |-> c, xid |-> xid[c], ip |-> a]}

(* sendDiscover() and sendRequest(): a new xid for every transmission.     *)
Transmit(c, k, a, rest) ==
    /\ FreshXids(c) # {}
    /\ xid' = [xid EXCEPT ![c] = Min(FreshXids(c))]
    /\ net' = rest \cup {[kind |-> k, client |-> c, xid |-> Min(FreshXids(c)),
                          ip |-> a]}

(* Mutant of InitClient: the timers of the lease go on.                    *)
InitClient_KeepTimers(c, rest) ==
    /\ Transmit(c, "discover", None, rest)
    /\ timers' = [timers EXCEPT ![c] = @ \cup {"TO"}]
    /\ clientState' = [clientState EXCEPT ![c] = "SELECTING"]

(* initClient(): every timer is cancelled; the address, the route and the  *)
(* lease stay.  `rest' is the network without what the client consumed.    *)
InitClient(c, rest) ==
    /\ Transmit(c, "discover", None, rest)
    /\ timers' = [timers EXCEPT ![c] = {"TO"}]
    /\ clientState' = [clientState EXCEPT ![c] = "SELECTING"]

(* Mutant of UnboundLease: the route is left.                              *)
UnboundLease_KeepRoute(c) ==
    /\ ip' = [ip EXCEPT ![c] = None]
    /\ UNCHANGED route

(* unboundLease(): the address and the route are removed.                  *)
UnboundLease(c) ==
    /\ ip' = [ip EXCEPT ![c] = None]
    /\ route' = [route EXCEPT ![c] = FALSE]

(* handleDHCPACK() with bindLease(): the recorded lease is configured and  *)
(* all its timers started.                                                 *)
HandleDHCPACK(c) ==
    /\ timers' = [timers EXCEPT ![c] = {"T1", "T2", "LEASE"}]
    /\ ip' = [ip EXCEPT ![c] = lease[c]]
    /\ route' = [route EXCEPT ![c] = TRUE]
    /\ clientState' = [clientState EXCEPT ![c] = "BOUND"]
    /\ UNCHANGED <<lease, xid>>

(* handleDHCPMessage(), an offer in SELECTING: the first one is taken.     *)
AcceptOffer(c, m) ==
    /\ clientState[c] = "SELECTING" /\ m.kind = "offer"
    /\ clientState' = [clientState EXCEPT ![c] = "REQUESTING"]
    /\ lease' = [lease EXCEPT ![c] = m.ip]
    /\ timers' = [timers EXCEPT ![c] = @ \cup {"TO"}]
    /\ Transmit(c, "request", m.ip, net \ {m})
    /\ UNCHANGED <<ip, route>>

AcceptAck(c, m) ==
    /\ clientState[c] \in Waiting \ {"SELECTING"} /\ m.kind = "ack"
    /\ HandleDHCPACK(c)
    /\ net' = net \ {m}

(* handleDHCPMessage(), a NAK: while renewing or rebinding the address is  *)
(* given up first.                                                         *)
AcceptNak(c, m) ==
    /\ clientState[c] \in Waiting \ {"SELECTING"} /\ m.kind = "nak"
    /\ InitClient(c, net \ {m})
    /\ IF clientState[c] \in {"RENEWING", "REBINDING"}
       THEN UnboundLease(c)
       ELSE UNCHANGED <<ip, route>>
    /\ UNCHANGED lease

Replies == {"offer", "ack", "nak"}

(* A reply reaches a client that is waiting for its xid.                   *)
ClientReceives(c, m) ==
    /\ m \in net /\ m.client = c /\ m.kind \in Replies
    /\ clientState[c] # "DOWN" /\ m.xid = xid[c]
    /\ \/ AcceptOffer(c, m)
       \/ AcceptAck(c, m)
       \/ AcceptNak(c, m)
    /\ UNCHANGED <<serverVars, faults, forgotten>>

(* The messages of the exchange a client is in.                            *)
InFlight(c) == {m \in net : m.client = c /\ m.xid = xid[c]}

(* handleTimer(), WAIT_OFFER and WAIT_ACK: start over with a discover.     *)
ResponseTimeout(c) ==
    /\ "TO" \in timers[c]
    /\ IF InFlight(c) = {} THEN UNCHANGED faults ELSE Fault
    /\ InitClient(c, net)
    /\ UNCHANGED <<lease, ip, route>>

(* handleTimer(), T1.                                                      *)
T1Expires(c) ==
    /\ "T1" \in timers[c]
    /\ clientState' = [clientState EXCEPT ![c] = "RENEWING"]
    /\ timers' = [timers EXCEPT ![c] = (@ \ {"T1"}) \cup {"TO"}]
    /\ Transmit(c, "renew", lease[c], net)
    /\ UNCHANGED <<lease, ip, route, faults>>

(* handleTimer(), T2 while renewing: the lease timer is cancelled, too.    *)
(* It is scheduled after T2, always, so LEASE_TIMEOUT never comes.         *)
T2Expires(c) ==
    /\ "T2" \in timers[c] /\ "T1" \notin timers[c]
    /\ clientState[c] = "RENEWING"
    /\ clientState' = [clientState EXCEPT ![c] = "REBINDING"]
    /\ timers' = [timers EXCEPT ![c] = {"TO"}]
    /\ Transmit(c, "renew", lease[c], net)
    /\ UNCHANGED <<lease, ip, route, faults>>

TimerExpires(c) ==
    /\ ResponseTimeout(c) \/ T1Expires(c) \/ T2Expires(c)
    /\ UNCHANGED <<serverVars, forgotten>>

(* receiveChangeNotification(): the interface was associated again.        *)
Associated(c) ==
    /\ clientState[c] # "DOWN" /\ Fault
    /\ InitClient(c, net)
    /\ UNCHANGED <<serverVars, lease, ip, route, forgotten>>

(* startApp() and the START_DHCP timer, which opens the socket at once: a  *)
(* client with a lease asks for it again, any other starts with nothing.   *)
BootClient(c) ==
    /\ clientState[c] = "DOWN"
    /\ IF lease[c] = None
       THEN InitClient(c, net)
       ELSE /\ Transmit(c, "reboot", lease[c], net)
            /\ timers' = [timers EXCEPT ![c] = {"TO"}]
            /\ clientState' = [clientState EXCEPT ![c] = "REBOOTING"]
    /\ UNCHANGED <<serverVars, lease, ip, route, faults, forgotten>>

(* A shutdown or crash: stopApp() cancels the timers, the node resets its  *)
(* interfaces and routes; the lease is remembered.                         *)
StopClient(c) ==
    /\ clientState[c] # "DOWN" /\ Fault
    /\ clientState' = [clientState EXCEPT ![c] = "DOWN"]
    /\ timers' = [timers EXCEPT ![c] = {}]
    /\ UnboundLease(c)
    /\ UNCHANGED <<serverVars, lease, xid, net, forgotten>>

-----------------------------------------------------------------------------
(* The server.                                                             *)

(* getLeaseByMac(): the addresses registered for a MAC address.            *)
LeasesOf(c) == {a \in DOMAIN leased : leased[a] = c}

(* Mutant of Available: leased addresses too.                              *)
Available_Leased == Pool

(* getAvailableLease(): the addresses of the pool that are not in the      *)
(* table.  A lease in the table stays leased until the server stops.       *)
Available == Pool \ DOMAIN leased

WithLease(a, c) == [b \in DOMAIN leased \cup {a} |-> IF b = a THEN c ELSE leased[b]]

(* sendOffer(), sendACK() and sendNAK(): the answer has the xid of m.      *)
Answer(m, k, a) ==
    net' = (net \ {m}) \cup {[kind |-> k, client |-> m.client, xid |-> m.xid,
                              ip |-> a]}

Silence(m) == net' = net \ {m} /\ UNCHANGED leased

(* Mutant of ServerDiscover: a new lease for every DHCPDISCOVER.           *)
ServerDiscover_New(m) ==
    /\ m.kind = "discover"
    /\ IF Available # {} THEN /\ Answer(m, "offer", Min(Available))
                              /\ leased' = WithLease(Min(Available), m.client)
       ELSE Silence(m)

(* processDHCPMessage(), DHCPDISCOVER: the registered lease, else the      *)
(* first address that is free.                                             *)
ServerDiscover(m) ==
    /\ m.kind = "discover"
    /\ LET mine == LeasesOf(m.client) IN
       IF mine # {} THEN /\ Answer(m, "offer", Min(mine))
                         /\ UNCHANGED leased
       ELSE IF Available # {} THEN /\ Answer(m, "offer", Min(Available))
                                   /\ leased' = WithLease(Min(Available), m.client)
       ELSE Silence(m)

(* DHCPREQUEST in answer to an offer.                                      *)
ServerRequest(m) ==
    /\ m.kind = "request"
    /\ Answer(m, IF m.ip \in LeasesOf(m.client) THEN "ack" ELSE "nak", m.ip)
    /\ UNCHANGED leased

(* DHCPREQUEST of a rebooted client: silence for an unknown address.       *)
ServerReboot(m) ==
    /\ m.kind = "reboot"
    /\ IF m.ip \in DOMAIN leased THEN Answer(m, "ack", m.ip) /\ UNCHANGED leased
                                 ELSE Silence(m)

(* DHCPREQUEST of a renewing or rebinding client.                          *)
ServerRenew(m) ==
    /\ m.kind = "renew"
    /\ Answer(m, IF m.ip \in DOMAIN leased THEN "ack" ELSE "nak", m.ip)
    /\ UNCHANGED leased

ServerReceives(m) ==
    /\ m \in net /\ serverUp
    /\ \/ ServerDiscover(m)
       \/ ServerRequest(m)
       \/ ServerReboot(m)
       \/ ServerRenew(m)
    /\ UNCHANGED <<clientVars, serverUp, faults, forgotten>>

(* stopApp() forgets every lease.                                          *)
StopServer ==
    /\ serverUp /\ Fault
    /\ serverUp' = FALSE /\ leased' = NoLeases
    /\ forgotten' = TRUE
    /\ UNCHANGED <<clientVars, net>>

StartServer ==
    /\ ~serverUp /\ serverUp' = TRUE
    /\ UNCHANGED <<clientVars, leased, net, faults, forgotten>>

(* A message is dropped where it arrives: the server or the client is      *)
(* down, or the client waits for another xid or another kind.              *)
Unwanted(m) ==
    IF m.kind \in Replies
    THEN \/ m.xid # xid[m.client]
         \/ clientState[m.client] \in {"DOWN", "BOUND"}
         \/ (clientState[m.client] = "SELECTING") # (m.kind = "offer")
    ELSE ~serverUp

Discard(m) ==
    /\ Unwanted(m)
    /\ net' = net \ {m}
    /\ UNCHANGED <<clientVars, serverVars, faults, forgotten>>

(* The network loses a message.                                            *)
Lose(m) ==
    /\ Fault
    /\ net' = net \ {m}
    /\ UNCHANGED <<clientVars, serverVars, forgotten>>

Arrives(m) == ClientReceives(m.client, m) \/ ServerReceives(m) \/ Discard(m)

Next ==
    \/ \E c \in Clients : \/ TimerExpires(c) \/ Associated(c)
                          \/ BootClient(c) \/ StopClient(c)
    \/ \E m \in net : Arrives(m) \/ Lose(m)
    \/ StopServer \/ StartServer

Spec == Init /\ [][Next]_vars

(* Scheduled timers expire, stopped nodes are started again, and messages  *)
(* arrive unless they are lost.                                            *)
Fairness ==
    /\ WF_vars(StartServer)
    /\ \A c \in Clients : /\ WF_vars(BootClient(c))
                          /\ WF_vars(TimerExpires(c))
                          /\ WF_vars(\E m \in InFlight(c) : Arrives(m))
                          /\ WF_vars(\E m \in net : m.client = c /\ Arrives(m))

FairSpec == Spec /\ Fairness

-----------------------------------------------------------------------------
(* The type invariant: what getAvailableLease() hands out, and with it     *)
(* every address of a lease or a message, is an address of the pool; the   *)
(* default route of bindLease() and unboundLease() is in the routing table *)
(* exactly while an address is set.                                        *)
TypeOK ==
    /\ clientState \in [Clients -> ClientStates]
    /\ lease \in [Clients -> Pool \cup {None}]
    /\ ip \in [Clients -> Pool \cup {None}]
    /\ route \in [Clients -> BOOLEAN]
    /\ \A c \in Clients : route[c] <=> ip[c] # None
    /\ timers \in [Clients -> SUBSET Timers]
    /\ xid \in [Clients -> XIDs]
    /\ serverUp \in BOOLEAN
    /\ DOMAIN leased \subseteq Pool /\ \A a \in DOMAIN leased : leased[a] \in Clients
    /\ net \subseteq Message /\ faults \in 0..MaxFaults /\ forgotten \in BOOLEAN

(* While the server has not lost its table, every address in use is        *)
(* recorded for the client that uses it: no two clients get the same one,  *)
(* whatever was lost, late or rebooted.  (The server checks the MAC        *)
(* address of a DHCPREQUEST in one of its three branches only.)            *)
HeldIsRecorded ==
    ~forgotten =>
        \A c \in Clients : ip[c] # None => ip[c] \in LeasesOf(c)

(* A client that waits for an answer has a response timeout, a bound one   *)
(* has its timers, and T2 cannot come in another state than RENEWING,      *)
(* where handleTimer() throws "T2 occurred in wrong state".  The lease     *)
(* timer runs only behind T2.                                              *)
TimersFitState ==
    \A c \in Clients :
        /\ clientState[c] \in Waiting => "TO" \in timers[c]
        /\ clientState[c] = "BOUND" => timers[c] = {"T1", "T2", "LEASE"}
        /\ "T2" \in timers[c] /\ "T1" \notin timers[c] =>
               clientState[c] = "RENEWING"
        /\ "LEASE" \in timers[c] => "T2" \in timers[c]

(* An ACK a client is about to accept confirms the address it has          *)
(* recorded: the xid keeps the ACKs of earlier transactions out, although  *)
(* recordLease() takes no address from the message.                        *)
AckConfirmsLease ==
    \A m \in net :
        /\ m.kind = "ack" /\ m.xid = xid[m.client]
        /\ clientState[m.client] \in Waiting \ {"SELECTING"}
        => m.ip = lease[m.client]

(* A client that is up is bound sooner or later, when the faults end and   *)
(* the pool has an address for everyone.                                   *)
EventuallyBound ==
    \A c \in Clients : []<>(clientState[c] = "BOUND")

(* What DHCPClient.h says of unboundLease(): the configured address is     *)
(* removed when the lease time expires.  So a timer must be there to do    *)
(* it for as long as the address is set.                                   *)
AddressExpires ==
    \A c \in Clients : ip[c] # None => "LEASE" \in timers[c]

-----------------------------------------------------------------------------
(* The inductive invariant behind the safety properties.                   *)

(* The timers of a client, for each of its states.                         *)
TimersOf(state) ==
    IF state = "DOWN" THEN {}
    ELSE IF state = "BOUND" THEN {"T1", "T2", "LEASE"}
    ELSE IF state = "RENEWING" THEN {"TO", "T2", "LEASE"}
    ELSE {"TO"}

(* The timers are those of the state; beyond SELECTING there is a lease,   *)
(* and an offer is always an offer of an address.                          *)
StateInv ==
    /\ \A c \in Clients :
          /\ timers[c] = TimersOf(clientState[c])
          /\ clientState[c] \notin {"DOWN", "SELECTING"} => lease[c] # None
    /\ \A m \in net : m.kind = "offer" => m.ip # None

(* What is under way for the current xid of a client, but for the exchange *)
(* of DHCPDISCOVER, is about the address the client has recorded.          *)
XidInv ==
    \A m \in net :
        m.kind \in {"request", "reboot", "renew", "ack"} /\ m.xid = xid[m.client]
        => m.ip = lease[m.client]

(* Until the server loses its table, what is offered to a client, what it  *)
(* remembers and what it uses is in the table under its MAC address.       *)
RecordInv ==
    ~forgotten =>
        /\ \A c \in Clients : {lease[c], ip[c]} \subseteq LeasesOf(c) \cup {None}
        /\ \A m \in net : m.kind = "offer" => m.ip \in LeasesOf(m.client)

(* Their conjunction.                                                      *)
IInv == TypeOK /\ StateInv /\ XidInv /\ RecordInv
=============================================================================

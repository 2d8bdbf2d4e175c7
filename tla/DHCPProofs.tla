----------------------------- MODULE DHCPProofs -----------------------------
(***************************************************************************)
(* Theorems about DHCP: the timers of a client, the addresses in use       *)
(* against the server's table, and late answers.                           *)
(***************************************************************************)
EXTENDS DHCP, NumberTheorems, FiniteSetTheorems

(* The pool has a least free address.                                      *)
LEMMA MinIn ==
    ASSUME NEW S \in SUBSET Nat, S # {}
    PROVE  Min(S) \in S
<1>1. \E x \in S : \A y \in S : x <= y
  BY LeastNumber
<1> QED
  BY <1>1 DEF Min

(* A transmission has an xid that is neither the client's last one nor in  *)
(* any of its messages in the network.                                     *)
LEMMA Transmits ==
    ASSUME TypeOK, NEW c \in Clients, NEW k, NEW a, NEW rest, Transmit(c, k, a, rest)
    PROVE  \E x \in XIDs :
              /\ x # xid[c] /\ \A m \in net : m.client = c => m.xid # x
              /\ xid' = [xid EXCEPT ![c] = x]
              /\ net' = rest \cup {[kind |-> k, client |-> c, xid |-> x, ip |-> a]}
<1>1. FreshXids(c) \subseteq Nat /\ FreshXids(c) # {}
  BY BoundAssumption DEF FreshXids, Transmit
<1>2. Min(FreshXids(c)) \in FreshXids(c)
  BY <1>1, MinIn
<1> QED
  BY <1>2 DEF Transmit, FreshXids

(* What InitClient() does to the variables of the client.                  *)
LEMMA Restarts ==
    ASSUME TypeOK, NEW c \in Clients, NEW rest \in SUBSET net, InitClient(c, rest)
    PROVE  /\ clientState' \in [Clients -> ClientStates]
           /\ timers' \in [Clients -> SUBSET Timers]
           /\ xid' \in [Clients -> XIDs]
           /\ net' \subseteq Message
<1>1. PICK x \in XIDs :
         /\ xid' = [xid EXCEPT ![c] = x]
         /\ net' = rest \cup {[kind |-> "discover", client |-> c, xid |-> x, ip |-> None]}
  BY Transmits DEF InitClient
<1>2. [kind |-> "discover", client |-> c, xid |-> x, ip |-> None] \in Message
  BY DEF Message, Kinds
<1>3. clientState' = [clientState EXCEPT ![c] = "SELECTING"]
      /\ timers' = [timers EXCEPT ![c] = {"TO"}]
  BY DEF InitClient
<1> QED
  BY <1>1, <1>2, <1>3 DEF TypeOK, ClientStates, Timers

(* A transmission about an address keeps the types.                        *)
LEMMA TransmitTypes ==
    ASSUME TypeOK, NEW c \in Clients, NEW k \in Kinds, NEW a \in Pool \cup {None},
           NEW rest \in SUBSET net, Transmit(c, k, a, rest)
    PROVE  xid' \in [Clients -> XIDs] /\ net' \subseteq Message
<1>1. PICK x \in XIDs :
         /\ xid' = [xid EXCEPT ![c] = x]
         /\ net' = rest \cup {[kind |-> k, client |-> c, xid |-> x, ip |-> a]}
  BY Transmits
<1>2. [kind |-> k, client |-> c, xid |-> x, ip |-> a] \in Message
  BY DEF Message
<1> QED
  BY <1>1, <1>2 DEF TypeOK

(* So does an answer of the server.                                        *)
LEMMA AnswerTypes ==
    ASSUME TypeOK, NEW m \in net, NEW k \in Kinds, NEW a \in Pool \cup {None},
           Answer(m, k, a)
    PROVE  net' \subseteq Message
<1>1. m \in Message
  BY DEF TypeOK
<1>2. [kind |-> k, client |-> m.client, xid |-> m.xid, ip |-> a] \in Message
  BY <1>1 DEF Message
<1> QED
  BY <1>2 DEF TypeOK, Answer

(* One event goes wrong more, within the bound.                            *)
LEMMA FaultTypes == faults \in 0..MaxFaults /\ Fault => faults' \in 0..MaxFaults
  BY BoundAssumption DEF Fault

-----------------------------------------------------------------------------
(* Types hold at the start.                                                *)
LEMMA InitType == Init => TypeOK
<1> SUFFICES ASSUME Init PROVE TypeOK
  OBVIOUS
<1>1. Min(XIDs) \in XIDs
  <2>1. XIDs # {}
    BY BoundAssumption, FS_EmptySet
  <2> QED
    BY <2>1, MinIn, BoundAssumption
<1>2. DOMAIN leased = {}
  BY DEF Init, NoLeases
<1>3. clientState \in [Clients -> ClientStates] /\ timers \in [Clients -> SUBSET Timers]
  BY DEF Init, ClientStates
<1>4. /\ lease \in [Clients -> Pool \cup {None}] /\ ip \in [Clients -> Pool \cup {None}]
      /\ route \in [Clients -> BOOLEAN] /\ \A c \in Clients : route[c] <=> ip[c] # None
      /\ xid \in [Clients -> XIDs]
  BY <1>1 DEF Init
<1>5. /\ DOMAIN leased \subseteq Pool /\ \A a \in DOMAIN leased : leased[a] \in Clients
      /\ net \subseteq Message /\ faults \in 0..MaxFaults /\ forgotten \in BOOLEAN
      /\ serverUp \in BOOLEAN
  <2>1. net = {} /\ faults = 0 /\ forgotten = FALSE /\ serverUp = TRUE
    BY DEF Init
  <2>2. MaxFaults \in Nat
    BY BoundAssumption
  <2>3. DOMAIN leased \subseteq Pool /\ \A a \in DOMAIN leased : leased[a] \in Clients
    BY <1>2
  <2>4. net \subseteq Message /\ faults \in 0..MaxFaults
    BY <2>1, <2>2
  <2>5. forgotten \in BOOLEAN /\ serverUp \in BOOLEAN
    BY <2>1, Zenon
  <2> QED
    BY <2>3, <2>4, <2>5
<1> QED
  BY <1>3, <1>4, <1>5 DEF TypeOK

(* The DHCPDISCOVER of a client gets an address of the pool, or nothing.   *)
LEMMA DiscoverTypes ==
    ASSUME TypeOK, NEW m \in net, ServerDiscover(m)
    PROVE  /\ net' \subseteq Message
           /\ DOMAIN leased' \subseteq Pool
           /\ \A a \in DOMAIN leased' : leased'[a] \in Clients
<1> DEFINE mine == LeasesOf(m.client)
<1>1. m.client \in Clients
  BY DEF TypeOK, Message
<1>2. mine \subseteq Pool /\ Available \subseteq Pool /\ Pool \subseteq Nat
  BY DEF LeasesOf, Available, TypeOK, Pool
<1>3. CASE mine # {}
  <2>1. Min(mine) \in Pool
    BY <1>2, <1>3, MinIn
  <2>2. Answer(m, "offer", Min(mine)) /\ UNCHANGED leased
    BY <1>3 DEF ServerDiscover
  <2> QED
    BY <2>1, <2>2, AnswerTypes DEF TypeOK, Kinds
<1>4. CASE mine = {} /\ Available # {}
  <2>1. Min(Available) \in Pool
    BY <1>2, <1>4, MinIn
  <2>2. Answer(m, "offer", Min(Available)) /\ leased' = WithLease(Min(Available), m.client)
    BY <1>4 DEF ServerDiscover
  <2>3. net' \subseteq Message
    BY <2>1, <2>2, AnswerTypes DEF Kinds
  <2> QED
    BY <1>1, <2>1, <2>2, <2>3 DEF TypeOK, WithLease
<1>5. CASE mine = {} /\ Available = {}
  BY <1>5 DEF ServerDiscover, Silence, TypeOK
<1> QED
  BY <1>3, <1>4, <1>5

(* The address and the route are set and removed together.                 *)
LEMMA RouteTypes ==
    ASSUME TypeOK, NEW c \in Clients,
           \/ UNCHANGED <<ip, route>>
           \/ UnboundLease(c)
           \/ /\ lease[c] # None
              /\ ip' = [ip EXCEPT ![c] = lease[c]] /\ route' = [route EXCEPT ![c] = TRUE]
    PROVE  /\ ip' \in [Clients -> Pool \cup {None}]
           /\ route' \in [Clients -> BOOLEAN]
           /\ \A d \in Clients : route'[d] <=> ip'[d] # None
<1>1. CASE UNCHANGED <<ip, route>>
  BY <1>1 DEF TypeOK
<1>2. CASE UnboundLease(c)
  BY <1>2 DEF TypeOK, UnboundLease
<1>3. CASE /\ lease[c] # None
           /\ ip' = [ip EXCEPT ![c] = lease[c]] /\ route' = [route EXCEPT ![c] = TRUE]
  BY <1>3 DEF TypeOK
<1> QED
  BY <1>1, <1>2, <1>3

(* Types need StateInv: a client that accepts an ACK has a lease.          *)
LEMMA TypeNext == TypeOK /\ StateInv /\ [Next]_vars => TypeOK'
<1> SUFFICES ASSUME TypeOK, StateInv, [Next]_vars PROVE TypeOK'
  OBVIOUS
<1>1. ASSUME NEW c \in Clients, ResponseTimeout(c), UNCHANGED <<serverVars, forgotten>>
      PROVE  TypeOK'
  <2>1. faults' \in 0..MaxFaults
    BY <1>1, FaultTypes DEF ResponseTimeout, TypeOK
  <2> QED
    BY <1>1, <2>1, Restarts DEF ResponseTimeout, TypeOK, serverVars
<1>2. ASSUME NEW c \in Clients, T1Expires(c), UNCHANGED <<serverVars, forgotten>>
      PROVE  TypeOK'
  <2>1. xid' \in [Clients -> XIDs] /\ net' \subseteq Message
    BY <1>2, TransmitTypes DEF T1Expires, TypeOK, Kinds
  <2> QED
    BY <1>2, <2>1 DEF T1Expires, TypeOK, serverVars, Timers, ClientStates
<1>3. ASSUME NEW c \in Clients, T2Expires(c), UNCHANGED <<serverVars, forgotten>>
      PROVE  TypeOK'
  <2>1. xid' \in [Clients -> XIDs] /\ net' \subseteq Message
    BY <1>3, TransmitTypes DEF T2Expires, TypeOK, Kinds
  <2> QED
    BY <1>3, <2>1 DEF T2Expires, TypeOK, serverVars, Timers, ClientStates
<1>4. ASSUME NEW c \in Clients, Associated(c)
      PROVE  TypeOK'
  <2>1. faults' \in 0..MaxFaults
    BY <1>4, FaultTypes DEF Associated, TypeOK
  <2> QED
    BY <1>4, <2>1, Restarts DEF Associated, TypeOK, serverVars
<1>5. ASSUME NEW c \in Clients, BootClient(c)
      PROVE  TypeOK'
  <2>1. CASE lease[c] = None
    BY <1>5, <2>1, Restarts DEF BootClient, TypeOK, serverVars
  <2>2. CASE lease[c] # None
    <3>1. xid' \in [Clients -> XIDs] /\ net' \subseteq Message
      BY <1>5, <2>2, TransmitTypes DEF BootClient, TypeOK, Kinds
    <3>2. clientState' \in [Clients -> ClientStates] /\ timers' \in [Clients -> SUBSET Timers]
      BY <1>5, <2>2 DEF BootClient, TypeOK, ClientStates, Timers
    <3> QED
      BY <1>5, <2>2, <3>1, <3>2 DEF BootClient, TypeOK, serverVars
  <2> QED
    BY <2>1, <2>2
<1>6. ASSUME NEW c \in Clients, StopClient(c)
      PROVE  TypeOK'
  <2>1. faults' \in 0..MaxFaults
    BY <1>6, FaultTypes DEF StopClient, TypeOK
  <2>2. /\ ip' \in [Clients -> Pool \cup {None}] /\ route' \in [Clients -> BOOLEAN]
        /\ \A d \in Clients : route'[d] <=> ip'[d] # None
    BY <1>6, RouteTypes DEF StopClient
  <2>3. clientState' \in [Clients -> ClientStates] /\ timers' \in [Clients -> SUBSET Timers]
    BY <1>6 DEF StopClient, TypeOK, ClientStates
  <2> QED
    BY <1>6, <2>1, <2>2, <2>3 DEF StopClient, TypeOK, serverVars
<1>7. ASSUME NEW m \in net, ClientReceives(m.client, m)
      PROVE  TypeOK'
  <2> DEFINE c == m.client
  <2>1. c \in Clients /\ m.ip \in Pool \cup {None}
    BY DEF TypeOK, Message
  <2>2. CASE AcceptOffer(c, m)
    <3>1. xid' \in [Clients -> XIDs] /\ net' \subseteq Message
      BY <2>1, <2>2, TransmitTypes DEF AcceptOffer, Kinds
    <3>2. /\ clientState' \in [Clients -> ClientStates]
          /\ lease' \in [Clients -> Pool \cup {None}]
          /\ timers' \in [Clients -> SUBSET Timers]
      BY <2>1, <2>2 DEF AcceptOffer, TypeOK, ClientStates, Timers
    <3> QED
      BY <1>7, <2>2, <3>1, <3>2 DEF ClientReceives, AcceptOffer, TypeOK, serverVars
  <2>3. CASE AcceptAck(c, m)
    <3>1. lease[c] # None
      BY <2>1, <2>3 DEF AcceptAck, StateInv, Waiting
    <3>2. /\ ip' \in [Clients -> Pool \cup {None}] /\ route' \in [Clients -> BOOLEAN]
          /\ \A d \in Clients : route'[d] <=> ip'[d] # None
      BY <2>1, <2>3, <3>1, RouteTypes DEF AcceptAck, HandleDHCPACK
    <3> QED
      BY <1>7, <2>1, <2>3, <3>2
      DEF ClientReceives, AcceptAck, HandleDHCPACK, TypeOK, serverVars, ClientStates, Timers
  <2>4. CASE AcceptNak(c, m)
    <3>1. /\ ip' \in [Clients -> Pool \cup {None}] /\ route' \in [Clients -> BOOLEAN]
          /\ \A d \in Clients : route'[d] <=> ip'[d] # None
      BY <2>1, <2>4, RouteTypes DEF AcceptNak
    <3>2. InitClient(c, net \ {m}) /\ UNCHANGED lease
      BY <2>4 DEF AcceptNak
    <3> QED
      BY <1>7, <2>1, <3>1, <3>2, Restarts DEF ClientReceives, TypeOK, serverVars
  <2> QED
    BY <1>7, <2>2, <2>3, <2>4 DEF ClientReceives
<1>8. ASSUME NEW m \in net, ServerReceives(m)
      PROVE  TypeOK'
  <2>1. m.ip \in Pool \cup {None}
    BY DEF TypeOK, Message
  <2>2. /\ net' \subseteq Message /\ DOMAIN leased' \subseteq Pool
        /\ \A a \in DOMAIN leased' : leased'[a] \in Clients
    <3>1. CASE ServerDiscover(m)
      BY <3>1, DiscoverTypes
    <3>2. CASE ServerRequest(m)
      BY <2>1, <3>2, AnswerTypes DEF ServerRequest, TypeOK, Kinds
    <3>3. CASE ServerReboot(m)
      BY <2>1, <3>3, AnswerTypes DEF ServerReboot, Silence, TypeOK, Kinds
    <3>4. CASE ServerRenew(m)
      BY <2>1, <3>4, AnswerTypes DEF ServerRenew, TypeOK, Kinds
    <3> QED
      BY <1>8, <3>1, <3>2, <3>3, <3>4 DEF ServerReceives
  <2> QED
    BY <1>8, <2>2 DEF ServerReceives, TypeOK, clientVars
<1>9. ASSUME NEW m \in net, Discard(m) \/ Lose(m)
      PROVE  TypeOK'
  <2>1. faults' \in 0..MaxFaults
    BY <1>9, FaultTypes DEF Discard, Lose, TypeOK
  <2> QED
    BY <1>9, <2>1 DEF Discard, Lose, TypeOK, clientVars, serverVars
<1>10. CASE StopServer
  <2>1. faults' \in 0..MaxFaults
    BY <1>10, FaultTypes DEF StopServer, TypeOK
  <2>2. serverUp' \in BOOLEAN /\ forgotten' \in BOOLEAN
    BY <1>10, Zenon DEF StopServer
  <2>3. DOMAIN leased' = {}
    BY <1>10 DEF StopServer, NoLeases
  <2> QED
    BY <1>10, <2>1, <2>2, <2>3 DEF StopServer, TypeOK, clientVars
<1>11. CASE StartServer
  <2>1. serverUp' \in BOOLEAN
    BY <1>11, Zenon DEF StartServer
  <2> QED
    BY <1>11, <2>1 DEF StartServer, TypeOK, clientVars
<1>12. CASE UNCHANGED vars
  BY <1>12 DEF TypeOK, vars, clientVars, serverVars
<1> QED
  BY <1>1, <1>2, <1>3, <1>4, <1>5, <1>6, <1>7, <1>8, <1>9, <1>10, <1>11, <1>12
  DEF Next, TimerExpires, Arrives

-----------------------------------------------------------------------------
(* A server's answer: what is offered is an address of the table that is   *)
(* registered for the client, and an ACK repeats the address it answers.   *)
LEMMA ServerSteps ==
    ASSUME TypeOK, NEW m \in net, ServerReceives(m)
    PROVE  /\ UNCHANGED <<clientVars, forgotten>>
           /\ \A c \in Clients : LeasesOf(c) \subseteq LeasesOf(c)'
           /\ \A n \in net' \ net :
                 /\ n.client = m.client /\ n.xid = m.xid
                 /\ \/ n.kind = "offer" /\ n.ip \in LeasesOf(m.client)' /\ n.ip # None
                    \/ n.kind = "nak"
                    \/ /\ n.kind = "ack" /\ n.ip = m.ip
                       /\ m.kind \in {"request", "reboot", "renew"}
<1>1. m.client \in Clients
  BY DEF TypeOK, Message
<1>2. CASE ServerDiscover(m)
  <2> DEFINE mine == LeasesOf(m.client)
  <2>1. /\ mine \subseteq Pool /\ Available \subseteq Pool
        /\ Pool \subseteq Nat \ {None}
    BY DEF LeasesOf, Available, TypeOK, Pool, None
  <2>2. CASE mine # {}
    <3>1. Min(mine) \in mine
      BY <2>1, <2>2, MinIn
    <3>2. Answer(m, "offer", Min(mine)) /\ UNCHANGED leased
      BY <1>2, <2>2 DEF ServerDiscover
    <3> QED
      BY <2>1, <3>1, <3>2 DEF Answer, LeasesOf, ServerReceives
  <2>3. CASE mine = {} /\ Available # {}
    <3>1. Min(Available) \in Available
      BY <2>1, <2>3, MinIn
    <3>2. Answer(m, "offer", Min(Available)) /\ leased' = WithLease(Min(Available), m.client)
      BY <1>2, <2>3 DEF ServerDiscover
    <3>3. Min(Available) \in LeasesOf(m.client)'
      BY <3>1, <3>2 DEF LeasesOf, WithLease
    <3>4. \A c \in Clients : LeasesOf(c) \subseteq LeasesOf(c)'
      BY <3>1, <3>2 DEF LeasesOf, WithLease, Available
    <3> QED
      BY <2>1, <3>1, <3>2, <3>3, <3>4 DEF Answer, ServerReceives
  <2>4. CASE mine = {} /\ Available = {}
    BY <1>2, <2>4 DEF ServerDiscover, Silence, LeasesOf, ServerReceives
  <2> QED
    BY <2>2, <2>3, <2>4
<1>3. CASE ServerRequest(m) \/ ServerReboot(m) \/ ServerRenew(m)
  BY <1>3 DEF ServerRequest, ServerReboot, ServerRenew, Answer, Silence, LeasesOf,
              ServerReceives
<1> QED
  BY <1>2, <1>3 DEF ServerReceives

(* A client's steps, as far as the invariants look at them.  It sends one  *)
(* message with a fresh xid, about the address it has recorded; or it      *)
(* accepts an ACK; or it stops.                                            *)
Sends(c) ==
    \E k \in Kinds, a \in Pool \cup {None}, x \in XIDs :
        /\ \A m \in net : m.client = c => m.xid # x
        /\ xid' = [xid EXCEPT ![c] = x]
        /\ [kind |-> k, client |-> c, xid |-> x, ip |-> a] \in net'
        /\ net' \subseteq net \cup {[kind |-> k, client |-> c, xid |-> x, ip |-> a]}
        /\ k = "discover" \/ (k \in {"request", "reboot", "renew"} /\ a = lease'[c])

(* Every transmission of the client's timers is one of those.              *)
LEMMA TransmitSends ==
    ASSUME TypeOK, NEW c \in Clients, NEW k \in {"discover", "request", "reboot", "renew"},
           NEW a \in Pool \cup {None}, NEW rest \in SUBSET net, Transmit(c, k, a, rest),
           k = "discover" \/ a = lease'[c]
    PROVE  Sends(c)
  BY Transmits DEF Sends, Kinds

(* The steps of a client do not touch the server's table.                  *)
LEMMA StepsOfClient ==
    ASSUME TypeOK, NEW c \in Clients,
           \/ TimerExpires(c) \/ Associated(c) \/ BootClient(c)
           \/ \E m \in net : m.client = c /\ ClientReceives(c, m)
              /\ (AcceptOffer(c, m) \/ AcceptNak(c, m))
    PROVE  /\ Sends(c)
           /\ UNCHANGED <<leased, forgotten>>
<1>1. CASE ResponseTimeout(c) /\ UNCHANGED <<serverVars, forgotten>>
  BY <1>1, TransmitSends DEF ResponseTimeout, InitClient, serverVars
<1>2. CASE (T1Expires(c) \/ T2Expires(c)) /\ UNCHANGED <<serverVars, forgotten>>
  BY <1>2, TransmitSends DEF T1Expires, T2Expires, TypeOK, serverVars
<1>3. CASE Associated(c)
  BY <1>3, TransmitSends DEF Associated, InitClient, serverVars
<1>4. CASE BootClient(c)
  BY <1>4, TransmitSends DEF BootClient, InitClient, TypeOK, serverVars
<1>5. ASSUME NEW m \in net, m.client = c, AcceptOffer(c, m), UNCHANGED <<serverVars, forgotten>>
      PROVE  Sends(c) /\ UNCHANGED <<leased, forgotten>>
  <2>1. m.ip \in Pool \cup {None}
    BY DEF TypeOK, Message
  <2>2. lease'[c] = m.ip
    BY <1>5 DEF AcceptOffer, TypeOK
  <2> QED
    BY <1>5, <2>1, <2>2, TransmitSends DEF AcceptOffer, serverVars
<1>6. ASSUME NEW m \in net, m.client = c, AcceptNak(c, m), UNCHANGED <<serverVars, forgotten>>
      PROVE  Sends(c) /\ UNCHANGED <<leased, forgotten>>
  BY <1>6, TransmitSends DEF AcceptNak, InitClient, serverVars
<1> QED
  BY <1>1, <1>2, <1>3, <1>4, <1>5, <1>6 DEF TimerExpires, ClientReceives

-----------------------------------------------------------------------------
(* The exchange of the current xid is about the recorded address: a fresh  *)
(* xid leaves every earlier answer behind, and the server repeats the      *)
(* address it was asked about.                                             *)
LEMMA XidNext == TypeOK /\ XidInv /\ [Next]_vars => XidInv'
<1> SUFFICES ASSUME TypeOK, XidInv, [Next]_vars PROVE XidInv'
  OBVIOUS
<1> DEFINE About == {"request", "reboot", "renew", "ack"}
<1>1. ASSUME NEW c \in Clients, Sends(c), \A d \in Clients \ {c} : lease'[d] = lease[d]
      PROVE  XidInv'
  <2>1. PICK k \in Kinds, a \in Pool \cup {None}, x \in XIDs :
           /\ \A m \in net : m.client = c => m.xid # x
           /\ xid' = [xid EXCEPT ![c] = x]
           /\ net' \subseteq net \cup {[kind |-> k, client |-> c, xid |-> x, ip |-> a]}
           /\ k = "discover" \/ (k \in {"request", "reboot", "renew"} /\ a = lease'[c])
    BY <1>1 DEF Sends
  <2> SUFFICES ASSUME NEW m \in net', m.kind \in About, m.xid = xid'[m.client]
               PROVE  m.ip = lease'[m.client]
    BY DEF XidInv
  <2>2. CASE m \in net /\ m.client # c
    BY <1>1, <2>1, <2>2 DEF XidInv, TypeOK, Message
  <2>3. CASE m \in net /\ m.client = c
    BY <2>1, <2>3 DEF TypeOK
  <2>4. CASE m \notin net
    BY <2>1, <2>4
  <2> QED
    BY <2>2, <2>3, <2>4
<1>2. ASSUME NEW c \in Clients, TimerExpires(c) \/ Associated(c) \/ BootClient(c)
      PROVE  XidInv'
  <2>1. Sends(c)
    BY <1>2, StepsOfClient
  <2>2. UNCHANGED lease
    BY <1>2 DEF TimerExpires, ResponseTimeout, T1Expires, T2Expires, Associated, BootClient
  <2> QED
    BY <1>1, <2>1, <2>2
<1>3. ASSUME NEW m \in net, ClientReceives(m.client, m)
      PROVE  XidInv'
  <2> DEFINE c == m.client
  <2>1. c \in Clients
    BY DEF TypeOK, Message
  <2>2. CASE AcceptOffer(c, m) \/ AcceptNak(c, m)
    <3>1. Sends(c)
      BY <1>3, <2>1, <2>2, StepsOfClient
    <3>2. \A d \in Clients \ {c} : lease'[d] = lease[d]
      BY <2>1, <2>2 DEF AcceptOffer, AcceptNak, TypeOK
    <3> QED
      BY <1>1, <2>1, <3>1, <3>2
  <2>3. CASE AcceptAck(c, m)
    BY <2>3 DEF AcceptAck, HandleDHCPACK, XidInv
  <2> QED
    BY <1>3, <2>2, <2>3 DEF ClientReceives
<1>4. ASSUME NEW m \in net, ServerReceives(m)
      PROVE  XidInv'
  <2>1. xid' = xid /\ lease' = lease
    BY <1>4, ServerSteps DEF clientVars
  <2> SUFFICES ASSUME NEW n \in net', n.kind \in About, n.xid = xid[n.client]
               PROVE  n.ip = lease[n.client]
    BY <2>1 DEF XidInv
  <2>2. CASE n \in net
    BY <2>2 DEF XidInv
  <2>3. CASE n \notin net
    BY <1>4, <2>3, ServerSteps DEF XidInv
  <2> QED
    BY <2>2, <2>3
<1>5. ASSUME UNCHANGED <<xid, lease>>, net' \subseteq net
      PROVE  XidInv'
  BY <1>5 DEF XidInv
<1>6. ASSUME NEW c \in Clients, StopClient(c)
      PROVE  XidInv'
  BY <1>5, <1>6 DEF StopClient
<1>7. ASSUME NEW m \in net, Discard(m) \/ Lose(m)
      PROVE  XidInv'
  BY <1>5, <1>7 DEF Discard, Lose, clientVars
<1>8. CASE StopServer \/ StartServer \/ UNCHANGED vars
  BY <1>5, <1>8 DEF StopServer, StartServer, vars, clientVars
<1> QED
  BY <1>2, <1>3, <1>4, <1>6, <1>7, <1>8 DEF Next, Arrives

-----------------------------------------------------------------------------
(* Offers are made by the server only.                                     *)
LEMMA Offers ==
    ASSUME TypeOK, NEW c \in Clients, Sends(c)
    PROVE  \A m \in net' : m.kind = "offer" => m \in net
  BY DEF Sends

(* One client changes its state, its timers and its lease together.        *)
LEMMA OneClient ==
    ASSUME TypeOK, StateInv, NEW c \in Clients,
           NEW state, clientState' = [clientState EXCEPT ![c] = state],
           timers' = [timers EXCEPT ![c] = TimersOf(state)],
           \A d \in Clients \ {c} : lease'[d] = lease[d],
           state \notin {"DOWN", "SELECTING"} => lease'[c] # None,
           \A m \in net' : m.kind = "offer" => m \in net
    PROVE  StateInv'
<1>1. ASSUME NEW d \in Clients
      PROVE  /\ timers'[d] = TimersOf(clientState'[d])
             /\ clientState'[d] \notin {"DOWN", "SELECTING"} => lease'[d] # None
  <2>1. CASE d = c
    BY <2>1 DEF TypeOK
  <2>2. CASE d # c
    BY <2>2 DEF TypeOK, StateInv
  <2> QED
    BY <2>1, <2>2
<1> QED
  BY <1>1 DEF StateInv, TimersOf

(* Lease and timers follow the client's state, step by step.               *)
LEMMA StateNext == TypeOK /\ StateInv /\ [Next]_vars => StateInv'
<1> SUFFICES ASSUME TypeOK, StateInv, [Next]_vars PROVE StateInv'
  OBVIOUS
<1>1. ASSUME NEW c \in Clients, TimerExpires(c) \/ Associated(c) \/ BootClient(c)
      PROVE  StateInv'
  <2>1. \A m \in net' : m.kind = "offer" => m \in net
    BY <1>1, StepsOfClient, Offers
  <2>2. timers[c] = TimersOf(clientState[c]) /\ UNCHANGED lease
        /\ (clientState[c] \notin {"DOWN", "SELECTING"} => lease[c] # None)
    BY <1>1 DEF StateInv, TimerExpires, ResponseTimeout, T1Expires, T2Expires, Associated,
                BootClient
  <2>3. CASE \E rest : InitClient(c, rest)
    BY <2>1, <2>2, <2>3, OneClient DEF InitClient, TimersOf
  <2>4. CASE T1Expires(c)
    <3>1. clientState[c] = "BOUND"
      BY <2>2, <2>4 DEF T1Expires, TimersOf
    <3>2. timers' = [timers EXCEPT ![c] = TimersOf("RENEWING")]
      BY <2>2, <2>4, <3>1 DEF T1Expires, TimersOf, TypeOK
    <3> QED
      BY <2>1, <2>2, <2>4, <3>1, <3>2, OneClient DEF T1Expires
  <2>5. CASE T2Expires(c)
    BY <2>1, <2>2, <2>5, OneClient DEF T2Expires, TimersOf
  <2>6. CASE BootClient(c) /\ lease[c] # None
    BY <2>1, <2>2, <2>6, OneClient DEF BootClient, TimersOf
  <2> QED
    BY <1>1, <2>3, <2>4, <2>5, <2>6 DEF TimerExpires, ResponseTimeout, Associated, BootClient
<1>2. ASSUME NEW c \in Clients, StopClient(c)
      PROVE  StateInv'
  BY <1>2, OneClient DEF StopClient, TimersOf
<1>3. ASSUME NEW m \in net, ClientReceives(m.client, m)
      PROVE  StateInv'
  <2> DEFINE c == m.client
  <2>1. c \in Clients
    BY DEF TypeOK, Message
  <2>2. timers[c] = TimersOf(clientState[c])
    BY <2>1 DEF StateInv
  <2>3. CASE AcceptOffer(c, m)
    <3>1. \A n \in net' : n.kind = "offer" => n \in net
      BY <1>3, <2>1, <2>3, StepsOfClient, Offers
    <3>2. timers' = [timers EXCEPT ![c] = TimersOf("REQUESTING")]
      BY <2>2, <2>3 DEF AcceptOffer, TimersOf
    <3>3. lease'[c] # None /\ \A d \in Clients \ {c} : lease'[d] = lease[d]
      BY <2>1, <2>3 DEF AcceptOffer, StateInv, TypeOK
    <3> QED
      BY <2>1, <2>3, <3>1, <3>2, <3>3, OneClient DEF AcceptOffer
  <2>4. CASE AcceptAck(c, m)
    <3>1. lease[c] # None
      BY <2>1, <2>4 DEF AcceptAck, StateInv, Waiting
    <3> QED
      BY <2>1, <2>4, <3>1, OneClient DEF AcceptAck, HandleDHCPACK, TimersOf
  <2>5. CASE AcceptNak(c, m)
    <3>1. \A n \in net' : n.kind = "offer" => n \in net
      BY <1>3, <2>1, <2>5, StepsOfClient, Offers
    <3> QED
      BY <2>1, <2>5, <3>1, OneClient DEF AcceptNak, InitClient, TimersOf
  <2> QED
    BY <1>3, <2>3, <2>4, <2>5 DEF ClientReceives
<1>4. ASSUME NEW m \in net, ServerReceives(m)
      PROVE  StateInv'
  <2>1. clientState' = clientState /\ timers' = timers /\ lease' = lease
    BY <1>4, ServerSteps DEF clientVars
  <2>2. \A n \in net' : n.kind = "offer" => n.ip # None
    BY <1>4, ServerSteps DEF StateInv
  <2> QED
    BY <2>1, <2>2 DEF StateInv, TimersOf
<1>5. ASSUME UNCHANGED <<clientState, timers, lease>>, net' \subseteq net
      PROVE  StateInv'
  BY <1>5 DEF StateInv, TimersOf
<1>6. ASSUME NEW m \in net, Discard(m) \/ Lose(m)
      PROVE  StateInv'
  BY <1>5, <1>6 DEF Discard, Lose, clientVars
<1>7. CASE StopServer \/ StartServer \/ UNCHANGED vars
  BY <1>5, <1>7 DEF StopServer, StartServer, vars, clientVars
<1> QED
  BY <1>1, <1>2, <1>3, <1>4, <1>6, <1>7 DEF Next, Arrives

-----------------------------------------------------------------------------
(* The table only grows until the server stops, and what a client records  *)
(* is an offer, which the server made from its table.                      *)
LEMMA RecordNext == TypeOK /\ RecordInv /\ [Next]_vars => RecordInv'
<1> SUFFICES ASSUME TypeOK, RecordInv, [Next]_vars, ~forgotten' PROVE RecordInv'
  BY DEF RecordInv
<1>1. ASSUME UNCHANGED <<leased, forgotten>>,
             \A m \in net' : m.kind = "offer" => m \in net,
             \A c \in Clients :
                {lease'[c], ip'[c]} \subseteq {lease[c], ip[c]} \cup LeasesOf(c) \cup {None}
      PROVE  RecordInv'
  BY <1>1 DEF RecordInv, LeasesOf
<1>2. ASSUME NEW c \in Clients, TimerExpires(c) \/ Associated(c) \/ BootClient(c)
      PROVE  RecordInv'
  <2>1. /\ UNCHANGED <<leased, forgotten>>
        /\ \A m \in net' : m.kind = "offer" => m \in net
    BY <1>2, StepsOfClient, Offers
  <2>2. UNCHANGED <<lease, ip>>
    BY <1>2 DEF TimerExpires, ResponseTimeout, T1Expires, T2Expires, Associated, BootClient
  <2> QED
    BY <1>1, <2>1, <2>2
<1>3. ASSUME NEW c \in Clients, StopClient(c)
      PROVE  RecordInv'
  BY <1>1, <1>3 DEF StopClient, UnboundLease, serverVars, TypeOK
<1>4. ASSUME NEW m \in net, ClientReceives(m.client, m)
      PROVE  RecordInv'
  <2> DEFINE c == m.client
  <2>1. c \in Clients /\ UNCHANGED <<leased, forgotten>>
    BY <1>4 DEF TypeOK, Message, ClientReceives, serverVars
  <2>2. CASE AcceptOffer(c, m)
    <3>1. \A n \in net' : n.kind = "offer" => n \in net
      BY <1>4, <2>1, <2>2, StepsOfClient, Offers
    <3>2. m.ip \in LeasesOf(c)
      BY <2>1, <2>2 DEF AcceptOffer, RecordInv
    <3>3. UNCHANGED ip /\ lease' = [lease EXCEPT ![c] = m.ip]
      BY <2>2 DEF AcceptOffer
    <3> QED
      BY <1>1, <2>1, <3>1, <3>2, <3>3 DEF TypeOK
  <2>3. CASE AcceptAck(c, m)
    BY <1>1, <2>1, <2>3 DEF AcceptAck, HandleDHCPACK, TypeOK
  <2>4. CASE AcceptNak(c, m)
    <3>1. \A n \in net' : n.kind = "offer" => n \in net
      BY <1>4, <2>1, <2>4, StepsOfClient, Offers
    <3> QED
      BY <1>1, <2>1, <2>4, <3>1 DEF AcceptNak, UnboundLease, TypeOK
  <2> QED
    BY <1>4, <2>2, <2>3, <2>4 DEF ClientReceives
<1>5. ASSUME NEW m \in net, ServerReceives(m)
      PROVE  RecordInv'
  <2>1. lease' = lease /\ ip' = ip /\ ~forgotten
    BY <1>5, ServerSteps DEF clientVars
  <2>2. \A d \in Clients : LeasesOf(d) \subseteq LeasesOf(d)'
    BY <1>5, ServerSteps
  <2>3. ASSUME NEW n \in net', n.kind = "offer"
        PROVE  n.ip \in LeasesOf(n.client)'
    <3>1. CASE n \in net
      BY <2>1, <2>2, <2>3, <3>1 DEF RecordInv, TypeOK, Message
    <3>2. CASE n \notin net
      BY <1>5, <2>3, <3>2, ServerSteps
    <3> QED
      BY <3>1, <3>2
  <2> QED
    BY <2>1, <2>2, <2>3 DEF RecordInv
<1>6. ASSUME NEW m \in net, Discard(m) \/ Lose(m)
      PROVE  RecordInv'
  BY <1>1, <1>6 DEF Discard, Lose, clientVars, serverVars
<1>7. CASE StartServer \/ UNCHANGED vars
  BY <1>1, <1>7 DEF StartServer, vars, clientVars, serverVars
<1>8. ~StopServer
  BY Zenon DEF StopServer
<1> QED
  BY <1>2, <1>3, <1>4, <1>5, <1>6, <1>7, <1>8 DEF Next, Arrives

-----------------------------------------------------------------------------
(* Nobody has an address at the start.                                     *)
LEMMA InitInv == Init => IInv
<1> SUFFICES ASSUME Init PROVE IInv
  OBVIOUS
<1>1. /\ net = {} /\ \A c \in Clients : /\ clientState[c] = "DOWN" /\ timers[c] = {}
                                        /\ lease[c] = None /\ ip[c] = None
  BY DEF Init
<1> QED
  BY <1>1, InitType DEF IInv, StateInv, XidInv, RecordInv, TimersOf

(* The inductive invariant of DHCP: a client's timers are those of its     *)
(* state, its current exchange is about the address it has recorded, and   *)
(* what it records is in the table of a server that has not stopped.       *)
THEOREM Invariance == Spec => []IInv
<1>1. IInv /\ [Next]_vars => IInv'
  BY TypeNext, StateNext, XidNext, RecordNext DEF IInv
<1> QED
  BY <1>1, InitInv, PTL DEF Spec

(* Types, for any number of clients, addresses and xids; in particular the *)
(* route is set exactly while an address is.                               *)
THEOREM TypeCorrectness == Spec => []TypeOK
<1>1. IInv => TypeOK
  BY DEF IInv
<1> QED
  BY <1>1, Invariance, PTL

(* No timer of the client is left over in a state whose handleTimer()      *)
(* throws, and a client that waits always has a response timeout.          *)
THEOREM Timing == Spec => []TimersFitState
<1>1. IInv => TimersFitState
  <2> SUFFICES ASSUME IInv, NEW c \in Clients
               PROVE  /\ clientState[c] \in Waiting => "TO" \in timers[c]
                      /\ clientState[c] = "BOUND" => timers[c] = {"T1", "T2", "LEASE"}
                      /\ "T2" \in timers[c] /\ "T1" \notin timers[c] =>
                             clientState[c] = "RENEWING"
                      /\ "LEASE" \in timers[c] => "T2" \in timers[c]
    BY DEF TimersFitState
  <2>1. timers[c] = TimersOf(clientState[c])
    BY DEF IInv, StateInv
  <2> QED
    BY <2>1 DEF TimersOf, Waiting
<1> QED
  BY <1>1, Invariance, PTL

(* An ACK that a client accepts is about the address it has recorded: late *)
(* ACKs of earlier exchanges carry another xid.                            *)
THEOREM AcksConfirm == Spec => []AckConfirmsLease
<1>1. IInv => AckConfirmsLease
  BY DEF IInv, XidInv, AckConfirmsLease
<1> QED
  BY <1>1, Invariance, PTL

(* As long as the server has not lost its table, an address in use is      *)
(* registered for the client that uses it, and so used by no other.        *)
THEOREM NoAddressTwice == Spec => []HeldIsRecorded
<1>1. IInv => HeldIsRecorded
  BY DEF IInv, RecordInv, HeldIsRecorded
<1> QED
  BY <1>1, Invariance, PTL
=============================================================================

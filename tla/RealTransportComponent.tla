----------------------- MODULE RealTransportComponent -----------------------
(***************************************************************************)
(* The set-up of the Java side: the Binder with the global components, the *)
(* RealTransportComponent and the RealNetworkComponent of every host, and  *)
(* the transports getProtocol() creates, with the static datagram size     *)
(* they share.  All hosts live in one process, so that a UDP port is taken *)
(* for all of them; no transport ever closes its socket.                   *)
(***************************************************************************)
EXTENDS Integers, Sequences, FiniteSets

CONSTANTS
    Hosts,          \* the hosts of the process
    Addresses,      \* the addresses of its network interfaces
    Ports,          \* the UDP ports used
    Serializers,    \* the overlays' Serializer objects
    Default,        \* DefaultSerializer
    Services,       \* the PiggybackMessageService objects
    ServiceID(_),   \* getPiggybackServiceID()
    MTU,            \* NetInterface.getMTU()
    Sizes,          \* the sizes given to setMaxDatagramSize()
    MaxTransports   \* bound: transports created

ASSUME SetupAssumption ==
    /\ Default \notin Serializers
    /\ MTU \in Nat \ {0} /\ Sizes \subseteq Nat \ {0}
    /\ MaxTransports \in Nat

VARIABLES
    components,         \* Binder.components, in the order of registration
    created,            \* the hosts that have their RealTransportComponent
    serializers,        \* a component's serializers: Port -> Serializer
    piggybackers,       \* a component's services: ServiceID -> service
    netInterfaces,      \* a host's bound interfaces, by address
    MAX_DATAGRAM_SIZE,  \* of RealTransportUDP, -1 when not set
    transports,         \* the RealTransportUDP objects, in order of creation
    registered          \* history: what overlays registered last for a port

vars == <<components, created, serializers, piggybackers, netInterfaces,
          MAX_DATAGRAM_SIZE, transports, registered>>

Empty == [x \in {} |-> x]

Init ==
    /\ components = << >>
    /\ created = {}
    /\ serializers = [h \in Hosts |-> Empty]
    /\ piggybackers = [h \in Hosts |-> Empty]
    /\ netInterfaces = [h \in Hosts |-> {}]
    /\ MAX_DATAGRAM_SIZE = -1
    /\ transports = << >>
    /\ registered = Empty

(* Map.put().                                                              *)
With(f, x, y) == [z \in DOMAIN f \cup {x} |-> IF z = x THEN y ELSE f[z]]

(* The Binder has a global component of the class.                         *)
Registered(class) == \E i \in DOMAIN components : components[i].class = class

(* Binder.getComponent(): the registered component of the class that comes *)
(* first; there is none is the ComponentNotAvailableException.             *)
getComponent(class) ==
    components[CHOOSE i \in DOMAIN components :
                  /\ components[i].class = class
                  /\ \A j \in 1..i - 1 : components[j].class # class]

(* The constructor.  It registers an assets serializer, and itself as the  *)
(* SerializerComponent, unless the Binder has one already.                 *)
NewComponent(h) ==
    LET Missing(class) ==
            IF Registered(class) THEN << >>
            ELSE <<[class |-> class, host |-> h]>>
    IN  /\ h \notin created
        /\ created' = created \cup {h}
        /\ components' = components \o Missing("TransportAssetsSerializer")
                                    \o Missing("SerializerComponent")
        /\ UNCHANGED <<serializers, piggybackers, netInterfaces,
                       MAX_DATAGRAM_SIZE, transports, registered>>

(* RealNetworkComponent: the detector's callback binds an interface.       *)
useAs(h, a) ==
    /\ netInterfaces' = [netInterfaces EXCEPT ![h] = @ \cup {a}]
    /\ UNCHANGED <<components, created, serializers, piggybackers,
                   MAX_DATAGRAM_SIZE, transports, registered>>

(* The host whose component the Binder hands out: once one, always one.    *)
Holder == getComponent("SerializerComponent").host

(* An overlay registers its serializer with the component it gets from the *)
(* Binder.                                                                 *)
addSerializer(s, p) ==
    /\ Registered("SerializerComponent")
    /\ serializers' = [serializers EXCEPT ![Holder] = With(@, p, s)]
    /\ registered' = With(registered, p, s)
    /\ UNCHANGED <<components, created, piggybackers, netInterfaces,
                   MAX_DATAGRAM_SIZE, transports>>

(* registerService() of a PiggybackMessageService; a second one with the   *)
(* same identifier is an AssertionError.                                   *)
registerService(h, s) ==
    /\ h \in created
    /\ ServiceID(s) \notin DOMAIN piggybackers[h]
    /\ piggybackers' = [piggybackers EXCEPT ![h] = With(@, ServiceID(s), s)]
    /\ UNCHANGED <<components, created, serializers, netInterfaces,
                   MAX_DATAGRAM_SIZE, transports, registered>>

(* Mutant of setMaxDatagramSize: the first check is missing.               *)
setMaxDatagramSize_Any(n) ==
    /\ MAX_DATAGRAM_SIZE' = n
    /\ UNCHANGED <<components, created, serializers, piggybackers,
                   netInterfaces, transports, registered>>

(* It can be set once; a later call is ignored.                            *)
setMaxDatagramSize(n) ==
    /\ MAX_DATAGRAM_SIZE = -1
    /\ MAX_DATAGRAM_SIZE' = n
    /\ UNCHANGED <<components, created, serializers, piggybackers,
                   netInterfaces, transports, registered>>

(* Mutant of PortFree: the socket reuses addresses.                        *)
PortFree_Reuse(p) == TRUE

(* new DatagramSocket(port) succeeds when no open socket has the port.     *)
PortFree(p) == \A i \in DOMAIN transports :
                   ~(transports[i].port = p /\ transports[i].socket)

(* getProtocol() for UDP on an address the host has: a new transport with  *)
(* the serializer its own component has for the port and, in its receiver  *)
(* thread, a buffer of the maximal size.  When the port is taken the       *)
(* transport is returned all the same, without a socket.  An               *)
(* address the host does not have is a NullPointerException.               *)
getProtocol(h, a, p) ==
    /\ h \in created /\ a \in netInterfaces[h]
    /\ Len(transports) < MaxTransports
    /\ MAX_DATAGRAM_SIZE' =
          IF MAX_DATAGRAM_SIZE = -1 THEN MTU * 10 ELSE MAX_DATAGRAM_SIZE
    /\ transports' = Append(transports,
          [host |-> h, port |-> p,
           serializer |-> IF p \in DOMAIN serializers[h]
                          THEN serializers[h][p] ELSE Default,
           socket |-> PortFree(p), buffer |-> MAX_DATAGRAM_SIZE',
           expects |-> IF p \in DOMAIN registered
                       THEN registered[p] ELSE Default])
    /\ UNCHANGED <<components, created, serializers, piggybackers,
                   netInterfaces, registered>>

Next ==
    \/ \E h \in Hosts : NewComponent(h)
    \/ \E h \in Hosts, a \in Addresses : useAs(h, a)
    \/ \E s \in Serializers, p \in Ports : addSerializer(s, p)
    \/ \E h \in Hosts, s \in Services : registerService(h, s)
    \/ \E n \in Sizes : setMaxDatagramSize(n)
    \/ \E h \in Hosts, a \in Addresses, p \in Ports : getProtocol(h, a, p)

Spec == Init /\ [][Next]_vars

-----------------------------------------------------------------------------
(* Who comes first is served: of all transports for a port the first one   *)
(* created has the socket and the later ones, of a second host or of an    *)
(* overlay that asks getProtocol() twice, are deaf; and the transports of  *)
(* the host whose component was registered first use the serializer that   *)
(* was registered last before their creation, those of other hosts are     *)
(* left with the default one.                                              *)
FirstComeFirstServed ==
    \A j \in DOMAIN transports :
        LET t == transports[j]
        IN  /\ t.socket <=> \A i \in 1..j - 1 : transports[i].port # t.port
            /\ t.serializer = IF t.host = Holder THEN t.expects ELSE Default

(* A datagram that any transport of the process may send fits the buffer   *)
(* every receiver thread waits with: the size does not change after the    *)
(* first buffer was made, whoever asks for it in whatever order.           *)
BuffersFit ==
    \A i \in DOMAIN transports :
        transports[i].socket => MAX_DATAGRAM_SIZE <= transports[i].buffer

-----------------------------------------------------------------------------
(* The inductive invariant behind these properties.                        *)

Transport == [host : Hosts, port : Ports, serializer : Serializers \cup {Default},
              socket : BOOLEAN, buffer : Nat, expects : Serializers \cup {Default}]

(* Types; a service is found under its own identifier.                     *)
TypeOK ==
    /\ components \in Seq([class : {"TransportAssetsSerializer", "SerializerComponent"},
                           host : Hosts])
    /\ created \subseteq Hosts
    /\ DOMAIN registered \subseteq Ports
    /\ \A p \in DOMAIN registered : registered[p] \in Serializers
    /\ piggybackers = [h \in Hosts |-> piggybackers[h]]
    /\ \A h \in Hosts : \A i \in DOMAIN piggybackers[h] :
          piggybackers[h][i] \in Services /\ ServiceID(piggybackers[h][i]) = i
    /\ netInterfaces \in [Hosts -> SUBSET Addresses]
    /\ MAX_DATAGRAM_SIZE \in Nat \cup {-1}
    /\ transports \in Seq(Transport)

(* Whoever has a component finds a holder in the Binder, and the holder's  *)
(* serializers are all there are.                                          *)
BinderInv ==
    /\ created # {} => Registered("SerializerComponent")
    /\ ~Registered("SerializerComponent") => registered = Empty
    /\ serializers = [h \in Hosts |->
           IF Registered("SerializerComponent") /\ h = Holder THEN registered ELSE Empty]

(* Every buffer has the size that is set now, and the port of a transport  *)
(* has a socket, its own or one that was opened before.                    *)
SocketInv ==
    \A j \in DOMAIN transports :
        /\ transports[j].host \in created
        /\ transports[j].buffer = MAX_DATAGRAM_SIZE
        /\ \E i \in 1..j : transports[i].port = transports[j].port /\ transports[i].socket

(* Their conjunction.                                                      *)
IInv == TypeOK /\ BinderInv /\ SocketInv /\ FirstComeFirstServed
=============================================================================

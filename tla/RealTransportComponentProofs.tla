-------------------- MODULE RealTransportComponentProofs --------------------
(***************************************************************************)
(* Theorems about the set-up: who gets the port, which serializer a        *)
(* transport has, and that every datagram fits every buffer.               *)
(***************************************************************************)
EXTENDS RealTransportComponent, NumberTheorems, SequenceTheorems

(* getComponent() finds the one component of the class with none before it.*)
LEMMA FirstComponent ==
    ASSUME NEW class, TypeOK, Registered(class)
    PROVE  \E i \in DOMAIN components :
              /\ components[i].class = class
              /\ \A j \in 1..i - 1 : components[j].class # class
              /\ getComponent(class) = components[i]
<1> DEFINE S == {i \in DOMAIN components : components[i].class = class}
<1>1. DOMAIN components = 1..Len(components) /\ Len(components) \in Nat
  BY DEF TypeOK
<1>2. S \subseteq Nat /\ S # {}
  BY <1>1 DEF Registered
<1>3. PICK n \in S : \A m \in S : n <= m
  BY <1>2, LeastNumber
<1>4. \A j \in 1..n - 1 : components[j].class # class
  BY <1>1, <1>3
<1> QED
  BY <1>3, <1>4 DEF getComponent

(* What the Binder hands out does not change when components are added.    *)
LEMMA HolderStays ==
    ASSUME TypeOK, NEW class, Registered(class),
           NEW added \in Seq([class : {"TransportAssetsSerializer", "SerializerComponent"},
                              host : Hosts]),
           components' = components \o added
    PROVE  Registered(class)' /\ getComponent(class)' = getComponent(class)
<1> DEFINE n == Len(components)
<1>1. /\ DOMAIN components = 1..n /\ n \in Nat
      /\ DOMAIN components' = 1..n + Len(added) /\ Len(added) \in Nat
      /\ \A i \in 1..n : components'[i] = components[i]
  BY DEF TypeOK
<1>2. PICK i \in DOMAIN components :
          /\ components[i].class = class
          /\ \A j \in 1..i - 1 : components[j].class # class
          /\ getComponent(class) = components[i]
  BY FirstComponent
<1>3. /\ i \in DOMAIN components'
      /\ components'[i] = components[i]
      /\ \A j \in 1..i - 1 : components'[j].class # class
  BY <1>1, <1>2
<1>4. Registered(class)'
  BY <1>2, <1>3 DEF Registered
<1>5. \A k \in DOMAIN components' :
          /\ components'[k].class = class
          /\ \A j \in 1..k - 1 : components'[j].class # class
          => k = i
  BY <1>1, <1>2, <1>3
<1>6. (CHOOSE k \in DOMAIN components' :
          /\ components'[k].class = class
          /\ \A j \in 1..k - 1 : components'[j].class # class) = i
  BY <1>2, <1>3, <1>5
<1> QED
  BY <1>2, <1>3, <1>4, <1>6 DEF getComponent

(* The constructor appends at most two components, and there is a          *)
(* SerializerComponent then.                                               *)
LEMMA NewComponents ==
    ASSUME TypeOK, NEW h \in Hosts, NewComponent(h)
    PROVE  /\ \E added \in Seq([class : {"TransportAssetsSerializer", "SerializerComponent"},
                                host : Hosts]) : components' = components \o added
           /\ components' \in Seq([class : {"TransportAssetsSerializer", "SerializerComponent"},
                                   host : Hosts])
           /\ Registered("SerializerComponent")'
<1> DEFINE C == [class : {"TransportAssetsSerializer", "SerializerComponent"}, host : Hosts]
           A == IF Registered("TransportAssetsSerializer") THEN << >>
                ELSE <<[class |-> "TransportAssetsSerializer", host |-> h]>>
           B == IF Registered("SerializerComponent") THEN << >>
                ELSE <<[class |-> "SerializerComponent", host |-> h]>>
<1>1. A \in Seq(C) /\ B \in Seq(C) /\ components \in Seq(C)
  <2>1. /\ [class |-> "TransportAssetsSerializer", host |-> h] \in C
        /\ [class |-> "SerializerComponent", host |-> h] \in C
    OBVIOUS
  <2> HIDE DEF C
  <2>2. A \in Seq(C) /\ B \in Seq(C)
    BY <2>1
  <2>3. components \in Seq(C)
    BY DEF TypeOK, C
  <2> QED
    BY <2>2, <2>3
<1>2. components' = (components \o A) \o B
  BY DEF NewComponent
<1> HIDE DEF A, C
<1>3. components' = components \o (A \o B) /\ A \o B \in Seq(C)
  <2> HIDE DEF B
  <2>1. components \o A \in Seq(C) /\ A \o B \in Seq(C)
    BY <1>1, ConcatProperties
  <2> QED
    BY <1>1, <1>2, <2>1, ConcatAssociative
<1>4. CASE Registered("SerializerComponent")
  BY <1>1, <1>3, <1>4, HolderStays, ConcatProperties DEF C
<1>5. CASE ~Registered("SerializerComponent")
  <2> DEFINE m == Len(components \o A) + 1
  <2>1. m \in DOMAIN components' /\ components'[m].class = "SerializerComponent"
    BY <1>1, <1>2, <1>5
  <2> QED
    BY <1>1, <1>3, <2>1, ConcatProperties DEF Registered, C
<1> QED
  BY <1>4, <1>5

-----------------------------------------------------------------------------
(* There are no transports at the start.                                   *)
LEMMA InitInv == Init => IInv
<1> SUFFICES ASSUME Init PROVE IInv
  OBVIOUS
<1>1. ~Registered("SerializerComponent") /\ DOMAIN transports = {} /\ DOMAIN registered = {}
  BY DEF Init, Registered, Empty
<1>2. TypeOK
  BY <1>1, EmptySeq DEF Init, TypeOK, Empty
<1> QED
  BY <1>1, <1>2 DEF Init, IInv, BinderInv, SocketInv, FirstComeFirstServed

(* The steps that leave the Binder, the serializers and the transports as  *)
(* they are.                                                               *)
LEMMA OtherSteps ==
    ASSUME IInv, TypeOK',
           UNCHANGED <<components, created, serializers, transports, registered>>,
           MAX_DATAGRAM_SIZE' = MAX_DATAGRAM_SIZE \/ transports = << >>
    PROVE  IInv'
<1>1. /\ \A class : Registered(class)' <=> Registered(class)
      /\ Holder' = Holder
  BY DEF Registered, Holder, getComponent
<1>2. BinderInv'
  BY <1>1 DEF IInv, BinderInv
<1>3. SocketInv'
  BY DEF IInv, SocketInv
<1>4. FirstComeFirstServed'
  BY <1>1 DEF IInv, FirstComeFirstServed
<1> QED
  BY <1>2, <1>3, <1>4 DEF IInv

(* The first component of all brings the holder; until then there are no   *)
(* transports and no serializers.                                          *)
LEMMA NewComponentInv ==
    ASSUME IInv, NEW h \in Hosts, NewComponent(h)
    PROVE  IInv'
<1> USE DEF IInv
<1>1. PICK added \in Seq([class : {"TransportAssetsSerializer", "SerializerComponent"},
                          host : Hosts]) : components' = components \o added
  BY NewComponents
<1>2. UNCHANGED <<serializers, piggybackers, netInterfaces, MAX_DATAGRAM_SIZE,
                  transports, registered>> /\ created' = created \cup {h}
  BY DEF NewComponent
<1>3. TypeOK'
  BY <1>2, NewComponents DEF TypeOK
<1>4. Registered("SerializerComponent")'
  BY NewComponents
<1>5. CASE Registered("SerializerComponent")
  <2>1. Holder' = Holder
    BY <1>1, <1>5, HolderStays DEF Holder
  <2>2. BinderInv'
    BY <1>2, <1>4, <1>5, <2>1 DEF BinderInv
  <2>3. SocketInv' /\ FirstComeFirstServed'
    BY <1>2, <2>1 DEF SocketInv, FirstComeFirstServed
  <2> QED
    BY <1>3, <2>2, <2>3
<1>6. CASE ~Registered("SerializerComponent")
  <2>1. registered = Empty /\ serializers = [g \in Hosts |-> Empty]
    BY <1>6 DEF BinderInv
  <2>2. BinderInv'
    BY <1>2, <1>4, <2>1 DEF BinderInv
  <2>3. DOMAIN transports = {}
    BY <1>6 DEF SocketInv, BinderInv
  <2> QED
    BY <1>2, <1>3, <2>2, <2>3 DEF SocketInv, FirstComeFirstServed
<1> QED
  BY <1>5, <1>6

(* An overlay's serializer goes to the holder and nowhere else.            *)
LEMMA AddSerializerInv ==
    ASSUME IInv, NEW s \in Serializers, NEW p \in Ports, addSerializer(s, p)
    PROVE  IInv'
<1> USE DEF IInv
<1>1. /\ Registered("SerializerComponent") /\ Registered("SerializerComponent")'
      /\ Holder' = Holder
  BY DEF addSerializer, Registered, Holder, getComponent
<1>2. TypeOK'
  BY DEF addSerializer, TypeOK, With
<1>3. BinderInv'
  <2>1. \A h \in Hosts : serializers[h] = IF h = Holder THEN registered ELSE Empty
    BY <1>1 DEF BinderInv
  <2>2. serializers' = [serializers EXCEPT ![Holder] = With(serializers[Holder], p, s)]
    BY DEF addSerializer
  <2>3. DOMAIN serializers = Hosts
    BY DEF BinderInv
  <2>4. \A h \in Hosts : serializers'[h] = IF h = Holder THEN registered' ELSE Empty
    BY <2>1, <2>2, <2>3 DEF addSerializer
  <2> QED
    BY <1>1, <2>2, <2>3, <2>4 DEF BinderInv
<1>4. SocketInv' /\ FirstComeFirstServed'
  BY <1>1 DEF addSerializer, SocketInv, FirstComeFirstServed
<1> QED
  BY <1>2, <1>3, <1>4

(* Once there is a transport the datagram size is set.                     *)
LEMMA SizeIsSet ==
    ASSUME IInv, NEW j \in DOMAIN transports
    PROVE  MAX_DATAGRAM_SIZE # -1
<1>1. transports[j] \in Transport
  BY ElementOfSeq, LenProperties DEF IInv, TypeOK
<1>2. transports[j].buffer \in Nat
  BY <1>1 DEF Transport
<1> QED
  BY <1>2 DEF IInv, SocketInv

(* A new transport has a socket exactly when no earlier one has its port.  *)
LEMMA GetProtocolInv ==
    ASSUME IInv, NEW h \in Hosts, NEW a \in Addresses, NEW p \in Ports,
           getProtocol(h, a, p)
    PROVE  IInv'
<1> USE DEF IInv
<1> DEFINE n == Len(transports) + 1
           t == [host |-> h, port |-> p,
                 serializer |-> IF p \in DOMAIN serializers[h]
                                THEN serializers[h][p] ELSE Default,
                 socket |-> PortFree(p), buffer |-> MAX_DATAGRAM_SIZE',
                 expects |-> IF p \in DOMAIN registered
                             THEN registered[p] ELSE Default]
<1>1. /\ transports' = Append(transports, t) /\ h \in created
      /\ UNCHANGED <<components, created, serializers, piggybackers,
                     netInterfaces, registered>>
      /\ MAX_DATAGRAM_SIZE' = IF MAX_DATAGRAM_SIZE = -1 THEN MTU * 10
                              ELSE MAX_DATAGRAM_SIZE
  BY DEF getProtocol
<1>2. /\ \A class : Registered(class)' <=> Registered(class)
      /\ Holder' = Holder /\ Registered("SerializerComponent")
  BY <1>1 DEF Registered, Holder, getComponent, BinderInv
<1>3. serializers[h] = IF h = Holder THEN registered ELSE Empty
  BY <1>2 DEF BinderInv
<1>4. MAX_DATAGRAM_SIZE' \in Nat
  BY <1>1, SetupAssumption DEF TypeOK
<1>5. t.serializer \in Serializers \cup {Default} /\ t.expects \in Serializers \cup {Default}
  BY <1>3 DEF TypeOK, Empty
<1>6. t \in Transport
  BY <1>4, <1>5 DEF Transport, PortFree
<1>7. /\ transports' \in Seq(Transport)
      /\ n \in Nat \ {0} /\ DOMAIN transports = 1..n - 1 /\ DOMAIN transports' = 1..n
      /\ transports'[n] = t /\ \A i \in 1..n - 1 : transports'[i] = transports[i]
  <2> HIDE DEF t
  <2> QED
    BY <1>1, <1>6, AppendProperties DEF TypeOK
<1>8. TypeOK'
  BY <1>1, <1>4, <1>7 DEF TypeOK
<1>9. BinderInv'
  BY <1>1, <1>2 DEF BinderInv
<1>10. \A i \in 1..n - 1 : MAX_DATAGRAM_SIZE' = MAX_DATAGRAM_SIZE
  BY <1>1, <1>7, SizeIsSet
<1>11. t.socket <=> \A i \in 1..n - 1 : ~(transports[i].port = p /\ transports[i].socket)
  <2>1. t.socket = PortFree(p)
    OBVIOUS
  <2> HIDE DEF t
  <2> QED
    BY <1>7, <2>1 DEF PortFree
<1>12. t.socket <=> \A i \in 1..n - 1 : transports[i].port # p
  BY <1>7, <1>11 DEF SocketInv
<1>13. SocketInv'
  <2> SUFFICES ASSUME NEW j \in 1..n
               PROVE  /\ transports'[j].host \in created'
                      /\ transports'[j].buffer = MAX_DATAGRAM_SIZE'
                      /\ \E i \in 1..j : transports'[i].port = transports'[j].port
                                         /\ transports'[i].socket
    BY <1>7 DEF SocketInv
  <2>1. CASE j \in 1..n - 1
    BY <1>1, <1>7, <1>10, <2>1 DEF SocketInv
  <2>2. CASE j = n
    <3>1. t.host = h /\ t.port = p /\ t.buffer = MAX_DATAGRAM_SIZE'
      OBVIOUS
    <3> HIDE DEF t
    <3>2. \E i \in 1..n : transports'[i].port = p /\ transports'[i].socket
      BY <1>7, <1>11, <3>1
    <3> QED
      BY <1>1, <1>7, <2>2, <3>1, <3>2
  <2> QED
    BY <1>7, <2>1, <2>2
<1>14. FirstComeFirstServed'
  <2> SUFFICES ASSUME NEW j \in 1..n
               PROVE  /\ transports'[j].socket <=>
                            \A i \in 1..j - 1 : transports'[i].port # transports'[j].port
                      /\ transports'[j].serializer = IF transports'[j].host = Holder
                                                     THEN transports'[j].expects ELSE Default
    BY <1>2, <1>7 DEF FirstComeFirstServed
  <2>1. CASE j \in 1..n - 1
    BY <1>7, <2>1 DEF FirstComeFirstServed
  <2>2. CASE j = n
    <3>1. t.host = h /\ t.port = p
      OBVIOUS
    <3>2. t.serializer = IF h = Holder THEN t.expects ELSE Default
      BY <1>3 DEF Empty
    <3> HIDE DEF t
    <3> QED
      BY <1>7, <1>12, <2>2, <3>1, <3>2
  <2> QED
    BY <1>7, <2>1, <2>2
<1> QED
  BY <1>8, <1>9, <1>13, <1>14

-----------------------------------------------------------------------------
(* Every call keeps the invariant.                                         *)
LEMMA NextInv == IInv /\ [Next]_vars => IInv'
<1> SUFFICES ASSUME IInv, [Next]_vars PROVE IInv'
  OBVIOUS
<1>1. ASSUME NEW h \in Hosts, NewComponent(h)
      PROVE  IInv'
  BY <1>1, NewComponentInv
<1>2. ASSUME NEW h \in Hosts, NEW a \in Addresses, useAs(h, a)
      PROVE  IInv'
  <2>1. TypeOK'
    BY <1>2 DEF useAs, IInv, TypeOK
  <2> QED
    BY <1>2, <2>1, OtherSteps DEF useAs
<1>3. ASSUME NEW s \in Serializers, NEW p \in Ports, addSerializer(s, p)
      PROVE  IInv'
  BY <1>3, AddSerializerInv
<1>4. ASSUME NEW h \in Hosts, NEW s \in Services, registerService(h, s)
      PROVE  IInv'
  <2>1. TypeOK'
    <3>1. /\ DOMAIN piggybackers = Hosts
          /\ piggybackers' = [piggybackers EXCEPT ![h] = With(@, ServiceID(s), s)]
      BY <1>4 DEF registerService, IInv, TypeOK
    <3>2. /\ piggybackers' = [g \in Hosts |-> piggybackers'[g]]
          /\ \A g \in Hosts : piggybackers'[g] =
                IF g = h THEN With(piggybackers[h], ServiceID(s), s) ELSE piggybackers[g]
      BY <3>1, Zenon
    <3>3. \A g \in Hosts : \A i \in DOMAIN piggybackers'[g] :
              piggybackers'[g][i] \in Services /\ ServiceID(piggybackers'[g][i]) = i
      <4>1. \A g \in Hosts : \A i \in DOMAIN piggybackers[g] :
                piggybackers[g][i] \in Services /\ ServiceID(piggybackers[g][i]) = i
        BY DEF IInv, TypeOK
      <4> QED
        BY <3>2, <4>1 DEF With
    <3> QED
      BY <1>4, <3>2, <3>3 DEF registerService, IInv, TypeOK
  <2> QED
    BY <1>4, <2>1, OtherSteps DEF registerService
<1>5. ASSUME NEW n \in Sizes, setMaxDatagramSize(n)
      PROVE  IInv'
  <2>1. TypeOK'
    BY <1>5, SetupAssumption DEF setMaxDatagramSize, IInv, TypeOK
  <2>2. transports = << >>
    <3>1. \A j \in DOMAIN transports : FALSE
      BY <1>5, SizeIsSet DEF setMaxDatagramSize
    <3> QED
      <4>1. transports \in Seq(Transport)
        BY DEF IInv, TypeOK
      <4>2. 1 \notin DOMAIN transports
        BY <3>1
      <4> QED
        BY <4>1, <4>2, LenProperties, EmptySeq
  <2> QED
    BY <1>5, <2>1, <2>2, OtherSteps DEF setMaxDatagramSize
<1>6. ASSUME NEW h \in Hosts, NEW a \in Addresses, NEW p \in Ports, getProtocol(h, a, p)
      PROVE  IInv'
  BY <1>6, GetProtocolInv
<1>7. CASE UNCHANGED vars
  BY <1>7, OtherSteps DEF vars, IInv, TypeOK
<1> QED
  BY <1>1, <1>2, <1>3, <1>4, <1>5, <1>6, <1>7 DEF Next

(* The inductive invariant of the set-up: the Binder hands out one holder  *)
(* for ever, its serializers are all there are, all buffers have one size, *)
(* and of the transports of a port one has a socket.                       *)
THEOREM Invariance == Spec => []IInv
<1> QED
  BY InitInv, NextInv, PTL DEF Spec

(* Of all transports for a port the first has the socket, and the          *)
(* transports of the first host, and no other, use what overlays           *)
(* registered with addSerializer(), for any hosts, ports and orders.       *)
THEOREM FirstServed == Spec => []FirstComeFirstServed
<1>1. IInv => FirstComeFirstServed
  BY DEF IInv
<1> QED
  BY <1>1, Invariance, PTL

(* What any transport of the process sends fits the buffer of every        *)
(* receiver thread, whatever setMaxDatagramSize() is called with and when. *)
THEOREM DatagramsFit == Spec => []BuffersFit
<1>1. IInv => BuffersFit
  BY DEF IInv, SocketInv, BuffersFit, TypeOK, Transport
<1> QED
  BY <1>1, Invariance, PTL
=============================================================================

----------------------------- MODULE IPv4Proofs -----------------------------
(***************************************************************************)
(* Proofs about IPv4 over ARP, for every set of nodes and addresses, every *)
(* routing and every bound.                                                *)
(***************************************************************************)
EXTENDS IPv4, SequenceTheorems, TLAPS

-----------------------------------------------------------------------------
(* Types.                                                                  *)

(* A cache is a function from some of the addresses to entries.            *)
LEMMA CacheMembers ==
    ASSUME NEW c
    PROVE  c \in Cache <=> DOMAIN c \subseteq Addresses /\ c \in [DOMAIN c -> Entry]
  BY DEF Cache

(* The cache after an entry was set.                                       *)
LEMMA CacheWith ==
    ASSUME TypeOK, NEW n \in Nodes, NEW a \in Addresses, NEW e \in Entry
    PROVE  /\ WithEntry(n, a, e) \in Cache
           /\ DOMAIN WithEntry(n, a, e) = Cached(n) \cup {a}
           /\ WithEntry(n, a, e)[a] = e
           /\ \A b \in Cached(n) : b # a => WithEntry(n, a, e)[b] = arpCache[n][b]
<1>1. arpCache[n] \in Cache
  BY DEF TypeOK
<1>2. Cached(n) \subseteq Addresses /\ arpCache[n] \in [Cached(n) -> Entry]
  BY <1>1, CacheMembers DEF Cached
<1>3. DOMAIN WithEntry(n, a, e) = Cached(n) \cup {a}
  BY DEF WithEntry
<1>4. WithEntry(n, a, e) \in [Cached(n) \cup {a} -> Entry]
  BY <1>2 DEF WithEntry
<1>5. WithEntry(n, a, e) \in Cache
  BY <1>2, <1>3, <1>4, CacheMembers
<1> QED
  BY <1>3, <1>5 DEF WithEntry

(* The cache after an entry was erased.                                    *)
LEMMA CacheWithout ==
    ASSUME TypeOK, NEW n \in Nodes, NEW a
    PROVE  LET c == Restrict(arpCache[n], Cached(n) \ {a}) IN
           /\ c \in Cache
           /\ DOMAIN c = Cached(n) \ {a}
           /\ \A b \in Cached(n) : b # a => c[b] = arpCache[n][b]
<1> DEFINE c == Restrict(arpCache[n], Cached(n) \ {a})
<1>1. arpCache[n] \in Cache
  BY DEF TypeOK
<1>2. Cached(n) \subseteq Addresses /\ arpCache[n] \in [Cached(n) -> Entry]
  BY <1>1, CacheMembers DEF Cached
<1>3. DOMAIN c = Cached(n) \ {a}
  BY DEF Restrict
<1>4. c \in [Cached(n) \ {a} -> Entry]
  BY <1>2 DEF Restrict
<1>5. c \in Cache
  BY <1>2, <1>3, <1>4, CacheMembers
<1> QED
  BY <1>3, <1>5 DEF Restrict

(* The entry of a cached address, after one field of it was set.           *)
LEMMA CacheField ==
    ASSUME TypeOK, NEW n \in Nodes, NEW a \in Cached(n)
    PROVE  /\ arpCache[n][a] \in Entry /\ a \in Addresses
           /\ \A e \in Entry : /\ [arpCache[n] EXCEPT ![a] = e] \in Cache
                               /\ DOMAIN [arpCache[n] EXCEPT ![a] = e] = Cached(n)
<1>1. arpCache[n] \in Cache
  BY DEF TypeOK
<1>2. Cached(n) \subseteq Addresses /\ arpCache[n] \in [Cached(n) -> Entry]
  BY <1>1, CacheMembers DEF Cached
<1>3. ASSUME NEW e \in Entry
      PROVE  /\ [arpCache[n] EXCEPT ![a] = e] \in Cache
             /\ DOMAIN [arpCache[n] EXCEPT ![a] = e] = Cached(n)
  <2>1. [arpCache[n] EXCEPT ![a] = e] \in [Cached(n) -> Entry]
    BY <1>2
  <2>2. DOMAIN [arpCache[n] EXCEPT ![a] = e] = Cached(n)
    BY <1>2
  <2> QED
    BY <1>2, <2>1, <2>2, CacheMembers
<1> QED
  BY <1>2, <1>3

(* A function on 1..k is a sequence of length k.                           *)
LEMMA FunctionIsSeq ==
    ASSUME NEW S, NEW k \in Nat, NEW q \in [1..k -> S]
    PROVE  q \in Seq(S) /\ Len(q) = k
<1>1. q \in Seq(S)
  BY SeqDef
<1>2. DOMAIN q = 1..k /\ DOMAIN q = 1..Len(q) /\ Len(q) \in Nat
  BY <1>1, LenProperties
<1> QED
  BY <1>1, <1>2

(* The fragments of a datagram are numbered on from the last one.          *)
LEMMA FragmentNumbers ==
    ASSUME TypeOK, NEW n \in Nodes, NEW a \in Hops, NEW k \in 1..MaxFragments,
           next[n][a] + k - 1 <= MaxFrames[n][a]
    PROVE  /\ Fragments(n, a, k) \in Seq(Nat)
           /\ Fragments(n, a, k) \in Seq(1..MaxFrames[n][a])
           /\ Len(Fragments(n, a, k)) = k
           /\ \A i \in 1..k : Fragments(n, a, k)[i] = next[n][a] + i - 1
<1>1. next[n][a] \in Nat \ {0} /\ k \in Nat \ {0}
  BY BoundAssumption DEF TypeOK
<1>2. MaxFrames[n][a] \in Nat
  BY BoundAssumption DEF Hops
<1>3. \A i \in 1..k : next[n][a] + i - 1 \in 1..MaxFrames[n][a]
  BY <1>1, <1>2
<1>4. Fragments(n, a, k) \in [1..k -> 1..MaxFrames[n][a]]
  BY <1>3 DEF Fragments
<1>5. Fragments(n, a, k) \in Seq(1..MaxFrames[n][a]) /\ Len(Fragments(n, a, k)) = k
  BY <1>1, <1>4, FunctionIsSeq
<1>6. Fragments(n, a, k) \in Seq(Nat)
  <2>1. 1..MaxFrames[n][a] \subseteq Nat
    BY <1>2
  <2> QED
    BY <1>5, <2>1, SeqMonotonic
<1> QED
  BY <1>5, <1>6 DEF Fragments

(* A queue of fragments becomes frames behind those already sent.          *)
LEMMA FramesBehind ==
    ASSUME NEW s \in Seq(Frame), NEW q \in Seq(Nat),
           NEW m \in Nodes \cup {Broadcast}
    PROVE  LET t == s \o Frames(q, m) IN
           /\ t \in Seq(Frame)
           /\ Len(s) \in Nat /\ Len(q) \in Nat
           /\ DOMAIN t = 1..(Len(s) + Len(q))
           /\ \A i \in 1..(Len(s) + Len(q)) :
                 t[i] = IF i <= Len(s) THEN s[i]
                        ELSE [id |-> q[i - Len(s)], mac |-> m]
<1>1. Len(q) \in Nat /\ DOMAIN q = 1..Len(q) /\ q \in [1..Len(q) -> Nat]
  BY LenProperties
<1>2. Len(s) \in Nat
  BY LenProperties
<1>3. Frames(q, m) \in [1..Len(q) -> Frame]
  BY <1>1 DEF Frames, Frame
<1>4. Frames(q, m) \in Seq(Frame) /\ Len(Frames(q, m)) = Len(q)
  BY <1>1, <1>3, FunctionIsSeq
<1>5. /\ s \o Frames(q, m) \in Seq(Frame)
      /\ Len(s \o Frames(q, m)) = Len(s) + Len(Frames(q, m))
      /\ \A i \in 1..(Len(s) + Len(Frames(q, m))) :
            (s \o Frames(q, m))[i] = IF i <= Len(s) THEN s[i]
                                     ELSE Frames(q, m)[i - Len(s)]
  BY <1>4, ConcatProperties
<1>6. /\ s \o Frames(q, m) \in Seq(Frame)
      /\ Len(s \o Frames(q, m)) = Len(s) + Len(q)
      /\ \A i \in 1..(Len(s) + Len(q)) :
            (s \o Frames(q, m))[i] = IF i <= Len(s) THEN s[i]
                                     ELSE Frames(q, m)[i - Len(s)]
  BY <1>4, <1>5
<1>7. DOMAIN (s \o Frames(q, m)) = 1..(Len(s) + Len(q))
  BY <1>6, LenProperties
<1>8. \A i \in 1..Len(q) : Frames(q, m)[i] = [id |-> q[i], mac |-> m]
  BY <1>1 DEF Frames
<1>9. ASSUME NEW i \in 1..(Len(s) + Len(q)), ~(i <= Len(s))
      PROVE  i - Len(s) \in 1..Len(q)
  BY <1>1, <1>2, <1>9
<1> QED
  BY <1>1, <1>2, <1>6, <1>7, <1>8, <1>9


(* Packets an ARP module puts on the LAN.                                  *)
LEMMA PacketTypes ==
    ASSUME NEW n \in Nodes
    PROVE  /\ \A a \in Addresses : Request(n, a) \subseteq Packet
           /\ \A p \in Packet : Reply(n, p) \subseteq Packet
  BY NodeAssumption DEF Request, Reply, Packet

(* StartAddressResolution, RetryRequest, ResolutionFails and               *)
(* UpdateARPCache keep the types of what they write.                       *)
LEMMA StartTypes ==
    ASSUME TypeOK, NEW n \in Nodes, NEW a \in Addresses,
           StartAddressResolution(n, a)
    PROVE  /\ arpCache' \in [Nodes -> Cache]
           /\ timers' \in [Nodes -> SUBSET Addresses]
           /\ lan' \subseteq Packet
           /\ requests' \in [Nodes -> [Addresses -> Nat]]
<1> DEFINE e == [pending |-> TRUE, mac |-> Unspecified, numRetries |-> 0,
                 fresh |-> FALSE]
<1>1. CASE a \in Cached(n) /\ arpCache[n][a].pending
  BY <1>1 DEF StartAddressResolution, TypeOK
<1>2. CASE ~(a \in Cached(n) /\ arpCache[n][a].pending)
  <2>1. e \in Entry
    BY RetryAssumption DEF Entry
  <2>2. WithEntry(n, a, e) \in Cache
    BY <2>1, CacheWith
  <2>3. arpCache' = [arpCache EXCEPT ![n] = WithEntry(n, a, e)]
    BY <1>2 DEF StartAddressResolution
  <2>4. arpCache' \in [Nodes -> Cache]
    BY <2>2, <2>3 DEF TypeOK
  <2>5. lan' \subseteq Packet
    BY <1>2, PacketTypes DEF StartAddressResolution, TypeOK
  <2>6. timers' \in [Nodes -> SUBSET Addresses]
    <3>1. timers' = [timers EXCEPT ![n] = @ \cup {a}]
      BY <1>2 DEF StartAddressResolution
    <3> QED
      BY <3>1 DEF TypeOK
  <2>7. requests' \in [Nodes -> [Addresses -> Nat]]
    <3>1. requests' = [requests EXCEPT ![n][a] = 1]
      BY <1>2 DEF StartAddressResolution
    <3> QED
      BY <3>1 DEF TypeOK
  <2> QED
    BY <2>4, <2>5, <2>6, <2>7
<1> QED
  BY <1>1, <1>2

(* Another ARP request keeps the types.                                    *)
LEMMA RetryTypes ==
    ASSUME TypeOK, NEW n \in Nodes, NEW a \in Cached(n), RetryRequest(n, a)
    PROVE  /\ arpCache' \in [Nodes -> Cache]
           /\ lan' \subseteq Packet
           /\ requests' \in [Nodes -> [Addresses -> Nat]]
<1> DEFINE e == [arpCache[n][a] EXCEPT !.numRetries = @ + 1]
<1>1. arpCache[n][a] \in Entry /\ a \in Addresses
  BY CacheField
<1>2. e \in Entry
  BY <1>1, RetryAssumption DEF RetryRequest, Entry
<1>3. arpCache' = [arpCache EXCEPT ![n] = [arpCache[n] EXCEPT ![a] = e]]
  BY DEF RetryRequest
<1>4. arpCache' \in [Nodes -> Cache]
  BY <1>2, <1>3, CacheField DEF TypeOK
<1>5. lan' \subseteq Packet
  BY <1>1, PacketTypes DEF RetryRequest, TypeOK
<1>6. requests' \in [Nodes -> [Addresses -> Nat]]
  BY <1>1 DEF RetryRequest, TypeOK
<1> QED
  BY <1>4, <1>5, <1>6

(* A failed resolution keeps the types.                                    *)
LEMMA FailTypes ==
    ASSUME TypeOK, NEW n \in Nodes, NEW a \in Cached(n), ResolutionFails(n, a)
    PROVE  /\ arpCache' \in [Nodes -> Cache]
           /\ timers' \in [Nodes -> SUBSET Addresses]
           /\ requests' \in [Nodes -> [Addresses -> Nat]]
<1>1. a \in Addresses
  BY CacheField
<1>2. arpCache' = [arpCache EXCEPT ![n] = Restrict(arpCache[n], Cached(n) \ {a})]
  BY DEF ResolutionFails
<1>3. arpCache' \in [Nodes -> Cache]
  BY <1>2, CacheWithout DEF TypeOK
<1> QED
  BY <1>1, <1>3 DEF ResolutionFails, TypeOK

(* An ARP packet keeps the types.                                          *)
LEMMA UpdateTypes ==
    ASSUME TypeOK, NEW n \in Nodes, NEW p \in Packet, UpdateARPCache(n, p)
    PROVE  /\ arpCache' \in [Nodes -> Cache]
           /\ timers' \in [Nodes -> SUBSET Addresses]
           /\ requests' \in [Nodes -> [Addresses -> Nat]]
<1> DEFINE e == [pending |-> FALSE, mac |-> p.smac, numRetries |-> 0,
                 fresh |-> TRUE]
<1>1. p.sip \in Addresses /\ p.smac \in Nodes
  BY DEF Packet
<1>2. e \in Entry
  BY <1>1, RetryAssumption DEF Entry
<1>3. arpCache' = [arpCache EXCEPT ![n] = WithEntry(n, p.sip, e)]
  BY DEF UpdateARPCache
<1>4. arpCache' \in [Nodes -> Cache]
  BY <1>1, <1>2, <1>3, CacheWith DEF TypeOK
<1> QED
  BY <1>1, <1>4 DEF UpdateARPCache, TypeOK

(* The MAC address a datagram is sent to.                                  *)
LEMMA NextHopMacTypes ==
    ASSUME TypeOK, NEW n \in Nodes, NEW a \in Hops
    PROVE  /\ NextHopMac(n, a) # Unspecified =>
                 NextHopMac(n, a) \in Nodes \cup {Broadcast}
           /\ NextHopMac(n, a) = Unspecified => a \in Addresses
<1>1. CASE a = Broadcast
  BY <1>1, BroadcastAssumption DEF NextHopMac
<1>2. CASE a \in Addresses
  <2>1. ASSUME a \in Cached(n)
        PROVE  arpCache[n][a].mac \in Nodes \cup {Unspecified}
    BY <2>1, CacheField DEF Entry
  <2> QED
    BY <1>2, <2>1, BroadcastAssumption DEF NextHopMac, MACAddressFor
<1> QED
  BY <1>1, <1>2 DEF Hops

(* Emptying one queue, or all queues of a node, keeps their types.         *)
LEMMA EmptiedTypes ==
    ASSUME TypeOK, NEW n \in Nodes,
           \/ \E a \in Addresses :
                 pendingPackets' = [pendingPackets EXCEPT ![n][a] = << >>]
           \/ pendingPackets' = [pendingPackets EXCEPT
                                    ![n] = [a \in Addresses |-> << >>]]
    PROVE  /\ pendingPackets' \in [Nodes -> [Addresses -> Seq(Nat)]]
           /\ \A x \in Nodes, b \in Addresses :
                 pendingPackets'[x][b] \in Seq(1..MaxFrames[x][b])
<1>1. /\ << >> \in Seq(Nat)
      /\ \A x \in Nodes, b \in Addresses : << >> \in Seq(1..MaxFrames[x][b])
  BY EmptySeq
<1>2. pendingPackets \in [Nodes -> [Addresses -> Seq(Nat)]]
  BY DEF TypeOK
<1>3. /\ pendingPackets' \in [Nodes -> [Addresses -> Seq(Nat)]]
      /\ \A x \in Nodes, b \in Addresses :
            \/ pendingPackets'[x][b] = << >>
            \/ pendingPackets'[x][b] = pendingPackets[x][b]
  <2>1. CASE \E a \in Addresses :
                pendingPackets' = [pendingPackets EXCEPT ![n][a] = << >>]
    <3>1. PICK a \in Addresses :
             pendingPackets' = [pendingPackets EXCEPT ![n][a] = << >>]
      BY <2>1
    <3> QED
      BY <1>1, <1>2, <3>1
  <2>2. CASE pendingPackets' = [pendingPackets EXCEPT
                                  ![n] = [a \in Addresses |-> << >>]]
    <3>1. [a \in Addresses |-> << >>] \in [Addresses -> Seq(Nat)]
      BY <1>1
    <3> QED
      BY <1>2, <2>2, <3>1
  <2> QED
    BY <2>1, <2>2
<1>4. ASSUME NEW x \in Nodes, NEW b \in Addresses
      PROVE  pendingPackets'[x][b] \in Seq(1..MaxFrames[x][b])
  <2>1. pendingPackets[x][b] \in Seq(1..MaxFrames[x][b])
    BY DEF TypeOK
  <2> QED
    BY <1>1, <1>3, <2>1
<1> QED
  BY <1>3, <1>4

(* Initially everything has its type.                                      *)
LEMMA InitTypes == Init => TypeOK
<1> SUFFICES ASSUME Init PROVE TypeOK
  OBVIOUS
<1>1. << >> \in Cache
  <2>1. DOMAIN << >> = {} /\ << >> \in [{} -> Entry]
    OBVIOUS
  <2> QED
    BY <2>1, CacheMembers
<1>2. arpCache \in [Nodes -> Cache]
  BY <1>1 DEF Init, ArpInit
<1>3. sent \in [Nodes -> [Hops -> Seq(Frame)]]
  BY DEF Init
<1>4. /\ pendingPackets \in [Nodes -> [Addresses -> Seq(Nat)]]
      /\ \A n \in Nodes, a \in Addresses :
            pendingPackets[n][a] \in Seq(1..MaxFrames[n][a])
  BY DEF Init
<1>5. /\ isUp \in [Nodes -> BOOLEAN]
      /\ timers \in [Nodes -> SUBSET Addresses]
      /\ lan \subseteq Packet
      /\ requests \in [Nodes -> [Addresses -> Nat]]
  BY DEF Init, ArpInit
<1>6. next \in [Nodes -> [Hops -> Nat \ {0}]]
  BY DEF Init
<1>7. stops \in 0..MaxStops
  BY BoundAssumption DEF Init
<1>8. assertFailed \in BOOLEAN
  BY DEF Init
<1> QED
  BY <1>2, <1>3, <1>4, <1>5, <1>6, <1>7, <1>8 DEF TypeOK

(* Every step keeps the types, by one step per event.                      *)
LEMMA NextTypes == TypeOK /\ [Next]_vars => TypeOK'
<1> SUFFICES ASSUME TypeOK, [Next]_vars PROVE TypeOK'
  OBVIOUS
<1>1. ASSUME NEW n \in Nodes, NEW a \in Hops, NEW k \in 1..MaxFragments,
             SendDatagram(n, a, k)
      PROVE  TypeOK'
  <2> DEFINE m == NextHopMac(n, a)
             q == Fragments(n, a, k)
  <2>1. /\ q \in Seq(Nat)
        /\ q \in Seq(1..MaxFrames[n][a])
    BY <1>1, FragmentNumbers DEF SendDatagram
  <2>2. next' \in [Nodes -> [Hops -> Nat \ {0}]]
    <3>1. next' = [next EXCEPT ![n][a] = @ + k] /\ k \in Nat
      BY <1>1 DEF SendDatagram
    <3>2. next[n][a] + k \in Nat \ {0}
      BY <3>1 DEF TypeOK
    <3> QED
      BY <3>1, <3>2 DEF TypeOK
  <2>3. CASE m = Unspecified
    <3>1. a \in Addresses
      BY <2>3, NextHopMacTypes
    <3>2. /\ StartAddressResolution(n, a)
          /\ pendingPackets' = [pendingPackets EXCEPT ![n][a] = @ \o q]
          /\ UNCHANGED <<isUp, sent, assertFailed, stops>>
      BY <1>1, <2>3 DEF SendDatagram
    <3>3. /\ pendingPackets[n][a] \o q \in Seq(Nat)
          /\ pendingPackets[n][a] \o q \in Seq(1..MaxFrames[n][a])
      BY <2>1, <3>1, ConcatProperties DEF TypeOK
    <3>4. pendingPackets' \in [Nodes -> [Addresses -> Seq(Nat)]]
      BY <3>1, <3>2, <3>3 DEF TypeOK
    <3>5. \A x \in Nodes, b \in Addresses :
             pendingPackets'[x][b] \in Seq(1..MaxFrames[x][b])
      BY <3>1, <3>2, <3>3 DEF TypeOK
    <3> QED
      BY <2>2, <3>1, <3>2, <3>4, <3>5, StartTypes DEF TypeOK
  <2>4. CASE m # Unspecified
    <3>1. /\ assertFailed' \in BOOLEAN
          /\ sent' = [sent EXCEPT ![n][a] = @ \o Frames(q, m)]
          /\ UNCHANGED <<isUp, arpCache, timers, lan, requests, pendingPackets, stops>>
      BY <1>1, <2>4 DEF SendDatagram, TypeOK, arpVars
    <3>2. sent[n][a] \o Frames(q, m) \in Seq(Frame)
      <4>1. sent[n][a] \in Seq(Frame)
        BY DEF TypeOK
      <4> QED
        BY <2>1, <2>4, <4>1, NextHopMacTypes, FramesBehind
    <3>3. sent' \in [Nodes -> [Hops -> Seq(Frame)]]
      BY <3>1, <3>2 DEF TypeOK
    <3> QED
      BY <2>2, <3>1, <3>3 DEF TypeOK
  <2> QED
    BY <2>3, <2>4
<1>2. ASSUME NEW n \in Nodes, NEW p \in lan, Receive(n, p)
      PROVE  TypeOK'
  <2>1. p \in Packet
    BY DEF TypeOK
  <2>2. /\ isUp' = isUp /\ UNCHANGED <<next, stops, assertFailed>>
        /\ lan' \subseteq Packet
    BY <1>2, <2>1, PacketTypes DEF Receive, ProcessARPPacket, TypeOK
  <2>3. CASE isUp[n] /\ Merges(n, p)
    <3>1. /\ UpdateARPCache(n, p)
          /\ ArpResolutionCompleted(n, p.sip, p.smac)
      BY <1>2, <2>3 DEF Receive, ProcessARPPacket
    <3>2. p.sip \in Addresses /\ p.smac \in Nodes \cup {Broadcast} /\ p.sip \in Hops
      BY <2>1 DEF Packet, Hops
    <3>3. sent' \in [Nodes -> [Hops -> Seq(Frame)]]
      <4>1. sent[n][p.sip] \o Frames(pendingPackets[n][p.sip], p.smac) \in Seq(Frame)
        <5>1. sent[n][p.sip] \in Seq(Frame) /\ pendingPackets[n][p.sip] \in Seq(Nat)
          BY <3>2 DEF TypeOK
        <5> QED
          BY <3>2, <5>1, FramesBehind
      <4> QED
        BY <3>1, <3>2, <4>1 DEF ArpResolutionCompleted, TypeOK
    <3>4. /\ pendingPackets' \in [Nodes -> [Addresses -> Seq(Nat)]]
          /\ \A x \in Nodes, b \in Addresses :
                pendingPackets'[x][b] \in Seq(1..MaxFrames[x][b])
      BY <3>1, <3>2, EmptiedTypes DEF ArpResolutionCompleted
    <3> QED
      BY <2>1, <2>2, <3>1, <3>3, <3>4, UpdateTypes DEF TypeOK
  <2>4. CASE ~(isUp[n] /\ Merges(n, p))
    <3>1. UNCHANGED <<arpCache, timers, requests, sent, pendingPackets>>
      BY <1>2, <2>4 DEF Receive, ProcessARPPacket
    <3> QED
      BY <2>2, <3>1 DEF TypeOK
  <2> QED
    BY <2>3, <2>4
<1>3. ASSUME NEW n \in Nodes, NEW a \in Addresses, Timeout(n, a)
      PROVE  TypeOK'
  <2>1. UNCHANGED <<sent, next, stops>>
    BY <1>3 DEF Timeout
  <2>2. CASE isUp[n] /\ a \in Cached(n)
    <3>1. UNCHANGED assertFailed
      BY <1>3, <2>2 DEF Timeout
    <3>2. CASE RetryRequest(n, a) /\ UNCHANGED pendingPackets
      <4>1. UNCHANGED <<isUp, timers, pendingPackets>>
        BY <3>2 DEF RetryRequest
      <4> QED
        BY <2>1, <2>2, <3>1, <3>2, <4>1, RetryTypes DEF TypeOK
    <3>3. CASE ResolutionFails(n, a) /\ ArpResolutionTimedOut(n, a)
      <4>1. UNCHANGED <<isUp, lan>>
        BY <3>3 DEF ResolutionFails
      <4>2. /\ pendingPackets' \in [Nodes -> [Addresses -> Seq(Nat)]]
            /\ \A x \in Nodes, b \in Addresses :
                  pendingPackets'[x][b] \in Seq(1..MaxFrames[x][b])
        BY <3>3, EmptiedTypes DEF ArpResolutionTimedOut
      <4> QED
        BY <2>1, <2>2, <3>1, <3>3, <4>1, <4>2, FailTypes DEF TypeOK
    <3> QED
      BY <1>3, <2>2, <3>2, <3>3 DEF Timeout
  <2>3. CASE ~(isUp[n] /\ a \in Cached(n))
    BY <1>3, <2>1, <2>3 DEF Timeout, TypeOK, arpVars
  <2> QED
    BY <2>2, <2>3
<1>4. ASSUME NEW n \in Nodes, NEW a \in Addresses, Expire(n, a)
      PROVE  TypeOK'
  <2> DEFINE e == [arpCache[n][a] EXCEPT !.fresh = FALSE]
  <2>1. /\ a \in Cached(n)
        /\ arpCache' = [arpCache EXCEPT ![n] = [arpCache[n] EXCEPT ![a] = e]]
        /\ UNCHANGED <<isUp, timers, lan, requests, ipVars>>
    BY <1>4 DEF Expire, EntryExpires
  <2>2. e \in Entry
    BY <2>1, CacheField DEF Entry
  <2>3. arpCache' \in [Nodes -> Cache]
    BY <2>1, <2>2, CacheField DEF TypeOK
  <2> QED
    BY <2>1, <2>3 DEF TypeOK, ipVars
<1>5. ASSUME NEW p \in lan, Lose(p)
      PROVE  TypeOK'
  BY <1>5 DEF Lose, LosePacket, TypeOK, ipVars
<1>6. ASSUME NEW n \in Nodes, Stop(n)
      PROVE  TypeOK'
  <2>1. << >> \in Cache
    <3>1. DOMAIN << >> = {} /\ << >> \in [{} -> Entry]
      OBVIOUS
    <3> QED
      BY <3>1, CacheMembers
  <2>2. /\ arpCache' \in [Nodes -> Cache]
        /\ isUp' \in [Nodes -> BOOLEAN]
        /\ timers' \in [Nodes -> SUBSET Addresses]
        /\ UNCHANGED lan
    BY <1>6, <2>1 DEF Stop, ArpStop, TypeOK
  <2>3. requests' \in [Nodes -> [Addresses -> Nat]]
    BY <1>6 DEF Stop, ArpStop, TypeOK
  <2>4. /\ pendingPackets' \in [Nodes -> [Addresses -> Seq(Nat)]]
        /\ \A x \in Nodes, b \in Addresses :
              pendingPackets'[x][b] \in Seq(1..MaxFrames[x][b])
    BY <1>6, EmptiedTypes DEF Stop
  <2>5. stops' \in 0..MaxStops /\ UNCHANGED <<sent, next, assertFailed>>
    BY <1>6, BoundAssumption DEF Stop, TypeOK
  <2> QED
    BY <2>2, <2>3, <2>4, <2>5 DEF TypeOK
<1>7. ASSUME NEW n \in Nodes, Start(n)
      PROVE  TypeOK'
  BY <1>7 DEF Start, ArpStart, TypeOK
<1>8. CASE UNCHANGED vars
  BY <1>8 DEF TypeOK, vars, arpVars, ipVars
<1> QED
  BY <1>1, <1>2, <1>3, <1>4, <1>5, <1>6, <1>7, <1>8 DEF Next

(* Entries, timers, packets and queues have their types: no entry counts   *)
(* more retries than requestTimedOut() allows.                             *)
THEOREM TypeCorrectness == Spec => []TypeOK
  BY InitTypes, NextTypes, PTL DEF Spec

-----------------------------------------------------------------------------
(* Caches, timers and queues.                                              *)

(* A step touches nothing that HopInv(x, b) is about.                      *)
SameHop(x, b) ==
    /\ b \in Cached(x)' <=> b \in Cached(x)
    /\ b \in Cached(x) => arpCache'[x][b] = arpCache[x][b]
    /\ b \in timers'[x] <=> b \in timers[x]
    /\ requests'[x][b] = requests[x][b]
    /\ pendingPackets'[x][b] = pendingPackets[x][b]
    /\ isUp'[x] = isUp[x]

(* An untouched next hop keeps its invariant.                              *)
LEMMA SameHopInv ==
    ASSUME NEW x, NEW b, HopInv(x, b), SameHop(x, b)
    PROVE  HopInv(x, b)'
<1>1. b \in Cached(x)' <=> b \in Cached(x)
  BY DEF SameHop
<1>2. b \in Cached(x) => arpCache'[x][b] = arpCache[x][b]
  BY DEF SameHop
<1>3. Waiting(x, b)' <=> Waiting(x, b)
  BY <1>1, <1>2 DEF Waiting
<1>4. (Waiting(x, b) <=> b \in timers[x])'
  BY <1>3 DEF SameHop, HopInv
<1>5. (Waiting(x, b) <=> pendingPackets[x][b] # << >>)'
  BY <1>3 DEF SameHop, HopInv
<1>6. Waiting(x, b) => b \in Cached(x)
  BY DEF Waiting
<1>7. (Waiting(x, b) => requests[x][b] = arpCache[x][b].numRetries + 1)'
  BY <1>2, <1>3, <1>6 DEF SameHop, HopInv
<1>8. (~Waiting(x, b) => requests[x][b] = 0)'
  BY <1>3 DEF SameHop, HopInv
<1>9. (requests[x][b] <= RetryCount)'
  BY DEF SameHop, HopInv
<1>10. (b \in Cached(x) => isUp[x])'
  BY <1>1 DEF SameHop, HopInv
<1>11. (b \in Cached(x) /\ ~Waiting(x, b) =>
           /\ arpCache[x][b].mac \in Nodes
           /\ AddressRecognized(arpCache[x][b].mac, b))'
  BY <1>1, <1>2, <1>3 DEF HopInv, AddressRecognized
<1> QED
  BY <1>4, <1>5, <1>7, <1>8, <1>9, <1>10, <1>11 DEF HopInv

(* A step changes only what HopInv(n, a) is about.                         *)
OneHop(n, a) ==
    /\ \E c : /\ arpCache' = [arpCache EXCEPT ![n] = c]
              /\ \A b \in Addresses \ {a} :
                    /\ b \in DOMAIN c <=> b \in Cached(n)
                    /\ b \in Cached(n) => c[b] = arpCache[n][b]
    /\ \/ timers' = timers
       \/ timers' = [timers EXCEPT ![n] = @ \cup {a}]
       \/ timers' = [timers EXCEPT ![n] = @ \ {a}]
    /\ \E q : pendingPackets' = [pendingPackets EXCEPT ![n][a] = q]
    /\ \E r : requests' = [requests EXCEPT ![n][a] = r]
    /\ isUp' = isUp

(* A step about one next hop leaves the others untouched.                  *)
LEMMA OtherHops ==
    ASSUME TypeOK, NEW n \in Nodes, NEW a \in Addresses, OneHop(n, a),
           NEW x \in Nodes, NEW b \in Addresses, x # n \/ b # a
    PROVE  SameHop(x, b)
<1>1. PICK c : /\ arpCache' = [arpCache EXCEPT ![n] = c]
               /\ \A d \in Addresses \ {a} :
                     /\ d \in DOMAIN c <=> d \in Cached(n)
                     /\ d \in Cached(n) => c[d] = arpCache[n][d]
  BY DEF OneHop
<1>2. b \in timers'[x] <=> b \in timers[x]
  BY DEF OneHop, TypeOK
<1>3. pendingPackets'[x][b] = pendingPackets[x][b]
  <2>1. PICK q : pendingPackets' = [pendingPackets EXCEPT ![n][a] = q]
    BY DEF OneHop
  <2> QED
    BY <2>1 DEF TypeOK
<1>4. requests'[x][b] = requests[x][b]
  <2>1. PICK r : requests' = [requests EXCEPT ![n][a] = r]
    BY DEF OneHop
  <2> QED
    BY <2>1 DEF TypeOK
<1>5. /\ b \in Cached(x)' <=> b \in Cached(x)
      /\ b \in Cached(x) => arpCache'[x][b] = arpCache[x][b]
  <2>1. CASE x # n
    BY <1>1, <2>1 DEF TypeOK, Cached
  <2>2. CASE x = n
    <3>1. arpCache'[n] = c /\ b \in Addresses \ {a}
      BY <1>1, <2>2 DEF TypeOK
    <3> QED
      BY <1>1, <2>2, <3>1 DEF Cached
  <2> QED
    BY <2>1, <2>2
<1> QED
  BY <1>2, <1>3, <1>4, <1>5 DEF SameHop, OneHop

(* So it is enough to look at the next hop the step is about.              *)
LEMMA OneHopInv ==
    ASSUME TypeOK, ResolutionInv, NEW n \in Nodes, NEW a \in Addresses,
           OneHop(n, a), HopInv(n, a)'
    PROVE  \A x \in Nodes, b \in Addresses : HopInv(x, b)'
<1>1. ASSUME NEW x \in Nodes, NEW b \in Addresses, x # n \/ b # a
      PROVE  HopInv(x, b)'
  <2>1. HopInv(x, b)
    BY DEF ResolutionInv
  <2>2. SameHop(x, b)
    BY <1>1, OtherHops
  <2> QED
    BY <2>1, <2>2, SameHopInv
<1>2. ASSUME NEW x \in Nodes, NEW b \in Addresses, ~(x # n \/ b # a)
      PROVE  HopInv(x, b)'
  BY <1>2
<1> QED
  BY <1>1, <1>2

(* Packets tell the truth: their sender recognizes the address it gives.   *)
LEMMA TruePackets ==
    ASSUME NEW n \in Nodes
    PROVE  /\ \A a : \A p \in Request(n, a) : AddressRecognized(p.smac, p.sip)
           /\ \A r : \A p \in Reply(n, r) : AddressRecognized(p.smac, p.sip)
  BY DEF Request, Reply, AddressRecognized

(* A queue is not empty once something was put behind it.                  *)
LEMMA QueueGrows ==
    ASSUME NEW s \in Seq(Nat), NEW q \in Seq(Nat), Len(q) > 0
    PROVE  s \o q # << >>
<1>1. Len(s) \in Nat /\ Len(q) \in Nat /\ Len(s \o q) = Len(s) + Len(q)
  BY ConcatProperties, LenProperties
<1>2. Len(s \o q) # Len(<< >>)
  BY <1>1
<1> QED
  BY <1>2

(* sendDatagramToOutput(): a datagram that finds no MAC address waits, and *)
(* its resolution has a timer.                                             *)
LEMMA SendResolution ==
    ASSUME TypeOK, ResolutionInv,
           NEW n \in Nodes, NEW a \in Hops, NEW k \in 1..MaxFragments,
           SendDatagram(n, a, k)
    PROVE  ResolutionInv'
<1> DEFINE q == Fragments(n, a, k)
<1>1. CASE NextHopMac(n, a) = Unspecified
  <2>1. a \in Addresses
    BY <1>1, NextHopMacTypes
  <2>2. /\ StartAddressResolution(n, a)
        /\ pendingPackets' = [pendingPackets EXCEPT ![n][a] = @ \o q]
        /\ isUp[n] /\ isUp' = isUp /\ assertFailed' = assertFailed
    BY <1>1 DEF SendDatagram
  <2>3. pendingPackets'[n][a] # << >>
    <3>1. pendingPackets'[n][a] = pendingPackets[n][a] \o q
      BY <2>1, <2>2 DEF TypeOK
    <3>2. q \in Seq(Nat) /\ Len(q) > 0
      BY FragmentNumbers DEF SendDatagram
    <3>3. pendingPackets[n][a] \in Seq(Nat)
      BY <2>1 DEF TypeOK
    <3> QED
      BY <3>1, <3>2, <3>3, QueueGrows
  <2>4. HopInv(n, a)
    BY <2>1 DEF ResolutionInv
  <2>5. CASE Waiting(n, a)
    <3>1. UNCHANGED <<arpCache, timers, lan, requests>>
      BY <2>2, <2>5 DEF StartAddressResolution, Waiting
    <3>2. HopInv(n, a)'
      BY <2>2, <2>3, <2>4, <2>5, <3>1 DEF HopInv, Waiting, Cached
    <3>3. OneHop(n, a)
      <4>1. arpCache' = [arpCache EXCEPT ![n] = arpCache[n]]
        BY <3>1 DEF TypeOK
      <4>2. requests' = [requests EXCEPT ![n][a] = requests[n][a]]
        BY <3>1 DEF TypeOK
      <4> QED
        BY <2>2, <3>1, <4>1, <4>2 DEF OneHop, Cached
    <3>4. \A x \in Nodes, b \in Addresses : HopInv(x, b)'
      BY <2>1, <3>2, <3>3, OneHopInv
    <3> QED
      BY <2>2, <3>1, <3>4 DEF ResolutionInv, AddressRecognized
  <2>6. CASE ~Waiting(n, a)
    <3> DEFINE e == [pending |-> TRUE, mac |-> Unspecified, numRetries |-> 0,
                     fresh |-> FALSE]
    <3>1. /\ arpCache' = [arpCache EXCEPT ![n] = WithEntry(n, a, e)]
          /\ timers' = [timers EXCEPT ![n] = @ \cup {a}]
          /\ lan' = lan \cup Request(n, a)
          /\ requests' = [requests EXCEPT ![n][a] = 1]
      BY <2>2, <2>6 DEF StartAddressResolution, Waiting
    <3>2. e \in Entry
      BY RetryAssumption DEF Entry
    <3>3. /\ DOMAIN WithEntry(n, a, e) = Cached(n) \cup {a}
          /\ WithEntry(n, a, e)[a] = e
          /\ \A b \in Cached(n) : b # a => WithEntry(n, a, e)[b] = arpCache[n][b]
      BY <2>1, <3>2, CacheWith
    <3>4. arpCache'[n] = WithEntry(n, a, e)
      BY <3>1 DEF TypeOK
    <3>5. HopInv(n, a)'
      <4>1. Waiting(n, a)' /\ arpCache'[n][a] = e
        BY <3>3, <3>4 DEF Waiting, Cached
      <4>2. a \in timers'[n]
        BY <3>1 DEF TypeOK
      <4>3. requests'[n][a] = e.numRetries + 1 /\ requests'[n][a] <= RetryCount
        BY <2>1, <3>1, RetryAssumption DEF TypeOK
      <4> QED
        BY <2>2, <2>3, <4>1, <4>2, <4>3 DEF HopInv
    <3>6. \A x \in Nodes, b \in Addresses : HopInv(x, b)'
      <4>1. \E c : /\ arpCache' = [arpCache EXCEPT ![n] = c]
                   /\ \A d \in Addresses \ {a} :
                         /\ d \in DOMAIN c <=> d \in Cached(n)
                         /\ d \in Cached(n) => c[d] = arpCache[n][d]
        <5> WITNESS WithEntry(n, a, e)
        <5> QED
          BY <3>1, <3>3
      <4>2. OneHop(n, a)
        BY <2>2, <3>1, <4>1 DEF OneHop
      <4> QED
        BY <2>1, <3>5, <4>2, OneHopInv
    <3>7. \A p \in lan' : AddressRecognized(p.smac, p.sip)
      BY <3>1, TruePackets DEF ResolutionInv
    <3> QED
      BY <2>2, <3>6, <3>7 DEF ResolutionInv, AddressRecognized
  <2> QED
    BY <2>5, <2>6
<1>2. CASE NextHopMac(n, a) # Unspecified
  <2>1. UNCHANGED <<arpVars, pendingPackets>>
    BY <1>2 DEF SendDatagram
  <2>2. ~assertFailed'
    <3>1. CASE a = Broadcast
      BY <1>2, <3>1 DEF SendDatagram, ResolutionInv
    <3>2. CASE a \in Addresses
      <4>1. ~Waiting(n, a)
        BY <1>2, <3>2, BroadcastAssumption DEF NextHopMac, MACAddressFor, Waiting
      <4>2. pendingPackets[n][a] = << >>
        BY <3>2, <4>1 DEF ResolutionInv, HopInv
      <4> QED
        BY <1>2, <4>2 DEF SendDatagram, ResolutionInv
    <3> QED
      BY <3>1, <3>2 DEF Hops
  <2>3. ASSUME NEW x \in Nodes, NEW b \in Addresses
        PROVE  HopInv(x, b)'
    <3>1. SameHop(x, b)
      BY <2>1 DEF SameHop, arpVars, Cached
    <3> QED
      BY <3>1, SameHopInv DEF ResolutionInv
  <2> QED
    BY <2>1, <2>2, <2>3 DEF ResolutionInv, arpVars, AddressRecognized
<1> QED
  BY <1>1, <1>2

(* An ARP packet that merges ends the resolution of its sender's address:  *)
(* entry, timer, counter and queue together.                               *)
LEMMA ReceiveResolution ==
    ASSUME TypeOK, ResolutionInv, NEW n \in Nodes, NEW p \in lan, Receive(n, p)
    PROVE  ResolutionInv'
<1>1. p \in Packet /\ AddressRecognized(p.smac, p.sip)
  BY DEF TypeOK, ResolutionInv
<1>2. ~assertFailed' /\ isUp' = isUp
  BY DEF Receive, ProcessARPPacket, ResolutionInv
<1>3. \A r \in lan' : AddressRecognized(r.smac, r.sip)
  <2>1. lan' \subseteq lan \cup Reply(n, p)
    BY DEF Receive, ProcessARPPacket
  <2> QED
    BY <2>1, TruePackets DEF ResolutionInv
<1>4. CASE isUp[n] /\ Merges(n, p)
  <2> DEFINE a == p.sip
             e == [pending |-> FALSE, mac |-> p.smac, numRetries |-> 0,
                   fresh |-> TRUE]
  <2>1. a \in Addresses /\ p.smac \in Nodes
    BY <1>1 DEF Packet
  <2>2. /\ arpCache' = [arpCache EXCEPT ![n] = WithEntry(n, a, e)]
        /\ timers' = [timers EXCEPT ![n] = @ \ {a}]
        /\ requests' = [requests EXCEPT ![n][a] = 0]
        /\ pendingPackets' = [pendingPackets EXCEPT ![n][a] = << >>]
    BY <1>4 DEF Receive, ProcessARPPacket, UpdateARPCache, ArpResolutionCompleted
  <2>3. e \in Entry
    BY <2>1, RetryAssumption DEF Entry
  <2>4. /\ DOMAIN WithEntry(n, a, e) = Cached(n) \cup {a}
        /\ WithEntry(n, a, e)[a] = e
        /\ \A b \in Cached(n) : b # a => WithEntry(n, a, e)[b] = arpCache[n][b]
    <3> HIDE DEF a, e
    <3> QED
      BY <2>1, <2>3, CacheWith
  <2>5. arpCache'[n] = WithEntry(n, a, e)
    BY <2>2 DEF TypeOK
  <2>6. HopInv(n, a)'
    <3>1. ~Waiting(n, a)' /\ arpCache'[n][a] = e
      BY <2>4, <2>5 DEF Waiting, Cached
    <3>2. a \notin timers'[n]
      BY <2>2 DEF TypeOK
    <3>3. requests'[n][a] = 0 /\ requests'[n][a] <= RetryCount
      BY <2>1, <2>2, RetryAssumption DEF TypeOK
    <3>4. pendingPackets'[n][a] = << >>
      BY <2>1, <2>2 DEF TypeOK
    <3>5. /\ arpCache'[n][a].mac \in Nodes
          /\ AddressRecognized(arpCache'[n][a].mac, a)
      BY <1>1, <2>1, <3>1
    <3> QED
      BY <1>2, <1>4, <3>1, <3>2, <3>3, <3>4, <3>5 DEF HopInv, AddressRecognized
  <2>7. OneHop(n, a)
    <3>1. \E c : /\ arpCache' = [arpCache EXCEPT ![n] = c]
                 /\ \A d \in Addresses \ {a} :
                       /\ d \in DOMAIN c <=> d \in Cached(n)
                       /\ d \in Cached(n) => c[d] = arpCache[n][d]
      <4> WITNESS WithEntry(n, a, e)
      <4> QED
        BY <2>2, <2>4
    <3> QED
      BY <1>2, <2>2, <3>1 DEF OneHop
  <2> HIDE DEF a
  <2>8. \A x \in Nodes, b \in Addresses : HopInv(x, b)'
    BY <2>1, <2>6, <2>7, OneHopInv
  <2> QED
    BY <1>2, <1>3, <2>8 DEF ResolutionInv, AddressRecognized
<1>5. CASE ~(isUp[n] /\ Merges(n, p))
  <2>1. UNCHANGED <<isUp, arpCache, timers, requests, pendingPackets>>
    BY <1>2, <1>5 DEF Receive, ProcessARPPacket
  <2>2. ASSUME NEW x \in Nodes, NEW b \in Addresses
        PROVE  HopInv(x, b)'
    <3>1. SameHop(x, b)
      BY <2>1 DEF SameHop, Cached
    <3> QED
      BY <3>1, SameHopInv DEF ResolutionInv
  <2> QED
    BY <1>2, <1>3, <2>2 DEF ResolutionInv, AddressRecognized
<1> QED
  BY <1>4, <1>5

(* requestTimedOut(): the timer has its entry; a retry keeps both, and the *)
(* last timeout takes entry, timer and queue away.                         *)
LEMMA TimeoutResolution ==
    ASSUME TypeOK, ResolutionInv, NEW n \in Nodes, NEW a \in Addresses,
           Timeout(n, a)
    PROVE  ResolutionInv'
<1>1. HopInv(n, a) /\ a \in timers[n]
  BY DEF ResolutionInv, Timeout
<1>2. Waiting(n, a) /\ a \in Cached(n) /\ isUp[n]
  BY <1>1 DEF HopInv, Waiting
<1>3. ~assertFailed'
  BY <1>2 DEF Timeout, ResolutionInv
<1>4. arpCache[n][a] \in Entry
  BY <1>2, CacheField
<1>5. CASE RetryRequest(n, a) /\ UNCHANGED pendingPackets
  <2> DEFINE e == [arpCache[n][a] EXCEPT !.numRetries = @ + 1]
             c0 == [arpCache[n] EXCEPT ![a] = e]
  <2>1. /\ arpCache' = [arpCache EXCEPT ![n] = c0]
        /\ requests' = [requests EXCEPT ![n][a] = @ + 1]
        /\ lan' = lan \cup Request(n, a)
        /\ UNCHANGED <<isUp, timers, pendingPackets>>
        /\ arpCache[n][a].numRetries + 1 < RetryCount
    BY <1>5 DEF RetryRequest
  <2>2. /\ e \in Entry /\ e.pending = arpCache[n][a].pending
        /\ e.numRetries = arpCache[n][a].numRetries + 1
    BY <1>4, <2>1, RetryAssumption DEF Entry
  <2>3. DOMAIN c0 = Cached(n)
    BY <1>2, <2>2, CacheField
  <2>4. c0[a] = e /\ \A b \in Cached(n) : b # a => c0[b] = arpCache[n][b]
    BY <1>2 DEF Cached
  <2> HIDE DEF e, c0
  <2>5. arpCache'[n] = c0
    BY <2>1 DEF TypeOK
  <2>6. HopInv(n, a)'
    <3>1. Waiting(n, a)' /\ arpCache'[n][a] = e /\ a \in Cached(n)'
      BY <1>2, <2>2, <2>3, <2>4, <2>5 DEF Waiting, Cached
    <3>2. /\ requests'[n][a] = e.numRetries + 1
          /\ requests'[n][a] <= RetryCount
      <4>1. requests'[n][a] = requests[n][a] + 1
        BY <2>1 DEF TypeOK
      <4>2. requests[n][a] = arpCache[n][a].numRetries + 1
        BY <1>1, <1>2 DEF HopInv
      <4>3. arpCache[n][a].numRetries \in Nat
        BY <1>4, RetryAssumption DEF Entry
      <4> QED
        BY <2>1, <2>2, <4>1, <4>2, <4>3, RetryAssumption
    <3> QED
      BY <1>1, <1>2, <2>1, <3>1, <3>2 DEF HopInv
  <2>7. OneHop(n, a)
    <3>1. \E c : /\ arpCache' = [arpCache EXCEPT ![n] = c]
                 /\ \A d \in Addresses \ {a} :
                       /\ d \in DOMAIN c <=> d \in Cached(n)
                       /\ d \in Cached(n) => c[d] = arpCache[n][d]
      BY <2>1, <2>3, <2>4
    <3>2. pendingPackets' = [pendingPackets EXCEPT ![n][a] = pendingPackets[n][a]]
      BY <2>1 DEF TypeOK
    <3>3. \E r : requests' = [requests EXCEPT ![n][a] = r]
      BY <2>1
    <3> QED
      BY <2>1, <3>1, <3>2, <3>3 DEF OneHop
  <2>8. \A x \in Nodes, b \in Addresses : HopInv(x, b)'
    BY <2>6, <2>7, OneHopInv
  <2>9. \A p \in lan' : AddressRecognized(p.smac, p.sip)
    BY <2>1, TruePackets DEF ResolutionInv
  <2> QED
    BY <1>3, <2>8, <2>9 DEF ResolutionInv, AddressRecognized
<1>6. CASE ResolutionFails(n, a) /\ ArpResolutionTimedOut(n, a)
  <2> DEFINE c0 == Restrict(arpCache[n], Cached(n) \ {a})
  <2>1. /\ arpCache' = [arpCache EXCEPT ![n] = c0]
        /\ timers' = [timers EXCEPT ![n] = @ \ {a}]
        /\ requests' = [requests EXCEPT ![n][a] = 0]
        /\ pendingPackets' = [pendingPackets EXCEPT ![n][a] = << >>]
        /\ UNCHANGED <<isUp, lan>>
    BY <1>6 DEF ResolutionFails, ArpResolutionTimedOut
  <2>2. /\ DOMAIN c0 = Cached(n) \ {a}
        /\ \A b \in Cached(n) : b # a => c0[b] = arpCache[n][b]
    BY CacheWithout
  <2> HIDE DEF c0
  <2>3. arpCache'[n] = c0
    BY <2>1 DEF TypeOK
  <2>4. HopInv(n, a)'
    <3>1. a \notin Cached(n)' /\ ~Waiting(n, a)'
      BY <2>2, <2>3 DEF Waiting, Cached
    <3>2. a \notin timers'[n]
      BY <2>1 DEF TypeOK
    <3>3. requests'[n][a] = 0 /\ requests'[n][a] <= RetryCount
      BY <2>1, RetryAssumption DEF TypeOK
    <3>4. pendingPackets'[n][a] = << >>
      BY <2>1 DEF TypeOK
    <3> QED
      BY <3>1, <3>2, <3>3, <3>4 DEF HopInv
  <2>5. OneHop(n, a)
    <3>1. \E c : /\ arpCache' = [arpCache EXCEPT ![n] = c]
                 /\ \A d \in Addresses \ {a} :
                       /\ d \in DOMAIN c <=> d \in Cached(n)
                       /\ d \in Cached(n) => c[d] = arpCache[n][d]
      BY <2>1, <2>2
    <3> QED
      BY <2>1, <3>1 DEF OneHop
  <2>6. \A x \in Nodes, b \in Addresses : HopInv(x, b)'
    BY <2>4, <2>5, OneHopInv
  <2> QED
    BY <1>3, <2>1, <2>6 DEF ResolutionInv, AddressRecognized
<1> QED
  BY <1>2, <1>5, <1>6 DEF Timeout

(* The age of an entry matters to none of it.                              *)
LEMMA ExpireResolution ==
    ASSUME TypeOK, ResolutionInv, NEW n \in Nodes, NEW a \in Addresses,
           Expire(n, a)
    PROVE  ResolutionInv'
<1> DEFINE e == [arpCache[n][a] EXCEPT !.fresh = FALSE]
           c0 == [arpCache[n] EXCEPT ![a] = e]
<1>1. /\ a \in Cached(n)
      /\ arpCache' = [arpCache EXCEPT ![n] = c0]
      /\ UNCHANGED <<isUp, timers, lan, requests, pendingPackets, assertFailed>>
  BY DEF Expire, EntryExpires, ipVars
<1>2. arpCache[n][a] \in Entry
  BY <1>1, CacheField
<1>3. /\ e \in Entry /\ e.pending = arpCache[n][a].pending
      /\ e.numRetries = arpCache[n][a].numRetries
      /\ e.mac = arpCache[n][a].mac
  BY <1>2 DEF Entry
<1>4. DOMAIN c0 = Cached(n)
  BY <1>1, <1>3, CacheField
<1>5. c0[a] = e /\ \A b \in Cached(n) : b # a => c0[b] = arpCache[n][b]
  BY <1>1 DEF Cached
<1> HIDE DEF e, c0
<1>6. arpCache'[n] = c0
  BY <1>1 DEF TypeOK
<1>7. HopInv(n, a)'
  <2>1. HopInv(n, a)
    BY DEF ResolutionInv
  <2>2. a \in Cached(n)' /\ arpCache'[n][a] = e
    BY <1>1, <1>4, <1>5, <1>6 DEF Cached
  <2>3. Waiting(n, a)' <=> Waiting(n, a)
    BY <1>1, <1>3, <2>2 DEF Waiting
  <2> QED
    BY <1>1, <1>3, <2>1, <2>2, <2>3 DEF HopInv, AddressRecognized
<1>8. OneHop(n, a)
  <2>1. \E c : /\ arpCache' = [arpCache EXCEPT ![n] = c]
               /\ \A d \in Addresses \ {a} :
                     /\ d \in DOMAIN c <=> d \in Cached(n)
                     /\ d \in Cached(n) => c[d] = arpCache[n][d]
    BY <1>1, <1>4, <1>5
  <2>2. pendingPackets' = [pendingPackets EXCEPT ![n][a] = pendingPackets[n][a]]
    BY <1>1 DEF TypeOK
  <2>3. requests' = [requests EXCEPT ![n][a] = requests[n][a]]
    BY <1>1 DEF TypeOK
  <2> QED
    BY <1>1, <2>1, <2>2, <2>3 DEF OneHop
<1>9. \A x \in Nodes, b \in Addresses : HopInv(x, b)'
  BY <1>7, <1>8, OneHopInv
<1> QED
  BY <1>1, <1>9 DEF ResolutionInv, AddressRecognized

(* A stop empties cache, timers and queues of a node at once; a start      *)
(* finds them empty.                                                       *)
LEMMA StopStartResolution ==
    ASSUME TypeOK, ResolutionInv, NEW n \in Nodes, Stop(n) \/ Start(n)
    PROVE  ResolutionInv'
<1>1. CASE Stop(n)
  <2>1. /\ isUp' = [isUp EXCEPT ![n] = FALSE]
        /\ arpCache' = [arpCache EXCEPT ![n] = << >>]
        /\ timers' = [timers EXCEPT ![n] = {}]
        /\ requests' = [requests EXCEPT ![n] = [a \in Addresses |-> 0]]
        /\ pendingPackets' = [pendingPackets EXCEPT ![n] = [a \in Addresses |-> << >>]]
        /\ UNCHANGED <<lan, assertFailed>>
    BY <1>1 DEF Stop, ArpStop
  <2>2. ASSUME NEW x \in Nodes, NEW b \in Addresses, x # n
        PROVE  HopInv(x, b)'
    <3>1. SameHop(x, b)
      BY <2>1, <2>2 DEF SameHop, Cached, TypeOK
    <3> QED
      BY <3>1, SameHopInv DEF ResolutionInv
  <2>3. ASSUME NEW b \in Addresses
        PROVE  HopInv(n, b)'
    <3>1. arpCache'[n] = << >> /\ timers'[n] = {}
      BY <2>1 DEF TypeOK
    <3>2. requests'[n][b] = 0 /\ requests'[n][b] <= RetryCount
      BY <2>1, RetryAssumption DEF TypeOK
    <3>3. pendingPackets'[n][b] = << >>
      BY <2>1 DEF TypeOK
    <3>4. b \notin Cached(n)' /\ ~Waiting(n, b)'
      BY <3>1 DEF Waiting, Cached
    <3> QED
      BY <3>1, <3>2, <3>3, <3>4 DEF HopInv
  <2> QED
    BY <2>1, <2>2, <2>3 DEF ResolutionInv, AddressRecognized
<1>2. CASE Start(n)
  <2>1. /\ ~isUp[n] /\ isUp' = [isUp EXCEPT ![n] = TRUE]
        /\ UNCHANGED <<arpCache, timers, lan, requests, pendingPackets>>
    BY <1>2 DEF Start, ArpStart
  <2>2. Cached(n) = {}
    <3>1. \A b \in Cached(n) : b \in Addresses
      BY CacheField
    <3>2. \A b \in Addresses : b \notin Cached(n)
      BY <2>1 DEF ResolutionInv, HopInv
    <3> QED
      BY <3>1, <3>2
  <2>3. ~assertFailed'
    BY <1>2, <2>2 DEF Start, ResolutionInv
  <2>4. ASSUME NEW x \in Nodes, NEW b \in Addresses, x # n
        PROVE  HopInv(x, b)'
    <3>1. SameHop(x, b)
      BY <2>1, <2>4 DEF SameHop, Cached, TypeOK
    <3> QED
      BY <3>1, SameHopInv DEF ResolutionInv
  <2>5. ASSUME NEW b \in Addresses
        PROVE  HopInv(n, b)'
    <3>1. HopInv(n, b)
      BY DEF ResolutionInv
    <3>2. b \notin Cached(n)' /\ (Waiting(n, b)' <=> Waiting(n, b))
      BY <2>1, <2>2 DEF Waiting, Cached
    <3> QED
      BY <2>1, <2>2, <3>1, <3>2 DEF HopInv, Waiting
  <2> QED
    BY <2>1, <2>3, <2>4, <2>5 DEF ResolutionInv, AddressRecognized
<1> QED
  BY <1>1, <1>2

(* Every step keeps cache, timers, queues and packets in agreement.        *)
LEMMA NextResolution == TypeOK /\ ResolutionInv /\ [Next]_vars => ResolutionInv'
<1> SUFFICES ASSUME TypeOK, ResolutionInv, [Next]_vars PROVE ResolutionInv'
  OBVIOUS
<1>1. ASSUME UNCHANGED <<isUp, arpCache, timers, requests, pendingPackets, assertFailed>>,
             lan' \subseteq lan
      PROVE  ResolutionInv'
  <2>1. ASSUME NEW x \in Nodes, NEW b \in Addresses
        PROVE  HopInv(x, b)'
    <3>1. SameHop(x, b)
      BY <1>1 DEF SameHop, Cached
    <3> QED
      BY <3>1, SameHopInv DEF ResolutionInv
  <2> QED
    BY <1>1, <2>1 DEF ResolutionInv, AddressRecognized
<1>2. ASSUME NEW p \in lan, Lose(p)
      PROVE  ResolutionInv'
  BY <1>1, <1>2 DEF Lose, LosePacket, ipVars
<1>3. CASE UNCHANGED vars
  BY <1>1, <1>3 DEF vars, arpVars, ipVars
<1> QED
  BY <1>2, <1>3, SendResolution, ReceiveResolution, TimeoutResolution,
     ExpireResolution, StopStartResolution DEF Next

-----------------------------------------------------------------------------
(* Order and destination of the frames.                                    *)

(* OrderInv, InOrder and RightNeighbour for one next hop.                  *)
SentInv(n, a) ==
    /\ \A i, j \in DOMAIN sent[n][a] : i < j => sent[n][a][i].id < sent[n][a][j].id
    /\ \A i \in DOMAIN sent[n][a] : sent[n][a][i].id < next[n][a]
    /\ a \in Addresses => QueueInv(n, a)
    /\ a \in Addresses => \A i \in DOMAIN sent[n][a] :
          sent[n][a][i].mac \in Nodes /\ AddressRecognized(sent[n][a][i].mac, a)

(* The three properties, taken apart by node and next hop.                 *)
LEMMA SentInvParts ==
    OrderInv /\ InOrder /\ RightNeighbour <=> \A n \in Nodes, a \in Hops : SentInv(n, a)
  BY DEF OrderInv, InOrder, RightNeighbour, SentInv, Hops

(* A next hop whose queue at most loses everything.                        *)
LEMMA SentInvSame ==
    ASSUME NEW n, NEW a, SentInv(n, a), sent'[n][a] = sent[n][a],
           next'[n][a] = next[n][a],
           a \in Addresses => \/ pendingPackets'[n][a] = pendingPackets[n][a]
                              \/ pendingPackets'[n][a] = << >>
    PROVE  SentInv(n, a)'
<1>1. ASSUME a \in Addresses PROVE QueueInv(n, a)'
  <2>1. CASE pendingPackets'[n][a] = pendingPackets[n][a]
    BY <1>1, <2>1 DEF SentInv, QueueInv
  <2>2. CASE pendingPackets'[n][a] = << >>
    BY <2>2 DEF QueueInv
  <2> QED
    BY <1>1, <2>1, <2>2
<1> QED
  BY <1>1 DEF SentInv, AddressRecognized

(* Frames of a sorted queue, behind frames that are all older.             *)
LEMMA SortedBehind ==
    ASSUME NEW s \in Seq(Frame), NEW q \in Seq(Nat),
           NEW m \in Nodes \cup {Broadcast}, NEW bound \in Nat,
           \A i, j \in DOMAIN s : i < j => s[i].id < s[j].id,
           \A i, j \in DOMAIN q : i < j => q[i] < q[j],
           \A i \in DOMAIN s, j \in DOMAIN q : s[i].id < q[j],
           \A i \in DOMAIN s : s[i].id < bound,
           \A i \in DOMAIN q : q[i] < bound
    PROVE  LET t == s \o Frames(q, m) IN
           /\ \A i, j \in DOMAIN t : i < j => t[i].id < t[j].id
           /\ \A i \in DOMAIN t : t[i].id < bound
           /\ \A i \in DOMAIN t : \/ i \in DOMAIN s /\ t[i] = s[i]
                                  \/ t[i].mac = m
<1> DEFINE t == s \o Frames(q, m)
<1>1. /\ Len(s) \in Nat /\ Len(q) \in Nat
      /\ DOMAIN t = 1..(Len(s) + Len(q))
      /\ \A i \in 1..(Len(s) + Len(q)) :
            t[i] = IF i <= Len(s) THEN s[i]
                   ELSE [id |-> q[i - Len(s)], mac |-> m]
  BY FramesBehind
<1>2. DOMAIN s = 1..Len(s) /\ DOMAIN q = 1..Len(q)
  BY LenProperties
<1> HIDE DEF t
<1>3. ASSUME NEW i \in DOMAIN t
      PROVE  \/ i \in DOMAIN s /\ t[i] = s[i]
             \/ /\ i > Len(s) /\ i - Len(s) \in DOMAIN q
                /\ t[i].id = q[i - Len(s)] /\ t[i].mac = m
  <2>1. CASE i <= Len(s)
    BY <1>1, <1>2, <2>1
  <2>2. CASE ~(i <= Len(s))
    BY <1>1, <1>2, <2>2
  <2> QED
    BY <2>1, <2>2
<1>4. ASSUME NEW i \in DOMAIN t, NEW j \in DOMAIN t, i < j
      PROVE  t[i].id < t[j].id
  <2>1. i \in Nat /\ j \in Nat
    BY <1>1
  <2>2. CASE j \in DOMAIN s /\ t[j] = s[j]
    <3>1. i \in DOMAIN s /\ t[i] = s[i]
      BY <1>1, <1>2, <1>4, <2>1, <2>2
    <3> QED
      BY <1>4, <2>2, <3>1
  <2>3. CASE j > Len(s) /\ j - Len(s) \in DOMAIN q /\ t[j].id = q[j - Len(s)]
    <3>1. CASE i \in DOMAIN s /\ t[i] = s[i]
      BY <2>3, <3>1
    <3>2. CASE i > Len(s) /\ i - Len(s) \in DOMAIN q /\ t[i].id = q[i - Len(s)]
      <4>1. i - Len(s) < j - Len(s)
        BY <1>1, <1>4, <2>1
      <4> QED
        BY <2>3, <3>2, <4>1
    <3> QED
      BY <1>3, <3>1, <3>2
  <2> QED
    BY <1>3, <2>2, <2>3
<1>5. ASSUME NEW i \in DOMAIN t PROVE t[i].id < bound
  BY <1>3
<1> QED
  BY <1>3, <1>4, <1>5 DEF t

(* A datagram that waits goes behind those that wait already.              *)
LEMMA SortedQueue ==
    ASSUME TypeOK, NEW n \in Nodes, NEW a \in Addresses,
           NEW k \in 1..MaxFragments, next[n][a] + k - 1 <= MaxFrames[n][a],
           SentInv(n, a),
           pendingPackets'[n][a] = pendingPackets[n][a] \o Fragments(n, a, k),
           next'[n][a] = next[n][a] + k, sent'[n][a] = sent[n][a]
    PROVE  SentInv(n, a)'
<1> DEFINE q == pendingPackets[n][a]
           f == Fragments(n, a, k)
           t == q \o f
           s == sent[n][a]
<1>1. q \in Seq(Nat) /\ next[n][a] \in Nat /\ s \in Seq(Frame) /\ k \in Nat /\ a \in Hops
  BY DEF TypeOK, Hops
<1>2. /\ f \in Seq(Nat) /\ Len(f) = k
      /\ \A i \in 1..k : f[i] = next[n][a] + i - 1
  BY <1>1, FragmentNumbers
<1>3. /\ Len(q) \in Nat /\ DOMAIN q = 1..Len(q)
      /\ \A i \in DOMAIN q : q[i] \in Nat
  BY <1>1, LenProperties, ElementOfSeq
<1>4. \A i \in DOMAIN s : s[i].id \in Nat
  <2>1. \A i \in DOMAIN s : s[i] \in Frame
    BY <1>1, LenProperties, ElementOfSeq
  <2> QED
    BY <2>1 DEF Frame
<1>5. /\ t \in Seq(Nat) /\ Len(t) = Len(q) + k
      /\ \A i \in 1..(Len(q) + k) : t[i] = IF i <= Len(q) THEN q[i] ELSE f[i - Len(q)]
  <2> HIDE DEF q, f
  <2>1. /\ t \in Seq(Nat) /\ Len(t) = Len(q) + Len(f)
        /\ \A i \in 1..(Len(q) + Len(f)) :
              t[i] = IF i <= Len(q) THEN q[i] ELSE f[i - Len(q)]
    BY <1>1, <1>2, ConcatProperties
  <2> QED
    BY <1>2, <2>1
<1>6. DOMAIN t = 1..(Len(q) + k)
  BY <1>5, LenProperties
<1>7. /\ \A i, j \in DOMAIN q : i < j => q[i] < q[j]
      /\ \A i \in DOMAIN q : q[i] < next[n][a]
      /\ \A i \in DOMAIN s, j \in DOMAIN q : s[i].id < q[j]
      /\ \A i \in DOMAIN s : s[i].id < next[n][a]
  BY DEF SentInv, QueueInv
<1>8. pendingPackets'[n][a] = t /\ next'[n][a] = next[n][a] + k /\ sent'[n][a] = s
  OBVIOUS
<1> HIDE DEF q, f, t, s
<1>9. ASSUME NEW i \in DOMAIN t
      PROVE  \/ i \in DOMAIN q /\ t[i] = q[i]
             \/ i > Len(q) /\ t[i] = next[n][a] + (i - Len(q)) - 1 /\ i - Len(q) \in 1..k
  <2>1. CASE i <= Len(q)
    BY <1>3, <1>5, <1>6, <2>1
  <2>2. CASE ~(i <= Len(q))
    <3>1. i - Len(q) \in 1..k
      BY <1>1, <1>3, <1>6, <2>2
    <3>2. t[i] = f[i - Len(q)]
      BY <1>5, <1>6, <2>2
    <3>3. f[i - Len(q)] = next[n][a] + (i - Len(q)) - 1
      BY <1>2, <3>1
    <3>4. i \in Nat /\ i > Len(q)
      BY <1>1, <1>3, <1>6, <2>2
    <3> QED
      BY <3>1, <3>2, <3>3, <3>4
  <2> QED
    BY <2>1, <2>2
<1>10. ASSUME NEW i \in DOMAIN t, NEW j \in DOMAIN t, i < j
       PROVE  t[i] < t[j]
  <2>1. i \in Nat /\ j \in Nat
    BY <1>1, <1>3, <1>6
  <2>2. CASE j \in DOMAIN q /\ t[j] = q[j]
    <3>1. i \in DOMAIN q
      BY <1>3, <1>6, <1>10, <2>1, <2>2
    <3>2. t[i] = q[i]
      BY <1>3, <1>9, <2>1, <3>1
    <3> QED
      BY <1>7, <1>10, <2>2, <3>1, <3>2
  <2>3. CASE j > Len(q) /\ t[j] = next[n][a] + (j - Len(q)) - 1
    <3>1. CASE i \in DOMAIN q /\ t[i] = q[i]
      <4>1. t[i] < next[n][a] /\ t[i] \in Nat
        BY <1>3, <1>7, <3>1
      <4> QED
        BY <1>1, <1>3, <2>1, <2>3, <4>1
    <3>2. CASE i > Len(q) /\ t[i] = next[n][a] + (i - Len(q)) - 1
      BY <1>1, <1>3, <1>10, <2>1, <2>3, <3>2
    <3> QED
      BY <1>9, <3>1, <3>2
  <2> QED
    BY <1>9, <2>2, <2>3
<1>11. ASSUME NEW i \in DOMAIN t
       PROVE  t[i] < next[n][a] + k
  <2>1. CASE i \in DOMAIN q /\ t[i] = q[i]
    <3>1. q[i] < next[n][a] /\ q[i] \in Nat
      BY <1>3, <1>7, <2>1
    <3> QED
      BY <1>1, <2>1, <3>1
  <2>2. CASE i > Len(q) /\ t[i] = next[n][a] + (i - Len(q)) - 1 /\ i - Len(q) \in 1..k
    BY <1>1, <1>3, <1>6, <2>2
  <2> QED
    BY <1>9, <2>1, <2>2
<1>12. ASSUME NEW i \in DOMAIN s, NEW j \in DOMAIN t
       PROVE  s[i].id < t[j]
  <2>1. CASE j \in DOMAIN q /\ t[j] = q[j]
    BY <1>7, <2>1
  <2>2. CASE j > Len(q) /\ t[j] = next[n][a] + (j - Len(q)) - 1 /\ j - Len(q) \in 1..k
    <3>1. s[i].id < next[n][a] /\ s[i].id \in Nat
      BY <1>4, <1>7
    <3>2. next[n][a] \in Nat /\ j - Len(q) \in 1..k
      BY <1>1, <2>2
    <3>3. t[j] >= next[n][a] /\ t[j] \in Int
      BY <2>2, <3>2
    <3> QED
      BY <3>1, <3>2, <3>3
  <2> QED
    BY <1>9, <2>1, <2>2
<1>13. \A i \in DOMAIN s : s[i].id < next[n][a] + k
  BY <1>1, <1>4, <1>7
<1>14. QueueInv(n, a)'
  BY <1>8, <1>10, <1>11, <1>12 DEF QueueInv
<1> QED
  BY <1>8, <1>13, <1>14 DEF SentInv, AddressRecognized, s

(* sendDatagramToOutput() and arpResolutionCompleted() send in order.      *)
LEMMA SendOrder ==
    ASSUME TypeOK, ResolutionInv, \A x \in Nodes, b \in Hops : SentInv(x, b),
           NEW n \in Nodes, NEW a \in Hops, NEW k \in 1..MaxFragments,
           SendDatagram(n, a, k)
    PROVE  \A x \in Nodes, b \in Hops : SentInv(x, b)'
<1> DEFINE f == Fragments(n, a, k)
           m == NextHopMac(n, a)
<1>1. next' = [next EXCEPT ![n][a] = @ + k] /\ next[n][a] + k - 1 <= MaxFrames[n][a]
  BY DEF SendDatagram
<1>2. next'[n][a] = next[n][a] + k /\ next[n][a] \in Nat \ {0} /\ k \in Nat \ {0}
  BY <1>1 DEF TypeOK
<1>3. ASSUME NEW x \in Nodes, NEW b \in Hops, x # n \/ b # a
      PROVE  SentInv(x, b)'
  <2>1. next'[x][b] = next[x][b]
    BY <1>1, <1>3 DEF TypeOK
  <2>2. sent'[x][b] = sent[x][b]
    <3>1. CASE m = Unspecified
      BY <3>1 DEF SendDatagram
    <3>2. CASE m # Unspecified
      <4>1. sent' = [sent EXCEPT ![n][a] = @ \o Frames(f, m)]
        BY <3>2 DEF SendDatagram
      <4> QED
        BY <1>3, <4>1 DEF TypeOK
    <3> QED
      BY <3>1, <3>2
  <2>3. b \in Addresses => pendingPackets'[x][b] = pendingPackets[x][b]
    <3>1. CASE m = Unspecified
      <4>1. pendingPackets' = [pendingPackets EXCEPT ![n][a] = @ \o f]
        BY <3>1 DEF SendDatagram
      <4> QED
        BY <1>3, <4>1 DEF TypeOK
    <3>2. CASE m # Unspecified
      BY <3>2 DEF SendDatagram
    <3> QED
      BY <3>1, <3>2
  <2> QED
    BY <2>1, <2>2, <2>3, SentInvSame
<1>4. SentInv(n, a)'
  <2>1. SentInv(n, a)
    OBVIOUS
  <2>2. CASE m = Unspecified
    <3>1. a \in Addresses
      BY <2>2, NextHopMacTypes
    <3>2. sent'[n][a] = sent[n][a]
      BY <2>2 DEF SendDatagram
    <3>3. pendingPackets'[n][a] = pendingPackets[n][a] \o f
      <4>1. pendingPackets' = [pendingPackets EXCEPT ![n][a] = @ \o f]
        BY <2>2 DEF SendDatagram
      <4> QED
        BY <3>1, <4>1 DEF TypeOK
    <3> QED
      BY <1>1, <1>2, <2>1, <3>1, <3>2, <3>3, SortedQueue
  <2>3. CASE m # Unspecified
    <3>1. sent'[n][a] = sent[n][a] \o Frames(f, m)
      <4>1. sent' = [sent EXCEPT ![n][a] = @ \o Frames(f, m)]
        BY <2>3 DEF SendDatagram
      <4> QED
        BY <4>1 DEF TypeOK
    <3>2. m \in Nodes \cup {Broadcast}
      BY <2>3, NextHopMacTypes
    <3>3. /\ f \in Seq(Nat) /\ DOMAIN f = 1..k
          /\ \A i \in 1..k : f[i] = next[n][a] + i - 1
      BY <1>1, FragmentNumbers, LenProperties
    <3>4. /\ sent[n][a] \in Seq(Frame)
          /\ \A i \in DOMAIN sent[n][a] : sent[n][a][i].id \in Nat
      <4>1. sent[n][a] \in Seq(Frame)
        BY DEF TypeOK
      <4>2. \A i \in DOMAIN sent[n][a] : sent[n][a][i] \in Frame
        BY <4>1, LenProperties, ElementOfSeq
      <4> QED
        BY <4>1, <4>2 DEF Frame
    <3>5. /\ \A i, j \in DOMAIN sent[n][a] : i < j => sent[n][a][i].id < sent[n][a][j].id
          /\ \A i \in DOMAIN sent[n][a] : sent[n][a][i].id < next[n][a]
      BY <2>1 DEF SentInv
    <3> HIDE DEF f, m
    <3>6. /\ \A i, j \in DOMAIN f : i < j => f[i] < f[j]
          /\ \A i \in DOMAIN f : f[i] < next[n][a] + k
      BY <1>2, <3>3
    <3>7. ASSUME NEW i \in DOMAIN sent[n][a], NEW j \in DOMAIN f
          PROVE  sent[n][a][i].id < f[j]
      <4>1. sent[n][a][i].id < next[n][a] /\ sent[n][a][i].id \in Nat
        BY <3>4, <3>5
      <4>2. f[j] = next[n][a] + j - 1 /\ j \in Nat \ {0}
        BY <1>2, <3>3
      <4> QED
        BY <1>2, <4>1, <4>2
    <3>8. \A i \in DOMAIN sent[n][a] : sent[n][a][i].id < next[n][a] + k
      BY <1>2, <3>4, <3>5
    <3>9. next[n][a] + k \in Nat
      BY <1>2
    <3>10. LET t == sent[n][a] \o Frames(f, m) IN
           /\ \A i, j \in DOMAIN t : i < j => t[i].id < t[j].id
           /\ \A i \in DOMAIN t : t[i].id < next[n][a] + k
           /\ \A i \in DOMAIN t : \/ i \in DOMAIN sent[n][a] /\ t[i] = sent[n][a][i]
                                  \/ t[i].mac = m
      BY <3>2, <3>3, <3>4, <3>5, <3>6, <3>7, <3>8, <3>9, SortedBehind
    <3>11. ASSUME a \in Addresses
           PROVE  /\ m \in Nodes /\ AddressRecognized(m, a)
                  /\ pendingPackets'[n][a] = << >>
      <4>1. a \in Cached(n) /\ ~Waiting(n, a) /\ m = arpCache[n][a].mac
        BY <2>3, <3>11, BroadcastAssumption
           DEF m, NextHopMac, MACAddressFor, Waiting
      <4>2. HopInv(n, a)
        BY <3>11 DEF ResolutionInv
      <4>3. pendingPackets' = pendingPackets
        BY <2>3 DEF SendDatagram, m
      <4> QED
        BY <4>1, <4>2, <4>3 DEF HopInv
    <3>12. a \in Addresses => QueueInv(n, a)'
      BY <3>11 DEF QueueInv
    <3>13. ASSUME a \in Addresses, NEW i \in DOMAIN sent'[n][a]
           PROVE  /\ sent'[n][a][i].mac \in Nodes
                  /\ AddressRecognized(sent'[n][a][i].mac, a)
      BY <2>1, <3>1, <3>10, <3>11, <3>13 DEF SentInv
    <3> QED
      BY <1>2, <3>1, <3>10, <3>12, <3>13 DEF SentInv, AddressRecognized
  <2> QED
    BY <2>2, <2>3
<1> QED
  BY <1>3, <1>4

(* A received ARP packet lets the queue go in order, or nothing.           *)
LEMMA ReceiveOrder ==
    ASSUME TypeOK, ResolutionInv, \A x \in Nodes, b \in Hops : SentInv(x, b),
           NEW n \in Nodes, NEW p \in lan, Receive(n, p)
    PROVE  \A x \in Nodes, b \in Hops : SentInv(x, b)'
<1>1. next' = next
  BY DEF Receive
<1>2. CASE ~(isUp[n] /\ Merges(n, p))
  <2>1. sent' = sent /\ pendingPackets' = pendingPackets
    BY <1>2 DEF Receive
  <2> QED
    BY <1>1, <2>1, SentInvSame
<1>3. CASE isUp[n] /\ Merges(n, p)
  <2> DEFINE a == p.sip
             m == p.smac
             q == pendingPackets[n][a]
             s == sent[n][a]
  <2>1. a \in Addresses /\ a \in Hops /\ m \in Nodes /\ AddressRecognized(m, a)
    BY DEF TypeOK, Packet, Hops, ResolutionInv
  <2>2. /\ sent' = [sent EXCEPT ![n][a] = @ \o Frames(q, m)]
        /\ pendingPackets' = [pendingPackets EXCEPT ![n][a] = << >>]
    BY <1>3 DEF Receive, ArpResolutionCompleted
  <2> HIDE DEF a, m
  <2>3. ASSUME NEW x \in Nodes, NEW b \in Hops, x # n \/ b # a
        PROVE  SentInv(x, b)'
    <3>1. sent'[x][b] = sent[x][b]
      BY <2>1, <2>2, <2>3 DEF TypeOK
    <3>2. b \in Addresses => pendingPackets'[x][b] = pendingPackets[x][b]
      BY <2>1, <2>2, <2>3 DEF TypeOK
    <3> QED
      BY <1>1, <3>1, <3>2, SentInvSame
  <2>4. SentInv(n, a)'
    <3>1. sent'[n][a] = s \o Frames(q, m) /\ pendingPackets'[n][a] = << >>
      BY <2>1, <2>2 DEF TypeOK
    <3>2. SentInv(n, a)
      BY <2>1
    <3>3. q \in Seq(Nat) /\ s \in Seq(Frame) /\ next[n][a] \in Nat
      BY <2>1 DEF TypeOK
    <3>4. /\ \A i, j \in DOMAIN s : i < j => s[i].id < s[j].id
          /\ \A i, j \in DOMAIN q : i < j => q[i] < q[j]
          /\ \A i \in DOMAIN s, j \in DOMAIN q : s[i].id < q[j]
          /\ \A i \in DOMAIN s : s[i].id < next[n][a]
          /\ \A i \in DOMAIN q : q[i] < next[n][a]
      BY <2>1, <3>2 DEF SentInv, QueueInv
    <3>5. \A i \in DOMAIN s : s[i].mac \in Nodes /\ AddressRecognized(s[i].mac, a)
      BY <2>1, <3>2 DEF SentInv
    <3> HIDE DEF q, s
    <3>6. LET t == s \o Frames(q, m) IN
          /\ \A i, j \in DOMAIN t : i < j => t[i].id < t[j].id
          /\ \A i \in DOMAIN t : t[i].id < next[n][a]
          /\ \A i \in DOMAIN t : \/ i \in DOMAIN s /\ t[i] = s[i]
                                 \/ t[i].mac = m
      BY <2>1, <3>3, <3>4, SortedBehind
    <3>7. QueueInv(n, a)'
      BY <3>1 DEF QueueInv
    <3>8. ASSUME NEW i \in DOMAIN sent'[n][a]
          PROVE  /\ sent'[n][a][i].mac \in Nodes
                 /\ AddressRecognized(sent'[n][a][i].mac, a)
      BY <2>1, <3>1, <3>5, <3>6
    <3> QED
      BY <1>1, <3>1, <3>6, <3>7, <3>8 DEF SentInv, AddressRecognized
  <2> QED
    BY <2>3, <2>4
<1> QED
  BY <1>2, <1>3

(* Every step keeps order and destinations: the others send nothing.       *)
LEMMA NextOrder ==
    ASSUME TypeOK, ResolutionInv, OrderInv, InOrder, RightNeighbour, [Next]_vars
    PROVE  (OrderInv /\ InOrder /\ RightNeighbour)'
<1>1. \A x \in Nodes, b \in Hops : SentInv(x, b)
  BY SentInvParts
<1>2. ASSUME UNCHANGED <<sent, next>>,
             \A x \in Nodes, b \in Addresses :
                \/ pendingPackets'[x][b] = pendingPackets[x][b]
                \/ pendingPackets'[x][b] = << >>
      PROVE  \A x \in Nodes, b \in Hops : SentInv(x, b)'
  BY <1>1, <1>2, SentInvSame
<1>3. ASSUME NEW n \in Nodes, NEW a \in Addresses, Timeout(n, a)
      PROVE  \A x \in Nodes, b \in Hops : SentInv(x, b)'
  <2>1. UNCHANGED <<sent, next>>
    BY <1>3 DEF Timeout
  <2>2. \/ pendingPackets' = pendingPackets
        \/ pendingPackets' = [pendingPackets EXCEPT ![n][a] = << >>]
    BY <1>3 DEF Timeout, ArpResolutionTimedOut
  <2>3. ASSUME NEW x \in Nodes, NEW b \in Addresses
        PROVE  \/ pendingPackets'[x][b] = pendingPackets[x][b]
               \/ pendingPackets'[x][b] = << >>
    <3>1. CASE pendingPackets' = pendingPackets
      BY <3>1
    <3>2. CASE pendingPackets' = [pendingPackets EXCEPT ![n][a] = << >>]
      BY <3>2 DEF TypeOK
    <3> QED
      BY <2>2, <3>1, <3>2
  <2> QED
    BY <1>2, <2>1, <2>3
<1>4. ASSUME NEW n \in Nodes, Stop(n)
      PROVE  \A x \in Nodes, b \in Hops : SentInv(x, b)'
  <2>1. UNCHANGED <<sent, next>>
    BY <1>4 DEF Stop
  <2>2. pendingPackets' = [pendingPackets EXCEPT ![n] = [a \in Addresses |-> << >>]]
    BY <1>4 DEF Stop
  <2>3. ASSUME NEW x \in Nodes, NEW b \in Addresses
        PROVE  \/ pendingPackets'[x][b] = pendingPackets[x][b]
               \/ pendingPackets'[x][b] = << >>
    BY <2>2 DEF TypeOK
  <2> QED
    BY <1>2, <2>1, <2>3
<1>5. ASSUME UNCHANGED <<sent, next, pendingPackets>>
      PROVE  \A x \in Nodes, b \in Hops : SentInv(x, b)'
  BY <1>2, <1>5
<1>6. ASSUME NEW n \in Nodes, Start(n)
      PROVE  \A x \in Nodes, b \in Hops : SentInv(x, b)'
  BY <1>5, <1>6 DEF Start
<1>7. ASSUME NEW n \in Nodes, NEW a \in Addresses, Expire(n, a)
      PROVE  \A x \in Nodes, b \in Hops : SentInv(x, b)'
  BY <1>5, <1>7 DEF Expire, ipVars
<1>8. ASSUME NEW p \in lan, Lose(p)
      PROVE  \A x \in Nodes, b \in Hops : SentInv(x, b)'
  BY <1>5, <1>8 DEF Lose, ipVars
<1>9. ASSUME UNCHANGED vars
      PROVE  \A x \in Nodes, b \in Hops : SentInv(x, b)'
  BY <1>5, <1>9 DEF vars, ipVars
<1>10. \A x \in Nodes, b \in Hops : SentInv(x, b)'
  BY <1>1, <1>3, <1>4, <1>6, <1>7, <1>8, <1>9, SendOrder, ReceiveOrder DEF Next
<1> QED
  BY <1>10 DEF OrderInv, InOrder, RightNeighbour, SentInv, Hops, AddressRecognized

-----------------------------------------------------------------------------
(* The theorems.                                                           *)

(* Nothing waits and nothing was sent at the start.                        *)
LEMMA InitInv == Init => IInv
<1> SUFFICES ASSUME Init PROVE IInv
  OBVIOUS
<1>1. TypeOK
  BY InitTypes
<1>2. ASSUME NEW n \in Nodes, NEW a \in Addresses
      PROVE  HopInv(n, a)
  <2>1. a \notin Cached(n) /\ ~Waiting(n, a)
    BY DEF Init, ArpInit, Cached, Waiting
  <2>2. requests[n][a] = 0 /\ requests[n][a] <= RetryCount
    BY RetryAssumption DEF Init, ArpInit
  <2>3. a \notin timers[n] /\ pendingPackets[n][a] = << >>
    BY DEF Init, ArpInit
  <2> QED
    BY <2>1, <2>2, <2>3 DEF HopInv
<1>3. ResolutionInv
  BY <1>2 DEF Init, ArpInit, ResolutionInv
<1>4. ASSUME NEW n \in Nodes, NEW a \in Hops
      PROVE  sent[n][a] = << >> /\ (a \in Addresses => pendingPackets[n][a] = << >>)
  BY DEF Init
<1>5. \A n \in Nodes, a \in Hops : SentInv(n, a)
  BY <1>4 DEF SentInv, QueueInv
<1> QED
  BY <1>1, <1>3, <1>5, SentInvParts DEF IInv

(* IInv is an invariant: caches, timers and queues agree, and fragments    *)
(* are numbered without overtaking.                                        *)
THEOREM Invariance == Spec => []IInv
<1>1. IInv /\ [Next]_vars => IInv'
  BY NextTypes, NextResolution, NextOrder DEF IInv
<1> QED
  BY InitInv, <1>1, PTL DEF Spec

(* Datagrams wait in pendingPackets exactly while ARP resolves their next  *)
(* hop, and no ASSERT of ARP.cc or IPv4.cc about it fails.                 *)
THEOREM QueuesMatch == Spec => []QueueMatchesResolution
<1>1. IInv => QueueMatchesResolution
  BY DEF IInv, ResolutionInv, HopInv, QueueMatchesResolution
<1> QED
  BY Invariance, <1>1, PTL

(* A request timer is live exactly for the pending entries of a cache.     *)
THEOREM TimersMatch == Spec => []TimerIffPending
<1>1. ASSUME IInv, NEW n \in Nodes
      PROVE  timers[n] = {a \in Cached(n) : arpCache[n][a].pending}
  <2>1. timers[n] \subseteq Addresses
    BY <1>1 DEF IInv, TypeOK
  <2>2. \A a \in Cached(n) : a \in Addresses
    BY <1>1, CacheField DEF IInv
  <2>3. \A a \in Addresses : a \in timers[n] <=> Waiting(n, a)
    BY <1>1 DEF IInv, ResolutionInv, HopInv
  <2> QED
    BY <2>1, <2>2, <2>3 DEF Waiting
<1>2. IInv => TimerIffPending
  BY <1>1 DEF TimerIffPending
<1> QED
  BY Invariance, <1>2, PTL

(* Datagrams leave for a next hop in the order they were sent.             *)
THEOREM FramesInOrder == Spec => []InOrder
<1>1. IInv => InOrder
  BY DEF IInv
<1> QED
  BY Invariance, <1>1, PTL

(* A frame goes to a node that recognizes its next hop.                    *)
THEOREM FramesToNeighbour == Spec => []RightNeighbour
<1>1. IInv => RightNeighbour
  BY DEF IInv
<1> QED
  BY Invariance, <1>1, PTL

(* Only the last timeout of a resolution and a stop take entries away.     *)
LEMMA EntriesLeave ==
    ASSUME TypeOK, [Next]_vars, NEW n \in Nodes, NEW a \in Cached(n),
           a \notin Cached(n)', isUp'[n]
    PROVE  a \in timers[n] /\ ResolutionFails(n, a)
<1> SUFFICES ASSUME ~(a \in timers[n] /\ ResolutionFails(n, a))
             PROVE  FALSE
  OBVIOUS
<1>1. ASSUME NEW x \in Nodes, NEW b \in Addresses, NEW e \in Entry,
             arpCache' = [arpCache EXCEPT ![x] = WithEntry(x, b, e)]
      PROVE  FALSE
  <2>1. DOMAIN WithEntry(x, b, e) = Cached(x) \cup {b}
    BY CacheWith
  <2> QED
    BY <1>1, <2>1 DEF TypeOK, Cached
<1>2. ASSUME NEW x \in Nodes, NEW b \in Cached(x), NEW e \in Entry,
             arpCache' = [arpCache EXCEPT ![x] = [arpCache[x] EXCEPT ![b] = e]]
      PROVE  FALSE
  <2>1. DOMAIN [arpCache[x] EXCEPT ![b] = e] = Cached(x)
    BY CacheField
  <2> QED
    BY <1>2, <2>1 DEF TypeOK, Cached
<1>3. ASSUME arpCache' = arpCache PROVE FALSE
  BY <1>3 DEF Cached
<1>4. ASSUME NEW x \in Nodes, NEW b \in Hops, NEW k \in 1..MaxFragments,
             SendDatagram(x, b, k)
      PROVE  FALSE
  <2>1. CASE NextHopMac(x, b) = Unspecified
    <3> DEFINE e == [pending |-> TRUE, mac |-> Unspecified, numRetries |-> 0,
                     fresh |-> FALSE]
    <3>1. b \in Addresses /\ StartAddressResolution(x, b)
      BY <1>4, <2>1, NextHopMacTypes DEF SendDatagram
    <3>2. e \in Entry
      BY RetryAssumption DEF Entry
    <3>3. \/ arpCache' = arpCache
          \/ arpCache' = [arpCache EXCEPT ![x] = WithEntry(x, b, e)]
      BY <3>1 DEF StartAddressResolution
    <3> HIDE DEF e
    <3> QED
      BY <1>1, <1>3, <3>1, <3>2, <3>3
  <2>2. CASE NextHopMac(x, b) # Unspecified
    BY <1>3, <1>4, <2>2 DEF SendDatagram, arpVars
  <2> QED
    BY <2>1, <2>2
<1>5. ASSUME NEW x \in Nodes, NEW p \in lan, Receive(x, p)
      PROVE  FALSE
  <2> DEFINE e == [pending |-> FALSE, mac |-> p.smac, numRetries |-> 0,
                   fresh |-> TRUE]
             b == p.sip
  <2>1. b \in Addresses /\ e \in Entry
    BY RetryAssumption DEF TypeOK, Packet, Entry
  <2>2. \/ arpCache' = arpCache
        \/ arpCache' = [arpCache EXCEPT ![x] = WithEntry(x, b, e)]
    BY <1>5 DEF Receive, ProcessARPPacket, UpdateARPCache
  <2> HIDE DEF b, e
  <2> QED
    BY <1>1, <1>3, <2>1, <2>2
<1>6. ASSUME NEW x \in Nodes, NEW b \in Addresses, Timeout(x, b)
      PROVE  FALSE
  <2>1. b \in timers[x]
    BY <1>6 DEF Timeout
  <2>2. CASE b \in Cached(x) /\ RetryRequest(x, b)
    <3> DEFINE e == [arpCache[x][b] EXCEPT !.numRetries = @ + 1]
    <3>1. e \in Entry
      BY <2>2, CacheField, RetryAssumption DEF RetryRequest, Entry
    <3>2. arpCache' = [arpCache EXCEPT ![x] = [arpCache[x] EXCEPT ![b] = e]]
      BY <2>2 DEF RetryRequest
    <3> HIDE DEF e
    <3> QED
      BY <1>2, <2>2, <3>1, <3>2
  <2>3. CASE b \in Cached(x) /\ ResolutionFails(x, b)
    <3> DEFINE c0 == Restrict(arpCache[x], Cached(x) \ {b})
    <3>1. x # n \/ b # a
      BY <2>1, <2>3
    <3>2. arpCache' = [arpCache EXCEPT ![x] = c0]
      BY <2>3 DEF ResolutionFails
    <3>3. DOMAIN c0 = Cached(x) \ {b}
      BY CacheWithout
    <3> HIDE DEF c0
    <3>4. a \in Cached(n)'
      <4>1. CASE x # n
        BY <3>2, <4>1 DEF TypeOK, Cached
      <4>2. CASE x = n
        BY <3>1, <3>2, <3>3, <4>2 DEF TypeOK, Cached
      <4> QED
        BY <4>1, <4>2
    <3> QED
      BY <3>4
  <2>4. CASE ~(isUp[x] /\ b \in Cached(x))
    BY <1>3, <1>6, <2>4 DEF Timeout, arpVars
  <2> QED
    BY <1>6, <2>2, <2>3, <2>4 DEF Timeout
<1>7. ASSUME NEW x \in Nodes, NEW b \in Addresses, Expire(x, b)
      PROVE  FALSE
  <2> DEFINE e == [arpCache[x][b] EXCEPT !.fresh = FALSE]
  <2>1. /\ b \in Cached(x)
        /\ arpCache' = [arpCache EXCEPT ![x] = [arpCache[x] EXCEPT ![b] = e]]
    BY <1>7 DEF Expire, EntryExpires
  <2>2. e \in Entry
    BY <2>1, CacheField DEF Entry
  <2> HIDE DEF e
  <2> QED
    BY <1>2, <2>1, <2>2
<1>8. ASSUME NEW p \in lan, Lose(p) PROVE FALSE
  BY <1>3, <1>8 DEF Lose, LosePacket
<1>9. ASSUME NEW x \in Nodes, Stop(x) PROVE FALSE
  BY <1>9 DEF Stop, ArpStop, TypeOK, Cached
<1>10. ASSUME NEW x \in Nodes, Start(x) PROVE FALSE
  BY <1>3, <1>10 DEF Start, ArpStart
<1>11. ASSUME UNCHANGED vars PROVE FALSE
  BY <1>3, <1>11 DEF vars, arpVars
<1> QED
  BY <1>4, <1>5, <1>6, <1>7, <1>8, <1>9, <1>10, <1>11 DEF Next

(* requestTimedOut() gives a resolution up after RetryCount requests and   *)
(* not before, and never sends more.                                       *)
THEOREM Retries == Spec => GivesUpAfterRetries
<1>1. ASSUME IInv, IInv', [Next]_vars, NEW n \in Nodes, NEW a \in Addresses
      PROVE  /\ requests'[n][a] <= RetryCount
             /\ Waiting(n, a) /\ isUp'[n] /\ a \notin DOMAIN arpCache'[n]
                   => requests[n][a] = RetryCount
  <2>1. requests'[n][a] <= RetryCount
    BY <1>1 DEF IInv, ResolutionInv, HopInv
  <2>2. ASSUME Waiting(n, a), isUp'[n], a \notin DOMAIN arpCache'[n]
        PROVE  requests[n][a] = RetryCount
    <3>1. a \in Cached(n) /\ a \notin Cached(n)'
      BY <2>2 DEF Waiting, Cached
    <3>2. ResolutionFails(n, a)
      BY <1>1, <2>2, <3>1, EntriesLeave DEF IInv
    <3>3. /\ requests[n][a] = arpCache[n][a].numRetries + 1
          /\ requests[n][a] <= RetryCount
      BY <1>1, <2>2 DEF IInv, ResolutionInv, HopInv
    <3>4. arpCache[n][a].numRetries \in Nat
      <4>1. arpCache[n][a] \in Entry
        BY <1>1, <3>1, CacheField DEF IInv
      <4> QED
        BY <4>1, RetryAssumption DEF Entry
    <3> QED
      BY <3>2, <3>3, <3>4, RetryAssumption DEF ResolutionFails
  <2> QED
    BY <2>1, <2>2
<1> DEFINE A == \A n \in Nodes, a \in Addresses :
                   /\ requests'[n][a] <= RetryCount
                   /\ Waiting(n, a) /\ isUp'[n] /\ a \notin DOMAIN arpCache'[n]
                         => requests[n][a] = RetryCount
<1>2. IInv /\ IInv' /\ [Next]_vars => [A]_vars
  BY <1>1
<1>3. Spec => [][A]_vars
  BY Invariance, <1>2, PTL DEF Spec
<1> QED
  BY <1>3 DEF GivesUpAfterRetries
=============================================================================

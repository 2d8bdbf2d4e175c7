----------------------------- MODULE TCPProofs -----------------------------
EXTENDS TCP, NumberTheorems, SequenceTheorems, TLAPS

(***************************************************************************)
(* The inductive invariant.  c is the connection of a host and n what its  *)
(* application has sent, p and m are those of its peer.                    *)
(***************************************************************************)
Connected == {"SYN_RCVD"} \cup Synchronized
Finishing == {"FIN_WAIT_1", "FIN_WAIT_2", "CLOSING", "LAST_ACK", "TIME_WAIT"}
AfterFin == {"CLOSE_WAIT", "LAST_ACK", "CLOSING", "TIME_WAIT"}

Fields ==
    {"state", "active", "iss", "snd_una", "snd_nxt", "snd_max", "bufferEnd", "rcv_nxt",
     "buffered", "send_fin", "snd_fin_seq", "fin_ack_rcvd", "rcv_fin_seq", "snd_cwnd",
     "dupacks", "afterRto", "rexmit_count", "syn_rexmit_count", "timers", "got", "assertFailed",
     "out", "ind", "event"}

Indications ==
    {"ESTABLISHED", "PEER_CLOSED", "CLOSED", "CONNECTION_RESET", "CONNECTION_REFUSED",
     "TIMED_OUT"}

IsConn(c) ==
    /\ DOMAIN c = Fields
    /\ c.state \in States /\ c.active \in BOOLEAN /\ c.iss \in Nat
    /\ c.snd_una \in Int /\ c.snd_nxt \in Int /\ c.snd_max \in Int /\ c.bufferEnd \in Int
    /\ c.rcv_nxt \in Int /\ c.buffered \in SUBSET [seq : Int, data : Int]
    /\ c.send_fin \in BOOLEAN /\ c.snd_fin_seq \in Int /\ c.fin_ack_rcvd \in BOOLEAN
    /\ c.rcv_fin_seq \in Int /\ c.snd_cwnd \in Int /\ c.dupacks \in Int
    /\ c.afterRto \in BOOLEAN /\ c.rexmit_count \in Int /\ c.syn_rexmit_count \in Int
    /\ c.timers \in SUBSET {"SYN", "ESTAB", "REXMIT", "2MSL"}
    /\ c.got \in Seq(Int) /\ c.assertFailed \in BOOLEAN /\ c.ind \in Seq(Indications)

Kinds == {{"SYN"}, {"SYN", "ACK"}, {"ACK"}, {"FIN", "ACK"}, {"RST"}, {"RST", "ACK"}}

IsSegment(s) == s \in [flags : Kinds, seq : Int, ack : Int, data : Int]

(* Between two events nothing is left to be sent or told.                  *)
AtRest(c) == BagToSet(c.out) = {} /\ c.ind = << >> /\ c.event = "IGNORE"

(* The send side.  The sequence numbers are in order, and the FIN comes    *)
(* after the last byte of the send queue.                                  *)
SendOrder(c, n) ==
    /\ c.iss <= c.snd_una /\ c.snd_una <= c.snd_nxt /\ c.snd_nxt <= c.snd_max
    /\ c.bufferEnd = c.iss + 1 + n /\ c.snd_max <= c.bufferEnd + 1
    /\ c.send_fin => c.snd_fin_seq = c.bufferEnd
    /\ c.snd_max = c.bufferEnd + 1 => c.send_fin
    /\ c.fin_ack_rcvd <=> c.snd_una = c.bufferEnd + 1

Unopened(c, n) ==
    /\ ~c.active /\ ~c.send_fin /\ n = 0 /\ c.timers = {}
    /\ c.snd_una = c.iss /\ c.snd_max <= c.iss + 1
    /\ c.got = << >> /\ c.buffered = {} /\ c.rcv_fin_seq = None

SynSent(c) ==
    /\ c.snd_una = c.iss /\ c.snd_nxt = c.iss + 1 /\ c.snd_max = c.iss + 1
    /\ c.timers \subseteq {"SYN", "ESTAB"}
    /\ c.got = << >> /\ c.buffered = {} /\ c.rcv_fin_seq = None

(* The retransmission timer runs while something is outstanding.           *)
Timed(c) == ("REXMIT" \in c.timers) <=> (c.snd_una # c.snd_max)

(* A CLOSE waits for the send queue only while there is data to be sent.   *)
FinWaits(c) == c.snd_max <= c.bufferEnd /\ (c.send_fin => c.snd_max < c.bufferEnd)

SendSide(c, n) ==
    /\ n \in Nat
    /\ SendOrder(c, IF c.state = "CLOSED" THEN 0 ELSE n)
    /\ c.state \in {"INIT", "LISTEN"} => Unopened(c, n)
    /\ c.state = "SYN_SENT" => SynSent(c) /\ ~c.send_fin /\ c.active
    /\ c.state = "SYN_RCVD" =>
          SynSent(c) /\ FinWaits(c) /\ (c.active \/ (n = 0 /\ ~c.send_fin))
    /\ c.state \in Synchronized =>
          /\ Timed(c) /\ c.iss < c.snd_max /\ c.timers \subseteq {"REXMIT", "2MSL"}
          /\ ("2MSL" \in c.timers) <=> (c.state = "TIME_WAIT")
    /\ c.state \in {"ESTABLISHED", "CLOSE_WAIT"} => c.iss < c.snd_una /\ FinWaits(c)
    /\ c.state \in Finishing =>
          /\ c.snd_max = c.bufferEnd + 1
          /\ c.fin_ack_rcvd <=> c.state \in {"FIN_WAIT_2", "TIME_WAIT"}
    /\ c.state = "CLOSED" => c.timers = {}

(* The socket's state k and the indications l so far.                      *)
Told == {<< >>, <<"ESTABLISHED">>, <<"ESTABLISHED", "PEER_CLOSED">>}
Problems == {"CONNECTION_RESET", "CONNECTION_REFUSED", "TIMED_OUT"}
Ended(l) ==
    \/ l \in Told
    \/ \E k \in Told, a \in Problems \cup {"CLOSED"} : l = Append(k, a)
    \/ \E k \in Told, a \in Problems : l = Append(Append(k, a), "CLOSED")

AppSide(c, k, l) ==
    /\ c.state = "INIT" => k = "BOUND"
    /\ c.state = "LISTEN" => k = "LISTENING"
    /\ c.state = "SYN_RCVD" => c.active \/ k = "LISTENING"
    /\ c.state \in {"TIME_WAIT", "CLOSED"} => k \in {"CLOSED", "SOCKERROR"}
    /\ c.state \in {"INIT", "LISTEN", "SYN_SENT", "SYN_RCVD"} => l = << >>
    /\ c.state = "ESTABLISHED" => l = <<"ESTABLISHED">>
    /\ c.state \in {"FIN_WAIT_1", "FIN_WAIT_2", "CLOSING"} => l \in {<< >>, <<"ESTABLISHED">>}
    /\ c.state \in {"CLOSE_WAIT", "LAST_ACK"} => l = <<"ESTABLISHED", "PEER_CLOSED">>
    /\ c.state = "TIME_WAIT" => l \in {<<"CLOSED">>, <<"ESTABLISHED", "CLOSED">>}
    /\ c.state = "CLOSED" => Ended(l)

(* What the peer may have received.  A closed connection remembers nothing *)
(* that would contradict it.                                               *)
Closed(p) == p.state = "CLOSED"
Reached(p, seq) == Closed(p) \/ seq <= p.snd_max
EndOf(p, m) == p.iss + 1 + m
FinSent(p, m) == Closed(p) \/ (p.send_fin /\ EndOf(p, m) < p.snd_max)

(* The receive side: the data, and then the FIN, of the peer's connection, *)
(* or the SYN of an earlier attempt of it, after which nothing can come.   *)
GotSide(c, m) == (\A i \in DOMAIN c.got : c.got[i] = i) /\ Len(c.got) <= m

Buffered(c, p, m) ==
    \A b \in c.buffered :
        /\ b.data = b.seq - p.iss /\ b.data \in 1..m /\ Reached(p, b.seq + 1)
        /\ c.rcv_nxt < b.seq /\ b.seq < c.rcv_nxt + RcvWnd

BeforeFin(c, p) ==
    c.rcv_nxt = p.iss + 1 + Len(c.got) /\ c.state \notin AfterFin /\ Reached(p, c.rcv_nxt)

PastFin(c, p, m) ==
    /\ c.rcv_nxt = EndOf(p, m) + 1 /\ Len(c.got) = m /\ FinSent(p, m)
    /\ c.state \notin {"SYN_RCVD", "ESTABLISHED"}

Behind(c, p) ==
    /\ c.rcv_nxt + ISSStep <= p.iss + 1
    /\ c.got = << >> /\ c.buffered = {} /\ c.state \notin AfterFin

ReceiveSide(c, p, m) ==
    c.state \in Connected =>
        /\ p.state # "INIT"
        /\ Buffered(c, p, m)
        /\ BeforeFin(c, p) \/ PastFin(c, p, m) \/ Behind(c, p)
        /\ c.rcv_fin_seq = None \/ (c.rcv_fin_seq = EndOf(p, m) /\ FinSent(p, m))

(* c may have acknowledged a to its peer p.                                *)
Acknowledged(c, p, a) ==
    \/ Closed(c)
    \/ c.state \in Connected /\ a <= c.rcv_nxt
    \/ c.state = "LISTEN" /\ a <= p.iss + 1

AckSide(c, p) == c.snd_una # c.iss => Acknowledged(p, c, c.snd_una)

(* An acknowledgement that p can get: of its present attempt or of one     *)
(* whose sequence numbers are too far back to be mistaken for it.          *)
AckFits(a, p) == (a > p.iss \/ a + ISSStep <= p.iss + 1) /\ Reached(p, a)

(* A segment s that c has sent.                                            *)
FinSeq(s) == s.seq + (IF s.data = None THEN 0 ELSE 1)

GoodSegment(s, c, n, p) ==
    /\ IsSegment(s)
    /\ "SYN" \in s.flags =>
          /\ s.data = None /\ c.state # "INIT"
          /\ s.seq = c.iss \/ s.seq + ISSStep <= c.iss
          /\ Reached(c, s.seq + 1)
    /\ s.flags = {"SYN"} => s.seq = c.iss /\ (Closed(c) \/ c.active)
    /\ s.data # None =>
          /\ "ACK" \in s.flags /\ "RST" \notin s.flags
          /\ s.data = s.seq - c.iss /\ s.data \in 1..n /\ Reached(c, s.seq + 1)
    /\ "FIN" \in s.flags => FinSeq(s) = EndOf(c, n) /\ FinSent(c, n)
    /\ ("ACK" \in s.flags /\ "RST" \notin s.flags) =>
          AckFits(s.ack, p) /\ Acknowledged(c, p, s.ack)

End(h) ==
    LET c == conn[h]  p == conn[Peer(h)]  m == sent[Peer(h)] IN
    /\ IsConn(c) /\ AtRest(c)
    /\ SendSide(c, sent[h])
    /\ AppSide(c, sock[h], log[h])
    /\ GotSide(c, m) /\ ReceiveSide(c, p, m) /\ AckSide(c, p)
    /\ \A s \in BagToSet(net[h]) : GoodSegment(s, c, sent[h], p)

IInv ==
    /\ DOMAIN conn = Hosts /\ DOMAIN sock = Hosts /\ DOMAIN net = Hosts
    /\ DOMAIN sent = Hosts /\ DOMAIN log = Hosts
    /\ faults \in 0..MaxFaults
    /\ \A h \in Hosts : End(h)

-----------------------------------------------------------------------------
(* Bags of segments: only which segments are in them matters.              *)

(* What is in a sum of bags, in a bag made of a set, in a difference and   *)
(* in the empty bag.                                                       *)
LEMMA BagSum == ASSUME NEW A, NEW B
                 PROVE BagToSet(A (+) B) = BagToSet(A) \cup BagToSet(B)
  BY DEF BagToSet, (+)

(* SetToBag(), with which Send() and the network make bags of segments.    *)
LEMMA BagOfSet == ASSUME NEW S PROVE BagToSet(SetToBag(S)) = S
  BY DEF BagToSet, SetToBag

(* A segment taken out of the network.                                     *)
LEMMA BagRest == ASSUME NEW A, NEW B PROVE BagToSet(A (-) B) \subseteq BagToSet(A)
  BY DEF BagToSet, (-)

(* The network at the beginning, and what an event has sent at its start.  *)
LEMMA NoBag == BagToSet(EmptyBag) = {}
  BY DEF BagToSet, SetToBag, EmptyBag

(* Min() of the send queue and the window, in sendData().                  *)
LEMMA MinOfTwo == ASSUME NEW a \in Int, NEW b \in Int
                  PROVE Min({a, b}) \in {a, b} /\ Min({a, b}) <= a /\ Min({a, b}) <= b
  <1> DEFINE Q(x) == x \in {a, b} /\ \A y \in {a, b} : x <= y
  <1>1. \E x : Q(x)
    <2>1. CASE a <= b
      <3>1. Q(a)  BY <2>1
      <3>2. QED  BY <3>1, Zenon
    <2>2. CASE ~(a <= b)
      <3>1. Q(b)  BY <2>2
      <3>2. QED  BY <3>1, Zenon
    <2>3. QED  BY <2>1, <2>2
  <1>2. Min({a, b}) = CHOOSE x : Q(x)  BY DEF Min
  <1>3. Q(CHOOSE x : Q(x))  BY <1>1, Zenon
  <1>4. QED  BY <1>2, <1>3

(* Min() of one segment and what there is to be sent again, in             *)
(* retransmitOneSegment().                                                 *)
LEMMA MinOfThree == ASSUME NEW a \in Int, NEW b \in Int, NEW c \in Int
                    PROVE /\ Min({a, b, c}) \in {a, b, c}
                          /\ Min({a, b, c}) <= a /\ Min({a, b, c}) <= b /\ Min({a, b, c}) <= c
  <1> DEFINE Q(x) == x \in {a, b, c} /\ \A y \in {a, b, c} : x <= y
  <1>1. \E x : Q(x)
    <2>1. CASE a <= b /\ a <= c
      <3>1. Q(a)  BY <2>1
      <3>2. QED  BY <3>1, Zenon
    <2>2. CASE b <= a /\ b <= c
      <3>1. Q(b)  BY <2>2
      <3>2. QED  BY <3>1, Zenon
    <2>3. CASE c <= a /\ c <= b
      <3>1. Q(c)  BY <2>3
      <3>2. QED  BY <3>1, Zenon
    <2>4. QED  BY <2>1, <2>2, <2>3
  <1>2. Min({a, b, c}) = CHOOSE x : Q(x)  BY DEF Min
  <1>3. Q(CHOOSE x : Q(x))  BY <1>1, Zenon
  <1>4. QED  BY <1>2, <1>3

-----------------------------------------------------------------------------
(* Within an event: the segments sent so far fit the connection as it is,  *)
(* and still do when it has moved on.                                      *)

Fits(s, x, n, p) ==
    /\ IsSegment(s)
    /\ "SYN" \in s.flags => s.data = None /\ s.seq = x.iss /\ s.seq < x.snd_max
    /\ s.flags = {"SYN"} => x.active
    /\ s.data # None =>
          /\ "ACK" \in s.flags /\ "RST" \notin s.flags
          /\ s.data = s.seq - x.iss /\ s.data \in 1..n /\ s.seq < x.snd_max
    /\ "FIN" \in s.flags => FinSeq(s) = EndOf(x, n) /\ x.send_fin /\ EndOf(x, n) < x.snd_max
    /\ ("ACK" \in s.flags /\ "RST" \notin s.flags) => AckFits(s.ack, p) /\ s.ack <= x.rcv_nxt

OutFits(x, n, p) == \A s \in BagToSet(x.out) : Fits(s, x, n, p)

(* What an event that sends leaves alone.                                  *)
SendsOnly(c, x) ==
    /\ x.state = c.state /\ x.active = c.active /\ x.iss = c.iss
    /\ x.snd_una = c.snd_una /\ x.bufferEnd = c.bufferEnd
    /\ x.rcv_nxt = c.rcv_nxt /\ x.buffered = c.buffered /\ x.send_fin = c.send_fin
    /\ x.snd_fin_seq = c.snd_fin_seq /\ x.fin_ack_rcvd = c.fin_ack_rcvd
    /\ x.rcv_fin_seq = c.rcv_fin_seq /\ x.got = c.got
    /\ x.ind = c.ind /\ x.event = c.event

(* A segment that fits goes on to fit while the event changes the          *)
(* connection.                                                             *)
LEMMA FitsOn ==
    ASSUME NEW s, NEW x, IsConn(x), NEW y, IsConn(y), NEW n, NEW p, Fits(s, x, n, p),
           y.iss = x.iss, x.active => y.active, x.snd_max <= y.snd_max,
           x.send_fin => y.send_fin, x.rcv_nxt <= y.rcv_nxt, n \in Nat
    PROVE  Fits(s, y, n, p)
  <1>1. s.seq \in Int /\ s.ack \in Int  BY DEF Fits, IsSegment
  <1>2. x.iss \in Int /\ x.snd_max \in Int /\ y.snd_max \in Int /\ x.rcv_nxt \in Int /\ y.rcv_nxt \in Int
    BY DEF IsConn, Fields
  <1>3. QED  BY <1>1, <1>2 DEF Fits, EndOf

(* A segment made by Segment() is one, with the fields it was given.       *)
LEMMA SegmentTyped ==
    ASSUME NEW f \in Kinds,
           NEW i \in Int, NEW a \in Int, NEW d \in Int
    PROVE  /\ IsSegment(Segment(f, i, a, d))
           /\ Segment(f, i, a, d).flags = f /\ Segment(f, i, a, d).seq = i
           /\ Segment(f, i, a, d).ack = a /\ Segment(f, i, a, d).data = d
  BY DEF IsSegment, Segment

(* Send() adds one segment.                                                *)
LEMMA SendOne ==
    ASSUME NEW c, IsConn(c), NEW s
    PROVE  /\ IsConn(Send(c, s))
           /\ BagToSet(Send(c, s).out) = BagToSet(c.out) \cup {s}
           /\ SendsOnly(c, Send(c, s)) /\ Send(c, s).timers = c.timers
           /\ Send(c, s).snd_nxt = c.snd_nxt /\ Send(c, s).snd_max = c.snd_max
           /\ Send(c, s).snd_cwnd = c.snd_cwnd
  <1>1. Send(c, s).out = c.out (+) SetToBag({s})  BY DEF Send, IsConn, Fields
  <1>2. IsConn(Send(c, s))  BY DEF Send, IsConn, Fields
  <1>3. BagToSet(Send(c, s).out) = BagToSet(c.out) \cup {s}  BY <1>1, BagSum, BagOfSet
  <1>4. QED  BY <1>2, <1>3 DEF Send, IsConn, Fields, SendsOnly

(* sendAck() adds a segment that fits and changes nothing else.            *)
LEMMA AckSent ==
    ASSUME NEW c, IsConn(c), NEW n \in Nat, NEW p, OutFits(c, n, p), AckFits(c.rcv_nxt, p)
    PROVE  /\ IsConn(SendAck(c)) /\ SendsOnly(c, SendAck(c)) /\ OutFits(SendAck(c), n, p)
           /\ SendAck(c).timers = c.timers
           /\ SendAck(c).snd_nxt = c.snd_nxt /\ SendAck(c).snd_max = c.snd_max
  <1> DEFINE s == Segment({"ACK"}, c.snd_nxt, c.rcv_nxt, None)
  <1>1. c.snd_nxt \in Int /\ c.rcv_nxt \in Int /\ None \in Int  BY DEF IsConn, Fields, None
  <1>2. /\ IsSegment(s) /\ s.flags = {"ACK"} /\ s.ack = c.rcv_nxt /\ s.data = None
    <2>1. {"ACK"} \in Kinds  BY DEF Kinds
    <2>2. QED  BY <1>1, <2>1, SegmentTyped
  <1>3. SendAck(c) = Send(c, s)  BY DEF SendAck
  <1> HIDE DEF s
  <1>4. Fits(s, c, n, p)  BY <1>1, <1>2 DEF Fits
  <1>5. /\ IsConn(SendAck(c)) /\ SendsOnly(c, SendAck(c))
        /\ BagToSet(SendAck(c).out) = BagToSet(c.out) \cup {s}
        /\ SendAck(c).timers = c.timers
        /\ SendAck(c).snd_nxt = c.snd_nxt /\ SendAck(c).snd_max = c.snd_max
    BY <1>3, SendOne
  <1>6. ASSUME NEW t \in BagToSet(SendAck(c).out) PROVE Fits(t, SendAck(c), n, p)
    <2>1. Fits(t, c, n, p)  BY <1>4, <1>5 DEF OutFits
    <2>2. c.snd_max \in Int /\ c.rcv_nxt \in Int  BY DEF IsConn, Fields
    <2>3. QED  BY <1>5, <2>1, <2>2, FitsOn DEF SendsOnly
  <1>7. QED  BY <1>5, <1>6 DEF OutFits

(* sendRst() adds a reset and changes nothing else.                        *)
LEMMA RstSent ==
    ASSUME NEW c, IsConn(c), NEW n \in Nat, NEW p, OutFits(c, n, p), NEW i \in Int
    PROVE  /\ IsConn(SendRst(c, i)) /\ SendsOnly(c, SendRst(c, i)) /\ OutFits(SendRst(c, i), n, p)
           /\ SendRst(c, i).timers = c.timers
           /\ SendRst(c, i).snd_nxt = c.snd_nxt /\ SendRst(c, i).snd_max = c.snd_max
  <1> DEFINE s == Segment({"RST"}, i, None, None)
  <1>2. /\ IsSegment(s) /\ s.flags = {"RST"} /\ s.data = None
    <2>1. {"RST"} \in Kinds /\ None \in Int  BY DEF Kinds, None
    <2>2. QED  BY <2>1, SegmentTyped
  <1>3. SendRst(c, i) = Send(c, s)  BY DEF SendRst
  <1> HIDE DEF s
  <1>4. Fits(s, c, n, p)  BY <1>2 DEF Fits
  <1>5. /\ IsConn(SendRst(c, i)) /\ SendsOnly(c, SendRst(c, i))
        /\ BagToSet(SendRst(c, i).out) = BagToSet(c.out) \cup {s}
        /\ SendRst(c, i).timers = c.timers
        /\ SendRst(c, i).snd_nxt = c.snd_nxt /\ SendRst(c, i).snd_max = c.snd_max
    BY <1>3, SendOne
  <1>6. ASSUME NEW t \in BagToSet(SendRst(c, i).out) PROVE Fits(t, SendRst(c, i), n, p)
    <2>1. Fits(t, c, n, p)  BY <1>4, <1>5 DEF OutFits
    <2>2. c.snd_max \in Int /\ c.rcv_nxt \in Int  BY DEF IsConn, Fields
    <2>3. QED  BY <1>5, <2>1, <2>2, FitsOn DEF SendsOnly
  <1>7. QED  BY <1>5, <1>6 DEF OutFits

-----------------------------------------------------------------------------
(* sendSegment() k times, inside the send queue.  A FIN that goes with the *)
(* last segment moves snd_nxt one further.                                 *)

(* SendSegments(), the loop of sendData(): the segments carry data of the  *)
(* send queue, in order, and the FIN goes with the last of it.             *)
LEMMA SegmentsSent ==
    ASSUME NEW c, IsConn(c), NEW n \in Nat, NEW k \in Nat \ {0},
           c.bufferEnd = c.iss + 1 + n, c.send_fin => c.snd_fin_seq = c.bufferEnd,
           c.iss < c.snd_nxt, c.snd_nxt + k <= c.bufferEnd
    PROVE  LET e == SendSegments(c, k)
               last == c.snd_nxt + k IN
           /\ IsConn(e) /\ SendsOnly(c, e)
           /\ e.timers = c.timers /\ e.snd_max = c.snd_max
           /\ e.snd_nxt = IF c.send_fin /\ last = c.bufferEnd THEN last + 1 ELSE last
           /\ \A s \in BagToSet(e.out) :
                 \/ s \in BagToSet(c.out)
                 \/ /\ IsSegment(s) /\ s.flags \in {{"ACK"}, {"FIN", "ACK"}}
                    /\ s.seq < last /\ s.ack = c.rcv_nxt
                    /\ s.data = s.seq - c.iss /\ s.data \in 1..n
                    /\ "FIN" \in s.flags =>
                          c.send_fin /\ s.seq + 1 = c.bufferEnd /\ e.snd_nxt = c.bufferEnd + 1
  <1> DEFINE last == c.snd_nxt + k
             fin  == c.send_fin /\ last = c.snd_fin_seq
             seg(s) == Segment(IF fin /\ s = last - 1 THEN {"FIN", "ACK"} ELSE {"ACK"},
                               s, c.rcv_nxt, s - c.iss)
             segs == {seg(s) : s \in c.snd_nxt..(last - 1)}
             e == SendSegments(c, k)
  <1>1. /\ c.iss \in Nat /\ c.snd_nxt \in Int /\ c.rcv_nxt \in Int /\ c.bufferEnd \in Int
        /\ c.snd_max \in Int /\ c.send_fin \in BOOLEAN /\ c.snd_fin_seq \in Int
        /\ c.afterRto \in BOOLEAN /\ last \in Int
    BY SMTT(30) DEF IsConn, Fields
  <1>2. e = [c EXCEPT !.out = @ (+) SetToBag(segs),
                      !.snd_nxt = IF fin THEN last + 1 ELSE last,
                      !.afterRto = @ /\ last < c.snd_max]
    BY DEF SendSegments
  <1>3. \A t \in segs :
           /\ IsSegment(t) /\ t.flags \in {{"ACK"}, {"FIN", "ACK"}}
           /\ c.snd_nxt <= t.seq /\ t.seq < last /\ t.ack = c.rcv_nxt /\ t.data = t.seq - c.iss
           /\ "FIN" \in t.flags => fin /\ t.seq = last - 1
    <2> SUFFICES ASSUME NEW t \in segs
                 PROVE  /\ IsSegment(t) /\ t.flags \in {{"ACK"}, {"FIN", "ACK"}}
                        /\ c.snd_nxt <= t.seq /\ t.seq < last
                        /\ t.ack = c.rcv_nxt /\ t.data = t.seq - c.iss
                        /\ "FIN" \in t.flags => fin /\ t.seq = last - 1
      OBVIOUS
    <2>1. PICK s \in c.snd_nxt..(last - 1) : t = seg(s)  OBVIOUS
    <2> DEFINE f == IF fin /\ s = last - 1 THEN {"FIN", "ACK"} ELSE {"ACK"}
    <2>2. f \in Kinds /\ f \in {{"ACK"}, {"FIN", "ACK"}} /\ ("FIN" \in f => fin /\ s = last - 1)
      BY DEF Kinds
    <2>3. s \in Int /\ s - c.iss \in Int /\ c.snd_nxt <= s /\ s < last  BY <1>1
    <2> HIDE DEF f, last, fin
    <2>4. /\ IsSegment(Segment(f, s, c.rcv_nxt, s - c.iss))
          /\ Segment(f, s, c.rcv_nxt, s - c.iss).flags = f
          /\ Segment(f, s, c.rcv_nxt, s - c.iss).seq = s
          /\ Segment(f, s, c.rcv_nxt, s - c.iss).ack = c.rcv_nxt
          /\ Segment(f, s, c.rcv_nxt, s - c.iss).data = s - c.iss
      BY <1>1, <2>2, <2>3, SegmentTyped
    <2>5. seg(s) = Segment(f, s, c.rcv_nxt, s - c.iss)  BY DEF f
    <2> HIDE DEF seg
    <2>6. QED  BY <2>1, <2>2, <2>3, <2>4, <2>5
  <1> HIDE DEF segs, fin, last
  <1>4. /\ IsConn(e) /\ e.out = c.out (+) SetToBag(segs)
        /\ e.snd_nxt = IF fin THEN last + 1 ELSE last
        /\ e.timers = c.timers /\ e.snd_max = c.snd_max
    <2>1. (IF fin THEN last + 1 ELSE last) \in Int  BY <1>1
    <2>2. (c.afterRto /\ last < c.snd_max) \in BOOLEAN  BY <1>1
    <2>3. QED  BY SMTT(30), <1>1, <1>2, <2>1, <2>2 DEF IsConn, Fields
  <1>5. SendsOnly(c, e)  BY <1>2 DEF IsConn, Fields, SendsOnly
  <1>6. BagToSet(e.out) = BagToSet(c.out) \cup segs  BY <1>4, BagSum, BagOfSet
  <1>7. last <= c.bufferEnd /\ c.iss < c.snd_nxt  BY DEF last
  <1>8. fin => c.send_fin /\ last = c.bufferEnd  BY DEF fin
  <1>9. c.send_fin /\ last = c.bufferEnd => fin  BY DEF fin
  <1>10. e.snd_nxt = IF c.send_fin /\ last = c.bufferEnd THEN last + 1 ELSE last
    BY <1>4, <1>8, <1>9
  <1>11. ASSUME NEW s \in BagToSet(e.out), s \notin BagToSet(c.out)
         PROVE  /\ IsSegment(s) /\ s.flags \in {{"ACK"}, {"FIN", "ACK"}}
                /\ s.seq < last /\ s.ack = c.rcv_nxt
                /\ s.data = s.seq - c.iss /\ s.data \in 1..n
                /\ "FIN" \in s.flags =>
                      c.send_fin /\ s.seq + 1 = c.bufferEnd /\ e.snd_nxt = c.bufferEnd + 1
    <2>1. s \in segs  BY <1>6, <1>11
    <2>2. /\ IsSegment(s) /\ s.flags \in {{"ACK"}, {"FIN", "ACK"}}
          /\ c.snd_nxt <= s.seq /\ s.seq < last /\ s.ack = c.rcv_nxt /\ s.data = s.seq - c.iss
          /\ "FIN" \in s.flags => fin /\ s.seq = last - 1
      BY <1>3, <2>1
    <2>3. s.seq \in Int  BY <2>2 DEF IsSegment
    <2>4. s.data \in 1..n  BY <1>1, <1>7, <2>2, <2>3
    <2>5. "FIN" \in s.flags =>
             c.send_fin /\ s.seq + 1 = c.bufferEnd /\ e.snd_nxt = c.bufferEnd + 1
      BY <1>1, <1>4, <1>8, <2>2, <2>3
    <2>6. QED  BY <2>2, <2>4, <2>5
  <1>12. QED  BY <1>4, <1>5, <1>10, <1>11 DEF last

(* The FIN by itself, after everything in the send queue.                  *)
LEMMA FinAdded ==
    ASSUME NEW c, IsConn(c), NEW n \in Nat, NEW p, OutFits(c, n, p), AckFits(c.rcv_nxt, p),
           SendOrder(c, n), c.send_fin
    PROVE  LET e == SendFin(c) IN
           /\ IsConn(e) /\ SendsOnly(c, e) /\ OutFits(e, n, p)
           /\ e.timers = c.timers /\ SendOrder(e, n)
           /\ e.snd_nxt = c.bufferEnd + 1 /\ e.snd_max = c.bufferEnd + 1
  <1> DEFINE e == SendFin(c)
             s == Segment({"FIN", "ACK"}, c.bufferEnd, c.rcv_nxt, None)
             d == Send(c, s)
  <1>1. /\ c.iss \in Nat /\ c.snd_una \in Int /\ c.snd_nxt \in Int /\ c.rcv_nxt \in Int
        /\ c.bufferEnd \in Int /\ c.snd_max \in Int /\ None \in Int
    BY DEF IsConn, Fields, None
  <1>2. /\ IsSegment(s) /\ s.flags = {"FIN", "ACK"} /\ s.seq = c.bufferEnd
        /\ s.ack = c.rcv_nxt /\ s.data = None
    <2>1. {"FIN", "ACK"} \in Kinds  BY DEF Kinds
    <2>2. c.bufferEnd \in Int /\ c.rcv_nxt \in Int /\ None \in Int  BY <1>1
    <2> HIDE DEF d, e
    <2>3. QED  BY ONLY <2>1, <2>2, SegmentTyped DEF s
  <1> HIDE DEF s
  <1>3. /\ IsConn(d) /\ BagToSet(d.out) = BagToSet(c.out) \cup {s} /\ SendsOnly(c, d)
        /\ d.timers = c.timers
    BY SendOne
  <1>4. e = [d EXCEPT !.snd_nxt = c.bufferEnd + 1, !.snd_max = c.bufferEnd + 1]
    BY DEF SendFin, s
  <1> HIDE DEF d, e
  <1>5. /\ IsConn(e) /\ e.snd_nxt = c.bufferEnd + 1 /\ e.snd_max = c.bufferEnd + 1
        /\ e.out = d.out /\ e.timers = d.timers
    <2>1. c.bufferEnd + 1 \in Int /\ IsConn(d)  BY <1>1, <1>3
    <2>2. QED  BY <1>4, <2>1 DEF IsConn, Fields
  <1>6. SendsOnly(c, e)  BY <1>3, <1>4 DEF IsConn, Fields, SendsOnly
  <1>7. SendOrder(e, n)  BY <1>1, <1>5, <1>6 DEF SendOrder, SendsOnly
  <1>8. ASSUME NEW t \in BagToSet(e.out) PROVE Fits(t, e, n, p)
    <2>1. CASE t = s
      <3>1. FinSeq(s) = EndOf(e, n) /\ EndOf(e, n) < e.snd_max
        BY <1>1, <1>2, <1>5, <1>6 DEF FinSeq, EndOf, SendsOnly, SendOrder
      <3>2. QED  BY <1>1, <1>2, <1>6, <2>1, <3>1 DEF Fits, SendsOnly
    <2>2. CASE t \in BagToSet(c.out)
      <3>1. Fits(t, c, n, p)  BY <2>2 DEF OutFits
      <3>2. /\ e.iss = c.iss /\ (c.active => e.active) /\ (c.send_fin => e.send_fin)
            /\ c.rcv_nxt <= e.rcv_nxt
        BY <1>1, <1>6 DEF SendsOnly
      <3>3. c.snd_max <= e.snd_max  BY <1>1, <1>5 DEF SendOrder
      <3>4. QED  BY <1>5, <3>1, <3>2, <3>3, FitsOn
    <2>3. QED  BY <1>3, <1>5, <2>1, <2>2
  <1>9. QED  BY <1>3, <1>5, <1>6, <1>7, <1>8 DEF OutFits, e

(* What an event that may send data, and so start the timer, does.         *)
SentMore(c, e, n, p) ==
    /\ IsConn(e) /\ SendsOnly(c, e) /\ OutFits(e, n, p)
    /\ SendOrder(e, n) /\ c.snd_max <= e.snd_max
    /\ e.timers \cup {"REXMIT"} = c.timers \cup {"REXMIT"} /\ Timed(e)
    /\ FinWaits(c) =>
          \/ FinWaits(e)
          \/ e.send_fin /\ e.snd_nxt = e.bufferEnd + 1 /\ e.snd_max = e.bufferEnd + 1

(* startRexmitTimer() changes that timer and its counter only.             *)
LEMMA TimerStarted ==
    ASSUME NEW c, IsConn(c)
    PROVE  /\ IsConn(StartRexmitTimer(c)) /\ SendsOnly(c, StartRexmitTimer(c))
           /\ StartRexmitTimer(c).timers = c.timers \cup {"REXMIT"}
           /\ StartRexmitTimer(c).snd_nxt = c.snd_nxt /\ StartRexmitTimer(c).snd_max = c.snd_max
           /\ StartRexmitTimer(c).out = c.out
  BY DEF StartRexmitTimer, Start, IsConn, Fields, SendsOnly

(* sendData() keeps the order of the sequence numbers and the timer.       *)
LEMMA Sending ==
    ASSUME NEW c, IsConn(c), NEW n \in Nat, NEW p, NEW idle, OutFits(c, n, p),
           AckFits(c.rcv_nxt, p), SendOrder(c, n), c.iss < c.snd_una, Timed(c)
    PROVE  SentMore(c, SendData(c, idle), n, p)
  <1> DEFINE d == [c EXCEPT !.snd_nxt = IF c.afterRto THEN @ ELSE c.snd_max,
                            !.snd_cwnd = IF idle /\ c.snd_nxt < c.bufferEnd
                                         THEN Min({IW, @}) ELSE @]
             k == Min({d.bufferEnd - d.snd_nxt,
                       d.snd_cwnd - (d.snd_nxt - d.snd_una)})
             e == SendSegments(d, k)
             f == [e EXCEPT !.snd_max = Later(@, e.snd_nxt)]
  <1>1. /\ c.iss \in Nat /\ c.snd_una \in Int /\ c.snd_nxt \in Int /\ c.rcv_nxt \in Int
        /\ c.bufferEnd \in Int /\ c.snd_max \in Int /\ c.snd_cwnd \in Int /\ IW \in Int
    BY ConnectionAssumption DEF IsConn, Fields
  <1>2. SendData(c, idle) = IF k <= 0 THEN d
                            ELSE IF "REXMIT" \in f.timers THEN f ELSE StartRexmitTimer(f)
    BY DEF SendData
  <1>3. /\ IsConn(d) /\ SendsOnly(c, d) /\ d.timers = c.timers /\ d.out = c.out
        /\ d.snd_max = c.snd_max /\ d.snd_nxt \in {c.snd_nxt, c.snd_max}
    <2>1. (IF idle /\ c.snd_nxt < c.bufferEnd THEN Min({IW, c.snd_cwnd}) ELSE c.snd_cwnd) \in Int
      BY <1>1, MinOfTwo
    <2>2. (IF c.afterRto THEN c.snd_nxt ELSE c.snd_max) \in Int  BY <1>1
    <2> DEFINE w == IF idle /\ c.snd_nxt < c.bufferEnd THEN Min({IW, c.snd_cwnd}) ELSE c.snd_cwnd
               x == IF c.afterRto THEN c.snd_nxt ELSE c.snd_max
    <2>3. d = [c EXCEPT !.snd_nxt = x, !.snd_cwnd = w]  OBVIOUS
    <2>4. x \in {c.snd_nxt, c.snd_max}  OBVIOUS
    <2>5. x \in Int /\ w \in Int  BY <2>1, <2>2
    <2> HIDE DEF w, x, d
    <2>6. /\ IsConn(d) /\ d.timers = c.timers /\ d.out = c.out /\ d.snd_max = c.snd_max
          /\ d.snd_nxt = x
      BY <2>3, <2>5 DEF IsConn, Fields
    <2>7. SendsOnly(c, d)  BY <2>3 DEF IsConn, Fields, SendsOnly
    <2>8. QED  BY <2>4, <2>6, <2>7
  <1> HIDE DEF d
  <1>4. SendOrder(d, n)  BY <1>1, <1>3 DEF SendOrder, SendsOnly
  <1>5. ASSUME NEW t \in BagToSet(d.out) PROVE Fits(t, d, n, p)
    <2>1. Fits(t, c, n, p)  BY <1>3 DEF OutFits
    <2>2. QED  BY <1>1, <1>3, <2>1, FitsOn DEF SendsOnly
  <1>6. Timed(d) /\ (FinWaits(c) => FinWaits(d))  BY <1>3 DEF SendsOnly, Timed, FinWaits
  <1>7. CASE k <= 0
    <2>1. SendData(c, idle) = d  BY <1>2, <1>7
    <2>2. QED  BY <1>1, <1>3, <1>4, <1>5, <1>6, <2>1 DEF SentMore, OutFits
  <1>8. CASE ~(k <= 0)
    <2>1. /\ d.bufferEnd \in Int /\ d.snd_nxt \in Int /\ d.snd_cwnd \in Int /\ d.snd_una \in Int
          /\ d.snd_max \in Int
      BY <1>3 DEF IsConn, Fields
    <2>2. k \in Int /\ k <= d.bufferEnd - d.snd_nxt
      <3> DEFINE a == d.bufferEnd - d.snd_nxt
                 b == d.snd_cwnd - (d.snd_nxt - d.snd_una)
      <3>1. a \in Int /\ b \in Int  BY <2>1
      <3>2. k = Min({a, b})  OBVIOUS
      <3> HIDE DEF a, b, k
      <3>3. k \in {a, b} /\ k <= a  BY <3>1, <3>2, MinOfTwo
      <3>4. QED  BY <3>1, <3>3 DEF a
    <2> HIDE DEF k
    <2>3. k \in Nat \ {0} /\ d.snd_nxt + k <= d.bufferEnd  BY <1>8, <2>1, <2>2
    <2>4. d.iss < d.snd_nxt  BY <1>1, <1>3, <2>1 DEF SendsOnly, SendOrder
    <2>5. d.bufferEnd = d.iss + 1 + n /\ (d.send_fin => d.snd_fin_seq = d.bufferEnd)
      BY <1>4 DEF SendOrder
    <2> DEFINE last == d.snd_nxt + k
    <2>6. /\ IsConn(e) /\ SendsOnly(d, e) /\ e.timers = d.timers /\ e.snd_max = d.snd_max
          /\ e.snd_nxt = IF d.send_fin /\ last = d.bufferEnd THEN last + 1 ELSE last
          /\ \A s \in BagToSet(e.out) :
                \/ s \in BagToSet(d.out)
                \/ /\ IsSegment(s) /\ s.flags \in {{"ACK"}, {"FIN", "ACK"}}
                   /\ s.seq < last /\ s.ack = d.rcv_nxt
                   /\ s.data = s.seq - d.iss /\ s.data \in 1..n
                   /\ "FIN" \in s.flags =>
                         d.send_fin /\ s.seq + 1 = d.bufferEnd /\ e.snd_nxt = d.bufferEnd + 1
      BY <1>3, <2>3, <2>4, <2>5, SegmentsSent
    <2> HIDE DEF e
    <2>7. e.snd_nxt \in Int /\ last \in Int /\ last <= d.bufferEnd /\ d.snd_nxt < last
      <3>1. e.snd_nxt \in Int  BY <2>6 DEF IsConn, Fields
      <3>2. QED  BY <2>1, <2>3, <3>1
    <2> HIDE DEF last
    <2>8. /\ IsConn(f) /\ f.snd_max = Later(d.snd_max, e.snd_nxt) /\ f.out = e.out
          /\ f.timers = d.timers /\ f.snd_nxt = e.snd_nxt
      <3>1. Later(e.snd_max, e.snd_nxt) \in Int  BY <2>1, <2>6, <2>7 DEF Later
      <3>2. QED  BY <2>6, <3>1 DEF IsConn, Fields
    <2>9. SendsOnly(e, f)  BY <2>6 DEF IsConn, Fields, SendsOnly
    <2> HIDE DEF f
    <2>10. SendsOnly(c, f)  BY <1>3, <2>6, <2>9 DEF SendsOnly
    <2>11. /\ f.snd_nxt <= f.snd_max /\ d.snd_max <= f.snd_max /\ f.snd_max \in {d.snd_max, f.snd_nxt}
      BY <2>1, <2>7, <2>8 DEF Later
    <2>12. f.snd_max \in Int /\ f.snd_nxt \in Int  BY <2>8 DEF IsConn, Fields
    <2>13. SendOrder(f, n)
      <3>1. c.snd_una <= f.snd_nxt /\ f.snd_max <= c.bufferEnd + 1
        BY <1>1, <1>3, <1>4, <2>1, <2>6, <2>7, <2>8, <2>11, <2>12 DEF SendsOnly, SendOrder
      <3>2. f.snd_max = c.bufferEnd + 1 => c.send_fin
        BY <1>1, <1>3, <1>4, <2>1, <2>6, <2>7, <2>8, <2>11, <2>12 DEF SendsOnly, SendOrder
      <3>3. QED  BY <1>1, <2>10, <2>11, <2>12, <3>1, <3>2 DEF SendsOnly, SendOrder
    <2>14. ASSUME NEW s \in BagToSet(f.out) PROVE Fits(s, f, n, p)
      <3>1. /\ f.iss = d.iss /\ (d.active => f.active) /\ (d.send_fin => f.send_fin)
            /\ f.bufferEnd = d.bufferEnd /\ f.rcv_nxt = d.rcv_nxt /\ d.rcv_nxt <= f.rcv_nxt
            /\ c.rcv_nxt = f.rcv_nxt
        BY <1>1, <1>3, <2>10 DEF SendsOnly
      <3>2. CASE s \in BagToSet(d.out)
        <4>1. Fits(s, d, n, p)  BY <1>5, <3>2
        <4>2. QED  BY <1>3, <2>8, <2>11, <3>1, <4>1, FitsOn
      <3>3. CASE s \notin BagToSet(d.out)
        <4>1. /\ IsSegment(s) /\ s.flags \in {{"ACK"}, {"FIN", "ACK"}}
              /\ s.seq < last /\ s.ack = d.rcv_nxt
              /\ s.data = s.seq - d.iss /\ s.data \in 1..n
              /\ "FIN" \in s.flags =>
                    d.send_fin /\ s.seq + 1 = d.bufferEnd /\ e.snd_nxt = d.bufferEnd + 1
          BY <2>6, <2>8, <3>3
        <4>2. s.seq \in Int /\ s.data \in Int  BY <4>1 DEF IsSegment
        <4>3. s.seq < f.snd_max  BY <2>1, <2>6, <2>7, <2>8, <2>11, <2>12, <4>1, <4>2
        <4>4. s.data # None  BY <4>1 DEF None
        <4>5. "FIN" \in s.flags =>
                 FinSeq(s) = EndOf(f, n) /\ f.send_fin /\ EndOf(f, n) < f.snd_max
          BY <1>1, <2>1, <2>5, <2>8, <2>11, <2>12, <3>1, <4>1, <4>2, <4>4 DEF FinSeq, EndOf
        <4>6. AckFits(s.ack, p) /\ s.ack <= f.rcv_nxt  BY <1>1, <3>1, <4>1
        <4>7. "SYN" \notin s.flags /\ "ACK" \in s.flags /\ "RST" \notin s.flags  BY <4>1
        <4>8. s.data = s.seq - f.iss  BY <3>1, <4>1
        <4>9. QED  BY <4>1, <4>3, <4>5, <4>6, <4>7, <4>8 DEF Fits
      <3>4. QED  BY <3>2, <3>3
    <2>15. FinWaits(c) => \/ FinWaits(f)
                          \/ f.send_fin /\ f.snd_nxt = f.bufferEnd + 1 /\ f.snd_max = f.bufferEnd + 1
      BY <1>1, <1>3, <2>1, <2>6, <2>7, <2>8, <2>10, <2>11, <2>12 DEF SendsOnly, FinWaits
    <2>16. f.snd_una # f.snd_max
      BY <1>1, <1>3, <1>4, <1>6, <2>1, <2>6, <2>7, <2>8, <2>10, <2>11, <2>12
         DEF SendsOnly, SendOrder
    <2>17. CASE "REXMIT" \in f.timers
      <3>1. SendData(c, idle) = f  BY <1>2, <1>8, <2>17 DEF f, e
      <3>2. Timed(f)  BY <2>16, <2>17 DEF Timed
      <3>3. f.timers = c.timers /\ c.snd_max <= f.snd_max  BY <1>3, <2>8, <2>11
      <3>4. QED  BY <2>8, <2>10, <2>13, <2>14, <2>15, <3>1, <3>2, <3>3 DEF SentMore, OutFits
    <2>18. CASE "REXMIT" \notin f.timers
      <3> DEFINE g == StartRexmitTimer(f)
      <3>1. SendData(c, idle) = g  BY <1>2, <1>8, <2>18 DEF f, e
      <3>2. /\ IsConn(g) /\ SendsOnly(f, g) /\ g.timers = f.timers \cup {"REXMIT"}
            /\ g.snd_nxt = f.snd_nxt /\ g.snd_max = f.snd_max /\ g.out = f.out
        BY <2>8, TimerStarted
      <3> HIDE DEF g
      <3>3. SendsOnly(c, g)  BY <2>10, <3>2 DEF SendsOnly
      <3>4. SendOrder(g, n)  BY <2>13, <3>2 DEF SendsOnly, SendOrder
      <3>5. Timed(g)  BY <2>16, <3>2 DEF Timed, SendsOnly
      <3>6. OutFits(g, n, p)
        <4>1. SUFFICES ASSUME NEW s \in BagToSet(g.out) PROVE Fits(s, g, n, p)  BY DEF OutFits
        <4>2. Fits(s, f, n, p)  BY <2>14, <3>2
        <4>3. f.rcv_nxt \in Int  BY <2>8 DEF IsConn, Fields
        <4>4. /\ g.iss = f.iss /\ (f.active => g.active) /\ (f.send_fin => g.send_fin)
              /\ f.rcv_nxt <= g.rcv_nxt /\ f.snd_max <= g.snd_max
          BY <2>12, <3>2, <4>3 DEF SendsOnly
        <4>5. QED  BY <2>8, <3>2, <4>2, <4>4, FitsOn
      <3>7. FinWaits(c) => \/ FinWaits(g)
                           \/ g.send_fin /\ g.snd_nxt = g.bufferEnd + 1 /\ g.snd_max = g.bufferEnd + 1
        BY <2>15, <3>2 DEF SendsOnly, FinWaits
      <3>8. g.timers = c.timers \cup {"REXMIT"} /\ c.snd_max <= g.snd_max
        BY <1>3, <2>8, <2>11, <3>2
      <3>9. QED  BY <3>1, <3>2, <3>3, <3>4, <3>5, <3>6, <3>7, <3>8 DEF SentMore
    <2>19. QED  BY <2>17, <2>18
  <1>9. QED  BY <1>7, <1>8

(* receivedDataAck() sets the timer right, and sends what it may.          *)
LEMMA AckTaken ==
    ASSUME NEW c, IsConn(c), NEW n \in Nat, NEW p, NEW idle, OutFits(c, n, p),
           AckFits(c.rcv_nxt, p), SendOrder(c, n), c.iss < c.snd_una
    PROVE  SentMore(c, ReceivedDataAck(c, idle), n, p)
  <1> DEFINE d == IF c.snd_una = c.snd_max THEN Cancel(c, {"REXMIT"}) ELSE StartRexmitTimer(c)
             e == [d EXCEPT !.snd_cwnd = 2, !.dupacks = 0]
             f == SendData(e, idle)
  <1>1. ReceivedDataAck(c, idle) = f  BY DEF ReceivedDataAck
  <1>2. /\ IsConn(e) /\ SendsOnly(c, e) /\ e.snd_nxt = c.snd_nxt /\ e.snd_max = c.snd_max
        /\ e.out = c.out /\ e.timers \cup {"REXMIT"} = c.timers \cup {"REXMIT"}
        /\ ("REXMIT" \in e.timers) <=> (c.snd_una # c.snd_max)
    <2>1. CASE c.snd_una = c.snd_max
      <3>1. d = Cancel(c, {"REXMIT"})  BY <2>1
      <3>2. e = [Cancel(c, {"REXMIT"}) EXCEPT !.snd_cwnd = 2, !.dupacks = 0]  BY <3>1
      <3> HIDE DEF d, e
      <3>3. IsConn(e)  BY SMTT(30), <3>2 DEF IsConn, Fields, Cancel
      <3>4. /\ SendsOnly(c, e) /\ e.snd_nxt = c.snd_nxt /\ e.snd_max = c.snd_max
            /\ e.out = c.out /\ e.timers = c.timers \ {"REXMIT"}
        BY <3>2 DEF IsConn, Fields, Cancel, SendsOnly
      <3>5. QED  BY <2>1, <3>3, <3>4
    <2>2. CASE c.snd_una # c.snd_max
      <3>1. d = StartRexmitTimer(c)  BY <2>2
      <3>2. e = [StartRexmitTimer(c) EXCEPT !.snd_cwnd = 2, !.dupacks = 0]  BY <3>1
      <3> HIDE DEF d, e
      <3>3. IsConn(e)  BY <3>2 DEF IsConn, Fields, StartRexmitTimer, Start
      <3>4. /\ SendsOnly(c, e) /\ e.snd_nxt = c.snd_nxt /\ e.snd_max = c.snd_max
            /\ e.out = c.out /\ e.timers = c.timers \cup {"REXMIT"}
        BY <3>2 DEF IsConn, Fields, StartRexmitTimer, Start, SendsOnly
      <3>5. QED  BY <2>2, <3>3, <3>4
    <2>3. QED  BY <2>1, <2>2
  <1> HIDE DEF d, e
  <1>3. OutFits(e, n, p)
    <2>1. SUFFICES ASSUME NEW s \in BagToSet(e.out) PROVE Fits(s, e, n, p)  BY DEF OutFits
    <2>2. Fits(s, c, n, p)  BY <1>2 DEF OutFits
    <2>3. c.rcv_nxt \in Int /\ c.snd_max \in Int  BY DEF IsConn
    <2>4. /\ e.iss = c.iss /\ (c.active => e.active) /\ (c.send_fin => e.send_fin)
          /\ c.rcv_nxt <= e.rcv_nxt /\ c.snd_max <= e.snd_max
      BY <1>2, <2>3 DEF SendsOnly
    <2>5. QED  BY <1>2, <2>2, <2>4, FitsOn
  <1>4. /\ AckFits(e.rcv_nxt, p) /\ SendOrder(e, n) /\ e.iss < e.snd_una /\ Timed(e)
    BY <1>2 DEF SendsOnly, SendOrder, Timed
  <1>5. SentMore(e, f, n, p)  BY <1>2, <1>3, <1>4, Sending
  <1> HIDE DEF f
  <1>6. SendsOnly(c, f)  BY <1>2, <1>5 DEF SendsOnly, SentMore
  <1>7. FinWaits(c) => FinWaits(e)  BY <1>2 DEF SendsOnly, FinWaits
  <1>8. f.timers \cup {"REXMIT"} = c.timers \cup {"REXMIT"} /\ c.snd_max <= f.snd_max
    BY <1>2, <1>5 DEF SentMore
  <1>9. SentMore(c, f, n, p)  BY <1>5, <1>6, <1>7, <1>8 DEF SentMore
  <1>10. QED  BY <1>1, <1>9

(* retransmitOneSegment() sends what has been sent before.                 *)
LEMMA Retransmitted ==
    ASSUME NEW c, IsConn(c), NEW n \in Nat, NEW p, OutFits(c, n, p), AckFits(c.rcv_nxt, p),
           SendOrder(c, n), c.snd_una # c.snd_max, FinWaits(c) \/ c.snd_max = c.bufferEnd + 1
    PROVE  LET e == RetransmitOneSegment(c) IN
           /\ IsConn(e) /\ SendsOnly(c, e) /\ OutFits(e, n, p) /\ SendOrder(e, n)
           /\ e.timers = c.timers /\ e.snd_max = c.snd_max
  <1> DEFINE bytes == Min({1, c.snd_max - c.snd_una, c.bufferEnd - c.snd_una})
             e == RetransmitOneSegment(c)
  <1>1. /\ c.iss \in Nat /\ c.snd_una \in Int /\ c.snd_nxt \in Int /\ c.snd_max \in Int
        /\ c.bufferEnd \in Int /\ c.rcv_nxt \in Int
    BY DEF IsConn
  <1>2. /\ c.iss <= c.snd_una /\ c.snd_una < c.snd_max /\ c.snd_max <= c.bufferEnd + 1
        /\ c.bufferEnd = c.iss + 1 + n
        /\ c.send_fin => c.snd_fin_seq = c.bufferEnd
    BY <1>1 DEF SendOrder
  <1>3. /\ bytes \in {1, c.snd_max - c.snd_una, c.bufferEnd - c.snd_una}
        /\ bytes <= 1 /\ bytes <= c.snd_max - c.snd_una /\ bytes <= c.bufferEnd - c.snd_una
    <2> DEFINE a == c.snd_max - c.snd_una
               b == c.bufferEnd - c.snd_una
    <2>1. a \in Int /\ b \in Int /\ 1 \in Int  BY <1>1
    <2> HIDE DEF a, b
    <2>2. Min({1, a, b}) \in {1, a, b} /\ Min({1, a, b}) <= 1 /\ Min({1, a, b}) <= a /\ Min({1, a, b}) <= b
      BY <2>1, MinOfThree
    <2>3. QED  BY <2>2 DEF a, b
  <1>4. e = IF bytes <= 0 /\ c.send_fin /\ c.snd_fin_seq = c.bufferEnd
            THEN SendFin(c)
            ELSE IF bytes <= 0 \/ c.snd_una = c.iss
            THEN [c EXCEPT !.assertFailed = TRUE]
            ELSE SendSegments([c EXCEPT !.snd_nxt = c.snd_una], 1)
    BY DEF RetransmitOneSegment
  <1> HIDE DEF bytes, e
  <1>5. bytes <= 0 <=> c.snd_una = c.bufferEnd  BY <1>1, <1>2, <1>3
  <1>6. CASE bytes <= 0 /\ c.send_fin /\ c.snd_fin_seq = c.bufferEnd
    <2>1. e = SendFin(c)  BY <1>4, <1>6
    <2>2. c.snd_max = c.bufferEnd + 1  BY <1>1, <1>2, <1>5, <1>6
    <2>3. QED  BY <1>6, <2>1, <2>2, FinAdded DEF e
  <1>7. CASE /\ ~(bytes <= 0 /\ c.send_fin /\ c.snd_fin_seq = c.bufferEnd)
             /\ bytes <= 0 \/ c.snd_una = c.iss
    <2>1. e = [c EXCEPT !.assertFailed = TRUE]  BY <1>4, <1>7
    <2>2. IsConn(e)  BY <2>1 DEF IsConn, Fields
    <2>3. /\ SendsOnly(c, e) /\ e.out = c.out /\ e.timers = c.timers /\ e.snd_max = c.snd_max
          /\ e.snd_nxt = c.snd_nxt
      BY <2>1 DEF IsConn, Fields, SendsOnly
    <2>4. SendOrder(e, n)  BY <2>3 DEF SendOrder, SendsOnly
    <2>5. OutFits(e, n, p)
      <3>1. \A s : Fits(s, c, n, p) => Fits(s, e, n, p)
        BY <2>3 DEF Fits, SendsOnly, EndOf
      <3>2. QED  BY <2>3, <3>1 DEF OutFits
    <2>6. QED  BY <2>2, <2>3, <2>4, <2>5 DEF e
  <1>8. CASE ~(bytes <= 0) /\ c.snd_una # c.iss
    <2> DEFINE d == [c EXCEPT !.snd_nxt = c.snd_una]
               last == c.snd_una + 1
    <2>1. e = SendSegments(d, 1)  BY <1>4, <1>8
    <2>2. IsConn(d)  BY <1>1 DEF IsConn, Fields
    <2>3. /\ SendsOnly(c, d) /\ d.out = c.out /\ d.timers = c.timers /\ d.snd_max = c.snd_max
          /\ d.snd_nxt = c.snd_una
      BY DEF IsConn, Fields, SendsOnly
    <2> HIDE DEF d
    <2>4. /\ d.bufferEnd = d.iss + 1 + n /\ (d.send_fin => d.snd_fin_seq = d.bufferEnd)
          /\ d.iss < d.snd_nxt /\ d.snd_nxt + 1 <= d.bufferEnd /\ 1 \in Nat \ {0}
      BY <1>1, <1>2, <1>3, <1>8, <2>3 DEF SendsOnly
    <2>5. /\ IsConn(e) /\ SendsOnly(d, e) /\ e.timers = d.timers /\ e.snd_max = d.snd_max
          /\ e.snd_nxt = IF d.send_fin /\ d.snd_nxt + 1 = d.bufferEnd
                         THEN d.snd_nxt + 1 + 1 ELSE d.snd_nxt + 1
          /\ \A s \in BagToSet(e.out) :
                \/ s \in BagToSet(d.out)
                \/ /\ IsSegment(s) /\ s.flags \in {{"ACK"}, {"FIN", "ACK"}}
                   /\ s.seq < d.snd_nxt + 1 /\ s.ack = d.rcv_nxt
                   /\ s.data = s.seq - d.iss /\ s.data \in 1..n
                   /\ "FIN" \in s.flags =>
                         d.send_fin /\ s.seq + 1 = d.bufferEnd /\ e.snd_nxt = d.bufferEnd + 1
      BY <2>1, <2>2, <2>4, SegmentsSent
    <2>6. SendsOnly(c, e)  BY <2>3, <2>5 DEF SendsOnly
    <2>7. (c.send_fin /\ c.snd_una + 1 = c.bufferEnd) => c.snd_max = c.bufferEnd + 1
      BY <1>1, <1>2 DEF FinWaits
    <2>8. e.snd_nxt \in Int /\ e.snd_nxt <= c.snd_max /\ c.snd_una <= e.snd_nxt
      BY <1>1, <1>2, <2>3, <2>5, <2>7 DEF SendsOnly
    <2>9. SendOrder(e, n)  BY <1>1, <1>2, <2>3, <2>5, <2>6, <2>8 DEF SendsOnly, SendOrder
    <2>10. ASSUME NEW s \in BagToSet(e.out) PROVE Fits(s, e, n, p)
      <3>1. /\ e.iss = c.iss /\ (c.active => e.active) /\ (c.send_fin => e.send_fin)
            /\ e.bufferEnd = c.bufferEnd /\ e.rcv_nxt = c.rcv_nxt /\ c.rcv_nxt <= e.rcv_nxt
            /\ e.snd_max = c.snd_max /\ c.snd_max <= e.snd_max
        BY <1>1, <2>3, <2>5, <2>6 DEF SendsOnly
      <3>2. CASE s \in BagToSet(d.out)
        <4>1. Fits(s, c, n, p)  BY <2>3, <3>2 DEF OutFits
        <4>2. QED  BY <2>5, <3>1, <4>1, FitsOn
      <3>3. CASE s \notin BagToSet(d.out)
        <4>1. /\ IsSegment(s) /\ s.flags \in {{"ACK"}, {"FIN", "ACK"}}
              /\ s.seq < c.snd_una + 1 /\ s.ack = c.rcv_nxt
              /\ s.data = s.seq - c.iss /\ s.data \in 1..n
              /\ "FIN" \in s.flags =>
                    c.send_fin /\ s.seq + 1 = c.bufferEnd /\ e.snd_nxt = c.bufferEnd + 1
          BY <2>3, <2>5, <3>3 DEF SendsOnly
        <4>2. s.seq \in Int /\ s.data \in Int  BY <4>1 DEF IsSegment
        <4>3. s.seq < e.snd_max  BY <1>1, <1>2, <3>1, <4>1, <4>2
        <4>4. s.data # None  BY <4>1 DEF None
        <4>5. "FIN" \in s.flags =>
                 FinSeq(s) = EndOf(e, n) /\ e.send_fin /\ EndOf(e, n) < e.snd_max
          BY <1>1, <1>2, <2>8, <3>1, <4>1, <4>2, <4>4 DEF FinSeq, EndOf
        <4>6. AckFits(s.ack, p) /\ s.ack <= e.rcv_nxt  BY <1>1, <3>1, <4>1
        <4>7. "SYN" \notin s.flags /\ "ACK" \in s.flags /\ "RST" \notin s.flags  BY <4>1
        <4>8. s.data = s.seq - e.iss  BY <3>1, <4>1
        <4>9. QED  BY <4>1, <4>3, <4>5, <4>6, <4>7, <4>8 DEF Fits
      <3>4. QED  BY <3>2, <3>3
    <2>11. e.timers = c.timers /\ e.snd_max = c.snd_max  BY <2>3, <2>5
    <2>12. QED  BY <2>5, <2>6, <2>9, <2>10, <2>11 DEF OutFits, e
  <1>9. QED  BY <1>6, <1>7, <1>8

(* receivedDuplicateAck(): the retransmission, with snd_nxt put back, and   *)
(* then what the window allows; the timer is running already.              *)
LEMMA DuplicateTaken ==
    ASSUME NEW c, IsConn(c), NEW n \in Nat, NEW p, NEW idle, OutFits(c, n, p),
           AckFits(c.rcv_nxt, p), SendOrder(c, n), c.iss < c.snd_una, Timed(c),
           c.snd_una # c.snd_max, FinWaits(c) \/ c.snd_max = c.bufferEnd + 1
    PROVE  \/ ReceivedDuplicateAck(c, idle) = c
           \/ SentMore(c, ReceivedDuplicateAck(c, idle), n, p)
  <1> DEFINE d == IF c.dupacks = DupThresh THEN RetransmitOneSegment(c) ELSE c
             i == Later(c.snd_nxt, d.snd_nxt)
             e == [d EXCEPT !.snd_nxt = i, !.snd_cwnd = 2]
             f == SendData(e, idle)
  <1>1. ReceivedDuplicateAck(c, idle) = IF c.dupacks < DupThresh THEN c ELSE f
    BY DEF ReceivedDuplicateAck
  <1>2. /\ c.snd_una \in Int /\ c.snd_nxt \in Int /\ c.snd_max \in Int /\ c.rcv_nxt \in Int
        /\ c.iss \in Nat
    BY DEF IsConn
  <1>3. /\ IsConn(d) /\ SendsOnly(c, d) /\ OutFits(d, n, p) /\ SendOrder(d, n)
        /\ d.timers = c.timers /\ d.snd_max = c.snd_max
    <2>1. CASE c.dupacks = DupThresh
      <3>1. d = RetransmitOneSegment(c)  BY <2>1
      <3> HIDE DEF d
      <3>2. QED  BY <3>1, Retransmitted
    <2>2. CASE c.dupacks # DupThresh
      <3>1. d = c  BY <2>2
      <3> HIDE DEF d
      <3>2. QED  BY <3>1 DEF SendsOnly
    <2>3. QED  BY <2>1, <2>2
  <1> HIDE DEF d
  <1>4. i \in Int /\ c.snd_una <= i /\ i <= c.snd_max
    <2>1. d.snd_nxt \in Int  BY <1>3 DEF IsConn
    <2>2. c.snd_una <= d.snd_nxt /\ d.snd_nxt <= c.snd_max  BY <1>3 DEF SendOrder, SendsOnly
    <2>3. c.snd_una <= c.snd_nxt /\ c.snd_nxt <= c.snd_max  BY DEF SendOrder
    <2>4. QED  BY <1>2, <2>1, <2>2, <2>3 DEF Later
  <1> DEFINE w == 2
  <1>5. w \in Int /\ e = [d EXCEPT !.snd_nxt = i, !.snd_cwnd = w]  OBVIOUS
  <1> HIDE DEF i, w, e
  <1>6. IsConn(e)  BY <1>3, <1>4, <1>5 DEF IsConn, Fields
  <1>7. /\ SendsOnly(d, e) /\ e.snd_nxt = i /\ e.snd_max = d.snd_max /\ e.out = d.out
         /\ e.timers = d.timers
    BY <1>3, <1>5 DEF IsConn, Fields, SendsOnly
  <1>8. SendsOnly(c, e)  BY <1>3, <1>7 DEF SendsOnly
  <1>9. OutFits(e, n, p)
    <2>1. SUFFICES ASSUME NEW s \in BagToSet(e.out) PROVE Fits(s, e, n, p)  BY DEF OutFits
    <2>2. Fits(s, d, n, p)  BY <1>3, <1>7 DEF OutFits
    <2>3. d.rcv_nxt \in Int /\ d.snd_max \in Int  BY <1>3 DEF IsConn
    <2>4. /\ e.iss = d.iss /\ (d.active => e.active) /\ (d.send_fin => e.send_fin)
          /\ d.rcv_nxt <= e.rcv_nxt /\ d.snd_max <= e.snd_max
      BY <1>7, <2>3 DEF SendsOnly
    <2>5. QED  BY <1>3, <1>6, <2>2, <2>4, FitsOn
  <1>10. SendOrder(e, n)  BY <1>3, <1>4, <1>7, <1>8 DEF SendsOnly, SendOrder
  <1>11. /\ AckFits(e.rcv_nxt, p) /\ e.iss < e.snd_una /\ Timed(e)
         /\ FinWaits(c) => FinWaits(e)
    BY <1>3, <1>7, <1>8 DEF SendsOnly, Timed, FinWaits
  <1>12. SentMore(e, f, n, p)  BY <1>6, <1>9, <1>10, <1>11, Sending
  <1> HIDE DEF f
  <1>13. SendsOnly(c, f)  BY <1>8, <1>12 DEF SendsOnly, SentMore
  <1>14. f.timers \cup {"REXMIT"} = c.timers \cup {"REXMIT"} /\ c.snd_max <= f.snd_max
    BY <1>3, <1>7, <1>12 DEF SentMore
  <1>15. SentMore(c, f, n, p)  BY <1>11, <1>12, <1>13, <1>14 DEF SentMore
  <1>16. QED  BY <1>1, <1>15

-----------------------------------------------------------------------------
(* The end of an event: the state transition.                              *)

(* A state and an event have at most one row in the state machine.         *)
LEMMA FSMIsFunction == \A t, u \in FSM : t[1] = u[1] /\ t[2] = u[2] => t[3] = u[3]
  BY SMTT(60) DEF FSM, Synchronized, States

(* performStateTransition() takes the row of the state and the event, if   *)
(* there is one.                                                           *)
LEMMA RowTaken ==
    ASSUME NEW c, NEW to, <<c.state, c.event, to>> \in FSM,
           ~(c.state = "SYN_RCVD" /\ c.event \in {"TIMEOUT_CONN_ESTAB", "RCV_RST"})
    PROVE  Target(c) = to
  <1> DEFINE rows == {t \in FSM : t[1] = c.state /\ t[2] = c.event}
             row == <<c.state, c.event, to>>
  <1>1. Target(c) = IF rows = {} THEN c.state ELSE (CHOOSE t \in rows : TRUE)[3]
    BY DEF Target
  <1>2. row \in rows  OBVIOUS
  <1>3. \A t \in rows : t[3] = to  BY FSMIsFunction
  <1> HIDE DEF rows
  <1>4. QED  BY <1>1, <1>2, <1>3

(* performStateTransition() stays in the state when there is none.         *)
LEMMA NoRowTaken ==
    ASSUME NEW c, \A t \in FSM : ~(t[1] = c.state /\ t[2] = c.event),
           ~(c.state = "SYN_RCVD" /\ c.event \in {"TIMEOUT_CONN_ESTAB", "RCV_RST"})
    PROVE  Target(c) = c.state
  <1> DEFINE rows == {t \in FSM : t[1] = c.state /\ t[2] = c.event}
  <1>1. Target(c) = IF rows = {} THEN c.state ELSE (CHOOSE t \in rows : TRUE)[3]
    BY DEF Target
  <1>2. rows = {}  OBVIOUS
  <1>3. QED  BY <1>1, <1>2

(* TCP_E_IGNORE changes no state.                                          *)
LEMMA NothingHappens == ASSUME NEW c, c.event = "IGNORE" PROVE Target(c) = c.state
  <1>1. \A t \in FSM : t[2] # "IGNORE"  BY DEF FSM, Synchronized, States
  <1>2. QED  BY <1>1, NoRowTaken

(* What a transition to a state other than CLOSED leaves of x.             *)
Carried(x, d) ==
    /\ d.active = x.active /\ d.iss = x.iss /\ d.snd_una = x.snd_una
    /\ d.snd_nxt = x.snd_nxt /\ d.snd_max = x.snd_max /\ d.bufferEnd = x.bufferEnd
    /\ d.rcv_nxt = x.rcv_nxt /\ d.buffered = x.buffered /\ d.send_fin = x.send_fin
    /\ d.snd_fin_seq = x.snd_fin_seq /\ d.fin_ack_rcvd = x.fin_ack_rcvd
    /\ d.rcv_fin_seq = x.rcv_fin_seq /\ d.got = x.got

(* What stays of a connection after an event that does not close it.       *)
LEMMA AtRestAfter ==
    ASSUME NEW y, IsConn(y), y.state # "CLOSED"
    PROVE  /\ IsConn(Kept(y)) /\ AtRest(Kept(y)) /\ Carried(y, Kept(y))
           /\ Kept(y).state = y.state /\ Kept(y).timers = y.timers
  <1> DEFINE d == Kept(y)
             e == EmptyBag
  <1>1. d = [y EXCEPT !.out = e, !.ind = << >>, !.event = "IGNORE"]  BY DEF Kept
  <1>2. BagToSet(e) = {}  BY NoBag
  <1> HIDE DEF d, e
  <1>3. IsConn(d)  BY <1>1 DEF IsConn, Fields
  <1>4. d.out = e /\ d.ind = << >> /\ d.event = "IGNORE"  BY <1>1 DEF IsConn, Fields
  <1>5. Carried(y, d) /\ d.state = y.state /\ d.timers = y.timers
    BY <1>1 DEF IsConn, Fields, Carried
  <1>6. QED  BY <1>2, <1>3, <1>4, <1>5 DEF AtRest, d

(* A transition to a state other than CLOSED: what stateEntered() does to  *)
(* the timers and tells the application.                                   *)
LEMMA Entered ==
    ASSUME NEW x, IsConn(x), x.state # "CLOSED",
           NEW to \in States \ {"CLOSED"}, Target(x) = to
    PROVE  LET y == Transition(x)
               d == Kept(y) IN
           /\ IsConn(d) /\ AtRest(d) /\ Carried(x, d) /\ d.state = to
           /\ y.out = x.out
           /\ d.timers = IF to \in {x.state, "INIT", "SYN_SENT", "SYN_RCVD", "TIME_WAIT"}
                         THEN x.timers ELSE x.timers \ {"ESTAB", "SYN"}
           /\ y.ind = IF to = x.state THEN x.ind
                      ELSE IF to = "CLOSE_WAIT" THEN Append(x.ind, "PEER_CLOSED")
                      ELSE IF to = "TIME_WAIT" THEN Append(x.ind, "CLOSED")
                      ELSE x.ind
  <1> DEFINE y == Transition(x)
             u == [x EXCEPT !.state = to]
             ts == IF to \in {x.state, "INIT", "SYN_SENT", "SYN_RCVD", "TIME_WAIT"}
                   THEN x.timers ELSE x.timers \ {"ESTAB", "SYN"}
             i == IF to = x.state THEN x.ind
                  ELSE IF to = "CLOSE_WAIT" THEN Append(x.ind, "PEER_CLOSED")
                  ELSE IF to = "TIME_WAIT" THEN Append(x.ind, "CLOSED")
                  ELSE x.ind
  <1>1. y = IF u.state = x.state THEN x ELSE StateEntered(u, x.state)
    BY DEF Transition
  <1>2. u.state = to  BY DEF IsConn, Fields
  <1>3. IsConn(y) /\ y.state = to /\ y.timers = ts /\ y.ind = i /\ y.out = x.out /\ Carried(x, y)
    <2>1. CASE to = x.state
      <3>1. y = x  BY <1>1, <1>2, <2>1
      <3>2. QED  BY <2>1, <3>1 DEF Carried
    <2>2. CASE to # x.state /\ to \in {"LISTEN", "ESTABLISHED", "LAST_ACK", "FIN_WAIT_1",
                                       "FIN_WAIT_2", "CLOSING"}
      <3>1. y = Cancel(u, {"ESTAB", "SYN"})  BY <1>1, <1>2, <2>2 DEF StateEntered
      <3> HIDE DEF y
      <3>2. IsConn(y)  BY <3>1 DEF IsConn, Fields, Cancel
      <3>3. /\ y.state = to /\ y.timers = x.timers \ {"ESTAB", "SYN"} /\ y.ind = x.ind
            /\ y.out = x.out /\ Carried(x, y)
        BY <3>1 DEF IsConn, Fields, Cancel, Carried
      <3>4. QED  BY <2>2, <3>2, <3>3
    <2>3. CASE to # x.state /\ to = "CLOSE_WAIT"
      <3>1. y = Indicate(Cancel(u, {"ESTAB", "SYN"}), "PEER_CLOSED")
        BY <1>1, <1>2, <2>3 DEF StateEntered
      <3> HIDE DEF y
      <3>2. IsConn(y)  BY <3>1 DEF IsConn, Fields, Cancel, Indicate, Indications
      <3>3. /\ y.state = to /\ y.timers = x.timers \ {"ESTAB", "SYN"}
            /\ y.ind = Append(x.ind, "PEER_CLOSED")
            /\ y.out = x.out /\ Carried(x, y)
        BY <3>1 DEF IsConn, Fields, Cancel, Indicate, Carried
      <3>4. QED  BY <2>3, <3>2, <3>3
    <2>4. CASE to # x.state /\ to = "TIME_WAIT"
      <3>1. y = Indicate(u, "CLOSED")  BY <1>1, <1>2, <2>4 DEF StateEntered
      <3> HIDE DEF y
      <3>2. IsConn(y)  BY <3>1 DEF IsConn, Fields, Indicate, Indications
      <3>3. /\ y.state = to /\ y.timers = x.timers /\ y.ind = Append(x.ind, "CLOSED")
            /\ y.out = x.out /\ Carried(x, y)
        BY <3>1 DEF IsConn, Fields, Indicate, Carried
      <3>4. QED  BY <2>4, <3>2, <3>3
    <2>5. CASE to # x.state /\ to \in {"INIT", "SYN_SENT", "SYN_RCVD"}
      <3>1. y = u  BY <1>1, <1>2, <2>5 DEF StateEntered
      <3> HIDE DEF y
      <3>2. IsConn(y)  BY <3>1 DEF IsConn, Fields
      <3>3. /\ y.state = to /\ y.timers = x.timers /\ y.ind = x.ind
            /\ y.out = x.out /\ Carried(x, y)
        BY <3>1 DEF IsConn, Fields, Carried
      <3>4. QED  BY <2>5, <3>2, <3>3
    <2>6. QED  BY <2>1, <2>2, <2>3, <2>4, <2>5 DEF States, Synchronized
  <1> HIDE DEF y, ts, i
  <1>4. /\ IsConn(Kept(y)) /\ AtRest(Kept(y)) /\ Carried(y, Kept(y))
        /\ Kept(y).state = y.state /\ Kept(y).timers = y.timers
    BY <1>3, AtRestAfter
  <1>5. Carried(x, Kept(y))  BY <1>3, <1>4 DEF Carried
  <1>6. QED  BY <1>3, <1>4, <1>5 DEF y, ts, i

(* What stays of a connection that is closed.                              *)
Deleted(x, d) ==
    /\ IsConn(d) /\ AtRest(d) /\ d.state = "CLOSED"
    /\ d.iss = x.iss /\ d.snd_una = d.iss /\ d.snd_nxt = d.iss /\ d.snd_max = d.iss
    /\ d.bufferEnd = d.iss + 1 /\ ~d.send_fin /\ ~d.fin_ack_rcvd /\ ~d.active
    /\ d.timers = {} /\ d.got = x.got

(* What stays of a connection after an event that closes it.               *)
LEMMA DeletedAfter ==
    ASSUME NEW y, IsConn(y), y.state = "CLOSED"
    PROVE  Deleted(y, Kept(y))
  <1> DEFINE d == Kept(y)
             b == EmptyBag
  <1>1. d = [InitConnection(y.iss) EXCEPT !.state = "CLOSED", !.got = y.got]  BY DEF Kept
  <1>2. BagToSet(b) = {}  BY NoBag
  <1> HIDE DEF d, b
  <1>4. y.iss \in Nat /\ y.got \in Seq(Int)  BY DEF IsConn
  <1>5. DOMAIN d = Fields  BY <1>1 DEF Fields, InitConnection
  <1>6. /\ d.state = "CLOSED" /\ d.active = FALSE /\ d.iss = y.iss /\ d.snd_una = y.iss
        /\ d.snd_nxt = y.iss /\ d.snd_max = y.iss /\ d.bufferEnd = y.iss + 1
        /\ d.rcv_nxt = 0 /\ d.buffered = {} /\ d.send_fin = FALSE /\ d.snd_fin_seq = 0
        /\ d.fin_ack_rcvd = FALSE /\ d.rcv_fin_seq = 0 /\ d.snd_cwnd = 1 /\ d.afterRto = FALSE
        /\ d.dupacks = 0 /\ d.rexmit_count = 0 /\ d.syn_rexmit_count = 0 /\ d.timers = {} /\ d.got = y.got
        /\ d.assertFailed = FALSE /\ d.out = b /\ d.ind = << >> /\ d.event = "IGNORE"
    BY <1>1 DEF InitConnection, None, b
  <1>7. IsConn(d)
    <2>1. d.state \in States /\ d.timers \in SUBSET {"SYN", "ESTAB", "REXMIT", "2MSL"}
      BY <1>6 DEF States
    <2>2. d.buffered \in SUBSET [seq : Int, data : Int] /\ d.ind \in Seq(Indications)  BY <1>6
    <2>3. /\ d.active \in BOOLEAN /\ d.send_fin \in BOOLEAN /\ d.fin_ack_rcvd \in BOOLEAN
          /\ d.afterRto \in BOOLEAN /\ d.assertFailed \in BOOLEAN
      BY <1>6
    <2>4. /\ d.iss \in Nat /\ d.snd_una \in Int /\ d.snd_nxt \in Int /\ d.snd_max \in Int
          /\ d.bufferEnd \in Int /\ d.rcv_nxt \in Int /\ d.snd_fin_seq \in Int
          /\ d.rcv_fin_seq \in Int /\ d.snd_cwnd \in Int /\ d.rexmit_count \in Int
          /\ d.dupacks \in Int /\ d.syn_rexmit_count \in Int /\ d.got \in Seq(Int)
      BY <1>4, <1>6
    <2>5. QED  BY <1>5, <2>1, <2>2, <2>3, <2>4 DEF IsConn
  <1>8. QED  BY <1>2, <1>6, <1>7 DEF Deleted, AtRest, d

(* A transition to CLOSED: the application is told, unless it aborted or   *)
(* has been told before.                                                   *)
LEMMA ClosedDown ==
    ASSUME NEW x, IsConn(x), Target(x) = "CLOSED"
    PROVE  LET y == Transition(x)
               d == Kept(y) IN
           /\ Deleted(x, d) /\ y.out = x.out
           /\ y.ind = IF x.state \notin {"CLOSED", "TIME_WAIT"} /\ x.event # "ABORT"
                      THEN Append(x.ind, "CLOSED") ELSE x.ind
  <1> DEFINE y == Transition(x)
             u == [x EXCEPT !.state = "CLOSED"]
             v == [u EXCEPT !.timers = {}]
  <1>1. y = IF u.state = x.state THEN x ELSE StateEntered(u, x.state)
    BY DEF Transition
  <1>2. u.state = "CLOSED" /\ u.event = x.event  BY DEF IsConn, Fields
  <1>3. /\ IsConn(y) /\ y.state = "CLOSED" /\ y.out = x.out /\ y.iss = x.iss /\ y.got = x.got
        /\ y.ind = IF x.state \notin {"CLOSED", "TIME_WAIT"} /\ x.event # "ABORT"
                   THEN Append(x.ind, "CLOSED") ELSE x.ind
    <2>1. CASE x.state = "CLOSED"
      <3>1. y = x  BY <1>1, <1>2, <2>1
      <3>2. QED  BY <2>1, <3>1
    <2>2. CASE x.state # "CLOSED" /\ x.state # "TIME_WAIT" /\ x.event # "ABORT"
      <3>1. y = Indicate(v, "CLOSED")  BY <1>1, <1>2, <2>2 DEF StateEntered
      <3> HIDE DEF y
      <3>2. IsConn(y)  BY <3>1 DEF IsConn, Fields, Indicate, Indications, States
      <3>3. /\ y.state = "CLOSED" /\ y.out = x.out /\ y.iss = x.iss /\ y.got = x.got
            /\ y.ind = Append(x.ind, "CLOSED")
        BY <3>1 DEF IsConn, Fields, Indicate
      <3>4. QED  BY <2>2, <3>2, <3>3
    <2>3. CASE x.state # "CLOSED" /\ (x.state = "TIME_WAIT" \/ x.event = "ABORT")
      <3>1. y = v  BY <1>1, <1>2, <2>3 DEF StateEntered
      <3> HIDE DEF y
      <3>2. IsConn(y)  BY <3>1 DEF IsConn, Fields, States
      <3>3. /\ y.state = "CLOSED" /\ y.out = x.out /\ y.iss = x.iss /\ y.got = x.got
            /\ y.ind = x.ind
        BY <3>1 DEF IsConn, Fields
      <3>4. QED  BY <2>3, <3>2, <3>3
    <2>4. QED  BY <2>1, <2>2, <2>3
  <1> HIDE DEF y
  <1>4. Deleted(y, Kept(y))  BY <1>3, DeletedAfter
  <1>5. Deleted(x, Kept(y))  BY <1>3, <1>4 DEF Deleted
  <1>6. QED  BY <1>3, <1>5 DEF y

-----------------------------------------------------------------------------
(* What a step of one host means for its peer.                             *)

(* The send side moves on, or a new attempt begins.                        *)
SendAdvance(c, n, d, k) ==
    \/ /\ d.iss = c.iss /\ n <= k
       /\ FinSent(c, n) => k = n /\ FinSent(d, k)
       /\ Closed(c) => Closed(d)
       /\ Closed(d) \/ c.snd_max <= d.snd_max
       /\ d.state = "INIT" => c.state = "INIT"
       /\ c.active => d.active \/ Closed(d)
    \/ /\ c.state \in {"INIT", "LISTEN"} /\ Unopened(c, n)
       /\ d.iss = c.iss + ISSStep /\ d.snd_max = d.iss + 1 /\ k = 0
       /\ d.state # "INIT"

RecvAdvance(c, d, p) == \A a \in Int : Acknowledged(c, p, a) => Acknowledged(d, p, a)

(* What the peer p has received stays right when c moves on to d.          *)
LEMMA ReceivedStillGood ==
    ASSUME NEW c, IsConn(c), NEW d, IsConn(d), NEW p, IsConn(p), NEW n \in Nat, NEW k \in Nat,
           SendAdvance(c, n, d, k), GotSide(p, n), ReceiveSide(p, c, n)
    PROVE  GotSide(p, k) /\ ReceiveSide(p, d, k)
  <1>1. /\ c.iss \in Nat /\ d.iss \in Nat /\ c.snd_max \in Int /\ d.snd_max \in Int
        /\ p.rcv_nxt \in Int /\ Len(p.got) \in Nat /\ ISSStep \in Nat /\ p.rcv_fin_seq \in Int
    BY ConnectionAssumption DEF IsConn
  <1>2. CASE /\ d.iss = c.iss /\ n <= k
             /\ FinSent(c, n) => k = n /\ FinSent(d, k)
             /\ Closed(c) => Closed(d)
             /\ Closed(d) \/ c.snd_max <= d.snd_max
             /\ d.state = "INIT" => c.state = "INIT"
    <2>1. GotSide(p, k)  BY <1>1, <1>2 DEF GotSide
    <2>2. \A i \in Int : Reached(c, i) => Reached(d, i)  BY <1>1, <1>2 DEF Reached
    <2>3. SUFFICES ASSUME p.state \in Connected PROVE ReceiveSide(p, d, k)  BY <2>1 DEF ReceiveSide
    <2>4. /\ c.state # "INIT" /\ Buffered(p, c, n)
          /\ BeforeFin(p, c) \/ PastFin(p, c, n) \/ Behind(p, c)
          /\ p.rcv_fin_seq = None \/ (p.rcv_fin_seq = EndOf(c, n) /\ FinSent(c, n))
      BY <2>3 DEF ReceiveSide
    <2>5. d.state # "INIT"  BY <1>2, <2>4
    <2>6. Buffered(p, d, k)
      <3>1. SUFFICES ASSUME NEW b \in p.buffered
                     PROVE  /\ b.data = b.seq - d.iss /\ b.data \in 1..k /\ Reached(d, b.seq + 1)
                            /\ p.rcv_nxt < b.seq /\ b.seq < p.rcv_nxt + RcvWnd
        BY DEF Buffered
      <3>2. /\ b.data = b.seq - c.iss /\ b.data \in 1..n /\ Reached(c, b.seq + 1)
            /\ p.rcv_nxt < b.seq /\ b.seq < p.rcv_nxt + RcvWnd
        BY <2>4 DEF Buffered
      <3>3. b.seq \in Int  BY DEF IsConn
      <3>4. b.seq + 1 \in Int  BY <3>3
      <3>5. Reached(d, b.seq + 1)  BY <2>2, <3>2, <3>4
      <3>6. QED  BY <1>2, <3>2, <3>5
    <2>7. BeforeFin(p, c) => BeforeFin(p, d)  BY <1>1, <1>2, <2>2 DEF BeforeFin
    <2>8. PastFin(p, c, n) => PastFin(p, d, k)  BY <1>2 DEF PastFin, EndOf
    <2>9. Behind(p, c) => Behind(p, d)  BY <1>2 DEF Behind
    <2>10. (p.rcv_fin_seq = EndOf(c, n) /\ FinSent(c, n)) => (p.rcv_fin_seq = EndOf(d, k) /\ FinSent(d, k))
      BY <1>2 DEF EndOf
    <2>11. QED  BY <2>1, <2>4, <2>5, <2>6, <2>7, <2>8, <2>9, <2>10 DEF ReceiveSide
  <1>3. CASE /\ c.state \in {"INIT", "LISTEN"} /\ Unopened(c, n)
             /\ d.iss = c.iss + ISSStep /\ d.snd_max = d.iss + 1 /\ k = 0
             /\ d.state # "INIT"
    <2>1. n = 0 /\ ~FinSent(c, n)  BY <1>3 DEF Unopened, FinSent, Closed
    <2>2. GotSide(p, k)  BY <1>3, <2>1
    <2>3. p.got = << >>  BY <2>1 DEF GotSide, IsConn
    <2>4. SUFFICES ASSUME p.state \in Connected PROVE ReceiveSide(p, d, k)  BY <2>2 DEF ReceiveSide
    <2>5. Buffered(p, c, n) /\ (BeforeFin(p, c) \/ Behind(p, c)) /\ p.rcv_fin_seq = None
      BY <2>1, <2>4 DEF ReceiveSide, PastFin
    <2>6. p.buffered = {} /\ (BeforeFin(p, c) \/ Behind(p, c)) /\ p.rcv_fin_seq = None
      BY <2>1, <2>5 DEF Buffered
    <2>7. p.rcv_nxt <= c.iss + 1 /\ p.state \notin AfterFin
      BY <1>1, <2>3, <2>6 DEF BeforeFin, Behind
    <2>8. Behind(p, d)  BY <1>1, <1>3, <2>3, <2>6, <2>7 DEF Behind
    <2>9. QED  BY <1>3, <2>2, <2>6, <2>8 DEF ReceiveSide, Buffered
  <1>4. QED  BY <1>2, <1>3 DEF SendAdvance

(* An acknowledgement that fits c fits d: the sequence numbers of a new    *)
(* attempt are beyond the window of the old ones.                          *)
LEMMA AckStillFits ==
    ASSUME NEW c, IsConn(c), NEW d, IsConn(d), NEW n \in Nat, NEW k \in Nat,
           SendAdvance(c, n, d, k), NEW a \in Int, AckFits(a, c)
    PROVE  AckFits(a, d)
  <1>1. /\ c.iss \in Nat /\ d.iss \in Nat /\ c.snd_max \in Int /\ d.snd_max \in Int /\ ISSStep \in Nat
    BY ConnectionAssumption DEF IsConn
  <1>2. CASE d.iss = c.iss /\ (Closed(c) => Closed(d)) /\ (Closed(d) \/ c.snd_max <= d.snd_max)
    BY <1>1, <1>2 DEF AckFits, Reached
  <1>3. CASE /\ c.state \in {"INIT", "LISTEN"} /\ Unopened(c, n)
             /\ d.iss = c.iss + ISSStep /\ d.snd_max = d.iss + 1
    <2>1. a <= c.iss + 1  BY <1>1, <1>3 DEF AckFits, Reached, Closed, Unopened
    <2>2. QED  BY <1>1, <1>3, <2>1 DEF AckFits, Reached
  <1>4. QED  BY <1>2, <1>3 DEF SendAdvance

(* Segments on their way to c stay good when it moves on to d.             *)
LEMMA PeersSegmentStillGood ==
    ASSUME NEW c, IsConn(c), NEW d, IsConn(d), NEW p, IsConn(p), NEW n \in Nat, NEW k \in Nat,
           NEW m, SendAdvance(c, n, d, k), NEW s, GoodSegment(s, p, m, c)
    PROVE  GoodSegment(s, p, m, d)
  <1>1. ("ACK" \in s.flags /\ "RST" \notin s.flags) => AckFits(s.ack, d)
    <2>1. s.ack \in Int  BY DEF GoodSegment, IsSegment
    <2>2. QED  BY <2>1, AckStillFits DEF GoodSegment
  <1>2. c.iss <= d.iss
    BY ConnectionAssumption DEF SendAdvance, IsConn
  <1>3. ("ACK" \in s.flags /\ "RST" \notin s.flags) => Acknowledged(p, d, s.ack)
    <2>1. s.ack \in Int /\ c.iss \in Nat /\ d.iss \in Nat  BY DEF GoodSegment, IsSegment, IsConn
    <2>2. QED  BY <1>2, <2>1 DEF GoodSegment, Acknowledged
  <1>4. QED  BY <1>1, <1>3 DEF GoodSegment

(* Segments that c has sent stay good when it moves on to d.               *)
LEMMA SegmentStillGood ==
    ASSUME NEW c, IsConn(c), NEW d, IsConn(d), NEW p, IsConn(p), NEW n \in Nat, NEW k \in Nat,
           SendAdvance(c, n, d, k), RecvAdvance(c, d, p), NEW s, GoodSegment(s, c, n, p)
    PROVE  GoodSegment(s, d, k, p)
  <1>1. /\ c.iss \in Nat /\ d.iss \in Nat /\ c.snd_max \in Int /\ d.snd_max \in Int /\ ISSStep \in Nat
        /\ s.seq \in Int /\ s.ack \in Int /\ s.data \in Int /\ IsSegment(s)
    BY ConnectionAssumption DEF IsConn, GoodSegment, IsSegment
  <1>2. ("ACK" \in s.flags /\ "RST" \notin s.flags) => AckFits(s.ack, p) /\ Acknowledged(d, p, s.ack)
    BY <1>1 DEF GoodSegment, RecvAdvance
  <1>3. CASE /\ d.iss = c.iss /\ n <= k
             /\ FinSent(c, n) => k = n /\ FinSent(d, k)
             /\ Closed(c) => Closed(d)
             /\ Closed(d) \/ c.snd_max <= d.snd_max
             /\ d.state = "INIT" => c.state = "INIT"
             /\ c.active => d.active \/ Closed(d)
    <2>1. Reached(c, s.seq + 1) => Reached(d, s.seq + 1)  BY <1>1, <1>3 DEF Reached
    <2>2. "SYN" \in s.flags =>
             /\ s.data = None /\ d.state # "INIT"
             /\ s.seq = d.iss \/ s.seq + ISSStep <= d.iss
             /\ Reached(d, s.seq + 1)
      BY <1>3, <2>1 DEF GoodSegment
    <2>3. s.flags = {"SYN"} => s.seq = d.iss /\ (Closed(d) \/ d.active)
      BY <1>3 DEF GoodSegment
    <2>4. s.data # None =>
             /\ "ACK" \in s.flags /\ "RST" \notin s.flags
             /\ s.data = s.seq - d.iss /\ s.data \in 1..k /\ Reached(d, s.seq + 1)
      BY <1>1, <1>3, <2>1 DEF GoodSegment
    <2>5. "FIN" \in s.flags => FinSeq(s) = EndOf(d, k) /\ FinSent(d, k)
      BY <1>3 DEF GoodSegment, EndOf
    <2>6. QED  BY <1>1, <1>2, <2>2, <2>3, <2>4, <2>5 DEF GoodSegment
  <1>4. CASE /\ c.state \in {"INIT", "LISTEN"} /\ Unopened(c, n)
             /\ d.iss = c.iss + ISSStep /\ d.snd_max = d.iss + 1 /\ k = 0
             /\ d.state # "INIT"
    <2>1. n = 0 /\ ~FinSent(c, n) /\ ~Closed(c) /\ ~c.active /\ c.snd_max <= c.iss + 1
      BY <1>4 DEF Unopened, FinSent, Closed
    <2>2. s.data = None  BY <2>1 DEF GoodSegment
    <2>3. "FIN" \notin s.flags /\ s.flags # {"SYN"}  BY <2>1 DEF GoodSegment
    <2>4. "SYN" \in s.flags =>
             (s.seq = d.iss \/ s.seq + ISSStep <= d.iss) /\ Reached(d, s.seq + 1)
      BY <1>1, <1>4 DEF GoodSegment, Reached
    <2>5. QED  BY <1>1, <1>2, <1>4, <2>2, <2>3, <2>4 DEF GoodSegment
  <1>5. QED  BY <1>3, <1>4 DEF SendAdvance

-----------------------------------------------------------------------------
(* The two hosts, and what an event of one has to show for both of them.   *)

(* The peer of the peer of a host is that host, and there is no other one. *)
LEMMA TwoHosts ==
    ASSUME NEW h \in Hosts
    PROVE  /\ Peer(h) \in Hosts /\ Peer(h) # h /\ Peer(Peer(h)) = h
           /\ \A g \in Hosts : g = h \/ g = Peer(h)
  <1>1. PICK a, b \in Hosts : a # b /\ Hosts = {a, b}  BY HostAssumption
  <1>2. \A x \in Hosts : Peer(x) \in Hosts /\ Peer(x) # x
    <2>1. SUFFICES ASSUME NEW x \in Hosts PROVE Peer(x) \in Hosts /\ Peer(x) # x  OBVIOUS
    <2>2. \E g \in Hosts : g # x  BY <1>1
    <2>3. QED  BY <2>2 DEF Peer
  <1>3. QED  BY <1>1, <1>2

(* An event takes c, n, the socket's state and the log to d, k, sk and l,  *)
(* and sends the segments in out.                                          *)
Outcome(c, n, d, k, p, m, sk, l, out) ==
    /\ IsConn(d) /\ AtRest(d)
    /\ SendSide(d, k) /\ AppSide(d, sk, l)
    /\ GotSide(d, m) /\ ReceiveSide(d, p, m) /\ AckSide(d, p)
    /\ SendAdvance(c, n, d, k) /\ RecvAdvance(c, d, p)
    /\ \A s \in BagToSet(out) : GoodSegment(s, d, k, p)

(* An event of h preserves IInv when its outcome for h and for the         *)
(* segments of h is right: the peer has nothing to do with it but what     *)
(* SendAdvance and RecvAdvance say.                                        *)
LEMMA Performed ==
    ASSUME IInv, NEW h \in Hosts, NEW x, NEW s, NEW rest,
           Perform(h, x, s, rest), DOMAIN rest = Hosts,
           \A g \in Hosts : BagToSet(rest[g]) \subseteq BagToSet(net[g]),
           DOMAIN sent' = Hosts, sent'[Peer(h)] = sent[Peer(h)],
           faults' \in 0..MaxFaults,
           LET y == Transition(x) IN
           Outcome(conn[h], sent[h], Kept(y), sent'[h], conn[Peer(h)], sent[Peer(h)],
                   SockState(s, y.ind), log[h] \o y.ind, y.out)
    PROVE  IInv'
  <1> DEFINE g == Peer(h)
             y == Transition(x)
             c == conn[h]
             d == Kept(y)
             p == conn[g]
             n == sent[h]
             m == sent[g]
             k == sent'[h]
             sk == SockState(s, y.ind)
             l == log[h] \o y.ind
  <1>1. g \in Hosts /\ g # h /\ Peer(g) = h /\ (\A f \in Hosts : f = h \/ f = g)
    BY TwoHosts
  <1>2. End(h) /\ End(g) /\ DOMAIN conn = Hosts /\ DOMAIN sock = Hosts /\ DOMAIN log = Hosts
    BY <1>1 DEF IInv
  <1>3. /\ conn' = [conn EXCEPT ![h] = d] /\ sock' = [sock EXCEPT ![h] = sk]
        /\ net' = [rest EXCEPT ![h] = @ (+) y.out] /\ log' = [log EXCEPT ![h] = l]
    BY DEF Perform
  <1>4. /\ DOMAIN conn' = Hosts /\ DOMAIN sock' = Hosts /\ DOMAIN net' = Hosts /\ DOMAIN log' = Hosts
        /\ conn'[h] = d /\ conn'[g] = p /\ sock'[h] = sk /\ sock'[g] = sock[g]
        /\ log'[h] = l /\ log'[g] = log[g] /\ sent'[g] = m
    BY <1>1, <1>2, <1>3
  <1>5. net'[h] = rest[h] (+) y.out /\ net'[g] = rest[g]  BY <1>1, <1>3
  <1>6. Outcome(c, n, d, k, p, m, sk, l, y.out)  OBVIOUS
  <1>7. /\ IsConn(c) /\ SendSide(c, n) /\ \A t \in BagToSet(net[h]) : GoodSegment(t, c, n, p)
    BY <1>2 DEF End
  <1>8. /\ IsConn(p) /\ AtRest(p) /\ SendSide(p, m) /\ AppSide(p, sock[g], log[g])
        /\ GotSide(p, n) /\ ReceiveSide(p, c, n) /\ AckSide(p, c)
        /\ \A t \in BagToSet(net[g]) : GoodSegment(t, p, m, c)
    BY <1>1, <1>2 DEF End
  <1> HIDE DEF g, y, c, d, p, n, m, k, sk, l
  <1>9. n \in Nat /\ m \in Nat /\ k \in Nat
    BY <1>6, <1>7, <1>8 DEF Outcome, SendSide
  <1>10. IsConn(d) /\ SendAdvance(c, n, d, k) /\ RecvAdvance(c, d, p)  BY <1>6 DEF Outcome
  <1>11. GotSide(p, k) /\ ReceiveSide(p, d, k)
    BY <1>7, <1>8, <1>9, <1>10, ReceivedStillGood
  <1>12. AckSide(p, d)
    <2>1. p.snd_una \in Int  BY <1>8 DEF IsConn
    <2>2. QED  BY <1>8, <1>10, <2>1 DEF AckSide, RecvAdvance
  <1>13. ASSUME NEW t \in BagToSet(net'[g]) PROVE GoodSegment(t, p, m, d)
    <2>1. t \in BagToSet(net[g])  BY <1>1, <1>5, <1>13
    <2>2. GoodSegment(t, p, m, c)  BY <1>8, <2>1
    <2>3. QED  BY <1>7, <1>8, <1>9, <1>10, <2>2, PeersSegmentStillGood
  <1>14. ASSUME NEW t \in BagToSet(net'[h]) PROVE GoodSegment(t, d, k, p)
    <2>1. t \in BagToSet(rest[h]) \cup BagToSet(y.out)  BY <1>5, <1>14, BagSum
    <2>2. CASE t \in BagToSet(net[h])
      <3>1. GoodSegment(t, c, n, p)  BY <1>7, <2>2
      <3>2. QED  BY <1>7, <1>8, <1>9, <1>10, <3>1, SegmentStillGood
    <2>3. CASE t \in BagToSet(y.out)  BY <1>6, <2>3 DEF Outcome
    <2>4. QED  BY <2>1, <2>2, <2>3
  <1>15. End(h)'
    <2>1. /\ IsConn(d) /\ AtRest(d) /\ SendSide(d, k) /\ AppSide(d, sk, l)
          /\ GotSide(d, m) /\ ReceiveSide(d, p, m) /\ AckSide(d, p)
      BY <1>6 DEF Outcome
    <2>2. conn[Peer(h)]' = p /\ sent[Peer(h)]' = m /\ sent'[h] = k
      BY <1>4 DEF g, k
    <2>3. QED  BY <1>4, <1>14, <2>1, <2>2 DEF End
  <1>16. End(g)'
    <2>1. conn[Peer(g)]' = d /\ sent[Peer(g)]' = k
      BY <1>1, <1>4 DEF k
    <2>2. QED  BY <1>4, <1>8, <1>11, <1>12, <1>13, <2>1 DEF End
  <1>17. QED  BY <1>1, <1>4, <1>15, <1>16 DEF IInv

(* A segment that fits is good when the event is over.                     *)
LEMMA FitIsGood ==
    ASSUME NEW s, NEW x, IsConn(x), NEW d, IsConn(d), NEW n, NEW p, Fits(s, x, n, p),
           Carried(x, d), d.state # "INIT",
           d.state \in Connected \/ "ACK" \notin s.flags \/ "RST" \in s.flags
    PROVE  GoodSegment(s, d, n, p)
  <1>1. s.seq \in Int /\ s.ack \in Int /\ x.snd_max \in Int
    BY DEF Fits, IsSegment, IsConn
  <1>2. QED  BY <1>1 DEF Fits, GoodSegment, Carried, Reached, FinSent, Acknowledged, EndOf

(* The same for an event that closes the connection.                       *)
LEMMA FitIsGoodClosed ==
    ASSUME NEW s, NEW x, IsConn(x), NEW d, IsConn(d), NEW n, NEW p, Fits(s, x, n, p), Deleted(x, d)
    PROVE  GoodSegment(s, d, n, p)
  BY DEF Fits, GoodSegment, Deleted, Closed, Reached, FinSent, Acknowledged, EndOf

(* An event that closes the connection.                                    *)
LEMMA ClosesWell ==
    ASSUME NEW c, IsConn(c), NEW n \in Nat, NEW p, NEW m, NEW x, IsConn(x), NEW sk, NEW l,
           Target(x) = "CLOSED", x.iss = c.iss, GotSide(x, m), OutFits(x, n, p),
           sk \in {"CLOSED", "SOCKERROR"}, Ended(l)
    PROVE  LET y == Transition(x) IN Outcome(c, n, Kept(y), n, p, m, sk, l, y.out)
  <1> DEFINE y == Transition(x)
             d == Kept(y)
  <1>1. Deleted(x, d) /\ y.out = x.out  BY ClosedDown
  <1> HIDE DEF y, d
  <1>2. /\ IsConn(d) /\ AtRest(d) /\ d.state = "CLOSED"
        /\ d.iss = x.iss /\ d.snd_una = d.iss /\ d.snd_nxt = d.iss /\ d.snd_max = d.iss
        /\ d.bufferEnd = d.iss + 1 /\ ~d.send_fin /\ ~d.fin_ack_rcvd
        /\ d.timers = {} /\ d.got = x.got
    BY <1>1 DEF Deleted
  <1>3. SendSide(d, n)
    <2>1. d.iss \in Nat  BY <1>2 DEF IsConn
    <2>2. SendOrder(d, 0)  BY <1>2, <2>1 DEF SendOrder
    <2>3. QED  BY <1>2, <2>2 DEF SendSide, Synchronized, Finishing
  <1>4. AppSide(d, sk, l)  BY <1>2 DEF AppSide
  <1>5. GotSide(d, m) /\ ReceiveSide(d, p, m) /\ AckSide(d, p)
    BY <1>2 DEF GotSide, ReceiveSide, AckSide, Connected, Synchronized
  <1>6. SendAdvance(c, n, d, n)  BY <1>2 DEF SendAdvance, FinSent, Closed
  <1>7. RecvAdvance(c, d, p)  BY <1>2 DEF RecvAdvance, Acknowledged, Closed
  <1>8. \A s \in BagToSet(y.out) : GoodSegment(s, d, n, p)
    BY <1>1, <1>2, FitIsGoodClosed DEF OutFits
  <1>9. QED  BY <1>2, <1>3, <1>4, <1>5, <1>6, <1>7, <1>8 DEF Outcome, y, d

-----------------------------------------------------------------------------
(* What the events have in common.                                         *)

(* A host c at the start of an event, as IInv has it, and its peer p.      *)
Sound(c, n, p, m, sk, l) ==
    /\ IsConn(c) /\ AtRest(c) /\ SendSide(c, n) /\ AppSide(c, sk, l)
    /\ GotSide(c, m) /\ ReceiveSide(c, p, m) /\ AckSide(c, p)
    /\ IsConn(p) /\ SendSide(p, m)

(* What becomes of c when the handler has made x of it.                    *)
OutcomeOf(c, n, x, k, p, m, s, l) ==
    LET y == Transition(x) IN
    Outcome(c, n, Kept(y), k, p, m, SockState(s, y.ind), l \o y.ind, y.out)

(* Every host is sound, and what is on its way to it is good.              *)
LEMMA SoundHost ==
    ASSUME IInv, NEW h \in Hosts
    PROVE  /\ Sound(conn[h], sent[h], conn[Peer(h)], sent[Peer(h)], sock[h], log[h])
           /\ \A s \in BagToSet(net[Peer(h)]) :
                 GoodSegment(s, conn[Peer(h)], sent[Peer(h)], conn[h])
  <1>1. Peer(h) \in Hosts /\ Peer(Peer(h)) = h  BY TwoHosts
  <1>2. End(h) /\ End(Peer(h))  BY <1>1 DEF IInv
  <1>3. QED  BY <1>1, <1>2 DEF End, Sound

(* Connections that agree in what the invariant tells apart.               *)
Alike(x, d) == Carried(x, d) /\ d.state = x.state /\ d.timers = x.timers

(* What holds of a connection holds of one that is alike.                  *)
LEMMA AlikeIsGood ==
    ASSUME NEW x, NEW d, Alike(x, d), NEW k, NEW p, NEW m
    PROVE  /\ SendSide(x, k) => SendSide(d, k)
           /\ \A sk, l : AppSide(x, sk, l) => AppSide(d, sk, l)
           /\ GotSide(x, m) => GotSide(d, m)
           /\ ReceiveSide(x, p, m) => ReceiveSide(d, p, m)
           /\ AckSide(x, p) => AckSide(d, p)
           /\ \A c, n : SendAdvance(c, n, x, k) => SendAdvance(c, n, d, k)
           /\ \A c : RecvAdvance(c, x, p) => RecvAdvance(c, d, p)
           /\ \A s : GoodSegment(s, x, k, p) => GoodSegment(s, d, k, p)
  <1>1. SendSide(x, k) => SendSide(d, k)
    BY DEF Alike, Carried, SendSide, SendOrder, Unopened, SynSent, FinWaits, Timed
  <1>2. \A sk, l : AppSide(x, sk, l) => AppSide(d, sk, l)
    BY DEF Alike, Carried, AppSide
  <1>3. GotSide(x, m) => GotSide(d, m)  BY DEF Alike, Carried, GotSide
  <1>4. ReceiveSide(x, p, m) => ReceiveSide(d, p, m)
    BY DEF Alike, Carried, ReceiveSide, Buffered, BeforeFin, PastFin, Behind
  <1>5. AckSide(x, p) => AckSide(d, p)
    BY DEF Alike, Carried, AckSide, Acknowledged
  <1>6. \A c, n : SendAdvance(c, n, x, k) => SendAdvance(c, n, d, k)
    BY DEF Alike, Carried, SendAdvance, FinSent, Closed, EndOf
  <1>7. \A c : RecvAdvance(c, x, p) => RecvAdvance(c, d, p)
    BY DEF Alike, Carried, RecvAdvance, Acknowledged, Closed
  <1>8. \A s : GoodSegment(s, x, k, p) => GoodSegment(s, d, k, p)
    BY DEF Alike, Carried, GoodSegment, Acknowledged, Closed, Reached, FinSent, EndOf
  <1>9. QED  BY <1>1, <1>2, <1>3, <1>4, <1>5, <1>6, <1>7, <1>8

(* A connection whose send side only grows moves on.                       *)
LEMMA SendMovesOn ==
    ASSUME NEW c, NEW d, NEW n \in Nat, NEW k \in Nat, n <= k,
           d.iss = c.iss, c.snd_max <= d.snd_max, c.send_fin => d.send_fin /\ k = n,
           c.active => d.active, c.state # "CLOSED", d.state = "INIT" => c.state = "INIT",
           IsConn(c), IsConn(d)
    PROVE  SendAdvance(c, n, d, k)
  <1>1. /\ c.iss \in Nat /\ c.snd_max \in Int /\ d.snd_max \in Int  BY DEF IsConn
  <1>2. FinSent(c, n) => k = n /\ FinSent(d, k)
    BY <1>1 DEF FinSent, EndOf, Closed
  <1>3. QED  BY <1>2 DEF SendAdvance, Closed

(* So does one whose rcv_nxt only grows.                                   *)
LEMMA RecvMovesOn ==
    ASSUME NEW c, NEW d, NEW p, IsConn(c), IsConn(d), c.state # "CLOSED",
           c.state \in Connected => d.state \in Connected /\ c.rcv_nxt <= d.rcv_nxt,
           c.state = "LISTEN" => d.state = "LISTEN"
    PROVE  RecvAdvance(c, d, p)
  <1>1. c.rcv_nxt \in Int /\ d.rcv_nxt \in Int  BY DEF IsConn
  <1>2. QED  BY <1>1 DEF RecvAdvance, Acknowledged, Closed

(* The log of a host is a sequence of indications that may end, whatever   *)
(* the state.                                                              *)
LEMMA LogTyped ==
    ASSUME NEW c, IsConn(c), NEW sk, NEW l, AppSide(c, sk, l)
    PROVE  l \in Seq(Indications) /\ Ended(l)
  <1>1. Told \subseteq Seq(Indications)  BY DEF Told, Indications
  <1>2. \A k \in Told, x \in Problems \cup {"CLOSED"} : Append(k, x) \in Seq(Indications)
    BY <1>1 DEF Problems, Indications
  <1>3. \A k \in Told, x \in Problems : Append(Append(k, x), "CLOSED") \in Seq(Indications)
    BY <1>2 DEF Indications
  <1>4. Ended(l) => l \in Seq(Indications)  BY <1>1, <1>2, <1>3 DEF Ended
  <1>5. Ended(l)
    <2>1. l \in Told => Ended(l)  BY DEF Ended
    <2>2. Ended(<<"CLOSED">>) /\ Ended(<<"ESTABLISHED", "CLOSED">>)
      <3>1. <<"CLOSED">> = Append(<< >>, "CLOSED")
            /\ <<"ESTABLISHED", "CLOSED">> = Append(<<"ESTABLISHED">>, "CLOSED")
        OBVIOUS
      <3>2. << >> \in Told /\ <<"ESTABLISHED">> \in Told  BY DEF Told
      <3>3. QED  BY <3>1, <3>2 DEF Ended
    <2>3. c.state \in States  BY DEF IsConn
    <2>4. QED  BY <2>1, <2>2, <2>3 DEF AppSide, Told, States, Synchronized
  <1>6. QED  BY <1>4, <1>5

(* SockState() and the log, for the indications an event can have.         *)
LEMMA ToldNone ==
    ASSUME NEW l \in Seq(Indications), NEW s
    PROVE  SockState(s, << >>) = s /\ l \o << >> = l
  BY DEF SockState

(* TCPSocket::processMessage(): the socket's state after the last          *)
(* indication.                                                             *)
LEMMA ToldOne ==
    ASSUME NEW s, NEW i \in Seq(Indications), NEW a \in Indications
    PROVE  /\ a = "ESTABLISHED" => SockState(s, Append(i, a)) = "CONNECTED"
           /\ a = "PEER_CLOSED" => SockState(s, Append(i, a)) = "PEER_CLOSED"
           /\ a = "CLOSED" => SockState(s, Append(i, a)) = "CLOSED"
           /\ a \in Problems => SockState(s, Append(i, a)) = "SOCKERROR"
  <1> DEFINE j == Append(i, a)
  <1>1. j # << >> /\ Last(j) = a  BY DEF Last
  <1> HIDE DEF j
  <1>2. /\ a = "ESTABLISHED" => SockState(s, j) = "CONNECTED"
        /\ a = "PEER_CLOSED" => SockState(s, j) = "PEER_CLOSED"
        /\ a = "CLOSED" => SockState(s, j) = "CLOSED"
        /\ a \in Problems => SockState(s, j) = "SOCKERROR"
    BY <1>1 DEF SockState, Problems
  <1>3. QED  BY <1>2 DEF j

(* An indication at the end of an event is one at the end of the log.      *)
LEMMA LogGrows ==
    ASSUME NEW l \in Seq(Indications), NEW i \in Seq(Indications), NEW a \in Indications
    PROVE  l \o Append(i, a) = Append(l \o i, a)
  OBVIOUS

(* CLOSED as the last indication of an event.                              *)
LEMMA ToldLast ==
    ASSUME NEW l \in Seq(Indications), NEW s, NEW i \in Seq(Indications)
    PROVE  SockState(s, Append(i, "CLOSED")) = "CLOSED"
           /\ l \o Append(i, "CLOSED") = Append(l \o i, "CLOSED")
  <1>1. "CLOSED" \in Indications  BY DEF Indications
  <1>2. SockState(s, Append(i, "CLOSED")) = "CLOSED"  BY <1>1, ToldOne
  <1>3. l \o Append(i, "CLOSED") = Append(l \o i, "CLOSED")  BY <1>1, LogGrows
  <1>4. QED  BY <1>2, <1>3

(* An acknowledgement of all that c has received fits its peer.            *)
LEMMA AckDue ==
    ASSUME NEW c, IsConn(c), c.state \in Connected, NEW p, IsConn(p), NEW m, SendSide(p, m),
           ReceiveSide(c, p, m)
    PROVE  AckFits(c.rcv_nxt, p)
  <1>1. /\ c.rcv_nxt \in Int /\ p.iss \in Nat /\ p.snd_max \in Int /\ Len(c.got) \in Nat
        /\ ISSStep \in Nat /\ ISSStep > 2 /\ m \in Nat
    BY ConnectionAssumption DEF IsConn, SendSide
  <1>2. CASE BeforeFin(c, p)  BY <1>1, <1>2 DEF BeforeFin, AckFits
  <1>3. CASE PastFin(c, p, m)
    BY <1>1, <1>3 DEF PastFin, AckFits, FinSent, Reached, EndOf
  <1>4. CASE Behind(c, p)
    <2>1. p.state # "CLOSED" => p.iss <= p.snd_max
      <3>1. p.snd_una \in Int /\ p.snd_nxt \in Int  BY DEF IsConn
      <3>2. QED  BY <1>1, <3>1 DEF SendSide, SendOrder
    <2>2. QED  BY <1>1, <1>4, <2>1 DEF Behind, AckFits, Reached, Closed
  <1>5. QED  BY <1>2, <1>3, <1>4 DEF ReceiveSide

(* An event that leaves the state as it is.                                *)
LEMMA Stays ==
    ASSUME NEW c, NEW n, NEW p, NEW m, NEW sk, NEW l, NEW k, NEW x, IsConn(c), IsConn(x),
           c.state # "CLOSED", x.state = c.state, x.event = "IGNORE", x.ind = << >>,
           SendSide(x, k), AppSide(x, sk, l), GotSide(x, m), ReceiveSide(x, p, m), AckSide(x, p),
           SendAdvance(c, n, x, k), RecvAdvance(c, x, p),
           \A s \in BagToSet(x.out) : GoodSegment(s, x, k, p)
    PROVE  OutcomeOf(c, n, x, k, p, m, sk, l)
  <1> DEFINE y == Transition(x)
             d == Kept(y)
  <1>1. Target(x) = x.state  BY NothingHappens
  <1>2. x.state \in States \ {"CLOSED"}  BY DEF IsConn
  <1>3. /\ IsConn(d) /\ AtRest(d) /\ Alike(x, d) /\ y.out = x.out /\ y.ind = << >>
    BY <1>1, <1>2, Entered DEF Alike
  <1> HIDE DEF d, y
  <1>4. SockState(sk, y.ind) = sk /\ l \o y.ind = l  BY <1>3, LogTyped, ToldNone
  <1>5. /\ SendSide(d, k) /\ AppSide(d, sk, l) /\ GotSide(d, m) /\ ReceiveSide(d, p, m)
        /\ AckSide(d, p) /\ SendAdvance(c, n, d, k) /\ RecvAdvance(c, d, p)
        /\ \A s \in BagToSet(y.out) : GoodSegment(s, d, k, p)
    BY <1>3, AlikeIsGood
  <1>6. Outcome(c, n, d, k, p, m, sk, l, y.out)  BY <1>3, <1>5 DEF Outcome
  <1>7. QED  BY <1>4, <1>6 DEF OutcomeOf, y, d

(* An event that at most sends something about c as it is.                 *)
LEMMA Quiet ==
    ASSUME NEW c, NEW n, NEW p, NEW m, NEW sk, NEW l, Sound(c, n, p, m, sk, l), NEW x, IsConn(x),
           c.state # "CLOSED", Alike(c, x), x.event = "IGNORE", x.ind = << >>,
           \A s \in BagToSet(x.out) : GoodSegment(s, c, n, p)
    PROVE  OutcomeOf(c, n, x, n, p, m, sk, l)
  <1>1. /\ SendSide(x, n) /\ AppSide(x, sk, l) /\ GotSide(x, m) /\ ReceiveSide(x, p, m)
        /\ AckSide(x, p) /\ \A s \in BagToSet(x.out) : GoodSegment(s, x, n, p)
    BY AlikeIsGood DEF Sound
  <1>2. n \in Nat /\ IsConn(c) /\ c.snd_max \in Int  BY DEF Sound, SendSide, IsConn
  <1>3. SendAdvance(c, n, x, n)  BY <1>2, SendMovesOn DEF Alike, Carried
  <1>4. RecvAdvance(c, x, p)
    BY DEF Alike, Carried, RecvAdvance, Acknowledged, Closed
  <1>5. QED  BY <1>1, <1>2, <1>3, <1>4, Stays DEF Alike

(* A connection with nothing sent yet fits whatever comes.                 *)
LEMMA NothingSent == ASSUME NEW c, AtRest(c) PROVE \A n, p : OutFits(c, n, p)
  BY DEF AtRest, OutFits

(* Segments that fit are good while the connection stays connected.        *)
LEMMA FitsAreGood ==
    ASSUME NEW x, IsConn(x), NEW n, NEW p, OutFits(x, n, p), x.state \in Connected
    PROVE  \A s \in BagToSet(x.out) : GoodSegment(s, x, n, p)
  <1>1. Carried(x, x) /\ x.state # "INIT"  BY DEF Carried, Connected, Synchronized
  <1>2. QED  BY <1>1, FitIsGood DEF OutFits

(* Counting duplicate ACKs changes nothing else.                           *)
LEMMA DupAcksSet ==
    ASSUME NEW c, IsConn(c), NEW k \in Int
    PROVE  /\ IsConn(DupAcks(c, k)) /\ Alike(c, DupAcks(c, k)) /\ DupAcks(c, k).out = c.out
           /\ DupAcks(c, k).event = c.event /\ DupAcks(c, k).ind = c.ind
  <1>1. IsConn(DupAcks(c, k))  BY DEF IsConn, Fields, DupAcks
  <1>2. QED  BY <1>1 DEF IsConn, Fields, DupAcks, Alike, Carried

(* An event that sends an ACK and at most forgets the duplicate ACKs.      *)
LEMMA OnlyAck ==
    ASSUME NEW c, NEW n, NEW p, NEW m, NEW sk, NEW l, Sound(c, n, p, m, sk, l),
           c.state \in Connected
    PROVE  /\ OutcomeOf(c, n, SendAck(c), n, p, m, sk, l)
           /\ OutcomeOf(c, n, DupAcks(SendAck(c), 0), n, p, m, sk, l)
  <1> DEFINE x == SendAck(c)
             y == DupAcks(x, 0)
  <1>1. IsConn(c) /\ n \in Nat /\ AtRest(c) /\ c.state # "CLOSED"
    BY DEF Sound, SendSide, Connected, Synchronized
  <1>2. AckFits(c.rcv_nxt, p)  BY AckDue DEF Sound
  <1>3. OutFits(c, n, p)  BY <1>1, NothingSent
  <1>4. /\ IsConn(x) /\ SendsOnly(c, x) /\ OutFits(x, n, p) /\ x.timers = c.timers
        /\ x.snd_nxt = c.snd_nxt /\ x.snd_max = c.snd_max
    BY <1>1, <1>2, <1>3, AckSent
  <1> HIDE DEF x, y
  <1>5. Alike(c, x) /\ x.event = "IGNORE" /\ x.ind = << >>
    BY <1>1, <1>4 DEF SendsOnly, Alike, Carried, AtRest
  <1>6. \A s \in BagToSet(x.out) : GoodSegment(s, x, n, p)  BY <1>4, FitsAreGood DEF SendsOnly
  <1>7. Alike(x, c)  BY <1>5 DEF Alike, Carried
  <1>8. \A s \in BagToSet(x.out) : GoodSegment(s, c, n, p)  BY <1>6, <1>7, AlikeIsGood
  <1>9. OutcomeOf(c, n, x, n, p, m, sk, l)  BY <1>1, <1>4, <1>5, <1>8, Quiet
  <1>10. IsConn(y) /\ Alike(x, y) /\ y.out = x.out /\ y.event = x.event /\ y.ind = x.ind
    BY <1>4, DupAcksSet DEF y
  <1>11. Alike(c, y)  BY <1>5, <1>10 DEF Alike, Carried
  <1>12. OutcomeOf(c, n, y, n, p, m, sk, l)
    BY <1>1, <1>5, <1>8, <1>10, <1>11, Quiet
  <1>13. QED  BY <1>9, <1>12 DEF x, y

(* A reset that is sent tells nothing about the connection.                *)
LEMMA OnlyRst ==
    ASSUME NEW c, NEW n, NEW p, NEW m, NEW sk, NEW l, Sound(c, n, p, m, sk, l),
           c.state # "CLOSED", NEW s, IsSegment(s), s.flags \in {{"RST"}, {"RST", "ACK"}},
           s.data = None
    PROVE  OutcomeOf(c, n, Send(c, s), n, p, m, sk, l)
  <1> DEFINE x == Send(c, s)
  <1>1. IsConn(c) /\ AtRest(c)  BY DEF Sound
  <1>2. /\ IsConn(x) /\ SendsOnly(c, x) /\ x.timers = c.timers
        /\ x.snd_nxt = c.snd_nxt /\ x.snd_max = c.snd_max
        /\ BagToSet(x.out) = BagToSet(c.out) \cup {s}
    BY <1>1, SendOne
  <1> HIDE DEF x
  <1>3. Alike(c, x) /\ x.event = "IGNORE" /\ x.ind = << >>
    BY <1>1, <1>2 DEF SendsOnly, Alike, Carried, AtRest
  <1>4. /\ "SYN" \notin s.flags /\ s.flags # {"SYN"} /\ "FIN" \notin s.flags
        /\ "RST" \in s.flags
    OBVIOUS
  <1>5. GoodSegment(s, c, n, p)  BY <1>4 DEF GoodSegment
  <1>6. \A t \in BagToSet(x.out) : GoodSegment(t, c, n, p)
    BY <1>1, <1>2, <1>5 DEF AtRest
  <1>7. QED  BY <1>2, <1>3, <1>6, Quiet DEF x

(* An event that does nothing.                                             *)
LEMMA NothingDone ==
    ASSUME NEW c, NEW n, NEW p, NEW m, NEW sk, NEW l, Sound(c, n, p, m, sk, l),
           c.state # "CLOSED"
    PROVE  OutcomeOf(c, n, c, n, p, m, sk, l)
  <1>1. /\ IsConn(c) /\ Alike(c, c) /\ c.event = "IGNORE" /\ c.ind = << >>
        /\ \A s \in BagToSet(c.out) : GoodSegment(s, c, n, p)
    BY DEF Sound, AtRest, Alike, Carried
  <1>2. QED  BY <1>1, Quiet

(* An event that closes the connection: i is what it tells before that.    *)
LEMMA Closes ==
    ASSUME NEW c, NEW n, NEW p, NEW m, NEW sk, NEW l, Sound(c, n, p, m, sk, l), NEW s, NEW x,
           IsConn(x), Target(x) = "CLOSED", x.iss = c.iss, x.got = c.got, x.state = c.state,
           OutFits(x, n, p),
           LET i == IF x.state \notin {"CLOSED", "TIME_WAIT"} /\ x.event # "ABORT"
                    THEN Append(x.ind, "CLOSED") ELSE x.ind IN
           SockState(s, i) \in {"CLOSED", "SOCKERROR"} /\ Ended(l \o i)
    PROVE  OutcomeOf(c, n, x, n, p, m, s, l)
  <1> DEFINE y == Transition(x)
  <1>1. y.ind = IF x.state \notin {"CLOSED", "TIME_WAIT"} /\ x.event # "ABORT"
                THEN Append(x.ind, "CLOSED") ELSE x.ind
    BY ClosedDown
  <1> HIDE DEF y
  <1>2. SockState(s, y.ind) \in {"CLOSED", "SOCKERROR"} /\ Ended(l \o y.ind)  BY <1>1
  <1>3. IsConn(c) /\ n \in Nat /\ GotSide(x, m)  BY DEF Sound, SendSide, GotSide
  <1>4. Outcome(c, n, Kept(y), n, p, m, SockState(s, y.ind), l \o y.ind, y.out)
    BY <1>2, <1>3, ClosesWell DEF y
  <1>5. QED  BY <1>4 DEF OutcomeOf, y

(* An event that closes the connection and tells so, after a problem or    *)
(* none.                                                                   *)
LEMMA ClosesTelling ==
    ASSUME NEW c, NEW n, NEW p, NEW m, NEW sk, NEW l, Sound(c, n, p, m, sk, l), NEW s, NEW x,
           IsConn(x), Target(x) = "CLOSED", x.iss = c.iss, x.got = c.got, x.state = c.state,
           OutFits(x, n, p), x.state \notin {"CLOSED", "TIME_WAIT"}, x.event # "ABORT",
           x.ind = << >> \/ \E a \in Problems : x.ind = Append(<< >>, a)
    PROVE  OutcomeOf(c, n, x, n, p, m, s, l)
  <1>1. c.state \in States /\ l \in Seq(Indications)  BY LogTyped DEF Sound, IsConn
  <1>2. l \in Told  BY <1>1 DEF Sound, AppSide, Told, States, Synchronized
  <1>3. "CLOSED" \in Indications /\ Problems \subseteq Indications  BY DEF Indications, Problems
  <1> DEFINE i == Append(x.ind, "CLOSED")
  <1>4. x.ind \in Seq(Indications)  BY DEF IsConn
  <1>5. SockState(s, i) = "CLOSED" /\ l \o i = Append(l \o x.ind, "CLOSED")
    BY <1>1, <1>4, ToldLast
  <1>6. \/ l \o x.ind \in Told
        \/ \E k \in Told, a \in Problems : l \o x.ind = Append(k, a)
    <2>1. CASE x.ind = << >>  BY <1>1, <1>2, <2>1
    <2>2. CASE \E a \in Problems : x.ind = Append(<< >>, a)
      <3>1. PICK a \in Problems : x.ind = Append(<< >>, a)  BY <2>2
      <3>2. l \o x.ind = Append(l \o << >>, a)
        BY <1>1, <1>3, <3>1, LogGrows
      <3>3. l \o << >> = l  BY <1>1
      <3>4. QED  BY <1>2, <3>1, <3>2, <3>3
    <2>3. QED  BY <2>1, <2>2
  <1>7. Ended(l \o i)  BY <1>5, <1>6 DEF Ended
  <1>8. QED  BY <1>5, <1>7, Closes

-----------------------------------------------------------------------------
(* The commands of the application.                                        *)

(* A handler that makes x of the connection, in terms of OutcomeOf.        *)
LEMMA PerformedWell ==
    ASSUME IInv, NEW h \in Hosts, NEW x, NEW s, NEW rest,
           Perform(h, x, s, rest), DOMAIN rest = Hosts,
           \A g \in Hosts : BagToSet(rest[g]) \subseteq BagToSet(net[g]),
           DOMAIN sent' = Hosts, sent'[Peer(h)] = sent[Peer(h)],
           faults' \in 0..MaxFaults,
           OutcomeOf(conn[h], sent[h], x, sent'[h], conn[Peer(h)], sent[Peer(h)], s, log[h])
    PROVE  IInv'
  BY Performed DEF OutcomeOf

(* A new attempt: what selectInitialSeqNum() and the SYN leave.            *)
Attempt(c, x) ==
    /\ x.iss = c.iss + ISSStep /\ x.snd_una = x.iss /\ x.snd_nxt = x.iss + 1
    /\ x.snd_max = x.iss + 1 /\ x.bufferEnd = x.iss + 1
    /\ x.send_fin = c.send_fin /\ x.snd_fin_seq = c.snd_fin_seq
    /\ x.fin_ack_rcvd = c.fin_ack_rcvd /\ x.rcv_fin_seq = c.rcv_fin_seq /\ x.got = c.got
    /\ x.state = c.state /\ x.ind = c.ind

(* The send side is in order when an attempt begins.                       *)
LEMMA AttemptOrdered ==
    ASSUME NEW c, IsConn(c), NEW n, SendSide(c, n), Unopened(c, n), c.state # "CLOSED",
           NEW x, IsConn(x), Attempt(c, x)
    PROVE  SendOrder(x, 0) /\ FinWaits(x) /\ ~x.send_fin
  <1>1. c.iss \in Nat /\ x.iss \in Nat /\ ISSStep \in Nat  BY ConnectionAssumption DEF IsConn
  <1>2. c.bufferEnd = c.iss + 1  BY <1>1 DEF SendSide, SendOrder, Unopened
  <1>3. ~c.fin_ack_rcvd  BY <1>1, <1>2 DEF SendSide, SendOrder, Unopened
  <1>4. x.fin_ack_rcvd <=> x.snd_una = x.bufferEnd + 1  BY <1>1, <1>3 DEF Attempt
  <1>5. QED  BY <1>1, <1>4 DEF Attempt, SendOrder, FinWaits, Unopened

(* The sequence numbers a SYN or SYN+ACK leaves.                           *)
LEMMA NumberedTyped ==
    ASSUME NEW e, IsConn(e), NEW i \in Int
    PROVE  IsConn([e EXCEPT !.snd_nxt = i, !.snd_max = i])
  <1> DEFINE f == [e EXCEPT !.snd_nxt = i, !.snd_max = i]
  <1>1. DOMAIN f = Fields /\ f.snd_nxt = i /\ f.snd_max = i  BY DEF IsConn, Fields
  <1>2. \A k \in Fields \ {"snd_nxt", "snd_max"} : f[k] = e[k]  BY DEF IsConn, Fields
  <1> HIDE DEF f
  <1>3. /\ f.state = e.state /\ f.active = e.active /\ f.iss = e.iss /\ f.snd_una = e.snd_una
        /\ f.bufferEnd = e.bufferEnd /\ f.rcv_nxt = e.rcv_nxt /\ f.buffered = e.buffered
        /\ f.send_fin = e.send_fin /\ f.snd_fin_seq = e.snd_fin_seq
        /\ f.fin_ack_rcvd = e.fin_ack_rcvd /\ f.rcv_fin_seq = e.rcv_fin_seq
        /\ f.snd_cwnd = e.snd_cwnd /\ f.dupacks = e.dupacks /\ f.afterRto = e.afterRto
        /\ f.rexmit_count = e.rexmit_count /\ f.syn_rexmit_count = e.syn_rexmit_count
        /\ f.timers = e.timers /\ f.got = e.got /\ f.assertFailed = e.assertFailed
        /\ f.ind = e.ind
    BY <1>2 DEF Fields
  <1>4. IsConn(f)  BY <1>1, <1>3 DEF IsConn
  <1>5. QED  BY <1>4 DEF f

(* process_OPEN_ACTIVE().                                                  *)
LEMMA OpenActiveWell ==
    ASSUME NEW c, NEW n, NEW p, NEW m, NEW sk, NEW l, Sound(c, n, p, m, sk, l), c.state = "INIT"
    PROVE  LET d == [SelectInitialSeqNum(c) EXCEPT !.active = TRUE, !.timers = {"ESTAB"}] IN
           OutcomeOf(c, n, Event(StartSynRexmitTimer(SendSyn(d)), "OPEN_ACTIVE"), n, p, m,
                     "CONNECTING", l)
  <1> DEFINE d == [SelectInitialSeqNum(c) EXCEPT !.active = TRUE, !.timers = {"ESTAB"}]
             s == Segment({"SYN"}, d.iss, None, None)
             e == Send(d, s)
             f == SendSyn(d)
             x == Event(StartSynRexmitTimer(f), "OPEN_ACTIVE")
             y == Transition(x)
             z == Kept(y)
  <1>1. /\ IsConn(c) /\ AtRest(c) /\ SendSide(c, n) /\ Unopened(c, n) /\ n = 0
        /\ c.iss \in Nat /\ ISSStep \in Nat /\ l = << >>
    BY ConnectionAssumption DEF Sound, SendSide, IsConn, Unopened, AppSide
  <1>2. IsConn(d) /\ d.out = c.out
    <2> DEFINE i == c.iss + ISSStep
    <2>1. i \in Nat /\ i \in Int /\ i + 1 \in Int  BY <1>1
    <2>2. d = [c EXCEPT !.iss = i, !.snd_una = i, !.snd_nxt = i, !.snd_max = i,
                        !.bufferEnd = i + 1, !.active = TRUE, !.timers = {"ESTAB"}]
      BY <1>1 DEF IsConn, Fields, SelectInitialSeqNum
    <2> HIDE DEF d, i
    <2>3. IsConn(d)  BY <1>1, <2>1, <2>2 DEF IsConn, Fields
    <2>4. d.out = c.out  BY <1>1, <2>2 DEF IsConn, Fields
    <2>5. QED  BY <2>3, <2>4
  <1>3. /\ d.iss = c.iss + ISSStep /\ d.snd_una = d.iss /\ d.bufferEnd = d.iss + 1
        /\ d.send_fin = c.send_fin /\ d.snd_fin_seq = c.snd_fin_seq
        /\ d.fin_ack_rcvd = c.fin_ack_rcvd /\ d.rcv_fin_seq = c.rcv_fin_seq /\ d.got = c.got
        /\ d.state = c.state /\ d.ind = c.ind /\ d.active /\ d.timers = {"ESTAB"}
        /\ d.buffered = c.buffered
    BY <1>1 DEF IsConn, Fields, SelectInitialSeqNum
  <1> HIDE DEF d
  <1>4. /\ IsSegment(s) /\ s.flags = {"SYN"} /\ s.seq = d.iss /\ s.data = None
    <2>1. {"SYN"} \in Kinds /\ d.iss \in Int /\ None \in Int  BY <1>2 DEF Kinds, None, IsConn
    <2>2. QED  BY <2>1, SegmentTyped
  <1>5. f = [e EXCEPT !.snd_nxt = d.iss + 1, !.snd_max = d.iss + 1]  BY DEF SendSyn
  <1>6. IsConn(e) /\ BagToSet(e.out) = BagToSet(d.out) \cup {s} /\ SendsOnly(d, e) /\ e.timers = d.timers
    BY <1>2, SendOne
  <1> HIDE DEF s, e, f
  <1>7. IsConn(f) /\ SendsOnly(d, f) /\ f.out = e.out /\ f.timers = d.timers
        /\ f.snd_nxt = d.iss + 1 /\ f.snd_max = d.iss + 1
    <2>1. d.iss \in Nat  BY <1>2 DEF IsConn
    <2>2. d.iss + 1 \in Int  BY <2>1
    <2>3. IsConn(f)  BY <1>5, <1>6, <2>2, NumberedTyped
    <2>4. QED  BY <1>5, <1>6, <2>3 DEF IsConn, Fields, SendsOnly
  <1>8. IsConn(x)  BY <1>7 DEF IsConn, Fields, Event, StartSynRexmitTimer, Start
  <1>9. /\ x.out = f.out /\ x.timers = f.timers \cup {"SYN"} /\ x.event = "OPEN_ACTIVE"
        /\ x.iss = f.iss /\ x.snd_una = f.snd_una /\ x.snd_nxt = f.snd_nxt /\ x.snd_max = f.snd_max
        /\ x.bufferEnd = f.bufferEnd /\ x.send_fin = f.send_fin /\ x.snd_fin_seq = f.snd_fin_seq
        /\ x.fin_ack_rcvd = f.fin_ack_rcvd /\ x.rcv_fin_seq = f.rcv_fin_seq /\ x.got = f.got
        /\ x.state = f.state /\ x.ind = f.ind /\ x.active = f.active /\ x.buffered = f.buffered
    BY <1>7 DEF IsConn, Fields, Event, StartSynRexmitTimer, Start
  <1> HIDE DEF x
  <1>10. /\ Attempt(c, x) /\ x.active /\ x.timers = {"ESTAB", "SYN"} /\ x.buffered = {}
         /\ BagToSet(x.out) = {s} /\ x.state = "INIT" /\ x.ind = << >>
    BY <1>1, <1>2, <1>3, <1>6, <1>7, <1>9 DEF SendsOnly, Attempt, AtRest, Unopened
  <1>11. Target(x) = "SYN_SENT"
    <2>1. <<x.state, x.event, "SYN_SENT">> \in FSM  BY <1>9, <1>10 DEF FSM
    <2>2. QED  BY <1>10, <2>1, RowTaken
  <1>12. /\ IsConn(z) /\ AtRest(z) /\ Carried(x, z) /\ z.state = "SYN_SENT"
         /\ y.out = x.out /\ z.timers = x.timers /\ y.ind = x.ind
    <2>1. "SYN_SENT" \in States \ {"CLOSED"} /\ x.state # "CLOSED"  BY <1>10 DEF States
    <2>2. QED  BY <1>8, <1>10, <1>11, <2>1, Entered
  <1> HIDE DEF y, z
  <1>13. SendOrder(x, 0) /\ FinWaits(x) /\ ~x.send_fin
    BY <1>1, <1>8, <1>10, AttemptOrdered
  <1>14. SendSide(z, n)
    <2>1. SendOrder(z, n)  BY <1>1, <1>12, <1>13 DEF SendOrder, Carried
    <2>2. SynSent(z)  BY <1>1, <1>10, <1>12 DEF SynSent, Carried, Attempt, Unopened
    <2>3. ~z.send_fin /\ z.active  BY <1>10, <1>12, <1>13 DEF Carried
    <2>4. QED  BY <1>1, <1>12, <2>1, <2>2, <2>3 DEF SendSide, Synchronized, Finishing
  <1>15. AppSide(z, "CONNECTING", l)
    BY <1>1, <1>12 DEF AppSide
  <1>16. GotSide(z, m) /\ ReceiveSide(z, p, m) /\ AckSide(z, p)
    BY <1>10, <1>12 DEF Sound, GotSide, ReceiveSide, AckSide, Connected, Synchronized, Carried, Attempt
  <1>17. SendAdvance(c, n, z, n) /\ RecvAdvance(c, z, p)
    <2>1. SendAdvance(c, n, z, n)
      BY <1>1, <1>10, <1>12 DEF SendAdvance, Carried, Attempt
    <2>2. RecvAdvance(c, z, p)
      BY DEF RecvAdvance, Acknowledged, Closed, Connected, Synchronized
    <2>3. QED  BY <2>1, <2>2
  <1>18. \A t \in BagToSet(y.out) : GoodSegment(t, z, n, p)
    <2>1. GoodSegment(s, z, n, p)
      <3>1. s.seq = z.iss /\ z.snd_max = s.seq + 1 /\ z.active
        BY <1>3, <1>4, <1>7, <1>9, <1>10, <1>12 DEF SendsOnly, Attempt, Carried
      <3>2. s.seq \in Int /\ z.snd_max \in Int  BY <1>4, <1>12 DEF IsSegment, IsConn
      <3>3. Reached(z, s.seq + 1)  BY <3>1, <3>2 DEF Reached
      <3>4. "FIN" \notin s.flags /\ "ACK" \notin s.flags  BY <1>4
      <3>5. QED  BY <1>4, <1>12, <3>1, <3>3, <3>4 DEF GoodSegment
    <2>2. QED  BY <1>10, <1>12, <2>1
  <1>19. SockState("CONNECTING", y.ind) = "CONNECTING" /\ l \o y.ind = l
    BY <1>1, <1>10, <1>12 DEF SockState
  <1>20. Outcome(c, n, z, n, p, m, "CONNECTING", l, y.out)
    BY <1>12, <1>14, <1>15, <1>16, <1>17, <1>18 DEF Outcome
  <1>21. QED  BY <1>19, <1>20 DEF OutcomeOf, x, y, z, f, d

(* What is sent fits a connection that is alike.                           *)
LEMMA SameFits ==
    ASSUME NEW c, NEW x, Alike(c, x), x.out = c.out, NEW n, NEW p, OutFits(c, n, p)
    PROVE  OutFits(x, n, p)
  BY DEF Alike, Carried, OutFits, Fits, EndOf

(* Choosing the event changes nothing else.                                *)
LEMMA EventSet ==
    ASSUME NEW c, IsConn(c), NEW e
    PROVE  /\ IsConn(Event(c, e)) /\ Alike(c, Event(c, e))
           /\ Event(c, e).event = e /\ Event(c, e).out = c.out /\ Event(c, e).ind = c.ind
           /\ \A n, p : OutFits(c, n, p) => OutFits(Event(c, e), n, p)
  <1>1. IsConn(Event(c, e))  BY DEF IsConn, Fields, Event
  <1>2. /\ Alike(c, Event(c, e)) /\ Event(c, e).event = e
        /\ Event(c, e).out = c.out /\ Event(c, e).ind = c.ind
    BY DEF IsConn, Fields, Event, Alike, Carried
  <1>3. QED  BY <1>1, <1>2, SameFits

(* sendIndicationToApp() changes nothing but what the application is told. *)
LEMMA Indicated ==
    ASSUME NEW c, IsConn(c), NEW i \in Indications
    PROVE  /\ IsConn(Indicate(c, i)) /\ Alike(c, Indicate(c, i))
           /\ Indicate(c, i).ind = Append(c.ind, i) /\ Indicate(c, i).out = c.out
           /\ Indicate(c, i).event = c.event
           /\ \A n, p : OutFits(c, n, p) => OutFits(Indicate(c, i), n, p)
  <1>1. IsConn(Indicate(c, i))  BY DEF IsConn, Fields, Indicate
  <1>2. /\ Alike(c, Indicate(c, i)) /\ Indicate(c, i).ind = Append(c.ind, i)
        /\ Indicate(c, i).out = c.out /\ Indicate(c, i).event = c.event
    BY DEF IsConn, Fields, Indicate, Alike, Carried
  <1>3. QED  BY <1>1, <1>2, SameFits

(* process_OPEN_PASSIVE().                                                 *)
LEMMA OpenPassiveWell ==
    ASSUME NEW c, NEW n, NEW p, NEW m, NEW sk, NEW l, Sound(c, n, p, m, sk, l), c.state = "INIT"
    PROVE  OutcomeOf(c, n, Event(c, "OPEN_PASSIVE"), n, p, m, "LISTENING", l)
  <1> DEFINE x == Event(c, "OPEN_PASSIVE")
             y == Transition(x)
             z == Kept(y)
  <1>1. /\ IsConn(c) /\ AtRest(c) /\ SendSide(c, n) /\ Unopened(c, n) /\ n = 0 /\ l = << >>
    BY DEF Sound, SendSide, Unopened, AppSide
  <1>2. /\ IsConn(x) /\ Alike(c, x) /\ x.event = "OPEN_PASSIVE" /\ x.out = c.out /\ x.ind = << >>
    BY <1>1, EventSet DEF AtRest
  <1> HIDE DEF x
  <1>3. Target(x) = "LISTEN"
    <2>1. <<x.state, x.event, "LISTEN">> \in FSM  BY <1>2 DEF FSM, Alike
    <2>2. QED  BY <1>2, <2>1, RowTaken
  <1>4. /\ IsConn(z) /\ AtRest(z) /\ Carried(x, z) /\ z.state = "LISTEN"
        /\ y.out = x.out /\ z.timers = x.timers \ {"ESTAB", "SYN"} /\ y.ind = x.ind
    <2>1. "LISTEN" \in States \ {"CLOSED"} /\ x.state = "INIT"  BY <1>2 DEF States, Alike
    <2>2. QED  BY <1>2, <1>3, <2>1, Entered
  <1> HIDE DEF y, z
  <1>5. Carried(c, z) /\ z.timers = {}  BY <1>1, <1>2, <1>4 DEF Alike, Carried, Unopened
  <1>6. SendSide(z, n)
    <2>1. SendOrder(z, n)  BY <1>1, <1>5 DEF SendSide, SendOrder, Carried
    <2>2. Unopened(z, n)  BY <1>1, <1>5 DEF Unopened, Carried
    <2>3. QED  BY <1>1, <1>4, <2>1, <2>2 DEF SendSide, Synchronized, Finishing
  <1>7. AppSide(z, "LISTENING", l)  BY <1>1, <1>4 DEF AppSide
  <1>8. GotSide(z, m) /\ ReceiveSide(z, p, m) /\ AckSide(z, p)
    BY <1>1, <1>4, <1>5 DEF Sound, GotSide, ReceiveSide, AckSide, Connected, Synchronized, Carried, Unopened
  <1>9. SendAdvance(c, n, z, n)
    <2>1. n \in Nat /\ c.snd_max \in Int  BY <1>1 DEF IsConn
    <2>2. QED  BY <1>1, <1>4, <1>5, <2>1, SendMovesOn DEF Carried
  <1>10. RecvAdvance(c, z, p)
    BY DEF RecvAdvance, Acknowledged, Closed, Connected, Synchronized
  <1>11. BagToSet(y.out) = {}  BY <1>1, <1>2, <1>4 DEF AtRest
  <1>12. SockState("LISTENING", y.ind) = "LISTENING" /\ l \o y.ind = l
    BY <1>1, <1>2, <1>4 DEF SockState
  <1>13. Outcome(c, n, z, n, p, m, "LISTENING", l, y.out)
    BY <1>4, <1>6, <1>7, <1>8, <1>9, <1>10, <1>11 DEF Outcome
  <1>14. QED  BY <1>12, <1>13 DEF OutcomeOf, x, y, z

(* sendData() in the states that send data.                                *)
LEMMA SideAfterSending ==
    ASSUME NEW b, IsConn(b), NEW e, NEW k \in Nat, NEW p, SentMore(b, e, k, p),
           b.state \in {"ESTABLISHED", "CLOSE_WAIT"}, b.timers \subseteq {"REXMIT", "2MSL"},
           "2MSL" \notin b.timers, b.iss < b.snd_una, FinWaits(b), ~b.send_fin
    PROVE  SendSide(e, k)
  <1>1. /\ IsConn(e) /\ SendsOnly(b, e) /\ SendOrder(e, k) /\ Timed(e) /\ FinWaits(e)
        /\ e.timers \cup {"REXMIT"} = b.timers \cup {"REXMIT"}
    BY DEF SentMore, SendsOnly
  <1>2. e.iss < e.snd_una /\ e.state \in {"ESTABLISHED", "CLOSE_WAIT"}  BY <1>1 DEF SendsOnly
  <1>3. e.iss < e.snd_max
    <2>1. e.iss \in Nat /\ e.snd_una \in Int /\ e.snd_nxt \in Int /\ e.snd_max \in Int
      BY <1>1 DEF IsConn
    <2>2. QED  BY <1>1, <1>2, <2>1 DEF SendOrder
  <1>4. e.timers \subseteq {"REXMIT", "2MSL"} /\ "2MSL" \notin e.timers  BY <1>1
  <1>5. QED  BY <1>1, <1>2, <1>3, <1>4 DEF SendSide, Finishing

(* process_SEND(): the data is queued, and sent when the state allows.     *)
LEMMA SendCommandWell ==
    ASSUME NEW c, NEW n, NEW p, NEW m, NEW sk, NEW l, Sound(c, n, p, m, sk, l), NEW idle,
           sk \in {"CONNECTED", "CONNECTING", "PEER_CLOSED"}, ~c.send_fin
    PROVE  LET d == [c EXCEPT !.bufferEnd = @ + 1] IN
           OutcomeOf(c, n, IF d.state \in {"ESTABLISHED", "CLOSE_WAIT"} THEN SendData(d, idle) ELSE d,
                     n + 1, p, m, sk, l)
  <1> DEFINE d == [c EXCEPT !.bufferEnd = @ + 1]
             x == IF d.state \in {"ESTABLISHED", "CLOSE_WAIT"} THEN SendData(d, idle) ELSE d
  <1>1. /\ IsConn(c) /\ AtRest(c) /\ SendSide(c, n) /\ AppSide(c, sk, l) /\ n \in Nat
    BY DEF Sound, SendSide
  <1>2. /\ c.iss \in Nat /\ c.snd_una \in Int /\ c.snd_nxt \in Int /\ c.snd_max \in Int
        /\ c.bufferEnd \in Int /\ c.state \in States
    BY <1>1 DEF IsConn
  <1>3. c.state \in {"SYN_SENT", "SYN_RCVD", "ESTABLISHED", "CLOSE_WAIT"}
    <2>1. c.state \notin {"INIT", "LISTEN", "TIME_WAIT", "CLOSED"}  BY <1>1 DEF AppSide
    <2>2. c.state \notin Finishing  BY <1>1, <1>2 DEF SendSide, SendOrder, Finishing
    <2>3. QED  BY <1>2, <2>1, <2>2 DEF Finishing, States, Synchronized
  <1>4. /\ IsConn(d) /\ d.bufferEnd = c.bufferEnd + 1 /\ d.state = c.state
        /\ d.active = c.active /\ d.iss = c.iss /\ d.snd_una = c.snd_una /\ d.snd_nxt = c.snd_nxt
        /\ d.snd_max = c.snd_max /\ d.rcv_nxt = c.rcv_nxt /\ d.buffered = c.buffered
        /\ d.send_fin = c.send_fin /\ d.fin_ack_rcvd = c.fin_ack_rcvd
        /\ d.rcv_fin_seq = c.rcv_fin_seq /\ d.got = c.got /\ d.timers = c.timers
        /\ d.out = c.out /\ d.ind = c.ind /\ d.event = c.event
    <2>1. IsConn(d)  BY <1>1, <1>2 DEF IsConn, Fields
    <2>2. QED  BY <1>1, <2>1 DEF IsConn, Fields
  <1> HIDE DEF d
  <1>5. SendOrder(d, n + 1)  BY <1>1, <1>2, <1>3, <1>4 DEF SendSide, SendOrder
  <1>6. FinWaits(d) /\ ~d.send_fin  BY <1>1, <1>2, <1>3, <1>4 DEF SendSide, SendOrder, FinWaits
  <1>7. GotSide(d, m) /\ ReceiveSide(d, p, m) /\ AckSide(d, p) /\ AppSide(d, sk, l)
    BY <1>4 DEF Sound, GotSide, ReceiveSide, AckSide, AppSide, Buffered, BeforeFin, PastFin, Behind,
                Acknowledged
  <1>8. OutFits(d, n + 1, p)  BY <1>1, <1>4 DEF AtRest, OutFits
  <1>9. CASE c.state \in {"SYN_SENT", "SYN_RCVD"}
    <2>1. x = d  BY <1>4, <1>9
    <2>2. SendSide(d, n + 1)
      <3>1. c.state = "SYN_RCVD" => c.active  BY <1>1, <1>9 DEF AppSide
      <3>2. SynSent(d)  BY <1>1, <1>4, <1>9 DEF SendSide, SynSent
      <3>3. d.active  BY <1>1, <1>4, <1>9, <3>1 DEF SendSide
      <3>4. QED  BY <1>1, <1>4, <1>5, <1>6, <1>9, <3>2, <3>3 DEF SendSide, Synchronized, Finishing
    <2>3. SendAdvance(c, n, d, n + 1)
      BY <1>1, <1>2, <1>3, <1>4, SendMovesOn
    <2>4. RecvAdvance(c, d, p)  BY <1>4 DEF RecvAdvance, Acknowledged, Closed
    <2>5. BagToSet(d.out) = {}  BY <1>1, <1>4 DEF AtRest
    <2>6. OutcomeOf(c, n, d, n + 1, p, m, sk, l)
      BY <1>1, <1>3, <1>4, <1>7, <2>2, <2>3, <2>4, <2>5, Stays DEF AtRest
    <2>7. QED  BY <2>1, <2>6 DEF x, d
  <1>10. CASE c.state \in {"ESTABLISHED", "CLOSE_WAIT"}
    <2>1. x = SendData(d, idle)  BY <1>4, <1>10
    <2>2. /\ d.iss < d.snd_una /\ Timed(d) /\ d.timers \subseteq {"REXMIT", "2MSL"}
          /\ "2MSL" \notin d.timers
      BY <1>1, <1>4, <1>10 DEF SendSide, Synchronized, Timed
    <2>3. AckFits(d.rcv_nxt, p)
      <3>1. c.state \in Connected  BY <1>10 DEF Connected, Synchronized
      <3>2. QED  BY <1>4, <3>1, AckDue DEF Sound
    <2>4. SentMore(d, SendData(d, idle), n + 1, p)
      BY <1>1, <1>4, <1>5, <1>8, <2>2, <2>3, Sending
    <2>5. SentMore(d, x, n + 1, p)  BY <2>1, <2>4
    <2> HIDE DEF x
    <2>6. SendSide(x, n + 1)
      BY <1>1, <1>4, <1>6, <1>10, <2>2, <2>5, SideAfterSending
    <2>7. IsConn(x) /\ SendsOnly(d, x) /\ OutFits(x, n + 1, p) /\ d.snd_max <= x.snd_max
      BY <2>5 DEF SentMore
    <2>8. GotSide(x, m) /\ ReceiveSide(x, p, m) /\ AckSide(x, p) /\ AppSide(x, sk, l)
      BY <1>7, <2>7 DEF SendsOnly, GotSide, ReceiveSide, AckSide, AppSide, Buffered, BeforeFin,
                        PastFin, Behind, Acknowledged
    <2>9. SendAdvance(c, n, x, n + 1)
      <3>1. /\ x.iss = c.iss /\ c.snd_max <= x.snd_max /\ (c.active => x.active)
            /\ c.state # "CLOSED" /\ x.state = c.state
        BY <1>3, <1>4, <2>7 DEF SendsOnly
      <3>2. QED  BY <1>1, <2>7, <3>1, SendMovesOn
    <2>10. RecvAdvance(c, x, p)  BY <1>4, <2>7 DEF RecvAdvance, Acknowledged, Closed, SendsOnly
    <2>11. x.state \in Connected  BY <1>4, <1>10, <2>7 DEF SendsOnly, Connected, Synchronized
    <2>12. \A s \in BagToSet(x.out) : GoodSegment(s, x, n + 1, p)
      BY <2>7, <2>11, FitsAreGood
    <2>13. OutcomeOf(c, n, x, n + 1, p, m, sk, l)
      <3>1. c.state # "CLOSED" /\ x.state = c.state /\ x.event = "IGNORE" /\ x.ind = << >>
        BY <1>1, <1>3, <1>4, <2>7 DEF SendsOnly, AtRest
      <3>2. QED  BY <1>1, <2>6, <2>7, <2>8, <2>9, <2>10, <2>12, <3>1, Stays
    <2>14. QED  BY <2>13 DEF x, d
  <1>11. QED  BY <1>3, <1>9, <1>10

(* A state change that leaves what was received alone.                     *)
LEMMA ReceiveFrame ==
    ASSUME NEW c, NEW z, NEW p, NEW m, ReceiveSide(c, p, m), c.state \in Connected,
           z.rcv_nxt = c.rcv_nxt, z.buffered = c.buffered, z.rcv_fin_seq = c.rcv_fin_seq,
           z.got = c.got,
           z.state \in AfterFin => c.state \in AfterFin,
           z.state \in {"SYN_RCVD", "ESTABLISHED"} => c.state \in {"SYN_RCVD", "ESTABLISHED"}
    PROVE  ReceiveSide(z, p, m)
  BY DEF ReceiveSide, Buffered, BeforeFin, PastFin, Behind

(* The states entered when the FIN is sent.                                *)
LEMMA SideAfterFin ==
    ASSUME NEW z, IsConn(z), NEW n \in Nat, SendOrder(z, n), Timed(z),
           z.state \in {"FIN_WAIT_1", "LAST_ACK"}, z.snd_max = z.bufferEnd + 1,
           z.snd_una # z.bufferEnd + 1, z.timers \subseteq {"REXMIT", "2MSL"},
           "2MSL" \notin z.timers
    PROVE  SendSide(z, n)
  <1>1. z.iss \in Nat /\ z.bufferEnd \in Int /\ z.snd_max \in Int  BY DEF IsConn
  <1>2. z.iss < z.snd_max  BY <1>1 DEF SendOrder
  <1>3. ~z.fin_ack_rcvd  BY DEF SendOrder
  <1>4. QED  BY <1>2, <1>3 DEF SendSide, Finishing

(* What process_CLOSE() makes of c.                                        *)
Closing(c) ==
    LET d == [c EXCEPT !.send_fin = TRUE, !.snd_fin_seq = c.bufferEnd] IN
    IF c.state \in {"LISTEN", "SYN_SENT"} THEN Event(c, "CLOSE")
    ELSE IF c.snd_max = c.bufferEnd
    THEN Event(StartRexmitTimer(SendFin(d)), "CLOSE")
    ELSE d

(* process_CLOSE(): the FIN is sent, or waits for the send queue.          *)
LEMMA CloseCommandWell ==
    ASSUME NEW c, NEW n, NEW p, NEW m, NEW sk, NEW l, Sound(c, n, p, m, sk, l),
           sk \in {"CONNECTED", "PEER_CLOSED", "CONNECTING", "LISTENING"}, ~c.send_fin,
           NEW s \in {"LOCALLY_CLOSED", "CLOSED"}
    PROVE  OutcomeOf(c, n, Closing(c), n, p, m, s, l)
  <1> DEFINE d == [c EXCEPT !.send_fin = TRUE, !.snd_fin_seq = c.bufferEnd]
             x == Closing(c)
  <1>1. /\ IsConn(c) /\ AtRest(c) /\ SendSide(c, n) /\ AppSide(c, sk, l) /\ n \in Nat
        /\ ReceiveSide(c, p, m)
    BY DEF Sound, SendSide
  <1>2. /\ c.iss \in Nat /\ c.snd_una \in Int /\ c.snd_nxt \in Int /\ c.snd_max \in Int
        /\ c.bufferEnd \in Int /\ c.state \in States
    BY <1>1 DEF IsConn
  <1>3. c.state \in {"LISTEN", "SYN_SENT", "SYN_RCVD", "ESTABLISHED", "CLOSE_WAIT"}
    <2>1. c.state \notin {"INIT", "TIME_WAIT", "CLOSED"}  BY <1>1 DEF AppSide
    <2>2. c.state \notin Finishing  BY <1>1, <1>2 DEF SendSide, SendOrder, Finishing
    <2>3. QED  BY <1>2, <2>1, <2>2 DEF Finishing, States, Synchronized
  <1>4. CASE c.state \in {"LISTEN", "SYN_SENT"}
    <2> DEFINE e == Event(c, "CLOSE")
    <2>1. x = e  BY <1>4 DEF Closing
    <2>2. /\ IsConn(e) /\ Alike(c, e) /\ e.event = "CLOSE" /\ e.ind = c.ind
          /\ OutFits(e, n, p)
      BY <1>1, EventSet, NothingSent
    <2> HIDE DEF e
    <2>3. e.state = c.state /\ e.iss = c.iss /\ e.got = c.got  BY <2>2 DEF Alike, Carried
    <2>4. Target(e) = "CLOSED"
      <3>1. <<e.state, e.event, "CLOSED">> \in FSM  BY <1>4, <2>2, <2>3 DEF FSM
      <3>2. QED  BY <2>2, <3>1, RowTaken
    <2>5. OutcomeOf(c, n, e, n, p, m, s, l)
      BY <1>1, <1>4, <2>2, <2>3, <2>4, ClosesTelling DEF AtRest
    <2>6. QED  BY <2>1, <2>5 DEF x
  <1>5. CASE c.state \in {"SYN_RCVD", "ESTABLISHED", "CLOSE_WAIT"}
    <2>1. /\ IsConn(d) /\ d.send_fin /\ d.snd_fin_seq = c.bufferEnd
          /\ d.bufferEnd = c.bufferEnd /\ d.state = c.state
          /\ d.active = c.active /\ d.iss = c.iss /\ d.snd_una = c.snd_una /\ d.snd_nxt = c.snd_nxt
          /\ d.snd_max = c.snd_max /\ d.rcv_nxt = c.rcv_nxt /\ d.buffered = c.buffered
          /\ d.fin_ack_rcvd = c.fin_ack_rcvd
          /\ d.rcv_fin_seq = c.rcv_fin_seq /\ d.got = c.got /\ d.timers = c.timers
          /\ d.out = c.out /\ d.ind = c.ind /\ d.event = c.event
      <3>1. IsConn(d)  BY <1>1, <1>2 DEF IsConn, Fields
      <3>2. QED  BY <1>1, <3>1 DEF IsConn, Fields
    <2> HIDE DEF d
    <2>2. SendOrder(d, n)  BY <1>1, <1>2, <1>5, <2>1 DEF SendSide, SendOrder
    <2>3. c.snd_max <= c.bufferEnd  BY <1>1, <1>2, <1>5 DEF SendSide, SendOrder
    <2>4. c.state \in Connected  BY <1>5 DEF Connected, Synchronized
    <2>5. OutFits(d, n, p)  BY <1>1, <2>1 DEF AtRest, OutFits
    <2>6. CASE c.snd_max = c.bufferEnd
      <3> DEFINE e == SendFin(d)
                 f == StartRexmitTimer(e)
                 g == Event(f, "CLOSE")
                 to == IF c.state = "CLOSE_WAIT" THEN "LAST_ACK" ELSE "FIN_WAIT_1"
                 y == Transition(g)
                 z == Kept(y)
      <3>1. x = g  BY <1>5, <2>6 DEF Closing, d
      <3>2. AckFits(d.rcv_nxt, p)  BY <2>1, <2>4, AckDue DEF Sound
      <3>3. /\ IsConn(e) /\ SendsOnly(d, e) /\ OutFits(e, n, p) /\ e.timers = d.timers
            /\ SendOrder(e, n) /\ e.snd_nxt = d.bufferEnd + 1 /\ e.snd_max = d.bufferEnd + 1
        BY <1>1, <2>1, <2>2, <2>5, <3>2, FinAdded
      <3> HIDE DEF e
      <3>4. /\ IsConn(f) /\ SendsOnly(e, f) /\ f.timers = e.timers \cup {"REXMIT"}
            /\ f.snd_nxt = e.snd_nxt /\ f.snd_max = e.snd_max /\ f.out = e.out
        BY <3>3, TimerStarted
      <3> HIDE DEF f
      <3>5. /\ IsConn(g) /\ Alike(f, g) /\ g.event = "CLOSE" /\ g.out = f.out /\ g.ind = f.ind
        BY <3>4, EventSet
      <3> HIDE DEF g
      <3>6. /\ g.state = c.state /\ g.active = c.active /\ g.iss = c.iss /\ g.snd_una = c.snd_una
            /\ g.snd_nxt = c.bufferEnd + 1 /\ g.snd_max = c.bufferEnd + 1
            /\ g.bufferEnd = c.bufferEnd /\ g.rcv_nxt = c.rcv_nxt /\ g.buffered = c.buffered
            /\ g.send_fin /\ g.fin_ack_rcvd = e.fin_ack_rcvd /\ g.snd_fin_seq = e.snd_fin_seq
            /\ g.rcv_fin_seq = c.rcv_fin_seq /\ g.got = c.got
            /\ g.timers = c.timers \cup {"REXMIT"} /\ g.out = e.out /\ g.ind = << >>
        BY <1>1, <2>1, <3>3, <3>4, <3>5 DEF SendsOnly, Alike, Carried, AtRest
      <3>7. SendOrder(g, n)
        BY <3>3, <3>4, <3>5 DEF SendOrder, SendsOnly, Alike, Carried
      <3>8. OutFits(g, n, p)
        <4>1. /\ g.iss = e.iss /\ g.active = e.active /\ g.snd_max = e.snd_max
              /\ g.send_fin = e.send_fin /\ g.rcv_nxt = e.rcv_nxt /\ g.out = e.out
          BY <3>4, <3>5 DEF SendsOnly, Alike, Carried
        <4>2. QED  BY <3>3, <4>1 DEF OutFits, Fits, EndOf
      <3>9. Target(g) = to
        <4>1. <<g.state, g.event, to>> \in FSM  BY <1>5, <3>5, <3>6 DEF FSM
        <4>2. QED  BY <3>5, <4>1, RowTaken
      <3>10. to \in {"LAST_ACK", "FIN_WAIT_1"} /\ to # g.state  BY <1>5, <3>6
      <3>11. /\ IsConn(z) /\ AtRest(z) /\ Carried(g, z) /\ z.state = to
             /\ y.out = g.out /\ z.timers = g.timers \ {"ESTAB", "SYN"} /\ y.ind = g.ind
        <4>1. to \in States \ {"CLOSED"} /\ g.state # "CLOSED"
          BY <1>5, <3>6, <3>10 DEF States, Synchronized
        <4>2. QED  BY ZenonT(60), <3>5, <3>9, <3>10, <4>1, Entered
      <3> HIDE DEF y, z
      <3>12. SendSide(z, n)
        <4>1. SendOrder(z, n)  BY <3>7, <3>11 DEF SendOrder, Carried
        <4>2. z.snd_una # z.bufferEnd + 1 /\ z.snd_max = z.bufferEnd + 1
          BY <1>1, <1>2, <1>5, <2>6, <3>6, <3>11 DEF SendSide, SendOrder, Carried
        <4>3. /\ z.timers \subseteq {"REXMIT", "2MSL"} /\ "2MSL" \notin z.timers
              /\ "REXMIT" \in z.timers
          <5>1. c.timers \subseteq {"SYN", "ESTAB", "REXMIT"}
            BY <1>1, <1>5 DEF SendSide, SynSent, Synchronized
          <5>2. QED  BY <3>6, <3>11, <5>1
        <4>4. Timed(z)  BY <4>2, <4>3 DEF Timed
        <4>5. QED  BY <1>1, <3>10, <3>11, <4>1, <4>2, <4>3, <4>4, SideAfterFin
      <3>13. AppSide(z, s, l)  BY <1>1, <1>5, <3>11 DEF AppSide
      <3>14. ReceiveSide(z, p, m)
        <4>1. /\ z.rcv_nxt = c.rcv_nxt /\ z.buffered = c.buffered
              /\ z.rcv_fin_seq = c.rcv_fin_seq /\ z.got = c.got
          BY <3>6, <3>11 DEF Carried
        <4>2. z.state \in AfterFin => c.state \in AfterFin  BY <1>5, <3>11 DEF AfterFin
        <4>3. QED  BY <1>1, <2>4, <3>10, <3>11, <4>1, <4>2, ReceiveFrame
      <3>15. GotSide(z, m) /\ AckSide(z, p)
        BY <3>6, <3>11 DEF Sound, GotSide, AckSide, Carried, Acknowledged
      <3>16. SendAdvance(c, n, z, n)
        <4>1. /\ z.iss = c.iss /\ c.snd_max <= z.snd_max /\ (c.active => z.active)
              /\ c.state # "CLOSED" /\ z.state # "INIT"
          BY <1>2, <1>5, <2>6, <3>6, <3>10, <3>11 DEF Carried
        <4>2. QED  BY <1>1, <3>11, <4>1, SendMovesOn
      <3>17. RecvAdvance(c, z, p)
        <4>1. z.state \in Connected /\ c.rcv_nxt <= z.rcv_nxt
          <5>1. c.rcv_nxt \in Int  BY <1>1 DEF IsConn
          <5>2. QED  BY <3>6, <3>10, <3>11, <5>1 DEF Carried, Connected, Synchronized
        <4>2. QED  BY <1>1, <1>5, <3>11, <4>1, RecvMovesOn
      <3>18. \A t \in BagToSet(y.out) : GoodSegment(t, z, n, p)
        <4>1. z.state \in Connected /\ z.state # "INIT"
          BY <3>10, <3>11 DEF Connected, Synchronized
        <4>2. QED  BY <3>5, <3>8, <3>11, <4>1, FitIsGood DEF OutFits
      <3>19. SockState(s, y.ind) = s /\ l \o y.ind = l
        BY <1>1, <3>6, <3>11, LogTyped, ToldNone
      <3>20. Outcome(c, n, z, n, p, m, s, l, y.out)
        BY <3>11, <3>12, <3>13, <3>14, <3>15, <3>16, <3>17, <3>18 DEF Outcome
      <3>21. OutcomeOf(c, n, g, n, p, m, s, l)  BY <3>19, <3>20 DEF OutcomeOf, y, z
      <3>22. QED  BY <3>1, <3>21 DEF x, g, f, e, d
    <2>7. CASE c.snd_max # c.bufferEnd
      <3>1. x = d  BY <1>5, <2>7 DEF Closing, d
      <3>2. FinWaits(d)  BY <1>2, <2>1, <2>3, <2>7 DEF FinWaits
      <3>3. c.state = "SYN_RCVD" => c.active
        BY <1>1, <1>2, <2>7 DEF SendSide, SendOrder, SynSent
      <3>4. SendSide(d, n)
        BY <1>1, <1>5, <2>1, <2>2, <3>2, <3>3 DEF SendSide, Timed, SynSent, Finishing
      <3>5. AppSide(d, s, l)
        BY <1>1, <1>5, <2>1, <3>3 DEF AppSide
      <3>6. GotSide(d, m) /\ ReceiveSide(d, p, m) /\ AckSide(d, p)
        BY <2>1 DEF Sound, GotSide, ReceiveSide, AckSide, Buffered, BeforeFin, PastFin, Behind,
                    Acknowledged
      <3>7. SendAdvance(c, n, d, n)  BY <1>1, <1>2, <1>5, <2>1, SendMovesOn
      <3>8. RecvAdvance(c, d, p)  BY <2>1 DEF RecvAdvance, Acknowledged, Closed
      <3>9. BagToSet(d.out) = {}  BY <1>1, <2>1 DEF AtRest
      <3>10. OutcomeOf(c, n, d, n, p, m, s, l)
        BY <1>1, <1>5, <2>1, <3>4, <3>5, <3>6, <3>7, <3>8, <3>9, Stays DEF AtRest
      <3>11. QED  BY <3>1, <3>10 DEF x, d
    <2>8. QED  BY <2>6, <2>7
  <1>6. QED  BY <1>3, <1>4, <1>5

(* process_ABORT().                                                        *)
LEMMA AbortCommandWell ==
    ASSUME NEW c, NEW n, NEW p, NEW m, NEW sk, NEW l, Sound(c, n, p, m, sk, l),
           sk \notin {"BOUND", "CLOSED", "SOCKERROR"}
    PROVE  OutcomeOf(c, n, Event(IF c.state \in {"SYN_RCVD", "ESTABLISHED", "FIN_WAIT_1",
                                                "FIN_WAIT_2", "CLOSE_WAIT"}
                                 THEN SendRst(c, c.snd_nxt) ELSE c, "ABORT"),
                     n, p, m, "CLOSED", l)
  <1> DEFINE d == IF c.state \in {"SYN_RCVD", "ESTABLISHED", "FIN_WAIT_1", "FIN_WAIT_2", "CLOSE_WAIT"}
                  THEN SendRst(c, c.snd_nxt) ELSE c
             x == Event(d, "ABORT")
  <1>1. /\ IsConn(c) /\ AtRest(c) /\ SendSide(c, n) /\ AppSide(c, sk, l) /\ n \in Nat
    BY DEF Sound, SendSide
  <1>2. c.state \in States /\ c.snd_nxt \in Int  BY <1>1 DEF IsConn
  <1>3. c.state \in States \ {"INIT", "TIME_WAIT", "CLOSED"}  BY <1>1, <1>2 DEF AppSide
  <1>4. /\ IsConn(d) /\ OutFits(d, n, p) /\ d.state = c.state /\ d.iss = c.iss /\ d.got = c.got
        /\ d.ind = << >>
    <2>1. CASE d = SendRst(c, c.snd_nxt)
      <3>1. IsConn(d) /\ OutFits(d, n, p) /\ SendsOnly(c, d)
        BY <1>1, <1>2, <2>1, NothingSent, RstSent
      <3>2. QED  BY <1>1, <3>1 DEF SendsOnly, AtRest
    <2>2. CASE d = c  BY <1>1, <2>2, NothingSent DEF AtRest
    <2>3. QED  BY <2>1, <2>2
  <1> HIDE DEF d
  <1>5. /\ IsConn(x) /\ Alike(d, x) /\ x.event = "ABORT" /\ x.ind = d.ind /\ OutFits(x, n, p)
    BY <1>4, EventSet
  <1> HIDE DEF x
  <1>6. x.state = c.state /\ x.iss = c.iss /\ x.got = c.got  BY <1>4, <1>5 DEF Alike, Carried
  <1>7. Target(x) = "CLOSED"
    <2>1. <<x.state, x.event, "CLOSED">> \in FSM  BY <1>3, <1>5, <1>6 DEF FSM
    <2>2. QED  BY <1>5, <2>1, RowTaken
  <1>8. l \in Told  BY <1>1, <1>3 DEF AppSide, Told, States, Synchronized
  <1>9. SockState("CLOSED", x.ind) = "CLOSED" /\ Ended(l \o x.ind)
    <2>1. SockState("CLOSED", x.ind) = "CLOSED" /\ l \o x.ind = l
      BY <1>1, <1>4, <1>5, LogTyped, ToldNone
    <2>2. QED  BY <1>8, <2>1 DEF Ended
  <1>10. OutcomeOf(c, n, x, n, p, m, "CLOSED", l)
    BY <1>5, <1>6, <1>7, <1>9, Closes
  <1>11. QED  BY <1>10 DEF x, d

-----------------------------------------------------------------------------
(* The timers.                                                             *)

(* The timers of the setup run only before the connection is established.  *)
LEMMA SetupTimer ==
    ASSUME NEW c, IsConn(c), NEW n, SendSide(c, n), c.timers \cap {"SYN", "ESTAB"} # {}
    PROVE  c.state \in {"SYN_SENT", "SYN_RCVD"} /\ SynSent(c)
  <1>1. c.state \in States  BY DEF IsConn
  <1>2. c.state \notin {"INIT", "LISTEN", "CLOSED"}  BY DEF SendSide, Unopened
  <1>3. c.state \notin Synchronized  BY DEF SendSide
  <1>4. QED  BY <1>1, <1>2, <1>3 DEF States, SendSide

(* process_TIMEOUT_SYN_REXMIT(): the SYN, or the SYN+ACK, again.           *)
LEMMA SynRexmitWell ==
    ASSUME NEW c, NEW n, NEW p, NEW m, NEW sk, NEW l, Sound(c, n, p, m, sk, l), "SYN" \in c.timers
    PROVE  LET d == [c EXCEPT !.syn_rexmit_count = @ + 1] IN
           OutcomeOf(c, n, IF d.state = "SYN_SENT" THEN SendSyn(d) ELSE SendSynAck(d),
                     n, p, m, sk, l)
  <1> DEFINE d == [c EXCEPT !.syn_rexmit_count = @ + 1]
             x == IF d.state = "SYN_SENT" THEN SendSyn(d) ELSE SendSynAck(d)
             s == IF d.state = "SYN_SENT" THEN Segment({"SYN"}, d.iss, None, None)
                  ELSE Segment({"SYN", "ACK"}, d.iss, d.rcv_nxt, None)
             e == Send(d, s)
  <1>1. /\ IsConn(c) /\ AtRest(c) /\ SendSide(c, n) /\ AppSide(c, sk, l) /\ n \in Nat
    BY DEF Sound, SendSide
  <1>2. c.state \in {"SYN_SENT", "SYN_RCVD"} /\ SynSent(c)  BY <1>1, SetupTimer
  <1>3. /\ IsConn(d) /\ Alike(c, d) /\ d.out = c.out /\ d.ind = c.ind /\ d.event = c.event
    <2>1. c.syn_rexmit_count \in Int  BY <1>1 DEF IsConn
    <2>2. IsConn(d)  BY SMTT(30), <1>1, <2>1 DEF IsConn, Fields
    <2>3. QED  BY <1>1, <2>2 DEF IsConn, Fields, Alike, Carried
  <1> HIDE DEF d
  <1>4. d.iss \in Nat /\ d.iss \in Int /\ d.rcv_nxt \in Int /\ None \in Int
    BY <1>3 DEF IsConn, None
  <1>5. /\ IsSegment(s) /\ s.seq = d.iss /\ s.data = None
        /\ s.flags = IF d.state = "SYN_SENT" THEN {"SYN"} ELSE {"SYN", "ACK"}
        /\ d.state # "SYN_SENT" => s.ack = d.rcv_nxt
    <2>1. {"SYN"} \in Kinds /\ {"SYN", "ACK"} \in Kinds  BY DEF Kinds
    <2>2. QED  BY <1>4, <2>1, SegmentTyped
  <1>6. x = [e EXCEPT !.snd_nxt = d.iss + 1, !.snd_max = d.iss + 1]
    BY DEF SendSyn, SendSynAck
  <1>7. IsConn(e) /\ BagToSet(e.out) = BagToSet(d.out) \cup {s} /\ SendsOnly(d, e) /\ e.timers = d.timers
    BY <1>3, SendOne
  <1> HIDE DEF s, e, x
  <1>8. IsConn(x)
    <2> DEFINE j == d.iss + 1
    <2>1. j \in Int  BY <1>4
    <2>2. x = [e EXCEPT !.snd_nxt = j, !.snd_max = j]  BY <1>6
    <2> HIDE DEF j
    <2>3. QED  BY <1>7, <2>1, <2>2 DEF IsConn, Fields
  <1>9. SendsOnly(d, x) /\ x.out = e.out /\ x.timers = d.timers
        /\ x.snd_nxt = d.iss + 1 /\ x.snd_max = d.iss + 1
    BY <1>6, <1>7 DEF IsConn, Fields, SendsOnly
  <1>10. Alike(c, x) /\ x.event = "IGNORE" /\ x.ind = << >>
    BY <1>1, <1>2, <1>3, <1>9 DEF SendsOnly, Alike, Carried, SynSent, AtRest
  <1>11. GoodSegment(s, c, n, p)
    <2>1. /\ s.seq = c.iss /\ c.state = d.state /\ c.rcv_nxt = d.rcv_nxt
          /\ c.iss \in Nat /\ c.snd_max = c.iss + 1
      BY <1>1, <1>2, <1>3, <1>5 DEF Alike, Carried, SynSent, IsConn
    <2>2. Reached(c, s.seq + 1) /\ c.state # "INIT"  BY <1>2, <2>1 DEF Reached
    <2>3. CASE c.state = "SYN_SENT"
      <3>1. s.flags = {"SYN"} /\ c.active  BY <1>1, <1>5, <2>1, <2>3 DEF SendSide
      <3>2. "FIN" \notin s.flags /\ "ACK" \notin s.flags  BY <3>1
      <3>3. QED  BY <1>5, <2>1, <2>2, <3>1, <3>2 DEF GoodSegment
    <2>4. CASE c.state = "SYN_RCVD"
      <3>1. s.flags = {"SYN", "ACK"} /\ s.ack = c.rcv_nxt  BY <1>5, <2>1, <2>4
      <3>2. "FIN" \notin s.flags /\ s.flags # {"SYN"}  BY <3>1
      <3>3. c.state \in Connected  BY <2>4 DEF Connected
      <3>4. AckFits(s.ack, p)  BY <3>1, <3>3, AckDue DEF Sound
      <3>5. Acknowledged(c, p, s.ack)
        <4>1. c.rcv_nxt \in Int  BY <1>1 DEF IsConn
        <4>2. QED  BY <3>1, <3>3, <4>1 DEF Acknowledged
      <3>6. QED  BY <1>5, <2>1, <2>2, <3>2, <3>4, <3>5 DEF GoodSegment
    <2>5. QED  BY <1>2, <2>3, <2>4
  <1>12. \A t \in BagToSet(x.out) : GoodSegment(t, c, n, p)
    BY <1>1, <1>3, <1>7, <1>9, <1>11 DEF AtRest
  <1>13. OutcomeOf(c, n, x, n, p, m, sk, l)
    BY <1>2, <1>8, <1>10, <1>12, Quiet
  <1>14. QED  BY <1>13 DEF x, d

(* A passive open that fails: SYN_RCVD goes back to LISTEN.                *)
LEMMA ListensAgain ==
    ASSUME NEW c, NEW n, NEW p, NEW m, NEW sk, NEW l, Sound(c, n, p, m, sk, l),
           c.state = "SYN_RCVD", ~c.active, NEW x, IsConn(x), Carried(c, x),
           x.state = c.state, x.timers \subseteq c.timers, x.out = c.out, x.ind = << >>,
           x.event \in {"TIMEOUT_CONN_ESTAB", "RCV_RST"}
    PROVE  OutcomeOf(c, n, x, n, p, m, sk, l)
  <1> DEFINE y == Transition(x)
             z == Kept(y)
  <1>1. /\ IsConn(c) /\ AtRest(c) /\ SendSide(c, n) /\ AppSide(c, sk, l) /\ n \in Nat
    BY DEF Sound, SendSide
  <1>2. SynSent(c) /\ n = 0 /\ ~c.send_fin /\ sk = "LISTENING" /\ l = << >>
    BY <1>1 DEF SendSide, AppSide
  <1>3. Target(x) = "LISTEN"
    <2>1. x.state = "SYN_RCVD" /\ ~x.active  BY DEF Carried
    <2>2. QED  BY <2>1 DEF Target
  <1>4. /\ IsConn(z) /\ AtRest(z) /\ Carried(x, z) /\ z.state = "LISTEN"
        /\ y.out = x.out /\ z.timers = x.timers \ {"ESTAB", "SYN"} /\ y.ind = x.ind
    <2>1. "LISTEN" \in States \ {"CLOSED"}  BY DEF States
    <2>2. QED  BY ZenonT(60), <1>3, <2>1, Entered
  <1> HIDE DEF y, z
  <1>5. Carried(c, z) /\ z.timers = {}  BY <1>2, <1>4 DEF Carried, SynSent
  <1>6. SendSide(z, n)
    <2>1. SendOrder(z, n)  BY <1>1, <1>5 DEF SendSide, SendOrder, Carried
    <2>2. Unopened(z, n)
      <3>1. c.iss \in Nat  BY <1>1 DEF IsConn
      <3>2. QED  BY <1>2, <1>5, <3>1 DEF Unopened, Carried, SynSent
    <2>3. QED  BY <1>1, <1>4, <2>1, <2>2 DEF SendSide, Synchronized, Finishing
  <1>7. AppSide(z, sk, l)  BY <1>2, <1>4 DEF AppSide
  <1>8. GotSide(z, m) /\ ReceiveSide(z, p, m) /\ AckSide(z, p)
    BY <1>2, <1>4, <1>5 DEF Sound, GotSide, ReceiveSide, AckSide, Connected, Synchronized, Carried, SynSent
  <1>9. SendAdvance(c, n, z, n)
    <2>1. c.snd_max \in Int  BY <1>1 DEF IsConn
    <2>2. QED  BY <1>1, <1>4, <1>5, <2>1, SendMovesOn DEF Carried
  <1>10. RecvAdvance(c, z, p)
    <2>1. c.rcv_nxt \in Int /\ p.iss \in Nat /\ ISSStep \in Nat /\ c.got = << >>
      BY <1>1, <1>2, ConnectionAssumption DEF Sound, IsConn, SynSent
    <2>2. BeforeFin(c, p) \/ Behind(c, p)
      BY DEF Sound, ReceiveSide, PastFin, Connected
    <2>3. c.rcv_nxt <= p.iss + 1  BY <2>1, <2>2 DEF BeforeFin, Behind
    <2>4. QED  BY <1>4, <2>1, <2>3 DEF RecvAdvance, Acknowledged, Closed
  <1>11. BagToSet(y.out) = {}  BY <1>1, <1>4 DEF AtRest
  <1>12. SockState(sk, y.ind) = sk /\ l \o y.ind = l
    BY <1>2, <1>4 DEF SockState
  <1>13. Outcome(c, n, z, n, p, m, sk, l, y.out)
    BY <1>4, <1>6, <1>7, <1>8, <1>9, <1>10, <1>11 DEF Outcome
  <1>14. QED  BY <1>12, <1>13 DEF OutcomeOf, y, z

(* cancelEvent() changes the timers only.                                  *)
LEMMA Cancelled ==
    ASSUME NEW c, IsConn(c), NEW ts
    PROVE  /\ IsConn(Cancel(c, ts)) /\ Carried(c, Cancel(c, ts))
           /\ Cancel(c, ts).state = c.state /\ Cancel(c, ts).timers = c.timers \ ts
           /\ Cancel(c, ts).out = c.out /\ Cancel(c, ts).ind = c.ind
  <1>1. IsConn(Cancel(c, ts))  BY DEF IsConn, Fields, Cancel
  <1>2. QED  BY <1>1 DEF IsConn, Fields, Cancel, Carried

(* process_TIMEOUT_CONN_ESTAB().                                           *)
LEMMA ConnEstabWell ==
    ASSUME NEW c, NEW n, NEW p, NEW m, NEW sk, NEW l, Sound(c, n, p, m, sk, l), "ESTAB" \in c.timers
    PROVE  LET d == Cancel(c, {"ESTAB"}) IN
           OutcomeOf(c, n, Event(IF d.active THEN Indicate(d, "TIMED_OUT") ELSE d,
                                 "TIMEOUT_CONN_ESTAB"), n, p, m, sk, l)
  <1> DEFINE d == Cancel(c, {"ESTAB"})
             e == IF d.active THEN Indicate(d, "TIMED_OUT") ELSE d
             x == Event(e, "TIMEOUT_CONN_ESTAB")
  <1>1. /\ IsConn(c) /\ AtRest(c) /\ SendSide(c, n)
    BY DEF Sound
  <1>2. c.state \in {"SYN_SENT", "SYN_RCVD"}  BY <1>1, SetupTimer
  <1>3. /\ IsConn(d) /\ Carried(c, d) /\ d.state = c.state /\ d.timers = c.timers \ {"ESTAB"}
        /\ d.out = c.out /\ d.ind = << >>
    BY <1>1, Cancelled DEF AtRest
  <1> HIDE DEF d
  <1>4. /\ IsConn(e) /\ Alike(d, e) /\ e.out = d.out
        /\ e.ind = IF d.active THEN Append(<< >>, "TIMED_OUT") ELSE << >>
    <2>1. "TIMED_OUT" \in Indications  BY DEF Indications
    <2>2. CASE d.active  BY <1>3, <2>1, <2>2, Indicated
    <2>3. CASE ~d.active  BY <1>3, <2>3 DEF Alike, Carried
    <2>4. QED  BY <2>2, <2>3
  <1> HIDE DEF e
  <1>5. /\ IsConn(x) /\ Alike(e, x) /\ x.event = "TIMEOUT_CONN_ESTAB" /\ x.out = e.out
        /\ x.ind = e.ind
    BY <1>4, EventSet
  <1> HIDE DEF x
  <1>6. /\ Carried(c, x) /\ x.state = c.state /\ x.timers = c.timers \ {"ESTAB"} /\ x.out = c.out
        /\ x.ind = IF c.active THEN Append(<< >>, "TIMED_OUT") ELSE << >>
    BY <1>3, <1>4, <1>5 DEF Alike, Carried
  <1>7. CASE c.state = "SYN_RCVD" /\ ~c.active
    <2>1. OutcomeOf(c, n, x, n, p, m, sk, l)  BY <1>5, <1>6, <1>7, ListensAgain
    <2>2. QED  BY <2>1 DEF x, e, d
  <1>8. CASE ~(c.state = "SYN_RCVD" /\ ~c.active)
    <2>1. c.active  BY <1>1, <1>2, <1>8 DEF SendSide
    <2>2. Target(x) = "CLOSED"
      <3>1. CASE c.state = "SYN_RCVD"
        BY <1>5, <1>6, <2>1, <3>1 DEF Target, Carried
      <3>2. CASE c.state = "SYN_SENT"
        <4>1. <<x.state, x.event, "CLOSED">> \in FSM  BY <1>5, <1>6, <3>2 DEF FSM
        <4>2. QED  BY <1>6, <3>2, <4>1, RowTaken
      <3>3. QED  BY <1>2, <3>1, <3>2
    <2>3. OutFits(x, n, p)  BY <1>1, <1>6 DEF AtRest, OutFits
    <2>4. x.iss = c.iss /\ x.got = c.got  BY <1>6 DEF Carried
    <2>5. \E a \in Problems : x.ind = Append(<< >>, a)
      <3>1. "TIMED_OUT" \in Problems  BY DEF Problems
      <3>2. QED  BY <1>6, <2>1, <3>1
    <2>6. x.state \notin {"CLOSED", "TIME_WAIT"} /\ x.event # "ABORT"  BY <1>2, <1>5, <1>6
    <2>7. OutcomeOf(c, n, x, n, p, m, sk, l)
      BY <1>5, <1>6, <2>2, <2>3, <2>4, <2>5, <2>6, ClosesTelling
    <2>8. QED  BY <2>7 DEF x, e, d
  <1>9. QED  BY <1>7, <1>8

(* The socket's state after a problem.                                     *)
LEMMA ToldProblem ==
    ASSUME NEW s, NEW a \in Problems PROVE SockState(s, Append(<< >>, a)) = "SOCKERROR"
  <1> DEFINE i == << >>
             j == Append(i, a)
  <1>1. i \in Seq(Indications) /\ a \in Indications  BY DEF Problems, Indications
  <1>2. a \in Problems => SockState(s, j) = "SOCKERROR"
    <2> HIDE DEF i
    <2>1. QED  BY <1>1, ToldOne
  <1>3. QED  BY <1>2

(* processRexmitTimer(): another try, or the end of the connection.        *)
LEMMA RexmitWell ==
    ASSUME NEW c, NEW n, NEW p, NEW m, NEW sk, NEW l, Sound(c, n, p, m, sk, l), "REXMIT" \in c.timers
    PROVE  LET d == [c EXCEPT !.rexmit_count = @ + 1] IN
           OutcomeOf(c, n, IF d.rexmit_count > MaxRexmit
                           THEN Event(Indicate(d, "TIMED_OUT"), "ABORT")
                           ELSE RetransmitOneSegment([d EXCEPT !.snd_cwnd = 1, !.afterRto = TRUE]),
                     n, p, m, sk, l)
  <1> DEFINE d == [c EXCEPT !.rexmit_count = @ + 1]
             b == [d EXCEPT !.snd_cwnd = 1, !.afterRto = TRUE]
             e == Indicate(d, "TIMED_OUT")
             x == IF d.rexmit_count > MaxRexmit THEN Event(e, "ABORT") ELSE RetransmitOneSegment(b)
  <1>1. /\ IsConn(c) /\ AtRest(c) /\ SendSide(c, n) /\ AppSide(c, sk, l) /\ n \in Nat
    BY DEF Sound, SendSide
  <1>2. c.state \in States /\ c.rexmit_count \in Int  BY <1>1 DEF IsConn
  <1>3. c.state \in Synchronized
    <2>1. c.state \notin {"INIT", "LISTEN", "CLOSED"}  BY <1>1 DEF SendSide, Unopened
    <2>2. c.state \notin {"SYN_SENT", "SYN_RCVD"}  BY <1>1 DEF SendSide, SynSent
    <2>3. QED  BY <1>2, <2>1, <2>2 DEF States
  <1>4. c.snd_una # c.snd_max  BY <1>1, <1>3 DEF SendSide, Timed
  <1>5. c.state # "TIME_WAIT"
    BY <1>1, <1>3, <1>4 DEF SendSide, SendOrder, Finishing
  <1>6. /\ IsConn(d) /\ Alike(c, d) /\ d.out = c.out /\ d.ind = c.ind /\ d.event = c.event
    <2>1. IsConn(d)  BY SMTT(30), <1>1, <1>2 DEF IsConn, Fields
    <2>2. QED  BY <1>1, <2>1 DEF IsConn, Fields, Alike, Carried
  <1> HIDE DEF d
  <1>7. CASE d.rexmit_count > MaxRexmit
    <2> DEFINE f == Event(e, "ABORT")
    <2>1. x = f  BY <1>7
    <2>2. /\ IsConn(e) /\ Alike(d, e) /\ e.out = d.out /\ e.ind = Append(d.ind, "TIMED_OUT")
      <3>1. "TIMED_OUT" \in Indications  BY DEF Indications
      <3>2. QED  BY <1>6, <3>1, Indicated
    <2> HIDE DEF e
    <2>3. IsConn(f) /\ Alike(e, f) /\ f.event = "ABORT" /\ f.out = e.out /\ f.ind = e.ind
      BY <2>2, EventSet
    <2> HIDE DEF f
    <2>4. f.state = c.state /\ f.iss = c.iss /\ f.got = c.got /\ f.out = c.out
          /\ f.ind = Append(<< >>, "TIMED_OUT")
      BY <1>1, <1>6, <2>2, <2>3 DEF Alike, Carried, AtRest
    <2>5. Target(f) = "CLOSED"
      <3>1. <<f.state, f.event, "CLOSED">> \in FSM
        BY <1>3, <2>3, <2>4 DEF FSM, States, Synchronized
      <3>2. QED  BY <2>3, <3>1, RowTaken
    <2>6. OutFits(f, n, p)  BY <1>1, <2>4 DEF AtRest, OutFits
    <2>7. SockState(sk, f.ind) = "SOCKERROR"
      <3>1. "TIMED_OUT" \in Problems  BY DEF Problems
      <3>2. QED  BY <2>4, <3>1, ToldProblem
    <2>8. Ended(l \o f.ind)
      <3>1. l \in Seq(Indications)  BY <1>1, LogTyped
      <3>2. "TIMED_OUT" \in Indications /\ "TIMED_OUT" \in Problems  BY DEF Indications, Problems
      <3>3. l \o f.ind = Append(l, "TIMED_OUT")
        <4>1. l \o Append(<< >>, "TIMED_OUT") = Append(l \o << >>, "TIMED_OUT")
          BY <3>1, <3>2, LogGrows
        <4>2. QED  BY <2>4, <3>1, <4>1
      <3>4. l \in Told  BY <1>1, <1>3, <1>5 DEF AppSide, Told, Synchronized
      <3>5. QED  BY <3>2, <3>3, <3>4 DEF Ended
    <2>9. OutcomeOf(c, n, f, n, p, m, sk, l)
      BY <2>3, <2>4, <2>5, <2>6, <2>7, <2>8, Closes
    <2>10. QED  BY <2>1, <2>9 DEF x, f, e, d
  <1>8. CASE ~(d.rexmit_count > MaxRexmit)
    <2>1. x = RetransmitOneSegment(b)  BY <1>8
    <2>2. /\ IsConn(b) /\ Alike(d, b) /\ b.out = d.out /\ b.ind = d.ind /\ b.event = d.event
      <3>1. IsConn(b)  BY SMTT(30), <1>6 DEF IsConn, Fields
      <3>2. QED  BY <1>6, <3>1 DEF IsConn, Fields, Alike, Carried
    <2> HIDE DEF b
    <2>3. Alike(c, b) /\ AtRest(b)  BY <1>1, <1>6, <2>2 DEF Alike, Carried, AtRest
    <2>4. SendSide(b, n)  BY <1>1, <2>3, AlikeIsGood
    <2>5. b.state = c.state /\ b.timers = c.timers /\ b.rcv_nxt = c.rcv_nxt
          /\ b.snd_una # b.snd_max
      BY <1>4, <2>3 DEF Alike, Carried
    <2>6. SendOrder(b, n) /\ (FinWaits(b) \/ b.snd_max = b.bufferEnd + 1)
      BY <1>3, <2>4, <2>5 DEF SendSide, Synchronized, Finishing
    <2>7. AckFits(b.rcv_nxt, p)
      <3>1. c.state \in Connected  BY <1>3 DEF Connected
      <3>2. QED  BY <2>5, <3>1, AckDue DEF Sound
    <2>8. OutFits(b, n, p)  BY <2>3, NothingSent
    <2> DEFINE e2 == RetransmitOneSegment(b)
    <2>9. /\ IsConn(e2) /\ SendsOnly(b, e2) /\ OutFits(e2, n, p) /\ SendOrder(e2, n)
          /\ e2.timers = b.timers /\ e2.snd_max = b.snd_max
      BY <1>1, <2>2, <2>5, <2>6, <2>7, <2>8, Retransmitted
    <2> HIDE DEF e2, x
    <2>10. SendSide(e2, n)
      <3>1. /\ e2.state = b.state /\ e2.iss = b.iss /\ e2.snd_una = b.snd_una
            /\ e2.bufferEnd = b.bufferEnd /\ e2.send_fin = b.send_fin
            /\ e2.fin_ack_rcvd = b.fin_ack_rcvd
        BY <2>9 DEF SendsOnly
      <3>2. b.state \in Synchronized  BY <1>3, <2>5
      <3>3. QED
        BY <1>1, <2>4, <2>9, <3>1, <3>2 DEF SendSide, Synchronized, Timed, FinWaits
    <2>11. /\ AppSide(e2, sk, l) /\ GotSide(e2, m) /\ ReceiveSide(e2, p, m) /\ AckSide(e2, p)
      BY <2>3, <2>9 DEF Sound, SendsOnly, Alike, Carried, AppSide, GotSide, ReceiveSide, AckSide,
                        Buffered, BeforeFin, PastFin, Behind, Acknowledged
    <2>12. SendAdvance(c, n, e2, n)
      <3>1. /\ e2.iss = c.iss /\ c.snd_max <= e2.snd_max /\ (c.active => e2.active)
            /\ (c.send_fin => e2.send_fin) /\ e2.state = c.state /\ c.state # "CLOSED"
        <4>1. c.snd_max \in Int /\ c.state # "CLOSED"  BY <1>1, <1>3 DEF IsConn, Synchronized
        <4>2. QED  BY <2>3, <2>9, <4>1 DEF SendsOnly, Alike, Carried
      <3>2. QED  BY <1>1, <2>9, <3>1, SendMovesOn
    <2>13. RecvAdvance(c, e2, p)
      BY <2>3, <2>9 DEF SendsOnly, Alike, Carried, RecvAdvance, Acknowledged, Closed
    <2>14. e2.state \in Connected /\ e2.state = c.state /\ c.state # "CLOSED"
           /\ e2.event = "IGNORE" /\ e2.ind = << >>
      BY <1>3, <2>3, <2>5, <2>9 DEF SendsOnly, Connected, Synchronized, AtRest
    <2>15. \A s \in BagToSet(e2.out) : GoodSegment(s, e2, n, p)
      BY <2>9, <2>14, FitsAreGood
    <2>16. OutcomeOf(c, n, e2, n, p, m, sk, l)
      BY <1>1, <2>9, <2>10, <2>11, <2>12, <2>13, <2>14, <2>15, Stays
    <2>17. QED  BY <2>1, <2>16 DEF x, e2, b, d
  <1>9. QED  BY <1>7, <1>8

(* process_TIMEOUT_2MSL().                                                 *)
LEMMA TwoMSLWell ==
    ASSUME NEW c, NEW n, NEW p, NEW m, NEW sk, NEW l, Sound(c, n, p, m, sk, l), "2MSL" \in c.timers
    PROVE  OutcomeOf(c, n, Event(c, "TIMEOUT_2MSL"), n, p, m, sk, l)
  <1> DEFINE x == Event(c, "TIMEOUT_2MSL")
  <1>1. /\ IsConn(c) /\ AtRest(c) /\ SendSide(c, n) /\ AppSide(c, sk, l)
    BY DEF Sound
  <1>2. c.state \in States  BY <1>1 DEF IsConn
  <1>3. c.state = "TIME_WAIT"
    <2>1. c.state \notin {"INIT", "LISTEN", "CLOSED"}  BY <1>1 DEF SendSide, Unopened
    <2>2. c.state \notin {"SYN_SENT", "SYN_RCVD"}  BY <1>1 DEF SendSide, SynSent
    <2>3. QED  BY <1>1, <1>2, <2>1, <2>2 DEF States, SendSide
  <1>4. /\ IsConn(x) /\ Alike(c, x) /\ x.event = "TIMEOUT_2MSL" /\ x.ind = << >> /\ x.out = c.out
    BY <1>1, EventSet DEF AtRest
  <1> HIDE DEF x
  <1>5. x.state = "TIME_WAIT" /\ x.iss = c.iss /\ x.got = c.got
    BY <1>3, <1>4 DEF Alike, Carried
  <1>6. Target(x) = "CLOSED"
    <2>1. <<x.state, x.event, "CLOSED">> \in FSM  BY <1>4, <1>5 DEF FSM
    <2>2. QED  BY <1>5, <2>1, RowTaken
  <1>7. OutFits(x, n, p)  BY <1>1, <1>4 DEF AtRest, OutFits
  <1>8. SockState(sk, x.ind) \in {"CLOSED", "SOCKERROR"} /\ Ended(l \o x.ind)
    <2>1. l \in Seq(Indications) /\ Ended(l)  BY <1>1, LogTyped
    <2>2. sk \in {"CLOSED", "SOCKERROR"}  BY <1>1, <1>3 DEF AppSide
    <2>3. QED  BY <1>4, <2>1, <2>2, ToldNone
  <1>9. OutcomeOf(c, n, x, n, p, m, sk, l)
    BY <1>3, <1>4, <1>5, <1>6, <1>7, <1>8, Closes
  <1>10. QED  BY <1>9 DEF x

-----------------------------------------------------------------------------
(* A segment arrives.                                                      *)

(* The reset of segmentArrivalWhileClosed() is a segment without data.     *)
LEMMA ResetTyped ==
    ASSUME NEW s, IsSegment(s)
    PROVE  /\ IsSegment(ResetFor(s)) /\ ResetFor(s).data = None
           /\ ResetFor(s).flags \in {{"RST"}, {"RST", "ACK"}}
  <1>1. {"RST"} \in Kinds /\ {"RST", "ACK"} \in Kinds /\ None \in Int  BY DEF Kinds, None
  <1>2. s.ack \in Int /\ s.seq + 1 \in Int  BY DEF IsSegment
  <1>3. CASE "ACK" \in s.flags
    <2>1. ResetFor(s) = Segment({"RST"}, s.ack, None, None)  BY <1>3 DEF ResetFor
    <2>2. QED  BY <1>1, <1>2, <2>1, SegmentTyped
  <1>4. CASE "ACK" \notin s.flags
    <2>1. ResetFor(s) = Segment({"RST", "ACK"}, None, s.seq + 1, None)  BY <1>4 DEF ResetFor
    <2>2. QED  BY <1>1, <1>2, <2>1, SegmentTyped
  <1>5. QED  BY <1>3, <1>4

(* segmentArrivalWhileClosed().                                            *)
LEMMA WhileClosedWell ==
    ASSUME NEW c, NEW n, NEW p, NEW m, NEW sk, NEW l, Sound(c, n, p, m, sk, l),
           c.state \in {"INIT", "CLOSED"}, NEW s, IsSegment(s)
    PROVE  OutcomeOf(c, n, IF "RST" \in s.flags THEN c ELSE Send(c, ResetFor(s)), n, p, m, sk, l)
  <1> DEFINE x == IF "RST" \in s.flags THEN c ELSE Send(c, ResetFor(s))
  <1>1. /\ IsSegment(ResetFor(s)) /\ ResetFor(s).data = None
        /\ ResetFor(s).flags \in {{"RST"}, {"RST", "ACK"}}
    BY ResetTyped
  <1>2. CASE c.state = "INIT"
    <2>1. OutcomeOf(c, n, c, n, p, m, sk, l)  BY <1>2, NothingDone
    <2>2. OutcomeOf(c, n, Send(c, ResetFor(s)), n, p, m, sk, l)  BY <1>1, <1>2, OnlyRst
    <2>3. QED  BY <2>1, <2>2
  <1>3. CASE c.state = "CLOSED"
    <2>1. /\ IsConn(c) /\ AtRest(c) /\ AppSide(c, sk, l) /\ c.event = "IGNORE" /\ c.ind = << >>
      BY DEF Sound, AtRest
    <2>2. /\ IsConn(x) /\ x.state = "CLOSED" /\ x.event = "IGNORE" /\ x.ind = << >>
          /\ x.iss = c.iss /\ x.got = c.got /\ OutFits(x, n, p)
      <3>1. CASE x = c  BY <1>3, <2>1, <3>1, NothingSent
      <3>2. CASE x = Send(c, ResetFor(s))
        <4>1. /\ IsConn(x) /\ SendsOnly(c, x)
              /\ BagToSet(x.out) = BagToSet(c.out) \cup {ResetFor(s)}
          BY <2>1, <3>2, SendOne
        <4>2. "SYN" \notin ResetFor(s).flags /\ ResetFor(s).flags # {"SYN"}
              /\ "FIN" \notin ResetFor(s).flags /\ "RST" \in ResetFor(s).flags
          BY <1>1
        <4>3. Fits(ResetFor(s), x, n, p)  BY <1>1, <4>2 DEF Fits
        <4>4. OutFits(x, n, p)  BY <2>1, <4>1, <4>3 DEF AtRest, OutFits
        <4>5. QED  BY <1>3, <2>1, <4>1, <4>4 DEF SendsOnly
      <3>3. QED  BY <3>1, <3>2
    <2> HIDE DEF x
    <2>3. Target(x) = "CLOSED"  BY <2>2, NothingHappens
    <2>4. SockState(sk, x.ind) \in {"CLOSED", "SOCKERROR"} /\ Ended(l \o x.ind)
      <3>1. l \in Seq(Indications) /\ Ended(l)  BY <2>1, LogTyped
      <3>2. sk \in {"CLOSED", "SOCKERROR"}  BY <1>3, <2>1 DEF AppSide
      <3>3. QED  BY <2>2, <3>1, <3>2, ToldNone
    <2>5. OutcomeOf(c, n, x, n, p, m, sk, l)
      BY <1>3, <2>2, <2>3, <2>4, Closes
    <2>6. QED  BY <2>5 DEF x
  <1>4. QED  BY <1>2, <1>3

(* startSynRexmitTimer() changes that timer and its counter only.          *)
LEMMA SynTimerStarted ==
    ASSUME NEW c, IsConn(c)
    PROVE  /\ IsConn(StartSynRexmitTimer(c)) /\ Carried(c, StartSynRexmitTimer(c))
           /\ StartSynRexmitTimer(c).state = c.state /\ StartSynRexmitTimer(c).ind = c.ind
           /\ StartSynRexmitTimer(c).timers = c.timers \cup {"SYN"}
           /\ StartSynRexmitTimer(c).out = c.out
  <1> DEFINE d == Start(c, "SYN")
  <1>1. IsConn(d)  BY DEF Start, IsConn, Fields
  <1>2. /\ d.timers = c.timers \cup {"SYN"} /\ d.out = c.out /\ Carried(c, d)
        /\ d.state = c.state /\ d.ind = c.ind
    BY DEF Start, IsConn, Fields, Carried
  <1>3. StartSynRexmitTimer(c) = [d EXCEPT !.syn_rexmit_count = 0]  BY DEF StartSynRexmitTimer
  <1> HIDE DEF d
  <1> DEFINE e == [d EXCEPT !.syn_rexmit_count = 0]
  <1>4. DOMAIN e = Fields /\ e.syn_rexmit_count \in Int
    BY <1>1 DEF IsConn, Fields
  <1>5. /\ Carried(d, e) /\ e.state = d.state /\ e.timers = d.timers /\ e.ind = d.ind
        /\ e.out = d.out /\ e.snd_cwnd = d.snd_cwnd /\ e.dupacks = d.dupacks /\ e.afterRto = d.afterRto
        /\ e.rexmit_count = d.rexmit_count /\ e.assertFailed = d.assertFailed
    BY <1>1 DEF IsConn, Fields, Carried
  <1> HIDE DEF e
  <1>6. IsConn(e)  BY <1>1, <1>4, <1>5 DEF IsConn, Carried
  <1>7. StartSynRexmitTimer(c) = e  BY <1>3 DEF e
  <1>8. QED  BY <1>2, <1>5, <1>6, <1>7 DEF Carried

(* The answer to a SYN.                                                    *)
LEMMA SynAckSent ==
    ASSUME NEW d, IsConn(d)
    PROVE  LET s == Segment({"SYN", "ACK"}, d.iss, d.rcv_nxt, None)
               x == Event(StartSynRexmitTimer(SendSynAck(d)), "RCV_SYN") IN
           /\ IsSegment(s) /\ s.flags = {"SYN", "ACK"} /\ s.seq = d.iss /\ s.ack = d.rcv_nxt
           /\ s.data = None
           /\ IsConn(x) /\ BagToSet(x.out) = BagToSet(d.out) \cup {s}
           /\ x.timers = d.timers \cup {"SYN"} /\ x.event = "RCV_SYN" /\ x.ind = d.ind
           /\ x.state = d.state /\ x.active = d.active /\ x.iss = d.iss
           /\ x.snd_una = d.snd_una /\ x.snd_nxt = d.iss + 1 /\ x.snd_max = d.iss + 1
           /\ x.bufferEnd = d.bufferEnd /\ x.rcv_nxt = d.rcv_nxt /\ x.buffered = d.buffered
           /\ x.send_fin = d.send_fin /\ x.snd_fin_seq = d.snd_fin_seq
           /\ x.fin_ack_rcvd = d.fin_ack_rcvd /\ x.rcv_fin_seq = d.rcv_fin_seq /\ x.got = d.got
  <1> DEFINE s == Segment({"SYN", "ACK"}, d.iss, d.rcv_nxt, None)
             e == Send(d, s)
             f == SendSynAck(d)
             x == Event(StartSynRexmitTimer(f), "RCV_SYN")
             j == d.iss + 1
  <1>1. d.iss \in Int /\ j \in Int /\ d.rcv_nxt \in Int /\ None \in Int
    BY DEF IsConn, None
  <1>2. /\ IsSegment(s) /\ s.flags = {"SYN", "ACK"} /\ s.seq = d.iss /\ s.ack = d.rcv_nxt
        /\ s.data = None
    <2>1. {"SYN", "ACK"} \in Kinds  BY DEF Kinds
    <2>2. QED  BY <1>1, <2>1, SegmentTyped
  <1>3. f = [e EXCEPT !.snd_nxt = j, !.snd_max = j]  BY DEF SendSynAck
  <1>4. IsConn(e) /\ BagToSet(e.out) = BagToSet(d.out) \cup {s} /\ SendsOnly(d, e) /\ e.timers = d.timers
    BY SendOne
  <1> HIDE DEF s, e, f, j
  <1>5. IsConn(f)  BY <1>1, <1>3, <1>4 DEF IsConn, Fields
  <1>6. SendsOnly(d, f) /\ f.out = e.out /\ f.timers = d.timers /\ f.snd_nxt = j /\ f.snd_max = j
    BY <1>3, <1>4 DEF IsConn, Fields, SendsOnly
  <1> DEFINE g == StartSynRexmitTimer(f)
  <1>7. /\ IsConn(g) /\ Carried(f, g) /\ g.state = f.state /\ g.ind = f.ind
        /\ g.timers = f.timers \cup {"SYN"} /\ g.out = f.out
    BY <1>5, SynTimerStarted
  <1> HIDE DEF g
  <1>8. /\ IsConn(Event(g, "RCV_SYN")) /\ Alike(g, Event(g, "RCV_SYN"))
        /\ Event(g, "RCV_SYN").event = "RCV_SYN" /\ Event(g, "RCV_SYN").out = g.out
        /\ Event(g, "RCV_SYN").ind = g.ind
    BY <1>7, EventSet
  <1>9. x = Event(g, "RCV_SYN")  BY DEF g
  <1> HIDE DEF x
  <1>10. QED
    <2>1. IsConn(x) /\ Alike(g, x) /\ x.event = "RCV_SYN" /\ x.out = g.out /\ x.ind = g.ind
      BY <1>8, <1>9
    <2>2. /\ x.out = e.out /\ x.timers = d.timers \cup {"SYN"} /\ x.event = "RCV_SYN"
          /\ x.iss = d.iss /\ x.snd_una = d.snd_una /\ x.snd_nxt = j /\ x.snd_max = j
          /\ x.bufferEnd = d.bufferEnd /\ x.send_fin = d.send_fin /\ x.snd_fin_seq = d.snd_fin_seq
          /\ x.fin_ack_rcvd = d.fin_ack_rcvd /\ x.rcv_fin_seq = d.rcv_fin_seq /\ x.got = d.got
          /\ x.state = d.state /\ x.ind = d.ind /\ x.active = d.active /\ x.buffered = d.buffered
          /\ x.rcv_nxt = d.rcv_nxt
      BY <1>6, <1>7, <2>1 DEF SendsOnly, Alike, Carried
    <2>3. QED  BY <1>2, <1>4, <2>1, <2>2 DEF s, f, j, x

(* Received from the SYN of the peer on.                                   *)
LEMMA SynTaken ==
    ASSUME NEW z, IsConn(z), z.state \in {"SYN_RCVD", "ESTABLISHED"}, NEW p, IsConn(p), NEW m,
           SendSide(p, m), NEW c, NEW s, GoodSegment(s, p, m, c), "SYN" \in s.flags,
           z.rcv_nxt = s.seq + 1, z.got = << >>, z.buffered = {}, z.rcv_fin_seq = None
    PROVE  ReceiveSide(z, p, m) /\ AckFits(z.rcv_nxt, p)
  <1>1. /\ s.seq \in Int /\ p.iss \in Nat /\ ISSStep \in Nat
    BY ConnectionAssumption DEF GoodSegment, IsSegment, IsConn
  <1>2. /\ p.state # "INIT" /\ (s.seq = p.iss \/ s.seq + ISSStep <= p.iss) /\ Reached(p, s.seq + 1)
    BY DEF GoodSegment
  <1>3. z.state \notin AfterFin /\ z.state \in Connected
    BY DEF AfterFin, Connected, Synchronized
  <1>4. BeforeFin(z, p) \/ Behind(z, p)
    <2>1. CASE s.seq = p.iss  BY <1>1, <1>2, <1>3, <2>1 DEF BeforeFin
    <2>2. CASE s.seq + ISSStep <= p.iss  BY <1>1, <1>3, <2>2 DEF Behind
    <2>3. QED  BY <1>2, <2>1, <2>2
  <1>5. ReceiveSide(z, p, m)  BY <1>2, <1>4 DEF ReceiveSide, Buffered
  <1>6. QED  BY <1>3, <1>5, AckDue

(* processSegmentInListen() and the simultaneous open: SYN_RCVD.           *)
LEMMA AnswersSyn ==
    ASSUME NEW c, NEW n, NEW p, NEW m, NEW sk, NEW l, Sound(c, n, p, m, sk, l),
           c.state \in {"LISTEN", "SYN_SENT"},
           NEW s, GoodSegment(s, p, m, c), s.flags = {"SYN"},
           NEW d, IsConn(d), d.state = c.state, d.rcv_nxt = s.seq + 1, d.buffered = {},
           d.got = << >>, d.rcv_fin_seq = None, d.snd_una = d.iss, d.timers \subseteq {"SYN", "ESTAB"},
           d.out = c.out, d.ind = << >>,
           LET x == Event(StartSynRexmitTimer(SendSynAck(d)), "RCV_SYN") IN
           /\ SendOrder(x, n) /\ FinWaits(x)
           /\ x.active \/ (n = 0 /\ ~x.send_fin)
           /\ \A z : (Carried(x, z) /\ z.state = "SYN_RCVD" /\ IsConn(z)) => SendAdvance(c, n, z, n),
           d.active \/ sk = "LISTENING"
    PROVE  OutcomeOf(c, n, Event(StartSynRexmitTimer(SendSynAck(d)), "RCV_SYN"), n, p, m, sk, l)
  <1> DEFINE t == Segment({"SYN", "ACK"}, d.iss, d.rcv_nxt, None)
             x == Event(StartSynRexmitTimer(SendSynAck(d)), "RCV_SYN")
             y == Transition(x)
             z == Kept(y)
  <1>1. /\ IsConn(c) /\ AtRest(c) /\ SendSide(c, n) /\ AppSide(c, sk, l) /\ n \in Nat
    BY DEF Sound, SendSide
  <1>2. /\ IsSegment(t) /\ t.flags = {"SYN", "ACK"} /\ t.seq = d.iss /\ t.ack = d.rcv_nxt
        /\ t.data = None
        /\ IsConn(x) /\ BagToSet(x.out) = BagToSet(d.out) \cup {t}
        /\ x.timers = d.timers \cup {"SYN"} /\ x.event = "RCV_SYN" /\ x.ind = d.ind
        /\ x.state = d.state /\ x.active = d.active /\ x.iss = d.iss
        /\ x.snd_una = d.snd_una /\ x.snd_nxt = d.iss + 1 /\ x.snd_max = d.iss + 1
        /\ x.bufferEnd = d.bufferEnd /\ x.rcv_nxt = d.rcv_nxt /\ x.buffered = d.buffered
        /\ x.send_fin = d.send_fin /\ x.snd_fin_seq = d.snd_fin_seq
        /\ x.fin_ack_rcvd = d.fin_ack_rcvd /\ x.rcv_fin_seq = d.rcv_fin_seq /\ x.got = d.got
    BY SynAckSent
  <1>3. /\ SendOrder(x, n) /\ FinWaits(x)
        /\ x.active \/ (n = 0 /\ ~x.send_fin)
        /\ \A q : (Carried(x, q) /\ q.state = "SYN_RCVD" /\ IsConn(q)) => SendAdvance(c, n, q, n)
    OBVIOUS
  <1> HIDE DEF t, x
  <1>4. Target(x) = "SYN_RCVD"
    <2>1. <<x.state, x.event, "SYN_RCVD">> \in FSM  BY <1>2 DEF FSM
    <2>2. QED  BY <1>2, <2>1, RowTaken
  <1>5. /\ IsConn(z) /\ AtRest(z) /\ Carried(x, z) /\ z.state = "SYN_RCVD"
        /\ y.out = x.out /\ z.timers = x.timers /\ y.ind = x.ind
    <2>1. "SYN_RCVD" \in States \ {"CLOSED"}  BY DEF States
    <2>2. IsConn(x) /\ x.state \in {"LISTEN", "SYN_SENT"}  BY <1>2
    <2>3. x.state # "CLOSED" /\ x.state # "SYN_RCVD"  BY <2>2
    <2>4. /\ IsConn(z) /\ AtRest(z) /\ Carried(x, z) /\ z.state = "SYN_RCVD"
          /\ y.out = x.out
          /\ z.timers = IF "SYN_RCVD" \in {x.state, "INIT", "SYN_SENT", "SYN_RCVD", "TIME_WAIT"}
                        THEN x.timers ELSE x.timers \ {"ESTAB", "SYN"}
          /\ y.ind = IF "SYN_RCVD" = x.state THEN x.ind
                     ELSE IF "SYN_RCVD" = "CLOSE_WAIT" THEN Append(x.ind, "PEER_CLOSED")
                     ELSE IF "SYN_RCVD" = "TIME_WAIT" THEN Append(x.ind, "CLOSED")
                     ELSE x.ind
      BY <1>4, <2>1, <2>2, <2>3, Entered
    <2> HIDE DEF y, z
    <2>5. QED  BY <2>3, <2>4
  <1> HIDE DEF y, z
  <1>6. SendSide(z, n)
    <2>1. SendOrder(z, n)  BY <1>3, <1>5 DEF SendOrder, Carried
    <2>2. SynSent(z)  BY <1>2, <1>5 DEF SynSent, Carried
    <2>3. FinWaits(z)  BY <1>3, <1>5 DEF FinWaits, Carried
    <2>4. z.active \/ (n = 0 /\ ~z.send_fin)  BY <1>3, <1>5 DEF Carried
    <2>5. QED  BY <1>1, <1>5, <2>1, <2>2, <2>3, <2>4 DEF SendSide, Synchronized, Finishing
  <1>7. AppSide(z, sk, l)
    <2>1. l = << >>  BY <1>1 DEF AppSide
    <2>2. z.active \/ sk = "LISTENING"  BY <1>2, <1>5 DEF Carried
    <2>3. QED  BY <1>5, <2>1, <2>2 DEF AppSide
  <1>8. z.rcv_nxt = s.seq + 1 /\ z.got = << >> /\ z.buffered = {} /\ z.rcv_fin_seq = None
        /\ z.snd_una = z.iss /\ z.iss = d.iss /\ z.snd_max = z.iss + 1
    BY <1>2, <1>5 DEF Carried
  <1>9. ReceiveSide(z, p, m) /\ AckFits(z.rcv_nxt, p)
    <2>1. z.state \in {"SYN_RCVD", "ESTABLISHED"} /\ "SYN" \in s.flags  BY <1>5
    <2>2. QED  BY <1>5, <1>8, <2>1, SynTaken DEF Sound
  <1>10. GotSide(z, m) /\ AckSide(z, p)
    <2>1. m \in Nat  BY DEF Sound, SendSide
    <2>2. QED  BY <1>8, <2>1 DEF GotSide, AckSide
  <1>11. SendAdvance(c, n, z, n)  BY <1>3, <1>5
  <1>12. z.state \in Connected  BY <1>5 DEF Connected
  <1>13. RecvAdvance(c, z, p)
    <2>1. s.seq = p.iss  BY DEF GoodSegment
    <2>2. QED  BY <1>8, <1>12, <2>1 DEF RecvAdvance, Acknowledged, Closed, Connected, Synchronized
  <1>14. GoodSegment(t, z, n, p)
    <2>1. t.seq = z.iss /\ t.ack = z.rcv_nxt /\ z.rcv_nxt \in Int /\ z.iss \in Nat
      BY <1>2, <1>5 DEF Carried, IsConn
    <2>2. "FIN" \notin t.flags /\ t.flags # {"SYN"}
      <3>1. t.flags = {"SYN", "ACK"}  BY <1>2
      <3>2. QED  BY <3>1
    <2>3. Reached(z, t.seq + 1)  BY <1>8, <2>1 DEF Reached
    <2>4. Acknowledged(z, p, t.ack)  BY <1>12, <2>1 DEF Acknowledged
    <2>5. QED  BY <1>2, <1>5, <1>9, <2>1, <2>2, <2>3, <2>4 DEF GoodSegment
  <1>15. \A q \in BagToSet(y.out) : GoodSegment(q, z, n, p)
    BY <1>1, <1>2, <1>5, <1>14 DEF AtRest
  <1>16. SockState(sk, y.ind) = sk /\ l \o y.ind = l
    BY <1>1, <1>2, <1>5, LogTyped, ToldNone
  <1>17. Outcome(c, n, z, n, p, m, sk, l, y.out)
    BY <1>5, <1>6, <1>7, <1>9, <1>10, <1>11, <1>13, <1>15 DEF Outcome
  <1>18. QED  BY <1>16, <1>17 DEF OutcomeOf, x, y, z

(* processSegmentInListen().                                               *)
LEMMA InListenWell ==
    ASSUME NEW c, NEW n, NEW p, NEW m, NEW sk, NEW l, Sound(c, n, p, m, sk, l), c.state = "LISTEN",
           NEW s, GoodSegment(s, p, m, c)
    PROVE  OutcomeOf(c, n, InListen(c, s), n, p, m, sk, l)
  <1>1. /\ IsConn(c) /\ AtRest(c) /\ SendSide(c, n) /\ AppSide(c, sk, l) /\ n \in Nat
    BY DEF Sound, SendSide
  <1>2. s.seq \in Int /\ s.ack \in Int /\ s.flags \in Kinds  BY DEF GoodSegment, IsSegment
  <1>3. CASE "RST" \in s.flags
    <2>1. InListen(c, s) = c
      <3>1. s.flags # {"SYN"}  BY <1>3
      <3>2. QED  BY <1>3, <3>1 DEF InListen
    <2>2. QED  BY <2>1, NothingDone
  <1>4. CASE "RST" \notin s.flags /\ "ACK" \in s.flags
    <2>1. InListen(c, s) = SendRst(c, s.ack)
      <3>1. s.flags # {"SYN"}  BY <1>4
      <3>2. QED  BY <1>4, <3>1 DEF InListen
    <2>2. LET t == Segment({"RST"}, s.ack, None, None) IN
          IsSegment(t) /\ t.flags = {"RST"} /\ t.data = None
      <3>1. {"RST"} \in Kinds /\ None \in Int  BY DEF Kinds, None
      <3>2. QED  BY <1>2, <3>1, SegmentTyped
    <2>3. OutcomeOf(c, n, Send(c, Segment({"RST"}, s.ack, None, None)), n, p, m, sk, l)
      BY <2>2, OnlyRst
    <2>4. QED  BY <2>1, <2>3 DEF SendRst
  <1>5. CASE "RST" \notin s.flags /\ "ACK" \notin s.flags
    <2>1. s.flags = {"SYN"}  BY <1>2, <1>5 DEF Kinds
    <2> DEFINE i == c.iss + ISSStep
               d == [SelectInitialSeqNum(c) EXCEPT
                          !.rcv_nxt = s.seq + 1, !.buffered = {}, !.timers = @ \cup {"ESTAB"}]
               x == Event(StartSynRexmitTimer(SendSynAck(d)), "RCV_SYN")
    <2>2. InListen(c, s) = x  BY <1>5, <2>1 DEF InListen
    <2>3. Unopened(c, n) /\ c.iss \in Nat /\ ISSStep \in Nat /\ n = 0
      BY <1>1, ConnectionAssumption DEF SendSide, Unopened, IsConn
    <2>4. i \in Nat /\ i \in Int /\ i + 1 \in Int /\ s.seq + 1 \in Int  BY <1>2, <2>3
    <2>5. d = [c EXCEPT !.iss = i, !.snd_una = i, !.snd_nxt = i, !.snd_max = i,
                        !.bufferEnd = i + 1, !.rcv_nxt = s.seq + 1, !.buffered = {},
                        !.timers = @ \cup {"ESTAB"}]
      BY <1>1 DEF IsConn, Fields, SelectInitialSeqNum
    <2> HIDE DEF d, i
    <2>6. IsConn(d)  BY <1>1, <2>4, <2>5 DEF IsConn, Fields
    <2>7. /\ d.state = c.state /\ d.active = c.active /\ d.iss = i /\ d.snd_una = i
          /\ d.bufferEnd = i + 1 /\ d.rcv_nxt = s.seq + 1 /\ d.buffered = {}
          /\ d.send_fin = c.send_fin /\ d.snd_fin_seq = c.snd_fin_seq
          /\ d.fin_ack_rcvd = c.fin_ack_rcvd /\ d.rcv_fin_seq = c.rcv_fin_seq /\ d.got = c.got
          /\ d.timers = c.timers \cup {"ESTAB"} /\ d.out = c.out /\ d.ind = c.ind
      BY <1>1, <2>5 DEF IsConn, Fields
    <2>8. /\ IsConn(x) /\ x.state = d.state /\ x.active = d.active /\ x.iss = d.iss
          /\ x.snd_una = d.snd_una /\ x.snd_nxt = d.iss + 1 /\ x.snd_max = d.iss + 1
          /\ x.bufferEnd = d.bufferEnd /\ x.send_fin = d.send_fin /\ x.snd_fin_seq = d.snd_fin_seq
          /\ x.fin_ack_rcvd = d.fin_ack_rcvd /\ x.rcv_fin_seq = d.rcv_fin_seq /\ x.got = d.got
          /\ x.ind = d.ind
      BY <2>6, SynAckSent
    <2> HIDE DEF x
    <2>9. SendOrder(x, n) /\ FinWaits(x) /\ ~x.send_fin
      <3>1. Attempt(c, x)  BY <2>4, <2>7, <2>8 DEF Attempt, i
      <3>2. QED  BY <1>1, <2>3, <2>8, <3>1, AttemptOrdered
    <2>10. ASSUME NEW q, Carried(x, q) /\ q.state = "SYN_RCVD" /\ IsConn(q)
           PROVE  SendAdvance(c, n, q, n)
      BY <2>3, <2>7, <2>8, <2>10 DEF SendAdvance, Carried, i
    <2>11. /\ d.got = << >> /\ d.rcv_fin_seq = None /\ d.snd_una = d.iss /\ d.ind = << >>
           /\ d.timers \subseteq {"SYN", "ESTAB"} /\ sk = "LISTENING"
      BY <1>1, <2>3, <2>7 DEF Unopened, AtRest, AppSide
    <2>12. OutcomeOf(c, n, x, n, p, m, sk, l)
      BY <2>1, <2>3, <2>6, <2>7, <2>9, <2>10, <2>11, AnswersSyn DEF x
    <2>13. QED  BY <2>2, <2>12
  <1>6. QED  BY <1>3, <1>4, <1>5

(* A SYN can be acknowledged.                                              *)
LEMMA SynAckDue ==
    ASSUME NEW p, IsConn(p), NEW m, NEW c, NEW s, GoodSegment(s, p, m, c), "SYN" \in s.flags
    PROVE  AckFits(s.seq + 1, p)
  <1>1. /\ s.seq \in Int /\ p.iss \in Nat /\ ISSStep \in Nat
    BY ConnectionAssumption DEF GoodSegment, IsSegment, IsConn
  <1>2. /\ s.seq = p.iss \/ s.seq + ISSStep <= p.iss
        /\ Reached(p, s.seq + 1)
    BY DEF GoodSegment
  <1>3. QED  BY <1>1, <1>2 DEF AckFits

(* An event that tells of an error and closes the connection.              *)
LEMMA BreaksOff ==
    ASSUME NEW c, NEW n, NEW p, NEW m, NEW sk, NEW l, Sound(c, n, p, m, sk, l),
           c.state \notin {"CLOSED", "TIME_WAIT"}, NEW a \in Problems,
           NEW ev \in {"RCV_RST", "RCV_UNEXP_SYN"},
           \/ c.state = "SYN_RCVD" /\ ev = "RCV_RST" /\ c.active
           \/ ~(c.state = "SYN_RCVD" /\ ev = "RCV_RST") /\ <<c.state, ev, "CLOSED">> \in FSM
    PROVE  OutcomeOf(c, n, Event(Indicate(c, a), ev), n, p, m, sk, l)
  <1> DEFINE d == Indicate(c, a)
             x == Event(d, ev)
  <1>1. IsConn(c) /\ AtRest(c) /\ a \in Indications  BY DEF Sound, Problems, Indications
  <1>2. OutFits(c, n, p)  BY <1>1, NothingSent
  <1>3. IsConn(d) /\ Alike(c, d) /\ d.ind = Append(c.ind, a) /\ OutFits(d, n, p)
    BY <1>1, <1>2, Indicated
  <1> HIDE DEF d
  <1>4. IsConn(x) /\ Alike(d, x) /\ x.event = ev /\ x.ind = d.ind /\ OutFits(x, n, p)
    BY <1>3, EventSet
  <1> HIDE DEF x
  <1>5. /\ x.state = c.state /\ x.iss = c.iss /\ x.got = c.got /\ x.active = c.active
        /\ x.ind = Append(<< >>, a)
    BY <1>1, <1>3, <1>4 DEF Alike, Carried, AtRest
  <1>6. Target(x) = "CLOSED"
    <2>1. CASE c.state = "SYN_RCVD" /\ ev = "RCV_RST" /\ c.active
      BY <1>4, <1>5, <2>1 DEF Target
    <2>2. CASE ~(c.state = "SYN_RCVD" /\ ev = "RCV_RST") /\ <<c.state, ev, "CLOSED">> \in FSM
      <3>1. <<x.state, x.event, "CLOSED">> \in FSM  BY <1>4, <1>5, <2>2
      <3>2. ~(x.state = "SYN_RCVD" /\ x.event \in {"TIMEOUT_CONN_ESTAB", "RCV_RST"})
        BY <1>4, <1>5, <2>2
      <3>3. QED  BY <3>1, <3>2, RowTaken
    <2>3. QED  BY <2>1, <2>2
  <1>7. x.event # "ABORT" /\ x.state \notin {"CLOSED", "TIME_WAIT"}  BY <1>4, <1>5
  <1>8. \E i \in Problems : x.ind = Append(<< >>, i)  BY <1>5
  <1>9. OutcomeOf(c, n, x, n, p, m, sk, l)
    BY <1>4, <1>5, <1>6, <1>7, <1>8, ClosesTelling
  <1>10. QED  BY <1>9 DEF x, d

(* established() in SYN_SENT.                                              *)
LEMMA EstablishesWell ==
    ASSUME NEW c, NEW n, NEW p, NEW m, NEW sk, NEW l, Sound(c, n, p, m, sk, l),
           c.state = "SYN_SENT", NEW s, GoodSegment(s, p, m, c), s.flags = {"SYN", "ACK"},
           c.iss < s.ack, s.ack <= c.snd_nxt, NEW idle
    PROVE  LET d == [c EXCEPT !.rcv_nxt = s.seq + 1, !.buffered = {}]
               e == SendData([d EXCEPT !.snd_una = s.ack, !.snd_cwnd = InitialWindow(c)], idle)
               f == IF e.out = d.out THEN SendAck(e) ELSE e IN
           OutcomeOf(c, n, Event(Indicate(f, "ESTABLISHED"), "RCV_SYN_ACK"), n, p, m, sk, l)
  <1> DEFINE d == [c EXCEPT !.rcv_nxt = s.seq + 1, !.buffered = {}]
             w == InitialWindow(c)
             i == s.seq + 1
             b == [d EXCEPT !.snd_una = s.ack, !.snd_cwnd = w]
             e == SendData(b, idle)
             f == IF e.out = d.out THEN SendAck(e) ELSE e
             g == Indicate(f, "ESTABLISHED")
             x == Event(g, "RCV_SYN_ACK")
             y == Transition(x)
             z == Kept(y)
  <1>1. /\ IsConn(c) /\ AtRest(c) /\ SendSide(c, n) /\ AppSide(c, sk, l) /\ n \in Nat
        /\ m \in Nat /\ IsConn(p) /\ SendSide(p, m) /\ l = << >>
    BY DEF Sound, SendSide, AppSide
  <1>2. /\ s.seq \in Int /\ s.ack \in Int /\ i \in Int /\ w \in Int
    BY ConnectionAssumption DEF GoodSegment, IsSegment, InitialWindow
  <1>3. /\ SynSent(c) /\ SendOrder(c, n) /\ ~c.send_fin /\ c.active  BY <1>1 DEF SendSide
  <1>4. /\ c.iss \in Nat /\ c.snd_una \in Int /\ c.snd_nxt \in Int /\ c.snd_max \in Int
        /\ c.bufferEnd \in Int
    BY <1>1 DEF IsConn
  <1>5. s.ack = c.iss + 1  BY <1>2, <1>3, <1>4 DEF SynSent
  <1>6. b = [c EXCEPT !.rcv_nxt = i, !.buffered = {}, !.snd_una = s.ack, !.snd_cwnd = w]
    BY <1>1 DEF IsConn, Fields
  <1> HIDE DEF b, w, i
  <1>7. IsConn(b)  BY <1>1, <1>2, <1>6 DEF IsConn, Fields
  <1>8. /\ b.state = c.state /\ b.active = c.active /\ b.iss = c.iss /\ b.snd_una = s.ack
        /\ b.snd_nxt = c.snd_nxt /\ b.snd_max = c.snd_max /\ b.bufferEnd = c.bufferEnd
        /\ b.rcv_nxt = i /\ b.buffered = {} /\ b.send_fin = c.send_fin
        /\ b.fin_ack_rcvd = c.fin_ack_rcvd /\ b.rcv_fin_seq = c.rcv_fin_seq /\ b.got = c.got
        /\ b.timers = c.timers /\ b.out = c.out /\ b.ind = c.ind /\ b.event = c.event
    BY <1>1, <1>6 DEF IsConn, Fields
  <1>9. /\ SendOrder(b, n) /\ FinWaits(b) /\ Timed(b) /\ b.iss < b.snd_una
    BY <1>1, <1>3, <1>4, <1>5, <1>8 DEF SendOrder, SynSent, FinWaits, Timed
  <1>10. OutFits(b, n, p)  BY <1>1, <1>8 DEF AtRest, OutFits
  <1>11. AckFits(b.rcv_nxt, p)  BY <1>1, <1>8, SynAckDue DEF i
  <1>12. SentMore(b, e, n, p)  BY <1>1, <1>7, <1>9, <1>10, <1>11, Sending
  <1> HIDE DEF e
  <1>13. /\ IsConn(f) /\ SendsOnly(b, f) /\ OutFits(f, n, p) /\ SendOrder(f, n) /\ Timed(f)
         /\ c.snd_max <= f.snd_max /\ FinWaits(f) /\ f.timers \subseteq {"SYN", "ESTAB", "REXMIT"}
    <2>1. /\ IsConn(e) /\ SendsOnly(b, e) /\ OutFits(e, n, p) /\ SendOrder(e, n) /\ Timed(e)
          /\ b.snd_max <= e.snd_max /\ e.timers \cup {"REXMIT"} = b.timers \cup {"REXMIT"}
          /\ (FinWaits(e) \/ e.send_fin)
      BY <1>9, <1>12 DEF SentMore
    <2>2. ~e.send_fin  BY <1>3, <1>8, <2>1 DEF SendsOnly
    <2>3. e.timers \subseteq {"SYN", "ESTAB", "REXMIT"}  BY <1>3, <1>8, <2>1 DEF SynSent
    <2>4. CASE f = e  BY <1>8, <2>1, <2>2, <2>3, <2>4
    <2>5. CASE f = SendAck(e)
      <3>1. AckFits(e.rcv_nxt, p)  BY <1>11, <2>1 DEF SendsOnly
      <3>2. /\ IsConn(f) /\ SendsOnly(e, f) /\ OutFits(f, n, p) /\ f.timers = e.timers
            /\ f.snd_nxt = e.snd_nxt /\ f.snd_max = e.snd_max
        BY <1>1, <2>1, <2>5, <3>1, AckSent
      <3> HIDE DEF f
      <3>3. SendsOnly(b, f) /\ SendOrder(f, n) /\ Timed(f) /\ FinWaits(f)
        BY <2>1, <2>2, <3>2 DEF SendsOnly, SendOrder, Timed, FinWaits
      <3>4. QED  BY <1>8, <2>1, <2>3, <3>2, <3>3
    <2>6. QED  BY <2>4, <2>5
  <1> HIDE DEF f
  <1>14. /\ IsConn(g) /\ Alike(f, g) /\ g.ind = Append(f.ind, "ESTABLISHED") /\ OutFits(g, n, p)
    <2>1. "ESTABLISHED" \in Indications  BY DEF Indications
    <2>2. QED  BY <1>13, <2>1, Indicated
  <1> HIDE DEF g
  <1>15. /\ IsConn(x) /\ Alike(g, x) /\ x.event = "RCV_SYN_ACK" /\ x.ind = g.ind /\ OutFits(x, n, p)
    BY <1>14, EventSet
  <1> HIDE DEF x
  <1>16. Alike(f, x) /\ x.state = "SYN_SENT" /\ x.ind = Append(<< >>, "ESTABLISHED")
    BY <1>1, <1>8, <1>13, <1>14, <1>15 DEF Alike, Carried, SendsOnly, AtRest
  <1>17. Target(x) = "ESTABLISHED"
    <2>1. <<x.state, x.event, "ESTABLISHED">> \in FSM  BY <1>15, <1>16 DEF FSM
    <2>2. QED  BY <1>16, <2>1, RowTaken
  <1>18. /\ IsConn(z) /\ AtRest(z) /\ Carried(x, z) /\ z.state = "ESTABLISHED"
         /\ y.out = x.out /\ z.timers = x.timers \ {"ESTAB", "SYN"} /\ y.ind = x.ind
    <2>1. "ESTABLISHED" \in States \ {"CLOSED"}  BY DEF States, Synchronized
    <2>2. QED  BY <1>15, <1>16, <1>17, <2>1, Entered
  <1> HIDE DEF y, z
  <1>19. Carried(f, z) /\ z.timers = f.timers \ {"ESTAB", "SYN"}
    BY <1>16, <1>18 DEF Alike, Carried
  <1>20. /\ z.iss = c.iss /\ z.snd_una = s.ack /\ z.rcv_nxt = i /\ z.got = << >> /\ z.buffered = {}
         /\ z.rcv_fin_seq = None /\ c.snd_max <= z.snd_max /\ z.send_fin = c.send_fin
         /\ z.active = c.active
    BY <1>3, <1>8, <1>13, <1>19 DEF Carried, SendsOnly, SynSent
  <1>21. SendSide(z, n)
    <2>1. SendOrder(z, n) /\ FinWaits(z) /\ Timed(z)
      BY <1>13, <1>19 DEF SendOrder, FinWaits, Timed, Carried
    <2>2. z.iss < z.snd_una /\ z.iss < z.snd_max
      <3>1. z.snd_max \in Int /\ z.snd_una \in Int /\ z.snd_nxt \in Int  BY <1>18 DEF IsConn
      <3>2. QED  BY <1>4, <1>5, <1>20, <2>1, <3>1 DEF SendOrder
    <2>3. z.timers \subseteq {"REXMIT", "2MSL"} /\ "2MSL" \notin z.timers  BY <1>13, <1>19
    <2>4. QED  BY <1>1, <1>18, <2>1, <2>2, <2>3 DEF SendSide, Synchronized, Finishing
  <1>22. GotSide(z, m) /\ AckSide(z, p)
    <2>1. GotSide(z, m)  BY <1>1, <1>20 DEF GotSide
    <2>2. Acknowledged(p, c, s.ack)
      <3>1. "ACK" \in s.flags /\ "RST" \notin s.flags  OBVIOUS
      <3>2. QED  BY <3>1 DEF GoodSegment
    <2>3. QED  BY <1>20, <2>1, <2>2 DEF AckSide, Acknowledged
  <1>23. ReceiveSide(z, p, m)
    <2>1. z.state \in {"SYN_RCVD", "ESTABLISHED"} /\ "SYN" \in s.flags  BY <1>18
    <2>2. z.rcv_nxt = s.seq + 1  BY <1>20 DEF i
    <2>3. QED  BY <1>1, <1>18, <1>20, <2>1, <2>2, SynTaken
  <1>24. SendAdvance(c, n, z, n)
    <2>1. n <= n /\ c.state # "CLOSED" /\ z.state # "INIT"  BY <1>1, <1>18
    <2>2. QED  BY <1>1, <1>3, <1>18, <1>20, <2>1, SendMovesOn
  <1>25. RecvAdvance(c, z, p)
    BY DEF RecvAdvance, Acknowledged, Closed, Connected, Synchronized
  <1>26. \A t \in BagToSet(y.out) : GoodSegment(t, z, n, p)
    <2>1. z.state \in Connected /\ z.state # "INIT"  BY <1>18 DEF Connected, Synchronized
    <2>2. QED  BY <1>15, <1>18, <2>1, FitIsGood DEF OutFits
  <1>27. SockState(sk, y.ind) = "CONNECTED" /\ l \o y.ind = <<"ESTABLISHED">>
    <2>1. y.ind = <<"ESTABLISHED">>  BY <1>16, <1>18
    <2>2. QED  BY <1>1, <2>1 DEF SockState, Last
  <1>28. AppSide(z, "CONNECTED", <<"ESTABLISHED">>)  BY <1>18 DEF AppSide
  <1>29. Outcome(c, n, z, n, p, m, "CONNECTED", <<"ESTABLISHED">>, y.out)
    BY <1>18, <1>21, <1>22, <1>23, <1>24, <1>25, <1>26, <1>28 DEF Outcome
  <1>30. QED  BY <1>27, <1>29 DEF OutcomeOf, x, y, z, g, f, e, b, w

(* processSegmentInSynSent().                                              *)
LEMMA InSynSentWell ==
    ASSUME NEW c, NEW n, NEW p, NEW m, NEW sk, NEW l, Sound(c, n, p, m, sk, l),
           c.state = "SYN_SENT", NEW s, GoodSegment(s, p, m, c), NEW idle
    PROVE  OutcomeOf(c, n, InSynSent(c, s, idle), n, p, m, sk, l)
  <1> DEFINE badAck == "ACK" \in s.flags /\ (s.ack <= c.iss \/ s.ack > c.snd_nxt)
             d == [c EXCEPT !.rcv_nxt = s.seq + 1, !.buffered = {}]
             e == SendData([d EXCEPT !.snd_una = s.ack, !.snd_cwnd = InitialWindow(c)], idle)
             f == IF e.out = d.out THEN SendAck(e) ELSE e
             x == Event(StartSynRexmitTimer(SendSynAck(d)), "RCV_SYN")
  <1>1. /\ IsConn(c) /\ AtRest(c) /\ SendSide(c, n) /\ AppSide(c, sk, l) /\ n \in Nat
    BY DEF Sound, SendSide
  <1>2. s.seq \in Int /\ s.ack \in Int /\ s.flags \in Kinds  BY DEF GoodSegment, IsSegment
  <1>3. InSynSent(c, s, idle) =
          CASE badAck -> IF "RST" \in s.flags THEN c ELSE SendRst(c, s.ack)
            [] ~badAck /\ "RST" \in s.flags ->
                  IF "ACK" \in s.flags THEN Event(Indicate(c, "CONNECTION_RESET"), "RCV_RST")
                                       ELSE c
            [] s.flags = {"SYN"} -> x
            [] ~badAck /\ s.flags = {"SYN", "ACK"} ->
                  Event(Indicate(f, "ESTABLISHED"), "RCV_SYN_ACK")
            [] OTHER -> c
    BY DEF InSynSent
  <1>4. c.iss \in Nat /\ c.snd_nxt \in Int  BY <1>1 DEF IsConn
  <1>5. OutcomeOf(c, n, c, n, p, m, sk, l)  BY NothingDone
  <1>6. CASE badAck
    <2>1. s.flags # {"SYN"}  BY <1>6
    <2>2. InSynSent(c, s, idle) = IF "RST" \in s.flags THEN c ELSE SendRst(c, s.ack)
      <3> HIDE DEF d, e, f, x
      <3>1. badAck /\ ~(~badAck /\ "RST" \in s.flags) /\ ~(s.flags = {"SYN"})
            /\ ~(~badAck /\ s.flags = {"SYN", "ACK"})
        BY <1>6, <2>1
      <3> HIDE DEF badAck
      <3>2. QED  BY <1>3, <3>1
    <2>3. LET t == Segment({"RST"}, s.ack, None, None) IN
          IsSegment(t) /\ t.flags = {"RST"} /\ t.data = None
      <3>1. {"RST"} \in Kinds /\ None \in Int  BY DEF Kinds, None
      <3>2. QED  BY <1>2, <3>1, SegmentTyped
    <2>4. OutcomeOf(c, n, Send(c, Segment({"RST"}, s.ack, None, None)), n, p, m, sk, l)
      BY <2>3, OnlyRst
    <2>5. OutcomeOf(c, n, SendRst(c, s.ack), n, p, m, sk, l)  BY <2>4 DEF SendRst
    <2>6. QED  BY <1>5, <2>2, <2>5
  <1>7. CASE ~badAck /\ "RST" \in s.flags
    <2>1. s.flags # {"SYN"} /\ s.flags # {"SYN", "ACK"}  BY <1>7
    <2>2. InSynSent(c, s, idle) =
            IF "ACK" \in s.flags THEN Event(Indicate(c, "CONNECTION_RESET"), "RCV_RST") ELSE c
      <3> HIDE DEF d, e, f, x, badAck
      <3>1. QED  BY <1>3, <1>7, <2>1
    <2>3. "CONNECTION_RESET" \in Problems  BY DEF Problems
    <2>4. <<"SYN_SENT", "RCV_RST", "CLOSED">> \in FSM  BY DEF FSM
    <2>5. OutcomeOf(c, n, Event(Indicate(c, "CONNECTION_RESET"), "RCV_RST"), n, p, m, sk, l)
      BY <2>3, <2>4, BreaksOff
    <2>6. QED  BY <1>5, <2>2, <2>5
  <1>8. CASE s.flags = {"SYN"}
    <2> DEFINE i == s.seq + 1
    <2>1. ~badAck /\ "RST" \notin s.flags /\ s.flags # {"SYN", "ACK"}  BY <1>8
    <2>2. InSynSent(c, s, idle) = x
      <3> HIDE DEF d, e, f, x, badAck
      <3>1. QED  BY <1>3, <1>8, <2>1
    <2>3. SynSent(c) /\ SendOrder(c, n) /\ ~c.send_fin /\ c.active  BY <1>1 DEF SendSide
    <2>4. d = [c EXCEPT !.rcv_nxt = i, !.buffered = {}] /\ i \in Int  BY <1>2
    <2> HIDE DEF d, i
    <2>5. IsConn(d)  BY <1>1, <2>4 DEF IsConn, Fields
    <2>6. /\ d.state = c.state /\ d.active = c.active /\ d.iss = c.iss /\ d.snd_una = c.snd_una
          /\ d.bufferEnd = c.bufferEnd /\ d.rcv_nxt = i /\ d.buffered = {}
          /\ d.send_fin = c.send_fin /\ d.snd_fin_seq = c.snd_fin_seq
          /\ d.fin_ack_rcvd = c.fin_ack_rcvd /\ d.rcv_fin_seq = c.rcv_fin_seq /\ d.got = c.got
          /\ d.timers = c.timers /\ d.out = c.out /\ d.ind = c.ind
      BY <1>1, <2>4 DEF IsConn, Fields
    <2>7. /\ IsConn(x) /\ x.active = d.active /\ x.iss = d.iss
          /\ x.snd_una = d.snd_una /\ x.snd_nxt = d.iss + 1 /\ x.snd_max = d.iss + 1
          /\ x.bufferEnd = d.bufferEnd /\ x.send_fin = d.send_fin /\ x.snd_fin_seq = d.snd_fin_seq
          /\ x.fin_ack_rcvd = d.fin_ack_rcvd
      BY <2>5, SynAckSent
    <2> HIDE DEF x
    <2>8. SendOrder(x, n) /\ FinWaits(x)
      <3>1. c.bufferEnd = c.iss + 1 + n  BY <2>3 DEF SendOrder
      <3>2. QED  BY <1>1, <1>4, <2>3, <2>6, <2>7, <3>1 DEF SendOrder, FinWaits, SynSent
    <2>9. ASSUME NEW q, Carried(x, q) /\ q.state = "SYN_RCVD" /\ IsConn(q)
          PROVE  SendAdvance(c, n, q, n)
      <3>1. /\ q.iss = c.iss /\ c.snd_max <= q.snd_max /\ q.active /\ n <= n
            /\ c.state # "CLOSED" /\ q.state # "INIT"
        BY <1>1, <1>4, <2>3, <2>6, <2>7, <2>9 DEF Carried, SynSent
      <3>2. QED  BY <1>1, <2>3, <2>9, <3>1, SendMovesOn
    <2>10. /\ d.got = << >> /\ d.rcv_fin_seq = None /\ d.snd_una = d.iss /\ d.ind = << >>
           /\ d.timers \subseteq {"SYN", "ESTAB"} /\ d.active /\ x.active
      BY <1>1, <2>3, <2>6, <2>7 DEF SynSent, AtRest
    <2>11. d.rcv_nxt = s.seq + 1  BY <2>6 DEF i
    <2>12. OutcomeOf(c, n, x, n, p, m, sk, l)
      BY <1>8, <2>5, <2>6, <2>8, <2>9, <2>10, <2>11, AnswersSyn DEF x
    <2>13. QED  BY <2>2, <2>12
  <1>9. CASE ~badAck /\ s.flags = {"SYN", "ACK"}
    <2>1. "RST" \notin s.flags /\ s.flags # {"SYN"}  BY <1>9
    <2>2. InSynSent(c, s, idle) = Event(Indicate(f, "ESTABLISHED"), "RCV_SYN_ACK")
      <3> HIDE DEF d, e, f, x, badAck
      <3>1. QED  BY <1>3, <1>9, <2>1
    <2>3. c.iss < s.ack /\ s.ack <= c.snd_nxt  BY <1>2, <1>4, <1>9
    <2>4. OutcomeOf(c, n, Event(Indicate(f, "ESTABLISHED"), "RCV_SYN_ACK"), n, p, m, sk, l)
      BY <1>9, <2>3, EstablishesWell
    <2>5. QED  BY <2>2, <2>4
  <1>10. CASE ~badAck /\ "RST" \notin s.flags /\ s.flags # {"SYN"} /\ s.flags # {"SYN", "ACK"}
    <2>1. InSynSent(c, s, idle) = c
      <3> HIDE DEF d, e, f, x, badAck
      <3>1. QED  BY <1>3, <1>10
    <2>2. QED  BY <1>5, <2>1
  <1>11. QED  BY <1>6, <1>7, <1>8, <1>9, <1>10

(* After the peer's FIN no more data is taken, nor a SYN or FIN in         *)
(* TIME_WAIT, where everything has been acknowledged.                      *)
LEMMA NothingAfterFin ==
    ASSUME NEW c, NEW n, NEW p, NEW m, NEW sk, NEW l, Sound(c, n, p, m, sk, l),
           c.state \in AfterFin, NEW s, GoodSegment(s, p, m, c), IsSegmentAcceptable(c, s)
    PROVE  /\ s.data = None
           /\ c.state = "TIME_WAIT" => "SYN" \notin s.flags /\ "FIN" \notin s.flags
  <1>1. /\ IsConn(c) /\ IsConn(p) /\ SendSide(c, n) /\ n \in Nat /\ m \in Nat /\ ReceiveSide(c, p, m)
    BY DEF Sound, SendSide
  <1>2. /\ c.snd_una \in Int /\ c.snd_nxt \in Int /\ c.snd_max \in Int /\ c.rcv_nxt \in Int
        /\ p.iss \in Nat /\ c.bufferEnd \in Int /\ ISSStep \in Nat
    BY <1>1, ConnectionAssumption DEF IsConn
  <1>3. s.seq \in Int /\ s.ack \in Int /\ s.data \in Int  BY DEF GoodSegment, IsSegment
  <1>4. c.rcv_nxt = p.iss + 2 + m
    BY <1>1, <1>2 DEF ReceiveSide, BeforeFin, PastFin, Behind, EndOf, Connected, AfterFin, Synchronized
  <1>5. s.data = None
    <2>1. s.data # None => s.data = s.seq - p.iss /\ s.data <= m  BY <1>1, <1>3 DEF GoodSegment
    <2>2. s.data # None => c.rcv_nxt <= s.seq  BY DEF IsSegmentAcceptable
    <2>3. QED  BY <1>1, <1>2, <1>3, <1>4, <2>1, <2>2
  <1>6. ASSUME c.state = "TIME_WAIT" PROVE "SYN" \notin s.flags /\ "FIN" \notin s.flags
    <2>1. c.snd_una = c.snd_max /\ c.snd_nxt <= c.snd_max
      BY <1>1, <1>6 DEF SendSide, SendOrder, Finishing
    <2>2. c.rcv_nxt <= s.seq  BY <1>2, <1>3, <1>5, <2>1 DEF IsSegmentAcceptable
    <2>3. "SYN" \notin s.flags  BY <1>1, <1>2, <1>3, <1>4, <2>2 DEF GoodSegment
    <2>4. "FIN" \notin s.flags
      BY <1>1, <1>2, <1>3, <1>4, <1>5, <2>2 DEF GoodSegment, FinSeq, EndOf
    <2>5. QED  BY <2>3, <2>4
  <1>7. QED  BY <1>5, <1>6

(* The second step.                                                        *)
LEMMA ProcessRstWell ==
    ASSUME NEW c, NEW n, NEW p, NEW m, NEW sk, NEW l, Sound(c, n, p, m, sk, l),
           c.state \in Connected
    PROVE  OutcomeOf(c, n, ProcessRst(c), n, p, m, sk, l)
  <1> DEFINE x == Event(c, "RCV_RST")
  <1>1. /\ IsConn(c) /\ AtRest(c) /\ SendSide(c, n) /\ AppSide(c, sk, l)
    BY DEF Sound
  <1>2. /\ IsConn(x) /\ Alike(c, x) /\ x.event = "RCV_RST" /\ x.ind = << >> /\ x.out = c.out
    BY <1>1, EventSet DEF AtRest
  <1>3. x.state = c.state /\ x.iss = c.iss /\ x.got = c.got /\ Carried(c, x)
        /\ x.timers = c.timers
    BY <1>2 DEF Alike, Carried
  <1>4. OutFits(x, n, p)  BY <1>1, <1>2 DEF AtRest, OutFits
  <1> HIDE DEF x
  <1>5. CASE c.state = "SYN_RCVD" /\ c.active
    <2>1. ProcessRst(c) = Event(Indicate(c, "CONNECTION_REFUSED"), "RCV_RST")
      BY <1>5 DEF ProcessRst
    <2>2. "CONNECTION_REFUSED" \in Problems  BY DEF Problems
    <2>3. QED  BY <1>5, <2>1, <2>2, BreaksOff
  <1>6. CASE c.state = "SYN_RCVD" /\ ~c.active
    <2>1. ProcessRst(c) = x  BY <1>6 DEF ProcessRst, x
    <2>2. OutcomeOf(c, n, x, n, p, m, sk, l)  BY <1>2, <1>3, <1>6, ListensAgain
    <2>3. QED  BY <2>1, <2>2
  <1>7. CASE c.state \in {"ESTABLISHED", "FIN_WAIT_1", "FIN_WAIT_2", "CLOSE_WAIT"}
    <2>1. ProcessRst(c) = Event(Indicate(c, "CONNECTION_RESET"), "RCV_RST")
      BY <1>7 DEF ProcessRst
    <2>2. "CONNECTION_RESET" \in Problems  BY DEF Problems
    <2>3. <<c.state, "RCV_RST", "CLOSED">> \in FSM  BY <1>7 DEF FSM, Synchronized
    <2>4. QED  BY <1>7, <2>1, <2>2, <2>3, BreaksOff
  <1>8. CASE c.state \in {"CLOSING", "LAST_ACK", "TIME_WAIT"}
    <2>1. ProcessRst(c) = x  BY <1>8 DEF ProcessRst, x
    <2>2. Target(x) = "CLOSED"
      <3>1. <<x.state, x.event, "CLOSED">> \in FSM  BY <1>2, <1>3, <1>8 DEF FSM, Synchronized
      <3>2. QED  BY <1>3, <1>8, <3>1, RowTaken
    <2>3. CASE c.state # "TIME_WAIT"
      <3>1. x.state \notin {"CLOSED", "TIME_WAIT"} /\ x.event # "ABORT"  BY <1>2, <1>3, <1>8, <2>3
      <3>2. OutcomeOf(c, n, x, n, p, m, sk, l)
        BY <1>2, <1>3, <1>4, <2>2, <3>1, ClosesTelling
      <3>3. QED  BY <2>1, <3>2
    <2>4. CASE c.state = "TIME_WAIT"
      <3>1. SockState(sk, x.ind) \in {"CLOSED", "SOCKERROR"} /\ Ended(l \o x.ind)
        <4>1. l \in Seq(Indications) /\ Ended(l)  BY <1>1, LogTyped
        <4>2. sk \in {"CLOSED", "SOCKERROR"}  BY <1>1, <2>4 DEF AppSide
        <4>3. QED  BY <1>2, <4>1, <4>2, ToldNone
      <3>2. OutcomeOf(c, n, x, n, p, m, sk, l)
        BY <1>2, <1>3, <1>4, <2>2, <2>4, <3>1, Closes
      <3>3. QED  BY <2>1, <3>2
    <2>5. QED  BY <2>3, <2>4
  <1>9. QED  BY <1>5, <1>6, <1>7, <1>8 DEF Connected, Synchronized

(* An unexpected SYN.                                                      *)
LEMMA UnexpectedSynWell ==
    ASSUME NEW c, NEW n, NEW p, NEW m, NEW sk, NEW l, Sound(c, n, p, m, sk, l),
           c.state \in Connected \ {"TIME_WAIT"}
    PROVE  OutcomeOf(c, n, Event(Indicate(c, "CONNECTION_RESET"), "RCV_UNEXP_SYN"), n, p, m, sk, l)
  <1>1. "CONNECTION_RESET" \in Problems  BY DEF Problems
  <1>2. <<c.state, "RCV_UNEXP_SYN", "CLOSED">> \in FSM /\ c.state # "CLOSED"
    BY DEF FSM, Connected, Synchronized
  <1>3. QED  BY <1>1, <1>2, BreaksOff

(* An ACK in TIME_WAIT is answered, and the 2MSL timer restarted.          *)
LEMMA InTimeWaitWell ==
    ASSUME NEW c, NEW n, NEW p, NEW m, NEW sk, NEW l, Sound(c, n, p, m, sk, l),
           c.state = "TIME_WAIT"
    PROVE  OutcomeOf(c, n, Start(SendAck(c), "2MSL"), n, p, m, sk, l)
  <1> DEFINE e == SendAck(c)
             x == Start(e, "2MSL")
  <1>1. IsConn(c) /\ n \in Nat /\ AtRest(c) /\ c.state \in Connected /\ "2MSL" \in c.timers
    BY DEF Sound, SendSide, Connected, Synchronized
  <1>2. AckFits(c.rcv_nxt, p)  BY <1>1, AckDue DEF Sound
  <1>3. OutFits(c, n, p)  BY <1>1, NothingSent
  <1>4. /\ IsConn(e) /\ SendsOnly(c, e) /\ OutFits(e, n, p) /\ e.timers = c.timers
        /\ e.snd_nxt = c.snd_nxt /\ e.snd_max = c.snd_max
    BY <1>1, <1>2, <1>3, AckSent
  <1> HIDE DEF e
  <1>5. IsConn(x)  BY <1>4 DEF Start, IsConn, Fields
  <1>6. Alike(e, x) /\ x.out = e.out /\ x.ind = e.ind /\ x.event = e.event
    BY ZenonT(60), <1>1, <1>4 DEF Start, IsConn, Fields, Alike, Carried
  <1> HIDE DEF x
  <1>7. Alike(c, x) /\ x.event = "IGNORE" /\ x.ind = << >> /\ x.state = c.state
    BY <1>1, <1>4, <1>6 DEF SendsOnly, Alike, Carried, AtRest
  <1>8. OutFits(x, n, p)  BY <1>4, <1>6, SameFits
  <1>9. \A s \in BagToSet(x.out) : GoodSegment(s, x, n, p)
    BY <1>1, <1>5, <1>7, <1>8, FitsAreGood
  <1>10. Alike(x, c)  BY <1>7 DEF Alike, Carried
  <1>11. \A s \in BagToSet(x.out) : GoodSegment(s, c, n, p)  BY <1>9, <1>10, AlikeIsGood
  <1>12. OutcomeOf(c, n, x, n, p, m, sk, l)
    <2>1. c.state # "CLOSED"  OBVIOUS
    <2>2. QED  BY <1>5, <1>7, <1>11, <2>1, Quiet
  <1>13. QED  BY <1>12 DEF x, e

(* What has been received is right for a connection that is to be in state *)
(* `to' after the event.                                                   *)
Receives(x, to, p, m) ==
    /\ p.state # "INIT" /\ GotSide(x, m) /\ Buffered(x, p, m)
    /\ \/ x.rcv_nxt = p.iss + 1 + Len(x.got) /\ Reached(p, x.rcv_nxt) /\ to \notin AfterFin
       \/ /\ x.rcv_nxt = EndOf(p, m) + 1 /\ Len(x.got) = m /\ FinSent(p, m)
          /\ to \notin {"SYN_RCVD", "ESTABLISHED"}
       \/ /\ x.rcv_nxt + ISSStep <= p.iss + 1 /\ x.got = << >> /\ x.buffered = {}
          /\ to \notin AfterFin
    /\ x.rcv_fin_seq = None \/ (x.rcv_fin_seq = EndOf(p, m) /\ FinSent(p, m))

(* Receives, for a connection that stays in its state, is what IInv says.  *)
LEMMA ReceivedSide ==
    ASSUME NEW c, NEW p, NEW m, c.state \in Connected
    PROVE  (GotSide(c, m) /\ ReceiveSide(c, p, m)) <=> Receives(c, c.state, p, m)
  BY DEF Receives, ReceiveSide, BeforeFin, PastFin, Behind

(* What has been sent is right for it, too.                                *)
Sends(x, to, n) ==
    /\ SendOrder(x, n) /\ Timed(x) /\ x.iss < x.snd_max
    /\ ("2MSL" \in x.timers) <=> (to = "TIME_WAIT")
    /\ to \in {"ESTABLISHED", "CLOSE_WAIT"} => x.iss < x.snd_una /\ FinWaits(x)
    /\ to \in Finishing =>
          /\ x.snd_max = x.bufferEnd + 1
          /\ x.fin_ack_rcvd <=> to \in {"FIN_WAIT_2", "TIME_WAIT"}

(* A connection that Sends and enters a synchronized state has a right     *)
(* send side.                                                              *)
LEMMA SideSent ==
    ASSUME NEW x, IsConn(x), NEW n \in Nat, NEW to \in Synchronized, Sends(x, to, n), NEW z,
           Carried(x, z), z.state = to, NEW ts \in SUBSET {"SYN", "ESTAB"},
           z.timers = x.timers \ ts, x.timers \subseteq ts \cup {"REXMIT", "2MSL"}
    PROVE  SendSide(z, n)
  <1>1. /\ SendOrder(z, n) /\ Timed(z) /\ z.iss < z.snd_max
        /\ to \in {"ESTABLISHED", "CLOSE_WAIT"} => z.iss < z.snd_una /\ FinWaits(z)
        /\ to \in Finishing =>
              /\ z.snd_max = z.bufferEnd + 1
              /\ z.fin_ack_rcvd <=> to \in {"FIN_WAIT_2", "TIME_WAIT"}
    BY DEF Sends, Carried, SendOrder, Timed, FinWaits
  <1>2. z.timers \subseteq {"REXMIT", "2MSL"} /\ (("2MSL" \in z.timers) <=> (to = "TIME_WAIT"))
    BY DEF Sends
  <1>3. z.state \notin {"INIT", "LISTEN", "SYN_SENT", "SYN_RCVD", "CLOSED"}
    BY DEF Synchronized
  <1>4. QED  BY <1>1, <1>2, <1>3 DEF SendSide

(* The end of an event that leaves a connection synchronized.              *)
LEMMA Proceeds ==
    ASSUME NEW c, NEW n, NEW p, NEW m, NEW sk, NEW l, Sound(c, n, p, m, sk, l),
           c.state \in Connected, NEW x, IsConn(x), x.state = c.state, x.active = c.active,
           x.iss = c.iss, x.send_fin = c.send_fin, c.snd_max <= x.snd_max,
           c.rcv_nxt <= x.rcv_nxt, OutFits(x, n, p), AckSide(x, p),
           NEW to \in Synchronized, Target(x) = to, Sends(x, to, n), Receives(x, to, p, m),
           x.timers \subseteq {"SYN", "ESTAB", "REXMIT", "2MSL"},
           to \in {c.state, "TIME_WAIT"} => x.timers \subseteq {"REXMIT", "2MSL"},
           LET i == IF to = c.state THEN x.ind
                    ELSE IF to = "CLOSE_WAIT" THEN Append(x.ind, "PEER_CLOSED")
                    ELSE IF to = "TIME_WAIT" THEN Append(x.ind, "CLOSED")
                    ELSE x.ind IN
           \A z : z.state = to => AppSide(z, SockState(sk, i), l \o i)
    PROVE  OutcomeOf(c, n, x, n, p, m, sk, l)
  <1> DEFINE i == IF to = c.state THEN x.ind
                  ELSE IF to = "CLOSE_WAIT" THEN Append(x.ind, "PEER_CLOSED")
                  ELSE IF to = "TIME_WAIT" THEN Append(x.ind, "CLOSED")
                  ELSE x.ind
             ts == IF to \in {c.state, "INIT", "SYN_SENT", "SYN_RCVD", "TIME_WAIT"}
                   THEN {} ELSE {"ESTAB", "SYN"}
             y == Transition(x)
             z == Kept(y)
  <1>1. IsConn(c) /\ n \in Nat  BY DEF Sound, SendSide
  <1>2. to \in States \ {"CLOSED"} /\ x.state # "CLOSED"
    BY DEF States, Synchronized, Connected
  <1>3. /\ IsConn(z) /\ AtRest(z) /\ Carried(x, z) /\ z.state = to /\ y.out = x.out
        /\ z.timers = x.timers \ ts /\ y.ind = i
    <2>1. /\ IsConn(z) /\ AtRest(z) /\ Carried(x, z) /\ z.state = to /\ y.out = x.out
          /\ z.timers = IF to \in {x.state, "INIT", "SYN_SENT", "SYN_RCVD", "TIME_WAIT"}
                        THEN x.timers ELSE x.timers \ {"ESTAB", "SYN"}
          /\ y.ind = IF to = x.state THEN x.ind
                     ELSE IF to = "CLOSE_WAIT" THEN Append(x.ind, "PEER_CLOSED")
                     ELSE IF to = "TIME_WAIT" THEN Append(x.ind, "CLOSED")
                     ELSE x.ind
      BY <1>2, Entered
    <2> HIDE DEF y, z
    <2>2. QED  BY <2>1
  <1>4. \A q : q.state = to => AppSide(q, SockState(sk, i), l \o i)  OBVIOUS
  <1> HIDE DEF y, z, i
  <1>5. AppSide(z, SockState(sk, i), l \o i)  BY <1>3, <1>4
  <1>6. SendSide(z, n)
    <2>1. ts \in SUBSET {"SYN", "ESTAB"}  OBVIOUS
    <2>2. x.timers \subseteq ts \cup {"REXMIT", "2MSL"}
      <3>1. CASE to \in {c.state, "TIME_WAIT"}  BY <3>1
      <3>2. CASE to \notin {c.state, "TIME_WAIT"}
        <4>1. to \notin {"INIT", "SYN_SENT", "SYN_RCVD"}  BY DEF Synchronized
        <4>2. QED  BY <3>2, <4>1
      <3>3. QED  BY <3>1, <3>2
    <2> HIDE DEF ts
    <2>3. QED  BY <1>1, <1>3, <2>1, <2>2, SideSent
  <1> HIDE DEF ts
  <1>7. GotSide(z, m) /\ ReceiveSide(z, p, m)
    <2>1. z.state \in Connected  BY <1>3 DEF Connected
    <2>2. Receives(z, to, p, m)  BY <1>3 DEF Receives, Carried, GotSide, Buffered
    <2>3. QED  BY <1>3, <2>1, <2>2, ReceivedSide
  <1>8. AckSide(z, p)  BY <1>3 DEF AckSide, Acknowledged, Carried
  <1>9. SendAdvance(c, n, z, n)
    <2>1. /\ z.iss = c.iss /\ c.snd_max <= z.snd_max /\ (c.active => z.active)
          /\ (c.send_fin => z.send_fin) /\ n <= n /\ c.state # "CLOSED" /\ z.state # "INIT"
      BY <1>1, <1>2, <1>3 DEF Carried, Synchronized
    <2>2. QED  BY <1>1, <1>3, <2>1, SendMovesOn
  <1>10. RecvAdvance(c, z, p)
    <2>1. z.state \in Connected /\ c.rcv_nxt <= z.rcv_nxt /\ c.state \notin {"LISTEN", "CLOSED"}
      BY <1>3 DEF Connected, Synchronized, Carried
    <2>2. QED  BY <1>1, <1>3, <2>1, RecvMovesOn
  <1>11. \A s \in BagToSet(y.out) : GoodSegment(s, z, n, p)
    <2>1. z.state \in Connected /\ z.state # "INIT"  BY <1>3 DEF Connected, Synchronized
    <2>2. QED  BY <1>3, <2>1, FitIsGood DEF OutFits
  <1>12. Outcome(c, n, z, n, p, m, SockState(sk, i), l \o i, y.out)
    BY <1>3, <1>5, <1>6, <1>7, <1>8, <1>9, <1>10, <1>11 DEF Outcome
  <1>13. QED  BY <1>3, <1>12 DEF OutcomeOf, y, z

(* How far an event has brought the send side of c when it has made x of   *)
(* it; FinNow is that it has sent the FIN a CLOSE has been waiting for.    *)
FinNow(x) == x.send_fin /\ x.snd_nxt = x.bufferEnd + 1 /\ x.snd_max = x.bufferEnd + 1

Progress(c, x, n, p) ==
    /\ IsConn(x) /\ x.state = c.state /\ x.active = c.active /\ x.iss = c.iss
    /\ x.bufferEnd = c.bufferEnd /\ x.send_fin = c.send_fin /\ x.snd_fin_seq = c.snd_fin_seq
    /\ SendOrder(x, n) /\ OutFits(x, n, p) /\ AckSide(x, p)
    /\ c.snd_una <= x.snd_una /\ x.snd_una <= c.snd_max
    /\ c.snd_max <= x.snd_max /\ c.rcv_nxt <= x.rcv_nxt
    /\ c.state = "SYN_RCVD" => x.iss < x.snd_una
    /\ FinWaits(c) => FinWaits(x) \/ FinNow(x)
    /\ x.timers \cup {"REXMIT", "2MSL"} = c.timers \cup {"REXMIT", "2MSL"}
    /\ x.ind = IF c.state = "SYN_RCVD" THEN <<"ESTABLISHED">> ELSE << >>

SameReceived(x, y) ==
    /\ y.rcv_nxt = x.rcv_nxt /\ y.buffered = x.buffered /\ y.got = x.got
    /\ y.rcv_fin_seq = x.rcv_fin_seq

(* sendData() and receivedDataAck() are progress.                          *)
LEMMA ProgressSending ==
    ASSUME NEW c, IsConn(c), NEW n, NEW p, NEW x, Progress(c, x, n, p), x.snd_max = c.snd_max,
           NEW y, SentMore(x, y, n, p)
    PROVE  /\ Progress(c, y, n, p) /\ Timed(y) /\ SameReceived(x, y)
           /\ y.event = x.event /\ y.fin_ack_rcvd = x.fin_ack_rcvd /\ y.snd_una = x.snd_una
           /\ ("2MSL" \in y.timers) <=> ("2MSL" \in x.timers)
  <1>1. /\ IsConn(y) /\ SendsOnly(x, y) /\ OutFits(y, n, p) /\ SendOrder(y, n)
        /\ x.snd_max <= y.snd_max /\ Timed(y)
        /\ y.timers \cup {"REXMIT"} = x.timers \cup {"REXMIT"}
        /\ FinWaits(x) => FinWaits(y) \/ FinNow(y)
    BY DEF SentMore, FinNow
  <1>2. FinWaits(c) => FinWaits(x)  BY DEF Progress, FinWaits
  <1>3. AckSide(y, p)  BY <1>1 DEF Progress, SendsOnly, AckSide, Acknowledged
  <1>4. SameReceived(x, y) /\ y.event = x.event /\ y.fin_ack_rcvd = x.fin_ack_rcvd
        /\ y.snd_una = x.snd_una
    BY <1>1 DEF SendsOnly, SameReceived
  <1>5. ("2MSL" \in y.timers) <=> ("2MSL" \in x.timers)  BY <1>1
  <1>6. y.timers \cup {"REXMIT", "2MSL"} = c.timers \cup {"REXMIT", "2MSL"}
    BY <1>1 DEF Progress
  <1>7. /\ y.state = c.state /\ y.active = c.active /\ y.iss = c.iss
        /\ y.bufferEnd = c.bufferEnd /\ y.send_fin = c.send_fin /\ y.snd_fin_seq = c.snd_fin_seq
        /\ c.snd_una <= y.snd_una /\ y.snd_una <= c.snd_max
        /\ c.snd_max <= y.snd_max /\ c.rcv_nxt <= y.rcv_nxt
        /\ (c.state = "SYN_RCVD" => y.iss < y.snd_una) /\ y.ind = x.ind
    BY <1>1 DEF Progress, SendsOnly
  <1>8. Progress(c, y, n, p)
    <2>1. x.ind = IF c.state = "SYN_RCVD" THEN <<"ESTABLISHED">> ELSE << >>  BY DEF Progress
    <2>2. QED  BY <1>1, <1>2, <1>3, <1>6, <1>7, <2>1 DEF Progress
  <1>9. QED  BY <1>1, <1>4, <1>5, <1>8

(* The ACK of a segment of a synchronized connection that is acceptable.   *)
Acks(c, s) ==
    /\ s.flags \in {{"ACK"}, {"FIN", "ACK"}} /\ s.ack <= c.snd_max
    /\ c.state = "SYN_RCVD" => c.snd_una <= s.ack
    /\ s.data # None => c.state \in {"SYN_RCVD", "ESTABLISHED", "FIN_WAIT_1", "FIN_WAIT_2"}

(* The timer is left to processing the text when the segment has data.     *)
LeftToText(c, x, s) == s.data # None /\ c.snd_una < x.snd_una

(* An ACK that is new in SYN_RCVD acknowledges the SYN and nothing else.   *)
LEMMA AckBeyondSyn ==
    ASSUME NEW c, IsConn(c), c.state = "SYN_RCVD", NEW n, SendSide(c, n), NEW p, NEW m,
           NEW s, GoodSegment(s, p, m, c), Acks(c, s)
    PROVE  s.ack = c.iss + 1 /\ c.snd_una = c.iss /\ c.snd_max = c.iss + 1
  <1>1. c.iss \in Nat /\ ISSStep \in Nat /\ ISSStep > 2 /\ s.ack \in Int
    BY ConnectionAssumption DEF IsConn, GoodSegment, IsSegment
  <1>2. c.snd_una = c.iss /\ c.snd_max = c.iss + 1  BY DEF SendSide, SynSent
  <1>3. "ACK" \in s.flags /\ "RST" \notin s.flags  BY DEF Acks
  <1>4. s.ack > c.iss \/ s.ack + ISSStep <= c.iss + 1  BY <1>3 DEF GoodSegment, AckFits
  <1>5. QED  BY <1>1, <1>2, <1>4 DEF Acks

(* What ProcessFrom5th begins with: the connection is established.         *)
Begun(c) ==
    IF c.state = "SYN_RCVD"
    THEN Event(Indicate([c EXCEPT !.snd_cwnd = InitialWindow(c)], "ESTABLISHED"), "RCV_ACK")
    ELSE c

BeginEvent(c) == IF c.state = "SYN_RCVD" THEN "RCV_ACK" ELSE "IGNORE"

(* The start of the fifth step changes only the event and what is told.    *)
LEMMA BegunAlike ==
    ASSUME NEW c, IsConn(c), AtRest(c)
    PROVE  /\ IsConn(Begun(c)) /\ Alike(c, Begun(c)) /\ Begun(c).out = c.out
           /\ Begun(c).event = BeginEvent(c)
           /\ Begun(c).ind = IF c.state = "SYN_RCVD" THEN <<"ESTABLISHED">> ELSE << >>
  <1> DEFINE w == InitialWindow(c)
             d == [c EXCEPT !.snd_cwnd = w]
             i == Indicate(d, "ESTABLISHED")
  <1>1. CASE c.state # "SYN_RCVD"
    <2>1. Begun(c) = c  BY <1>1 DEF Begun
    <2>2. QED  BY <1>1, <2>1 DEF Alike, Carried, AtRest, BeginEvent
  <1>2. CASE c.state = "SYN_RCVD"
    <2>1. Begun(c) = Event(i, "RCV_ACK")  BY <1>2 DEF Begun
    <2>2. w \in Int  BY ConnectionAssumption DEF InitialWindow
    <2> HIDE DEF w
    <2>3. IsConn(d)  BY <2>2 DEF IsConn, Fields
    <2>4. Alike(c, d) /\ d.out = c.out /\ d.ind = << >>
      BY <2>3 DEF IsConn, Fields, Alike, Carried, AtRest
    <2> HIDE DEF d
    <2>5. "ESTABLISHED" \in Indications  BY DEF Indications
    <2>6. IsConn(i) /\ Alike(d, i) /\ i.ind = Append(<< >>, "ESTABLISHED") /\ i.out = d.out
      BY <2>3, <2>4, <2>5, Indicated
    <2> HIDE DEF i
    <2>7. /\ IsConn(Event(i, "RCV_ACK")) /\ Alike(i, Event(i, "RCV_ACK"))
          /\ Event(i, "RCV_ACK").event = "RCV_ACK" /\ Event(i, "RCV_ACK").out = i.out
          /\ Event(i, "RCV_ACK").ind = i.ind
      BY <2>6, EventSet
    <2>8. QED  BY <1>2, <2>1, <2>4, <2>6, <2>7 DEF Alike, Carried, BeginEvent
  <1>3. QED  BY <1>1, <1>2

(* x is what processAckInEstabEtc() has made of c.                         *)
AckDone(c, x, s, n, p) ==
    /\ Progress(c, x, n, p) /\ SameReceived(c, x)
    /\ x.event = BeginEvent(c) /\ "2MSL" \notin x.timers
    /\ x.snd_una \in {c.snd_una, s.ack}
    /\ LeftToText(c, x, s) => x.snd_max = c.snd_max
    /\ LeftToText(c, x, s) \/ Timed(x)

(* processAckInEstabEtc().                                                 *)
LEMMA AckProcessed ==
    ASSUME NEW c, NEW n, NEW p, NEW m, NEW sk, NEW l, Sound(c, n, p, m, sk, l),
           c.state \in Connected \ {"TIME_WAIT"}, NEW s, GoodSegment(s, p, m, c), Acks(c, s),
           NEW idle
    PROVE  AckDone(c, ProcessAckInEstabEtc(Begun(c), s, idle), s, n, p)
  <1> DEFINE a == Begun(c)
             f == a.fin_ack_rcvd \/ (a.send_fin /\ s.ack = a.snd_fin_seq + 1)
             i == Later(a.snd_nxt, s.ack)
             d == [a EXCEPT !.snd_una = s.ack, !.snd_nxt = i, !.fin_ack_rcvd = f]
             x == ProcessAckInEstabEtc(a, s, idle)
  <1>1. /\ IsConn(c) /\ AtRest(c) /\ SendSide(c, n) /\ n \in Nat /\ AckSide(c, p)
        /\ IsConn(p) /\ SendSide(p, m) /\ ReceiveSide(c, p, m)
    BY DEF Sound, SendSide
  <1>2. /\ c.iss \in Nat /\ c.snd_una \in Int /\ c.snd_nxt \in Int /\ c.snd_max \in Int
        /\ c.bufferEnd \in Int /\ c.snd_fin_seq \in Int /\ c.rcv_nxt \in Int
        /\ c.fin_ack_rcvd \in BOOLEAN /\ c.send_fin \in BOOLEAN
    BY <1>1 DEF IsConn
  <1>3. s.ack \in Int  BY DEF GoodSegment, IsSegment
  <1>4. /\ IsConn(a) /\ Alike(c, a) /\ a.out = c.out /\ a.event = BeginEvent(c)
        /\ a.ind = IF c.state = "SYN_RCVD" THEN <<"ESTABLISHED">> ELSE << >>
    BY <1>1, BegunAlike
  <1> HIDE DEF a
  <1>5. SendOrder(c, n) /\ "2MSL" \notin c.timers
    <2>1. c.state \in Synchronized \/ c.state = "SYN_RCVD"  BY DEF Connected
    <2>2. c.state # "CLOSED"  BY DEF Connected, Synchronized
    <2>3. SendOrder(c, n)  BY <1>1, <2>2 DEF SendSide
    <2>4. "2MSL" \notin c.timers  BY <1>1, <2>1 DEF SendSide, SynSent
    <2>5. QED  BY <2>3, <2>4
  <1>6. x = IF s.ack = a.snd_una /\ s.data = None /\ a.snd_una # a.snd_max
            THEN ReceivedDuplicateAck(DupAcks(a, Min({a.dupacks + 1, DupThresh + 1})), idle)
            ELSE IF s.ack <= a.snd_una THEN DupAcks(a, 0)
            ELSE IF s.data = None /\ a.state # "SYN_RCVD" THEN ReceivedDataAck(d, idle)
            ELSE d
    BY DEF ProcessAckInEstabEtc
  <1> HIDE DEF x
  <1>7. OutFits(a, n, p)  BY <1>1, <1>4 DEF AtRest, OutFits
  <1>8. c.state = "SYN_RCVD" => s.ack = c.iss + 1 /\ c.snd_una = c.iss /\ c.snd_max = c.iss + 1
    BY <1>1, AckBeyondSyn
  <1>9. ASSUME s.ack <= a.snd_una PROVE AckDone(c, x, s, n, p)
    <2>1. c.state # "SYN_RCVD"  BY <1>2, <1>4, <1>8, <1>9 DEF Alike, Carried
    <2>2. ASSUME NEW k \in Int
          PROVE  LET b == DupAcks(a, k) IN
                 /\ Alike(c, b) /\ AckDone(c, b, s, n, p) /\ Progress(c, b, n, p) /\ Timed(b)
      <3> DEFINE b == DupAcks(a, k)
      <3>1. /\ IsConn(b) /\ Alike(a, b) /\ b.out = a.out /\ b.event = a.event /\ b.ind = a.ind
        BY <1>4, DupAcksSet
      <3> HIDE DEF b
      <3>2. Alike(c, b)  BY <1>4, <3>1 DEF Alike, Carried
      <3>3. OutFits(b, n, p)  BY <1>4, <1>7, <3>1, SameFits
      <3>4. Timed(c)  BY <1>1, <2>1 DEF SendSide, Connected
      <3>5. Timed(b) /\ SendOrder(b, n) /\ AckSide(b, p) /\ SameReceived(c, b)
            /\ (FinWaits(c) => FinWaits(b))
        BY <1>1, <1>5, <3>2, <3>4
           DEF Alike, Carried, Timed, SendOrder, AckSide, Acknowledged, SameReceived, FinWaits
      <3>6. /\ b.state = c.state /\ b.active = c.active /\ b.iss = c.iss
            /\ b.bufferEnd = c.bufferEnd /\ b.send_fin = c.send_fin
            /\ b.snd_fin_seq = c.snd_fin_seq /\ b.snd_una = c.snd_una /\ b.snd_max = c.snd_max
            /\ b.rcv_nxt = c.rcv_nxt /\ b.timers = c.timers
        BY <3>2 DEF Alike, Carried
      <3>7. c.snd_una <= c.snd_max  BY <1>2, <1>5 DEF SendOrder
      <3>8. Progress(c, b, n, p)
        BY <1>2, <1>4, <2>1, <3>1, <3>3, <3>5, <3>6, <3>7 DEF Progress
      <3>9. AckDone(c, b, s, n, p)
        BY <1>2, <1>4, <1>5, <3>1, <3>5, <3>6, <3>8 DEF AckDone, LeftToText
      <3>10. QED  BY <3>2, <3>5, <3>8, <3>9 DEF b
    <2>3. CASE s.ack = a.snd_una /\ s.data = None /\ a.snd_una # a.snd_max
      <3> DEFINE k == Min({a.dupacks + 1, DupThresh + 1})
                 b == DupAcks(a, k)
      <3>1. k \in Int
        <4>1. a.dupacks + 1 \in Int /\ DupThresh + 1 \in Int  BY <1>4 DEF IsConn, DupThresh
        <4>2. QED  BY <4>1, MinOfTwo
      <3>2. x = ReceivedDuplicateAck(b, idle)  BY <1>6, <2>3
      <3> HIDE DEF k
      <3>3. Alike(c, b) /\ AckDone(c, b, s, n, p) /\ Progress(c, b, n, p) /\ Timed(b)
        BY <2>2, <3>1
      <3> HIDE DEF b
      <3>4. IsConn(b) /\ OutFits(b, n, p) /\ SendOrder(b, n)  BY <3>3 DEF Progress
      <3>5. AckFits(b.rcv_nxt, p)
        <4>1. AckFits(c.rcv_nxt, p)  BY <1>1, AckDue
        <4>2. QED  BY <3>3, <4>1 DEF Alike, Carried
      <3>6. b.snd_una = s.ack /\ b.snd_una # b.snd_max /\ b.iss = c.iss /\ b.snd_max = c.snd_max
        BY <1>4, <2>3, <3>3 DEF Alike, Carried
      <3>7. b.iss < b.snd_una
        <4>1. "ACK" \in s.flags /\ "RST" \notin s.flags  BY DEF Acks
        <4>2. s.ack > c.iss \/ s.ack + ISSStep <= c.iss + 1  BY <4>1 DEF GoodSegment, AckFits
        <4>3. b.iss <= b.snd_una  BY <3>4 DEF SendOrder
        <4>4. ISSStep \in Nat /\ ISSStep > 2  BY ConnectionAssumption
        <4>5. QED  BY <1>2, <1>3, <3>6, <4>2, <4>3, <4>4
      <3>8. FinWaits(b) \/ b.snd_max = b.bufferEnd + 1
        <4>1. c.state \in {"ESTABLISHED", "CLOSE_WAIT"} \cup Finishing
          BY <2>1 DEF Connected, Synchronized, Finishing
        <4>2. FinWaits(c) \/ c.snd_max = c.bufferEnd + 1  BY <1>1, <4>1 DEF SendSide
        <4>3. QED  BY <3>3, <4>2 DEF Alike, Carried, FinWaits
      <3>9. x = b \/ SentMore(b, x, n, p)
        BY <1>1, <3>2, <3>3, <3>4, <3>5, <3>6, <3>7, <3>8, DuplicateTaken
      <3>10. CASE x = b  BY <3>3, <3>10
      <3>11. CASE SentMore(b, x, n, p)
        <4>1. /\ Progress(c, x, n, p) /\ Timed(x) /\ SameReceived(b, x)
              /\ x.event = b.event /\ x.snd_una = b.snd_una
              /\ ("2MSL" \in x.timers) <=> ("2MSL" \in b.timers)
          BY <1>1, <3>3, <3>6, <3>11, ProgressSending
        <4>2. /\ SameReceived(c, b) /\ b.event = BeginEvent(c) /\ "2MSL" \notin b.timers
              /\ b.snd_una \in {c.snd_una, s.ack}
          BY <3>3 DEF AckDone
        <4>3. SameReceived(c, x)  BY <4>1, <4>2 DEF SameReceived
        <4>4. QED  BY <2>3, <4>1, <4>2, <4>3 DEF AckDone, LeftToText
      <3>12. QED  BY <3>9, <3>10, <3>11
    <2>4. CASE ~(s.ack = a.snd_una /\ s.data = None /\ a.snd_una # a.snd_max)
      <3> DEFINE b == DupAcks(a, 0)
      <3>1. x = b  BY <1>6, <1>9, <2>4
      <3>2. AckDone(c, b, s, n, p)  BY <2>2
      <3> HIDE DEF b
      <3>3. QED  BY <3>1, <3>2
    <2>5. QED  BY <2>3, <2>4
  <1>10. ASSUME ~(s.ack <= a.snd_una) PROVE AckDone(c, x, s, n, p)
    <2>1. /\ a.state = c.state /\ a.active = c.active /\ a.iss = c.iss
          /\ a.bufferEnd = c.bufferEnd /\ a.send_fin = c.send_fin /\ a.snd_fin_seq = c.snd_fin_seq
          /\ a.snd_una = c.snd_una /\ a.snd_nxt = c.snd_nxt /\ a.snd_max = c.snd_max
          /\ a.rcv_nxt = c.rcv_nxt /\ a.buffered = c.buffered /\ a.got = c.got
          /\ a.rcv_fin_seq = c.rcv_fin_seq /\ a.fin_ack_rcvd = c.fin_ack_rcvd
          /\ a.timers = c.timers
      BY <1>4 DEF Alike, Carried
    <2>2. c.snd_una < s.ack /\ s.ack <= c.snd_max  BY <1>2, <1>3, <1>10, <2>1 DEF Acks
    <2>18. x = IF s.data = None /\ a.state # "SYN_RCVD" THEN ReceivedDataAck(d, idle) ELSE d
      <3>1. s.ack # a.snd_una  BY <1>2, <1>3, <2>1, <2>2
      <3> HIDE DEF d
      <3>2. QED  BY <1>6, <1>10, <3>1
    <2>3. i \in Int /\ s.ack <= i /\ i <= c.snd_max
      BY <1>2, <1>3, <1>5, <2>1, <2>2 DEF Later, SendOrder
    <2>4. f \in BOOLEAN /\ (f <=> s.ack = c.bufferEnd + 1)
      <3>1. ~c.fin_ack_rcvd  BY <1>2, <1>3, <1>5, <2>2 DEF SendOrder
      <3>2. s.ack = c.bufferEnd + 1 => c.send_fin
        BY <1>2, <1>3, <1>5, <2>2 DEF SendOrder
      <3>3. c.send_fin => c.snd_fin_seq = c.bufferEnd  BY <1>5 DEF SendOrder
      <3>4. QED  BY <2>1, <3>1, <3>2, <3>3
    <2> HIDE DEF i, f
    <2>5. IsConn(d)  BY <1>3, <1>4, <2>3, <2>4 DEF IsConn, Fields
    <2>6. /\ d.snd_una = s.ack /\ d.snd_nxt = i /\ d.fin_ack_rcvd = f
          /\ d.state = c.state /\ d.active = c.active /\ d.iss = c.iss
          /\ d.bufferEnd = c.bufferEnd /\ d.send_fin = c.send_fin /\ d.snd_fin_seq = c.snd_fin_seq
          /\ d.snd_max = c.snd_max
          /\ d.rcv_nxt = c.rcv_nxt /\ d.buffered = c.buffered /\ d.got = c.got
          /\ d.rcv_fin_seq = c.rcv_fin_seq /\ d.timers = c.timers /\ d.out = c.out
          /\ d.event = a.event /\ d.ind = a.ind
      BY <1>4, <2>1 DEF IsConn, Fields
    <2> HIDE DEF d
    <2>7. SendOrder(d, n)
      <3>1. c.iss <= c.snd_una  BY <1>5 DEF SendOrder
      <3>2. c.iss <= s.ack  BY <1>2, <1>3, <2>2, <3>1
      <3>3. /\ c.bufferEnd = c.iss + 1 + n /\ c.snd_max <= c.bufferEnd + 1
            /\ c.send_fin => c.snd_fin_seq = c.bufferEnd
            /\ c.snd_max = c.bufferEnd + 1 => c.send_fin
        BY <1>5 DEF SendOrder
      <3>4. QED  BY <2>3, <2>4, <2>6, <3>2, <3>3 DEF SendOrder
    <2>8. d.iss < d.snd_una  BY <1>2, <1>3, <1>5, <2>2, <2>6 DEF SendOrder
    <2>9. OutFits(d, n, p)  BY <1>1, <2>6 DEF AtRest, OutFits
    <2>10. AckFits(d.rcv_nxt, p)
      <3>1. AckFits(c.rcv_nxt, p)  BY <1>1, AckDue
      <3>2. QED  BY <2>6, <3>1
    <2>11. AckSide(d, p)
      <3>1. "ACK" \in s.flags /\ "RST" \notin s.flags  BY DEF Acks
      <3>2. Acknowledged(p, c, s.ack)  BY <3>1 DEF GoodSegment
      <3>3. QED  BY <2>6, <3>2 DEF AckSide, Acknowledged
    <2>12. FinWaits(c) => FinWaits(d)  BY <2>6 DEF FinWaits
    <2>13. Progress(c, d, n, p)
      BY <1>2, <1>3, <1>4, <2>2, <2>5, <2>6, <2>7, <2>8, <2>9, <2>11, <2>12 DEF Progress
    <2>14. SameReceived(c, d)  BY <2>6 DEF SameReceived
    <2>15. CASE s.data = None /\ c.state # "SYN_RCVD"
      <3>1. x = ReceivedDataAck(d, idle)  BY <2>1, <2>15, <2>18
      <3>2. SentMore(d, x, n, p)  BY <1>1, <2>5, <2>7, <2>8, <2>9, <2>10, <3>1, AckTaken
      <3>3. /\ Progress(c, x, n, p) /\ Timed(x) /\ SameReceived(d, x)
            /\ x.event = d.event /\ x.snd_una = d.snd_una
            /\ ("2MSL" \in x.timers) <=> ("2MSL" \in d.timers)
        BY <1>1, <2>6, <2>13, <3>2, ProgressSending
      <3>4. SameReceived(c, x)  BY <2>14, <3>3 DEF SameReceived
      <3>5. QED  BY <1>4, <1>5, <2>6, <2>15, <3>3, <3>4 DEF AckDone, LeftToText
    <2>16. CASE ~(s.data = None /\ c.state # "SYN_RCVD")
      <3>1. x = d  BY <2>1, <2>16, <2>18
      <3>2. s.data # None => LeftToText(c, d, s)  BY <2>2, <2>6 DEF LeftToText
      <3>3. s.data = None => Timed(d)
        <4>1. s.data = None => c.state = "SYN_RCVD" /\ d.snd_una = d.snd_max
          BY <1>8, <2>6, <2>16
        <4>2. c.state = "SYN_RCVD" => "REXMIT" \notin c.timers  BY <1>1 DEF SendSide, SynSent
        <4>3. QED  BY <2>6, <4>1, <4>2 DEF Timed
      <3>4. QED  BY <1>4, <1>5, <2>6, <2>13, <2>14, <3>1, <3>2, <3>3 DEF AckDone
    <2>17. QED  BY <2>15, <2>16
  <1>11. QED  BY <1>9, <1>10 DEF x, a

(* The event and the 2MSL timer when the ACK has been processed.           *)
StateEvent(c, x) ==
    IF c.state = "SYN_RCVD" \/ (c.state \in {"FIN_WAIT_1", "CLOSING"} /\ x.fin_ack_rcvd)
    THEN "RCV_ACK" ELSE "IGNORE"

Ready(c, x, s, n, p) ==
    /\ Progress(c, x, n, p) /\ SameReceived(c, x) /\ x.event = StateEvent(c, x)
    /\ ("2MSL" \in x.timers) <=> (c.state = "CLOSING" /\ x.fin_ack_rcvd)
    /\ x.snd_una \in {c.snd_una, s.ack}
    /\ LeftToText(c, x, s) => x.snd_max = c.snd_max
    /\ LeftToText(c, x, s) \/ Timed(x)

(* Changes of the receive side and of the 2MSL timer are progress.         *)
LEMMA ProgressKept ==
    ASSUME NEW c, NEW n, NEW p, NEW x, Progress(c, x, n, p), NEW y, IsConn(y), Carried(x, y),
           y.state = x.state, y.out = x.out, y.ind = x.ind,
           y.timers \cup {"2MSL"} = x.timers \cup {"2MSL"}
    PROVE  Progress(c, y, n, p) /\ (Timed(x) => Timed(y))
  <1>1. OutFits(y, n, p)  BY DEF Progress, Carried, OutFits, Fits, EndOf
  <1>2. SendOrder(y, n) /\ AckSide(y, p)
    BY DEF Progress, Carried, SendOrder, AckSide, Acknowledged
  <1>3. FinWaits(c) => FinWaits(y) \/ FinNow(y)
    BY DEF Progress, Carried, FinWaits, FinNow
  <1>4. y.timers \cup {"REXMIT", "2MSL"} = c.timers \cup {"REXMIT", "2MSL"}
    BY DEF Progress
  <1>5. y.ind = IF c.state = "SYN_RCVD" THEN <<"ESTABLISHED">> ELSE << >>  BY DEF Progress
  <1>6. /\ y.state = c.state /\ y.active = c.active /\ y.iss = c.iss
        /\ y.bufferEnd = c.bufferEnd /\ y.send_fin = c.send_fin /\ y.snd_fin_seq = c.snd_fin_seq
        /\ c.snd_una <= y.snd_una /\ y.snd_una <= c.snd_max
        /\ c.snd_max <= y.snd_max /\ c.rcv_nxt <= y.rcv_nxt
        /\ (c.state = "SYN_RCVD" => y.iss < y.snd_una)
    BY DEF Progress, Carried
  <1>7. Progress(c, y, n, p)  BY <1>1, <1>2, <1>3, <1>4, <1>5, <1>6 DEF Progress
  <1>8. Timed(x) => Timed(y)  BY DEF Timed, Carried
  <1>9. QED  BY <1>7, <1>8

(* Starting the 2MSL timer changes the timers only.                        *)
LEMMA MSLStarted ==
    ASSUME NEW c, IsConn(c)
    PROVE  /\ IsConn(Start(c, "2MSL")) /\ Carried(c, Start(c, "2MSL"))
           /\ Start(c, "2MSL").state = c.state /\ Start(c, "2MSL").ind = c.ind
           /\ Start(c, "2MSL").timers = c.timers \cup {"2MSL"}
           /\ Start(c, "2MSL").out = c.out /\ Start(c, "2MSL").event = c.event
  <1>1. IsConn(Start(c, "2MSL"))  BY DEF Start, IsConn, Fields
  <1>2. QED  BY <1>1 DEF Start, IsConn, Fields, Carried

(* An event with or without a 2MSL timer.                                  *)
LEMMA EventWith ==
    ASSUME NEW c, IsConn(c), NEW e, NEW y,
           y \in {Event(c, e), Event(Start(c, "2MSL"), e)}
    PROVE  /\ IsConn(y) /\ Carried(c, y) /\ y.state = c.state /\ y.out = c.out /\ y.ind = c.ind
           /\ y.event = e /\ y.timers \cup {"2MSL"} = c.timers \cup {"2MSL"}
           /\ y = Event(c, e) => y.timers = c.timers
           /\ y = Event(Start(c, "2MSL"), e) => "2MSL" \in y.timers
  <1> DEFINE d == Start(c, "2MSL")
  <1>1. /\ IsConn(d) /\ Carried(c, d) /\ d.state = c.state /\ d.ind = c.ind
        /\ d.timers = c.timers \cup {"2MSL"} /\ d.out = c.out
    BY MSLStarted
  <1> HIDE DEF d
  <1>2. /\ IsConn(Event(c, e)) /\ Alike(c, Event(c, e)) /\ Event(c, e).event = e
        /\ Event(c, e).out = c.out /\ Event(c, e).ind = c.ind
    BY EventSet
  <1>3. /\ IsConn(Event(d, e)) /\ Alike(d, Event(d, e)) /\ Event(d, e).event = e
        /\ Event(d, e).out = d.out /\ Event(d, e).ind = d.ind
    BY <1>1, EventSet
  <1>4. CASE y = Event(c, e)
    <2>1. /\ IsConn(y) /\ Carried(c, y) /\ y.state = c.state /\ y.out = c.out /\ y.ind = c.ind
          /\ y.event = e /\ y.timers = c.timers
      BY <1>2, <1>4 DEF Alike
    <2>2. y = Event(d, e) => "2MSL" \in y.timers  BY <1>1, <1>3 DEF Alike
    <2>3. QED  BY <2>1, <2>2 DEF d
  <1>5. CASE y = Event(d, e)
    <2>1. /\ IsConn(y) /\ Carried(c, y) /\ y.state = c.state /\ y.out = c.out /\ y.ind = c.ind
          /\ y.event = e /\ y.timers = c.timers \cup {"2MSL"}
      BY <1>1, <1>3, <1>5 DEF Alike, Carried
    <2>2. y = Event(c, e) => y.timers = c.timers  BY <1>2 DEF Alike
    <2>3. QED  BY <2>1, <2>2
  <1>6. QED  BY <1>4, <1>5 DEF d

(* The fifth step is over: what the seventh and the eighth start from.     *)
LEMMA ByStateDone ==
    ASSUME NEW c, c.state \in Connected \ {"TIME_WAIT"}, NEW b, NEW s, NEW n, NEW p,
           AckDone(c, b, s, n, p)
    PROVE  Ready(c, ProcessAckByState(b), s, n, p)
  <1> DEFINE x == ProcessAckByState(b)
             y == Event(b, "RCV_ACK")
             z == Event(Start(b, "2MSL"), "RCV_ACK")
  <1>1. /\ Progress(c, b, n, p) /\ SameReceived(c, b)
        /\ b.event = BeginEvent(c) /\ "2MSL" \notin b.timers
        /\ b.snd_una \in {c.snd_una, s.ack}
        /\ LeftToText(c, b, s) => b.snd_max = c.snd_max
        /\ LeftToText(c, b, s) \/ Timed(b)
    BY DEF AckDone
  <1>2. IsConn(b) /\ b.state = c.state  BY <1>1 DEF Progress
  <1>3. ASSUME NEW q, Progress(c, q, n, p), Carried(b, q), Timed(b) => Timed(q)
        PROVE  /\ SameReceived(c, q) /\ q.snd_una \in {c.snd_una, s.ack}
               /\ LeftToText(c, q, s) => q.snd_max = c.snd_max
               /\ LeftToText(c, q, s) \/ Timed(q)
               /\ q.fin_ack_rcvd = b.fin_ack_rcvd
    BY <1>1, <1>3 DEF Carried, SameReceived, LeftToText
  <1>4. ASSUME c.state = "FIN_WAIT_1", b.fin_ack_rcvd PROVE Ready(c, x, s, n, p)
    <2>1. x = y  BY <1>2, <1>4 DEF ProcessAckByState
    <2>2. /\ IsConn(y) /\ Carried(b, y) /\ y.state = b.state /\ y.out = b.out /\ y.ind = b.ind
          /\ y.event = "RCV_ACK" /\ y.timers = b.timers
      BY <1>2, EventWith
    <2> HIDE DEF x, y
    <2>3. Progress(c, y, n, p) /\ (Timed(b) => Timed(y))  BY <1>1, <2>2, ProgressKept
    <2>4. /\ SameReceived(c, y) /\ y.snd_una \in {c.snd_una, s.ack}
          /\ LeftToText(c, y, s) => y.snd_max = c.snd_max
          /\ LeftToText(c, y, s) \/ Timed(y)
          /\ y.fin_ack_rcvd = b.fin_ack_rcvd
      BY <1>3, <2>2, <2>3
    <2>5. QED  BY <1>1, <1>4, <2>1, <2>2, <2>3, <2>4 DEF Ready, StateEvent
  <1>5. ASSUME c.state = "CLOSING", b.fin_ack_rcvd PROVE Ready(c, x, s, n, p)
    <2>1. x = z  BY <1>2, <1>5 DEF ProcessAckByState
    <2>2. /\ IsConn(z) /\ Carried(b, z) /\ z.state = b.state /\ z.out = b.out /\ z.ind = b.ind
          /\ z.event = "RCV_ACK" /\ z.timers \cup {"2MSL"} = b.timers \cup {"2MSL"}
          /\ "2MSL" \in z.timers
      BY <1>2, EventWith
    <2> HIDE DEF x, z
    <2>3. Progress(c, z, n, p) /\ (Timed(b) => Timed(z))  BY <1>1, <2>2, ProgressKept
    <2>4. /\ SameReceived(c, z) /\ z.snd_una \in {c.snd_una, s.ack}
          /\ LeftToText(c, z, s) => z.snd_max = c.snd_max
          /\ LeftToText(c, z, s) \/ Timed(z)
          /\ z.fin_ack_rcvd = b.fin_ack_rcvd
      BY <1>3, <2>2, <2>3
    <2>5. QED  BY <1>1, <1>5, <2>1, <2>2, <2>3, <2>4 DEF Ready, StateEvent
  <1>6. ASSUME ~(c.state \in {"FIN_WAIT_1", "CLOSING"} /\ b.fin_ack_rcvd)
        PROVE  Ready(c, x, s, n, p)
    <2>1. x = b  BY <1>2, <1>6 DEF ProcessAckByState
    <2>2. b.event = StateEvent(c, b)  BY <1>1, <1>6 DEF BeginEvent, StateEvent
    <2>3. QED  BY <1>1, <1>6, <2>1, <2>2 DEF Ready
  <1>7. QED  BY <1>4, <1>5, <1>6

-----------------------------------------------------------------------------
(* What arrives.                                                           *)

(* The states in which data and the FIN of the peer are taken.             *)
Open == {"SYN_RCVD", "ESTABLISHED", "FIN_WAIT_1", "FIN_WAIT_2"}

(* What has become of c when the text has been processed, without and with *)
(* the FIN of the peer.                                                    *)
Unfinished(c, x, n, p, m) ==
    /\ Progress(c, x, n, p) /\ Timed(x) /\ Receives(x, c.state, p, m)
    /\ x.event = StateEvent(c, x)
    /\ ("2MSL" \in x.timers) <=> (c.state = "CLOSING" /\ x.fin_ack_rcvd)

Finished(c, x, n, p, m) ==
    /\ Progress(c, x, n, p) /\ Timed(x) /\ Receives(x, "CLOSE_WAIT", p, m) /\ c.state \in Open
    /\ x.event = IF c.state = "FIN_WAIT_1" /\ x.fin_ack_rcvd THEN "RCV_FIN_ACK" ELSE "RCV_FIN"
    /\ ("2MSL" \in x.timers)
          <=> (c.state = "FIN_WAIT_2" \/ (c.state = "FIN_WAIT_1" /\ x.fin_ack_rcvd))

(* An acknowledgement can follow at any time.                              *)
LEMMA ProgressAcked ==
    ASSUME NEW c, NEW n \in Nat, NEW p, NEW x, Progress(c, x, n, p), AckFits(x.rcv_nxt, p)
    PROVE  /\ Progress(c, SendAck(x), n, p) /\ SameReceived(x, SendAck(x))
           /\ Timed(x) => Timed(SendAck(x))
           /\ SendAck(x).event = x.event /\ SendAck(x).fin_ack_rcvd = x.fin_ack_rcvd
           /\ SendAck(x).timers = x.timers
  <1> DEFINE y == SendAck(x)
  <1>1. IsConn(x) /\ OutFits(x, n, p)  BY DEF Progress
  <1>2. /\ IsConn(y) /\ SendsOnly(x, y) /\ OutFits(y, n, p) /\ y.timers = x.timers
        /\ y.snd_nxt = x.snd_nxt /\ y.snd_max = x.snd_max
    BY <1>1, AckSent
  <1> HIDE DEF y
  <1>3. SendOrder(y, n) /\ AckSide(y, p)
    BY <1>2 DEF Progress, SendsOnly, SendOrder, AckSide, Acknowledged
  <1>4. FinWaits(c) => FinWaits(y) \/ FinNow(y)
    BY <1>2 DEF Progress, SendsOnly, FinWaits, FinNow
  <1>5. /\ y.state = c.state /\ y.active = c.active /\ y.iss = c.iss
        /\ y.bufferEnd = c.bufferEnd /\ y.send_fin = c.send_fin /\ y.snd_fin_seq = c.snd_fin_seq
        /\ c.snd_una <= y.snd_una /\ y.snd_una <= c.snd_max
        /\ c.snd_max <= y.snd_max /\ c.rcv_nxt <= y.rcv_nxt
        /\ (c.state = "SYN_RCVD" => y.iss < y.snd_una)
        /\ y.timers \cup {"REXMIT", "2MSL"} = c.timers \cup {"REXMIT", "2MSL"}
        /\ y.ind = IF c.state = "SYN_RCVD" THEN <<"ESTABLISHED">> ELSE << >>
    BY <1>2 DEF Progress, SendsOnly
  <1>6. Progress(c, y, n, p)  BY <1>2, <1>3, <1>4, <1>5 DEF Progress
  <1>7. Timed(x) => Timed(y)  BY <1>2 DEF Timed, SendsOnly
  <1>8. QED  BY <1>2, <1>6, <1>7 DEF SendsOnly, SameReceived, y

(* What is received while a connection is open and the FIN comes next.     *)
LEMMA NothingBuffered ==
    ASSUME NEW e, IsConn(e), NEW p, IsConn(p), NEW m \in Nat, Buffered(e, p, m),
           EndOf(p, m) <= e.rcv_nxt
    PROVE  e.buffered = {}
  <1> SUFFICES ASSUME NEW b \in e.buffered PROVE FALSE  OBVIOUS
  <1>1. b.seq \in Int /\ b.data \in Int /\ p.iss \in Nat /\ e.rcv_nxt \in Int  BY DEF IsConn
  <1>2. b.data = b.seq - p.iss /\ b.data <= m /\ e.rcv_nxt < b.seq  BY <1>1 DEF Buffered
  <1>3. QED  BY <1>1, <1>2 DEF EndOf

(* An event that starts the 2MSL timer.                                    *)
LEMMA TimedEvent ==
    ASSUME NEW c, IsConn(c), NEW e
    PROVE  LET y == Event(Start(c, "2MSL"), e) IN
           /\ IsConn(y) /\ Carried(c, y) /\ y.state = c.state /\ y.out = c.out /\ y.ind = c.ind
           /\ y.event = e /\ y.timers \cup {"2MSL"} = c.timers \cup {"2MSL"}
           /\ "2MSL" \in y.timers
  <1> DEFINE d == Start(c, "2MSL")
             y == Event(d, e)
  <1>1. /\ IsConn(d) /\ Carried(c, d) /\ d.state = c.state /\ d.ind = c.ind
        /\ d.timers = c.timers \cup {"2MSL"} /\ d.out = c.out
    BY MSLStarted
  <1> HIDE DEF d
  <1>2. /\ IsConn(y) /\ Alike(d, y) /\ y.event = e /\ y.out = d.out /\ y.ind = d.ind
    BY <1>1, EventSet
  <1> HIDE DEF y
  <1>3. y.timers = c.timers \cup {"2MSL"}  BY <1>1, <1>2 DEF Alike
  <1>4. QED  BY <1>1, <1>2, <1>3 DEF Alike, Carried, d, y

(* The FIN of the peer is accepted when all of its data is there.          *)
LEMMA FinAccepted ==
    ASSUME NEW c, c.state \in Open, NEW n \in Nat, NEW p, IsConn(p), NEW m \in Nat, NEW e,
           IsConn(c), Progress(c, e, n, p), Timed(e), "2MSL" \notin e.timers, e.rcv_nxt = EndOf(p, m),
           Len(e.got) = m, GotSide(e, m), Buffered(e, p, m), p.state # "INIT", FinSent(p, m),
           e.rcv_fin_seq = None \/ e.rcv_fin_seq = EndOf(p, m)
    PROVE  Finished(c, SendAck(AcceptFin(e)), n, p, m)
  <1> DEFINE i == e.rcv_nxt + 1
             d == [e EXCEPT !.rcv_nxt = i]
             ev == IF c.state = "FIN_WAIT_1" /\ e.fin_ack_rcvd THEN "RCV_FIN_ACK" ELSE "RCV_FIN"
             z == Event(Start(d, "2MSL"), ev)
             timed == c.state = "FIN_WAIT_2" \/ (c.state = "FIN_WAIT_1" /\ e.fin_ack_rcvd)
                          y == AcceptFin(e)
             x == SendAck(y)
  <1>1. IsConn(e) /\ e.state = c.state /\ OutFits(e, n, p)  BY DEF Progress
  <1>2. i \in Int /\ e.rcv_nxt \in Int /\ e.rcv_nxt <= i
    <2>1. e.rcv_nxt \in Int  BY <1>1 DEF IsConn
    <2> HIDE DEF d, y, x
    <2>2. QED  BY <2>1
  <1>3. y = IF timed THEN Event(Start(d, "2MSL"), ev) ELSE Event(d, ev)
    <2>1. [e EXCEPT !.rcv_nxt = @ + 1] = d  OBVIOUS
    <2> HIDE DEF d
    <2>2. y = CASE e.state = "FIN_WAIT_1" /\ e.fin_ack_rcvd ->
                     Event(Start(d, "2MSL"), "RCV_FIN_ACK")
                [] e.state \in {"FIN_WAIT_2", "TIME_WAIT"} -> Event(Start(d, "2MSL"), "RCV_FIN")
                [] OTHER -> Event(d, "RCV_FIN")
      BY <2>1 DEF AcceptFin
    <2>3. e.state # "TIME_WAIT"  BY <1>1 DEF Open
    <2> HIDE DEF y
    <2>4. QED  BY <1>1, <2>2, <2>3
  <1> HIDE DEF i
  <1>4. IsConn(d)  BY <1>1, <1>2 DEF IsConn, Fields
  <1>5. /\ d.state = e.state /\ d.active = e.active /\ d.iss = e.iss
        /\ d.snd_una = e.snd_una /\ d.snd_nxt = e.snd_nxt /\ d.snd_max = e.snd_max
        /\ d.bufferEnd = e.bufferEnd /\ d.send_fin = e.send_fin /\ d.snd_fin_seq = e.snd_fin_seq
        /\ d.fin_ack_rcvd = e.fin_ack_rcvd /\ d.rcv_nxt = i /\ d.buffered = e.buffered
        /\ d.got = e.got /\ d.rcv_fin_seq = e.rcv_fin_seq /\ d.timers = e.timers
        /\ d.out = e.out /\ d.ind = e.ind
    BY <1>1 DEF IsConn, Fields
  <1> HIDE DEF d
  <1>6. Progress(c, d, n, p) /\ Timed(d)
    <2>1. OutFits(d, n, p)
      <3> SUFFICES ASSUME NEW s \in BagToSet(e.out) PROVE Fits(s, d, n, p)
        BY <1>5 DEF OutFits
      <3>1. Fits(s, e, n, p)  BY <1>1 DEF OutFits
      <3>2. e.snd_max \in Int  BY <1>1 DEF IsConn
      <3>3. QED  BY <1>1, <1>2, <1>4, <1>5, <3>1, <3>2, FitsOn
    <2>2. SendOrder(d, n) /\ AckSide(d, p)
      BY <1>5 DEF Progress, SendOrder, AckSide, Acknowledged
    <2>3. FinWaits(c) => FinWaits(d) \/ FinNow(d)  BY <1>5 DEF Progress, FinWaits, FinNow
    <2>4. c.rcv_nxt <= d.rcv_nxt
      <3>1. c.rcv_nxt <= e.rcv_nxt  BY DEF Progress
      <3>2. c.rcv_nxt \in Int  BY DEF IsConn
      <3>3. QED  BY <1>2, <1>5, <3>1, <3>2
    <2>5. QED  BY <1>4, <1>5, <2>1, <2>2, <2>3, <2>4 DEF Progress, Timed
  <1>7. /\ IsConn(y) /\ Carried(d, y) /\ y.state = d.state /\ y.out = d.out /\ y.ind = d.ind
        /\ y.event = ev /\ y.timers \cup {"2MSL"} = d.timers \cup {"2MSL"}
        /\ ("2MSL" \in y.timers) <=> timed
    <2>1. CASE timed
      <3>1. y = Event(Start(d, "2MSL"), ev)  BY <1>3, <2>1
      <3> HIDE DEF y, ev, timed
      <3>2. /\ IsConn(z) /\ Carried(d, z) /\ z.state = d.state /\ z.out = d.out /\ z.ind = d.ind
            /\ z.event = ev /\ z.timers \cup {"2MSL"} = d.timers \cup {"2MSL"}
            /\ "2MSL" \in z.timers
        BY <1>4, TimedEvent
      <3>3. QED  BY <2>1, <3>1, <3>2
    <2>2. CASE ~timed
      <3>1. y = Event(d, ev)  BY <1>3, <2>2
      <3> HIDE DEF y, ev, timed
      <3>2. "2MSL" \notin d.timers  BY <1>5
      <3>3. QED  BY <1>4, <2>2, <3>1, <3>2, EventWith
    <2>3. QED  BY <2>1, <2>2
  <1> HIDE DEF y
  <1>8. Progress(c, y, n, p) /\ Timed(y)  BY <1>6, <1>7, ProgressKept
  <1>9. y.rcv_nxt = EndOf(p, m) + 1 /\ y.fin_ack_rcvd = e.fin_ack_rcvd
    BY <1>5, <1>7 DEF Carried, i
  <1>10. AckFits(y.rcv_nxt, p)
    <2>1. p.iss \in Nat /\ p.snd_max \in Int  BY DEF IsConn
    <2>2. QED  BY <1>9, <2>1 DEF AckFits, Reached, FinSent, EndOf
  <1>11. /\ Progress(c, x, n, p) /\ SameReceived(y, x) /\ Timed(x)
         /\ x.event = y.event /\ x.fin_ack_rcvd = y.fin_ack_rcvd /\ x.timers = y.timers
    BY <1>8, <1>10, ProgressAcked
  <1> HIDE DEF x
  <1>12. x.rcv_nxt = EndOf(p, m) + 1 /\ x.buffered = e.buffered /\ x.got = e.got
         /\ x.rcv_fin_seq = e.rcv_fin_seq
    BY <1>5, <1>7, <1>9, <1>11 DEF Carried, SameReceived
  <1>13. e.buffered = {}
    <2>1. EndOf(p, m) <= e.rcv_nxt  BY <1>2
    <2>2. QED  BY <1>1, <2>1, NothingBuffered
  <1>14. Receives(x, "CLOSE_WAIT", p, m)
    <2>1. GotSide(x, m) /\ Len(x.got) = m  BY <1>12 DEF GotSide
    <2>2. Buffered(x, p, m)  BY <1>12, <1>13 DEF Buffered
    <2>3. x.rcv_fin_seq = None \/ (x.rcv_fin_seq = EndOf(p, m) /\ FinSent(p, m))
      BY <1>12
    <2>4. /\ x.rcv_nxt = EndOf(p, m) + 1 /\ Len(x.got) = m /\ FinSent(p, m)
          /\ "CLOSE_WAIT" \notin {"SYN_RCVD", "ESTABLISHED"}
      BY <1>12, <2>1
    <2>5. p.state # "INIT"  OBVIOUS
    <2> HIDE DEF ev, timed
    <2>6. QED  BY <2>1, <2>2, <2>3, <2>4, <2>5 DEF Receives
  <1>15. QED  BY <1>7, <1>9, <1>11, <1>14 DEF Finished, x, y

(* insertBytesFromSegment() and extractBytesUpTo(): the numbers of the     *)
(* segments in the receive window that are there have a first gap.         *)
LEMMA GapFound ==
    ASSUME NEW r \in Int, NEW S, S \subseteq r..(r + RcvWnd - 1)
    PROVE  /\ FirstMissing(r, S) \in Int /\ r <= FirstMissing(r, S)
           /\ FirstMissing(r, S) \notin S /\ r..(FirstMissing(r, S) - 1) \subseteq S
  <1> DEFINE Q(k) == k \notin S /\ r..(k - 1) \subseteq S
             T == {k \in Nat : r + k \notin S}
  <1>1. RcvWnd \in Nat  BY ConnectionAssumption
  <1>2. \E k \in r..(r + RcvWnd + 1) : Q(k)
    <2>1. RcvWnd \in T  BY <1>1
    <2>2. T \in SUBSET Nat /\ T # {}  BY <2>1
    <2>3. PICK a \in T : \A b \in T : a <= b  BY <2>2, LeastNumber, Zenon
    <2>4. a \in Nat /\ a <= RcvWnd /\ r + a \notin S  BY <2>1, <2>3
    <2>5. ASSUME NEW j \in r..(r + a - 1) PROVE j \in S
      <3>1. j - r \in Nat /\ j - r < a /\ r + (j - r) = j  BY <2>4, <2>5
      <3>2. j - r \notin T
        <4>1. ~(a <= j - r)  BY <2>4, <3>1
        <4>2. QED  BY <2>3, <4>1
      <3>3. QED  BY <3>1, <3>2
    <2>6. Q(r + a)  BY <2>4, <2>5
    <2>7. r + a \in r..(r + RcvWnd + 1)  BY <1>1, <2>4
    <2> HIDE DEF Q
    <2>8. QED  BY <2>6, <2>7, Zenon
  <1> DEFINE f == CHOOSE k \in r..(r + RcvWnd + 1) : Q(k)
  <1>3. f \in r..(r + RcvWnd + 1) /\ Q(f)
    <2> HIDE DEF Q
    <2>1. QED  BY <1>2, Zenon
  <1>4. f = FirstMissing(r, S)  BY DEF FirstMissing
  <1> HIDE DEF f
  <1>5. f \in Int /\ r <= f  BY <1>1, <1>3
  <1>6. QED  BY <1>3, <1>4, <1>5

(* A received segment's data in the receive queue of x.                    *)
InWindow(b, x, p, m) ==
    /\ b.data = b.seq - p.iss /\ b.data \in 1..m /\ Reached(p, b.seq + 1)
    /\ x.rcv_nxt <= b.seq /\ b.seq < x.rcv_nxt + RcvWnd

(* What the receive queue gives to the application is what comes next.     *)
LEMMA TextTaken ==
    ASSUME NEW x, IsConn(x), NEW p, IsConn(p), NEW m \in Nat,
           NEW all \in SUBSET [seq : Int, data : Int], \A b \in all : InWindow(b, x, p, m),
           GotSide(x, m), x.rcv_nxt = p.iss + 1 + Len(x.got), Reached(p, x.rcv_nxt)
    PROVE  LET nxt == FirstMissing(x.rcv_nxt, {b.seq : b \in all})
               at(n) == (CHOOSE b \in all : b.seq = n).data
               buf == {b \in all : b.seq >= nxt}
               g == x.got \o [i \in 1..(nxt - x.rcv_nxt) |-> at(x.rcv_nxt + i - 1)] IN
           /\ nxt \in Int /\ x.rcv_nxt <= nxt /\ nxt = p.iss + 1 + Len(g) /\ Reached(p, nxt)
           /\ g \in Seq(Int) /\ (\A i \in DOMAIN g : g[i] = i) /\ Len(g) <= m
           /\ buf \in SUBSET [seq : Int, data : Int]
           /\ \A b \in buf :
                 /\ b.data = b.seq - p.iss /\ b.data \in 1..m /\ Reached(p, b.seq + 1)
                 /\ nxt < b.seq /\ b.seq < nxt + RcvWnd
  <1> DEFINE r == x.rcv_nxt
             seqs == {b.seq : b \in all}
             nxt == FirstMissing(r, seqs)
             at(n) == (CHOOSE b \in all : b.seq = n).data
             buf == {b \in all : b.seq >= nxt}
             e == [i \in 1..(nxt - r) |-> at(r + i - 1)]
             g == x.got \o e
  <1>1. r \in Int /\ p.iss \in Nat /\ x.got \in Seq(Int) /\ RcvWnd \in Nat /\ Len(x.got) \in Nat
    BY ConnectionAssumption DEF IsConn
  <1>2. \A b \in all : b.seq \in Int /\ b.data \in Int /\ InWindow(b, x, p, m)  OBVIOUS
  <1>3. seqs \subseteq r..(r + RcvWnd - 1)
    BY <1>1, <1>2 DEF InWindow
  <1>4. nxt \in Int /\ r <= nxt /\ nxt \notin seqs /\ r..(nxt - 1) \subseteq seqs
    <2> HIDE DEF seqs, r
    <2>1. QED  BY <1>1, <1>3, GapFound
  <1> HIDE DEF nxt
  <1>5. ASSUME NEW k \in r..(nxt - 1)
        PROVE  at(k) = k - p.iss /\ k - p.iss \in 1..m /\ Reached(p, k + 1)
    <2>1. \E b \in all : b.seq = k  BY <1>4, <1>5
    <2> DEFINE b == CHOOSE q \in all : q.seq = k
    <2>2. b \in all /\ b.seq = k  BY <2>1, Zenon
    <2>3. at(k) = b.data  OBVIOUS
    <2> HIDE DEF b, at
    <2>4. b.data = k - p.iss /\ b.data \in 1..m /\ Reached(p, k + 1)
      BY <1>2, <2>2 DEF InWindow
    <2>5. QED  BY <2>3, <2>4
  <1>6. nxt - r \in Nat  BY <1>1, <1>4
  <1>7. ASSUME NEW i \in 1..(nxt - r) PROVE e[i] = r + i - 1 - p.iss /\ e[i] \in Int
    <2>1. r + i - 1 \in r..(nxt - 1)  BY <1>1, <1>4, <1>7
    <2>2. e[i] = at(r + i - 1)  OBVIOUS
    <2> HIDE DEF e, at, r
    <2>3. at(r + i - 1) = (r + i - 1) - p.iss /\ (r + i - 1) - p.iss \in 1..m  BY <1>5, <2>1
    <2>4. QED  BY <1>1, <1>4, <2>2, <2>3
  <1>8. DOMAIN e = 1..(nxt - r) /\ e = [i \in 1..(nxt - r) |-> e[i]]  OBVIOUS
  <1> HIDE DEF e, at
  <1>9. e \in Seq(Int) /\ Len(e) = nxt - r
    <2>1. \A i \in 1..(nxt - r) : e[i] \in Int  BY <1>7
    <2> DEFINE k == nxt - r
    <2> HIDE DEF k
    <2>2. k \in Nat /\ DOMAIN e = 1..k /\ e = [i \in 1..k |-> e[i]] /\ \A i \in 1..k : e[i] \in Int
      BY <1>6, <1>8, <2>1 DEF k
    <2>3. e \in [1..k -> Int]  BY <2>2
    <2>4. e \in Seq(Int) /\ Len(e) = k  BY <2>2, <2>3
    <2>5. QED  BY <2>4 DEF k
  <1>10. g \in Seq(Int) /\ Len(g) \in Nat /\ Len(g) = Len(x.got) + (nxt - r)
    <2>1. e \in Seq(Int) /\ x.got \in Seq(Int)  BY <1>1, <1>9
    <2>2. g \in Seq(Int) /\ Len(g) = Len(x.got) + Len(e)  BY <2>1
    <2> HIDE DEF g
    <2>3. Len(g) \in Nat  BY <2>2
    <2>4. QED  BY <1>9, <2>2, <2>3
  <1>11. nxt = p.iss + 1 + Len(g)
    <2> HIDE DEF g
    <2>1. r = p.iss + 1 + Len(x.got)  OBVIOUS
    <2> DEFINE i == p.iss
               k == Len(g)
               l == Len(x.got)
               q == r
    <2>2. /\ i \in Int /\ k \in Int /\ l \in Int /\ q \in Int /\ nxt \in Int
          /\ k = l + (nxt - q) /\ q = i + 1 + l
      BY <1>1, <1>4, <1>10, <2>1
    <2>3. nxt = i + 1 + k
      <3> HIDE DEF i, k, l, q
      <3>1. QED  BY <2>2
    <2>4. QED  BY <2>3
  <1>12. ASSUME NEW i \in DOMAIN g PROVE g[i] = i
    <2>1. i \in 1..Len(g)  BY <1>10
    <2>2. CASE i <= Len(x.got)
      <3>1. i \in DOMAIN x.got /\ g[i] = x.got[i]  BY <1>1, <1>9, <2>1, <2>2
      <3>2. QED  BY <3>1 DEF GotSide
    <2>3. CASE ~(i <= Len(x.got))
      <3> DEFINE j == i - Len(x.got)
      <3>1. j \in 1..(nxt - r)  BY SMTT(30), <1>1, <1>4, <1>10, <2>1, <2>3
      <3>2. g[i] = e[j]  BY <1>1, <1>9, <1>10, <2>1, <2>3
      <3>3. e[j] = r + j - 1 - p.iss  BY <1>7, <3>1
      <3>4. r + j - 1 - p.iss = i  BY SMTT(30), <1>1, <2>1, <1>10
      <3>5. QED  BY <3>2, <3>3, <3>4
    <2>4. QED  BY <2>2, <2>3
  <1> HIDE DEF g
  <1>13. Len(g) <= m /\ Reached(p, nxt)
    <2>1. CASE nxt = r  BY <1>1, <1>10, <2>1 DEF GotSide
    <2>2. CASE nxt # r
      <3>1. nxt - 1 \in r..(nxt - 1) /\ (nxt - 1) + 1 = nxt  BY <1>1, <1>4, <2>2
      <3>2. (nxt - 1) - p.iss \in 1..m /\ Reached(p, (nxt - 1) + 1)  BY <1>5, <3>1
      <3>3. Len(g) = (nxt - 1) - p.iss
        <4>1. Len(g) \in Nat  BY <1>10
        <4>2. QED  BY <1>1, <1>4, <1>11, <4>1
      <3>4. QED  BY <3>1, <3>2, <3>3
    <2>3. QED  BY <2>1, <2>2
  <1>14. buf \in SUBSET [seq : Int, data : Int]  OBVIOUS
  <1>15. ASSUME NEW b \in buf
         PROVE  /\ b.data = b.seq - p.iss /\ b.data \in 1..m /\ Reached(p, b.seq + 1)
                /\ nxt < b.seq /\ b.seq < nxt + RcvWnd
    <2>1. b \in all /\ b.seq >= nxt /\ b.seq \in Int /\ InWindow(b, x, p, m)  BY <1>2
    <2>2. b.seq # nxt  BY <1>4, <2>1
    <2> HIDE DEF buf
    <2>3. QED  BY <1>1, <1>4, <2>1, <2>2 DEF InWindow
  <1>16. QED
    BY <1>4, <1>10, <1>11, <1>12, <1>13, <1>14, <1>15 DEF g, e, at, nxt

(* What a change of the receive side leaves of the progress of an event.    *)
Taking(x, i, b, g) == [x EXCEPT !.rcv_nxt = i, !.buffered = b, !.got = g]

(* Taking text is progress.                                                *)
LEMMA ProgressReceiving ==
    ASSUME NEW c, IsConn(c), NEW n \in Nat, NEW p, NEW x, Progress(c, x, n, p),
           NEW i \in Int, x.rcv_nxt <= i, NEW b \in SUBSET [seq : Int, data : Int],
           NEW g \in Seq(Int)
    PROVE  LET d == Taking(x, i, b, g) IN
           /\ Progress(c, d, n, p) /\ (Timed(x) => Timed(d))
           /\ d.rcv_nxt = i /\ d.buffered = b /\ d.got = g /\ d.rcv_fin_seq = x.rcv_fin_seq
           /\ d.timers = x.timers /\ d.event = x.event /\ d.fin_ack_rcvd = x.fin_ack_rcvd
           /\ d.snd_una = x.snd_una /\ d.snd_max = x.snd_max
  <1> DEFINE d == Taking(x, i, b, g)
  <1>1. IsConn(x) /\ OutFits(x, n, p)  BY DEF Progress
  <1>2. IsConn(d)  BY <1>1 DEF IsConn, Fields, Taking
  <1>3. /\ d.state = x.state /\ d.active = x.active /\ d.iss = x.iss
        /\ d.snd_una = x.snd_una /\ d.snd_nxt = x.snd_nxt /\ d.snd_max = x.snd_max
        /\ d.bufferEnd = x.bufferEnd /\ d.send_fin = x.send_fin /\ d.snd_fin_seq = x.snd_fin_seq
        /\ d.fin_ack_rcvd = x.fin_ack_rcvd /\ d.rcv_nxt = i /\ d.buffered = b
        /\ d.got = g /\ d.rcv_fin_seq = x.rcv_fin_seq /\ d.timers = x.timers
        /\ d.out = x.out /\ d.ind = x.ind /\ d.event = x.event
    BY <1>1 DEF IsConn, Fields, Taking
  <1> HIDE DEF d
  <1>4. OutFits(d, n, p)
    <2> SUFFICES ASSUME NEW s \in BagToSet(x.out) PROVE Fits(s, d, n, p)
      BY <1>3 DEF OutFits
    <2>1. Fits(s, x, n, p)  BY <1>1 DEF OutFits
    <2>2. x.snd_max \in Int  BY <1>1 DEF IsConn
    <2>3. QED  BY <1>1, <1>2, <1>3, <2>1, <2>2, FitsOn
  <1>5. SendOrder(d, n) /\ AckSide(d, p)
    BY <1>3 DEF Progress, SendOrder, AckSide, Acknowledged
  <1>6. FinWaits(c) => FinWaits(d) \/ FinNow(d)  BY <1>3 DEF Progress, FinWaits, FinNow
  <1>7. c.rcv_nxt <= d.rcv_nxt
    <2>1. c.rcv_nxt <= x.rcv_nxt  BY DEF Progress
    <2>2. c.rcv_nxt \in Int  BY DEF IsConn
    <2>3. x.rcv_nxt \in Int  BY <1>1 DEF IsConn
    <2>4. QED  BY <1>3, <2>1, <2>2, <2>3
  <1>8. Progress(c, d, n, p)
    <2>1. d.ind = IF c.state = "SYN_RCVD" THEN <<"ESTABLISHED">> ELSE << >>
      BY <1>3 DEF Progress
    <2>2. d.timers \cup {"REXMIT", "2MSL"} = c.timers \cup {"REXMIT", "2MSL"}
      BY <1>3 DEF Progress
    <2>3. QED  BY <1>2, <1>3, <1>4, <1>5, <1>6, <1>7, <2>1, <2>2 DEF Progress
  <1>9. Timed(x) => Timed(d)  BY <1>3 DEF Timed
  <1>10. QED  BY <1>3, <1>8, <1>9 DEF d

(* Receives depends on the receive side only.                              *)
LEMMA ReceivesSame ==
    ASSUME NEW x, NEW y, SameReceived(x, y), NEW to, NEW p, NEW m, Receives(x, to, p, m)
    PROVE  Receives(y, to, p, m)
  BY DEF SameReceived, Receives, GotSide, Buffered

(* sendAck() while the segment is being processed.                         *)
LEMMA UnfinishedAcked ==
    ASSUME NEW c, NEW n \in Nat, NEW p, NEW m, NEW x, Unfinished(c, x, n, p, m),
           AckFits(x.rcv_nxt, p)
    PROVE  Unfinished(c, SendAck(x), n, p, m)
  <1> DEFINE y == SendAck(x)
  <1>1. Progress(c, x, n, p) /\ Timed(x) /\ Receives(x, c.state, p, m)  BY DEF Unfinished
  <1>2. /\ Progress(c, y, n, p) /\ SameReceived(x, y) /\ Timed(y) /\ y.event = x.event
        /\ y.fin_ack_rcvd = x.fin_ack_rcvd /\ y.timers = x.timers
    BY <1>1, ProgressAcked
  <1> HIDE DEF y
  <1>3. Receives(y, c.state, p, m)  BY <1>1, <1>2, ReceivesSame
  <1>4. Unfinished(c, y, n, p, m)  BY <1>2, <1>3 DEF Unfinished, StateEvent
  <1>5. QED  BY <1>4 DEF y

(* Data that is acceptable comes before the FIN of this attempt.           *)
LEMMA DataBeforeFin ==
    ASSUME NEW c, NEW n, NEW p, NEW m, NEW sk, NEW l, Sound(c, n, p, m, sk, l),
           c.state \in Connected, NEW s, GoodSegment(s, p, m, c), IsSegmentAcceptable(c, s),
           s.data # None
    PROVE  /\ c.rcv_nxt = p.iss + 1 + Len(c.got) /\ Reached(p, c.rcv_nxt)
           /\ s.data = s.seq - p.iss /\ s.data \in 1..m /\ Reached(p, s.seq + 1)
           /\ c.rcv_nxt <= s.seq /\ s.seq < c.rcv_nxt + RcvWnd
  <1>1. IsConn(c) /\ IsConn(p) /\ m \in Nat /\ ReceiveSide(c, p, m)  BY DEF Sound, SendSide
  <1>2. c.rcv_nxt \in Int /\ p.iss \in Nat  BY <1>1 DEF IsConn
  <1>3. ISSStep \in Nat /\ RcvWnd \in Nat /\ ISSStep > RcvWnd + 2  BY ConnectionAssumption
  <1>4. s.seq \in Int /\ s.data \in Int  BY DEF GoodSegment, IsSegment
  <1>5. s.data = s.seq - p.iss /\ s.data \in 1..m /\ Reached(p, s.seq + 1)
    BY DEF GoodSegment
  <1>6. c.rcv_nxt <= s.seq /\ s.seq < c.rcv_nxt + RcvWnd  BY DEF IsSegmentAcceptable
  <1>7. c.rcv_nxt # EndOf(p, m) + 1
    BY <1>1, <1>2, <1>4, <1>5, <1>6 DEF EndOf
  <1>8. ~(c.rcv_nxt + ISSStep <= p.iss + 1)
    BY <1>1, <1>2, <1>3, <1>4, <1>5, <1>6
  <1>9. BeforeFin(c, p)  BY <1>1, <1>7, <1>8 DEF ReceiveSide, PastFin, Behind
  <1>10. QED  BY <1>5, <1>6, <1>9 DEF BeforeFin

(* The seventh step.                                                       *)
LEMMA TextProcessed ==
    ASSUME NEW c, NEW n, NEW p, NEW m, NEW sk, NEW l, Sound(c, n, p, m, sk, l),
           c.state \in Open, NEW s, GoodSegment(s, p, m, c), IsSegmentAcceptable(c, s),
           s.data # None, NEW x, Ready(c, x, s, n, p), NEW idle
    PROVE  LET z == ProcessText(x, s, c.snd_una, idle) IN
           Unfinished(c, z, n, p, m) \/ Finished(c, z, n, p, m)
  <1> DEFINE all == x.buffered \cup {[seq |-> s.seq, data |-> s.data]}
             nxt == FirstMissing(x.rcv_nxt, {b.seq : b \in all})
             at(k) == (CHOOSE b \in all : b.seq = k).data
             buf == {b \in all : b.seq >= nxt}
             g == x.got \o [i \in 1..(nxt - x.rcv_nxt) |-> at(x.rcv_nxt + i - 1)]
             d == [x EXCEPT !.rcv_nxt = nxt, !.buffered = buf, !.got = g]
             e == IF x.snd_una > c.snd_una THEN ReceivedDataAck(d, idle) ELSE d
             z == ProcessText(x, s, c.snd_una, idle)
  <1>1. z = IF nxt = x.rcv_nxt THEN SendAck(e)
            ELSE IF nxt = x.rcv_fin_seq THEN SendAck(AcceptFin(e))
            ELSE IF "FIN" \in s.flags \/ e.out # d.out THEN e
            ELSE SendAck(e)
    <2>1. [x EXCEPT !.rcv_nxt = nxt, !.buffered = buf,
                    !.got = @ \o [i \in 1..(nxt - x.rcv_nxt) |-> at(x.rcv_nxt + i - 1)]] = d
      <3> HIDE DEF nxt, buf, at
      <3>1. QED  OBVIOUS
    <2> HIDE DEF d
    <2>2. QED  BY <2>1 DEF ProcessText
  <1> HIDE DEF z
  <1>2. /\ IsConn(c) /\ IsConn(p) /\ m \in Nat /\ n \in Nat /\ GotSide(c, m)
        /\ ReceiveSide(c, p, m) /\ SendSide(c, n) /\ c.state \in Connected
    BY DEF Sound, SendSide, Open, Connected, Synchronized
  <1>3. Receives(c, c.state, p, m)  BY <1>2, ReceivedSide
  <1>4. /\ Progress(c, x, n, p) /\ SameReceived(c, x) /\ x.event = StateEvent(c, x)
        /\ "2MSL" \notin x.timers /\ (LeftToText(c, x, s) => x.snd_max = c.snd_max)
        /\ (LeftToText(c, x, s) \/ Timed(x))
    BY DEF Ready, Open
  <1>5. /\ x.rcv_nxt = c.rcv_nxt /\ x.buffered = c.buffered /\ x.got = c.got
        /\ x.rcv_fin_seq = c.rcv_fin_seq
    BY <1>4 DEF SameReceived
  <1>6. IsConn(x) /\ GotSide(x, m)  BY <1>2, <1>4, <1>5 DEF Progress, GotSide
  <1>7. s.seq \in Int /\ s.data \in Int  BY DEF GoodSegment, IsSegment
  <1>8. /\ c.rcv_nxt = p.iss + 1 + Len(c.got) /\ Reached(p, c.rcv_nxt)
        /\ s.data = s.seq - p.iss /\ s.data \in 1..m /\ Reached(p, s.seq + 1)
        /\ c.rcv_nxt <= s.seq /\ s.seq < c.rcv_nxt + RcvWnd
    BY <1>2, DataBeforeFin
  <1>9. c.rcv_nxt \in Int /\ p.iss \in Nat /\ c.snd_una \in Int /\ x.snd_una \in Int /\ c.iss \in Nat
    BY <1>2, <1>6 DEF IsConn
  <1>10. all \in SUBSET [seq : Int, data : Int] /\ \A b \in all : InWindow(b, x, p, m)
    <2>1. x.buffered \in SUBSET [seq : Int, data : Int]  BY <1>6 DEF IsConn
    <2>2. [seq |-> s.seq, data |-> s.data] \in [seq : Int, data : Int]  BY <1>7
    <2>3. ASSUME NEW b \in x.buffered PROVE InWindow(b, x, p, m)
      <3>1. b.seq \in Int  BY <2>1
      <3>2. Buffered(c, p, m)  BY <1>3 DEF Receives
      <3>3. /\ b.data = b.seq - p.iss /\ b.data \in 1..m /\ Reached(p, b.seq + 1)
            /\ c.rcv_nxt < b.seq /\ b.seq < c.rcv_nxt + RcvWnd
        BY <1>5, <3>2 DEF Buffered
      <3>4. QED  BY <1>5, <1>9, <3>1, <3>3 DEF InWindow
    <2>4. InWindow([seq |-> s.seq, data |-> s.data], x, p, m)  BY <1>5, <1>8 DEF InWindow
    <2>5. QED  BY <2>1, <2>2, <2>3, <2>4
  <1>11. x.rcv_nxt = p.iss + 1 + Len(x.got) /\ Reached(p, x.rcv_nxt)  BY <1>5, <1>8
  <1>12. /\ nxt \in Int /\ x.rcv_nxt <= nxt /\ nxt = p.iss + 1 + Len(g) /\ Reached(p, nxt)
         /\ g \in Seq(Int) /\ (\A i \in DOMAIN g : g[i] = i) /\ Len(g) <= m
         /\ buf \in SUBSET [seq : Int, data : Int]
         /\ \A b \in buf :
               /\ b.data = b.seq - p.iss /\ b.data \in 1..m /\ Reached(p, b.seq + 1)
               /\ nxt < b.seq /\ b.seq < nxt + RcvWnd
    <2> HIDE DEF all
    <2>1. QED  BY <1>2, <1>6, <1>10, <1>11, TextTaken
  <1> HIDE DEF all, nxt, at, buf, g
  <1>13. /\ Progress(c, d, n, p) /\ (Timed(x) => Timed(d))
         /\ d.rcv_nxt = nxt /\ d.buffered = buf /\ d.got = g /\ d.rcv_fin_seq = x.rcv_fin_seq
         /\ d.timers = x.timers /\ d.event = x.event /\ d.fin_ack_rcvd = x.fin_ack_rcvd
         /\ d.snd_una = x.snd_una /\ d.snd_max = x.snd_max
    <2>1. /\ IsConn(c) /\ n \in Nat /\ Progress(c, x, n, p) /\ nxt \in Int /\ x.rcv_nxt <= nxt
          /\ buf \in SUBSET [seq : Int, data : Int] /\ g \in Seq(Int)
      BY <1>2, <1>4, <1>12
    <2>2. d = Taking(x, nxt, buf, g)  BY DEF Taking
    <2> HIDE DEF d
    <2>3. QED  BY <2>1, <2>2, ProgressReceiving
  <1> HIDE DEF d
  <1>14. AckFits(nxt, p)
    <2>1. Len(g) \in Nat  BY <1>12
    <2>2. nxt > p.iss  BY <1>9, <1>12, <2>1
    <2>3. QED  BY <1>12, <2>2 DEF AckFits
  <1>15. /\ Progress(c, e, n, p) /\ Timed(e) /\ SameReceived(d, e) /\ e.event = x.event
         /\ e.fin_ack_rcvd = x.fin_ack_rcvd /\ "2MSL" \notin e.timers
    <2>1. CASE x.snd_una > c.snd_una
      <3>1. d.snd_max = c.snd_max  BY <1>4, <1>9, <1>13, <2>1 DEF LeftToText
      <3>2. IsConn(d) /\ OutFits(d, n, p) /\ SendOrder(d, n) /\ d.iss = c.iss
        BY <1>13 DEF Progress
      <3>3. d.iss < d.snd_una
        <4>1. c.iss <= c.snd_una
          <5>1. c.state # "CLOSED"  BY DEF Open
          <5>2. QED  BY <1>2, <5>1 DEF SendSide, SendOrder
        <4>2. QED  BY <1>9, <1>13, <2>1, <3>2, <4>1
      <3>4. SentMore(d, ReceivedDataAck(d, idle), n, p)
        BY <1>2, <1>13, <1>14, <3>2, <3>3, AckTaken
      <3>5. e = ReceivedDataAck(d, idle)  BY <2>1
      <3> HIDE DEF e
      <3>6. SentMore(d, e, n, p)  BY <3>4, <3>5
      <3>7. /\ Progress(c, e, n, p) /\ Timed(e) /\ SameReceived(d, e)
            /\ e.event = d.event /\ e.fin_ack_rcvd = d.fin_ack_rcvd
            /\ ("2MSL" \in e.timers) <=> ("2MSL" \in d.timers)
        BY <1>2, <1>13, <3>1, <3>6, ProgressSending
      <3>8. QED  BY <1>4, <1>13, <3>7
    <2>2. CASE ~(x.snd_una > c.snd_una)
      <3>1. e = d  BY <2>2
      <3> HIDE DEF e
      <3>2. Timed(x)  BY <1>4, <1>9, <2>2 DEF LeftToText
      <3>3. QED  BY <1>4, <1>13, <3>1, <3>2 DEF SameReceived
    <2>3. QED  BY <2>1, <2>2
  <1> HIDE DEF e
  <1>16. e.rcv_nxt = nxt /\ e.buffered = buf /\ e.got = g /\ e.rcv_fin_seq = c.rcv_fin_seq
    BY <1>5, <1>13, <1>15 DEF SameReceived
  <1>17. GotSide(e, m) /\ Buffered(e, p, m)
    BY <1>12, <1>16 DEF GotSide, Buffered
  <1>18. /\ p.state # "INIT"
         /\ c.rcv_fin_seq = None \/ (c.rcv_fin_seq = EndOf(p, m) /\ FinSent(p, m))
    BY <1>3 DEF Receives
  <1>19. c.state \notin AfterFin  BY DEF Open, AfterFin
  <1>20. Receives(e, c.state, p, m)
    BY <1>12, <1>16, <1>17, <1>18, <1>19 DEF Receives
  <1>21. Unfinished(c, e, n, p, m)
    <2>1. e.event = StateEvent(c, e)  BY <1>4, <1>15 DEF StateEvent
    <2>2. c.state # "CLOSING"  BY DEF Open
    <2>3. QED  BY <1>15, <1>20, <2>1, <2>2 DEF Unfinished
  <1>22. Unfinished(c, SendAck(e), n, p, m)
    <2>1. AckFits(e.rcv_nxt, p)  BY <1>14, <1>16
    <2>2. QED  BY <1>2, <1>21, <2>1, UnfinishedAcked
  <1>23. ASSUME nxt = x.rcv_fin_seq PROVE Finished(c, SendAck(AcceptFin(e)), n, p, m)
    <2>1. nxt # None
      <3>1. Len(g) \in Nat  BY <1>12
      <3>2. QED  BY <1>9, <1>12, <3>1 DEF None
    <2>2. nxt = EndOf(p, m) /\ FinSent(p, m)  BY <1>5, <1>18, <1>23, <2>1
    <2>3. e.rcv_nxt = EndOf(p, m) /\ (e.rcv_fin_seq = None \/ e.rcv_fin_seq = EndOf(p, m))
      BY <1>16, <1>18, <2>2
    <2>4. Len(e.got) = m
      <3>1. Len(g) \in Nat  BY <1>12
      <3>2. QED  BY <1>2, <1>9, <1>12, <1>16, <2>2, <3>1 DEF EndOf
    <2>5. QED  BY <1>2, <1>15, <1>17, <1>18, <2>2, <2>3, <2>4, FinAccepted
  <1>24. Unfinished(c, z, n, p, m) \/ Finished(c, z, n, p, m)
    BY <1>1, <1>21, <1>22, <1>23
  <1>25. QED  BY <1>24 DEF z

(* Without text the connection is as the ACK has left it.                  *)
LEMMA NoText ==
    ASSUME NEW c, NEW n, NEW p, NEW m, NEW sk, NEW l, Sound(c, n, p, m, sk, l),
           c.state \in Connected, NEW s, s.data = None, NEW x, Ready(c, x, s, n, p)
    PROVE  Unfinished(c, x, n, p, m)
  <1>1. Receives(c, c.state, p, m)  BY ReceivedSide DEF Sound
  <1>2. Progress(c, x, n, p) /\ SameReceived(c, x) /\ x.event = StateEvent(c, x) /\ Timed(x)
        /\ (("2MSL" \in x.timers) <=> (c.state = "CLOSING" /\ x.fin_ack_rcvd))
    BY DEF Ready, LeftToText
  <1>3. Receives(x, c.state, p, m)  BY <1>1, <1>2, ReceivesSame
  <1>4. QED  BY <1>2, <1>3 DEF Unfinished

(* A FIN that cannot be accepted yet is noted.                             *)
LEMMA FinNoted ==
    ASSUME NEW c, IsConn(c), NEW n \in Nat, NEW p, NEW x, Progress(c, x, n, p), NEW i \in Int
    PROVE  LET d == [x EXCEPT !.rcv_fin_seq = i] IN
           /\ Progress(c, d, n, p) /\ (Timed(x) => Timed(d))
           /\ d.rcv_nxt = x.rcv_nxt /\ d.buffered = x.buffered /\ d.got = x.got
           /\ d.rcv_fin_seq = i /\ d.timers = x.timers /\ d.event = x.event
           /\ d.fin_ack_rcvd = x.fin_ack_rcvd
  <1> DEFINE d == [x EXCEPT !.rcv_fin_seq = i]
  <1>1. IsConn(x) /\ OutFits(x, n, p)  BY DEF Progress
  <1>2. IsConn(d)  BY <1>1 DEF IsConn, Fields
  <1>3. /\ d.state = x.state /\ d.active = x.active /\ d.iss = x.iss
        /\ d.snd_una = x.snd_una /\ d.snd_nxt = x.snd_nxt /\ d.snd_max = x.snd_max
        /\ d.bufferEnd = x.bufferEnd /\ d.send_fin = x.send_fin /\ d.snd_fin_seq = x.snd_fin_seq
        /\ d.fin_ack_rcvd = x.fin_ack_rcvd /\ d.rcv_nxt = x.rcv_nxt /\ d.buffered = x.buffered
        /\ d.got = x.got /\ d.rcv_fin_seq = i /\ d.timers = x.timers
        /\ d.out = x.out /\ d.ind = x.ind /\ d.event = x.event
    BY <1>1 DEF IsConn, Fields
  <1> HIDE DEF d
  <1>4. OutFits(d, n, p)  BY <1>1, <1>3 DEF OutFits, Fits, EndOf
  <1>5. SendOrder(d, n) /\ AckSide(d, p)
    BY <1>3 DEF Progress, SendOrder, AckSide, Acknowledged
  <1>6. FinWaits(c) => FinWaits(d) \/ FinNow(d)  BY <1>3 DEF Progress, FinWaits, FinNow
  <1>7. Progress(c, d, n, p)
    <2>1. d.ind = IF c.state = "SYN_RCVD" THEN <<"ESTABLISHED">> ELSE << >>
      BY <1>3 DEF Progress
    <2>2. d.timers \cup {"REXMIT", "2MSL"} = c.timers \cup {"REXMIT", "2MSL"}
      BY <1>3 DEF Progress
    <2>3. QED  BY <1>2, <1>3, <1>4, <1>5, <1>6, <2>1, <2>2 DEF Progress
  <1>8. Timed(x) => Timed(d)  BY <1>3 DEF Timed
  <1>9. QED  BY <1>3, <1>7, <1>8 DEF d

(* The eighth step.                                                        *)
LEMMA FinProcessed ==
    ASSUME NEW c, NEW n, NEW p, NEW m, NEW sk, NEW l, Sound(c, n, p, m, sk, l),
           c.state \in Connected \ {"TIME_WAIT"}, NEW s, GoodSegment(s, p, m, c),
           "FIN" \in s.flags, NEW x, Unfinished(c, x, n, p, m) \/ Finished(c, x, n, p, m)
    PROVE  LET z == ProcessFin(x, s) IN
           /\ Unfinished(c, z, n, p, m) \/ Finished(c, z, n, p, m)
           /\ c.state \in AfterFin => z.fin_ack_rcvd = x.fin_ack_rcvd
  <1> DEFINE i == FinSeq(s)
             d == [x EXCEPT !.rcv_fin_seq = i]
             z == ProcessFin(x, s)
  <1>1. z = IF x.rcv_nxt = i THEN SendAck(AcceptFin(x)) ELSE d
    BY DEF ProcessFin, FinSeq
  <1> HIDE DEF z
  <1>2. IsConn(c) /\ IsConn(p) /\ m \in Nat /\ n \in Nat  BY DEF Sound, SendSide
  <1>3. i = EndOf(p, m) /\ FinSent(p, m)  BY DEF GoodSegment
  <1>4. p.iss \in Nat /\ ISSStep \in Nat /\ ISSStep > 0  BY <1>2, ConnectionAssumption DEF IsConn
  <1>5. i \in Int  BY <1>2, <1>3, <1>4 DEF EndOf
  <1> HIDE DEF i
  <1>6. Progress(c, x, n, p) /\ Timed(x)  BY DEF Unfinished, Finished
  <1>7. IsConn(x) /\ x.rcv_nxt \in Int  BY <1>6 DEF Progress, IsConn
  <1>8. ASSUME x.rcv_nxt = i PROVE Finished(c, z, n, p, m) /\ c.state \notin AfterFin
    <2>1. x.rcv_nxt # EndOf(p, m) + 1  BY <1>3, <1>5, <1>8
    <2>2. ~Finished(c, x, n, p, m)  BY <2>1 DEF Finished, Receives, AfterFin
    <2>3. Unfinished(c, x, n, p, m)  BY <2>2
    <2>4. ~(x.rcv_nxt + ISSStep <= p.iss + 1)  BY <1>2, <1>3, <1>4, <1>7, <1>8 DEF EndOf
    <2>5. /\ x.rcv_nxt = p.iss + 1 + Len(x.got) /\ c.state \notin AfterFin
          /\ GotSide(x, m) /\ Buffered(x, p, m) /\ p.state # "INIT"
          /\ x.rcv_fin_seq = None \/ x.rcv_fin_seq = EndOf(p, m)
      BY <2>1, <2>3, <2>4 DEF Unfinished, Receives
    <2>6. Len(x.got) = m
      <3>1. Len(x.got) \in Nat  BY <1>7 DEF IsConn
      <3>2. QED  BY <1>2, <1>3, <1>4, <1>8, <2>5, <3>1 DEF EndOf
    <2>7. c.state \in Open /\ c.state # "CLOSING"
      BY <2>5 DEF Open, Connected, Synchronized, AfterFin
    <2>8. "2MSL" \notin x.timers  BY <2>3, <2>7 DEF Unfinished
    <2>9. x.rcv_nxt = EndOf(p, m)  BY <1>3, <1>8
    <2>10. Finished(c, SendAck(AcceptFin(x)), n, p, m)
      BY <1>2, <1>3, <1>6, <2>5, <2>6, <2>7, <2>8, <2>9, FinAccepted
    <2>11. QED  BY <1>1, <1>8, <2>5, <2>10
  <1>9. ASSUME x.rcv_nxt # i
        PROVE  /\ Unfinished(c, z, n, p, m) \/ Finished(c, z, n, p, m)
               /\ z.fin_ack_rcvd = x.fin_ack_rcvd
    <2>1. z = d  BY <1>1, <1>9
    <2>2. /\ Progress(c, d, n, p) /\ (Timed(x) => Timed(d))
          /\ d.rcv_nxt = x.rcv_nxt /\ d.buffered = x.buffered /\ d.got = x.got
          /\ d.rcv_fin_seq = i /\ d.timers = x.timers /\ d.event = x.event
          /\ d.fin_ack_rcvd = x.fin_ack_rcvd
      BY <1>2, <1>5, <1>6, FinNoted
    <2> HIDE DEF d
    <2>3. ASSUME NEW to, Receives(x, to, p, m) PROVE Receives(d, to, p, m)
      BY <1>3, <2>2, <2>3 DEF Receives, GotSide, Buffered
    <2>4. CASE Unfinished(c, x, n, p, m)
      BY <1>6, <2>1, <2>2, <2>3, <2>4 DEF Unfinished, StateEvent
    <2>5. CASE Finished(c, x, n, p, m)
      BY <1>6, <2>1, <2>2, <2>3, <2>5 DEF Finished
    <2>6. QED  BY <2>1, <2>2, <2>4, <2>5
  <1>10. QED  BY <1>8, <1>9 DEF z

-----------------------------------------------------------------------------
(* The end of a segment: the transitions of a synchronized connection.     *)
Moves ==
    {<<"SYN_RCVD", "ESTABLISHED">>, <<"SYN_RCVD", "CLOSE_WAIT">>, <<"SYN_RCVD", "FIN_WAIT_1">>,
     <<"ESTABLISHED", "ESTABLISHED">>, <<"ESTABLISHED", "CLOSE_WAIT">>,
     <<"ESTABLISHED", "FIN_WAIT_1">>, <<"FIN_WAIT_1", "FIN_WAIT_1">>,
     <<"FIN_WAIT_1", "FIN_WAIT_2">>, <<"FIN_WAIT_1", "CLOSING">>, <<"FIN_WAIT_1", "TIME_WAIT">>,
     <<"FIN_WAIT_2", "FIN_WAIT_2">>, <<"FIN_WAIT_2", "TIME_WAIT">>,
     <<"CLOSE_WAIT", "CLOSE_WAIT">>, <<"CLOSE_WAIT", "LAST_ACK">>, <<"CLOSING", "CLOSING">>,
     <<"CLOSING", "TIME_WAIT">>, <<"LAST_ACK", "LAST_ACK">>}

(* What has been received is right in a state further on.                  *)
LEMMA ReceivesOn ==
    ASSUME NEW x, NEW from, NEW to, NEW p, NEW m, Receives(x, from, p, m),
           to \in AfterFin => from \in AfterFin,
           to \in {"SYN_RCVD", "ESTABLISHED"} => from \in {"SYN_RCVD", "ESTABLISHED"}
    PROVE  Receives(x, to, p, m)
  BY DEF Receives

(* What the application is told on the way.                                *)
ToldBy(c, to) ==
    LET i == IF c.state = "SYN_RCVD" THEN <<"ESTABLISHED">> ELSE << >> IN
    IF to = c.state THEN i
    ELSE IF to = "CLOSE_WAIT" THEN Append(i, "PEER_CLOSED")
    ELSE IF to = "TIME_WAIT" THEN Append(i, "CLOSED")
    ELSE i

(* Two indications of one event.                                           *)
LEMMA TwoTold ==
    ASSUME NEW a \in Indications, NEW b \in Indications
    PROVE  /\ <<a>> \o <<b>> = <<a, b>> /\ Append(<<a>>, b) = <<a, b>>
           /\ <<a, b>> \in Seq(Indications) /\ << >> \o <<a, b>> = <<a, b>>
  <1> DEFINE s == <<a>>
             r == <<b>>
             t == s \o r
             u == <<a, b>>
  <1>1. s \in Seq(Indications) /\ Len(s) = 1 /\ s[1] = a  OBVIOUS
  <1>2. r \in Seq(Indications) /\ Len(r) = 1 /\ r[1] = b  OBVIOUS
  <1>3. u \in [1..2 -> Indications]  OBVIOUS
  <1>4. u \in Seq(Indications)  BY <1>3
  <1>5. t = <<a, b>>
    <2> HIDE DEF s, r
    <2>1. t \in Seq(Indications) /\ Len(t) = 2 /\ t[1] = a /\ t[2] = b
      BY <1>1, <1>2, ConcatProperties
    <2> HIDE DEF t
    <2>2. QED  BY <2>1
  <1>6. Append(s, b) = t  BY <1>1, AppendIsConcat
  <1> HIDE DEF u
  <1>7. << >> \o u = u  BY <1>4
  <1>8. QED  BY <1>4, <1>5, <1>6, <1>7 DEF u

(* What the application is told on the way to another state, and its       *)
(* socket's state after that.                                              *)
LEMMA ToldOnTheWay ==
    ASSUME NEW c, NEW sk, NEW l, AppSide(c, sk, l), NEW to, <<c.state, to>> \in Moves, NEW z,
           z.state = to
    PROVE  AppSide(z, SockState(sk, ToldBy(c, to)), l \o ToldBy(c, to))
  <1> DEFINE i == ToldBy(c, to)
             k == SockState(sk, i)
  <1>0. /\ <<"ESTABLISHED", "PEER_CLOSED">> \in Seq(Indications)
        /\ << >> \o <<"ESTABLISHED", "PEER_CLOSED">> = <<"ESTABLISHED", "PEER_CLOSED">>
        /\ Append(<<"ESTABLISHED">>, "PEER_CLOSED") = <<"ESTABLISHED", "PEER_CLOSED">>
        /\ <<"ESTABLISHED">> \o <<"PEER_CLOSED">> = <<"ESTABLISHED", "PEER_CLOSED">>
        /\ <<"ESTABLISHED">> \o <<"CLOSED">> = <<"ESTABLISHED", "CLOSED">>
        /\ Append(<< >>, "PEER_CLOSED") = <<"PEER_CLOSED">>
        /\ Append(<< >>, "CLOSED") = <<"CLOSED">>
    <2>1. {"ESTABLISHED", "PEER_CLOSED", "CLOSED"} \subseteq Indications  BY DEF Indications
    <2>2. QED  BY <2>1, TwoTold
  <1>1. CASE c.state = "SYN_RCVD"
    <2>1. l = << >>  BY <1>1 DEF AppSide
    <2>2. to \in {"ESTABLISHED", "CLOSE_WAIT", "FIN_WAIT_1"}  BY <1>1 DEF Moves
    <2>3. CASE to = "CLOSE_WAIT"
      <3>1. i = <<"ESTABLISHED", "PEER_CLOSED">>  BY <1>0, <1>1, <2>3 DEF ToldBy
      <3> HIDE DEF i
      <3>2. l \o i = <<"ESTABLISHED", "PEER_CLOSED">>  BY <1>0, <2>1, <3>1
      <3> HIDE DEF k
      <3>3. AppSide(z, k, l \o i)  BY <2>3, <3>2 DEF AppSide
      <3>4. QED  BY <3>3 DEF k, i
    <2>4. CASE to # "CLOSE_WAIT"
      <3>1. i = <<"ESTABLISHED">>  BY <1>1, <2>2, <2>4 DEF ToldBy
      <3> HIDE DEF i
      <3>2. l \o i = <<"ESTABLISHED">>  BY <2>1, <3>1
      <3> HIDE DEF k
      <3>3. AppSide(z, k, l \o i)  BY <2>2, <2>4, <3>2 DEF AppSide
      <3>4. QED  BY <3>3 DEF k, i
    <2>5. QED  BY <2>3, <2>4
  <1>2. CASE c.state # "SYN_RCVD" /\ to = "CLOSE_WAIT" /\ to # c.state
    <2>1. c.state = "ESTABLISHED"  BY <1>2 DEF Moves
    <2>2. l = <<"ESTABLISHED">>  BY <2>1 DEF AppSide
    <2>3. i = <<"PEER_CLOSED">>  BY <1>0, <1>2 DEF ToldBy
    <2> HIDE DEF i
    <2>4. l \o i = <<"ESTABLISHED", "PEER_CLOSED">>  BY <1>0, <2>2, <2>3
    <2> HIDE DEF k
    <2>5. AppSide(z, k, l \o i)  BY <1>2, <2>4 DEF AppSide
    <2>6. QED  BY <2>5 DEF k, i
  <1>3. CASE to = "TIME_WAIT"
    <2>1. c.state \in {"FIN_WAIT_1", "FIN_WAIT_2", "CLOSING"}  BY <1>3 DEF Moves
    <2>2. l \in {<< >>, <<"ESTABLISHED">>}  BY <2>1 DEF AppSide
    <2>3. i = <<"CLOSED">>  BY <1>0, <1>3, <2>1 DEF ToldBy
    <2>4. k = "CLOSED"  BY <2>3 DEF SockState, Last
    <2> HIDE DEF i, k
    <2>5. l \o i \in {<<"CLOSED">>, <<"ESTABLISHED", "CLOSED">>}
      <3>1. CASE l = << >>
        <4>1. l \o i = <<"CLOSED">>  BY <2>3, <3>1
        <4>2. QED  BY <4>1
      <3>2. CASE l = <<"ESTABLISHED">>
        <4>1. l \o i = <<"ESTABLISHED", "CLOSED">>  BY <1>0, <2>3, <3>2
        <4>2. QED  BY <4>1
      <3>3. QED  BY <2>2, <3>1, <3>2
    <2>6. AppSide(z, k, l \o i)  BY <1>3, <2>4, <2>5 DEF AppSide
    <2>7. QED  BY <2>6 DEF k, i
  <1>4. CASE c.state # "SYN_RCVD" /\ (to \notin {"CLOSE_WAIT", "TIME_WAIT"} \/ to = c.state)
    <2>1. i = << >>  BY <1>4 DEF ToldBy
    <2> HIDE DEF i
    <2>2. l \in Seq(Indications)
      <3>1. c.state \in {"ESTABLISHED", "FIN_WAIT_1", "FIN_WAIT_2", "CLOSING", "CLOSE_WAIT",
                         "LAST_ACK"}
        BY <1>4 DEF Moves
      <3>2. l \in {<< >>, <<"ESTABLISHED">>, <<"ESTABLISHED", "PEER_CLOSED">>}
        BY <3>1 DEF AppSide
      <3>3. <<"ESTABLISHED">> \in Seq(Indications)  BY DEF Indications
      <3>4. <<"ESTABLISHED", "PEER_CLOSED">> \in Seq(Indications)  BY <1>0
      <3>5. << >> \in Seq(Indications)  OBVIOUS
      <3>6. QED  BY <3>2, <3>3, <3>4, <3>5, Zenon
    <2>3. l \o i = l  BY <2>1, <2>2
    <2> HIDE DEF k
    <2>4. AppSide(z, k, l)
      <3>1. to \notin {"INIT", "LISTEN", "SYN_SENT", "SYN_RCVD", "TIME_WAIT", "CLOSED"}
        BY <1>4 DEF Moves
      <3>2. \/ to = c.state
            \/ /\ c.state \in {"ESTABLISHED", "FIN_WAIT_1"}
               /\ to \in {"FIN_WAIT_1", "FIN_WAIT_2", "CLOSING"}
            \/ c.state = "CLOSE_WAIT" /\ to = "LAST_ACK"
        BY <1>4 DEF Moves
      <3>3. QED  BY <3>1, <3>2 DEF AppSide
    <2>5. QED  BY <2>3, <2>4 DEF k, i
  <1>5. QED  BY <1>1, <1>2, <1>3, <1>4

(* A segment that has been processed takes the connection to the state     *)
(* `to'.                                                                   *)
LEMMA Goes ==
    ASSUME NEW c, NEW n, NEW p, NEW m, NEW sk, NEW l, Sound(c, n, p, m, sk, l),
           c.state \in Connected \ {"TIME_WAIT"}, NEW x, Progress(c, x, n, p), Timed(x),
           NEW y, y = x \/ y = Event(x, "CLOSE"),
           NEW to \in Synchronized, <<c.state, to>> \in Moves, Target(y) = to,
           Receives(x, to, p, m), ("2MSL" \in x.timers) <=> (to = "TIME_WAIT"),
           to \in {"ESTABLISHED", "CLOSE_WAIT"} => x.iss < x.snd_una /\ FinWaits(x),
           to \in Finishing =>
              /\ x.snd_max = x.bufferEnd + 1
              /\ x.fin_ack_rcvd <=> to \in {"FIN_WAIT_2", "TIME_WAIT"}
    PROVE  OutcomeOf(c, n, y, n, p, m, sk, l)
  <1>1. /\ IsConn(c) /\ SendSide(c, n) /\ n \in Nat /\ AppSide(c, sk, l)
    BY DEF Sound, SendSide
  <1>2. /\ IsConn(x) /\ x.state = c.state /\ x.active = c.active /\ x.iss = c.iss
        /\ x.send_fin = c.send_fin /\ c.snd_max <= x.snd_max /\ c.rcv_nxt <= x.rcv_nxt
        /\ OutFits(x, n, p) /\ AckSide(x, p) /\ SendOrder(x, n)
        /\ c.state = "SYN_RCVD" => x.iss < x.snd_una
        /\ x.timers \cup {"REXMIT", "2MSL"} = c.timers \cup {"REXMIT", "2MSL"}
        /\ x.ind = IF c.state = "SYN_RCVD" THEN <<"ESTABLISHED">> ELSE << >>
    BY DEF Progress
  <1>3. IsConn(y) /\ Alike(x, y) /\ y.out = x.out /\ y.ind = x.ind
    <2>1. CASE y = x  BY <1>2, <2>1 DEF Alike, Carried
    <2>2. CASE y = Event(x, "CLOSE")  BY <1>2, <2>2, EventSet
    <2>3. QED  BY <2>1, <2>2
  <1>4. OutFits(y, n, p) /\ AckSide(y, p)  BY <1>2, <1>3, SameFits, AlikeIsGood
  <1>5. Sends(y, to, n)
    <2>1. x.iss < x.snd_max
      <3>1. c.iss \in Int /\ c.snd_max \in Int  BY <1>1 DEF IsConn
      <3>2. x.iss \in Int /\ x.snd_max \in Int /\ x.snd_una \in Int /\ x.snd_nxt \in Int
        BY <1>2 DEF IsConn
      <3>3. CASE c.state = "SYN_RCVD"  BY <1>2, <3>2, <3>3 DEF SendOrder
      <3>4. CASE c.state # "SYN_RCVD"
        <4>1. c.iss < c.snd_max  BY <1>1, <3>4 DEF SendSide, Connected
        <4>2. QED  BY <1>2, <3>1, <3>2, <4>1
      <3>5. QED  BY <3>3, <3>4
    <2>2. Sends(x, to, n)  BY <1>2, <2>1 DEF Sends
    <2>3. QED  BY <1>3, <2>2 DEF Sends, Alike, Carried, SendOrder, Timed, FinWaits
  <1>6. Receives(y, to, p, m)
    <2>1. SameReceived(x, y)  BY <1>3 DEF Alike, Carried, SameReceived
    <2>2. QED  BY <2>1, ReceivesSame
  <1>7. /\ y.timers \subseteq {"SYN", "ESTAB", "REXMIT", "2MSL"}
        /\ to \in {c.state, "TIME_WAIT"} => y.timers \subseteq {"REXMIT", "2MSL"}
    <2>1. c.state = "SYN_RCVD" => c.timers \subseteq {"SYN", "ESTAB"}
      BY <1>1 DEF SendSide, SynSent
    <2>2. c.state # "SYN_RCVD" => c.timers \subseteq {"REXMIT", "2MSL"}
      BY <1>1 DEF SendSide, Connected
    <2>3. to \in {c.state, "TIME_WAIT"} => c.state # "SYN_RCVD"
      BY DEF Moves, Synchronized
    <2>4. x.timers \subseteq c.timers \cup {"REXMIT", "2MSL"}  BY <1>2
    <2>5. QED  BY <1>3, <2>1, <2>2, <2>3, <2>4 DEF Alike
  <1>8. /\ y.state = c.state /\ y.active = c.active /\ y.iss = c.iss
        /\ y.send_fin = c.send_fin /\ c.snd_max <= y.snd_max /\ c.rcv_nxt <= y.rcv_nxt
    BY <1>2, <1>3 DEF Alike, Carried
  <1> DEFINE i == IF to = c.state THEN y.ind
                  ELSE IF to = "CLOSE_WAIT" THEN Append(y.ind, "PEER_CLOSED")
                  ELSE IF to = "TIME_WAIT" THEN Append(y.ind, "CLOSED")
                  ELSE y.ind
  <1>9. i = ToldBy(c, to)
    <2>1. y.ind = IF c.state = "SYN_RCVD" THEN <<"ESTABLISHED">> ELSE << >>  BY <1>2, <1>3
    <2>2. QED  BY <2>1 DEF ToldBy
  <1>10. \A z : z.state = to => AppSide(z, SockState(sk, i), l \o i)
    <2> HIDE DEF i
    <2>1. QED  BY <1>1, <1>9, ToldOnTheWay
  <1>11. QED
    BY <1>3, <1>4, <1>5, <1>6, <1>7, <1>8, <1>10, Proceeds

(* A CLOSE that has waited for the send queue is done once the FIN is out. *)
LEMMA CloseDeferred ==
    ASSUME NEW c, NEW n, NEW p, NEW m, NEW sk, NEW l, Sound(c, n, p, m, sk, l),
           c.state \in {"SYN_RCVD", "ESTABLISHED", "CLOSE_WAIT"}, NEW x, Progress(c, x, n, p)
    PROVE  LET y == DeferredClose(x, c.snd_nxt) IN
           /\ x.iss < x.snd_una
           /\ \/ y = x /\ FinWaits(x)
              \/ /\ y = Event(x, "CLOSE")
                 /\ x.snd_max = x.bufferEnd + 1 /\ ~x.fin_ack_rcvd
  <1>1. IsConn(c) /\ SendSide(c, n) /\ n \in Nat  BY DEF Sound, SendSide
  <1>2. SendOrder(c, n) /\ FinWaits(c)
    <2>1. c.state # "CLOSED"  OBVIOUS
    <2>2. QED  BY <1>1, <2>1 DEF SendSide
  <1>3. /\ IsConn(x) /\ x.state = c.state /\ x.iss = c.iss
        /\ x.bufferEnd = c.bufferEnd /\ x.send_fin = c.send_fin /\ x.snd_fin_seq = c.snd_fin_seq
        /\ SendOrder(x, n) /\ (c.state = "SYN_RCVD" => x.iss < x.snd_una)
        /\ c.snd_una <= x.snd_una /\ x.snd_una <= c.snd_max /\ (FinWaits(x) \/ FinNow(x))
    BY <1>2 DEF Progress
  <1>4. /\ c.iss \in Int /\ c.snd_una \in Int /\ c.snd_nxt \in Int /\ c.snd_max \in Int
        /\ c.bufferEnd \in Int
    BY <1>1 DEF IsConn
  <1>5. /\ x.iss \in Int /\ x.snd_una \in Int /\ x.snd_nxt \in Int /\ x.snd_max \in Int
        /\ x.fin_ack_rcvd \in BOOLEAN
    BY <1>3 DEF IsConn
  <1>6. x.iss < x.snd_una
    <2>1. c.state # "SYN_RCVD" => c.iss < c.snd_una  BY <1>1 DEF SendSide
    <2>2. QED  BY <1>3, <1>4, <1>5, <2>1
  <1>7. ASSUME FinWaits(x) PROVE DeferredClose(x, c.snd_nxt) = x
    <2>1. ~(x.send_fin /\ x.snd_nxt = x.snd_fin_seq + 1)
      BY <1>3, <1>4, <1>5, <1>7 DEF FinWaits, SendOrder
    <2>2. QED  BY <2>1 DEF DeferredClose
  <1>8. ASSUME FinNow(x)
        PROVE  DeferredClose(x, c.snd_nxt) = Event(x, "CLOSE") /\ ~x.fin_ack_rcvd
    <2>1. x.send_fin /\ x.snd_nxt = x.snd_fin_seq + 1
      BY <1>3, <1>8 DEF FinNow, SendOrder
    <2>2. c.snd_nxt # x.snd_nxt /\ x.snd_una # x.bufferEnd + 1
      BY <1>2, <1>3, <1>4, <1>5, <1>8 DEF FinNow, FinWaits, SendOrder
    <2>3. ~x.fin_ack_rcvd  BY <1>3, <2>2 DEF SendOrder
    <2>4. QED  BY <1>3, <2>1, <2>2, <2>3 DEF DeferredClose
  <1>9. QED  BY <1>3, <1>6, <1>7, <1>8 DEF FinNow

(* The end of the segment in these states.                                 *)
LEMMA ConcludesEarly ==
    ASSUME NEW c, NEW n, NEW p, NEW m, NEW sk, NEW l, Sound(c, n, p, m, sk, l),
           c.state \in {"SYN_RCVD", "ESTABLISHED", "CLOSE_WAIT"}, NEW x,
           Unfinished(c, x, n, p, m) \/ Finished(c, x, n, p, m)
    PROVE  OutcomeOf(c, n, DeferredClose(x, c.snd_nxt), n, p, m, sk, l)
  <1> DEFINE y == DeferredClose(x, c.snd_nxt)
  <1>1. Progress(c, x, n, p) /\ Timed(x)  BY DEF Unfinished, Finished
  <1>2. /\ x.iss < x.snd_una
        /\ \/ y = x /\ FinWaits(x)
           \/ y = Event(x, "CLOSE") /\ x.snd_max = x.bufferEnd + 1 /\ ~x.fin_ack_rcvd
    BY <1>1, CloseDeferred
  <1> HIDE DEF y
  <1>3. "2MSL" \notin x.timers  BY DEF Unfinished, Finished
  <1>4. c.state \in Connected \ {"TIME_WAIT"}  BY DEF Connected, Synchronized
  <1>5. x.state = c.state /\ IsConn(x)  BY <1>1 DEF Progress
  <1>6. CASE y = Event(x, "CLOSE") /\ x.snd_max = x.bufferEnd + 1 /\ ~x.fin_ack_rcvd
    <2> DEFINE to == IF c.state = "CLOSE_WAIT" THEN "LAST_ACK" ELSE "FIN_WAIT_1"
    <2>1. to \in Synchronized /\ to \in {"LAST_ACK", "FIN_WAIT_1"}  BY DEF Synchronized
    <2>2. <<c.state, to>> \in Moves  BY DEF Moves
    <2>3. <<c.state, "CLOSE", to>> \in FSM  BY DEF FSM
    <2>4. y.state = c.state /\ y.event = "CLOSE"  BY <1>5, <1>6, EventSet DEF Alike
    <2>5. Target(y) = to
      <3> HIDE DEF to
      <3>1. QED  BY <2>3, <2>4, RowTaken
    <2>6. Receives(x, to, p, m)
      <3>1. CASE Unfinished(c, x, n, p, m)
        <4>1. Receives(x, c.state, p, m)  BY <3>1 DEF Unfinished
        <4>2. to \in AfterFin => c.state \in AfterFin  BY DEF AfterFin
        <4>3. to \notin {"SYN_RCVD", "ESTABLISHED"}  OBVIOUS
        <4> HIDE DEF to
        <4>4. QED  BY <4>1, <4>2, <4>3, ReceivesOn
      <3>2. CASE Finished(c, x, n, p, m)
        <4>1. Receives(x, "CLOSE_WAIT", p, m)  BY <3>2 DEF Finished
        <4>2. "CLOSE_WAIT" \in AfterFin /\ to \notin {"SYN_RCVD", "ESTABLISHED"}  BY DEF AfterFin
        <4> HIDE DEF to
        <4>3. QED  BY <4>1, <4>2, ReceivesOn
      <3>3. QED  BY <3>1, <3>2
    <2> HIDE DEF to
    <2>7. OutcomeOf(c, n, y, n, p, m, sk, l)
      BY <1>1, <1>3, <1>4, <1>6, <2>1, <2>2, <2>5, <2>6, Goes
    <2>8. QED  BY <2>7 DEF y
  <1>7. CASE y = x /\ FinWaits(x)
    <2> DEFINE to == IF Finished(c, x, n, p, m) THEN "CLOSE_WAIT"
                     ELSE IF c.state = "SYN_RCVD" THEN "ESTABLISHED" ELSE c.state
    <2>1. to \in Synchronized /\ to \in {"ESTABLISHED", "CLOSE_WAIT"}  BY DEF Synchronized
    <2>2. <<c.state, to>> \in Moves /\ Target(x) = to /\ Receives(x, to, p, m)
      <3>1. CASE Finished(c, x, n, p, m)
        <4>1. to = "CLOSE_WAIT"  BY <3>1
        <4>2. c.state \in {"SYN_RCVD", "ESTABLISHED"} /\ x.event = "RCV_FIN"
              /\ Receives(x, "CLOSE_WAIT", p, m)
          BY <3>1 DEF Finished, Open
        <4>3. <<c.state, "RCV_FIN", "CLOSE_WAIT">> \in FSM  BY <4>2 DEF FSM
        <4>4. Target(x) = "CLOSE_WAIT"  BY <1>5, <4>2, <4>3, RowTaken
        <4>5. <<c.state, "CLOSE_WAIT">> \in Moves  BY <4>2 DEF Moves
        <4> HIDE DEF to
        <4>6. QED  BY <4>1, <4>2, <4>4, <4>5
      <3>2. CASE ~Finished(c, x, n, p, m) /\ c.state = "SYN_RCVD"
        <4>1. to = "ESTABLISHED"  BY <3>2
        <4>2. x.event = "RCV_ACK" /\ Receives(x, c.state, p, m)
          BY <3>2 DEF Unfinished, StateEvent
        <4>3. <<c.state, "RCV_ACK", "ESTABLISHED">> \in FSM  BY <3>2 DEF FSM
        <4>4. Target(x) = "ESTABLISHED"  BY <1>5, <4>2, <4>3, RowTaken
        <4>5. <<c.state, "ESTABLISHED">> \in Moves  BY <3>2 DEF Moves
        <4>6. Receives(x, "ESTABLISHED", p, m)  BY <3>2, <4>2, ReceivesOn DEF AfterFin
        <4> HIDE DEF to
        <4>7. QED  BY <4>1, <4>4, <4>5, <4>6
      <3>3. CASE ~Finished(c, x, n, p, m) /\ c.state # "SYN_RCVD"
        <4>1. to = c.state  BY <3>3
        <4>2. x.event = "IGNORE" /\ Receives(x, c.state, p, m)
          BY <3>3 DEF Unfinished, StateEvent
        <4>3. Target(x) = c.state  BY <1>5, <4>2, NothingHappens
        <4>4. <<c.state, c.state>> \in Moves  BY <3>3 DEF Moves
        <4> HIDE DEF to
        <4>5. QED  BY <4>1, <4>2, <4>3, <4>4
      <3>4. QED  BY <3>1, <3>2, <3>3
    <2> HIDE DEF to
    <2>3. to \notin Finishing  BY <2>1 DEF Finishing
    <2>4. OutcomeOf(c, n, x, n, p, m, sk, l)
      BY <1>1, <1>2, <1>3, <1>4, <1>7, <2>1, <2>2, <2>3, Goes
    <2>5. QED  BY <1>7, <2>4 DEF y
  <1>8. QED  BY <1>2, <1>6, <1>7

(* The end of the segment when the FIN of c is out.                        *)
LEMMA ConcludesLate ==
    ASSUME NEW c, NEW n, NEW p, NEW m, NEW sk, NEW l, Sound(c, n, p, m, sk, l),
           c.state \in {"FIN_WAIT_1", "FIN_WAIT_2", "CLOSING", "LAST_ACK"}, NEW x,
           Unfinished(c, x, n, p, m) \/ Finished(c, x, n, p, m),
           c.state = "LAST_ACK" => ~x.fin_ack_rcvd
    PROVE  OutcomeOf(c, n, DeferredClose(x, c.snd_nxt), n, p, m, sk, l)
  <1>1. Progress(c, x, n, p) /\ Timed(x)  BY DEF Unfinished, Finished
  <1>2. /\ IsConn(x) /\ x.state = c.state /\ SendOrder(x, n) /\ x.bufferEnd = c.bufferEnd
        /\ c.snd_una <= x.snd_una /\ c.snd_max <= x.snd_max
    BY <1>1 DEF Progress
  <1>3. DeferredClose(x, c.snd_nxt) = x  BY <1>2 DEF DeferredClose
  <1>4. IsConn(c) /\ SendSide(c, n) /\ c.state \in Connected \ {"TIME_WAIT"}
    BY DEF Sound, Connected, Synchronized
  <1>5. c.snd_max = c.bufferEnd + 1 /\ (c.fin_ack_rcvd <=> c.state = "FIN_WAIT_2")
    BY <1>4 DEF SendSide, Finishing
  <1>6. /\ c.snd_una \in Int /\ c.snd_max \in Int /\ c.bufferEnd \in Int
        /\ x.snd_una \in Int /\ x.snd_nxt \in Int /\ x.snd_max \in Int
    BY <1>2, <1>4 DEF IsConn
  <1>7. x.snd_max = x.bufferEnd + 1  BY <1>2, <1>5, <1>6 DEF SendOrder
  <1>8. c.state = "FIN_WAIT_2" => x.fin_ack_rcvd
    <2>1. c.state = "FIN_WAIT_2" => c.snd_una = c.bufferEnd + 1
      BY <1>4, <1>5 DEF SendSide, SendOrder
    <2>2. QED  BY <1>2, <1>6, <1>7, <2>1 DEF SendOrder
  <1> DEFINE fin == Finished(c, x, n, p, m)
  <1>9. ASSUME NEW t \in Finishing, <<c.state, t>> \in Moves,
               \/ x.event = "IGNORE" /\ t = c.state
               \/ <<c.state, x.event, t>> \in FSM,
               Receives(x, t, p, m), ("2MSL" \in x.timers) <=> (t = "TIME_WAIT"),
               x.fin_ack_rcvd <=> t \in {"FIN_WAIT_2", "TIME_WAIT"}
        PROVE  OutcomeOf(c, n, x, n, p, m, sk, l)
    <2>1. t \in Synchronized /\ t \notin {"ESTABLISHED", "CLOSE_WAIT"}
      BY <1>9 DEF Finishing, Synchronized
    <2>2. Target(x) = t
      <3>1. CASE x.event = "IGNORE" /\ t = c.state  BY <1>2, <3>1, NothingHappens
      <3>2. CASE <<c.state, x.event, t>> \in FSM
        <4>1. <<x.state, x.event, t>> \in FSM /\ x.state # "SYN_RCVD"  BY <1>2, <3>2
        <4>2. QED  BY <4>1, RowTaken
      <3>3. QED  BY <1>9, <3>1, <3>2
    <2>3. QED  BY <1>1, <1>4, <1>7, <1>9, <2>1, <2>2, Goes
  <1>10. CASE fin /\ (c.state = "FIN_WAIT_2" \/ (c.state = "FIN_WAIT_1" /\ x.fin_ack_rcvd))
    <2>1. /\ Receives(x, "CLOSE_WAIT", p, m) /\ "2MSL" \in x.timers /\ x.fin_ack_rcvd
          /\ x.event = IF c.state = "FIN_WAIT_1" THEN "RCV_FIN_ACK" ELSE "RCV_FIN"
      BY <1>8, <1>10 DEF Finished
    <2>2. Receives(x, "TIME_WAIT", p, m)  BY <2>1, ReceivesOn DEF AfterFin
    <2>3. <<c.state, x.event, "TIME_WAIT">> \in FSM /\ <<c.state, "TIME_WAIT">> \in Moves
      BY <1>10, <2>1 DEF FSM, Moves
    <2>4. OutcomeOf(c, n, x, n, p, m, sk, l)  BY <1>9, <2>1, <2>2, <2>3 DEF Finishing
    <2>5. QED  BY <1>3, <2>4
  <1>11. CASE fin /\ c.state = "FIN_WAIT_1" /\ ~x.fin_ack_rcvd
    <2>1. Receives(x, "CLOSE_WAIT", p, m) /\ "2MSL" \notin x.timers /\ x.event = "RCV_FIN"
      BY <1>11 DEF Finished
    <2>2. Receives(x, "CLOSING", p, m)  BY <2>1, ReceivesOn DEF AfterFin
    <2>3. <<c.state, x.event, "CLOSING">> \in FSM /\ <<c.state, "CLOSING">> \in Moves
      BY <1>11, <2>1 DEF FSM, Moves
    <2>4. OutcomeOf(c, n, x, n, p, m, sk, l)  BY <1>9, <1>11, <2>1, <2>2, <2>3 DEF Finishing
    <2>5. QED  BY <1>3, <2>4
  <1>12. CASE ~fin /\ c.state \in {"FIN_WAIT_1", "CLOSING"} /\ x.fin_ack_rcvd
    <2> DEFINE t == IF c.state = "FIN_WAIT_1" THEN "FIN_WAIT_2" ELSE "TIME_WAIT"
    <2>1. /\ Receives(x, c.state, p, m) /\ x.event = "RCV_ACK"
          /\ ("2MSL" \in x.timers) <=> (t = "TIME_WAIT")
      BY <1>12 DEF Unfinished, StateEvent
    <2>2. Receives(x, t, p, m)  BY <1>12, <2>1, ReceivesOn DEF AfterFin
    <2>3. <<c.state, x.event, t>> \in FSM /\ <<c.state, t>> \in Moves
      BY <1>12, <2>1 DEF FSM, Moves
    <2>4. t \in Finishing /\ t \in {"FIN_WAIT_2", "TIME_WAIT"}  BY DEF Finishing
    <2> HIDE DEF t
    <2>5. OutcomeOf(c, n, x, n, p, m, sk, l)  BY <1>9, <1>12, <2>1, <2>2, <2>3, <2>4
    <2>6. QED  BY <1>3, <2>5
  <1>13. CASE ~fin /\ ~(c.state \in {"FIN_WAIT_1", "CLOSING"} /\ x.fin_ack_rcvd)
    <2>1. /\ Receives(x, c.state, p, m) /\ x.event = "IGNORE" /\ "2MSL" \notin x.timers
      BY <1>13 DEF Unfinished, StateEvent
    <2>2. <<c.state, c.state>> \in Moves /\ c.state \in Finishing  BY DEF Moves, Finishing
    <2>3. x.fin_ack_rcvd <=> c.state \in {"FIN_WAIT_2", "TIME_WAIT"}  BY <1>8, <1>13
    <2>4. OutcomeOf(c, n, x, n, p, m, sk, l)  BY <1>9, <2>1, <2>2, <2>3
    <2>5. QED  BY <1>3, <2>4
  <1>14. fin => c.state \in {"FIN_WAIT_1", "FIN_WAIT_2"}  BY DEF Finished, Open
  <1>15. QED  BY <1>10, <1>11, <1>12, <1>13, <1>14

(* The end of every segment that gets as far as its ACK.                   *)
LEMMA Concludes ==
    ASSUME NEW c, NEW n, NEW p, NEW m, NEW sk, NEW l, Sound(c, n, p, m, sk, l),
           c.state \in Connected \ {"TIME_WAIT"}, NEW x,
           Unfinished(c, x, n, p, m) \/ Finished(c, x, n, p, m),
           c.state = "LAST_ACK" => ~x.fin_ack_rcvd
    PROVE  OutcomeOf(c, n, DeferredClose(x, c.snd_nxt), n, p, m, sk, l)
  <1>1. CASE c.state \in {"SYN_RCVD", "ESTABLISHED", "CLOSE_WAIT"}  BY <1>1, ConcludesEarly
  <1>2. CASE c.state \in {"FIN_WAIT_1", "FIN_WAIT_2", "CLOSING", "LAST_ACK"}
    BY <1>2, ConcludesLate
  <1>3. QED  BY <1>1, <1>2 DEF Connected, Synchronized

(* The ACK of the FIN in LAST_ACK.                                         *)
LEMMA LastAckWell ==
    ASSUME NEW c, NEW n, NEW p, NEW m, NEW sk, NEW l, Sound(c, n, p, m, sk, l),
           c.state = "LAST_ACK", NEW b, Progress(c, b, n, p), SameReceived(c, b)
    PROVE  OutcomeOf(c, n, Event(b, "RCV_ACK"), n, p, m, sk, l)
  <1> DEFINE x == Event(b, "RCV_ACK")
  <1>1. IsConn(b) /\ b.state = c.state /\ b.iss = c.iss /\ OutFits(b, n, p) /\ b.ind = << >>
    BY DEF Progress
  <1>2. /\ IsConn(x) /\ Alike(b, x) /\ x.event = "RCV_ACK" /\ x.ind = b.ind
        /\ OutFits(x, n, p)
    BY <1>1, EventSet
  <1>3. x.state = c.state /\ x.iss = c.iss /\ x.got = c.got
    BY <1>1, <1>2 DEF Alike, Carried, SameReceived
  <1> HIDE DEF x
  <1>4. <<x.state, x.event, "CLOSED">> \in FSM /\ x.state # "SYN_RCVD"  BY <1>2, <1>3 DEF FSM
  <1>5. Target(x) = "CLOSED"  BY <1>4, RowTaken
  <1>6. x.state \notin {"CLOSED", "TIME_WAIT"} /\ x.event # "ABORT" /\ x.ind = << >>
    BY <1>1, <1>2, <1>3
  <1>7. OutcomeOf(c, n, x, n, p, m, sk, l)
    BY <1>2, <1>3, <1>5, <1>6, ClosesTelling
  <1>8. QED  BY <1>7 DEF x

(* The steps from the ACK field on.                                        *)
LEMMA ProcessFrom5thWell ==
    ASSUME NEW c, NEW n, NEW p, NEW m, NEW sk, NEW l, Sound(c, n, p, m, sk, l),
           c.state \in Connected, NEW s, GoodSegment(s, p, m, c), IsSegmentAcceptable(c, s),
           "RST" \notin s.flags, "SYN" \notin s.flags,
           ~(c.state = "SYN_RCVD" /\ (s.ack < c.snd_una \/ s.ack > c.snd_nxt)), NEW idle
    PROVE  OutcomeOf(c, n, ProcessFrom5th(c, s, idle), n, p, m, sk, l)
  <1> DEFINE a == Begun(c)
             b == IF c.state = "TIME_WAIT" THEN a ELSE ProcessAckInEstabEtc(a, s, idle)
             d == ProcessAckByState(b)
             text == s.data # None
                     /\ c.state \in {"SYN_RCVD", "ESTABLISHED", "FIN_WAIT_1", "FIN_WAIT_2"}
             e == IF text THEN ProcessText(d, s, c.snd_una, idle) ELSE d
             f == IF "FIN" \in s.flags THEN ProcessFin(e, s) ELSE e
             x == ProcessFrom5th(c, s, idle)
  <1>1. x = IF c.state # "TIME_WAIT" /\ s.ack > c.snd_max THEN DupAcks(SendAck(c), 0)
            ELSE IF c.state = "LAST_ACK" /\ c.send_fin /\ s.ack = c.snd_fin_seq + 1
            THEN Event(b, "RCV_ACK")
            ELSE DeferredClose(f, c.snd_nxt)
    BY DEF ProcessFrom5th, Begun
  <1> HIDE DEF x, a
  <1>2. IsConn(c) /\ AtRest(c) /\ SendSide(c, n) /\ n \in Nat  BY DEF Sound, SendSide
  <1>3. s.flags \in {{"ACK"}, {"FIN", "ACK"}} /\ s.ack \in Int
    BY DEF GoodSegment, IsSegment, Kinds
  <1>4. c.state \in AfterFin => s.data = None /\ (c.state = "TIME_WAIT" => "FIN" \notin s.flags)
    BY NothingAfterFin
  <1>5. CASE c.state = "TIME_WAIT"
    <2>1. a = c  BY <1>5 DEF a, Begun
    <2>2. b = c  BY <1>5, <2>1
    <2> HIDE DEF b
    <2>3. d = Start(SendAck(c), "2MSL")  BY <1>5, <2>2 DEF ProcessAckByState
    <2>4. d.state = "TIME_WAIT"
      BY <1>2, <1>5, <2>3 DEF Start, SendAck, Send, IsConn, Fields
    <2> HIDE DEF d
    <2>5. e = d /\ "FIN" \notin s.flags
      <3>1. c.state \in AfterFin  BY <1>5 DEF AfterFin
      <3>2. QED  BY <1>4, <1>5, <3>1
    <2> HIDE DEF e
    <2>6. f = d  BY <2>5
    <2> HIDE DEF f
    <2>7. x = d  BY <1>1, <1>5, <2>4, <2>6 DEF DeferredClose
    <2>8. OutcomeOf(c, n, x, n, p, m, sk, l)  BY <1>5, <2>3, <2>7, InTimeWaitWell
    <2>9. QED  BY <2>8 DEF x
  <1>6. CASE c.state # "TIME_WAIT" /\ s.ack > c.snd_max
    <2> HIDE DEF b, f
    <2>1. x = DupAcks(SendAck(c), 0)  BY <1>1, <1>6
    <2>2. QED  BY <2>1, OnlyAck DEF x
  <1>7. CASE c.state # "TIME_WAIT" /\ ~(s.ack > c.snd_max)
    <2>1. c.state \in Connected \ {"TIME_WAIT"}  BY <1>7
    <2>2. c.snd_una \in Int /\ c.snd_max \in Int /\ c.bufferEnd \in Int /\ c.snd_fin_seq \in Int
      BY <1>2 DEF IsConn
    <2>3. Acks(c, s)
      <3>1. s.data # None => c.state \notin AfterFin  BY <1>4
      <3>2. s.data # None => c.state \in {"SYN_RCVD", "ESTABLISHED", "FIN_WAIT_1", "FIN_WAIT_2"}
        BY <2>1, <3>1 DEF AfterFin, Connected, Synchronized
      <3>3. s.ack <= c.snd_max  BY <1>3, <1>7, <2>2
      <3>4. c.state = "SYN_RCVD" => c.snd_una <= s.ack  BY <1>3, <2>2
      <3>5. QED  BY <1>3, <3>2, <3>3, <3>4 DEF Acks
    <2>4. AckDone(c, b, s, n, p)
      <3>1. b = ProcessAckInEstabEtc(Begun(c), s, idle)  BY <1>7 DEF a
      <3> HIDE DEF b
      <3>2. QED  BY <2>1, <2>3, <3>1, AckProcessed
    <2> HIDE DEF b
    <2>5. Ready(c, d, s, n, p)  BY <2>1, <2>4, ByStateDone
    <2> HIDE DEF d
    <2>6. Unfinished(c, e, n, p, m) \/ Finished(c, e, n, p, m)
      <3>1. CASE s.data # None
        <4>1. c.state \in Open /\ text  BY <2>3, <3>1 DEF Acks, Open
        <4>2. e = ProcessText(d, s, c.snd_una, idle)  BY <4>1
        <4> HIDE DEF e
        <4>3. QED  BY <2>5, <3>1, <4>1, <4>2, TextProcessed
      <3>2. CASE s.data = None
        <4>1. e = d  BY <3>2
        <4> HIDE DEF e
        <4>2. Unfinished(c, d, n, p, m)  BY <2>5, <3>2, NoText
        <4>3. QED  BY <4>1, <4>2
      <3>3. QED  BY <3>1, <3>2
    <2>7. c.state \in AfterFin => e = d  BY <1>4
    <2> HIDE DEF e
    <2>8. /\ Unfinished(c, f, n, p, m) \/ Finished(c, f, n, p, m)
          /\ c.state \in AfterFin => f.fin_ack_rcvd = e.fin_ack_rcvd
      <3>1. CASE "FIN" \in s.flags
        <4>1. f = ProcessFin(e, s)  BY <3>1
        <4> HIDE DEF f
        <4>2. QED  BY <2>1, <2>6, <3>1, <4>1, FinProcessed
      <3>2. CASE "FIN" \notin s.flags  BY <2>6, <3>2
      <3>3. QED  BY <3>1, <3>2
    <2> HIDE DEF f
    <2>9. CASE c.state = "LAST_ACK" /\ c.send_fin /\ s.ack = c.snd_fin_seq + 1
      <3>1. x = Event(b, "RCV_ACK")  BY <1>1, <1>7, <2>9
      <3>2. Progress(c, b, n, p) /\ SameReceived(c, b)  BY <2>4 DEF AckDone
      <3>3. OutcomeOf(c, n, x, n, p, m, sk, l)  BY <2>9, <3>1, <3>2, LastAckWell
      <3>4. QED  BY <3>3 DEF x
    <2>10. CASE ~(c.state = "LAST_ACK" /\ c.send_fin /\ s.ack = c.snd_fin_seq + 1)
      <3>1. x = DeferredClose(f, c.snd_nxt)  BY <1>1, <1>7, <2>10
      <3>2. ASSUME c.state = "LAST_ACK" PROVE ~f.fin_ack_rcvd
        <4>1. c.state \in AfterFin  BY <3>2 DEF AfterFin
        <4>2. f.fin_ack_rcvd = d.fin_ack_rcvd  BY <2>7, <2>8, <4>1
        <4>3. /\ SendOrder(d, n) /\ d.bufferEnd = c.bufferEnd /\ d.snd_una \in {c.snd_una, s.ack}
          BY <2>5 DEF Ready, Progress
        <4>4. SendOrder(c, n) /\ ~c.fin_ack_rcvd /\ c.snd_max = c.bufferEnd + 1
          BY <1>2, <3>2 DEF SendSide, Finishing
        <4>5. c.snd_una # c.bufferEnd + 1 /\ c.send_fin /\ c.snd_fin_seq = c.bufferEnd
          BY <4>4 DEF SendOrder
        <4>6. s.ack # c.bufferEnd + 1  BY <2>10, <3>2, <4>5
        <4>7. QED  BY <4>2, <4>3, <4>5, <4>6 DEF SendOrder
      <3>3. OutcomeOf(c, n, x, n, p, m, sk, l)  BY <2>1, <2>8, <3>1, <3>2, Concludes
      <3>4. QED  BY <3>3 DEF x
    <2>11. QED  BY <2>9, <2>10
  <1>8. QED  BY <1>5, <1>6, <1>7

(* processSegment1stThru8th(), in a state with a synchronized peer.        *)
LEMMA Process1stThru8thWell ==
    ASSUME NEW c, NEW n, NEW p, NEW m, NEW sk, NEW l, Sound(c, n, p, m, sk, l),
           c.state \in Connected, NEW s, GoodSegment(s, p, m, c), NEW idle
    PROVE  OutcomeOf(c, n, Process1stThru8th(c, s, idle), n, p, m, sk, l)
  <1> DEFINE x == Process1stThru8th(c, s, idle)
  <1>1. c.state # "CLOSED"  BY DEF Connected, Synchronized
  <1>2. CASE ~IsSegmentAcceptable(c, s)
    <2>1. CASE "RST" \in s.flags
      <3>1. x = c  BY <1>2, <2>1 DEF Process1stThru8th
      <3>2. OutcomeOf(c, n, c, n, p, m, sk, l)  BY <1>1, NothingDone
      <3> HIDE DEF x
      <3>3. OutcomeOf(c, n, x, n, p, m, sk, l)  BY <3>1, <3>2
      <3>4. QED  BY <3>3 DEF x
    <2>2. CASE "RST" \notin s.flags
      <3>1. x = SendAck(c)  BY <1>2, <2>2 DEF Process1stThru8th
      <3>2. OutcomeOf(c, n, SendAck(c), n, p, m, sk, l)  BY OnlyAck
      <3> HIDE DEF x
      <3>3. OutcomeOf(c, n, x, n, p, m, sk, l)  BY <3>1, <3>2
      <3>4. QED  BY <3>3 DEF x
    <2>3. QED  BY <2>1, <2>2
  <1>3. CASE IsSegmentAcceptable(c, s) /\ "RST" \in s.flags
    <2>1. x = ProcessRst(c)  BY <1>3 DEF Process1stThru8th
    <2>2. OutcomeOf(c, n, ProcessRst(c), n, p, m, sk, l)  BY ProcessRstWell
    <2> HIDE DEF x
    <2>3. OutcomeOf(c, n, x, n, p, m, sk, l)  BY <2>1, <2>2
    <2>4. QED  BY <2>3 DEF x
  <1>4. CASE IsSegmentAcceptable(c, s) /\ "RST" \notin s.flags /\ "SYN" \in s.flags
    <2> DEFINE y == Event(Indicate(c, "CONNECTION_RESET"), "RCV_UNEXP_SYN")
    <2>1. x = y  BY <1>4 DEF Process1stThru8th
    <2>2. c.state # "TIME_WAIT"
      <3>1. c.state = "TIME_WAIT" => c.state \in AfterFin  BY DEF AfterFin
      <3>2. QED  BY <1>4, <3>1, NothingAfterFin
    <2>3. OutcomeOf(c, n, y, n, p, m, sk, l)  BY <2>2, UnexpectedSynWell
    <2> HIDE DEF x, y
    <2>4. OutcomeOf(c, n, x, n, p, m, sk, l)  BY <2>1, <2>3
    <2>5. QED  BY <2>4 DEF x
  <1>5. CASE IsSegmentAcceptable(c, s) /\ "RST" \notin s.flags /\ "SYN" \notin s.flags
    <2>1. CASE c.state = "SYN_RCVD" /\ (s.ack < c.snd_una \/ s.ack > c.snd_nxt)
      <3> DEFINE t == Segment({"RST"}, s.ack, None, None)
                 y == Send(c, t)
      <3>1. x = y  BY <1>5, <2>1 DEF Process1stThru8th, SendRst
      <3>2. IsSegment(t) /\ t.flags = {"RST"} /\ t.data = None
        <4>1. {"RST"} \in Kinds /\ None \in Int /\ s.ack \in Int
          BY DEF Kinds, None, GoodSegment, IsSegment
        <4>2. QED  BY <4>1, SegmentTyped
      <3> HIDE DEF t, x
      <3>3. OutcomeOf(c, n, y, n, p, m, sk, l)  BY <1>1, <3>2, OnlyRst
      <3> HIDE DEF y
      <3>4. OutcomeOf(c, n, x, n, p, m, sk, l)  BY <3>1, <3>3
      <3>5. QED  BY <3>4 DEF x
    <2>2. CASE ~(c.state = "SYN_RCVD" /\ (s.ack < c.snd_una \/ s.ack > c.snd_nxt))
      <3>1. x = ProcessFrom5th(c, s, idle)  BY <1>5, <2>2 DEF Process1stThru8th
      <3>2. OutcomeOf(c, n, ProcessFrom5th(c, s, idle), n, p, m, sk, l)
        BY <1>5, <2>2, ProcessFrom5thWell
      <3> HIDE DEF x
      <3>3. OutcomeOf(c, n, x, n, p, m, sk, l)  BY <3>1, <3>2
      <3>4. QED  BY <3>3 DEF x
    <2>3. QED  BY <2>1, <2>2
  <1>6. QED  BY <1>2, <1>3, <1>4, <1>5

(* process_RCV_SEGMENT().                                                  *)
LEMMA ProcessSegmentWell ==
    ASSUME NEW c, NEW n, NEW p, NEW m, NEW sk, NEW l, Sound(c, n, p, m, sk, l),
           c.state \notin {"INIT", "CLOSED"}, NEW s, GoodSegment(s, p, m, c), NEW idle
    PROVE  OutcomeOf(c, n, ProcessSegment(c, s, idle), n, p, m, sk, l)
  <1> DEFINE x == ProcessSegment(c, s, idle)
  <1>1. c.state \in States  BY DEF Sound, IsConn
  <1>2. CASE c.state = "LISTEN"
    <2>1. x = InListen(c, s)  BY <1>2 DEF ProcessSegment
    <2>2. OutcomeOf(c, n, InListen(c, s), n, p, m, sk, l)  BY <1>2, InListenWell
    <2> HIDE DEF x
    <2>3. OutcomeOf(c, n, x, n, p, m, sk, l)  BY <2>1, <2>2
    <2>4. QED  BY <2>3 DEF x
  <1>3. CASE c.state = "SYN_SENT"
    <2>1. x = InSynSent(c, s, idle)  BY <1>3 DEF ProcessSegment
    <2>2. OutcomeOf(c, n, InSynSent(c, s, idle), n, p, m, sk, l)  BY <1>3, InSynSentWell
    <2> HIDE DEF x
    <2>3. OutcomeOf(c, n, x, n, p, m, sk, l)  BY <2>1, <2>2
    <2>4. QED  BY <2>3 DEF x
  <1>4. CASE c.state \notin {"LISTEN", "SYN_SENT"}
    <2>1. c.state \in Connected  BY <1>1, <1>4 DEF States, Connected
    <2>2. x = Process1stThru8th(c, s, idle)  BY <1>4 DEF ProcessSegment
    <2>3. OutcomeOf(c, n, Process1stThru8th(c, s, idle), n, p, m, sk, l)
      BY <2>1, Process1stThru8thWell
    <2> HIDE DEF x
    <2>4. OutcomeOf(c, n, x, n, p, m, sk, l)  BY <2>2, <2>3
    <2>5. QED  BY <2>4 DEF x
  <1>5. QED  BY <1>2, <1>3, <1>4

-----------------------------------------------------------------------------
(* The initial states, and the steps of the network.                       *)

(* The CHOOSE of FirstISS has something to choose.                         *)
LEMMA FirstISSTyped == ASSUME NEW h \in Hosts PROVE FirstISS[h] \in Nat
  <1> DEFINE Apart(f) == \A g \in Hosts : f[g] # f[Peer(g)]
             f0 == [g \in Hosts |-> IF g = h THEN 0 ELSE 5]
  <1>1. f0 \in [Hosts -> {0, 5}]  OBVIOUS
  <1>2. Apart(f0)
    <2>1. ASSUME NEW g \in Hosts PROVE f0[g] # f0[Peer(g)]
      <3>1. Peer(g) \in Hosts /\ Peer(g) # g /\ Peer(Peer(g)) = g /\ (h = g \/ h = Peer(g))
        BY TwoHosts
      <3>2. CASE g = h  BY <3>1, <3>2
      <3>3. CASE g # h  BY <3>1, <3>3
      <3>4. QED  BY <3>2, <3>3
    <2>2. QED  BY <2>1
  <1> HIDE DEF Apart, f0
  <1>3. \E f \in [Hosts -> {0, 5}] : Apart(f)  BY <1>1, <1>2
  <1>4. FirstISS = CHOOSE f \in [Hosts -> {0, 5}] : Apart(f)  BY DEF FirstISS, Apart
  <1>5. FirstISS \in [Hosts -> {0, 5}]  BY <1>3, <1>4
  <1>6. QED  BY <1>5

(* A connection in INIT that has never been opened.                        *)
LEMMA InitSound ==
    ASSUME NEW i \in Nat, NEW p
    PROVE  LET c == InitConnection(i) IN
           /\ IsConn(c) /\ AtRest(c) /\ SendSide(c, 0) /\ AppSide(c, "BOUND", << >>)
           /\ GotSide(c, 0) /\ ReceiveSide(c, p, 0) /\ AckSide(c, p)
  <1> DEFINE c == InitConnection(i)
  <1>1. IsConn(c)
    <2>1. << >> \in Seq(Int) /\ << >> \in Seq(Indications)  OBVIOUS
    <2>2. "INIT" \in States  BY DEF States
    <2>3. QED  BY <2>1, <2>2 DEF InitConnection, IsConn, Fields, None
  <1>2. /\ c.state = "INIT" /\ ~c.active /\ c.iss = i /\ c.snd_una = i /\ c.snd_nxt = i
        /\ c.snd_max = i /\ c.bufferEnd = i + 1 /\ c.buffered = {} /\ ~c.send_fin
        /\ ~c.fin_ack_rcvd /\ c.rcv_fin_seq = None /\ c.timers = {} /\ c.got = << >>
        /\ c.out = EmptyBag /\ c.ind = << >> /\ c.event = "IGNORE"
    BY DEF InitConnection
  <1> HIDE DEF c
  <1>3. AtRest(c)  BY <1>2, NoBag DEF AtRest
  <1>4. SendSide(c, 0)
    <2>1. SendOrder(c, 0)  BY <1>2 DEF SendOrder
    <2>2. Unopened(c, 0)  BY <1>2 DEF Unopened
    <2>3. QED  BY <1>2, <2>1, <2>2 DEF SendSide, Synchronized, Finishing
  <1>5. AppSide(c, "BOUND", << >>)  BY <1>2 DEF AppSide
  <1>6. GotSide(c, 0) /\ ReceiveSide(c, p, 0) /\ AckSide(c, p)
    BY <1>2 DEF GotSide, ReceiveSide, AckSide, Connected, Synchronized
  <1>7. QED  BY <1>1, <1>3, <1>4, <1>5, <1>6 DEF c

(* IInv holds in the initial states.                                       *)
LEMMA InitGood == Init => IInv
  <1> SUFFICES ASSUME Init PROVE IInv  OBVIOUS
  <1>1. /\ DOMAIN conn = Hosts /\ DOMAIN sock = Hosts /\ DOMAIN net = Hosts
        /\ DOMAIN sent = Hosts /\ DOMAIN log = Hosts /\ faults \in 0..MaxFaults
    BY HostAssumption DEF Init
  <1>2. ASSUME NEW h \in Hosts PROVE End(h)
    <2> DEFINE c == conn[h]
    <2>1. Peer(h) \in Hosts  BY TwoHosts
    <2>2. FirstISS[h] \in Nat  BY FirstISSTyped
    <2>3. /\ c = InitConnection(FirstISS[h]) /\ sent[h] = 0 /\ sent[Peer(h)] = 0
          /\ sock[h] = "BOUND" /\ log[h] = << >> /\ net[h] = EmptyBag
      BY <2>1 DEF Init
    <2>4. BagToSet(net[h]) = {}  BY <2>3, NoBag
    <2> HIDE DEF c
    <2>5. /\ IsConn(c) /\ AtRest(c) /\ SendSide(c, 0) /\ AppSide(c, "BOUND", << >>)
          /\ GotSide(c, 0) /\ ReceiveSide(c, conn[Peer(h)], 0) /\ AckSide(c, conn[Peer(h)])
      BY <2>2, <2>3, InitSound
    <2>6. QED  BY <2>3, <2>4, <2>5 DEF End, c
  <1>3. QED  BY <1>1, <1>2 DEF IInv

(* A step that only changes the network, and adds no segment to it.        *)
LEMMA NetworkStep ==
    ASSUME IInv, DOMAIN net' = Hosts, \A g \in Hosts : BagToSet(net'[g]) \subseteq BagToSet(net[g]),
           UNCHANGED <<conn, sock, sent, log>>, faults' \in 0..MaxFaults
    PROVE  IInv'
  <1>1. conn' = conn /\ sock' = sock /\ sent' = sent /\ log' = log  OBVIOUS
  <1>2. ASSUME NEW g \in Hosts PROVE End(g)'
    <2>1. End(g)  BY DEF IInv
    <2>2. QED  BY <1>1, <2>1 DEF End
  <1>3. QED  BY <1>1, <1>2 DEF IInv

(* A fault counts within its bound.                                        *)
LEMMA FaultBound == ASSUME IInv, Fault PROVE faults' \in 0..MaxFaults
  BY HostAssumption DEF IInv, Fault

(* Taking a segment out of the network adds none.                          *)
LEMMA WithoutRest ==
    ASSUME IInv, NEW h, NEW s
    PROVE  /\ DOMAIN Without(h, s) = Hosts
           /\ \A g \in Hosts : BagToSet(Without(h, s)[g]) \subseteq BagToSet(net[g])
  <1> DEFINE r == net[h] (-) SetToBag({s})
  <1>1. Without(h, s) = [net EXCEPT ![h] = r] /\ DOMAIN net = Hosts  BY DEF Without, IInv
  <1>2. BagToSet(r) \subseteq BagToSet(net[h])  BY BagRest
  <1> HIDE DEF r
  <1>3. QED  BY <1>1, <1>2

(* The network loses a segment.                                            *)
LEMMA LoseGood ==
    ASSUME IInv, NEW h \in Hosts, NEW s, Lose(h, s)
    PROVE  IInv'
  BY WithoutRest, FaultBound, NetworkStep DEF Lose

(* The network duplicates a segment.                                       *)
LEMMA DuplicateGood ==
    ASSUME IInv, NEW h \in Hosts, NEW s \in BagToSet(net[h]), Duplicate(h, s)
    PROVE  IInv'
  <1> DEFINE r == net[h] (+) SetToBag({s})
  <1>1. net' = [net EXCEPT ![h] = r] /\ DOMAIN net = Hosts  BY DEF Duplicate, IInv
  <1>2. BagToSet(r) = BagToSet(net[h])
    <2>1. BagToSet(SetToBag({s})) = {s}  BY BagOfSet
    <2>2. BagToSet(r) = BagToSet(net[h]) \cup BagToSet(SetToBag({s}))  BY BagSum
    <2>3. QED  BY <2>1, <2>2
  <1> HIDE DEF r
  <1>3. DOMAIN net' = Hosts /\ \A g \in Hosts : BagToSet(net'[g]) \subseteq BagToSet(net[g])
    BY <1>1, <1>2
  <1>4. QED  BY <1>3, FaultBound, NetworkStep DEF Duplicate

-----------------------------------------------------------------------------
(* Every step of a host preserves the invariant.                           *)

(* PerformedWell, for an event in which the application sends no data.     *)
LEMMA PerformedUnsent ==
    ASSUME IInv, NEW h \in Hosts, NEW x, NEW s, NEW rest, Perform(h, x, s, rest),
           DOMAIN rest = Hosts, \A g \in Hosts : BagToSet(rest[g]) \subseteq BagToSet(net[g]),
           UNCHANGED sent, faults' \in 0..MaxFaults,
           OutcomeOf(conn[h], sent[h], x, sent[h], conn[Peer(h)], sent[Peer(h)], s, log[h])
    PROVE  IInv'
  <1>1. DOMAIN sent' = Hosts /\ sent'[Peer(h)] = sent[Peer(h)] /\ sent'[h] = sent[h]
    BY DEF IInv
  <1>2. OutcomeOf(conn[h], sent[h], x, sent'[h], conn[Peer(h)], sent[Peer(h)], s, log[h])
    BY <1>1
  <1>3. QED  BY <1>1, <1>2, PerformedWell

(* The same for an event that takes no segment from the network.           *)
LEMMA PerformedOnNet ==
    ASSUME IInv, NEW h \in Hosts, NEW x, NEW s, Perform(h, x, s, net),
           UNCHANGED sent, faults' \in 0..MaxFaults,
           OutcomeOf(conn[h], sent[h], x, sent[h], conn[Peer(h)], sent[Peer(h)], s, log[h])
    PROVE  IInv'
  BY PerformedUnsent DEF IInv

(* OpenActive preserves IInv.                                              *)
LEMMA OpenActiveGood == ASSUME IInv, NEW h \in Hosts, OpenActive(h) PROVE IInv'
  <1> DEFINE d == [SelectInitialSeqNum(conn[h]) EXCEPT !.active = TRUE, !.timers = {"ESTAB"}]
             x == Event(StartSynRexmitTimer(SendSyn(d)), "OPEN_ACTIVE")
  <1>1. Perform(h, x, "CONNECTING", net) /\ conn[h].state = "INIT"
        /\ UNCHANGED sent /\ faults' \in 0..MaxFaults
    BY DEF OpenActive, IInv
  <1>2. OutcomeOf(conn[h], sent[h], x, sent[h], conn[Peer(h)], sent[Peer(h)], "CONNECTING", log[h])
    BY <1>1, SoundHost, OpenActiveWell
  <1> HIDE DEF x
  <1>3. QED  BY <1>1, <1>2, PerformedOnNet

(* OpenPassive preserves IInv.                                             *)
LEMMA OpenPassiveGood == ASSUME IInv, NEW h \in Hosts, OpenPassive(h) PROVE IInv'
  <1> DEFINE x == Event(conn[h], "OPEN_PASSIVE")
  <1>1. Perform(h, x, "LISTENING", net) /\ conn[h].state = "INIT"
        /\ UNCHANGED sent /\ faults' \in 0..MaxFaults
    BY DEF OpenPassive, IInv
  <1>2. OutcomeOf(conn[h], sent[h], x, sent[h], conn[Peer(h)], sent[Peer(h)], "LISTENING", log[h])
    BY <1>1, SoundHost, OpenPassiveWell
  <1> HIDE DEF x
  <1>3. QED  BY <1>1, <1>2, PerformedOnNet

(* SendCommand preserves IInv.                                             *)
LEMMA SendCommandGood == ASSUME IInv, NEW h \in Hosts, NEW idle, SendCommand(h, idle) PROVE IInv'
  <1> DEFINE d == [conn[h] EXCEPT !.bufferEnd = @ + 1]
             x == IF d.state \in {"ESTABLISHED", "CLOSE_WAIT"} THEN SendData(d, idle) ELSE d
  <1>1. /\ Perform(h, x, sock[h], net) /\ ~conn[h].send_fin
        /\ sock[h] \in {"CONNECTED", "CONNECTING", "PEER_CLOSED"}
        /\ sent' = [sent EXCEPT ![h] = @ + 1] /\ faults' \in 0..MaxFaults
    BY DEF SendCommand, IInv
  <1>2. OutcomeOf(conn[h], sent[h], x, sent[h] + 1, conn[Peer(h)], sent[Peer(h)], sock[h], log[h])
    BY <1>1, SoundHost, SendCommandWell
  <1> HIDE DEF x
  <1>3. DOMAIN sent' = Hosts /\ sent'[h] = sent[h] + 1 /\ sent'[Peer(h)] = sent[Peer(h)]
    BY <1>1, TwoHosts DEF IInv
  <1>4. OutcomeOf(conn[h], sent[h], x, sent'[h], conn[Peer(h)], sent[Peer(h)], sock[h], log[h])
    BY <1>2, <1>3
  <1>5. DOMAIN net = Hosts  BY DEF IInv
  <1>6. QED  BY <1>1, <1>3, <1>4, <1>5, PerformedWell

(* CloseCommand preserves IInv.                                            *)
LEMMA CloseCommandGood == ASSUME IInv, NEW h \in Hosts, CloseCommand(h) PROVE IInv'
  <1> DEFINE c == conn[h]
             x == Closing(c)
             s == IF sock[h] = "CONNECTED" THEN "LOCALLY_CLOSED" ELSE "CLOSED"
  <1>1. /\ Perform(h, x, s, net) /\ ~c.send_fin
        /\ sock[h] \in {"CONNECTED", "PEER_CLOSED", "CONNECTING", "LISTENING"}
        /\ UNCHANGED sent /\ faults' \in 0..MaxFaults
    BY DEF CloseCommand, Closing, IInv
  <1>2. s \in {"LOCALLY_CLOSED", "CLOSED"}  OBVIOUS
  <1> HIDE DEF s
  <1>3. OutcomeOf(c, sent[h], x, sent[h], conn[Peer(h)], sent[Peer(h)], s, log[h])
    BY <1>1, <1>2, SoundHost, CloseCommandWell
  <1> HIDE DEF x
  <1>4. QED  BY <1>1, <1>3, PerformedOnNet

(* AbortCommand preserves IInv.                                            *)
LEMMA AbortCommandGood == ASSUME IInv, NEW h \in Hosts, AbortCommand(h) PROVE IInv'
  <1> DEFINE c == conn[h]
             x == Event(IF c.state \in {"SYN_RCVD", "ESTABLISHED", "FIN_WAIT_1",
                                        "FIN_WAIT_2", "CLOSE_WAIT"}
                        THEN SendRst(c, c.snd_nxt) ELSE c, "ABORT")
  <1>1. /\ Perform(h, x, "CLOSED", net) /\ sock[h] \notin {"BOUND", "CLOSED", "SOCKERROR"}
        /\ UNCHANGED sent /\ Fault
    BY DEF AbortCommand
  <1>2. OutcomeOf(c, sent[h], x, sent[h], conn[Peer(h)], sent[Peer(h)], "CLOSED", log[h])
    BY <1>1, SoundHost, AbortCommandWell
  <1> HIDE DEF x
  <1>3. QED  BY <1>1, <1>2, FaultBound, PerformedOnNet

(* An early timer counts as a fault within the bound.                      *)
LEMMA ExpiryBound == ASSUME IInv, NEW h, NEW t, Expires(h, t) PROVE faults' \in 0..MaxFaults
  BY FaultBound DEF Expires, IInv

(* SynRexmit preserves IInv.                                               *)
LEMMA SynRexmitGood == ASSUME IInv, NEW h \in Hosts, SynRexmit(h) PROVE IInv'
  <1> DEFINE d == [conn[h] EXCEPT !.syn_rexmit_count = @ + 1]
             x == IF d.state = "SYN_SENT" THEN SendSyn(d) ELSE SendSynAck(d)
  <1>1. Perform(h, x, sock[h], net) /\ Expires(h, "SYN") /\ UNCHANGED sent  BY DEF SynRexmit
  <1>2. "SYN" \in conn[h].timers  BY <1>1 DEF Expires
  <1>3. OutcomeOf(conn[h], sent[h], x, sent[h], conn[Peer(h)], sent[Peer(h)], sock[h], log[h])
    BY <1>2, SoundHost, SynRexmitWell
  <1> HIDE DEF x
  <1>4. QED  BY <1>1, <1>3, ExpiryBound, PerformedOnNet

(* ConnEstab preserves IInv.                                               *)
LEMMA ConnEstabGood == ASSUME IInv, NEW h \in Hosts, ConnEstab(h) PROVE IInv'
  <1> DEFINE d == Cancel(conn[h], {"ESTAB"})
             x == Event(IF d.active THEN Indicate(d, "TIMED_OUT") ELSE d, "TIMEOUT_CONN_ESTAB")
  <1>1. Perform(h, x, sock[h], net) /\ Expires(h, "ESTAB") /\ UNCHANGED sent  BY DEF ConnEstab
  <1>2. "ESTAB" \in conn[h].timers  BY <1>1 DEF Expires
  <1>3. OutcomeOf(conn[h], sent[h], x, sent[h], conn[Peer(h)], sent[Peer(h)], sock[h], log[h])
    BY <1>2, SoundHost, ConnEstabWell
  <1> HIDE DEF x
  <1>4. QED  BY <1>1, <1>3, ExpiryBound, PerformedOnNet

(* Rexmit preserves IInv.                                                  *)
LEMMA RexmitGood == ASSUME IInv, NEW h \in Hosts, Rexmit(h) PROVE IInv'
  <1> DEFINE d == [conn[h] EXCEPT !.rexmit_count = @ + 1]
             x == IF d.rexmit_count > MaxRexmit
                  THEN Event(Indicate(d, "TIMED_OUT"), "ABORT")
                  ELSE RetransmitOneSegment([d EXCEPT !.snd_cwnd = 1, !.afterRto = TRUE])
  <1>1. Perform(h, x, sock[h], net) /\ Expires(h, "REXMIT") /\ UNCHANGED sent  BY DEF Rexmit
  <1>2. "REXMIT" \in conn[h].timers  BY <1>1 DEF Expires
  <1>3. OutcomeOf(conn[h], sent[h], x, sent[h], conn[Peer(h)], sent[Peer(h)], sock[h], log[h])
    BY <1>2, SoundHost, RexmitWell
  <1> HIDE DEF x
  <1>4. QED  BY <1>1, <1>3, ExpiryBound, PerformedOnNet

(* TwoMSL preserves IInv.                                                  *)
LEMMA TwoMSLGood == ASSUME IInv, NEW h \in Hosts, TwoMSL(h) PROVE IInv'
  <1> DEFINE x == Event(conn[h], "TIMEOUT_2MSL")
  <1>1. Perform(h, x, sock[h], net) /\ Expires(h, "2MSL") /\ UNCHANGED sent  BY DEF TwoMSL
  <1>2. "2MSL" \in conn[h].timers  BY <1>1 DEF Expires
  <1>3. OutcomeOf(conn[h], sent[h], x, sent[h], conn[Peer(h)], sent[Peer(h)], sock[h], log[h])
    BY <1>2, SoundHost, TwoMSLWell
  <1> HIDE DEF x
  <1>4. QED  BY <1>1, <1>3, ExpiryBound, PerformedOnNet

(* Receive preserves IInv.                                                 *)
LEMMA ReceiveGood ==
    ASSUME IInv, NEW h \in Hosts, NEW s \in BagToSet(net[Peer(h)]), NEW idle, Receive(h, s, idle)
    PROVE  IInv'
  <1> DEFINE c == conn[h]
             x == IF "RST" \in s.flags THEN c ELSE Send(c, ResetFor(s))
             y == ProcessSegment(c, s, idle)
             rest == Without(Peer(h), s)
  <1>1. GoodSegment(s, conn[Peer(h)], sent[Peer(h)], c)  BY SoundHost
  <1>2. DOMAIN rest = Hosts /\ \A g \in Hosts : BagToSet(rest[g]) \subseteq BagToSet(net[g])
    BY WithoutRest
  <1>3. UNCHANGED sent /\ faults' \in 0..MaxFaults  BY DEF Receive, IInv
  <1>4. CASE c.state \in {"INIT", "CLOSED"}
    <2>1. Perform(h, x, sock[h], rest)  BY <1>4 DEF Receive
    <2>2. OutcomeOf(c, sent[h], x, sent[h], conn[Peer(h)], sent[Peer(h)], sock[h], log[h])
      <3>1. IsSegment(s)  BY <1>1 DEF GoodSegment
      <3>2. QED  BY <1>4, <3>1, SoundHost, WhileClosedWell
    <2> HIDE DEF x, y, rest
    <2>3. QED  BY <1>2, <1>3, <2>1, <2>2, PerformedUnsent
  <1>5. CASE c.state \notin {"INIT", "CLOSED"}
    <2>1. Perform(h, y, sock[h], rest)  BY <1>5 DEF Receive
    <2>2. OutcomeOf(c, sent[h], y, sent[h], conn[Peer(h)], sent[Peer(h)], sock[h], log[h])
      BY <1>1, <1>5, SoundHost, ProcessSegmentWell
    <2> HIDE DEF x, y, rest
    <2>3. QED  BY <1>2, <1>3, <2>1, <2>2, PerformedUnsent
  <1>6. QED  BY <1>4, <1>5

-----------------------------------------------------------------------------
(* IInv is an inductive invariant.                                         *)
LEMMA NextGood == ASSUME IInv, [Next]_vars PROVE IInv'
  <1>1. CASE UNCHANGED vars
    <2>1. conn' = conn /\ sock' = sock /\ net' = net /\ sent' = sent /\ log' = log
          /\ faults' = faults
      BY <1>1 DEF vars
    <2>2. \A g \in Hosts : BagToSet(net'[g]) \subseteq BagToSet(net[g])  BY <2>1
    <2>3. DOMAIN net' = Hosts /\ faults' \in 0..MaxFaults  BY <2>1 DEF IInv
    <2>4. QED  BY <2>1, <2>2, <2>3, NetworkStep
  <1>2. ASSUME NEW h \in Hosts, OpenActive(h) PROVE IInv'  BY <1>2, OpenActiveGood
  <1>3. ASSUME NEW h \in Hosts, OpenPassive(h) PROVE IInv'  BY <1>3, OpenPassiveGood
  <1>4. ASSUME NEW h \in Hosts, CloseCommand(h) PROVE IInv'  BY <1>4, CloseCommandGood
  <1>5. ASSUME NEW h \in Hosts, AbortCommand(h) PROVE IInv'  BY <1>5, AbortCommandGood
  <1>6. ASSUME NEW h \in Hosts, NEW idle \in Idling, SendCommand(h, idle) PROVE IInv'
    BY <1>6, SendCommandGood
  <1>7. ASSUME NEW h \in Hosts, Timer(h) PROVE IInv'
    BY <1>7, SynRexmitGood, ConnEstabGood, RexmitGood, TwoMSLGood DEF Timer
  <1>8. ASSUME NEW h \in Hosts, Arrival(h) PROVE IInv'
    BY <1>8, ReceiveGood DEF Arrival
  <1>9. ASSUME NEW h \in Hosts, NEW s \in BagToSet(net[h]), Lose(h, s) \/ Duplicate(h, s)
        PROVE  IInv'
    BY <1>9, LoseGood, DuplicateGood
  <1>10. QED  BY <1>1, <1>2, <1>3, <1>4, <1>5, <1>6, <1>7, <1>8, <1>9 DEF Next

(* Whatever the applications and the network do, IInv holds.               *)
THEOREM Invariance == Spec => []IInv
  <1>1. Init => IInv  BY InitGood
  <1>2. IInv /\ [Next]_vars => IInv'  BY NextGood
  <1>3. QED  BY <1>1, <1>2, PTL DEF Spec

-----------------------------------------------------------------------------
(* What IInv says of the two hosts.                                        *)

(* IsConn and SendOrder.                                                   *)
LEMMA TypeOKFollows == IInv => TypeOK
  <1> SUFFICES ASSUME IInv PROVE TypeOK  OBVIOUS
  <1>1. faults \in 0..MaxFaults  BY DEF IInv
  <1>2. ASSUME NEW h \in Hosts
        PROVE  LET c == conn[h] IN
               /\ c.state \in States /\ c.timers \subseteq {"SYN", "ESTAB", "REXMIT", "2MSL"}
               /\ c.snd_una <= c.snd_nxt /\ c.snd_nxt <= c.snd_max
               /\ c.snd_max <= c.bufferEnd + 1
    <2> DEFINE c == conn[h]
    <2>1. IsConn(c) /\ SendSide(c, sent[h])  BY SoundHost DEF Sound
    <2> HIDE DEF c
    <2>2. c.state \in States /\ c.timers \subseteq {"SYN", "ESTAB", "REXMIT", "2MSL"}
      BY <2>1 DEF IsConn
    <2>3. \E k : SendOrder(c, k)  BY <2>1 DEF SendSide
    <2>4. /\ c.snd_una <= c.snd_nxt /\ c.snd_nxt <= c.snd_max /\ c.snd_max <= c.bufferEnd + 1
      BY <2>3 DEF SendOrder
    <2>5. QED  BY <2>2, <2>4 DEF c
  <1>3. QED  BY <1>1, <1>2 DEF TypeOK

(* GotSide.                                                                *)
LEMMA StreamIntegrityFollows == IInv => StreamIntegrity
  <1> SUFFICES ASSUME IInv, NEW h \in Hosts
               PROVE  /\ \A i \in DOMAIN conn[h].got : conn[h].got[i] = i
                      /\ Len(conn[h].got) <= sent[Peer(h)]
    BY DEF StreamIntegrity
  <1>1. GotSide(conn[h], sent[Peer(h)])  BY SoundHost DEF Sound
  <1>2. QED  BY <1>1 DEF GotSide

(* PastFin.                                                                *)
LEMMA FinAfterDataFollows == IInv => FinAfterData
  <1> SUFFICES ASSUME IInv, NEW h \in Hosts, conn[h].state \in AfterFin
               PROVE  Len(conn[h].got) = sent[Peer(h)]
    BY DEF FinAfterData, AfterFin
  <1> DEFINE c == conn[h]
             p == conn[Peer(h)]
             m == sent[Peer(h)]
  <1>1. ReceiveSide(c, p, m)  BY SoundHost DEF Sound
  <1>2. c.state \in AfterFin  OBVIOUS
  <1> HIDE DEF c, p, m
  <1>3. c.state \in Connected  BY <1>2 DEF AfterFin, Connected, Synchronized
  <1>4. PastFin(c, p, m)  BY <1>1, <1>2, <1>3 DEF ReceiveSide, BeforeFin, Behind
  <1>5. Len(c.got) = m  BY <1>4 DEF PastFin
  <1>6. QED  BY <1>5 DEF c, m

(* The sequence numbers of two synchronized ends.                          *)
LEMMA AgreementFollows == IInv => Agreement
  <1> SUFFICES ASSUME IInv, NEW h \in Hosts, conn[h].state \in Synchronized,
                      conn[Peer(h)].state \in Synchronized
               PROVE  /\ conn[h].snd_una # conn[h].iss => conn[h].snd_una <= conn[Peer(h)].rcv_nxt
                      /\ conn[Peer(h)].rcv_nxt <= conn[h].snd_max
    BY DEF Agreement
  <1> DEFINE c == conn[h]
             p == conn[Peer(h)]
             n == sent[h]
  <1>1. IsConn(c) /\ SendSide(c, n) /\ AckSide(c, p)  BY SoundHost DEF Sound
  <1>2. Peer(h) \in Hosts /\ Peer(Peer(h)) = h  BY TwoHosts
  <1>3. IsConn(p) /\ ReceiveSide(p, c, n)  BY <1>2, SoundHost DEF Sound
  <1>4. c.state \in Synchronized /\ p.state \in Synchronized  OBVIOUS
  <1> HIDE DEF c, p, n
  <1>5. ~Closed(c) /\ ~Closed(p) /\ p.state \in Connected /\ p.state # "LISTEN"
    BY <1>4 DEF Closed, Connected, Synchronized
  <1>6. c.snd_una # c.iss => c.snd_una <= p.rcv_nxt
    BY <1>1, <1>5 DEF AckSide, Acknowledged
  <1>7. p.rcv_nxt <= c.snd_max
    <2>1. c.iss < c.snd_max /\ c.iss \in Int /\ c.snd_max \in Int /\ p.rcv_nxt \in Int
          /\ ISSStep \in Nat
      <3>1. c.iss < c.snd_max  BY <1>1, <1>4 DEF SendSide
      <3>2. c.iss \in Int /\ c.snd_max \in Int  BY <1>1 DEF IsConn
      <3>3. p.rcv_nxt \in Int  BY <1>3 DEF IsConn
      <3>4. QED  BY <3>1, <3>2, <3>3, ConnectionAssumption
    <2>2. CASE BeforeFin(p, c)  BY <1>5, <2>2 DEF BeforeFin, Reached
    <2>3. CASE PastFin(p, c, n)
      <3>1. p.rcv_nxt = EndOf(c, n) + 1 /\ EndOf(c, n) < c.snd_max
        BY <1>5, <2>3 DEF PastFin, FinSent
      <3>2. EndOf(c, n) \in Int  BY <1>1, <2>1 DEF EndOf, SendSide
      <3>3. QED  BY <2>1, <3>1, <3>2
    <2>4. CASE Behind(p, c)  BY <2>1, <2>4 DEF Behind
    <2>5. QED  BY <1>3, <1>5, <2>2, <2>3, <2>4 DEF ReceiveSide
  <1>8. QED  BY <1>6, <1>7 DEF c, p

(* Timed.                                                                  *)
LEMMA TimerFollows == IInv => TimerIffOutstanding
  <1> SUFFICES ASSUME IInv, NEW h \in Hosts, conn[h].state \in Synchronized
               PROVE  ("REXMIT" \in conn[h].timers) <=> (conn[h].snd_una # conn[h].snd_max)
    BY DEF TimerIffOutstanding
  <1>1. SendSide(conn[h], sent[h])  BY SoundHost DEF Sound
  <1>2. QED  BY <1>1 DEF SendSide, Timed

(* What SendSide says of the timers, state by state.                       *)
LEMMA TimersFitFollows == IInv => TimersFitState
  <1> SUFFICES ASSUME IInv, NEW h \in Hosts
               PROVE  /\ conn[h].timers \cap {"SYN", "ESTAB"} # {}
                            => conn[h].state \in {"SYN_SENT", "SYN_RCVD"}
                      /\ ("2MSL" \in conn[h].timers) <=> (conn[h].state = "TIME_WAIT")
    BY DEF TimersFitState
  <1> DEFINE c == conn[h]
             n == sent[h]
  <1>1. IsConn(c) /\ SendSide(c, n)  BY SoundHost DEF Sound
  <1> HIDE DEF c, n
  <1>2. c.timers \cap {"SYN", "ESTAB"} # {} => c.state \in {"SYN_SENT", "SYN_RCVD"}
    BY <1>1, SetupTimer
  <1>3. ("2MSL" \in c.timers) <=> (c.state = "TIME_WAIT")
    <2>1. CASE c.state \in Synchronized  BY <1>1, <2>1 DEF SendSide
    <2>2. CASE c.state \in {"INIT", "LISTEN", "CLOSED"}  BY <1>1, <2>2 DEF SendSide, Unopened
    <2>3. CASE c.state \in {"SYN_SENT", "SYN_RCVD"}  BY <1>1, <2>3 DEF SendSide, SynSent
    <2>4. c.state \in States  BY <1>1 DEF IsConn
    <2>5. QED  BY <2>1, <2>2, <2>3, <2>4 DEF States
  <1>4. QED  BY <1>2, <1>3 DEF c

(* A log that has ended, or may end, as Ended allows is in order.          *)
InOrder(l) ==
    \A i, j \in DOMAIN l : i < j =>
        /\ l[i] # "CLOSED"
        /\ l[i] # l[j]
        /\ l[j] # "ESTABLISHED"
        /\ l[i] \in {"CONNECTION_RESET", "CONNECTION_REFUSED", "TIMED_OUT"} => l[j] = "CLOSED"

(* A log that ends as Ended says is in order.                              *)
LEMMA EndedInOrder == ASSUME NEW l, Ended(l) PROVE InOrder(l)
  <1>1. l \in Told => InOrder(l)
    BY DEF Told, InOrder
  <1>2. ASSUME NEW k \in Told, NEW a \in Problems \cup {"CLOSED"} PROVE InOrder(Append(k, a))
    BY <1>2 DEF Told, Problems, InOrder
  <1>3. ASSUME NEW k \in Told, NEW a \in Problems PROVE InOrder(Append(Append(k, a), "CLOSED"))
    BY <1>3 DEF Told, Problems, InOrder
  <1>4. QED  BY <1>1, <1>2, <1>3 DEF Ended

(* AppSide.                                                                *)
LEMMA IndicationOrderFollows == IInv => IndicationOrder
  <1> SUFFICES ASSUME IInv, NEW h \in Hosts PROVE InOrder(log[h])
    BY DEF IndicationOrder, InOrder
  <1>1. Ended(log[h])  BY SoundHost, LogTyped DEF Sound
  <1>2. QED  BY <1>1, EndedInOrder

-----------------------------------------------------------------------------
(* The theorems: the properties that the runs check, for every receive and *)
(* initial window, retry limit and bound on what goes wrong, whichever     *)
(* host connects and however its application uses the connection.          *)

(* TypeOK: sendData() and processAckInEstabEtc() keep the sequence numbers *)
(* in order, in the states and with the timers of the code.                *)
THEOREM TypeCorrect == Spec => []TypeOK
  BY Invariance, TypeOKFollows, PTL

(* StreamIntegrity: insertBytesFromSegment() hands the application of a    *)
(* host what the other one has sent, in order, once.                       *)
THEOREM StreamIsIntact == Spec => []StreamIntegrity
  BY Invariance, StreamIntegrityFollows, PTL

(* FinAfterData: a FIN that overtakes data waits in rcv_fin_seq.           *)
THEOREM FinComesLast == Spec => []FinAfterData
  BY Invariance, FinAfterDataFollows, PTL

(* Agreement: what processAckInEstabEtc() takes as acknowledged the peer   *)
(* has received, and what it has received was sent.                        *)
THEOREM EndsAgree == Spec => []Agreement
  BY Invariance, AgreementFollows, PTL

(* TimerIffOutstanding: receivedDataAck() and sendData() keep the          *)
(* retransmission timer running exactly while something is outstanding.    *)
THEOREM RetryWhileOutstanding == Spec => []TimerIffOutstanding
  BY Invariance, TimerFollows, PTL

(* TimersFitState: stateEntered() and the handlers leave no timer to a     *)
(* state in which its expiry is an internal error.                         *)
THEOREM TimersFit == Spec => []TimersFitState
  BY Invariance, TimersFitFollows, PTL

(* IndicationOrder: sendIndicationToApp() tells the application nothing    *)
(* that its socket could not make sense of.                                *)
THEOREM IndicationsInOrder == Spec => []IndicationOrder
  BY Invariance, IndicationOrderFollows, PTL
=============================================================================

--------------------------------- MODULE TCP ---------------------------------
(***************************************************************************)
(* Two hosts with INET's TCP (transport/tcp), each with one application on *)
(* a TCPSocket (transport/contract/TCPSocket.cc), over a network that      *)
(* delays and reorders segments, and loses or duplicates some.             *)
(*                                                                         *)
(* A listening socket does not fork.  Messages between an application and  *)
(* its TCP take no simulation time; here they are part of one step.  Time  *)
(* is abstracted: a timer expires when nothing is in flight, and earlier   *)
(* than that as one of the MaxFaults things that go wrong.                 *)
(***************************************************************************)
EXTENDS TCPConnection, SequencesExt

CONSTANTS
    Active,         \* the hosts that connect(); the other ones listen()
    Passive,
    MaxData,        \* bound: data segments the application of a host sends
    MaxSynRexmit,   \* bound: SYN retransmissions before CONN_ESTAB
    MaxFaults       \* bound: losses, duplicates, early timers and aborts

Hosts == Active \cup Passive

ASSUME HostAssumption ==
    /\ Active \cap Passive = {}
    /\ \E g, h \in Hosts : g # h /\ Hosts = {g, h}
    /\ MaxData \in [Hosts -> 0..2]
    /\ MaxSynRexmit \in Nat /\ MaxFaults \in Nat

VARIABLES
    conn,           \* the TCPConnection of a host
    sock,           \* TCPSocket::sockstate
    net,            \* the segments a host has sent, a bag
    sent,           \* history: data segments the application has sent
    log,            \* history: the indications the application has got
    faults          \* history: what has gone wrong

vars == <<conn, sock, net, sent, log, faults>>

Peer(h) == CHOOSE g \in Hosts : g # h

(* The initial sequence numbers of two hosts are distinct and far apart.   *)
FirstISS == CHOOSE f \in [Hosts -> {0, 5}] : \A h \in Hosts : f[h] # f[Peer(h)]

Init ==
    /\ conn = [h \in Hosts |-> InitConnection(FirstISS[h])]
    /\ sock = [h \in Hosts |-> "BOUND"]
    /\ net = [h \in Hosts |-> EmptyBag]
    /\ sent = [h \in Hosts |-> 0]
    /\ log = [h \in Hosts |-> << >>]
    /\ faults = 0

Fault == faults < MaxFaults /\ faults' = faults + 1

(* TCPSocket::processMessage() for the indications of an event.            *)
SockState(s, ind) ==
    IF ind = << >> THEN s
    ELSE CASE Last(ind) = "ESTABLISHED" -> "CONNECTED"
           [] Last(ind) = "PEER_CLOSED" -> "PEER_CLOSED"
           [] Last(ind) = "CLOSED" -> "CLOSED"
           [] OTHER -> "SOCKERROR"

(* What stays of a connection after an event; a closed one is deleted.     *)
Kept(c) ==
    IF c.state = "CLOSED"
    THEN [InitConnection(c.iss) EXCEPT !.state = "CLOSED", !.got = c.got]
    ELSE [c EXCEPT !.out = EmptyBag, !.ind = << >>, !.event = "IGNORE"]

(* The end of every event of host h: the state transition, the segments    *)
(* and the indications.  `s' is the socket's state and `rest' the network  *)
(* before them.                                                            *)
Perform(h, c, s, rest) ==
    LET d == Transition(c) IN
    /\ conn' = [conn EXCEPT ![h] = Kept(d)]
    /\ sock' = [sock EXCEPT ![h] = SockState(s, d.ind)]
    /\ net' = [rest EXCEPT ![h] = @ (+) d.out]
    /\ log' = [log EXCEPT ![h] = @ \o d.ind]

Running == \A h \in Hosts : ~conn[h].assertFailed

-----------------------------------------------------------------------------
(* The commands of the application: TCPConnectionEventProc.cc.             *)

(* Mutant of OpenActive: no connection establishment timer.                *)
OpenActive_NoEstab(h) ==
    /\ h \in Active /\ conn[h].state = "INIT"
    /\ LET c == [SelectInitialSeqNum(conn[h]) EXCEPT !.active = TRUE] IN
       Perform(h, Event(StartSynRexmitTimer(SendSyn(c)), "OPEN_ACTIVE"), "CONNECTING", net)
    /\ UNCHANGED <<sent, faults>>

OpenActive(h) ==
    /\ h \in Active /\ conn[h].state = "INIT"
    /\ LET c == [SelectInitialSeqNum(conn[h]) EXCEPT
                     !.active = TRUE, !.timers = {"ESTAB"}] IN
       Perform(h, Event(StartSynRexmitTimer(SendSyn(c)), "OPEN_ACTIVE"), "CONNECTING", net)
    /\ UNCHANGED <<sent, faults>>

OpenPassive(h) ==
    /\ h \in Passive /\ conn[h].state = "INIT"
    /\ Perform(h, Event(conn[h], "OPEN_PASSIVE"), "LISTENING", net)
    /\ UNCHANGED <<sent, faults>>

(* process_SEND(): queued until the connection is established.             *)
SendCommand(h, idle) ==
    /\ sock[h] \in {"CONNECTED", "CONNECTING", "PEER_CLOSED"}
    /\ sent[h] < MaxData[h] /\ ~conn[h].send_fin
    /\ LET c == [conn[h] EXCEPT !.bufferEnd = @ + 1] IN
       Perform(h, IF c.state \in {"ESTABLISHED", "CLOSE_WAIT"} THEN SendData(c, idle) ELSE c,
               sock[h], net)
    /\ sent' = [sent EXCEPT ![h] = @ + 1]
    /\ UNCHANGED faults

(* process_CLOSE(): the FIN waits for the data in the send queue.  An      *)
(* application closes once.                                                *)
CloseCommand(h) ==
    /\ sock[h] \in {"CONNECTED", "PEER_CLOSED", "CONNECTING", "LISTENING"}
    /\ ~conn[h].send_fin
    /\ LET c == conn[h]
           d == [c EXCEPT !.send_fin = TRUE, !.snd_fin_seq = c.bufferEnd] IN
       Perform(h, IF c.state \in {"LISTEN", "SYN_SENT"} THEN Event(c, "CLOSE")
                  ELSE IF c.snd_max = c.bufferEnd
                  THEN Event(StartRexmitTimer(SendFin(d)), "CLOSE")
                  ELSE d,
               IF sock[h] = "CONNECTED" THEN "LOCALLY_CLOSED" ELSE "CLOSED", net)
    /\ UNCHANGED <<sent, faults>>

(* process_ABORT().                                                        *)
AbortCommand(h) ==
    /\ sock[h] \notin {"BOUND", "CLOSED", "SOCKERROR"} /\ Fault
    /\ LET c == conn[h] IN
       Perform(h, Event(IF c.state \in {"SYN_RCVD", "ESTABLISHED", "FIN_WAIT_1",
                                        "FIN_WAIT_2", "CLOSE_WAIT"}
                        THEN SendRst(c, c.snd_nxt) ELSE c, "ABORT"), "CLOSED", net)
    /\ UNCHANGED sent

-----------------------------------------------------------------------------
(* Timers: TCPConnection::processTimer().                                  *)

Expires(h, t) ==
    /\ t \in conn[h].timers
    /\ IF \A g \in Hosts : net[g] = EmptyBag THEN UNCHANGED faults ELSE Fault

(* process_TIMEOUT_SYN_REXMIT().  Its timeout doubles, so that CONN_ESTAB   *)
(* ends the attempt long before MAX_SYN_REXMIT_COUNT.                      *)
SynRexmit(h) ==
    /\ conn[h].syn_rexmit_count < MaxSynRexmit
    /\ Expires(h, "SYN")
    /\ LET c == [conn[h] EXCEPT !.syn_rexmit_count = @ + 1] IN
       Perform(h, IF c.state = "SYN_SENT" THEN SendSyn(c) ELSE SendSynAck(c), sock[h], net)
    /\ UNCHANGED sent

(* process_TIMEOUT_CONN_ESTAB().                                           *)
ConnEstab(h) ==
    /\ Expires(h, "ESTAB")
    /\ LET c == Cancel(conn[h], {"ESTAB"}) IN
       Perform(h, Event(IF c.active THEN Indicate(c, "TIMED_OUT") ELSE c,
                        "TIMEOUT_CONN_ESTAB"), sock[h], net)
    /\ UNCHANGED sent

(* TCPReno::processRexmitTimer().                                          *)
Rexmit(h) ==
    /\ Expires(h, "REXMIT")
    /\ LET c == [conn[h] EXCEPT !.rexmit_count = @ + 1] IN
       Perform(h, IF c.rexmit_count > MaxRexmit
                  THEN Event(Indicate(c, "TIMED_OUT"), "ABORT")
                  ELSE RetransmitOneSegment([c EXCEPT !.snd_cwnd = 1, !.afterRto = TRUE]),
               sock[h], net)
    /\ UNCHANGED sent

(* process_TIMEOUT_2MSL().                                                 *)
TwoMSL(h) ==
    /\ Expires(h, "2MSL")
    /\ Perform(h, Event(conn[h], "TIMEOUT_2MSL"), sock[h], net)
    /\ UNCHANGED sent

-----------------------------------------------------------------------------
(* The network.                                                            *)

Without(h, s) == [net EXCEPT ![h] = @ (-) SetToBag({s})]

(* TCP::handleMessage(): a segment of the peer reaches h.                  *)
Receive(h, s, idle) ==
    /\ BagIn(s, net[Peer(h)])
    /\ IF conn[h].state \in {"INIT", "CLOSED"}
       THEN Perform(h, IF "RST" \in s.flags THEN conn[h] ELSE Send(conn[h], ResetFor(s)),
                    sock[h], Without(Peer(h), s))
       ELSE Perform(h, ProcessSegment(conn[h], s, idle), sock[h], Without(Peer(h), s))
    /\ UNCHANGED <<sent, faults>>

Lose(h, s) ==
    /\ BagIn(s, net[h]) /\ Fault
    /\ net' = Without(h, s)
    /\ UNCHANGED <<conn, sock, sent, log>>

Duplicate(h, s) ==
    /\ BagIn(s, net[h]) /\ Fault
    /\ net' = [net EXCEPT ![h] = @ (+) SetToBag({s})]
    /\ UNCHANGED <<conn, sock, sent, log>>

(* Whether a connection has been idle; with a window of two the restart    *)
(* window makes no difference.                                             *)
Idling == {FALSE, IW = 1}

Arrival(h) == \E s \in BagToSet(net[Peer(h)]), idle \in Idling : Receive(h, s, idle)
Timer(h) == SynRexmit(h) \/ ConnEstab(h) \/ Rexmit(h) \/ TwoMSL(h)

Next ==
    /\ Running
    /\ \E h \in Hosts :
          \/ OpenActive(h) \/ OpenPassive(h) \/ CloseCommand(h) \/ AbortCommand(h)
          \/ \E idle \in Idling : SendCommand(h, idle)
          \/ Timer(h)
          \/ Arrival(h)
          \/ \E s \in BagToSet(net[h]) : Lose(h, s) \/ Duplicate(h, s)

Spec == Init /\ [][Next]_vars

(* Segments that are not lost arrive, and timers expire: weak fairness of  *)
(* the four actions, with the states that enable them written out.         *)
Due(h, t) ==
    /\ Running /\ t \in conn[h].timers
    /\ (\A g \in Hosts : net[g] = EmptyBag) \/ faults < MaxFaults

FairSpec ==
    /\ Spec
    /\ \A h \in Hosts :
          /\ []<>~(Running /\ net[Peer(h)] # EmptyBag) \/ []<><<Arrival(h)>>_vars
          /\ []<>~Due(h, "ESTAB") \/ []<><<ConnEstab(h)>>_vars
          /\ []<>~Due(h, "REXMIT") \/ []<><<Rexmit(h)>>_vars
          /\ []<>~Due(h, "2MSL") \/ []<><<TwoMSL(h)>>_vars

-----------------------------------------------------------------------------
(* The type invariant: what sendData() and processAckInEstabEtc() keep of  *)
(* the order of the sequence numbers.                                      *)
TypeOK ==
    /\ \A h \in Hosts : LET c == conn[h] IN
          /\ c.state \in States
          /\ c.timers \subseteq {"SYN", "ESTAB", "REXMIT", "2MSL"}
          /\ c.snd_una <= c.snd_nxt /\ c.snd_nxt <= c.snd_max
          /\ c.snd_max <= c.bufferEnd + 1
    /\ faults \in 0..MaxFaults

(* The application gets the data of its peer in order, once, and none that *)
(* the peer has not sent, whatever the network does to the segments.       *)
StreamIntegrity ==
    \A h \in Hosts : /\ \A i \in DOMAIN conn[h].got : conn[h].got[i] = i
                     /\ Len(conn[h].got) <= sent[Peer(h)]

(* A connection leaves ESTABLISHED or FIN_WAIT on the FIN of its peer only *)
(* when it has all the data sent before that FIN: a FIN that overtakes     *)
(* data waits in rcv_fin_seq.                                              *)
FinAfterData ==
    \A h \in Hosts :
        conn[h].state \in {"CLOSE_WAIT", "LAST_ACK", "CLOSING", "TIME_WAIT"}
            => Len(conn[h].got) = sent[Peer(h)]

(* Two synchronized ends agree: what one takes as acknowledged the other   *)
(* has received, and what the other has received was sent.  The first does *)
(* not hold before the SYN is acknowledged: closing takes SYN_RCVD to      *)
(* FIN_WAIT_1, and the peer may still be synchronized with the listener's  *)
(* previous attempt, whose initial sequence number was lower.              *)
Agreement ==
    \A h \in Hosts : LET c == conn[h]  p == conn[Peer(h)] IN
        (c.state \in Synchronized /\ p.state \in Synchronized)
            => /\ c.snd_una # c.iss => c.snd_una <= p.rcv_nxt
               /\ p.rcv_nxt <= c.snd_max

(* The retransmission timer runs exactly while data or a FIN is            *)
(* outstanding: nothing is left unacknowledged without a retry, and        *)
(* processRexmitTimer() never finds nothing to send.                       *)
TimerIffOutstanding ==
    \A h \in Hosts :
        conn[h].state \in Synchronized \ {"TIME_WAIT"} =>
            (("REXMIT" \in conn[h].timers) <=> (conn[h].snd_una # conn[h].snd_max))

(* No timer is left over for a state where its expiry is an internal error *)
(* (process_TIMEOUT_SYN_REXMIT(), process_TIMEOUT_CONN_ESTAB() and         *)
(* process_TIMEOUT_2MSL() throw), and TIME_WAIT always has its way out.    *)
TimersFitState ==
    \A h \in Hosts :
        /\ conn[h].timers \cap {"SYN", "ESTAB"} # {}
              => conn[h].state \in {"SYN_SENT", "SYN_RCVD"}
        /\ ("2MSL" \in conn[h].timers) <=> (conn[h].state = "TIME_WAIT")

(* The indications of a connection come in an order an application can     *)
(* follow: ESTABLISHED first, nothing twice, after an error only CLOSED,   *)
(* after CLOSED nothing.                                                   *)
IndicationOrder ==
    \A h \in Hosts : \A i, j \in DOMAIN log[h] : i < j =>
        /\ log[h][i] # "CLOSED"
        /\ log[h][i] # log[h][j]
        /\ log[h][j] # "ESTABLISHED"
        /\ log[h][i] \in {"CONNECTION_RESET", "CONNECTION_REFUSED", "TIMED_OUT"}
              => log[h][j] = "CLOSED"

(* What TCPConnection.h says of FIN_WAIT_2: it waits for the peer's FIN,   *)
(* which has therefore not been received yet.                              *)
FinWait2Waits ==
    \A h \in Hosts :
        (conn[h].state = "FIN_WAIT_2" /\ conn[Peer(h)].state \in Synchronized)
            => ~(conn[Peer(h)].send_fin /\ conn[h].rcv_nxt = conn[Peer(h)].snd_fin_seq + 1)

(* Data that an application has sent reaches the other one, unless the     *)
(* connection of the sender is closed, or the simulation stops at a failed *)
(* assertion.                                                              *)
DataArrives ==
    \A h \in Hosts : \A n \in 1..MaxData[h] :
        (sent[h] >= n) ~> (\/ Len(conn[Peer(h)].got) >= n
                           \/ conn[h].state = "CLOSED"
                           \/ ~Running)

(* Neither a setup nor an exchange of FINs goes on for ever: the timers    *)
(* and the retry limits end it when the peer does not answer.              *)
SetupAndCloseEnd ==
    \A h \in Hosts :
        LET underWay == conn[h].state \in {"SYN_SENT", "SYN_RCVD", "FIN_WAIT_1",
                                          "CLOSING", "LAST_ACK"} IN
        underWay ~> (~underWay \/ ~Running)
=============================================================================

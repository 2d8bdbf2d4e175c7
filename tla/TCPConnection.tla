---------------------------- MODULE TCPConnection ----------------------------
(***************************************************************************)
(* INET's TCP (transport/tcp), one connection end: the record of its state *)
(* variables and what the code computes on it.                             *)
(*                                                                         *)
(* An event of the simulation changes the state variables in many small    *)
(* steps and may send several segments and indications.  Each operator     *)
(* below takes the connection, with what the event has sent so far in the  *)
(* fields out, ind and event, and returns it changed; module TCP turns the *)
(* handlers into actions.                                                  *)
(*                                                                         *)
(* Data is counted in segments of one MSS, and so are sequence numbers.    *)
(* The flavour is TCPReno, the default, with the default parameters: no    *)
(* delayed ACK, no SACK, no timestamps, no limited transmit.  No more than *)
(* two data segments are ever outstanding, so a window is one segment or   *)
(* two, where two also stands for more.  With an initial window of two     *)
(* (increasedIWEnabled and an MSS of at least 2190) the first two segments *)
(* are under way together.                                                 *)
(***************************************************************************)
EXTENDS Integers, Sequences, FiniteSets, FiniteSetsExt, Bags

CONSTANTS
    RcvWnd,         \* the receive window, which the application keeps empty
    IW,             \* the initial window, two segments with increasedIWEnabled
    MaxRexmit,      \* MAX_REXMIT_COUNT
    ISSStep         \* how far selectInitialSeqNum() moves on between opens

ASSUME ConnectionAssumption ==
    /\ RcvWnd \in Nat \ {0} /\ IW \in 1..2
    /\ MaxRexmit \in Nat
    /\ ISSStep \in Nat /\ ISSStep > RcvWnd + 2

None == 0           \* no data, no sequence number, no acknowledgement
DupThresh == 3      \* DUPTHRESH

Segment(flags, seq, ack, data) ==
    [flags |-> flags, seq |-> seq, ack |-> ack, data |-> data]

Send(c, s) == [c EXCEPT !.out = @ (+) SetToBag({s})]
Indicate(c, i) == [c EXCEPT !.ind = Append(@, i)]
Start(c, t) == [c EXCEPT !.timers = @ \cup {t}]
Cancel(c, ts) == [c EXCEPT !.timers = @ \ ts]
DupAcks(c, k) == [c EXCEPT !.dupacks = k]

(* A connection in INIT, initConnection() included.                        *)
InitConnection(iss) ==
    [state |-> "INIT", active |-> FALSE, iss |-> iss,
     snd_una |-> iss, snd_nxt |-> iss, snd_max |-> iss, bufferEnd |-> iss + 1,
     rcv_nxt |-> None, buffered |-> {}, send_fin |-> FALSE,
     snd_fin_seq |-> None, fin_ack_rcvd |-> FALSE, rcv_fin_seq |-> None,
     snd_cwnd |-> 1, dupacks |-> 0, afterRto |-> FALSE, rexmit_count |-> 0,
     syn_rexmit_count |-> 0, timers |-> {},
     got |-> << >>, assertFailed |-> FALSE,
     out |-> EmptyBag, ind |-> << >>, event |-> "IGNORE"]

(* selectInitialSeqNum(): a function of the simulation time.               *)
SelectInitialSeqNum(c) ==
    LET iss == c.iss + ISSStep IN
    [c EXCEPT !.iss = iss, !.snd_una = iss, !.snd_nxt = iss, !.snd_max = iss,
              !.bufferEnd = iss + 1]

-----------------------------------------------------------------------------
(* Sending: TCPConnectionUtil.cc.                                          *)

SendSyn(c) ==
    [Send(c, Segment({"SYN"}, c.iss, None, None)) EXCEPT
        !.snd_nxt = c.iss + 1, !.snd_max = c.iss + 1]

SendSynAck(c) ==
    [Send(c, Segment({"SYN", "ACK"}, c.iss, c.rcv_nxt, None)) EXCEPT
        !.snd_nxt = c.iss + 1, !.snd_max = c.iss + 1]

SendAck(c) == Send(c, Segment({"ACK"}, c.snd_nxt, c.rcv_nxt, None))

SendRst(c, seq) == Send(c, Segment({"RST"}, seq, None, None))

(* Mutant of SendFin: snd_max is left before the FIN.                      *)
SendFin_NoMax(c) ==
    [Send(c, Segment({"FIN", "ACK"}, c.bufferEnd, c.rcv_nxt, None)) EXCEPT
        !.snd_nxt = c.bufferEnd + 1]

(* sendFin(), from the end of the send queue, and the step over the FIN.   *)
SendFin(c) ==
    [Send(c, Segment({"FIN", "ACK"}, c.bufferEnd, c.rcv_nxt, None)) EXCEPT
        !.snd_nxt = c.bufferEnd + 1, !.snd_max = c.bufferEnd + 1]

(* sendSegment() k times.  The data of a sequence number is its place in   *)
(* the stream; the last segment takes the FIN along.                       *)
SendSegments(c, k) ==
    LET last == c.snd_nxt + k
        fin  == c.send_fin /\ last = c.snd_fin_seq
        seg(s) == Segment(IF fin /\ s = last - 1 THEN {"FIN", "ACK"} ELSE {"ACK"},
                          s, c.rcv_nxt, s - c.iss) IN
    [c EXCEPT !.out = @ (+) SetToBag({seg(s) : s \in c.snd_nxt..(last - 1)}),
              !.snd_nxt = IF fin THEN last + 1 ELSE last,
              !.afterRto = @ /\ last < c.snd_max]

Later(m, n) == IF m >= n THEN m ELSE n

StartSynRexmitTimer(c) == [Start(c, "SYN") EXCEPT !.syn_rexmit_count = 0]

(* Mutant of StartRexmitTimer: scheduleTimeout() is missing.               *)
StartRexmitTimer_Never(c) == [c EXCEPT !.rexmit_count = 0]

(* startRexmitTimer().                                                     *)
StartRexmitTimer(c) == [Start(c, "REXMIT") EXCEPT !.rexmit_count = 0]

(* The window when the connection is established().                        *)
InitialWindow(c) == IF c.syn_rexmit_count = 0 THEN IW ELSE 1

(* TCPBaseAlg::sendData() and TCPConnection::sendData() with dataSent():   *)
(* what the window allows, from snd_max on or, after a retransmission      *)
(* timeout, from where that left off.  `idle' is that the connection has   *)
(* sent no data for more than the retransmission timeout.                  *)
SendData(c, idle) ==
    LET d == [c EXCEPT !.snd_nxt = IF c.afterRto THEN @ ELSE c.snd_max,
                       !.snd_cwnd = IF idle /\ c.snd_nxt < c.bufferEnd
                                    THEN Min({IW, @}) ELSE @]
        k == Min({d.bufferEnd - d.snd_nxt,
                  d.snd_cwnd - (d.snd_nxt - d.snd_una)})
        e == SendSegments(d, k) IN
    IF k <= 0 THEN d
    ELSE LET f == [e EXCEPT !.snd_max = Later(@, e.snd_nxt)] IN
         IF "REXMIT" \in f.timers THEN f ELSE StartRexmitTimer(f)

(* retransmitOneSegment(), as a retransmission timeout leaves snd_nxt.  The *)
(* assertions are its own and that of createSegmentWithBytes().            *)
RetransmitOneSegment(c) ==
    LET bytes == Min({1, c.snd_max - c.snd_una, c.bufferEnd - c.snd_una}) IN
    IF bytes <= 0 /\ c.send_fin /\ c.snd_fin_seq = c.bufferEnd
    THEN SendFin(c)
    ELSE IF bytes <= 0 \/ c.snd_una = c.iss
    THEN [c EXCEPT !.assertFailed = TRUE]
    ELSE SendSegments([c EXCEPT !.snd_nxt = c.snd_una], 1)

-----------------------------------------------------------------------------
(* The state machine: performStateTransition() and stateEntered().         *)

Synchronized == {"ESTABLISHED", "FIN_WAIT_1", "FIN_WAIT_2", "CLOSE_WAIT",
                 "CLOSING", "LAST_ACK", "TIME_WAIT"}
States == {"INIT", "LISTEN", "SYN_SENT", "SYN_RCVD", "CLOSED"} \cup Synchronized

FSM ==
    {<<"INIT", "OPEN_PASSIVE", "LISTEN">>, <<"INIT", "OPEN_ACTIVE", "SYN_SENT">>,
     <<"LISTEN", "CLOSE", "CLOSED">>, <<"LISTEN", "RCV_SYN", "SYN_RCVD">>,
     <<"SYN_RCVD", "CLOSE", "FIN_WAIT_1">>, <<"SYN_RCVD", "RCV_ACK", "ESTABLISHED">>,
     <<"SYN_RCVD", "RCV_FIN", "CLOSE_WAIT">>,
     <<"SYN_SENT", "CLOSE", "CLOSED">>, <<"SYN_SENT", "RCV_RST", "CLOSED">>,
     <<"SYN_SENT", "TIMEOUT_CONN_ESTAB", "CLOSED">>,
     <<"SYN_SENT", "RCV_SYN_ACK", "ESTABLISHED">>, <<"SYN_SENT", "RCV_SYN", "SYN_RCVD">>,
     <<"ESTABLISHED", "CLOSE", "FIN_WAIT_1">>, <<"ESTABLISHED", "RCV_FIN", "CLOSE_WAIT">>,
     <<"CLOSE_WAIT", "CLOSE", "LAST_ACK">>, <<"LAST_ACK", "RCV_ACK", "CLOSED">>,
     <<"FIN_WAIT_1", "RCV_FIN", "CLOSING">>, <<"FIN_WAIT_1", "RCV_ACK", "FIN_WAIT_2">>,
     <<"FIN_WAIT_1", "RCV_FIN_ACK", "TIME_WAIT">>, <<"FIN_WAIT_2", "RCV_FIN", "TIME_WAIT">>,
     <<"CLOSING", "RCV_ACK", "TIME_WAIT">>, <<"TIME_WAIT", "TIMEOUT_2MSL", "CLOSED">>}
    \cup {<<s, "RCV_RST", "CLOSED">> : s \in Synchronized}
    \cup {<<s, "RCV_UNEXP_SYN", "CLOSED">> : s \in Synchronized \cup {"SYN_RCVD"}}
    \cup {<<s, "ABORT", "CLOSED">> : s \in States \ {"INIT", "CLOSED"}}

(* The next state; a passive open that fails goes back to LISTEN.          *)
Target(c) ==
    LET rows == {t \in FSM : t[1] = c.state /\ t[2] = c.event} IN
    IF c.state = "SYN_RCVD" /\ c.event \in {"TIMEOUT_CONN_ESTAB", "RCV_RST"}
    THEN IF c.active THEN "CLOSED" ELSE "LISTEN"
    ELSE IF rows = {} THEN c.state ELSE (CHOOSE t \in rows : TRUE)[3]

(* Mutants of StateEntered: the setup timers are left at ESTABLISHED, and  *)
(* CLOSED is told after TIME_WAIT, too.                                    *)
StateEntered_KeepTimers(c, old) ==
    CASE c.state = "TIME_WAIT" -> Indicate(c, "CLOSED")
      [] c.state = "CLOSED" -> Indicate([c EXCEPT !.timers = {}], "CLOSED")
      [] OTHER -> c

StateEntered_ClosedTwice(c, old) ==
    CASE c.state = "CLOSE_WAIT" -> Indicate(Cancel(c, {"ESTAB", "SYN"}), "PEER_CLOSED")
      [] c.state = "TIME_WAIT" -> Indicate(c, "CLOSED")
      [] c.state = "CLOSED" -> Indicate([c EXCEPT !.timers = {}], "CLOSED")
      [] OTHER -> Cancel(c, {"ESTAB", "SYN"})

StateEntered(c, old) ==
    CASE c.state \in {"LISTEN", "ESTABLISHED", "LAST_ACK", "FIN_WAIT_1",
                      "FIN_WAIT_2", "CLOSING"} -> Cancel(c, {"ESTAB", "SYN"})
      [] c.state = "CLOSE_WAIT" -> Indicate(Cancel(c, {"ESTAB", "SYN"}), "PEER_CLOSED")
      [] c.state = "TIME_WAIT" -> Indicate(c, "CLOSED")
      [] c.state = "CLOSED" ->
            LET d == [c EXCEPT !.timers = {}] IN
            IF old # "TIME_WAIT" /\ c.event # "ABORT" THEN Indicate(d, "CLOSED") ELSE d
      [] OTHER -> c

Transition(c) ==
    LET d == [c EXCEPT !.state = Target(c)] IN
    IF d.state = c.state THEN c ELSE StateEntered(d, c.state)

Event(c, event) == [c EXCEPT !.event = event]

-----------------------------------------------------------------------------
(* A segment arrives: TCPConnectionRcvSegment.cc.                          *)

(* segmentArrivalWhileClosed(): a reset, acceptable to the sender of s; a  *)
(* segment without an ACK is a SYN.                                        *)
ResetFor(s) ==
    IF "ACK" \in s.flags
    THEN Segment({"RST"}, s.ack, None, None)
    ELSE Segment({"RST", "ACK"}, None, s.seq + 1, None)

(* processSegmentInListen().                                               *)
InListen(c, s) ==
    CASE "RST" \in s.flags -> c
      [] "RST" \notin s.flags /\ "ACK" \in s.flags -> SendRst(c, s.ack)
      [] s.flags = {"SYN"} ->
            LET d == [SelectInitialSeqNum(c) EXCEPT
                          !.rcv_nxt = s.seq + 1, !.buffered = {},
                          !.timers = @ \cup {"ESTAB"}] IN
            Event(StartSynRexmitTimer(SendSynAck(d)), "RCV_SYN")

(* processSegmentInSynSent().  With established(true), whose ACK may be    *)
(* the first data segment; a SYN alone is a simultaneous open.             *)
InSynSent(c, s, idle) ==
    LET badAck == "ACK" \in s.flags /\ (s.ack <= c.iss \/ s.ack > c.snd_nxt)
        d == [c EXCEPT !.rcv_nxt = s.seq + 1, !.buffered = {}] IN
    CASE badAck -> IF "RST" \in s.flags THEN c ELSE SendRst(c, s.ack)
      [] ~badAck /\ "RST" \in s.flags ->
            IF "ACK" \in s.flags THEN Event(Indicate(c, "CONNECTION_RESET"), "RCV_RST")
                                 ELSE c
      [] s.flags = {"SYN"} -> Event(StartSynRexmitTimer(SendSynAck(d)), "RCV_SYN")
      [] ~badAck /\ s.flags = {"SYN", "ACK"} ->
            LET e == SendData([d EXCEPT !.snd_una = s.ack,
                                         !.snd_cwnd = InitialWindow(c)], idle)
                f == IF e.out = d.out THEN SendAck(e) ELSE e IN
            Event(Indicate(f, "ESTABLISHED"), "RCV_SYN_ACK")
      [] OTHER -> c

(* isSegmentAcceptable(): in the window, or a new acknowledgement.         *)
IsSegmentAcceptable(c, s) ==
    IF s.data # None
    THEN c.rcv_nxt <= s.seq /\ s.seq < c.rcv_nxt + RcvWnd
    ELSE \/ c.rcv_nxt <= s.seq /\ s.seq <= c.rcv_nxt + RcvWnd
         \/ /\ "ACK" \in s.flags /\ c.snd_una < s.ack
            /\ s.ack <= IF c.afterRto THEN c.snd_max ELSE c.snd_nxt

(* The second step, a reset.                                               *)
ProcessRst(c) ==
    LET d == CASE c.state = "SYN_RCVD" ->
                    IF c.active THEN Indicate(c, "CONNECTION_REFUSED") ELSE c
               [] c.state \in {"ESTABLISHED", "FIN_WAIT_1", "FIN_WAIT_2", "CLOSE_WAIT"} ->
                    Indicate(c, "CONNECTION_RESET")
               [] OTHER -> c IN
    Event(d, "RCV_RST")

(* TCPReno::receivedDataAck(): the timer, the window and more data; those  *)
(* who call it reset dupacks then.                                         *)
ReceivedDataAck(c, idle) ==
    LET d == IF c.snd_una = c.snd_max THEN Cancel(c, {"REXMIT"}) ELSE StartRexmitTimer(c) IN
    SendData([d EXCEPT !.snd_cwnd = 2, !.dupacks = 0], idle)

(* Mutant of ReceivedDuplicateAck: the timer is cancelled and left to      *)
(* sendData(), which need not have anything more to send.                  *)
ReceivedDuplicateAck_Cancel(c, idle) ==
    LET d == IF c.dupacks = DupThresh THEN Cancel(RetransmitOneSegment(c), {"REXMIT"})
                                      ELSE c IN
    IF c.dupacks < DupThresh THEN c
    ELSE SendData([d EXCEPT !.snd_nxt = Later(c.snd_nxt, @), !.snd_cwnd = 2], idle)

(* TCPReno::receivedDuplicateAck(): at the third one a fast retransmit,    *)
(* which puts snd_nxt back and lets the timer run on; at the third one and *)
(* the later ones, counted as one more, a larger window and more data.     *)
ReceivedDuplicateAck(c, idle) ==
    LET d == IF c.dupacks = DupThresh THEN RetransmitOneSegment(c) ELSE c IN
    IF c.dupacks < DupThresh THEN c
    ELSE SendData([d EXCEPT !.snd_nxt = Later(c.snd_nxt, @), !.snd_cwnd = 2], idle)

(* Mutant of ProcessAckInEstabEtc: an ACK is taken for all of the data.    *)
ProcessAckInEstabEtc_All(c, s, idle) ==
    IF s.ack <= c.snd_una \/ s.data # None THEN c
    ELSE ReceivedDataAck([c EXCEPT !.snd_una = c.snd_max, !.snd_nxt = c.snd_max], idle)

(* processAckInEstabEtc() for an ACK that is not beyond snd_max.           *)
ProcessAckInEstabEtc(c, s, idle) ==
    LET d == [c EXCEPT !.snd_una = s.ack, !.snd_nxt = Later(@, s.ack),
                       !.fin_ack_rcvd = @ \/ (c.send_fin /\ s.ack = c.snd_fin_seq + 1)] IN
    IF s.ack = c.snd_una /\ s.data = None /\ c.snd_una # c.snd_max
    THEN ReceivedDuplicateAck(DupAcks(c, Min({c.dupacks + 1, DupThresh + 1})), idle)
    ELSE IF s.ack <= c.snd_una THEN DupAcks(c, 0)
    ELSE IF s.data = None /\ c.state # "SYN_RCVD" THEN ReceivedDataAck(d, idle)
    ELSE d

(* The fifth step after that, by state.                                    *)
ProcessAckByState(c) ==
    CASE c.state = "FIN_WAIT_1" /\ c.fin_ack_rcvd -> Event(c, "RCV_ACK")
      [] c.state = "CLOSING" /\ c.fin_ack_rcvd -> Event(Start(c, "2MSL"), "RCV_ACK")
      [] c.state = "TIME_WAIT" -> Start(SendAck(c), "2MSL")
      [] OTHER -> c

(* rcv_nxt moves over the FIN of the peer.                                 *)
AcceptFin(c) ==
    LET d == [c EXCEPT !.rcv_nxt = @ + 1] IN
    CASE c.state = "FIN_WAIT_1" /\ c.fin_ack_rcvd -> Event(Start(d, "2MSL"), "RCV_FIN_ACK")
      [] c.state \in {"FIN_WAIT_2", "TIME_WAIT"} -> Event(Start(d, "2MSL"), "RCV_FIN")
      [] OTHER -> Event(d, "RCV_FIN")

(* insertBytesFromSegment(): the first sequence number that is missing.    *)
FirstMissing(r, seqs) ==
    CHOOSE n \in r..(r + RcvWnd + 1) : n \notin seqs /\ r..(n - 1) \subseteq seqs

(* Mutant of ProcessText: what arrives goes to the application at once.    *)
ProcessText_AsItComes(c, s, old_snd_una, idle) ==
    LET d == [c EXCEPT !.rcv_nxt = s.seq + 1, !.got = Append(@, s.data)]
        e == IF c.snd_una > old_snd_una THEN ReceivedDataAck(d, idle) ELSE d IN
    IF "FIN" \in s.flags \/ e.out # d.out THEN e ELSE SendAck(e)

(* The seventh step: the text goes to the application as far as it is      *)
(* complete, and an earlier FIN may become due.                            *)
ProcessText(c, s, old_snd_una, idle) ==
    LET all == c.buffered \cup {[seq |-> s.seq, data |-> s.data]}
        nxt == FirstMissing(c.rcv_nxt, {b.seq : b \in all})
        at(n) == (CHOOSE b \in all : b.seq = n).data
        d == [c EXCEPT !.rcv_nxt = nxt, !.buffered = {b \in all : b.seq >= nxt},
                       !.got = @ \o [i \in 1..(nxt - c.rcv_nxt) |-> at(c.rcv_nxt + i - 1)]]
        e == IF c.snd_una > old_snd_una THEN ReceivedDataAck(d, idle) ELSE d IN
    IF nxt = c.rcv_nxt THEN SendAck(e)
    ELSE IF nxt = c.rcv_fin_seq THEN SendAck(AcceptFin(e))
    ELSE IF "FIN" \in s.flags \/ e.out # d.out THEN e
    ELSE SendAck(e)

(* Mutant of ProcessFin: a FIN above sequence is accepted.                 *)
ProcessFin_Above(c, s) == SendAck(AcceptFin(c))

(* The eighth step: a FIN above sequence is remembered.                    *)
ProcessFin(c, s) ==
    LET fin_seq == s.seq + (IF s.data = None THEN 0 ELSE 1) IN
    IF c.rcv_nxt = fin_seq THEN SendAck(AcceptFin(c))
    ELSE [c EXCEPT !.rcv_fin_seq = fin_seq]

(* The end of the segment: a CLOSE that had to wait for the send queue.    *)
DeferredClose(c, old_snd_nxt) ==
    IF /\ c.send_fin /\ c.snd_nxt = c.snd_fin_seq + 1
       /\ \/ c.state \in {"ESTABLISHED", "SYN_RCVD"}
          \/ c.state = "CLOSE_WAIT" /\ old_snd_nxt # c.snd_nxt
    THEN Event(c, "CLOSE") ELSE c

(* The steps from the ACK field on.                                        *)
ProcessFrom5th(c, s, idle) ==
    LET a == IF c.state = "SYN_RCVD"
             THEN Event(Indicate([c EXCEPT !.snd_cwnd = InitialWindow(c)], "ESTABLISHED"),
                        "RCV_ACK")
             ELSE c
        b == IF c.state = "TIME_WAIT" THEN a ELSE ProcessAckInEstabEtc(a, s, idle)
        d == ProcessAckByState(b)
        e == IF /\ s.data # None
                /\ c.state \in {"SYN_RCVD", "ESTABLISHED", "FIN_WAIT_1", "FIN_WAIT_2"}
             THEN ProcessText(d, s, c.snd_una, idle) ELSE d
        f == IF "FIN" \in s.flags THEN ProcessFin(e, s) ELSE e IN
    IF c.state # "TIME_WAIT" /\ s.ack > c.snd_max THEN DupAcks(SendAck(c), 0)
    ELSE IF c.state = "LAST_ACK" /\ c.send_fin /\ s.ack = c.snd_fin_seq + 1
    THEN Event(b, "RCV_ACK")
    ELSE DeferredClose(f, c.snd_nxt)

(* processSegment1stThru8th().                                             *)
Process1stThru8th(c, s, idle) ==
    IF ~IsSegmentAcceptable(c, s)
    THEN IF "RST" \in s.flags THEN c ELSE SendAck(c)
    ELSE IF "RST" \in s.flags THEN ProcessRst(c)
    ELSE IF "SYN" \in s.flags
    THEN Event(Indicate(c, "CONNECTION_RESET"), "RCV_UNEXP_SYN")
    ELSE IF c.state = "SYN_RCVD" /\ (s.ack < c.snd_una \/ s.ack > c.snd_nxt)
    THEN SendRst(c, s.ack)
    ELSE ProcessFrom5th(c, s, idle)

(* process_RCV_SEGMENT().                                                  *)
ProcessSegment(c, s, idle) ==
    CASE c.state = "LISTEN" -> InListen(c, s)
      [] c.state = "SYN_SENT" -> InSynSent(c, s, idle)
      [] OTHER -> Process1stThru8th(c, s, idle)
=============================================================================

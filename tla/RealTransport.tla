--------------------------- MODULE RealTransport ---------------------------
(***************************************************************************)
(* The message transport of the Java side: AbstractRealTransport with      *)
(* RealTransportUDP underneath, one instance per host.                     *)
(*                                                                         *)
(* Three kinds of threads work on an instance.  The event thread runs the  *)
(* application's calls, the request timers and the ReceiveEvents; two pool *)
(* threads run the jobs of the executor, which serialize, send and         *)
(* unserialize messages; the receiver thread turns datagrams into jobs.    *)
(* They share openCallbacks, a LinkedHashMap without a lock.  Its remove() *)
(* finds the entry first and unlinks it then, and is two steps here: what  *)
(* another thread does to the same bucket in between is a data race, and   *)
(* every outcome of it is a choice of the model.                           *)
(*                                                                         *)
(* A message is the index of its record in `msgs'; a callback is the index *)
(* of the request it belongs to.  Timers may fire at any moment.           *)
(***************************************************************************)
EXTENDS Integers, Sequences, FiniteSets

CONSTANTS
    Hosts,          \* the transport instances
    Workers,        \* the threads of an instance's pool
    Buckets,        \* the size of the hash table behind openCallbacks
    Queueing,       \* the hosts with a MessageQueueService
    MaxMsgs,        \* bound: messages created
    MaxFaults       \* bound: sockets that cannot be opened, datagrams lost or
                    \* duplicated, receiver threads that die, messages refused
                    \* by a FirewallService, and exceptions of the serializers
                    \* and of piggyback services

ASSUME HostAssumption == IsFiniteSet(Hosts) /\ Queueing \subseteq Hosts

ASSUME BoundAssumption ==
    MaxMsgs \in Nat /\ MaxFaults \in Nat /\ Buckets \in Nat \ {0}

VARIABLES
    currentID,  \* the next communication identifier of a host
    open,       \* openCallbacks: the requests whose callback is in the map
    timers,     \* the requests whose timeout event is still to come
    held,       \* messages in the hands of the MessageQueueService
    queue,      \* the executor's queue of jobs
    worker,     \* the received message a pool thread is working on
    evt,        \* the request whose timeout the event thread is handling
    events,     \* the ReceiveEvents waiting for the event thread
    listening,  \* a TransMessageListener has been set
    rx,         \* the MsgReceiverThread: running, dead, or none for no socket
    net,        \* datagrams in the network
    faults,     \* how much has gone wrong
    halted,     \* "No Handler!" has ended the event loop
    msgs,       \* history: every message, [src, dst, id, re, origin]: the one
                \* it answers, and the first of the chain of answers
    outcomes,   \* history: how often a request's callback was called
    taken,      \* history: <<r, n>>: message n was given to r's callback
    inbox,      \* history: messages given to a host's listener
    copied,     \* history: messages the network has duplicated
    refused,    \* history: messages a FirewallService has refused
    uncreated,  \* history: requests whose callback a failed create() dropped
    raced       \* history: hosts where a data race on the map has happened

hist == <<msgs, outcomes, taken, inbox, copied, refused, uncreated>>
vars == <<currentID, open, timers, held, queue, worker, evt, events,
          listening, rx, net, faults, halted, hist, raced>>

Idle == [msg |-> 0, cb |-> 0]
Messages == 1..Len(msgs)

Init ==
    /\ currentID = [h \in Hosts |-> 0]
    /\ open = [h \in Hosts |-> {}]
    /\ timers = [h \in Hosts |-> {}]
    /\ held = [h \in Hosts |-> {}]
    /\ queue = [h \in Hosts |-> << >>]
    /\ worker = [h \in Hosts |-> [w \in Workers |-> Idle]]
    /\ evt = [h \in Hosts |-> 0]
    /\ events = [h \in Hosts |-> << >>]
    /\ listening = [h \in Hosts |-> FALSE]
    /\ rx \in [Hosts -> {"running", "none"}]
    /\ faults = Cardinality({h \in Hosts : rx[h] = "none"}) /\ faults <= MaxFaults
    /\ net = {}
    /\ halted = FALSE
    /\ msgs = << >> /\ outcomes = << >> /\ taken = {}
    /\ copied = {} /\ refused = {} /\ uncreated = {}
    /\ inbox = [h \in Hosts |-> {}]
    /\ raced = {}

(* One more thing goes wrong.                                              *)
Fault == faults < MaxFaults /\ faults' = faults + 1

-----------------------------------------------------------------------------
(* openCallbacks.                                                          *)

(* Mutant of Lookup: any entry.                                            *)
Lookup_Any(h, n) == IF open[h] # {} THEN CHOOSE r \in open[h] : TRUE ELSE 0

(* openCallbacks.get(id) for the identifier of message n: the request, or  *)
(* 0 for null.                                                             *)
Lookup(h, n) ==
    IF \E r \in open[h] : msgs[r].id = msgs[n].id
    THEN CHOOSE r \in open[h] : msgs[r].id = msgs[n].id
    ELSE 0

(* Requests a remove() is under way for: found, not yet unlinked.          *)
Removing(h) == ({worker[h][w].cb : w \in Workers} \cup {evt[h]}) \ {0}

SameBucket(i, j) == i % Buckets = j % Buckets

(* Another thread is in the middle of a remove() in the bucket of id.      *)
Contended(h, id) == \E r \in Removing(h) : SameBucket(msgs[r].id, id)

NoteRace(h, race) == raced' = IF race THEN raced \cup {h} ELSE raced

(* Mutant of Unlink: get() instead of remove().                            *)
Unlink_Get(h, r) == UNCHANGED open

(* The second half of remove().  A concurrent remove() of another key of   *)
(* the bucket may write back the link that was just cut, and the entry     *)
(* stays.                                                                  *)
Unlink(h, r) ==
    \/ open' = [open EXCEPT ![h] = @ \ {r}]
    \/ /\ \E q \in Removing(h) \ {r} : SameBucket(msgs[q].id, msgs[r].id)
       /\ UNCHANGED open

(* put(): r replaces what is stored under its identifier, or, when it      *)
(* chains r to an entry another thread is unlinking, is lost.              *)
Put(h, r, id) ==
    /\ \/ open' = [open EXCEPT ![h] =
                      {q \in open[h] : msgs[q].id # id} \cup {r}]
       \/ Contended(h, id) /\ UNCHANGED open
    /\ NoteRace(h, Contended(h, id))

-----------------------------------------------------------------------------
(* Calls of the application, on the event thread.                          *)

(* The event thread is between two events.                                 *)
EventThread(h) == evt[h] = 0

setTransportMessageListener(h) ==
    /\ EventThread(h) /\ ~listening[h]
    /\ listening' = [listening EXCEPT ![h] = TRUE]
    /\ UNCHANGED <<currentID, open, timers, held, queue, worker, evt, events,
                   rx, net, faults, halted, hist, raced>>

Job(kind, n) == [kind |-> kind, msg |-> n]

Execute(h, kind, n) == queue' = [queue EXCEPT ![h] = Append(@, Job(kind, n))]

(* doSend(): refused by a firewall, handed to the queue service, or put    *)
(* into the executor's queue.                                              *)
doSend(h, d, n) ==
    \/ /\ Fault
       /\ refused' = refused \cup {n}
       /\ UNCHANGED <<held, queue>>
    \/ /\ h \in Queueing
       /\ held' = [held EXCEPT ![h] = @ \cup {n}]
       /\ UNCHANGED <<queue, refused, faults>>
    \/ /\ h \notin Queueing
       /\ Execute(h, "serialize", n)
       /\ UNCHANGED <<held, refused, faults>>

(* The record of a new message, and its passage through doSend().          *)
Record(h, d, id, re) ==
    [src |-> h, dst |-> d, id |-> id, re |-> re,
     origin |-> IF re = 0 THEN Len(msgs) + 1 ELSE msgs[re].origin]

Submit(h, d, id, re) ==
    LET n == Len(msgs) + 1
    IN  /\ n <= MaxMsgs
        /\ msgs' = Append(msgs, Record(h, d, id, re))
        /\ outcomes' = Append(outcomes, 0)
        /\ doSend(h, d, n)
        /\ UNCHANGED <<taken, inbox, copied, uncreated, worker, evt, events,
                       listening, rx, net, halted>>

send(h, d) ==
    /\ EventThread(h)
    /\ Submit(h, d, currentID[h], 0)
    /\ currentID' = [currentID EXCEPT ![h] = @ + 1]
    /\ UNCHANGED <<open, timers, raced>>

(* Mutants of sendAndWait: currentID instead of currentID++ with a list of *)
(* callbacks instead of a map, and no timeout event.                       *)
sendAndWait_SameId(h, d) ==
    LET r == Len(msgs) + 1
    IN  /\ EventThread(h)
        /\ open' = [open EXCEPT ![h] = @ \cup {r}]
        /\ timers' = [timers EXCEPT ![h] = @ \cup {r}]
        /\ Submit(h, d, currentID[h], 0)
        /\ UNCHANGED <<currentID, raced>>

sendAndWait_NoTimer(h, d) ==
    /\ EventThread(h)
    /\ currentID' = [currentID EXCEPT ![h] = @ + 1]
    /\ Put(h, Len(msgs) + 1, currentID[h])
    /\ Submit(h, d, currentID[h], 0)
    /\ UNCHANGED timers

sendAndWait(h, d) ==
    LET r == Len(msgs) + 1
    IN  /\ EventThread(h)
        /\ currentID' = [currentID EXCEPT ![h] = @ + 1]
        /\ Put(h, r, currentID[h])
        /\ timers' = [timers EXCEPT ![h] = @ \cup {r}]
        /\ Submit(h, d, currentID[h], 0)

(* The application answers a message its listener was given, under the     *)
(* identifier it was given with it: a request, or a reply that came late,  *)
(* which looks like one; and as often as it likes.                         *)
sendReply(h, n) ==
    /\ EventThread(h)
    /\ n \in inbox[h]
    /\ Submit(h, msgs[n].src, msgs[n].id, n)
    /\ UNCHANGED <<currentID, open, timers, raced>>

(* The queue service calls sendMessage() or dropMessage() of its callback. *)
QueueService(h, n) ==
    /\ n \in held[h]
    /\ held' = [held EXCEPT ![h] = @ \ {n}]
    /\ Execute(h, "serialize", n) \/ UNCHANGED queue
    /\ UNCHANGED <<currentID, open, timers, worker, evt, events, listening,
                   rx, net, faults, halted, hist, raced>>

-----------------------------------------------------------------------------
(* The executor's pool.                                                    *)

NextJob(h, kind) == queue[h] # << >> /\ Head(queue[h]).kind = kind

Dequeued(h) == [queue EXCEPT ![h] = Tail(@)]

(* A free pool thread runs SerializeAndSend, which puts a MsgSenderRunnable*)
(* into the queue, or fails.                                               *)
SerializeAndSend(h, w) ==
    LET n == Head(queue[h]).msg
    IN  /\ worker[h][w] = Idle
        /\ NextJob(h, "serialize")
        /\ \/ /\ queue' = [queue EXCEPT ![h] = Append(Tail(@), Job("send", n))]
              /\ UNCHANGED faults
           \/ Fault /\ queue' = Dequeued(h)
        /\ UNCHANGED <<currentID, open, timers, held, worker, evt, events,
                       listening, rx, net, halted, hist, raced>>

(* MsgSenderRunnable: socket.send().  Without a socket it ends in a        *)
(* NullPointerException and the message is gone.                           *)
MsgSenderRunnable(h, w) ==
    LET n == Head(queue[h]).msg
    IN  /\ worker[h][w] = Idle
        /\ NextJob(h, "send")
        /\ queue' = Dequeued(h)
        /\ net' = IF rx[h] # "none" THEN net \cup {n} ELSE net
        /\ UNCHANGED <<currentID, open, timers, held, worker, evt, events,
                       listening, rx, faults, halted, hist, raced>>

(* Mutant of Unserialize: `ignore' is computed and not looked at.          *)
Unserialize_NoFirewall(h, w) ==
    LET n == Head(queue[h]).msg
        r == Lookup(h, n)
    IN  /\ worker[h][w] = Idle
        /\ NextJob(h, "unserialize")
        /\ queue' = Dequeued(h)
        /\ worker' = [worker EXCEPT ![h][w] = [msg |-> n, cb |-> r]]
        /\ NoteRace(h, r # 0 /\ Contended(h, msgs[r].id))
        /\ \/ Fault /\ refused' = refused \cup {n}
           \/ UNCHANGED <<faults, refused>>
        /\ UNCHANGED <<currentID, open, timers, held, evt, events, listening,
                       rx, net, halted, msgs, outcomes, taken, inbox, copied,
                       uncreated>>

(* UnserializeAndReceive, first half: the firewalls, the header, the       *)
(* piggybacked messages, and the lookup of openCallbacks.remove().         *)
Unserialize(h, w) ==
    LET n == Head(queue[h]).msg
        r == Lookup(h, n)
    IN  /\ worker[h][w] = Idle
        /\ NextJob(h, "unserialize")
        /\ queue' = Dequeued(h)
        /\ \/ /\ Fault
              /\ refused' \in {refused, refused \cup {n}}
              /\ UNCHANGED <<worker, raced>>
           \/ /\ worker' = [worker EXCEPT ![h][w] = [msg |-> n, cb |-> r]]
              /\ NoteRace(h, r # 0 /\ Contended(h, msgs[r].id))
              /\ UNCHANGED <<faults, refused>>
        /\ UNCHANGED <<currentID, open, timers, held, evt, events, listening,
                       rx, net, halted, msgs, outcomes, taken, inbox, copied,
                       uncreated>>

(* Second half: unlink the entry, create the message, and post a           *)
(* ReceiveEvent with the callback and the listener of this moment.  When   *)
(* create() throws, the callback is out of the map and nothing is posted.  *)
PostReceiveEvent(h, w) ==
    LET n == worker[h][w].msg
        r == worker[h][w].cb
    IN  /\ n # 0
        /\ worker' = [worker EXCEPT ![h][w] = Idle]
        /\ IF r # 0 THEN Unlink(h, r) ELSE UNCHANGED open
        /\ \/ /\ events' = [events EXCEPT ![h] =
                               Append(@, [msg |-> n, cb |-> r, ls |-> listening[h]])]
              /\ UNCHANGED <<uncreated, faults>>
           \/ /\ Fault
              /\ uncreated' = uncreated \cup ({r} \ {0})
              /\ UNCHANGED events
        /\ UNCHANGED <<currentID, timers, held, queue, evt, listening, rx, net,
                       halted, msgs, outcomes, taken, inbox, copied, refused,
                       raced>>

-----------------------------------------------------------------------------
(* Events.                                                                 *)

(* Mutant of TimeoutOccurred: the callback is removed and not called.      *)
TimeoutOccurred_Silent(h, t) ==
    /\ EventThread(h) /\ t \in timers[h]
    /\ timers' = [timers EXCEPT ![h] = @ \ {t}]
    /\ open' = [open EXCEPT ![h] = @ \ {Lookup(h, t)}]
    /\ UNCHANGED <<currentID, held, queue, worker, evt, events, listening,
                   rx, net, faults, halted, hist, raced>>

(* eventOccurred() of the transport, for the timer of request t: the       *)
(* lookup of openCallbacks.remove(type).  What it finds is the callback    *)
(* stored under the identifier, if there is one.                           *)
TimeoutOccurred(h, t) ==
    LET r == Lookup(h, t)
    IN  /\ EventThread(h) /\ t \in timers[h]
        /\ timers' = [timers EXCEPT ![h] = @ \ {t}]
        /\ evt' = [evt EXCEPT ![h] = r]
        /\ NoteRace(h, r # 0 /\ Contended(h, msgs[r].id))
        /\ UNCHANGED <<currentID, open, held, queue, worker, events,
                       listening, rx, net, faults, halted, hist>>

(* ... and the rest: unlink the entry, call messageTimeoutOccured().       *)
messageTimeoutOccured(h) ==
    /\ evt[h] # 0
    /\ Unlink(h, evt[h])
    /\ outcomes' = [outcomes EXCEPT ![evt[h]] = @ + 1]
    /\ evt' = [evt EXCEPT ![h] = 0]
    /\ UNCHANGED <<currentID, timers, held, queue, worker, events, listening,
                   rx, net, faults, halted, msgs, taken, inbox, copied, refused,
                   uncreated, raced>>

(* Mutant of ReceiveEvent: no `else' before the listener.                  *)
ReceiveEvent_Both(h) ==
    LET e == Head(events[h])
    IN  /\ EventThread(h) /\ events[h] # << >>
        /\ events' = [events EXCEPT ![h] = Tail(@)]
        /\ e.cb # 0
        /\ outcomes' = [outcomes EXCEPT ![e.cb] = @ + 1]
        /\ taken' = taken \cup {<<e.cb, e.msg>>}
        /\ inbox' = [inbox EXCEPT ![h] = @ \cup {e.msg}]
        /\ UNCHANGED <<currentID, open, timers, held, queue, worker, evt,
                       listening, rx, net, faults, halted, msgs, copied, refused, uncreated,
                       raced>>

(* ReceiveEvent: the callback, or else the listener, or "No Handler!".     *)
ReceiveEvent(h) ==
    LET e == Head(events[h])
    IN  /\ EventThread(h) /\ events[h] # << >>
        /\ events' = [events EXCEPT ![h] = Tail(@)]
        /\ \/ /\ e.cb # 0
              /\ outcomes' = [outcomes EXCEPT ![e.cb] = @ + 1]
              /\ taken' = taken \cup {<<e.cb, e.msg>>}
              /\ UNCHANGED <<inbox, halted>>
           \/ /\ e.cb = 0 /\ e.ls
              /\ inbox' = [inbox EXCEPT ![h] = @ \cup {e.msg}]
              /\ UNCHANGED <<outcomes, taken, halted>>
           \/ /\ e.cb = 0 /\ ~e.ls
              /\ halted' = TRUE
              /\ UNCHANGED <<outcomes, taken, inbox>>
        /\ UNCHANGED <<currentID, open, timers, held, queue, worker, evt,
                       listening, rx, net, faults, msgs, copied, refused, uncreated,
                       raced>>

-----------------------------------------------------------------------------
(* The network and the receiver thread.                                    *)

(* MsgReceiverThread: socket.receive() returns a datagram, which the       *)
(* network may deliver once more later.                                    *)
MsgReceiverThread(n) ==
    LET h == msgs[n].dst
    IN  /\ n \in net /\ rx[h] = "running"
        /\ Execute(h, "unserialize", n)
        /\ \/ net' = net \ {n} /\ UNCHANGED <<faults, copied>>
           \/ Fault /\ copied' = copied \cup {n} /\ UNCHANGED net
        /\ UNCHANGED <<currentID, open, timers, held, worker, evt, events,
                       listening, rx, halted, msgs, outcomes, taken, inbox,
                       refused, uncreated, raced>>

Lose(n) ==
    /\ n \in net /\ Fault
    /\ net' = net \ {n}
    /\ UNCHANGED <<currentID, open, timers, held, queue, worker, evt, events,
                   listening, rx, halted, hist, raced>>

(* An IOException ends the receiver thread for good.                       *)
ReceiverDies(h) ==
    /\ rx[h] = "running" /\ Fault
    /\ rx' = [rx EXCEPT ![h] = "dead"]
    /\ UNCHANGED <<currentID, open, timers, held, queue, worker, evt, events,
                   listening, net, halted, hist, raced>>

-----------------------------------------------------------------------------
Application(h) ==
    \/ setTransportMessageListener(h)
    \/ \E d \in Hosts \ {h} : send(h, d) \/ sendAndWait(h, d)
    \/ \E n \in inbox[h] : sendReply(h, n)
    \/ \E n \in held[h] : QueueService(h, n)

Pool(h) ==
    \E w \in Workers : \/ SerializeAndSend(h, w) \/ MsgSenderRunnable(h, w)
                       \/ Unserialize(h, w) \/ PostReceiveEvent(h, w)

Timer(h) == \E t \in timers[h] : TimeoutOccurred(h, t)

Network ==
    \/ \E n \in net : MsgReceiverThread(n) \/ Lose(n)
    \/ \E h \in Hosts : ReceiverDies(h)

HostStep(h) == Application(h) \/ Pool(h) \/ Timer(h)
               \/ messageTimeoutOccured(h) \/ ReceiveEvent(h)

Next == ~halted /\ (Network \/ \E h \in Hosts : HostStep(h))

Spec == Init /\ [][Next]_vars

(* The pool threads, the event loop and the timers go on; the application, *)
(* the queue service and the network need not do anything.                 *)
FairSpec ==
    /\ Spec
    /\ \A h \in Hosts :
          /\ WF_vars(~halted /\ Pool(h))
          /\ WF_vars(~halted /\ Timer(h))
          /\ WF_vars(~halted /\ messageTimeoutOccured(h))
          /\ WF_vars(~halted /\ ReceiveEvent(h))

-----------------------------------------------------------------------------
Types ==
    /\ currentID \in [Hosts -> Nat]
    /\ open \in [Hosts -> SUBSET Messages]
    /\ timers \in [Hosts -> SUBSET Messages]
    /\ held \in [Hosts -> SUBSET Messages]
    /\ queue \in [Hosts -> Seq([kind : {"serialize", "send", "unserialize"},
                                msg : Messages])]
    /\ worker \in [Hosts -> [Workers -> [msg : 0..Len(msgs), cb : 0..Len(msgs)]]]
    /\ evt \in [Hosts -> 0..Len(msgs)]
    /\ events \in [Hosts -> Seq([msg : Messages, cb : 0..Len(msgs), ls : BOOLEAN])]
    /\ listening \in [Hosts -> BOOLEAN]
    /\ rx \in [Hosts -> {"running", "dead", "none"}]
    /\ net \subseteq Messages /\ faults \in 0..MaxFaults /\ halted \in BOOLEAN
    /\ msgs \in Seq([src : Hosts, dst : Hosts, id : Nat, re : Nat,
                   origin : Nat])
    /\ outcomes \in Seq(Nat) /\ Len(outcomes) = Len(msgs)
    /\ taken \subseteq Messages \X Messages
    /\ inbox \in [Hosts -> SUBSET Messages]
    /\ raced \subseteq Hosts /\ uncreated \subseteq Messages
    /\ copied \subseteq Messages /\ refused \subseteq Messages

(* Types; a host's open requests are its own messages, with distinct       *)
(* identifiers.                                                            *)
TypeOK ==
    /\ Types
    /\ \A h \in Hosts : \A r \in open[h] :
          /\ msgs[r].src = h
          /\ \A q \in open[h] : msgs[q].id = msgs[r].id => q = r

(* The callback of a request is called at most once, with a reply or with  *)
(* a timeout, unless two threads were inside the same bucket of            *)
(* openCallbacks at the same time.                                         *)
OneOutcome ==
    \A r \in Messages : outcomes[r] > 1 => msgs[r].src \in raced

(* Message n is a direct answer to request r, or goes back to a message    *)
(* another host has numbered; or a data race has left the callback of r in *)
(* the map after its answer, and n answers what was answered to that.      *)
Answers(r, n) ==
    \/ msgs[n].re = r
    \/ msgs[msgs[n].origin].src # msgs[r].src
    \/ msgs[n].origin = r /\ msgs[r].src \in raced

(* What a callback receives carries the identifier of its request, and     *)
(* answers it, and no other message of its host, unless the identifier was *)
(* chosen by another host and collides.                                    *)
ReplyOrCollision ==
    \A r, n \in Messages : <<r, n>> \in taken =>
        /\ msgs[n].dst = msgs[r].src /\ msgs[n].id = msgs[r].id
        /\ Answers(r, n)

(* A callback in the map has a timer that will take it out, so that        *)
(* openCallbacks does not grow for ever.                                   *)
NoLeak ==
    \A h \in Hosts \ raced : \A r \in open[h] : r \in timers[h] \/ evt[h] = r

(* The network duplicates datagrams, the transport does not: a message is  *)
(* given to one callback, or to the listener, and not to both.             *)
HandedUpOnce ==
    \A n \in Messages \ copied :
        /\ Cardinality({r \in Messages : <<r, n>> \in taken}) <= 1
        /\ n \in inbox[msgs[n].dst] => \A r \in Messages : <<r, n>> \notin taken

(* What a FirewallService on either side refuses reaches neither a         *)
(* callback nor a listener, a reply included; only a copy of it made by    *)
(* the network may pass at another time.                                   *)
FirewallHolds ==
    \A n \in refused \ copied : /\ \A r \in Messages : <<r, n>> \notin taken
                                /\ \A h \in Hosts : n \notin inbox[h]

(* Every request ends with a call of its callback, whatever is lost,       *)
(* refused, dropped or dead on the way.  Three things stand against it: a  *)
(* data race on the map, "No Handler!", which ends the event loop, and a   *)
(* create() that throws when the callback is already out of the map.       *)
Resolved ==
    \A h \in Hosts : \A r \in 1..MaxMsgs :
        (r \in timers[h]) ~> (\/ r \in Messages /\ outcomes[r] > 0
                              \/ r \in uncreated
                              \/ halted \/ h \in raced)

-----------------------------------------------------------------------------
(* The inductive invariant behind the safety properties.                   *)

(* A host numbers its own messages under its counter; a reply goes back to *)
(* the sender of what it answers, under its identifier.                    *)
Numbered(n) ==
    /\ msgs[n].src # msgs[n].dst
    /\ msgs[n].origin \in Messages
    /\ msgs[msgs[n].origin].re = 0
    /\ msgs[msgs[n].origin].id = msgs[n].id
    /\ msgs[n].re = 0 =>
         /\ msgs[n].origin = n
         /\ msgs[n].id < currentID[msgs[n].src]
    /\ msgs[n].re # 0 =>
         /\ msgs[n].re \in Messages
         /\ msgs[msgs[n].re].src = msgs[n].dst
         /\ msgs[msgs[n].re].origin = msgs[n].origin

(* ... and no two that a host has numbered have the same identifier.       *)
NumberInv ==
    /\ \A n \in Messages : Numbered(n)
    /\ \A n, m \in Messages :
          /\ msgs[n].re = 0 /\ msgs[m].re = 0
          /\ msgs[n].src = msgs[m].src /\ msgs[n].id = msgs[m].id
          => n = m

(* A message is only where its sender or its receiver has it.              *)
RouteInv ==
    \A h \in Hosts :
       /\ \A n \in held[h] : msgs[n].src = h
       /\ \A i \in DOMAIN queue[h] :
             IF queue[h][i].kind = "unserialize"
             THEN msgs[queue[h][i].msg].dst = h
             ELSE msgs[queue[h][i].msg].src = h
       /\ \A w \in Workers :
             worker[h][w].msg # 0 => msgs[worker[h][w].msg].dst = h
       /\ \A i \in DOMAIN events[h] : msgs[events[h][i].msg].dst = h
       /\ \A n \in inbox[h] : msgs[n].dst = h

(* Message r is a request, or a plain message, that host h has numbered.   *)
Own(h, r) == r \in Messages /\ msgs[r].src = h /\ msgs[r].re = 0

(* Callbacks are those of a host's own requests, and the callback a        *)
(* received message has been matched with has its identifier.              *)
OwnInv ==
    \A h \in Hosts :
       /\ \A r \in open[h] \cup timers[h] : Own(h, r)
       /\ evt[h] # 0 => Own(h, evt[h])
       /\ \A w \in Workers : worker[h][w].cb # 0 =>
             /\ Own(h, worker[h][w].cb)
             /\ worker[h][w].msg # 0
             /\ msgs[worker[h][w].cb].id = msgs[worker[h][w].msg].id
       /\ \A i \in DOMAIN events[h] : events[h][i].cb # 0 =>
             /\ Own(h, events[h][i].cb)
             /\ msgs[events[h][i].cb].id = msgs[events[h][i].msg].id

(* What has been matched with a callback answers its request.              *)
MatchInv ==
    \A h \in Hosts :
       /\ \A w \in Workers :
             worker[h][w].cb # 0 => Answers(worker[h][w].cb, worker[h][w].msg)
       /\ \A i \in DOMAIN events[h] :
             events[h][i].cb # 0 => Answers(events[h][i].cb, events[h][i].msg)

(* No answer to request r, and no answer to an answer, has passed by the   *)
(* map of its host h, nor has the host sent one itself.                    *)
Unanswered(h, r) ==
    /\ \A n \in inbox[h] : msgs[n].origin # r
    /\ \A i \in DOMAIN events[h] :
          events[h][i].cb = 0 => msgs[events[h][i].msg].origin # r
    /\ \A w \in Workers :
          worker[h][w].msg # 0 /\ worker[h][w].cb = 0
          => msgs[worker[h][w].msg].origin # r
    /\ \A n \in Messages : msgs[n].src = h /\ msgs[n].origin = r => n = r

(* That is so for every request in the map, wherever no data race has      *)
(* happened: what belongs to the request finds its callback.               *)
AnswerInv == \A h \in Hosts \ raced : \A r \in open[h] : Unanswered(h, r)

Some(q, M) == \E i \in DOMAIN q : q[i] \in M

Once(q, M) == \A i, j \in DOMAIN q : q[i] \in M /\ q[j] \in M => i = j

(* The ReceiveEvents that will call the callback of request r.             *)
EventsFor(r) == [msg : Nat, cb : {r}, ls : BOOLEAN]

(* No two threads are inside one bucket of the map of host h, what a       *)
(* thread is removing is still there, and the callback of a request is in  *)
(* the map, in one ReceiveEvent, or has been called, but only one of these.*)
Callbacks(h) ==
    /\ \A w \in Workers : worker[h][w].cb # 0 =>
          /\ worker[h][w].cb \in open[h]
          /\ \A v \in Workers \ {w} : worker[h][v].cb # 0 =>
                ~SameBucket(msgs[worker[h][w].cb].id, msgs[worker[h][v].cb].id)
          /\ evt[h] # 0 =>
                ~SameBucket(msgs[worker[h][w].cb].id, msgs[evt[h]].id)
    /\ evt[h] # 0 => evt[h] \in open[h]
    /\ \A r \in Messages :
          msgs[r].src = h =>
             /\ outcomes[r] <= 1
             /\ Once(events[h], EventsFor(r))
             /\ Some(events[h], EventsFor(r)) => outcomes[r] = 0 /\ r \notin open[h]
             /\ r \in open[h] => outcomes[r] = 0

(* That is so wherever no data race has happened.                          *)
CallbackInv == \A h \in Hosts \ raced : Callbacks(h)

(* Where a message can be.                                                 *)
Kept(n) == n \in held[msgs[n].src]
SendJobs(n) == [kind : {"serialize", "send"}, msg : {n}]
ReceiveJobs(n) == [kind : {"unserialize"}, msg : {n}]
EventsOf(n) == [msg : {n}, cb : Nat, ls : BOOLEAN]
Sending(n) == Some(queue[msgs[n].src], SendJobs(n))
Received(n) == Some(queue[msgs[n].dst], ReceiveJobs(n))
Matched(n) == \E w \in Workers : worker[msgs[n].dst][w].msg = n
Posted(n) == Some(events[msgs[n].dst], EventsOf(n))
Given(n) == n \in inbox[msgs[n].dst] \/ \E r \in Messages : <<r, n>> \in taken

Somewhere(n) == Kept(n) \/ Sending(n) \/ n \in net \/ Received(n) \/ Matched(n)
                \/ Posted(n) \/ Given(n)

(* No place has message n twice.                                           *)
Single(n) ==
    /\ Once(queue[msgs[n].src], SendJobs(n))
    /\ Once(queue[msgs[n].dst], ReceiveJobs(n))
    /\ Once(events[msgs[n].dst], EventsOf(n))
    /\ \A w, v \in Workers :
          worker[msgs[n].dst][w].msg = n /\ worker[msgs[n].dst][v].msg = n => w = v
    /\ n \in inbox[msgs[n].dst] => \A r \in Messages : <<r, n>> \notin taken
    /\ \A r, q \in Messages : <<r, n>> \in taken /\ <<q, n>> \in taken => r = q

(* Message n is in one place only, and in none when a firewall has refused *)
(* it.                                                                     *)
Placed(n) ==
    /\ Kept(n) => ~(Sending(n) \/ n \in net \/ Received(n) \/ Matched(n)
                    \/ Posted(n) \/ Given(n))
    /\ Sending(n) => ~(n \in net \/ Received(n) \/ Matched(n) \/ Posted(n)
                       \/ Given(n))
    /\ n \in net => ~(Received(n) \/ Matched(n) \/ Posted(n) \/ Given(n))
    /\ Received(n) => ~(Matched(n) \/ Posted(n) \/ Given(n))
    /\ Matched(n) => ~(Posted(n) \/ Given(n))
    /\ Posted(n) => ~Given(n)
    /\ Single(n)
    /\ n \in refused => ~Somewhere(n)

(* That is so for a message the network has not duplicated.                *)
PlaceInv == \A n \in Messages \ copied : Placed(n)

IInv ==
    /\ TypeOK
    /\ NumberInv
    /\ RouteInv
    /\ OwnInv
    /\ MatchInv
    /\ AnswerInv
    /\ CallbackInv
    /\ NoLeak
    /\ ReplyOrCollision
    /\ PlaceInv
=============================================================================

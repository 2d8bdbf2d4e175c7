------------------------ MODULE RealTransportProofs ------------------------
(***************************************************************************)
(* Proofs about the message transport, for every choice of its constants:  *)
(* any number of hosts, pool threads, messages and faults, any hash table. *)
(***************************************************************************)
EXTENDS RealTransport, FiniteSetTheorems, SequenceTheorems, TLAPS

(* What Append() does to a sequence, one element at a time.                *)
LEMMA AppendElements ==
    ASSUME NEW S, NEW q \in Seq(S), NEW x \in S
    PROVE  /\ Append(q, x) \in Seq(S)
           /\ Len(q) \in Nat
           /\ DOMAIN q = 1 .. Len(q)
           /\ DOMAIN Append(q, x) = 1 .. Len(q) + 1
           /\ \A i \in DOMAIN q : i \in DOMAIN Append(q, x) /\ Append(q, x)[i] = q[i]
           /\ Len(q) + 1 \in DOMAIN Append(q, x)
           /\ Append(q, x)[Len(q) + 1] = x
           /\ \A i \in DOMAIN Append(q, x) : i \in DOMAIN q \/ i = Len(q) + 1
<1>1. Len(q) \in Nat /\ DOMAIN q = 1 .. Len(q)
  BY LenProperties
<1>2. /\ Append(q, x) \in Seq(S)
      /\ DOMAIN Append(q, x) = 1 .. Len(q) + 1
      /\ \A i \in 1 .. Len(q) : Append(q, x)[i] = q[i]
      /\ Append(q, x)[Len(q) + 1] = x
  OBVIOUS
<1> QED
  BY <1>1, <1>2

(* What Tail() does to it.                                                 *)
LEMMA TailElements ==
    ASSUME NEW S, NEW q \in Seq(S), q # << >>
    PROVE  /\ Tail(q) \in Seq(S)
           /\ 1 \in DOMAIN q /\ Head(q) = q[1] /\ Head(q) \in S
           /\ DOMAIN q \subseteq Nat
           /\ \A i \in DOMAIN Tail(q) :
                 i # 0 /\ i \in Nat /\ i + 1 \in DOMAIN q /\ Tail(q)[i] = q[i + 1]
<1>1. Len(q) \in Nat \ {0} /\ DOMAIN q = 1 .. Len(q)
  BY EmptySeq, LenProperties
<1>2. /\ Head(q) \in S /\ Head(q) = q[1]
      /\ Tail(q) \in Seq(S)
      /\ Len(Tail(q)) = Len(q) - 1
      /\ \A i \in 1 .. Len(Tail(q)) : Tail(q)[i] = q[i + 1]
  BY HeadTailProperties
<1>3. DOMAIN Tail(q) = 1 .. Len(q) - 1
  BY <1>2, LenProperties
<1> QED
  BY <1>1, <1>2, <1>3

(* The elements of a set M in a sequence, when one is added at its end.    *)
LEMMA AppendSome ==
    ASSUME NEW S, NEW q \in Seq(S), NEW x \in S, NEW M
    PROVE  /\ Some(Append(q, x), M) <=> Some(q, M) \/ x \in M
           /\ Once(q, M) /\ (x \in M => ~Some(q, M)) => Once(Append(q, x), M)
<1>1. Some(Append(q, x), M) <=> Some(q, M) \/ x \in M
  BY AppendElements DEF Some
<1>2. ASSUME Once(q, M), x \in M => ~Some(q, M)
      PROVE  Once(Append(q, x), M)
  <2>1. \A i \in DOMAIN q : i # Len(q) + 1
    BY AppendElements
  <2> QED
    BY <1>2, <2>1, AppendElements DEF Once, Some
<1> QED
  BY <1>1, <1>2

(* ... and when the first one is taken off.                                *)
LEMMA TailSome ==
    ASSUME NEW S, NEW q \in Seq(S), q # << >>, NEW M
    PROVE  /\ Some(Tail(q), M) => Some(q, M)
           /\ Head(q) \in M => Some(q, M)
           /\ Head(q) \notin M => (Some(q, M) <=> Some(Tail(q), M))
           /\ Once(q, M) => Once(Tail(q), M)
           /\ Once(q, M) /\ Head(q) \in M => ~Some(Tail(q), M)
<1>1. Some(Tail(q), M) => Some(q, M)
  BY TailElements DEF Some
<1>2. Head(q) \in M => Some(q, M)
  BY TailElements DEF Some
<1>3. ASSUME Once(q, M) PROVE Once(Tail(q), M)
  <2> SUFFICES ASSUME NEW i \in DOMAIN Tail(q), NEW j \in DOMAIN Tail(q),
                      Tail(q)[i] \in M, Tail(q)[j] \in M
               PROVE  i = j
    BY DEF Once
  <2>1. i + 1 = j + 1 /\ i \in Nat /\ j \in Nat
    BY <1>3, TailElements DEF Once
  <2> QED
    BY <2>1
<1>4. ASSUME Once(q, M), Head(q) \in M PROVE ~Some(Tail(q), M)
  <2> SUFFICES ASSUME NEW i \in DOMAIN Tail(q), Tail(q)[i] \in M PROVE FALSE
    BY DEF Some
  <2>1. i + 1 = 1 /\ i \in Nat /\ i # 0
    BY <1>4, TailElements DEF Once
  <2> QED
    BY <2>1
<1>5. ASSUME Head(q) \notin M, Some(q, M) PROVE Some(Tail(q), M)
  <2>1. PICK i \in DOMAIN q : q[i] \in M
    BY <1>5 DEF Some
  <2>2. i # 1
    BY <1>5, <2>1, TailElements
  <2>3. Len(q) \in Nat /\ DOMAIN q = 1 .. Len(q)
    BY LenProperties
  <2>4. DOMAIN Tail(q) = 1 .. Len(q) - 1
    BY HeadTailProperties, LenProperties
  <2>5. i - 1 \in DOMAIN Tail(q) /\ (i - 1) + 1 = i
    BY <2>2, <2>3, <2>4
  <2> QED
    BY <2>1, <2>5, TailElements DEF Some
<1> QED
  BY <1>1, <1>2, <1>3, <1>4, <1>5

-----------------------------------------------------------------------------
(* Types.                                                                  *)

Message == [src : Hosts, dst : Hosts, id : Nat, re : Nat, origin : Nat]
JobSet(M) == [kind : {"serialize", "send", "unserialize"}, msg : M]
EventSet(M) == [msg : M, cb : M \cup {0}, ls : BOOLEAN]

(* The indices of the messages.                                            *)
LEMMA MessageNumbers ==
    ASSUME Types
    PROVE  /\ Len(msgs) \in Nat
           /\ Messages \subseteq Nat /\ 0 \notin Messages
           /\ 0 .. Len(msgs) = Messages \cup {0}
           /\ DOMAIN msgs = Messages /\ DOMAIN outcomes = Messages
           /\ msgs \in [Messages -> Message]
           /\ outcomes \in [Messages -> Nat]
<1>1. msgs \in Seq(Message) /\ outcomes \in Seq(Nat) /\ Len(outcomes) = Len(msgs)
  BY DEF Types, Message
<1>2. Len(msgs) \in Nat
  BY <1>1, LenProperties
<1>3. msgs \in [Messages -> Message] /\ outcomes \in [Messages -> Nat]
  BY <1>1, LenProperties DEF Messages
<1> QED
  BY <1>2, <1>3 DEF Messages

(* The record of a new message.                                            *)
LEMMA NewRecord ==
    ASSUME Types, NEW h \in Hosts, NEW d \in Hosts, NEW id \in Nat,
           NEW re \in Messages \cup {0}
    PROVE  /\ Record(h, d, id, re) \in Message
           /\ Record(h, d, id, re).src = h /\ Record(h, d, id, re).dst = d
           /\ Record(h, d, id, re).id = id /\ Record(h, d, id, re).re = re
           /\ Record(h, d, id, re).origin =
                 IF re = 0 THEN Len(msgs) + 1 ELSE msgs[re].origin
<1>1. Len(msgs) + 1 \in Nat /\ re \in Nat
  BY MessageNumbers
<1>2. re # 0 => msgs[re].origin \in Nat
  BY MessageNumbers DEF Message
<1> QED
  BY <1>1, <1>2 DEF Record, Message

(* A submitted message has a new number; the others keep their records.    *)
LEMMA SubmitNumbers ==
    ASSUME Types, NEW h \in Hosts, NEW d \in Hosts, NEW id \in Nat, NEW re \in Messages \cup {0},
           Submit(h, d, id, re)
    PROVE  /\ Messages' = Messages \cup {Len(msgs) + 1}
           /\ Len(msgs) + 1 \in Nat \ {0}
           /\ Len(msgs) + 1 \notin Messages
           /\ \A m \in Messages : msgs'[m] = msgs[m] /\ outcomes'[m] = outcomes[m]
           /\ msgs'[Len(msgs) + 1] = Record(h, d, id, re)
           /\ outcomes'[Len(msgs) + 1] = 0
           /\ msgs' \in Seq(Message) /\ outcomes' \in Seq(Nat)
           /\ Len(outcomes') = Len(msgs') /\ Len(msgs') = Len(msgs) + 1
           /\ 0 .. Len(msgs') = Messages' \cup {0}
<1> DEFINE m == Record(h, d, id, re)
<1>1. msgs \in Seq(Message) /\ outcomes \in Seq(Nat) /\ Len(outcomes) = Len(msgs)
  BY DEF Types, Message
<1>2. msgs' = Append(msgs, m) /\ outcomes' = Append(outcomes, 0) /\ m \in Message
  BY NewRecord DEF Submit
<1> HIDE DEF m
<1>3. Len(msgs) \in Nat /\ Len(msgs') = Len(msgs) + 1 /\ Len(outcomes') = Len(msgs) + 1
  BY <1>1, <1>2
<1>4. /\ msgs' \in Seq(Message)
      /\ \A i \in DOMAIN msgs : msgs'[i] = msgs[i]
      /\ msgs'[Len(msgs) + 1] = m
  BY <1>1, <1>2, AppendElements
<1>5. /\ outcomes' \in Seq(Nat)
      /\ \A i \in DOMAIN outcomes : outcomes'[i] = outcomes[i]
      /\ outcomes'[Len(msgs) + 1] = 0
  BY <1>1, <1>2, AppendElements
<1>6. DOMAIN msgs = Messages /\ DOMAIN outcomes = Messages
  BY MessageNumbers
<1>7. /\ Messages' = Messages \cup {Len(msgs) + 1}
      /\ Len(msgs) + 1 \in Nat \ {0} /\ Len(msgs) + 1 \notin Messages
      /\ 0 .. Len(msgs') = Messages' \cup {0}
  BY <1>3 DEF Messages
<1> QED
  BY <1>3, <1>4, <1>5, <1>6, <1>7 DEF m

(* The typing invariant, with the sets of jobs and of events named.        *)
LEMMA TypesByVariable ==
    Types <=>
      /\ currentID \in [Hosts -> Nat]
      /\ open \in [Hosts -> SUBSET Messages]
      /\ timers \in [Hosts -> SUBSET Messages]
      /\ held \in [Hosts -> SUBSET Messages]
      /\ queue \in [Hosts -> Seq(JobSet(Messages))]
      /\ worker \in [Hosts -> [Workers -> [msg : 0..Len(msgs), cb : 0..Len(msgs)]]]
      /\ evt \in [Hosts -> 0..Len(msgs)]
      /\ events \in [Hosts -> Seq([msg : Messages, cb : 0..Len(msgs), ls : BOOLEAN])]
      /\ listening \in [Hosts -> BOOLEAN]
      /\ rx \in [Hosts -> {"running", "dead", "none"}]
      /\ net \subseteq Messages /\ faults \in 0..MaxFaults /\ halted \in BOOLEAN
      /\ msgs \in Seq(Message)
      /\ outcomes \in Seq(Nat) /\ Len(outcomes) = Len(msgs)
      /\ taken \subseteq Messages \X Messages
      /\ inbox \in [Hosts -> SUBSET Messages]
      /\ raced \subseteq Hosts /\ uncreated \subseteq Messages
      /\ copied \subseteq Messages /\ refused \subseteq Messages
BY DEF Types, JobSet, Message

(* The three ways a submitted message can go.                              *)
LEMMA SubmitRoutes ==
    ASSUME NEW h, NEW d, NEW id, NEW re, Submit(h, d, id, re)
    PROVE  \/ /\ faults < MaxFaults /\ faults' = faults + 1
              /\ refused' = refused \cup {Len(msgs) + 1}
              /\ held' = held /\ queue' = queue
           \/ /\ held' = [held EXCEPT ![h] = @ \cup {Len(msgs) + 1}]
              /\ queue' = queue /\ refused' = refused /\ faults' = faults
           \/ /\ queue' = [queue EXCEPT ![h] = Append(@, Job("serialize", Len(msgs) + 1))]
              /\ held' = held /\ refused' = refused /\ faults' = faults
BY DEF Submit, doSend, Fault, Execute

(* With more messages, everything that is not about the new one keeps its  *)
(* type.                                                                   *)
LEMMA SubmitKeepsTypes ==
    ASSUME Types, NEW h \in Hosts, NEW d \in Hosts, NEW id \in Nat, NEW re \in Messages \cup {0},
           Submit(h, d, id, re)
    PROVE  /\ open \in [Hosts -> SUBSET Messages']
           /\ timers \in [Hosts -> SUBSET Messages']
           /\ held' \in [Hosts -> SUBSET Messages']
           /\ queue' \in [Hosts -> Seq(JobSet(Messages'))]
           /\ worker' \in [Hosts -> [Workers -> [msg : 0..Len(msgs'), cb : 0..Len(msgs')]]]
           /\ evt' \in [Hosts -> 0..Len(msgs')]
           /\ events' \in [Hosts -> Seq([msg : Messages', cb : 0..Len(msgs'), ls : BOOLEAN])]
           /\ listening' \in [Hosts -> BOOLEAN]
           /\ rx' \in [Hosts -> {"running", "dead", "none"}]
           /\ net' \subseteq Messages' /\ faults' \in 0..MaxFaults /\ halted' \in BOOLEAN
           /\ taken' \subseteq Messages' \X Messages'
           /\ inbox' \in [Hosts -> SUBSET Messages']
           /\ uncreated' \subseteq Messages'
           /\ copied' \subseteq Messages' /\ refused' \subseteq Messages'
<1> DEFINE n == Len(msgs) + 1
           J == JobSet(Messages)
           K == JobSet(Messages')
           E == [msg : Messages, cb : 0..Len(msgs), ls : BOOLEAN]
           F == [msg : Messages', cb : 0..Len(msgs'), ls : BOOLEAN]
<1>1. Messages' = Messages \cup {n}
  BY SubmitNumbers
<1>2. 0 .. Len(msgs) \subseteq 0 .. Len(msgs')
  BY SubmitNumbers, MessageNumbers
<1>3. J \subseteq K /\ E \subseteq F
  BY <1>1, <1>2 DEF JobSet
<1>4. /\ open \in [Hosts -> SUBSET Messages'] /\ timers \in [Hosts -> SUBSET Messages']
      /\ net \subseteq Messages' /\ taken \subseteq Messages' \X Messages'
      /\ inbox \in [Hosts -> SUBSET Messages']
      /\ uncreated \subseteq Messages' /\ copied \subseteq Messages'
      /\ n \in Messages'
  BY <1>1 DEF Types
<1>5. refused' \subseteq Messages' /\ faults' \in 0..MaxFaults
  <2>1. faults' = faults \/ (faults < MaxFaults /\ faults' = faults + 1)
    BY SubmitRoutes
  <2>2. refused' = refused \/ refused' = refused \cup {n}
    BY SubmitRoutes
  <2>3. faults \in 0 .. MaxFaults /\ refused \subseteq Messages
    BY DEF Types
  <2>4. refused' \subseteq Messages'
    BY <1>1, <2>2, <2>3
  <2>5. faults' \in 0 .. MaxFaults
    BY <2>1, <2>3, BoundAssumption
  <2> QED
    BY <2>4, <2>5
<1>6. held' \in [Hosts -> SUBSET Messages']
  <2>1. held' = held \/ held' = [held EXCEPT ![h] = @ \cup {n}]
    BY SubmitRoutes
  <2>2. held \in [Hosts -> SUBSET Messages]
    BY DEF Types
  <2> QED
    BY <1>1, <2>1, <2>2
<1>7. worker \in [Hosts -> [Workers -> [msg : 0..Len(msgs'), cb : 0..Len(msgs')]]]
  BY <1>2 DEF Types
<1>8. evt \in [Hosts -> 0..Len(msgs')]
  BY <1>2 DEF Types
<1>9. events \in [Hosts -> Seq(F)]
  <2>1. events \in [Hosts -> Seq(E)]
    BY DEF Types
  <2>2. Seq(E) \subseteq Seq(F)
    BY <1>3, SeqMonotonic
  <2> QED
    BY <2>1, <2>2
<1>10. queue' \in [Hosts -> Seq(K)]
  <2>1. queue \in [Hosts -> Seq(J)]
    BY TypesByVariable
  <2>2. Seq(J) \subseteq Seq(K)
    BY <1>3, SeqMonotonic
  <2>3. Job("serialize", n) \in K
    BY <1>4 DEF Job, JobSet
  <2> HIDE DEF J, K
  <2>4. Append(queue[h], Job("serialize", n)) \in Seq(K)
    BY <2>1, <2>2, <2>3, AppendElements
  <2>5. queue' = queue \/ queue' = [queue EXCEPT ![h] = Append(@, Job("serialize", n))]
    BY SubmitRoutes
  <2> QED
    BY <2>1, <2>2, <2>4, <2>5
<1>11. listening' = listening /\ rx' = rx /\ halted' = halted
  BY DEF Submit
<1>12. /\ net' = net /\ taken' = taken /\ inbox' = inbox /\ uncreated' = uncreated
       /\ copied' = copied /\ worker' = worker /\ evt' = evt /\ events' = events
  BY DEF Submit
<1>13. listening' \in [Hosts -> BOOLEAN]
  BY <1>11 DEF Types
<1>14. rx' \in [Hosts -> {"running", "dead", "none"}]
  BY <1>11 DEF Types
<1>15. halted' \in BOOLEAN
  BY <1>11 DEF Types
<1> QED
  BY <1>4, <1>5, <1>6, <1>7, <1>8, <1>9, <1>10, <1>12, <1>13, <1>14, <1>15

(* What the parts of a host contain.                                       *)
LEMMA Contents ==
    ASSUME Types, NEW h \in Hosts
    PROVE  /\ currentID[h] \in Nat
           /\ held[h] \subseteq Messages /\ inbox[h] \subseteq Messages
           /\ open[h] \subseteq Messages /\ timers[h] \subseteq Messages
           /\ evt[h] \in Messages \cup {0}
           /\ \A w \in Workers : /\ worker[h][w].msg \in Messages \cup {0}
                                /\ worker[h][w].cb \in Messages \cup {0}
           /\ queue[h] \in Seq(JobSet(Messages))
           /\ \A i \in DOMAIN queue[h] : queue[h][i].msg \in Messages
           /\ events[h] \in Seq(EventSet(Messages))
           /\ \A i \in DOMAIN events[h] : /\ events[h][i].msg \in Messages
                                        /\ events[h][i].cb \in Messages \cup {0}
<1> DEFINE M == Messages
           N == 0 .. Len(msgs)
<1>1. N = M \cup {0}
  BY MessageNumbers
<1>2. /\ currentID[h] \in Nat
      /\ held[h] \subseteq M /\ inbox[h] \subseteq M
      /\ open[h] \subseteq M /\ timers[h] \subseteq M
      /\ evt[h] \in N
  BY DEF Types
<1>3. queue[h] \in Seq(JobSet(M))
  BY TypesByVariable
<1>4. events[h] \in Seq([msg : M, cb : N, ls : BOOLEAN])
  BY DEF Types
<1>5. worker \in [Hosts -> [Workers -> [msg : N, cb : N]]]
  BY DEF Types
<1> HIDE DEF M, N
<1>6. events[h] \in Seq(EventSet(M))
  BY <1>1, <1>4 DEF EventSet
<1>7. \A i \in DOMAIN queue[h] : queue[h][i] \in JobSet(M)
  BY <1>3, LenProperties, ElementOfSeq
<1>8. \A i \in DOMAIN events[h] : events[h][i] \in EventSet(M)
  BY <1>6, LenProperties, ElementOfSeq
<1>9. \A i \in DOMAIN queue[h] : queue[h][i].msg \in M
  BY <1>7 DEF JobSet
<1>10. \A i \in DOMAIN events[h] : events[h][i].msg \in M /\ events[h][i].cb \in M \cup {0}
  BY <1>8 DEF EventSet
<1>11. \A w \in Workers : worker[h][w] \in [msg : N, cb : N]
  BY <1>5
<1>12. \A w \in Workers : worker[h][w].msg \in M \cup {0} /\ worker[h][w].cb \in M \cup {0}
  BY <1>1, <1>11
<1> QED
  BY <1>1, <1>2, <1>3, <1>6, <1>9, <1>10, <1>12 DEF M

(* What openCallbacks.get() returns.                                       *)
LEMMA LookupFinds ==
    ASSUME NEW h, NEW n
    PROVE  \/ /\ Lookup(h, n) \in open[h]
              /\ msgs[Lookup(h, n)].id = msgs[n].id
           \/ /\ Lookup(h, n) = 0
              /\ \A r \in open[h] : msgs[r].id # msgs[n].id
BY DEF Lookup

(* The head of the executor's queue, and the queue without it.             *)
LEMMA QueueHead ==
    ASSUME Types, NEW h \in Hosts, NEW kind, NextJob(h, kind)
    PROVE  /\ queue[h] \in Seq(JobSet(Messages)) /\ queue[h] # << >>
           /\ Head(queue[h]) \in JobSet(Messages)
           /\ Head(queue[h]).kind = kind
           /\ Head(queue[h]).msg \in Messages
           /\ Tail(queue[h]) \in Seq(JobSet(Messages))
<1>1. queue[h] \in Seq(JobSet(Messages)) /\ queue[h] # << >>
  BY TypesByVariable DEF NextJob
<1>2. Head(queue[h]) \in JobSet(Messages) /\ Tail(queue[h]) \in Seq(JobSet(Messages))
  BY <1>1, TailElements
<1>3. Head(queue[h]).msg \in Messages
  BY <1>2 DEF JobSet
<1> QED
  BY <1>1, <1>2, <1>3 DEF NextJob

(* The first ReceiveEvent, and the others.                                 *)
LEMMA EventHead ==
    ASSUME Types, NEW h \in Hosts, events[h] # << >>
    PROVE  /\ events[h] \in Seq([msg : Messages, cb : 0..Len(msgs), ls : BOOLEAN])
           /\ Head(events[h]).msg \in Messages
           /\ Head(events[h]).cb \in Messages \cup {0}
           /\ Tail(events[h]) \in Seq([msg : Messages, cb : 0..Len(msgs), ls : BOOLEAN])
<1> DEFINE E == [msg : Messages, cb : 0..Len(msgs), ls : BOOLEAN]
<1>1. events[h] \in Seq(E)
  BY DEF Types
<1>2. Head(events[h]) \in E /\ Tail(events[h]) \in Seq(E)
  BY <1>1, TailElements
<1>3. Head(events[h]).msg \in Messages /\ Head(events[h]).cb \in 0 .. Len(msgs)
  BY <1>2
<1> QED
  BY <1>1, <1>2, <1>3, MessageNumbers

(* A fault is counted.                                                     *)
LEMMA FaultCounted == Types /\ Fault => faults' \in 0 .. MaxFaults
BY BoundAssumption DEF Types, Fault

(* Every step keeps the types.                                             *)
LEMMA NextTypes == Types /\ [Next]_vars => Types'
<1> SUFFICES ASSUME Types, [Next]_vars PROVE Types'
  OBVIOUS
<1> DEFINE N == 0 .. Len(msgs)
<1>0. /\ Messages \subseteq N /\ 0 \in N /\ N = Messages \cup {0}
      /\ msgs \in [Messages -> Message]
  BY MessageNumbers
<1> HIDE DEF N
<1>1. ASSUME NEW h \in Hosts, setTransportMessageListener(h) PROVE Types'
  <2>1. listening' = [listening EXCEPT ![h] = TRUE]
    BY <1>1 DEF setTransportMessageListener
  <2>2. listening' \in [Hosts -> BOOLEAN]
    BY <2>1, Zenon DEF Types
  <2> QED
    BY <1>1, <2>2 DEF setTransportMessageListener, Types, Messages, hist
<1>2. ASSUME NEW h \in Hosts, NEW d \in Hosts, send(h, d) PROVE Types'
  <2>1. currentID[h] \in Nat
    BY DEF Types
  <2>2. Submit(h, d, currentID[h], 0) /\ 0 \in Messages \cup {0}
    BY <1>2 DEF send
  <2>3. currentID' \in [Hosts -> Nat]
    BY <1>2, <2>1 DEF send, Types
  <2>4. open' = open /\ timers' = timers /\ raced' \subseteq Hosts
    BY <1>2 DEF send, Types
  <2> QED
    BY <2>1, <2>2, <2>3, <2>4, SubmitKeepsTypes, SubmitNumbers DEF Types, JobSet, Message
<1>3. ASSUME NEW h \in Hosts, NEW d \in Hosts, sendAndWait(h, d) PROVE Types'
  <2> DEFINE r == Len(msgs) + 1
  <2>1. currentID[h] \in Nat
    BY DEF Types
  <2>2. Submit(h, d, currentID[h], 0) /\ 0 \in Messages \cup {0}
    BY <1>3 DEF sendAndWait
  <2>3. currentID' \in [Hosts -> Nat]
    BY <1>3, <2>1 DEF sendAndWait, Types
  <2>4. /\ open \in [Hosts -> SUBSET Messages'] /\ timers \in [Hosts -> SUBSET Messages']
        /\ r \in Messages'
    BY <2>1, <2>2, SubmitKeepsTypes, SubmitNumbers
  <2>5. timers' = [timers EXCEPT ![h] = @ \cup {r}]
    BY <1>3 DEF sendAndWait
  <2>6. \/ open' = [open EXCEPT ![h] = {q \in open[h] : msgs[q].id # currentID[h]} \cup {r}]
        \/ open' = open
    BY <1>3 DEF sendAndWait, Put
  <2>7. raced' = raced \cup {h} \/ raced' = raced
    BY <1>3 DEF sendAndWait, Put, NoteRace
  <2> HIDE DEF r
  <2>8. timers' \in [Hosts -> SUBSET Messages']
    BY <2>4, <2>5
  <2>9. open' \in [Hosts -> SUBSET Messages']
    BY <2>4, <2>6
  <2>10. raced' \subseteq Hosts
    BY <2>7 DEF Types
  <2> QED
    BY <2>1, <2>2, <2>3, <2>8, <2>9, <2>10, SubmitKeepsTypes, SubmitNumbers
       DEF Types, JobSet, Message
<1>4. ASSUME NEW h \in Hosts, NEW n \in inbox[h], sendReply(h, n) PROVE Types'
  <2>1. n \in Messages
    BY DEF Types
  <2>2. msgs[n].src \in Hosts /\ msgs[n].id \in Nat /\ n \in Messages
    BY <1>0, <2>1, MessageNumbers DEF Message
  <2>3. Submit(h, msgs[n].src, msgs[n].id, n)
    BY <1>4 DEF sendReply
  <2>4. /\ currentID' = currentID /\ open' = open /\ timers' = timers /\ raced' = raced
        /\ currentID \in [Hosts -> Nat] /\ raced \subseteq Hosts
    BY <1>4 DEF sendReply, Types
  <2> QED
    BY <2>2, <2>3, <2>4, SubmitKeepsTypes, SubmitNumbers DEF Types, JobSet, Message
<1>5. ASSUME NEW h \in Hosts, NEW n \in held[h], QueueService(h, n) PROVE Types'
  <2>1. held' \in [Hosts -> SUBSET Messages]
    BY <1>5 DEF QueueService, Types
  <2>2. queue' \in [Hosts -> Seq(JobSet(Messages))]
    <3>1. queue \in [Hosts -> Seq(JobSet(Messages))] /\ n \in Messages
      BY TypesByVariable
    <3>2. Job("serialize", n) \in JobSet(Messages)
      BY <3>1 DEF Job, JobSet
    <3>3. Append(queue[h], Job("serialize", n)) \in Seq(JobSet(Messages))
      BY <3>1, <3>2, AppendElements
    <3> QED
      BY <1>5, <3>1, <3>3 DEF QueueService, Execute
  <2> QED
    BY <1>5, <2>1, <2>2 DEF QueueService, Types, Messages, hist, JobSet
<1>6. ASSUME NEW h \in Hosts, NEW w \in Workers, SerializeAndSend(h, w) PROVE Types'
  <2> DEFINE n == Head(queue[h]).msg
             J == JobSet(Messages)
  <2>1. NextJob(h, "serialize")
    BY <1>6 DEF SerializeAndSend
  <2>2. n \in Messages /\ Tail(queue[h]) \in Seq(J)
    BY <2>1, QueueHead
  <2>3. Job("send", n) \in J
    BY <2>2 DEF Job, JobSet
  <2>4. Append(Tail(queue[h]), Job("send", n)) \in Seq(J)
    BY <2>2, <2>3, AppendElements
  <2>5. \/ queue' = [queue EXCEPT ![h] = Append(Tail(@), Job("send", n))] /\ faults' = faults
        \/ queue' = [queue EXCEPT ![h] = Tail(@)] /\ Fault
    BY <1>6 DEF SerializeAndSend, Dequeued
  <2> HIDE DEF n, J
  <2>6. queue' \in [Hosts -> Seq(J)]
    BY <2>2, <2>4, <2>5, TypesByVariable DEF J
  <2>7. faults' \in 0 .. MaxFaults
    BY <2>5, FaultCounted DEF Types
  <2> QED
    BY <1>6, <2>6, <2>7 DEF SerializeAndSend, Types, Messages, hist, J, JobSet
<1>7. ASSUME NEW h \in Hosts, NEW w \in Workers, MsgSenderRunnable(h, w) PROVE Types'
  <2>1. NextJob(h, "send")
    BY <1>7 DEF MsgSenderRunnable
  <2>2. Head(queue[h]).msg \in Messages /\ Tail(queue[h]) \in Seq(JobSet(Messages))
    BY <2>1, QueueHead
  <2>3. queue' = [queue EXCEPT ![h] = Tail(@)]
    BY <1>7 DEF MsgSenderRunnable, Dequeued
  <2>4. queue' \in [Hosts -> Seq(JobSet(Messages))]
    BY <2>2, <2>3, TypesByVariable
  <2>5. net' \subseteq Messages
    BY <1>7, <2>2 DEF MsgSenderRunnable, Types
  <2> QED
    BY <1>7, <2>4, <2>5 DEF MsgSenderRunnable, Types, Messages, hist, JobSet
<1>8. ASSUME NEW h \in Hosts, NEW w \in Workers, Unserialize(h, w) PROVE Types'
  <2> DEFINE n == Head(queue[h]).msg
             r == Lookup(h, n)
  <2>1. NextJob(h, "unserialize")
    BY <1>8 DEF Unserialize
  <2>2. n \in Messages /\ Tail(queue[h]) \in Seq(JobSet(Messages))
    BY <2>1, QueueHead
  <2>3. r \in N
    BY <1>0, LookupFinds DEF Types
  <2>4. /\ queue' = [queue EXCEPT ![h] = Tail(@)]
        /\ \/ Fault /\ refused' \in {refused, refused \cup {n}}
              /\ worker' = worker /\ raced' = raced
           \/ worker' = [worker EXCEPT ![h][w] = [msg |-> n, cb |-> r]]
              /\ raced' \in {raced, raced \cup {h}} /\ faults' = faults /\ refused' = refused
    BY <1>8 DEF Unserialize, Dequeued, NoteRace
  <2> HIDE DEF n, r
  <2>5. queue' \in [Hosts -> Seq(JobSet(Messages))]
    BY <2>2, <2>4, TypesByVariable
  <2>6. worker' \in [Hosts -> [Workers -> [msg : N, cb : N]]]
    <3>1. worker \in [Hosts -> [Workers -> [msg : N, cb : N]]]
      BY DEF Types, N
    <3>2. [msg |-> n, cb |-> r] \in [msg : N, cb : N]
      BY <1>0, <2>2, <2>3
    <3> DEFINE x == [msg |-> n, cb |-> r]
               X == [msg : N, cb : N]
    <3>3. worker' = worker \/ worker' = [worker EXCEPT ![h][w] = x]
      BY <2>4
    <3> HIDE DEF x, X
    <3>4. [worker EXCEPT ![h][w] = x] \in [Hosts -> [Workers -> X]]
      BY <3>1, <3>2 DEF x, X
    <3> QED
      BY <3>1, <3>3, <3>4 DEF X
  <2>7. refused' \subseteq Messages /\ raced' \subseteq Hosts
    BY <2>2, <2>4 DEF Types
  <2>8. faults' \in 0 .. MaxFaults
    BY <2>4, FaultCounted DEF Types
  <2> QED
    BY <1>8, <2>5, <2>6, <2>7, <2>8 DEF Unserialize, Types, Messages, JobSet, N
<1>9. ASSUME NEW h \in Hosts, NEW w \in Workers, PostReceiveEvent(h, w) PROVE Types'
  <2> DEFINE n == worker[h][w].msg
             r == worker[h][w].cb
             e == [msg |-> n, cb |-> r, ls |-> listening[h]]
             E == [msg : Messages, cb : N, ls : BOOLEAN]
  <2>1. n \in N /\ r \in N /\ n # 0
    BY <1>9 DEF PostReceiveEvent, Types, N
  <2>2. listening[h] \in BOOLEAN
    BY DEF Types
  <2>3. e \in E
    BY <1>0, <2>1, <2>2
  <2>4. /\ worker' = [worker EXCEPT ![h][w] = Idle]
        /\ open' = [open EXCEPT ![h] = @ \ {r}] \/ open' = open
        /\ \/ /\ events' = [events EXCEPT ![h] = Append(@, e)]
              /\ uncreated' = uncreated /\ faults' = faults
           \/ Fault /\ uncreated' = uncreated \cup ({r} \ {0}) /\ events' = events
    BY <1>9 DEF PostReceiveEvent, Unlink
  <2>5. events \in [Hosts -> Seq(E)]
    BY DEF Types, N
  <2> HIDE DEF n, r, e, E
  <2>6. Append(events[h], e) \in Seq(E)
    BY <2>3, <2>5, AppendElements
  <2>7. events' \in [Hosts -> Seq(E)]
    BY <2>4, <2>5, <2>6
  <2>8. worker' \in [Hosts -> [Workers -> [msg : N, cb : N]]]
    BY <1>0, <2>4 DEF Types, N, Idle
  <2>9. open' \in [Hosts -> SUBSET Messages]
    <3>1. open \in [Hosts -> SUBSET Messages]
      BY DEF Types
    <3> QED
      BY <2>4, <3>1
  <2>10. uncreated' \subseteq Messages
    BY <1>0, <2>1, <2>4 DEF Types
  <2>11. faults' \in 0 .. MaxFaults
    BY <2>4, FaultCounted DEF Types
  <2> QED
    BY <1>9, <2>7, <2>8, <2>9, <2>10, <2>11
       DEF PostReceiveEvent, Types, Messages, E, N
<1>10. ASSUME NEW h \in Hosts, NEW t \in timers[h], TimeoutOccurred(h, t) PROVE Types'
  <2> DEFINE r == Lookup(h, t)
  <2>1. r \in N
    BY <1>0, LookupFinds DEF Types
  <2>2. /\ timers' = [timers EXCEPT ![h] = @ \ {t}]
        /\ evt' = [evt EXCEPT ![h] = r]
        /\ raced' \in {raced, raced \cup {h}}
    BY <1>10 DEF TimeoutOccurred, NoteRace
  <2> HIDE DEF r
  <2>3. /\ timers' \in [Hosts -> SUBSET Messages]
        /\ evt' \in [Hosts -> N]
        /\ raced' \subseteq Hosts
    BY <2>1, <2>2 DEF Types, N
  <2> QED
    BY <1>10, <2>3 DEF TimeoutOccurred, Types, Messages, hist, N
<1>11. ASSUME NEW h \in Hosts, messageTimeoutOccured(h) PROVE Types'
  <2>1. evt[h] \in Messages
    BY <1>0, <1>11 DEF messageTimeoutOccured, Types, N
  <2>2. /\ open' = [open EXCEPT ![h] = @ \ {evt[h]}] \/ open' = open
        /\ outcomes' = [outcomes EXCEPT ![evt[h]] = @ + 1]
        /\ evt' = [evt EXCEPT ![h] = 0]
    BY <1>11 DEF messageTimeoutOccured, Unlink
  <2>3. open' \in [Hosts -> SUBSET Messages] /\ evt' \in [Hosts -> N]
    BY ZenonT(40), <1>0, <2>2 DEF Types, N
  <2>4. outcomes' \in Seq(Nat) /\ Len(outcomes') = Len(msgs)
    <3>1. /\ outcomes \in Seq(Nat) /\ Len(outcomes) = Len(msgs)
          /\ evt[h] \in 1 .. Len(outcomes)
      BY <2>1 DEF Types, Messages
    <3>2. outcomes[evt[h]] + 1 \in Nat
      BY <3>1, ElementOfSeq
    <3> QED
      BY <2>2, <3>1, <3>2, ExceptSeq
  <2> QED
    BY <1>11, <2>3, <2>4 DEF messageTimeoutOccured, Types, Messages, N
<1>12. ASSUME NEW h \in Hosts, ReceiveEvent(h) PROVE Types'
  <2> DEFINE c == Head(events[h]).cb
             n == Head(events[h]).msg
  <2>1. events[h] # << >>
    BY <1>12 DEF ReceiveEvent
  <2>2. /\ c \in Messages \cup {0} /\ n \in Messages
        /\ Tail(events[h]) \in Seq([msg : Messages, cb : 0..Len(msgs), ls : BOOLEAN])
    BY <2>1, EventHead
  <2>3. /\ events' = [events EXCEPT ![h] = Tail(@)]
        /\ outcomes' = outcomes \/ (c # 0 /\ outcomes' = [outcomes EXCEPT ![c] = @ + 1])
        /\ taken' = taken \/ (c # 0 /\ taken' = taken \cup {<<c, n>>})
        /\ inbox' = inbox \/ inbox' = [inbox EXCEPT ![h] = @ \cup {n}]
    BY <1>12 DEF ReceiveEvent
  <2>4. halted' = halted \/ halted' = TRUE
    BY <1>12 DEF ReceiveEvent
  <2> HIDE DEF c, n
  <2>5. events' \in [Hosts -> Seq([msg : Messages, cb : 0..Len(msgs), ls : BOOLEAN])]
    BY <2>2, <2>3 DEF Types
  <2>6. taken' \subseteq Messages \X Messages
    BY <2>2, <2>3 DEF Types
  <2>7. inbox' \in [Hosts -> SUBSET Messages]
    <3>1. inbox \in [Hosts -> SUBSET Messages]
      BY DEF Types
    <3> QED
      BY <2>2, <2>3, <3>1
  <2>8. halted' \in BOOLEAN
    BY <2>4, Zenon DEF Types
  <2>9. outcomes' \in Seq(Nat) /\ Len(outcomes') = Len(msgs)
    <3>1. outcomes \in Seq(Nat) /\ Len(outcomes) = Len(msgs)
      BY DEF Types
    <3>2. ASSUME c # 0
          PROVE  c \in 1 .. Len(outcomes) /\ outcomes[c] + 1 \in Nat
      <4>1. c \in 1 .. Len(outcomes)
        BY <2>2, <3>1, <3>2 DEF Messages
      <4> QED
        BY <3>1, <4>1, ElementOfSeq
    <3> QED
      BY <2>3, <3>1, <3>2, ExceptSeq
  <2> QED
    BY <1>12, <2>5, <2>6, <2>7, <2>8, <2>9 DEF ReceiveEvent, Types, Messages
<1>13. ASSUME NEW n \in net, MsgReceiverThread(n) PROVE Types'
  <2> DEFINE h == msgs[n].dst
  <2>1. n \in Messages /\ h \in Hosts
    BY <1>0 DEF Types, Message
  <2>2. /\ queue' = [queue EXCEPT ![h] = Append(@, Job("unserialize", n))]
        /\ \/ net' = net \ {n} /\ faults' = faults /\ copied' = copied
           \/ Fault /\ copied' = copied \cup {n} /\ net' = net
    BY <1>13 DEF MsgReceiverThread, Execute
  <2>3. queue \in [Hosts -> Seq(JobSet(Messages))]
    BY TypesByVariable
  <2>4. Job("unserialize", n) \in JobSet(Messages)
    BY <2>1 DEF Job, JobSet
  <2> HIDE DEF h
  <2>5. Append(queue[h], Job("unserialize", n)) \in Seq(JobSet(Messages))
    BY <2>1, <2>3, <2>4, AppendElements
  <2>6. queue' \in [Hosts -> Seq(JobSet(Messages))]
    BY <2>2, <2>3, <2>5
  <2>7. net' \subseteq Messages /\ copied' \subseteq Messages
    BY <2>1, <2>2 DEF Types
  <2>8. faults' \in 0 .. MaxFaults
    BY <2>2, FaultCounted DEF Types
  <2> QED
    BY <1>13, <2>6, <2>7, <2>8 DEF MsgReceiverThread, Types, Messages, JobSet
<1>14. ASSUME NEW n \in net, Lose(n) PROVE Types'
  BY <1>14, FaultCounted DEF Lose, Types, Messages, hist
<1>15. ASSUME NEW h \in Hosts, ReceiverDies(h) PROVE Types'
  BY <1>15, FaultCounted DEF ReceiverDies, Types, Messages, hist
<1>16. ASSUME UNCHANGED vars PROVE Types'
  BY <1>16 DEF vars, hist, Types, Messages
<1> QED
  BY <1>1, <1>2, <1>3, <1>4, <1>5, <1>6, <1>7, <1>8, <1>9, <1>10, <1>11, <1>12,
     <1>13, <1>14, <1>15, <1>16
     DEF Next, Network, HostStep, Application, Pool, Timer

-----------------------------------------------------------------------------
(* Identifiers.                                                            *)

(* The steps that create a message, and what they leave alone.             *)
LEMMA Created ==
    ASSUME Types, [Next]_vars
    PROVE  \/ \E h \in Hosts : \E d \in Hosts \ {h} : send(h, d) \/ sendAndWait(h, d)
           \/ \E h \in Hosts : \E n \in inbox[h] : sendReply(h, n)
           \/ msgs' = msgs /\ currentID' = currentID
<1>1. \A h \in Hosts : \A n \in held[h] :
         QueueService(h, n) => msgs' = msgs /\ currentID' = currentID
  BY DEF QueueService, hist
<1>2. \A h \in Hosts : Pool(h) => msgs' = msgs /\ currentID' = currentID
  BY DEF Pool, SerializeAndSend, MsgSenderRunnable, Unserialize, PostReceiveEvent, hist
<1>3. \A h \in Hosts : Timer(h) \/ messageTimeoutOccured(h) \/ ReceiveEvent(h)
                          \/ setTransportMessageListener(h)
         => msgs' = msgs /\ currentID' = currentID
  BY DEF Timer, TimeoutOccurred, messageTimeoutOccured, ReceiveEvent,
         setTransportMessageListener, hist
<1>4. Network => msgs' = msgs /\ currentID' = currentID
  BY DEF Network, MsgReceiverThread, Lose, ReceiverDies, hist
<1>5. UNCHANGED vars => msgs' = msgs /\ currentID' = currentID
  BY DEF vars, hist
<1>6. ASSUME NEW h \in Hosts, Application(h)
      PROVE  \/ \E d \in Hosts \ {h} : send(h, d) \/ sendAndWait(h, d)
             \/ \E n \in inbox[h] : sendReply(h, n)
             \/ msgs' = msgs /\ currentID' = currentID
  BY <1>1, <1>3, <1>6 DEF Application
<1> QED
  BY <1>2, <1>3, <1>4, <1>5, <1>6 DEF Next, HostStep

(* A message the host numbers itself.                                      *)
LEMMA NewNumber ==
    ASSUME Types, NumberInv, NEW h \in Hosts, NEW d \in Hosts \ {h},
           Submit(h, d, currentID[h], 0),
           currentID' = [currentID EXCEPT ![h] = @ + 1]
    PROVE  NumberInv'
<1> DEFINE n == Len(msgs) + 1
           x == Record(h, d, currentID[h], 0)
<1>1. currentID \in [Hosts -> Nat] /\ 0 \in Messages \cup {0}
  BY DEF Types
<1>2. /\ Messages' = Messages \cup {n} /\ n \notin Messages
      /\ \A m \in Messages : msgs'[m] = msgs[m]
      /\ msgs'[n] = x
  BY <1>1, SubmitNumbers
<1>3. x.src = h /\ x.dst = d /\ x.id = currentID[h] /\ x.re = 0 /\ x.origin = n
  BY <1>1, NewRecord
<1>4. /\ currentID'[h] = currentID[h] + 1
      /\ \A g \in Hosts : currentID[g] \in Nat /\ currentID[g] <= currentID'[g]
  BY <1>1
<1>5. \A m \in Messages : /\ msgs[m].src \in Hosts /\ msgs[m].id \in Nat
                          /\ msgs[m].dst \in Hosts
  BY MessageNumbers DEF Message
<1> HIDE DEF n, x
<1>6. ASSUME NEW m \in Messages'
      PROVE  Numbered(m)'
  <2>1. CASE m \in Messages
    <3>1. Numbered(m)
      BY <2>1 DEF NumberInv
    <3>2. msgs[m].re = 0 => msgs[m].id < currentID'[msgs[m].src]
      BY <1>4, <1>5, <2>1, <3>1 DEF Numbered
    <3> QED
      BY <1>2, <2>1, <3>1, <3>2 DEF Numbered
  <2>2. CASE m = n
    BY <1>1, <1>2, <1>3, <1>4, <2>2 DEF Numbered
  <2> QED
    BY <1>2, <2>1, <2>2
<1>7. ASSUME NEW m \in Messages', NEW k \in Messages',
             msgs'[m].re = 0, msgs'[k].re = 0,
             msgs'[m].src = msgs'[k].src, msgs'[m].id = msgs'[k].id
      PROVE  m = k
  <2>1. ASSUME NEW j \in Messages, msgs[j].re = 0, msgs[j].src = h
        PROVE  msgs[j].id # currentID[h]
    BY <1>1, <1>5, <2>1 DEF NumberInv, Numbered
  <2>2. CASE m \in Messages /\ k \in Messages
    BY <1>2, <1>7, <2>2 DEF NumberInv
  <2>3. CASE m \in Messages /\ k = n
    BY <1>2, <1>3, <1>7, <2>1, <2>3
  <2>4. CASE m = n /\ k \in Messages
    BY <1>2, <1>3, <1>7, <2>1, <2>4
  <2> QED
    BY <1>2, <2>2, <2>3, <2>4
<1> QED
  BY <1>6, <1>7 DEF NumberInv

(* A reply.                                                                *)
LEMMA ReplyNumber ==
    ASSUME Types, NumberInv, RouteInv, NEW h \in Hosts, NEW q \in inbox[h],
           Submit(h, msgs[q].src, msgs[q].id, q), currentID' = currentID
    PROVE  NumberInv'
<1> DEFINE n == Len(msgs) + 1
           x == Record(h, msgs[q].src, msgs[q].id, q)
<1>1. /\ q \in Messages /\ q # 0
      /\ msgs[q].src \in Hosts /\ msgs[q].id \in Nat
      /\ msgs[q].dst = h /\ Numbered(q)
  <2>1. q \in Messages
    BY DEF Types
  <2> QED
    BY <2>1, MessageNumbers DEF Message, RouteInv, NumberInv
<1>2. /\ Messages' = Messages \cup {n} /\ n \notin Messages
      /\ \A m \in Messages : msgs'[m] = msgs[m]
      /\ msgs'[n] = x
  BY <1>1, SubmitNumbers
<1>3. /\ x.src = h /\ x.dst = msgs[q].src /\ x.id = msgs[q].id /\ x.re = q
      /\ x.origin = msgs[q].origin
  BY <1>1, NewRecord
<1> HIDE DEF n, x
<1>6. ASSUME NEW m \in Messages'
      PROVE  Numbered(m)'
  <2>1. CASE m \in Messages
    BY <1>2, <2>1 DEF NumberInv, Numbered
  <2>2. CASE m = n
    BY <1>1, <1>2, <1>3, <2>2 DEF Numbered
  <2> QED
    BY <1>2, <2>1, <2>2
<1>7. ASSUME NEW m \in Messages', NEW k \in Messages',
             msgs'[m].re = 0, msgs'[k].re = 0,
             msgs'[m].src = msgs'[k].src, msgs'[m].id = msgs'[k].id
      PROVE  m = k
  BY <1>1, <1>2, <1>3, <1>7 DEF NumberInv
<1> QED
  BY <1>6, <1>7 DEF NumberInv

(* Every step keeps the numbering.                                         *)
LEMMA NextNumbers ==
    ASSUME Types, NumberInv, RouteInv, [Next]_vars
    PROVE  NumberInv'
<1>1. ASSUME NEW h \in Hosts, NEW d \in Hosts \ {h}, send(h, d) \/ sendAndWait(h, d)
      PROVE  NumberInv'
  <2>1. /\ Submit(h, d, currentID[h], 0)
        /\ currentID' = [currentID EXCEPT ![h] = @ + 1]
    BY <1>1 DEF send, sendAndWait
  <2> QED
    BY <2>1, NewNumber
<1>2. ASSUME NEW h \in Hosts, NEW n \in inbox[h], sendReply(h, n)
      PROVE  NumberInv'
  <2>1. Submit(h, msgs[n].src, msgs[n].id, n) /\ currentID' = currentID
    BY <1>2 DEF sendReply
  <2> QED
    BY <2>1, ReplyNumber
<1>3. ASSUME msgs' = msgs, currentID' = currentID PROVE NumberInv'
  BY <1>3 DEF NumberInv, Numbered, Messages
<1> QED
  BY <1>1, <1>2, <1>3, Created

-----------------------------------------------------------------------------
(* Places.                                                                 *)

(* A new message is where its sender has put it, if anywhere.              *)
LEMMA SubmitRouted ==
    ASSUME Types, RouteInv, NEW h \in Hosts, NEW d \in Hosts, NEW id \in Nat,
           NEW re \in Messages \cup {0}, Submit(h, d, id, re)
    PROVE  RouteInv'
<1> DEFINE n == Len(msgs) + 1
<1>1. /\ Messages' = Messages \cup {n} /\ n \notin Messages /\ n # 0
      /\ \A m \in Messages : msgs'[m] = msgs[m]
      /\ msgs'[n].src = h
  BY SubmitNumbers, NewRecord
<1>2. worker' = worker /\ events' = events /\ inbox' = inbox
  BY DEF Submit
<1> SUFFICES ASSUME NEW g \in Hosts
             PROVE  /\ \A m \in held'[g] : msgs'[m].src = g
                    /\ \A i \in DOMAIN queue'[g] :
                          IF queue'[g][i].kind = "unserialize"
                          THEN msgs'[queue'[g][i].msg].dst = g
                          ELSE msgs'[queue'[g][i].msg].src = g
                    /\ \A w \in Workers :
                          worker'[g][w].msg # 0 => msgs'[worker'[g][w].msg].dst = g
                    /\ \A i \in DOMAIN events'[g] : msgs'[events'[g][i].msg].dst = g
                    /\ \A m \in inbox'[g] : msgs'[m].dst = g
  BY DEF RouteInv
<1>3. /\ held[g] \subseteq Messages /\ inbox[g] \subseteq Messages
      /\ queue[g] \in Seq(JobSet(Messages))
      /\ \A i \in DOMAIN queue[g] : queue[g][i].msg \in Messages
      /\ \A i \in DOMAIN events[g] : events[g][i].msg \in Messages
      /\ \A w \in Workers : worker[g][w].msg \in Messages \cup {0}
  BY Contents
<1> HIDE DEF n
<1>7. \A m \in held'[g] : msgs'[m].src = g
  <2>1. held' = held \/ held' = [held EXCEPT ![h] = @ \cup {n}]
    BY SubmitRoutes DEF n
  <2>2. \A m \in held'[g] : m \in held[g] \/ (m = n /\ g = h)
    BY SMTT(30), <2>1 DEF Types
  <2> QED
    BY <1>1, <1>3, <2>2 DEF RouteInv
<1>8. ASSUME NEW i \in DOMAIN queue'[g]
      PROVE  IF queue'[g][i].kind = "unserialize"
             THEN msgs'[queue'[g][i].msg].dst = g
             ELSE msgs'[queue'[g][i].msg].src = g
  <2> DEFINE j == Job("serialize", n)
  <2>1. queue' = queue \/ queue' = [queue EXCEPT ![h] = Append(@, j)]
    BY SubmitRoutes DEF n
  <2>2. j.kind = "serialize" /\ j.msg = n
    BY DEF Job
  <2> HIDE DEF j
  <2>3. \/ i \in DOMAIN queue[g] /\ queue'[g][i] = queue[g][i]
        \/ g = h /\ queue'[g][i] = j
    <3>1. CASE queue'[g] = queue[g]
      BY <3>1
    <3>2. CASE g = h /\ queue'[g] = Append(queue[g], j)
      <4>1. queue[g] \in Seq(JobSet(Messages) \cup {j}) /\ j \in JobSet(Messages) \cup {j}
        BY <1>3, SeqMonotonic
      <4>2. i \in DOMAIN Append(queue[g], j)
        BY <3>2
      <4> QED
        BY <3>2, <4>1, <4>2, AppendElements
    <3> QED
      BY <2>1, <3>1, <3>2 DEF Types
  <2>4. CASE i \in DOMAIN queue[g] /\ queue'[g][i] = queue[g][i]
    BY <1>1, <1>3, <2>4 DEF RouteInv
  <2>5. CASE g = h /\ queue'[g][i] = j
    BY <1>1, <2>2, <2>5
  <2> QED
    BY <2>3, <2>4, <2>5
<1>9. \A w \in Workers : worker'[g][w].msg # 0 => msgs'[worker'[g][w].msg].dst = g
  BY <1>1, <1>2, <1>3 DEF RouteInv
<1>10. \A i \in DOMAIN events'[g] : msgs'[events'[g][i].msg].dst = g
  BY <1>1, <1>2, <1>3 DEF RouteInv
<1>11. \A m \in inbox'[g] : msgs'[m].dst = g
  BY <1>1, <1>2, <1>3 DEF RouteInv
<1> QED
  BY <1>7, <1>8, <1>9, <1>10, <1>11

(* Job j is in the right queue when it is in that of host g.               *)
RightJob(g, j) ==
    IF j.kind = "unserialize" THEN msgs[j.msg].dst = g ELSE msgs[j.msg].src = g

(* No new message: what is somewhere was there before, or has come from    *)
(* the place before it on its way.                                         *)
Moves(g) ==
    /\ held'[g] \subseteq held[g]
    /\ \A i \in DOMAIN queue'[g] :
          \/ \E j \in DOMAIN queue[g] : queue'[g][i] = queue[g][j]
          \/ RightJob(g, queue'[g][i])
    /\ \A w \in Workers :
          \/ worker'[g][w] = worker[g][w]
          \/ worker'[g][w] = Idle
          \/ /\ worker'[g][w].msg \in Messages /\ worker'[g][w].msg # 0
             /\ msgs[worker'[g][w].msg].dst = g
             /\ \/ /\ worker'[g][w].cb = 0
                   /\ \A r \in open[g] : msgs[r].id # msgs[worker'[g][w].msg].id
                \/ /\ worker'[g][w].cb \in open[g]
                   /\ msgs[worker'[g][w].cb].id = msgs[worker'[g][w].msg].id
    /\ \A i \in DOMAIN events'[g] :
          \/ \E j \in DOMAIN events[g] : events'[g][i] = events[g][j]
          \/ \E w \in Workers : /\ worker[g][w].msg # 0
                                /\ events'[g][i].msg = worker[g][w].msg
                                /\ events'[g][i].cb = worker[g][w].cb
    /\ \A n \in inbox'[g] :
          \/ n \in inbox[g]
          \/ \E j \in DOMAIN events[g] : events[g][j].msg = n /\ events[g][j].cb = 0
    /\ open'[g] \subseteq open[g] /\ timers'[g] \subseteq timers[g]
    /\ evt'[g] = 0 \/ evt'[g] = evt[g] \/ evt'[g] \in open[g]

(* Moving on keeps messages on their own way.                              *)
LEMMA MovesKeepPlaces ==
    ASSUME RouteInv, OwnInv, msgs' = msgs, \A g \in Hosts : Moves(g)
    PROVE  RouteInv' /\ OwnInv'
<1>1. \A g, r : Own(g, r)' <=> Own(g, r)
  BY DEF Own, Messages
<1>2. RouteInv'
  <2> SUFFICES ASSUME NEW g \in Hosts
               PROVE  /\ \A n \in held'[g] : msgs[n].src = g
                      /\ \A i \in DOMAIN queue'[g] : RightJob(g, queue'[g][i])
                      /\ \A w \in Workers :
                            worker'[g][w].msg # 0 => msgs[worker'[g][w].msg].dst = g
                      /\ \A i \in DOMAIN events'[g] : msgs[events'[g][i].msg].dst = g
                      /\ \A n \in inbox'[g] : msgs[n].dst = g
    BY DEF RouteInv, RightJob
  <2>0. Moves(g)
    OBVIOUS
  <2>1. \A n \in held'[g] : msgs[n].src = g
    BY <2>0 DEF Moves, RouteInv
  <2>2. \A i \in DOMAIN queue'[g] : RightJob(g, queue'[g][i])
    <3>1. \A j \in DOMAIN queue[g] : RightJob(g, queue[g][j])
      BY DEF RouteInv, RightJob
    <3> QED
      BY <2>0, <3>1 DEF Moves
  <2>3. \A w \in Workers : worker'[g][w].msg # 0 => msgs[worker'[g][w].msg].dst = g
    BY <2>0 DEF Moves, RouteInv, Idle
  <2>4. \A i \in DOMAIN events'[g] : msgs[events'[g][i].msg].dst = g
    BY <2>0 DEF Moves, RouteInv
  <2>5. \A n \in inbox'[g] : msgs[n].dst = g
    BY <2>0 DEF Moves, RouteInv
  <2> QED
    BY <2>1, <2>2, <2>3, <2>4, <2>5
<1>3. OwnInv'
  <2> SUFFICES ASSUME NEW g \in Hosts
               PROVE  /\ \A r \in open'[g] \cup timers'[g] : Own(g, r)
                      /\ evt'[g] # 0 => Own(g, evt'[g])
                      /\ \A w \in Workers : worker'[g][w].cb # 0 =>
                            /\ Own(g, worker'[g][w].cb)
                            /\ worker'[g][w].msg # 0
                            /\ msgs[worker'[g][w].cb].id = msgs[worker'[g][w].msg].id
                      /\ \A i \in DOMAIN events'[g] : events'[g][i].cb # 0 =>
                            /\ Own(g, events'[g][i].cb)
                            /\ msgs[events'[g][i].cb].id = msgs[events'[g][i].msg].id
    BY DEF OwnInv, Own, Messages
  <2>0. Moves(g)
    OBVIOUS
  <2>1. \A r \in open'[g] \cup timers'[g] : Own(g, r)
    BY <2>0 DEF Moves, OwnInv
  <2>2. evt'[g] # 0 => Own(g, evt'[g])
    BY <2>0 DEF Moves, OwnInv
  <2>3. \A w \in Workers : worker'[g][w].cb # 0 =>
            /\ Own(g, worker'[g][w].cb)
            /\ worker'[g][w].msg # 0
            /\ msgs[worker'[g][w].cb].id = msgs[worker'[g][w].msg].id
    BY <2>0 DEF Moves, OwnInv, Idle
  <2>4. \A i \in DOMAIN events'[g] : events'[g][i].cb # 0 =>
            /\ Own(g, events'[g][i].cb)
            /\ msgs[events'[g][i].cb].id = msgs[events'[g][i].msg].id
    BY <2>0 DEF Moves, OwnInv
  <2> QED
    BY <2>1, <2>2, <2>3, <2>4
<1> QED
  BY <1>2, <1>3

(* Where the elements of a changed queue come from.                        *)
LEMMA FromTail ==
    ASSUME NEW S, NEW q \in Seq(S), q # << >>
    PROVE  \A i \in DOMAIN Tail(q) : \E j \in DOMAIN q : Tail(q)[i] = q[j]
BY TailElements

(* What is in a longer queue was in it or is the new element.              *)
LEMMA FromAppend ==
    ASSUME NEW S, NEW q \in Seq(S), NEW x \in S, NEW p, p = q \/ p = Append(q, x)
    PROVE  \A i \in DOMAIN p :
              (\E j \in DOMAIN q : p[i] = q[j]) \/ (p = Append(q, x) /\ p[i] = x)
BY AppendElements

(* Every step that creates no message moves the others along their way.    *)
LEMMA NextMoves ==
    ASSUME Types, RouteInv, Next, NEW g \in Hosts,
           \A h \in Hosts : \A d \in Hosts \ {h} : ~send(h, d) /\ ~sendAndWait(h, d),
           \A h \in Hosts : \A n \in inbox[h] : ~sendReply(h, n)
    PROVE  Moves(g)
<1>0. /\ queue[g] \in Seq(JobSet(Messages)) /\ events[g] \in Seq(EventSet(Messages))
      /\ queue \in [Hosts -> Seq(JobSet(Messages))]
      /\ events \in [Hosts -> Seq([msg : Messages, cb : 0..Len(msgs), ls : BOOLEAN])]
      /\ open \in [Hosts -> SUBSET Messages] /\ timers \in [Hosts -> SUBSET Messages]
      /\ held \in [Hosts -> SUBSET Messages] /\ inbox \in [Hosts -> SUBSET Messages]
      /\ evt \in [Hosts -> 0 .. Len(msgs)]
      /\ \A h \in Hosts : \A w \in Workers : w \in DOMAIN worker[h]
      /\ DOMAIN worker = Hosts
  BY Contents DEF Types, JobSet
<1>q. /\ queue[g] \in Seq(JobSet(Messages))
      /\ events[g] \in Seq(EventSet(Messages))
  BY <1>0
<1>1. ASSUME NEW h \in Hosts, setTransportMessageListener(h) PROVE Moves(g)
  BY <1>1 DEF setTransportMessageListener, hist, Moves
<1>2. ASSUME NEW h \in Hosts, NEW n \in held[h], QueueService(h, n) PROVE Moves(g)
  <2> DEFINE j == Job("serialize", n)
  <2>1. /\ held' = [held EXCEPT ![h] = @ \ {n}]
        /\ queue' = [queue EXCEPT ![h] = Append(@, j)] \/ queue' = queue
        /\ UNCHANGED <<worker, events, inbox, open, timers, evt>>
    BY <1>2 DEF QueueService, Execute, hist
  <2>2. j.kind = "serialize" /\ j.msg = n /\ j \in JobSet(Messages)
    BY <1>0 DEF Job, JobSet
  <2>3. msgs[n].src = h
    BY DEF RouteInv
  <2> HIDE DEF j
  <2>4. ASSUME NEW i \in DOMAIN queue'[g]
        PROVE  \/ \E k \in DOMAIN queue[g] : queue'[g][i] = queue[g][k]
               \/ RightJob(g, queue'[g][i])
    <3>1. queue'[g] = queue[g] \/ (g = h /\ queue'[g] = Append(queue[g], j))
      BY <1>0, <2>1
    <3>2. RightJob(h, j)
      BY <2>2, <2>3 DEF RightJob
    <3>3. CASE queue'[g] = queue[g]
      BY <3>3
    <3>4. CASE g = h /\ queue'[g] = Append(queue[g], j)
      <4>1. \/ \E k \in DOMAIN queue[g] : queue'[g][i] = queue[g][k]
            \/ queue'[g][i] = j
        BY <1>0, <2>2, <3>4, FromAppend
      <4> QED
        BY <3>2, <3>4, <4>1
    <3> QED
      BY <3>1, <3>3, <3>4
  <2>5. held'[g] \subseteq held[g]
    BY <1>0, <2>1
  <2> QED
    BY <2>1, <2>4, <2>5 DEF Moves
<1>3. ASSUME NEW h \in Hosts, NEW w \in Workers, SerializeAndSend(h, w) PROVE Moves(g)
  <2> DEFINE n == Head(queue[h]).msg
             j == Job("send", n)
  <2>1. NextJob(h, "serialize")
    BY <1>3 DEF SerializeAndSend
  <2>2. /\ queue[h] \in Seq(JobSet(Messages)) /\ queue[h] # << >>
        /\ Head(queue[h]).kind = "serialize" /\ n \in Messages
        /\ Tail(queue[h]) \in Seq(JobSet(Messages))
    BY <2>1, QueueHead
  <2>3. j.kind = "send" /\ j.msg = n /\ j \in JobSet(Messages)
    BY <2>2 DEF Job, JobSet
  <2>4. RightJob(h, j)
    <3>1. 1 \in DOMAIN queue[h] /\ queue[h][1] = Head(queue[h])
      BY <2>2, TailElements
    <3> QED
      BY <2>2, <2>3, <3>1 DEF RightJob, RouteInv
  <2>5. /\ \/ queue' = [queue EXCEPT ![h] = Append(Tail(@), j)]
           \/ queue' = [queue EXCEPT ![h] = Tail(@)]
        /\ UNCHANGED <<held, worker, events, inbox, open, timers, evt>>
    BY <1>3 DEF SerializeAndSend, Dequeued, hist
  <2> HIDE DEF j, n
  <2>6. ASSUME NEW i \in DOMAIN queue'[g]
        PROVE  \/ \E k \in DOMAIN queue[g] : queue'[g][i] = queue[g][k]
               \/ RightJob(g, queue'[g][i])
    <3>1. \/ queue'[g] = queue[g]
          \/ g = h /\ queue'[g] = Append(Tail(queue[g]), j)
          \/ g = h /\ queue'[g] = Tail(queue[g])
      BY <1>0, <2>5
    <3>2. CASE g = h /\ queue'[g] = Append(Tail(queue[g]), j)
      <4>1. \/ \E k \in DOMAIN Tail(queue[g]) : queue'[g][i] = Tail(queue[g])[k]
            \/ queue'[g][i] = j
        BY <2>2, <2>3, <3>2, FromAppend
      <4> QED
        BY <2>2, <2>4, <3>2, <4>1, FromTail
    <3>3. CASE g = h /\ queue'[g] = Tail(queue[g])
      BY <2>2, <3>3, FromTail
    <3> QED
      BY <3>1, <3>2, <3>3
  <2> QED
    BY <2>5, <2>6 DEF Moves
<1>4. ASSUME NEW h \in Hosts, NEW w \in Workers, MsgSenderRunnable(h, w) PROVE Moves(g)
  <2>1. NextJob(h, "send")
    BY <1>4 DEF MsgSenderRunnable
  <2>2. queue[h] \in Seq(JobSet(Messages)) /\ queue[h] # << >>
    BY <2>1, QueueHead
  <2>3. /\ queue' = [queue EXCEPT ![h] = Tail(@)]
        /\ UNCHANGED <<held, worker, events, inbox, open, timers, evt>>
    BY <1>4 DEF MsgSenderRunnable, Dequeued, hist
  <2>4. \A i \in DOMAIN queue'[g] :
           \E k \in DOMAIN queue[g] : queue'[g][i] = queue[g][k]
    <3>1. queue'[g] = queue[g] \/ (queue[g] # << >> /\ queue'[g] = Tail(queue[g]))
      BY <1>0, <2>2, <2>3
    <3>2. CASE queue[g] # << >> /\ queue'[g] = Tail(queue[g])
      <4>1. \A i \in DOMAIN Tail(queue[g]) :
               \E k \in DOMAIN queue[g] : Tail(queue[g])[i] = queue[g][k]
        BY <1>q, <3>2, FromTail
      <4> QED
        BY <3>2, <4>1
    <3> QED
      BY <3>1, <3>2
  <2> QED
    BY <2>3, <2>4 DEF Moves
<1>5. ASSUME NEW h \in Hosts, NEW w \in Workers, Unserialize(h, w) PROVE Moves(g)
  <2> DEFINE n == Head(queue[h]).msg
             r == Lookup(h, n)
             x == [msg |-> n, cb |-> r]
  <2>1. NextJob(h, "unserialize")
    BY <1>5 DEF Unserialize
  <2>2. /\ queue[h] \in Seq(JobSet(Messages)) /\ queue[h] # << >>
        /\ Head(queue[h]).kind = "unserialize" /\ n \in Messages
    BY <2>1, QueueHead
  <2>3. msgs[n].dst = h /\ n # 0
    <3>1. 1 \in DOMAIN queue[h] /\ queue[h][1] = Head(queue[h])
      BY <2>2, TailElements
    <3> QED
      BY <2>2, <3>1, MessageNumbers DEF RouteInv
  <2>4. \/ r = 0 /\ \A q \in open[h] : msgs[q].id # msgs[n].id
        \/ r \in open[h] /\ msgs[r].id = msgs[n].id
    BY LookupFinds
  <2>5. x.msg = n /\ x.cb = r
    OBVIOUS
  <2>6. /\ queue' = [queue EXCEPT ![h] = Tail(@)]
        /\ worker' = worker \/ worker' = [worker EXCEPT ![h][w] = x]
        /\ UNCHANGED <<held, events, inbox, open, timers, evt>>
    BY <1>5 DEF Unserialize, Dequeued
  <2> HIDE DEF n, r, x
  <2>7. \A i \in DOMAIN queue'[g] :
           \E k \in DOMAIN queue[g] : queue'[g][i] = queue[g][k]
    <3>1. queue'[g] = queue[g] \/ (queue[g] # << >> /\ queue'[g] = Tail(queue[g]))
      BY <1>0, <2>2, <2>6
    <3>2. CASE queue[g] # << >> /\ queue'[g] = Tail(queue[g])
      <4>1. \A i \in DOMAIN Tail(queue[g]) :
               \E k \in DOMAIN queue[g] : Tail(queue[g])[i] = queue[g][k]
        BY <1>q, <3>2, FromTail
      <4> QED
        BY <3>2, <4>1
    <3> QED
      BY <3>1, <3>2
  <2>8. \A v \in Workers : \/ worker'[g][v] = worker[g][v]
                           \/ g = h /\ worker'[g][v] = x
    BY <1>0, <2>6
  <2> QED
    BY <2>2, <2>3, <2>4, <2>5, <2>6, <2>7, <2>8 DEF Moves
<1>6. ASSUME NEW h \in Hosts, NEW w \in Workers, PostReceiveEvent(h, w) PROVE Moves(g)
  <2> DEFINE n == worker[h][w].msg
             r == worker[h][w].cb
             e == [msg |-> n, cb |-> r, ls |-> listening[h]]
  <2>1. /\ n # 0 /\ worker' = [worker EXCEPT ![h][w] = Idle]
        /\ open' = [open EXCEPT ![h] = @ \ {r}] \/ open' = open
        /\ events' = [events EXCEPT ![h] = Append(@, e)] \/ events' = events
        /\ UNCHANGED <<held, queue, inbox, timers, evt>>
    BY <1>6 DEF PostReceiveEvent, Unlink
  <2>2. e.msg = n /\ e.cb = r
    OBVIOUS
  <2>3. e \in EventSet(Messages)
    <3>1. n \in Messages /\ r \in Messages \cup {0}
      BY <2>1, Contents
    <3>2. listening[h] \in BOOLEAN
      BY DEF Types
    <3> QED
      BY <3>1, <3>2 DEF EventSet
  <2> HIDE DEF n, r, e
  <2>4. ASSUME NEW i \in DOMAIN events'[g]
        PROVE  \/ \E j \in DOMAIN events[g] : events'[g][i] = events[g][j]
               \/ g = h /\ events'[g][i] = e
    <3>1. events'[g] = events[g] \/ (g = h /\ events'[g] = Append(events[g], e))
      BY <1>0, <2>1
    <3>2. CASE events'[g] = events[g]
      BY <3>2
    <3>3. CASE g = h /\ events'[g] = Append(events[g], e)
      BY <1>0, <2>3, <3>3, FromAppend
    <3> QED
      BY <3>1, <3>2, <3>3
  <2>5. \A i \in DOMAIN events'[g] :
          \/ \E j \in DOMAIN events[g] : events'[g][i] = events[g][j]
          \/ \E v \in Workers : /\ worker[g][v].msg # 0
                                /\ events'[g][i].msg = worker[g][v].msg
                                /\ events'[g][i].cb = worker[g][v].cb
    BY <2>1, <2>2, <2>4 DEF n, r
  <2>6. \A v \in Workers : worker'[g][v] = worker[g][v] \/ worker'[g][v] = Idle
    BY <1>0, <2>1
  <2>7. open'[g] \subseteq open[g]
    BY <1>0, <2>1
  <2> QED
    BY <2>1, <2>5, <2>6, <2>7 DEF Moves
<1>7. ASSUME NEW h \in Hosts, NEW t \in timers[h], TimeoutOccurred(h, t) PROVE Moves(g)
  <2>1. Lookup(h, t) = 0 \/ Lookup(h, t) \in open[h]
    BY LookupFinds
  <2>2. /\ timers' = [timers EXCEPT ![h] = @ \ {t}]
        /\ evt' = [evt EXCEPT ![h] = Lookup(h, t)]
        /\ UNCHANGED <<held, queue, worker, events, inbox, open>>
    BY <1>7 DEF TimeoutOccurred, hist
  <2>3. timers'[g] \subseteq timers[g]
    BY <1>0, <2>2
  <2>4. evt'[g] = evt[g] \/ (g = h /\ evt'[g] = Lookup(h, t))
    BY <1>0, <2>2
  <2> QED
    BY <2>1, <2>2, <2>3, <2>4 DEF Moves
<1>8. ASSUME NEW h \in Hosts, messageTimeoutOccured(h) PROVE Moves(g)
  <2>1. /\ open' = [open EXCEPT ![h] = @ \ {evt[h]}] \/ open' = open
        /\ evt' = [evt EXCEPT ![h] = 0]
        /\ UNCHANGED <<held, queue, worker, events, inbox, timers>>
    BY <1>8 DEF messageTimeoutOccured, Unlink
  <2>2. open'[g] \subseteq open[g] /\ (evt'[g] = 0 \/ evt'[g] = evt[g])
    BY <1>0, <2>1
  <2> QED
    BY <2>1, <2>2 DEF Moves
<1>9. ASSUME NEW h \in Hosts, ReceiveEvent(h) PROVE Moves(g)
  <2>1. events[h] # << >> /\ events[h] \in Seq(EventSet(Messages))
    BY <1>9, Contents DEF ReceiveEvent
  <2>2. 1 \in DOMAIN events[h] /\ Head(events[h]) = events[h][1]
    BY <2>1, TailElements
  <2>3. /\ events' = [events EXCEPT ![h] = Tail(@)]
        /\ \/ inbox' = inbox
           \/ /\ inbox' = [inbox EXCEPT ![h] = @ \cup {Head(events[h]).msg}]
              /\ Head(events[h]).cb = 0
        /\ UNCHANGED <<held, queue, worker, open, timers, evt>>
    BY <1>9 DEF ReceiveEvent
  <2>4. ASSUME NEW i \in DOMAIN events'[g]
        PROVE  \E j \in DOMAIN events[g] : events'[g][i] = events[g][j]
    <3>1. events'[g] = events[g] \/ (events[g] # << >> /\ events'[g] = Tail(events[g]))
      BY <1>0, <2>1, <2>3
    <3>2. CASE events[g] # << >> /\ events'[g] = Tail(events[g])
      <4>1. \A l \in DOMAIN Tail(events[g]) :
               \E k \in DOMAIN events[g] : Tail(events[g])[l] = events[g][k]
        BY <1>q, <3>2, FromTail
      <4> QED
        BY <3>2, <4>1
    <3> QED
      BY <3>1, <3>2
  <2>5. ASSUME NEW n \in inbox'[g]
        PROVE  \/ n \in inbox[g]
               \/ \E j \in DOMAIN events[g] : events[g][j].msg = n /\ events[g][j].cb = 0
    <3>1. \/ n \in inbox[g]
          \/ g = h /\ n = Head(events[h]).msg /\ Head(events[h]).cb = 0
      BY <1>0, <2>3
    <3> QED
      BY <2>2, <3>1
  <2> QED
    BY <2>3, <2>4, <2>5 DEF Moves
<1>10. ASSUME NEW n \in net, MsgReceiverThread(n) PROVE Moves(g)
  <2> DEFINE h == msgs[n].dst
             j == Job("unserialize", n)
  <2>1. n \in Messages /\ h \in Hosts
    BY MessageNumbers DEF Types, Message
  <2>2. j.kind = "unserialize" /\ j.msg = n /\ j \in JobSet(Messages)
    BY <2>1 DEF Job, JobSet
  <2>3. RightJob(h, j)
    BY <2>2 DEF RightJob
  <2>4. /\ queue' = [queue EXCEPT ![h] = Append(@, j)]
        /\ UNCHANGED <<held, worker, events, inbox, open, timers, evt>>
    BY <1>10 DEF MsgReceiverThread, Execute
  <2> HIDE DEF j, h
  <2>5. ASSUME NEW i \in DOMAIN queue'[g]
        PROVE  \/ \E k \in DOMAIN queue[g] : queue'[g][i] = queue[g][k]
               \/ RightJob(g, queue'[g][i])
    <3>1. queue'[g] = queue[g] \/ (g = h /\ queue'[g] = Append(queue[g], j))
      BY <1>0, <2>4
    <3>2. CASE queue'[g] = queue[g]
      BY <3>2
    <3>3. CASE g = h /\ queue'[g] = Append(queue[g], j)
      <4>1. \/ \E k \in DOMAIN queue[g] : queue'[g][i] = queue[g][k]
            \/ queue'[g][i] = j
        BY <1>0, <2>2, <3>3, FromAppend
      <4> QED
        BY <2>3, <3>3, <4>1
    <3> QED
      BY <3>1, <3>2, <3>3
  <2> QED
    BY <2>4, <2>5 DEF Moves
<1>11. ASSUME NEW n \in net, Lose(n) PROVE Moves(g)
  BY <1>11 DEF Lose, hist, Moves
<1>12. ASSUME NEW h \in Hosts, ReceiverDies(h) PROVE Moves(g)
  BY <1>12 DEF ReceiverDies, hist, Moves
<1> QED
  BY <1>1, <1>2, <1>3, <1>4, <1>5, <1>6, <1>7, <1>8, <1>9, <1>10, <1>11, <1>12
     DEF Next, Network, HostStep, Application, Pool, Timer

(* A submitted request is the host's own, and nothing else is new.         *)
LEMMA SubmitOwns ==
    ASSUME Types, OwnInv, NEW h \in Hosts, NEW d \in Hosts, NEW id \in Nat,
           NEW re \in Messages \cup {0}, Submit(h, d, id, re),
           \A g \in Hosts : \A r \in open'[g] \cup timers'[g] :
              r \in open[g] \cup timers[g] \/ (g = h /\ r = Len(msgs) + 1 /\ re = 0)
    PROVE  OwnInv'
<1> DEFINE n == Len(msgs) + 1
           x == Record(h, d, id, re)
<1>1. /\ Messages' = Messages \cup {n} /\ n \notin Messages
      /\ \A m \in Messages : msgs'[m] = msgs[m]
      /\ msgs'[n] = x
  BY SubmitNumbers
<1>2. x.src = h /\ x.re = re
  BY DEF Record
<1>3. worker' = worker /\ events' = events /\ evt' = evt
  BY DEF Submit
<1> HIDE DEF x
<1>4. ASSUME NEW g, NEW r, Own(g, r)
      PROVE  /\ r \in Messages' /\ msgs'[r].src = g /\ msgs'[r].re = 0
             /\ msgs'[r] = msgs[r]
  BY <1>1, <1>4 DEF Own
<1> SUFFICES ASSUME NEW g \in Hosts
             PROVE  /\ \A r \in open'[g] \cup timers'[g] : Own(g, r)'
                    /\ evt'[g] # 0 => Own(g, evt[g])'
                    /\ \A w \in Workers : worker'[g][w].cb # 0 =>
                          /\ Own(g, worker[g][w].cb)'
                          /\ worker'[g][w].msg # 0
                          /\ msgs'[worker'[g][w].cb].id = msgs'[worker'[g][w].msg].id
                    /\ \A i \in DOMAIN events'[g] : events'[g][i].cb # 0 =>
                          /\ Own(g, events[g][i].cb)'
                          /\ msgs'[events'[g][i].cb].id = msgs'[events'[g][i].msg].id
  BY DEF OwnInv
<1>5. ASSUME NEW r \in open'[g] \cup timers'[g] PROVE Own(g, r)'
  <2>1. CASE r \in open[g] \cup timers[g]
    BY <1>4, <2>1 DEF OwnInv, Own
  <2>2. CASE g = h /\ r = n /\ re = 0
    BY <1>1, <1>2, <2>2 DEF Own
  <2> QED
    BY <2>1, <2>2
<1>6. evt'[g] # 0 => Own(g, evt[g])'
  BY <1>3, <1>4 DEF OwnInv, Own
<1>7. ASSUME NEW w \in Workers, worker'[g][w].cb # 0
      PROVE  /\ Own(g, worker[g][w].cb)'
             /\ worker'[g][w].msg # 0
             /\ msgs'[worker'[g][w].cb].id = msgs'[worker'[g][w].msg].id
  <2>1. worker[g][w].msg \in Messages \cup {0}
    BY Contents
  <2>2. /\ Own(g, worker[g][w].cb) /\ worker[g][w].msg # 0
        /\ msgs[worker[g][w].cb].id = msgs[worker[g][w].msg].id
    BY <1>3, <1>7 DEF OwnInv
  <2> QED
    BY <1>1, <1>3, <1>4, <2>1, <2>2 DEF Own
<1>8. ASSUME NEW i \in DOMAIN events'[g], events'[g][i].cb # 0
      PROVE  /\ Own(g, events[g][i].cb)'
             /\ msgs'[events'[g][i].cb].id = msgs'[events'[g][i].msg].id
  <2>1. events[g][i].msg \in Messages
    BY <1>3, Contents
  <2>2. /\ Own(g, events[g][i].cb)
        /\ msgs[events[g][i].cb].id = msgs[events[g][i].msg].id
    BY <1>3, <1>8 DEF OwnInv
  <2> QED
    BY <1>1, <1>3, <1>4, <2>1, <2>2 DEF Own
<1> QED
  BY <1>5, <1>6, <1>7, <1>8

(* The facts about identifiers and places that the later proofs use.       *)
Refs == Types /\ NumberInv /\ RouteInv /\ OwnInv

(* The new request's entry and timer are all that sendAndWait() adds.      *)
LEMMA WaitAdds ==
    ASSUME Types, NEW h \in Hosts, NEW d \in Hosts, sendAndWait(h, d),
           NEW g \in Hosts
    PROVE  /\ \A r \in open'[g] : r \in open[g] \/ (g = h /\ r = Len(msgs) + 1)
           /\ \A r \in timers'[g] : r \in timers[g] \/ (g = h /\ r = Len(msgs) + 1)
           /\ timers[g] \subseteq timers'[g]
           /\ g = h => Len(msgs) + 1 \in timers'[g]
<1> DEFINE n == Len(msgs) + 1
<1>1. open \in [Hosts -> SUBSET Messages] /\ timers \in [Hosts -> SUBSET Messages]
  BY DEF Types
<1>2. /\ timers' = [timers EXCEPT ![h] = @ \cup {n}]
      /\ \/ open' = [open EXCEPT ![h] = {q \in open[h] : msgs[q].id # currentID[h]} \cup {n}]
         \/ open' = open
  BY DEF sendAndWait, Put
<1> HIDE DEF n
<1>3. ASSUME NEW r \in open'[g] PROVE r \in open[g] \/ (g = h /\ r = n)
  BY <1>1, <1>2
<1>4. /\ \A r \in timers'[g] : r \in timers[g] \/ (g = h /\ r = n)
      /\ timers[g] \subseteq timers'[g]
      /\ g = h => n \in timers'[g]
  BY <1>1, <1>2
<1> QED
  BY <1>3, <1>4 DEF n

(* Every step keeps them.                                                  *)
LEMMA NextRefs == Refs /\ [Next]_vars => Refs'
<1> SUFFICES ASSUME Refs, [Next]_vars PROVE Refs'
  OBVIOUS
<1>0. Types /\ NumberInv /\ RouteInv /\ OwnInv /\ Types' /\ NumberInv'
  BY NextTypes, NextNumbers DEF Refs
<1>1. ASSUME NEW h \in Hosts, NEW d \in Hosts \ {h}, send(h, d)
      PROVE  RouteInv' /\ OwnInv'
  <2>1. Submit(h, d, currentID[h], 0) /\ open' = open /\ timers' = timers
    BY <1>1 DEF send
  <2>2. currentID[h] \in Nat
    BY <1>0, Contents
  <2> QED
    BY <1>0, <2>1, <2>2, SubmitRouted, SubmitOwns
<1>2. ASSUME NEW h \in Hosts, NEW d \in Hosts \ {h}, sendAndWait(h, d)
      PROVE  RouteInv' /\ OwnInv'
  <2>1. Submit(h, d, currentID[h], 0)
    BY <1>2 DEF sendAndWait
  <2>2. currentID[h] \in Nat
    BY <1>0, Contents
  <2>3. \A g \in Hosts : \A r \in open'[g] \cup timers'[g] :
           r \in open[g] \cup timers[g] \/ (g = h /\ r = Len(msgs) + 1)
    BY <1>0, <1>2, WaitAdds
  <2> QED
    BY <1>0, <2>1, <2>2, <2>3, SubmitRouted, SubmitOwns
<1>3. ASSUME NEW h \in Hosts, NEW n \in inbox[h], sendReply(h, n)
      PROVE  RouteInv' /\ OwnInv'
  <2>1. Submit(h, msgs[n].src, msgs[n].id, n) /\ open' = open /\ timers' = timers
    BY <1>3 DEF sendReply
  <2>2. n \in Messages
    BY <1>0, Contents
  <2>3. msgs[n].src \in Hosts /\ msgs[n].id \in Nat /\ n \in Messages
    BY <1>0, <2>2, MessageNumbers DEF Message
  <2> QED
    BY <1>0, <2>1, <2>3, SubmitRouted, SubmitOwns
<1>4. ASSUME Next,
             \A h \in Hosts : \A d \in Hosts \ {h} : ~send(h, d) /\ ~sendAndWait(h, d),
             \A h \in Hosts : \A n \in inbox[h] : ~sendReply(h, n)
      PROVE  RouteInv' /\ OwnInv'
  <2>1. msgs' = msgs
    BY <1>0, <1>4, Created
  <2>2. \A g \in Hosts : Moves(g)
    BY <1>0, <1>4, NextMoves
  <2> QED
    BY <1>0, <2>1, <2>2, MovesKeepPlaces
<1>5. ASSUME UNCHANGED vars PROVE RouteInv' /\ OwnInv'
  <2>1. /\ msgs' = msgs /\ held' = held /\ queue' = queue /\ worker' = worker
        /\ events' = events /\ inbox' = inbox /\ open' = open /\ timers' = timers
        /\ evt' = evt
    BY <1>5 DEF vars, hist
  <2>2. \A g \in Hosts : Moves(g)
    BY <2>1 DEF Moves
  <2> QED
    BY <1>0, <2>1, <2>2, MovesKeepPlaces
<1> QED
  BY <1>0, <1>1, <1>2, <1>3, <1>4, <1>5 DEF Refs

-----------------------------------------------------------------------------
(* Callbacks.                                                              *)

(* A host's own messages have different identifiers.                       *)
LEMMA OwnNumbers ==
    ASSUME NumberInv, NEW h \in Hosts, NEW r, NEW q, Own(h, r), Own(h, q),
           msgs[r].id = msgs[q].id
    PROVE  r = q
BY DEF NumberInv, Own

(* The ReceiveEvents of a request and of a message.                        *)
LEMMA EventMembers ==
    ASSUME Types, NEW e \in EventSet(Messages), NEW r
    PROVE  /\ e \in EventsFor(r) <=> e.cb = r
           /\ e \in EventsOf(r) <=> e.msg = r
<1>1. Messages \subseteq Nat /\ Messages \cup {0} \subseteq Nat
  BY MessageNumbers
<1>2. /\ e = [msg |-> e.msg, cb |-> e.cb, ls |-> e.ls]
      /\ e.msg \in Nat /\ e.cb \in Nat /\ e.ls \in BOOLEAN
  BY <1>1 DEF EventSet
<1>3. e \in EventsFor(r) => e.cb = r
  BY DEF EventsFor
<1>4. e \in EventsOf(r) => e.msg = r
  BY DEF EventsOf
<1>5. e.cb = r => e \in EventsFor(r)
  BY <1>2 DEF EventsFor
<1>6. e.msg = r => e \in EventsOf(r)
  BY <1>2 DEF EventsOf
<1> QED
  BY <1>3, <1>4, <1>5, <1>6

(* Data races are not forgotten.                                           *)
LEMMA RacedGrows == [Next]_vars => raced \subseteq raced'
<1>1. Network \/ UNCHANGED vars => raced' = raced
  BY DEF vars, Network, MsgReceiverThread, Lose, ReceiverDies
<1>2. \A h \in Hosts : Application(h) => raced \subseteq raced'
  BY DEF Application, setTransportMessageListener, send, sendAndWait, sendReply,
         QueueService, Put, NoteRace
<1>3. ASSUME NEW h \in Hosts, Pool(h) PROVE raced \subseteq raced'
  <2>1. \A w \in Workers : SerializeAndSend(h, w) \/ MsgSenderRunnable(h, w)
                          \/ PostReceiveEvent(h, w) => raced' = raced
    BY DEF SerializeAndSend, MsgSenderRunnable, PostReceiveEvent
  <2>2. \A w \in Workers : Unserialize(h, w) => raced \subseteq raced'
    BY DEF Unserialize, NoteRace
  <2> QED
    BY <1>3, <2>1, <2>2 DEF Pool
<1>4. \A h \in Hosts : Timer(h) \/ messageTimeoutOccured(h) \/ ReceiveEvent(h)
                         => raced \subseteq raced'
  BY DEF Timer, TimeoutOccurred, messageTimeoutOccured, ReceiveEvent, NoteRace
<1> QED
  BY <1>1, <1>2, <1>3, <1>4 DEF Next, HostStep

(* A callback in the map of host g has a timer or its timeout is being     *)
(* handled.                                                                *)
Tracked(g) == \A r \in open[g] : r \in timers[g] \/ evt[g] = r

(* What a remove() does when no other thread is in the bucket.             *)
LEMMA UnlinkAlone ==
    ASSUME Types, NEW h \in Hosts, NEW r, Unlink(h, r),
           \A q \in Removing(h) \ {r} : ~SameBucket(msgs[q].id, msgs[r].id),
           NEW g \in Hosts
    PROVE  open'[g] = IF g = h THEN open[g] \ {r} ELSE open[g]
<1>1. open' = [open EXCEPT ![h] = @ \ {r}]
  BY DEF Unlink
<1>2. open \in [Hosts -> SUBSET Messages]
  BY DEF Types
<1> QED
  BY <1>1, <1>2

(* Nobody else is in the bucket of a request that a thread removes.        *)
LEMMA Alone ==
    ASSUME Types, NEW h \in Hosts, Callbacks(h)
    PROVE  /\ \A w \in Workers : worker[h][w].cb # 0 =>
                 \A q \in Removing(h) \ {worker[h][w].cb} :
                    ~SameBucket(msgs[q].id, msgs[worker[h][w].cb].id)
           /\ evt[h] # 0 =>
                 \A q \in Removing(h) \ {evt[h]} :
                    ~SameBucket(msgs[q].id, msgs[evt[h]].id)
BY DEF Callbacks, Removing, SameBucket

(* Two threads that remove something do not remove the same.               *)
LEMMA Apart ==
    ASSUME NEW h \in Hosts, Callbacks(h)
    PROVE  /\ \A w, v \in Workers :
                 worker[h][w].cb # 0 /\ w # v => worker[h][v].cb # worker[h][w].cb
           /\ \A w \in Workers : evt[h] # 0 => worker[h][w].cb # evt[h]
BY DEF Callbacks, SameBucket

(* What does not touch the callbacks of a host keeps the invariant there.  *)
LEMMA CallbacksStay ==
    ASSUME NEW g \in Hosts, Callbacks(g), Tracked(g), msgs' = msgs,
           open'[g] = open[g], timers'[g] = timers[g], evt'[g] = evt[g],
           events'[g] = events[g],
           \A w \in Workers : worker'[g][w].cb = worker[g][w].cb,
           \A r \in Messages : msgs[r].src = g => outcomes'[r] = outcomes[r]
    PROVE  Callbacks(g)' /\ Tracked(g)'
<1>1. Messages' = Messages
  BY DEF Messages
<1>2. Tracked(g)'
  BY DEF Tracked
<1>3. ASSUME NEW w \in Workers, worker'[g][w].cb # 0
      PROVE  /\ worker'[g][w].cb \in open'[g]
             /\ \A v \in Workers \ {w} : worker'[g][v].cb # 0 =>
                   ~SameBucket(msgs'[worker'[g][w].cb].id, msgs'[worker'[g][v].cb].id)
             /\ evt'[g] # 0 =>
                   ~SameBucket(msgs'[worker'[g][w].cb].id, msgs'[evt'[g]].id)
  BY <1>3 DEF Callbacks
<1>4. evt'[g] # 0 => evt'[g] \in open'[g]
  BY DEF Callbacks
<1>5. ASSUME NEW r \in Messages', msgs'[r].src = g
      PROVE  /\ outcomes'[r] <= 1
             /\ Once(events'[g], EventsFor(r))
             /\ Some(events'[g], EventsFor(r)) => outcomes'[r] = 0 /\ r \notin open'[g]
             /\ r \in open'[g] => outcomes'[r] = 0
  BY <1>1, <1>5 DEF Callbacks
<1>6. Callbacks(g)'
  BY <1>3, <1>4, <1>5 DEF Callbacks, SameBucket, Once, Some, EventsFor
<1> QED
  BY <1>2, <1>6

(* A new message: nothing is in the hands of a thread yet.                 *)
LEMMA SubmitCallbacks ==
    ASSUME Types, NEW h \in Hosts, NEW d \in Hosts, NEW id \in Nat, NEW re \in Messages \cup {0},
           Submit(h, d, id, re), NEW g \in Hosts, Callbacks(g), Tracked(g),
           open[g] \subseteq open'[g], timers[g] \subseteq timers'[g],
           \A r \in open'[g] :
              r \in open[g] \/ (r = Len(msgs) + 1 /\ r \in timers'[g])
    PROVE  Callbacks(g)' /\ Tracked(g)'
<1> DEFINE n == Len(msgs) + 1
<1>1. /\ Messages' = Messages \cup {n} /\ n \notin Messages /\ n # 0
      /\ \A m \in Messages : msgs'[m] = msgs[m] /\ outcomes'[m] = outcomes[m]
      /\ outcomes'[n] = 0
  BY SubmitNumbers
<1>2. worker' = worker /\ evt' = evt /\ events' = events
  BY DEF Submit
<1> HIDE DEF n
<1>3. /\ open[g] \subseteq Messages /\ evt[g] \in Messages \cup {0}
      /\ \A w \in Workers : worker[g][w].cb \in Messages \cup {0}
      /\ \A i \in DOMAIN events[g] : /\ events[g][i] \in EventSet(Messages)
                                   /\ events[g][i].cb \in Messages \cup {0}
  BY Contents, LenProperties, ElementOfSeq
<1>4. \A r \in open'[g] : r \in open[g] \/ (r = n /\ r \in timers'[g])
  BY DEF n
<1>5. Tracked(g)'
  BY <1>2, <1>4 DEF Tracked
<1>6. ASSUME NEW w \in Workers, worker'[g][w].cb # 0
      PROVE  /\ worker'[g][w].cb \in open'[g]
             /\ \A v \in Workers \ {w} : worker'[g][v].cb # 0 =>
                   ~SameBucket(msgs'[worker'[g][w].cb].id, msgs'[worker'[g][v].cb].id)
             /\ evt'[g] # 0 =>
                   ~SameBucket(msgs'[worker'[g][w].cb].id, msgs'[evt'[g]].id)
  <2>1. worker[g][w].cb # 0 /\ worker[g][w].cb \in Messages
    BY <1>2, <1>3, <1>6
  <2>2. worker[g][w].cb \in open[g]
    BY <2>1 DEF Callbacks
  <2>3. ASSUME NEW v \in Workers \ {w}, worker[g][v].cb # 0
        PROVE  ~SameBucket(msgs'[worker[g][w].cb].id, msgs'[worker[g][v].cb].id)
    BY <1>1, <1>3, <2>1, <2>3 DEF Callbacks
  <2>4. evt[g] # 0 => ~SameBucket(msgs'[worker[g][w].cb].id, msgs'[evt[g]].id)
    BY <1>1, <1>3, <2>1 DEF Callbacks
  <2> QED
    BY <1>2, <2>2, <2>3, <2>4
<1>7. evt'[g] # 0 => evt'[g] \in open'[g]
  BY <1>2 DEF Callbacks
<1>8. ASSUME NEW r \in Messages', msgs'[r].src = g
      PROVE  /\ outcomes'[r] <= 1
             /\ Once(events'[g], EventsFor(r))
             /\ Some(events'[g], EventsFor(r)) => outcomes'[r] = 0 /\ r \notin open'[g]
             /\ r \in open'[g] => outcomes'[r] = 0
  <2>1. CASE r \in Messages
    <3>1. r # n /\ msgs[r].src = g /\ outcomes'[r] = outcomes[r]
          /\ (r \in open'[g] <=> r \in open[g])
      BY <1>1, <1>4, <1>8, <2>1
    <3> QED
      BY <1>2, <2>1, <3>1 DEF Callbacks
  <2>2. CASE r = n
    <3>1. ~Some(events'[g], EventsFor(r))
      BY <1>1, <1>2, <1>3, <2>2 DEF Some, EventsFor
    <3> QED
      BY <1>1, <2>2, <3>1 DEF Once, Some
  <2> QED
    BY <1>1, <2>1, <2>2
<1>9. Callbacks(g)'
  BY <1>6, <1>7, <1>8 DEF Callbacks, SameBucket, Once, Some, EventsFor
<1> QED
  BY <1>5, <1>9

(* sendAndWait(), where it does not race with a remove(), drops no entry.  *)
LEMMA WaitCallbacks ==
    ASSUME Refs, NEW h \in Hosts, NEW d \in Hosts, sendAndWait(h, d),
           NEW g \in Hosts \ raced', Callbacks(g), Tracked(g)
    PROVE  Callbacks(g)' /\ Tracked(g)'
<1> DEFINE n == Len(msgs) + 1
<1>0. Types /\ NumberInv /\ OwnInv /\ open \in [Hosts -> SUBSET Messages]
  BY DEF Refs, Types
<1>1. Submit(h, d, currentID[h], 0) /\ Put(h, n, currentID[h])
  BY DEF sendAndWait
<1>2. currentID[h] \in Nat
  BY <1>0, Contents
<1>3. open[g] \subseteq open'[g]
  <2>1. CASE g = h
    <3>1. ~Contended(h, currentID[h])
      BY <1>1, <2>1 DEF Put, NoteRace
    <3>2. open' = [open EXCEPT ![h] = {q \in open[h] : msgs[q].id # currentID[h]} \cup {n}]
      BY <1>1, <3>1 DEF Put
    <3>3. ASSUME NEW q \in open[h] PROVE msgs[q].id # currentID[h]
      <4>1. q \in Messages /\ msgs[q].src = h /\ msgs[q].re = 0
        BY <1>0, <3>3 DEF OwnInv, Own
      <4>2. msgs[q].id < currentID[h] /\ msgs[q].id \in Nat
        BY <1>0, <4>1, MessageNumbers DEF NumberInv, Numbered, Message
      <4> QED
        BY <1>2, <4>2
    <3> QED
      BY <1>0, <2>1, <3>2, <3>3
  <2>2. CASE g # h
    <3>1. \/ open' = [open EXCEPT ![h] = {q \in open[h] : msgs[q].id # currentID[h]} \cup {n}]
          \/ open' = open
      BY <1>1 DEF Put
    <3> QED
      BY <1>0, <2>2, <3>1
  <2> QED
    BY <2>1, <2>2
<1>4. /\ \A r \in open'[g] : r \in open[g] \/ (g = h /\ r = n)
      /\ timers[g] \subseteq timers'[g] /\ (g = h => n \in timers'[g])
  BY <1>0, WaitAdds
<1> HIDE DEF n
<1>5. \A r \in open'[g] : r \in open[g] \/ (r = n /\ r \in timers'[g])
  BY <1>4
<1> QED
  BY <1>0, <1>1, <1>2, <1>3, <1>4, <1>5, SubmitCallbacks DEF n

(* The lookup of UnserializeAndReceive: what it finds, no one else is      *)
(* removing.                                                               *)
LEMMA UnserializeCallbacks ==
    ASSUME Refs, NEW h \in Hosts, NEW w \in Workers, Unserialize(h, w),
           NEW g \in Hosts \ raced', Callbacks(g), Tracked(g)
    PROVE  Callbacks(g)' /\ Tracked(g)'
<1> DEFINE n == Head(queue[h]).msg
           r == Lookup(h, n)
           x == [msg |-> n, cb |-> r]
<1>0. /\ DOMAIN worker = Hosts
      /\ \A f \in Hosts : worker[f] \in [Workers -> [msg : 0..Len(msgs), cb : 0..Len(msgs)]]
  BY DEF Refs, Types
<1>1. /\ msgs' = msgs /\ open' = open /\ timers' = timers /\ evt' = evt
      /\ events' = events /\ outcomes' = outcomes /\ worker[h][w] = Idle
      /\ \/ worker' = worker
         \/ /\ worker' = [worker EXCEPT ![h][w] = x]
            /\ NoteRace(h, r # 0 /\ Contended(h, msgs[r].id))
  BY DEF Unserialize
<1>2. (r = 0 \/ r \in open[h]) /\ x.cb = r
  BY LookupFinds
<1> HIDE DEF n, r, x
<1>3. CASE worker'[g] = worker[g]
  BY <1>1, <1>3, CallbacksStay
<1>4. CASE /\ g = h /\ worker' = [worker EXCEPT ![h][w] = x]
           /\ NoteRace(h, r # 0 /\ Contended(h, msgs[r].id))
  <2>1. r = 0 \/ ~Contended(h, msgs[r].id)
    BY <1>4 DEF NoteRace
  <2>2. /\ worker'[g][w] = x
        /\ \A v \in Workers \ {w} : worker'[g][v] = worker[g][v]
    BY <1>0, <1>4
  <2>3. worker[g][w].cb = 0
    BY <1>1, <1>4 DEF Idle
  <2>4. Tracked(g)'
    BY <1>1 DEF Tracked
  <2>5. ASSUME NEW v \in Workers, worker'[g][v].cb # 0
        PROVE  worker'[g][v].cb \in open[g]
    BY <1>2, <1>4, <2>2, <2>5 DEF Callbacks
  <2>6. ASSUME NEW v \in Workers, worker'[g][v].cb # 0,
               NEW u \in Workers \ {v}, worker'[g][u].cb # 0
        PROVE  ~SameBucket(msgs[worker'[g][v].cb].id, msgs[worker'[g][u].cb].id)
    <3>1. CASE v = w
      BY <1>2, <1>4, <2>1, <2>2, <2>6, <3>1 DEF Contended, Removing, SameBucket
    <3>2. CASE u = w
      BY <1>2, <1>4, <2>1, <2>2, <2>6, <3>2 DEF Contended, Removing, SameBucket
    <3>3. CASE v # w /\ u # w
      BY <2>2, <2>6, <3>3 DEF Callbacks
    <3> QED
      BY <3>1, <3>2, <3>3
  <2>7. ASSUME NEW v \in Workers, worker'[g][v].cb # 0, evt'[g] # 0
        PROVE  ~SameBucket(msgs[worker'[g][v].cb].id, msgs[evt[g]].id)
    <3>1. CASE v = w
      BY <1>1, <1>2, <1>4, <2>1, <2>2, <2>7, <3>1 DEF Contended, Removing, SameBucket
    <3>2. CASE v # w
      BY <1>1, <2>2, <2>7, <3>2 DEF Callbacks
    <3> QED
      BY <3>1, <3>2
  <2>8. Messages' = Messages
    BY <1>1 DEF Messages
  <2>9. /\ evt'[g] # 0 => evt'[g] \in open'[g]
        /\ \A q \in Messages' :
              msgs'[q].src = g =>
                 /\ outcomes'[q] <= 1
                 /\ Once(events'[g], EventsFor(q))
                 /\ Some(events'[g], EventsFor(q)) => outcomes'[q] = 0 /\ q \notin open'[g]
                 /\ q \in open'[g] => outcomes'[q] = 0
    BY <1>1, <2>8 DEF Callbacks
  <2>10. Callbacks(g)'
    BY <1>1, <2>5, <2>6, <2>7, <2>9 DEF Callbacks, SameBucket, Once, Some, EventsFor
  <2> QED
    BY <2>4, <2>10
<1> QED
  BY <1>0, <1>1, <1>3, <1>4

(* The callback goes from the map into one ReceiveEvent, or nowhere.       *)
LEMMA PostCallbacks ==
    ASSUME Refs, NEW h \in Hosts, NEW w \in Workers, PostReceiveEvent(h, w),
           NEW g \in Hosts, Callbacks(g), Tracked(g)
    PROVE  Callbacks(g)' /\ Tracked(g)'
<1> DEFINE n == worker[h][w].msg
           r == worker[h][w].cb
           e == [msg |-> n, cb |-> r, ls |-> listening[h]]
<1>0. /\ DOMAIN worker = Hosts
      /\ \A f \in Hosts : worker[f] \in [Workers -> [msg : 0..Len(msgs), cb : 0..Len(msgs)]]
      /\ events \in [Hosts -> Seq([msg : Messages, cb : 0..Len(msgs), ls : BOOLEAN])]
      /\ open \in [Hosts -> SUBSET Messages]
  BY DEF Refs, Types
<1>1. /\ msgs' = msgs /\ timers' = timers /\ evt' = evt /\ outcomes' = outcomes
      /\ worker' = [worker EXCEPT ![h][w] = Idle]
      /\ IF r # 0 THEN Unlink(h, r) ELSE open' = open
      /\ n # 0
      /\ events' = [events EXCEPT ![h] = Append(@, e)] \/ events' = events
  BY DEF PostReceiveEvent
<1>2. e \in EventSet(Messages) /\ e.cb = r /\ r \in Messages \cup {0} /\ 0 \notin Messages
  <2>1. n \in Messages /\ r \in Messages \cup {0}
    BY <1>1, Contents DEF Refs
  <2>2. listening[h] \in BOOLEAN
    BY DEF Refs, Types
  <2> QED
    BY <2>1, <2>2, MessageNumbers DEF EventSet, Refs
<1> HIDE DEF n, e
<1>3. CASE g # h
  <2>1. open'[g] = open[g] /\ events'[g] = events[g] /\ worker'[g] = worker[g]
    BY <1>0, <1>1, <1>3 DEF Unlink
  <2> QED
    BY <1>1, <2>1, CallbacksStay
<1>4. CASE g = h
  <2>1. open'[g] = open[g] \ {r}
    <3>1. CASE r # 0
      BY <1>1, <1>4, <3>1, Alone, UnlinkAlone DEF Refs
    <3>2. CASE r = 0
      BY <1>0, <1>1, <1>2, <1>4, <3>2
    <3> QED
      BY <3>1, <3>2
  <2>2. /\ worker'[g][w].cb = 0
        /\ \A v \in Workers \ {w} : worker'[g][v] = worker[g][v]
    BY <1>0, <1>1, <1>4 DEF Idle
  <2>3. events'[g] = Append(events[g], e) \/ events'[g] = events[g]
    BY <1>0, <1>1, <1>4
  <2>4. events[g] \in Seq(EventSet(Messages))
    BY Contents DEF Refs
  <2>5. ASSUME NEW v \in Workers, worker'[g][v].cb # 0
        PROVE  v # w /\ worker'[g][v].cb = worker[g][v].cb /\ worker'[g][v].cb \in open'[g]
    <3>1. v # w /\ worker'[g][v].cb = worker[g][v].cb
      BY <2>2, <2>5
    <3>2. worker[g][v].cb \in open[g]
      BY <2>5, <3>1 DEF Callbacks
    <3>3. worker[g][v].cb # r
      BY <1>4, <2>5, <3>1, Apart
    <3> QED
      BY <2>1, <3>1, <3>2, <3>3
  <2>6. ASSUME NEW v \in Workers, worker'[g][v].cb # 0
        PROVE  /\ \A u \in Workers \ {v} : worker'[g][u].cb # 0 =>
                     ~SameBucket(msgs[worker'[g][v].cb].id, msgs[worker'[g][u].cb].id)
               /\ evt'[g] # 0 =>
                     ~SameBucket(msgs[worker'[g][v].cb].id, msgs[evt'[g]].id)
    BY <1>1, <2>5, <2>6 DEF Callbacks
  <2>7. evt'[g] # 0 => evt'[g] \in open'[g]
    BY <1>1, <1>4, <2>1, Apart DEF Callbacks
  <2>8. Messages' = Messages
    BY <1>1 DEF Messages
  <2>9. ASSUME NEW q \in Messages, msgs[q].src = g
        PROVE  /\ outcomes[q] <= 1
               /\ Once(events'[g], EventsFor(q))
               /\ Some(events'[g], EventsFor(q)) => outcomes[q] = 0 /\ q \notin open'[g]
               /\ q \in open'[g] => outcomes[q] = 0
    <3>1. /\ outcomes[q] <= 1
          /\ Once(events[g], EventsFor(q))
          /\ Some(events[g], EventsFor(q)) => outcomes[q] = 0 /\ q \notin open[g]
          /\ q \in open[g] => outcomes[q] = 0
      BY <2>9 DEF Callbacks
    <3>2. q = r => r \in open[g]
      BY <1>2, <1>4 DEF Callbacks
    <3>3. e \in EventsFor(q) <=> q = r
      BY <1>2, EventMembers DEF Refs
    <3>4. CASE events'[g] = events[g]
      BY <2>1, <3>1, <3>4
    <3>5. CASE events'[g] = Append(events[g], e)
      <4>1. /\ Some(events'[g], EventsFor(q)) <=> Some(events[g], EventsFor(q)) \/ q = r
            /\ Once(events[g], EventsFor(q)) /\ (q = r => ~Some(events[g], EventsFor(q)))
               => Once(events'[g], EventsFor(q))
        BY <1>2, <2>4, <3>3, <3>5, AppendSome
      <4> QED
        BY <2>1, <3>1, <3>2, <4>1
    <3> QED
      BY <2>3, <3>4, <3>5
  <2>10. Tracked(g)'
    BY <1>1, <2>1 DEF Tracked
  <2>11. ASSUME NEW v \in Workers, worker'[g][v].cb # 0
         PROVE  /\ worker'[g][v].cb \in open'[g]
                /\ \A u \in Workers \ {v} : worker'[g][u].cb # 0 =>
                      ~SameBucket(msgs'[worker'[g][v].cb].id, msgs'[worker'[g][u].cb].id)
                /\ evt'[g] # 0 =>
                      ~SameBucket(msgs'[worker'[g][v].cb].id, msgs'[evt'[g]].id)
    BY <1>1, <2>5, <2>6, <2>11
  <2>12. ASSUME NEW q \in Messages', msgs'[q].src = g
         PROVE  /\ outcomes'[q] <= 1
                /\ Once(events'[g], EventsFor(q))
                /\ Some(events'[g], EventsFor(q)) => outcomes'[q] = 0 /\ q \notin open'[g]
                /\ q \in open'[g] => outcomes'[q] = 0
    BY <1>1, <2>8, <2>9, <2>12
  <2>13. Callbacks(g)'
    BY <2>7, <2>11, <2>12 DEF Callbacks, SameBucket, Once, Some, EventsFor
  <2> QED
    BY <2>10, <2>13
<1> QED
  BY <1>3, <1>4

(* The lookup of a timeout: what it finds is the callback of that very     *)
(* request, and no one else is removing it.                                *)
LEMMA TimerCallbacks ==
    ASSUME Refs, NEW h \in Hosts, NEW t \in timers[h], TimeoutOccurred(h, t),
           NEW g \in Hosts \ raced', Callbacks(g), Tracked(g)
    PROVE  Callbacks(g)' /\ Tracked(g)'
<1> DEFINE r == Lookup(h, t)
<1>1. /\ msgs' = msgs /\ open' = open /\ events' = events /\ outcomes' = outcomes
      /\ worker' = worker /\ evt[h] = 0
      /\ timers' = [timers EXCEPT ![h] = @ \ {t}]
      /\ evt' = [evt EXCEPT ![h] = r]
      /\ NoteRace(h, r # 0 /\ Contended(h, msgs[r].id))
  BY DEF TimeoutOccurred, hist, EventThread
<1>2. \/ r \in open[h] /\ msgs[r].id = msgs[t].id
      \/ r = 0 /\ \A q \in open[h] : msgs[q].id # msgs[t].id
  BY LookupFinds
<1>3. evt \in [Hosts -> 0 .. Len(msgs)] /\ timers \in [Hosts -> SUBSET Messages]
  BY DEF Refs, Types
<1> HIDE DEF r
<1>4. CASE g # h
  BY <1>1, <1>3, <1>4, CallbacksStay
<1>5. CASE g = h
  <2>1. evt'[g] = r /\ timers'[g] = timers[g] \ {t}
    BY <1>1, <1>3, <1>5
  <2>2. r = 0 \/ ~Contended(h, msgs[r].id)
    BY <1>1, <1>5 DEF NoteRace
  <2>3. Tracked(g)'
    <3> SUFFICES ASSUME NEW q \in open[g] PROVE q \in timers'[g] \/ evt'[g] = q
      BY <1>1 DEF Tracked
    <3>1. q \in timers[g]
      <4>1. q # 0
        BY Contents, MessageNumbers DEF Refs
      <4> QED
        BY <1>1, <1>5, <4>1 DEF Tracked
    <3>2. CASE q = t
      <4>1. r \in open[h] /\ msgs[r].id = msgs[t].id
        BY <1>2, <1>5, <3>2
      <4>2. Own(h, r) /\ Own(h, t)
        BY <1>5, <3>2, <4>1 DEF Refs, OwnInv
      <4> QED
        BY <2>1, <3>2, <4>1, <4>2, OwnNumbers DEF Refs
    <3> QED
      BY <2>1, <3>1, <3>2
  <2>4. ASSUME NEW v \in Workers, worker[g][v].cb # 0, r # 0
        PROVE  ~SameBucket(msgs[worker[g][v].cb].id, msgs[r].id)
    BY <1>5, <2>2, <2>4 DEF Contended, Removing
  <2>5. Messages' = Messages
    BY <1>1 DEF Messages
  <2>6. evt'[g] # 0 => evt'[g] \in open'[g]
    BY <1>1, <1>2, <1>5, <2>1
  <2>7. Callbacks(g)'
    BY <1>1, <2>1, <2>4, <2>5, <2>6 DEF Callbacks, SameBucket, Once, Some, EventsFor
  <2> QED
    BY <2>3, <2>7
<1> QED
  BY <1>4, <1>5

(* The timeout is reported: the callback is called and out of the map.     *)
LEMMA TimeoutCallbacks ==
    ASSUME Refs, NEW h \in Hosts, messageTimeoutOccured(h),
           NEW g \in Hosts, Callbacks(g), Tracked(g)
    PROVE  Callbacks(g)' /\ Tracked(g)'
<1> DEFINE r == evt[h]
<1>1. /\ msgs' = msgs /\ timers' = timers /\ events' = events /\ worker' = worker
      /\ r # 0 /\ Unlink(h, r)
      /\ evt' = [evt EXCEPT ![h] = 0]
      /\ outcomes' = [outcomes EXCEPT ![r] = @ + 1]
  BY DEF messageTimeoutOccured
<1>2. /\ evt \in [Hosts -> 0 .. Len(msgs)] /\ open \in [Hosts -> SUBSET Messages]
      /\ outcomes \in [Messages -> Nat]
  BY MessageNumbers DEF Refs, Types
<1>3. r \in Messages /\ msgs[r].src = h
  BY <1>1 DEF Refs, OwnInv, Own
<1>4. CASE g # h
  <2>1. open'[g] = open[g] /\ evt'[g] = evt[g]
    BY <1>1, <1>2, <1>4 DEF Unlink
  <2>2. \A q \in Messages : msgs[q].src = g => outcomes'[q] = outcomes[q]
    BY <1>1, <1>2, <1>3, <1>4
  <2> QED
    BY <1>1, <2>1, <2>2, CallbacksStay
<1>5. CASE g = h
  <2>1. open'[g] = open[g] \ {r} /\ evt'[g] = 0
    BY <1>1, <1>2, <1>5, Alone, UnlinkAlone DEF Refs
  <2>2. Tracked(g)'
    BY <1>1, <1>5, <2>1 DEF Tracked
  <2>3. ASSUME NEW v \in Workers, worker[g][v].cb # 0
        PROVE  worker[g][v].cb \in open'[g]
    BY <1>1, <1>5, <2>1, <2>3, Apart DEF Callbacks
  <2>4. Messages' = Messages
    BY <1>1 DEF Messages
  <2>5. ASSUME NEW q \in Messages, msgs[q].src = g
        PROVE  /\ outcomes'[q] <= 1
               /\ Once(events[g], EventsFor(q))
               /\ Some(events[g], EventsFor(q)) => outcomes'[q] = 0 /\ q \notin open'[g]
               /\ q \in open'[g] => outcomes'[q] = 0
    <3>1. /\ outcomes[q] <= 1
          /\ Once(events[g], EventsFor(q))
          /\ Some(events[g], EventsFor(q)) => outcomes[q] = 0 /\ q \notin open[g]
          /\ q \in open[g] => outcomes[q] = 0
      BY <2>5 DEF Callbacks
    <3>2. r \in open[g]
      BY <1>1, <1>5 DEF Callbacks
    <3>3. outcomes'[q] = IF q = r THEN outcomes[q] + 1 ELSE outcomes[q]
      BY <1>1, <1>2
    <3>4. CASE q = r
      BY <2>1, <3>1, <3>2, <3>3, <3>4
    <3>5. CASE q # r
      BY <2>1, <3>1, <3>3, <3>5
    <3> QED
      BY <3>4, <3>5
  <2>6. Callbacks(g)'
    BY <1>1, <2>1, <2>3, <2>4, <2>5 DEF Callbacks, SameBucket, Once, Some, EventsFor
  <2> QED
    BY <2>2, <2>6
<1> QED
  BY <1>4, <1>5

(* A ReceiveEvent: the callback it carries has not been called before.     *)
LEMMA ReceiveCallbacks ==
    ASSUME Refs, NEW h \in Hosts, ReceiveEvent(h),
           NEW g \in Hosts, Callbacks(g), Tracked(g)
    PROVE  Callbacks(g)' /\ Tracked(g)'
<1> DEFINE e == Head(events[h])
           r == e.cb
<1>1. /\ msgs' = msgs /\ timers' = timers /\ open' = open /\ worker' = worker
      /\ evt' = evt /\ events[h] # << >>
      /\ events' = [events EXCEPT ![h] = Tail(@)]
      /\ \/ r # 0 /\ outcomes' = [outcomes EXCEPT ![r] = @ + 1]
         \/ r = 0 /\ outcomes' = outcomes
  BY DEF ReceiveEvent
<1>2. /\ events \in [Hosts -> Seq([msg : Messages, cb : 0..Len(msgs), ls : BOOLEAN])]
      /\ outcomes \in [Messages -> Nat] /\ 0 \notin Messages
  BY MessageNumbers DEF Refs, Types
<1>3. events[h] \in Seq(EventSet(Messages)) /\ e \in EventSet(Messages)
  BY <1>1, Contents, TailElements DEF Refs
<1>4. r # 0 => r \in Messages /\ msgs[r].src = h
  <2>1. 1 \in DOMAIN events[h] /\ e = events[h][1]
    BY <1>1, <1>3, TailElements
  <2> QED
    BY <2>1 DEF Refs, OwnInv, Own
<1>5. \A q : e \in EventsFor(q) <=> q = r
  BY <1>3, EventMembers DEF Refs
<1> HIDE DEF e
<1>6. CASE g # h
  <2>1. events'[g] = events[g]
    BY <1>1, <1>2, <1>6
  <2>2. \A q \in Messages : msgs[q].src = g => outcomes'[q] = outcomes[q]
    BY <1>1, <1>2, <1>4, <1>6
  <2> QED
    BY <1>1, <2>1, <2>2, CallbacksStay
<1>7. CASE g = h
  <2>1. events'[g] = Tail(events[g])
    BY <1>1, <1>2, <1>7
  <2>2. Tracked(g)'
    BY <1>1 DEF Tracked
  <2>3. Messages' = Messages
    BY <1>1 DEF Messages
  <2>4. ASSUME NEW q \in Messages, msgs[q].src = g
        PROVE  /\ outcomes'[q] <= 1
               /\ Once(events'[g], EventsFor(q))
               /\ Some(events'[g], EventsFor(q)) => outcomes'[q] = 0 /\ q \notin open[g]
               /\ q \in open[g] => outcomes'[q] = 0
    <3>1. /\ outcomes[q] <= 1
          /\ Once(events[g], EventsFor(q))
          /\ Some(events[g], EventsFor(q)) => outcomes[q] = 0 /\ q \notin open[g]
          /\ q \in open[g] => outcomes[q] = 0
      BY <2>4 DEF Callbacks
    <3>2. /\ Some(events'[g], EventsFor(q)) => Some(events[g], EventsFor(q))
          /\ q = r => Some(events[g], EventsFor(q))
          /\ Once(events'[g], EventsFor(q))
          /\ q = r => ~Some(events'[g], EventsFor(q))
      BY <1>1, <1>3, <1>5, <1>7, <2>1, <3>1, TailSome DEF e
    <3>3. outcomes'[q] = IF q = r THEN outcomes[q] + 1 ELSE outcomes[q]
      BY <1>1, <1>2
    <3>4. CASE q = r
      BY <3>1, <3>2, <3>3, <3>4
    <3>5. CASE q # r
      BY <3>1, <3>2, <3>3, <3>5
    <3> QED
      BY <3>4, <3>5
  <2>5. /\ evt'[g] # 0 => evt'[g] \in open'[g]
        /\ \A v \in Workers : worker'[g][v].cb # 0 =>
              /\ worker'[g][v].cb \in open'[g]
              /\ \A u \in Workers \ {v} : worker'[g][u].cb # 0 =>
                    ~SameBucket(msgs'[worker'[g][v].cb].id, msgs'[worker'[g][u].cb].id)
              /\ evt'[g] # 0 =>
                    ~SameBucket(msgs'[worker'[g][v].cb].id, msgs'[evt'[g]].id)
    BY <1>1 DEF Callbacks
  <2>6. Callbacks(g)'
    BY ZenonT(60), <1>1, <2>3, <2>4, <2>5 DEF Callbacks, SameBucket, Once, Some, EventsFor
  <2> QED
    BY <2>2, <2>6
<1> QED
  BY <1>6, <1>7

(* Every step keeps the callbacks of a host where no race has happened.    *)
LEMMA NextCallbacks ==
    ASSUME Refs, CallbackInv, NoLeak, [Next]_vars
    PROVE  CallbackInv' /\ NoLeak'
<1> SUFFICES ASSUME NEW g \in Hosts \ raced', Callbacks(g), Tracked(g)
             PROVE  Callbacks(g)' /\ Tracked(g)'
  <2>1. raced \subseteq raced'
    BY RacedGrows
  <2>2. \A g \in Hosts \ raced' : Callbacks(g) /\ Tracked(g)
    BY <2>1 DEF CallbackInv, NoLeak, Tracked
  <2>3. \A g \in Hosts \ raced' : Callbacks(g)' /\ Tracked(g)'
    BY <2>2
  <2> QED
    BY <2>3 DEF CallbackInv, NoLeak, Tracked
<1>0. /\ Types /\ \A h \in Hosts : currentID[h] \in Nat
      /\ open \in [Hosts -> SUBSET Messages] /\ timers \in [Hosts -> SUBSET Messages]
  BY DEF Refs, Types
<1>1. ASSUME NEW h \in Hosts, NEW d \in Hosts, send(h, d)
      PROVE  Callbacks(g)' /\ Tracked(g)'
  <2>1. Submit(h, d, currentID[h], 0) /\ open' = open /\ timers' = timers
    BY <1>1 DEF send
  <2> QED
    BY <1>0, <2>1, SubmitCallbacks
<1>2. ASSUME NEW h \in Hosts, NEW n \in inbox[h], sendReply(h, n)
      PROVE  Callbacks(g)' /\ Tracked(g)'
  <2>1. Submit(h, msgs[n].src, msgs[n].id, n) /\ open' = open /\ timers' = timers
    BY <1>2 DEF sendReply
  <2>2. msgs[n].src \in Hosts /\ msgs[n].id \in Nat /\ n \in Messages
    BY <1>0, Contents, MessageNumbers DEF Message
  <2> QED
    BY <1>0, <2>1, <2>2, SubmitCallbacks
<1>3. ASSUME NEW h \in Hosts, setTransportMessageListener(h) \/ \E n \in held[h] : QueueService(h, n)
      PROVE  Callbacks(g)' /\ Tracked(g)'
  <2>1. /\ msgs' = msgs /\ open' = open /\ timers' = timers /\ evt' = evt
        /\ events' = events /\ worker' = worker /\ outcomes' = outcomes
    BY <1>3 DEF setTransportMessageListener, QueueService, hist
  <2> QED
    BY <2>1, CallbacksStay
<1>4. ASSUME NEW h \in Hosts, NEW w \in Workers,
             SerializeAndSend(h, w) \/ MsgSenderRunnable(h, w)
      PROVE  Callbacks(g)' /\ Tracked(g)'
  <2>1. /\ msgs' = msgs /\ open' = open /\ timers' = timers /\ evt' = evt
        /\ events' = events /\ worker' = worker /\ outcomes' = outcomes
    BY <1>4 DEF SerializeAndSend, MsgSenderRunnable, hist
  <2> QED
    BY <2>1, CallbacksStay
<1>5. ASSUME Network \/ UNCHANGED vars PROVE Callbacks(g)' /\ Tracked(g)'
  <2>1. /\ msgs' = msgs /\ open' = open /\ timers' = timers /\ evt' = evt
        /\ events' = events /\ worker' = worker /\ outcomes' = outcomes
    BY <1>5 DEF Network, MsgReceiverThread, Lose, ReceiverDies, hist, vars
  <2> QED
    BY <2>1, CallbacksStay
<1>6. ASSUME NEW h \in Hosts, Application(h) PROVE Callbacks(g)' /\ Tracked(g)'
  BY <1>1, <1>2, <1>3, <1>6, WaitCallbacks DEF Application
<1>7. ASSUME NEW h \in Hosts, Pool(h) PROVE Callbacks(g)' /\ Tracked(g)'
  BY <1>4, <1>7, UnserializeCallbacks, PostCallbacks DEF Pool
<1>8. ASSUME NEW h \in Hosts, Timer(h) PROVE Callbacks(g)' /\ Tracked(g)'
  BY <1>8, TimerCallbacks DEF Timer
<1> QED
  BY <1>5, <1>6, <1>7, <1>8, TimeoutCallbacks, ReceiveCallbacks DEF Next, HostStep

-----------------------------------------------------------------------------
(* What callbacks receive.                                                 *)

(* An answer stays one: records do not change, races are not forgotten.    *)
LEMMA AnswersStay ==
    ASSUME Types, NumberInv, raced \subseteq raced',
           \A m \in Messages : msgs'[m] = msgs[m],
           NEW r \in Messages, NEW n \in Messages, Answers(r, n)
    PROVE  Answers(r, n)'
<1>1. msgs[n].origin \in Messages
  BY DEF NumberInv, Numbered
<1> QED
  BY <1>1 DEF Answers

(* A new message answers nothing that is still in a map.                   *)
LEMMA SubmitAnswers ==
    ASSUME Refs, MatchInv, AnswerInv, raced \subseteq raced',
           NEW h \in Hosts, NEW d \in Hosts, NEW id \in Nat,
           NEW re \in inbox[h] \cup {0}, Submit(h, d, id, re),
           \A g \in Hosts : \A r \in open'[g] :
              r \in open[g] \/ (g = h /\ r = Len(msgs) + 1)
    PROVE  MatchInv' /\ AnswerInv'
<1> DEFINE n == Len(msgs) + 1
           x == Record(h, d, id, re)
<1>0. Types /\ NumberInv /\ RouteInv /\ OwnInv
  BY DEF Refs
<1>1. re \in Messages \cup {0}
  BY <1>0, Contents
<1>2. /\ Messages' = Messages \cup {n} /\ n \notin Messages /\ n # 0
      /\ \A m \in Messages : msgs'[m] = msgs[m]
  BY <1>0, <1>1, SubmitNumbers
<1>x. msgs'[n] = x
  BY <1>0, <1>1, SubmitNumbers
<1>3. x.src = h /\ x.origin = IF re = 0 THEN n ELSE msgs[re].origin
  BY <1>0, <1>1, NewRecord
<1>4. worker' = worker /\ events' = events /\ inbox' = inbox
  BY DEF Submit
<1>5. \A g \in Hosts : \A r \in open'[g] : r \in open[g] \/ (g = h /\ r = n)
  OBVIOUS
<1> HIDE DEF n, x
<1>6. \A m \in Messages : msgs[m].origin \in Messages
  BY <1>0 DEF NumberInv, Numbered
<1>7. MatchInv'
  <2> SUFFICES ASSUME NEW g \in Hosts
               PROVE  /\ \A w \in Workers : worker[g][w].cb # 0 =>
                            Answers(worker[g][w].cb, worker[g][w].msg)'
                      /\ \A i \in DOMAIN events[g] : events[g][i].cb # 0 =>
                            Answers(events[g][i].cb, events[g][i].msg)'
    BY <1>4 DEF MatchInv, Answers
  <2>1. ASSUME NEW w \in Workers, worker[g][w].cb # 0
        PROVE  Answers(worker[g][w].cb, worker[g][w].msg)'
    <3>1. worker[g][w].cb \in Messages /\ worker[g][w].msg \in Messages
      BY <1>0, <2>1, Contents DEF OwnInv
    <3>2. Answers(worker[g][w].cb, worker[g][w].msg)
      BY <2>1 DEF MatchInv
    <3>3. \A r \in Messages, k \in Messages : Answers(r, k) => Answers(r, k)'
      BY <1>0, <1>2, AnswersStay
    <3> QED
      BY <1>4, <3>1, <3>2, <3>3 DEF Answers
  <2>2. ASSUME NEW i \in DOMAIN events[g], events[g][i].cb # 0
        PROVE  Answers(events[g][i].cb, events[g][i].msg)'
    <3>1. events[g][i].cb \in Messages /\ events[g][i].msg \in Messages
      BY <1>0, <2>2, Contents
    <3>2. Answers(events[g][i].cb, events[g][i].msg)
      BY <2>2 DEF MatchInv
    <3>3. \A r \in Messages, k \in Messages : Answers(r, k) => Answers(r, k)'
      BY <1>0, <1>2, AnswersStay
    <3> QED
      BY <1>4, <3>1, <3>2, <3>3 DEF Answers
  <2> QED
    BY <2>1, <2>2
<1>8. ASSUME NEW g \in Hosts \ raced', NEW r \in open'[g]
      PROVE  /\ \A k \in inbox[g] : msgs'[k].origin # r
             /\ \A i \in DOMAIN events[g] :
                   events[g][i].cb = 0 => msgs'[events[g][i].msg].origin # r
             /\ \A w \in Workers : worker[g][w].msg # 0 /\ worker[g][w].cb = 0
                   => msgs'[worker[g][w].msg].origin # r
             /\ \A k \in Messages' : msgs'[k].src = g /\ msgs'[k].origin = r => k = r
  <2>1. /\ inbox[g] \subseteq Messages /\ open[g] \subseteq Messages
        /\ \A i \in DOMAIN events[g] : events[g][i].msg \in Messages
        /\ \A w \in Workers : worker[g][w].msg \in Messages \cup {0}
    BY <1>0, Contents
  <2>2. CASE r \in open[g]
    <3>1. Unanswered(g, r) /\ r \in Messages
      BY <1>8, <2>1, <2>2 DEF AnswerInv
    <3>2. \A k \in Messages : msgs'[k].src = g /\ msgs'[k].origin = r => k = r
      BY <1>2, <3>1 DEF Unanswered
    <3>3. msgs'[n].src = g => msgs'[n].origin # r
      BY <1>2, <1>x, <1>3, <3>1 DEF Unanswered
    <3> QED
      BY <1>2, <2>1, <3>1, <3>2, <3>3 DEF Unanswered
  <2>3. CASE r = n
    BY <1>2, <1>x, <1>6, <2>1, <2>3
  <2> QED
    BY <1>5, <2>2, <2>3
<1>9. AnswerInv'
  BY <1>4, <1>8 DEF AnswerInv, Unanswered
<1> QED
  BY <1>7, <1>9

(* A received message that finds a callback answers its request, and one   *)
(* that finds none answers nothing in the map.                             *)
LEMMA MovesKeepAnswers ==
    ASSUME Refs, MatchInv, AnswerInv, raced \subseteq raced', msgs' = msgs,
           \A g \in Hosts : Moves(g)
    PROVE  MatchInv' /\ AnswerInv'
<1>0. Types /\ NumberInv /\ RouteInv /\ OwnInv /\ Messages' = Messages
  BY DEF Refs, Messages
<1>1. \A r \in Messages, n \in Messages : Answers(r, n) => Answers(r, n)'
  BY <1>0, AnswersStay
<1>2. ASSUME NEW g \in Hosts, NEW r \in open[g], NEW n \in Messages,
             msgs[n].dst = g, msgs[r].id = msgs[n].id
      PROVE  Answers(r, n)'
  <2>1. Own(g, r) /\ r \in Messages
    BY <1>0 DEF OwnInv, Own
  <2>2. ASSUME msgs[msgs[n].origin].src = g PROVE msgs[n].origin = r
    <3>1. Own(g, msgs[n].origin) /\ msgs[msgs[n].origin].id = msgs[r].id
      BY <1>0, <1>2, <2>2 DEF NumberInv, Numbered, Own
    <3> QED
      BY <1>0, <2>1, <3>1, OwnNumbers
  <2>3. ASSUME msgs[n].origin = r, g \notin raced' PROVE msgs[n].re = r
    <3>1. n # r
      BY <1>0, <1>2, <2>1 DEF NumberInv, Numbered, Own
    <3>2. /\ msgs[n].re \in Messages /\ msgs[msgs[n].re].src = g
          /\ msgs[msgs[n].re].origin = r
      BY <1>0, <1>2, <2>3, <3>1 DEF NumberInv, Numbered
    <3>3. Unanswered(g, r)
      BY <2>3 DEF AnswerInv
    <3> QED
      BY <3>2, <3>3 DEF Unanswered
  <2> QED
    BY <2>1, <2>2, <2>3 DEF Answers, Own
<1>3. ASSUME NEW g \in Hosts
      PROVE  /\ \A w \in Workers : worker'[g][w].cb # 0 =>
                   Answers(worker[g][w].cb, worker[g][w].msg)'
             /\ \A i \in DOMAIN events'[g] : events'[g][i].cb # 0 =>
                   Answers(events[g][i].cb, events[g][i].msg)'
  <2>0. Moves(g)
    OBVIOUS
  <2>1. \A w \in Workers : worker[g][w].cb # 0 =>
           /\ worker[g][w].cb \in Messages /\ worker[g][w].msg \in Messages
           /\ Answers(worker[g][w].cb, worker[g][w].msg)
    BY <1>0, Contents DEF OwnInv, MatchInv
  <2>2. \A i \in DOMAIN events[g] : events[g][i].cb # 0 =>
           /\ events[g][i].cb \in Messages /\ events[g][i].msg \in Messages
           /\ Answers(events[g][i].cb, events[g][i].msg)
    BY <1>0, Contents DEF MatchInv
  <2>3. ASSUME NEW w \in Workers, worker'[g][w].cb # 0
        PROVE  Answers(worker[g][w].cb, worker[g][w].msg)'
    <3>1. CASE worker'[g][w] = worker[g][w]
      BY <1>1, <2>1, <2>3, <3>1 DEF Answers
    <3>2. CASE worker'[g][w] = Idle
      BY <2>3, <3>2 DEF Idle
    <3>3. CASE /\ worker'[g][w].msg \in Messages /\ msgs[worker'[g][w].msg].dst = g
               /\ worker'[g][w].cb \in open[g]
               /\ msgs[worker'[g][w].cb].id = msgs[worker'[g][w].msg].id
      <4>1. \A r \in open[g], n \in Messages :
               msgs[n].dst = g /\ msgs[r].id = msgs[n].id => Answers(r, n)'
        BY <1>2
      <4> QED
        BY <3>3, <4>1 DEF Answers
    <3> QED
      BY <2>0, <2>3, <3>1, <3>2, <3>3 DEF Moves
  <2>4. ASSUME NEW i \in DOMAIN events'[g], events'[g][i].cb # 0
        PROVE  Answers(events[g][i].cb, events[g][i].msg)'
    <3>1. \/ \E j \in DOMAIN events[g] : events'[g][i] = events[g][j]
          \/ \E w \in Workers : /\ worker[g][w].msg # 0
                                /\ events'[g][i].msg = worker[g][w].msg
                                /\ events'[g][i].cb = worker[g][w].cb
      BY <2>0 DEF Moves
    <3>2. /\ events'[g][i].cb \in Messages /\ events'[g][i].msg \in Messages
          /\ Answers(events'[g][i].cb, events'[g][i].msg)
      BY <2>1, <2>2, <2>4, <3>1
    <3> QED
      BY <1>1, <3>2 DEF Answers
  <2> QED
    BY <2>3, <2>4
<1>4. MatchInv'
  BY <1>3 DEF MatchInv, Answers
<1>5. ASSUME NEW g \in Hosts \ raced', NEW r \in open'[g]
      PROVE  /\ \A n \in inbox'[g] : msgs[n].origin # r
             /\ \A i \in DOMAIN events'[g] :
                   events'[g][i].cb = 0 => msgs[events'[g][i].msg].origin # r
             /\ \A w \in Workers : worker'[g][w].msg # 0 /\ worker'[g][w].cb = 0
                   => msgs[worker'[g][w].msg].origin # r
             /\ \A n \in Messages : msgs[n].src = g /\ msgs[n].origin = r => n = r
  <2>0. Moves(g)
    OBVIOUS
  <2>1. r \in open[g]
    BY <2>0 DEF Moves
  <2>2. Unanswered(g, r)
    BY <1>5, <2>1 DEF AnswerInv
  <2>3. \A n \in inbox'[g] : msgs[n].origin # r
    BY <2>0, <2>2 DEF Moves, Unanswered
  <2>4. \A i \in DOMAIN events'[g] :
           events'[g][i].cb = 0 => msgs[events'[g][i].msg].origin # r
    BY <2>0, <2>2 DEF Moves, Unanswered
  <2>5. ASSUME NEW w \in Workers, worker'[g][w].msg # 0, worker'[g][w].cb = 0
        PROVE  msgs[worker'[g][w].msg].origin # r
    <3>1. CASE worker'[g][w] = worker[g][w]
      BY <2>2, <2>5, <3>1 DEF Unanswered
    <3>2. CASE worker'[g][w] = Idle
      BY <2>5, <3>2 DEF Idle
    <3>3. CASE /\ worker'[g][w].msg \in Messages
               /\ \A q \in open[g] : msgs[q].id # msgs[worker'[g][w].msg].id
      BY <1>0, <2>1, <3>3 DEF NumberInv, Numbered
    <3>4. CASE worker'[g][w].cb \in open[g]
      BY <1>0, <2>5, <3>4, MessageNumbers DEF OwnInv, Own
    <3> QED
      BY <2>0, <3>1, <3>2, <3>3, <3>4 DEF Moves
  <2> QED
    BY <2>2, <2>3, <2>4, <2>5 DEF Unanswered
<1>6. AnswerInv'
  BY <1>0, <1>5 DEF AnswerInv, Unanswered
<1> QED
  BY <1>4, <1>6

(* Every step keeps what is known about answers.                           *)
LEMMA NextAnswers ==
    ASSUME Refs, MatchInv, AnswerInv, [Next]_vars
    PROVE  MatchInv' /\ AnswerInv'
<1>0. Types /\ RouteInv /\ raced \subseteq raced'
  BY RacedGrows DEF Refs
<1>1. ASSUME NEW h \in Hosts, NEW d \in Hosts \ {h}, send(h, d) \/ sendAndWait(h, d)
      PROVE  MatchInv' /\ AnswerInv'
  <2>1. Submit(h, d, currentID[h], 0) /\ currentID[h] \in Nat
    BY <1>0, <1>1, Contents DEF send, sendAndWait
  <2>2. send(h, d) => open' = open
    BY DEF send
  <2>3. \A g \in Hosts : \A r \in open'[g] :
           r \in open[g] \/ (g = h /\ r = Len(msgs) + 1)
    BY <1>0, <1>1, <2>2, WaitAdds
  <2>4. 0 \in inbox[h] \cup {0}
    OBVIOUS
  <2> QED
    BY <1>0, <2>1, <2>3, <2>4, SubmitAnswers
<1>2. ASSUME NEW h \in Hosts, NEW n \in inbox[h], sendReply(h, n)
      PROVE  MatchInv' /\ AnswerInv'
  <2>1. Submit(h, msgs[n].src, msgs[n].id, n) /\ open' = open
    BY <1>2 DEF sendReply
  <2>2. msgs[n].src \in Hosts /\ msgs[n].id \in Nat
    BY <1>0, Contents, MessageNumbers DEF Message
  <2> QED
    BY <1>0, <2>1, <2>2, SubmitAnswers
<1>3. ASSUME Next,
             \A h \in Hosts : \A d \in Hosts \ {h} : ~send(h, d) /\ ~sendAndWait(h, d),
             \A h \in Hosts : \A n \in inbox[h] : ~sendReply(h, n)
      PROVE  MatchInv' /\ AnswerInv'
  <2>1. msgs' = msgs
    BY <1>0, <1>3, Created
  <2>2. \A g \in Hosts : Moves(g)
    BY <1>0, <1>3, NextMoves
  <2> QED
    BY <1>0, <2>1, <2>2, MovesKeepAnswers
<1>4. ASSUME UNCHANGED vars PROVE MatchInv' /\ AnswerInv'
  <2>1. /\ msgs' = msgs /\ held' = held /\ queue' = queue /\ worker' = worker
        /\ events' = events /\ inbox' = inbox /\ open' = open /\ timers' = timers
        /\ evt' = evt
    BY <1>4 DEF vars, hist
  <2>2. \A g \in Hosts : Moves(g)
    BY <2>1 DEF Moves
  <2> QED
    BY <1>0, <2>1, <2>2, MovesKeepAnswers
<1> QED
  BY <1>1, <1>2, <1>3, <1>4

(* What a ReceiveEvent brings a callback answers its request, because it   *)
(* did when it was matched.                                                *)
LEMMA NextTaken ==
    ASSUME Refs, MatchInv, ReplyOrCollision, [Next]_vars
    PROVE  ReplyOrCollision'
<1>0. /\ Types /\ NumberInv /\ RouteInv /\ OwnInv
      /\ taken \subseteq Messages \X Messages
      /\ \A h \in Hosts : currentID[h] \in Nat
      /\ raced \subseteq raced'
  BY RacedGrows DEF Refs, Types
<1>1. ASSUME taken' = taken, Messages \subseteq Messages',
             \A m \in Messages : msgs'[m] = msgs[m]
      PROVE  ReplyOrCollision'
  <2> SUFFICES ASSUME NEW r \in Messages, NEW n \in Messages, <<r, n>> \in taken
               PROVE  /\ msgs'[n].dst = msgs'[r].src /\ msgs'[n].id = msgs'[r].id
                      /\ Answers(r, n)'
    BY <1>0, <1>1 DEF ReplyOrCollision
  <2>1. msgs[n].dst = msgs[r].src /\ msgs[n].id = msgs[r].id /\ Answers(r, n)
    BY DEF ReplyOrCollision
  <2> QED
    BY <1>0, <1>1, <2>1, AnswersStay
<1>2. ASSUME NEW h \in Hosts, NEW d \in Hosts, NEW id \in Nat, NEW re \in Messages \cup {0},
             Submit(h, d, id, re)
      PROVE  ReplyOrCollision'
  <2>1. taken' = taken
    BY <1>2 DEF Submit
  <2> QED
    BY <1>0, <1>1, <1>2, <2>1, SubmitNumbers
<1>3. ASSUME NEW h \in Hosts, NEW d \in Hosts, send(h, d) \/ sendAndWait(h, d)
      PROVE  ReplyOrCollision'
  <2>1. Submit(h, d, currentID[h], 0)
    BY <1>3 DEF send, sendAndWait
  <2> QED
    BY <1>0, <1>2, <2>1
<1>4. ASSUME NEW h \in Hosts, NEW n \in inbox[h], sendReply(h, n)
      PROVE  ReplyOrCollision'
  <2>1. Submit(h, msgs[n].src, msgs[n].id, n)
    BY <1>4 DEF sendReply
  <2>2. msgs[n].src \in Hosts /\ msgs[n].id \in Nat /\ n \in Messages
    BY <1>0, Contents, MessageNumbers DEF Message
  <2> QED
    BY <1>2, <2>1, <2>2
<1>5. ASSUME msgs' = msgs, taken' = taken PROVE ReplyOrCollision'
  BY <1>1, <1>5 DEF Messages
<1>6. ASSUME NEW h \in Hosts, ReceiveEvent(h) PROVE ReplyOrCollision'
  <2> DEFINE k == Head(events[h]).msg
             c == Head(events[h]).cb
  <2>1. /\ msgs' = msgs /\ events[h] # << >>
        /\ taken' = taken \/ (c # 0 /\ taken' = taken \cup {<<c, k>>})
    BY <1>6 DEF ReceiveEvent
  <2>2. events[h] \in Seq(EventSet(Messages))
    BY <1>0, Contents
  <2>3. 1 \in DOMAIN events[h] /\ Head(events[h]) = events[h][1]
    BY <2>1, <2>2, TailElements
  <2>4. k \in Messages /\ msgs[k].dst = h
    BY <1>0, <2>3, Contents DEF RouteInv
  <2>5. c # 0 => Own(h, c) /\ msgs[c].id = msgs[k].id /\ Answers(c, k)
    BY <1>0, <2>3 DEF OwnInv, MatchInv
  <2> HIDE DEF k, c
  <2>6. ASSUME NEW r \in Messages, NEW n \in Messages, c # 0, r = c, n = k
        PROVE  /\ msgs[n].dst = msgs[r].src /\ msgs[n].id = msgs[r].id
               /\ Answers(r, n)'
    <3>1. Own(h, r) /\ msgs[r].id = msgs[n].id /\ msgs[r].src = h /\ Answers(r, n)
      BY <2>5, <2>6 DEF Own
    <3>2. Answers(r, n)'
      BY <1>0, <2>1, <3>1, AnswersStay
    <3> QED
      BY <2>4, <2>6, <3>1, <3>2
  <2>7. \A r, n \in Messages : <<r, n>> \in taken' =>
           <<r, n>> \in taken \/ (c # 0 /\ r = c /\ n = k)
    BY <2>1
  <2>8. Messages' = Messages
    BY <2>1 DEF Messages
  <2>9. \A r, n \in Messages : <<r, n>> \in taken =>
           msgs[n].dst = msgs[r].src /\ msgs[n].id = msgs[r].id /\ Answers(r, n)'
    BY <1>0, <2>1, AnswersStay DEF ReplyOrCollision
  <2> SUFFICES ASSUME NEW r \in Messages, NEW n \in Messages, <<r, n>> \in taken'
               PROVE  msgs[n].dst = msgs[r].src /\ msgs[n].id = msgs[r].id /\ Answers(r, n)'
    BY <2>1, <2>8 DEF ReplyOrCollision
  <2>10. CASE <<r, n>> \in taken
    BY <2>9, <2>10
  <2>11. CASE c # 0 /\ r = c /\ n = k
    BY <2>6, <2>11
  <2> QED
    BY <2>7, <2>10, <2>11
<1>7. ASSUME NEW h \in Hosts, Application(h) PROVE ReplyOrCollision'
  <2>1. ASSUME setTransportMessageListener(h) \/ \E n \in held[h] : QueueService(h, n)
        PROVE  ReplyOrCollision'
    BY <1>5, <2>1 DEF setTransportMessageListener, QueueService, hist
  <2> QED
    BY <1>3, <1>4, <1>7, <2>1 DEF Application
<1>8. ASSUME NEW h \in Hosts, Pool(h) \/ Timer(h) \/ messageTimeoutOccured(h)
      PROVE  ReplyOrCollision'
  <2>1. Pool(h) => msgs' = msgs /\ taken' = taken
    BY DEF Pool, SerializeAndSend, MsgSenderRunnable, Unserialize, PostReceiveEvent, hist
  <2>2. Timer(h) \/ messageTimeoutOccured(h) => msgs' = msgs /\ taken' = taken
    BY DEF Timer, TimeoutOccurred, messageTimeoutOccured, hist
  <2> QED
    BY <1>5, <1>8, <2>1, <2>2
<1>9. ASSUME Network \/ UNCHANGED vars PROVE ReplyOrCollision'
  BY <1>5, <1>9 DEF Network, MsgReceiverThread, Lose, ReceiverDies, hist, vars
<1> QED
  BY <1>6, <1>7, <1>8, <1>9 DEF Next, HostStep

(* Requests in the map are the host's own, and no two have one identifier. *)
LEMMA OpenRequests == Refs => TypeOK
<1> SUFFICES ASSUME Refs, NEW h \in Hosts, NEW r \in open[h]
             PROVE  /\ msgs[r].src = h
                    /\ \A q \in open[h] : msgs[q].id = msgs[r].id => q = r
  BY DEF TypeOK, Refs
<1>1. \A q \in open[h] : Own(h, q)
  BY DEF Refs, OwnInv
<1> QED
  BY <1>1, OwnNumbers DEF Refs, Own

-----------------------------------------------------------------------------
(* Places.                                                                 *)

(* Message n has stayed where it was, has gone one place further, or is    *)
(* nowhere any more.                                                       *)
Transit(n) ==
    /\ Kept(n)' => Kept(n)
    /\ Sending(n)' => Sending(n) \/ (Kept(n) /\ ~Kept(n)')
    /\ n \in net' => n \in net \/ (Sending(n) /\ ~Sending(n)')
    /\ Received(n)' => Received(n) \/ (n \in net /\ n \notin net')
    /\ Matched(n)' => Matched(n) \/ (Received(n) /\ ~Received(n)')
    /\ Posted(n)' => Posted(n) \/ (Matched(n) /\ ~Matched(n)')
    /\ Given(n)' => Given(n) \/ (Posted(n) /\ ~Posted(n)')
    /\ n \in refused' => n \in refused \/ ~Somewhere(n)'
    /\ Single(n)'

(* A message in one place is in one place after it moved on.               *)
LEMMA TransitKeeps == ASSUME NEW n, Placed(n), Transit(n) PROVE Placed(n)'
BY DEF Placed, Transit, Somewhere

(* The jobs of a message.                                                  *)
LEMMA JobMembers ==
    ASSUME NEW j \in JobSet(Messages), NEW n
    PROVE  /\ j \in SendJobs(n) <=> j.kind # "unserialize" /\ j.msg = n
           /\ j \in ReceiveJobs(n) <=> j.kind = "unserialize" /\ j.msg = n
BY DEF JobSet, SendJobs, ReceiveJobs

(* One of a family of queues without its first element.                    *)
LEMMA TailOf ==
    ASSUME NEW S, NEW q \in [Hosts -> Seq(S)], NEW h \in Hosts, q[h] # << >>,
           NEW p, p = [q EXCEPT ![h] = Tail(@)]
    PROVE  \A g \in Hosts : \A M :
              /\ Some(p[g], M) => Some(q[g], M)
              /\ Once(q[g], M) => Once(p[g], M)
              /\ g = h /\ Head(q[h]) \in M => Some(q[g], M)
              /\ g = h /\ Head(q[h]) \in M /\ Once(q[g], M) => ~Some(p[g], M)
<1> SUFFICES ASSUME NEW g \in Hosts, NEW M
             PROVE  /\ Some(p[g], M) => Some(q[g], M)
                    /\ Once(q[g], M) => Once(p[g], M)
                    /\ g = h /\ Head(q[h]) \in M => Some(q[g], M)
                    /\ g = h /\ Head(q[h]) \in M /\ Once(q[g], M) => ~Some(p[g], M)
  OBVIOUS
<1>1. p[g] = q[g] \/ (g = h /\ p[g] = Tail(q[g]))
  OBVIOUS
<1>2. g = h => p[g] = Tail(q[g])
  OBVIOUS
<1> QED
  BY <1>1, <1>2, TailSome

(* Types of the parts a message passes through.                            *)
LEMMA PlaceTypes ==
    ASSUME Refs, NEW n \in Messages
    PROVE  /\ queue \in [Hosts -> Seq(JobSet(Messages))]
           /\ events \in [Hosts -> Seq(EventSet(Messages))]
           /\ held \in [Hosts -> SUBSET Messages]
           /\ inbox \in [Hosts -> SUBSET Messages]
           /\ DOMAIN worker = Hosts
           /\ \A h \in Hosts : DOMAIN worker[h] = Workers
           /\ msgs[n].src \in Hosts /\ msgs[n].dst \in Hosts
           /\ n # 0 /\ 0 \notin Messages
<1>1. Types
  BY DEF Refs
<1>2. events \in [Hosts -> Seq(EventSet(Messages))]
  <2>1. \A h \in Hosts : events[h] \in Seq(EventSet(Messages))
    BY <1>1, Contents
  <2>2. events = [h \in Hosts |-> events[h]]
    BY <1>1 DEF Types
  <2> QED
    BY <2>1, <2>2
<1>3. msgs[n].src \in Hosts /\ msgs[n].dst \in Hosts /\ n # 0 /\ 0 \notin Messages
  BY <1>1, MessageNumbers DEF Message
<1>4. queue \in [Hosts -> Seq(JobSet(Messages))]
  BY <1>1, TypesByVariable
<1>5. /\ DOMAIN worker = Hosts /\ \A h \in Hosts : DOMAIN worker[h] = Workers
      /\ held \in [Hosts -> SUBSET Messages] /\ inbox \in [Hosts -> SUBSET Messages]
  BY <1>1 DEF Types
<1> QED
  BY <1>2, <1>3, <1>4, <1>5

(* The predicates of the next state, when no message is new.               *)
LEMMA SamePlaces ==
    ASSUME NEW n, msgs' = msgs
    PROVE  /\ held' = held => (Kept(n)' <=> Kept(n))
           /\ queue' = queue => (Sending(n)' <=> Sending(n))
           /\ queue' = queue => (Received(n)' <=> Received(n))
           /\ worker' = worker => (Matched(n)' <=> Matched(n))
           /\ events' = events => (Posted(n)' <=> Posted(n))
           /\ inbox' = inbox /\ taken' = taken => (Given(n)' <=> Given(n))
BY DEF Kept, Sending, Received, Matched, Posted, Given, Messages, Some, SendJobs,
       ReceiveJobs, EventsOf

(* The parts of Single(n), in the next state.                              *)
SingleJobs(n) ==
    /\ Once(queue[msgs[n].src], SendJobs(n))
    /\ Once(queue[msgs[n].dst], ReceiveJobs(n))

SinglePost(n) == Once(events[msgs[n].dst], EventsOf(n))

SingleMatch(n) ==
    \A w, v \in Workers :
       worker[msgs[n].dst][w].msg = n /\ worker[msgs[n].dst][v].msg = n => w = v

SingleGift(n) ==
    /\ n \in inbox[msgs[n].dst] => \A r \in Messages : <<r, n>> \notin taken
    /\ \A r, q \in Messages : <<r, n>> \in taken /\ <<q, n>> \in taken => r = q

(* Being in one place, taken apart by the variables it depends on.         *)
LEMMA SingleParts ==
    ASSUME NEW n
    PROVE  Single(n) <=> SingleJobs(n) /\ SinglePost(n) /\ SingleMatch(n) /\ SingleGift(n)
BY DEF Single, SingleJobs, SinglePost, SingleMatch, SingleGift

(* A part whose variables do not change stays.                             *)
LEMMA SameSingles ==
    ASSUME NEW n, msgs' = msgs, Placed(n)
    PROVE  /\ queue' = queue => SingleJobs(n)'
           /\ events' = events => SinglePost(n)'
           /\ worker' = worker => SingleMatch(n)'
           /\ inbox' = inbox /\ taken' = taken => SingleGift(n)'
           /\ SingleJobs(n)' /\ SinglePost(n)' /\ SingleMatch(n)' /\ SingleGift(n)'
              => Single(n)'
<1>1. Single(n)
  BY DEF Placed
<1>2. SingleJobs(n) /\ SinglePost(n) /\ SingleMatch(n) /\ SingleGift(n)
  BY <1>1, SingleParts
<1>3. Messages' = Messages
  BY DEF Messages
<1>4. queue' = queue => SingleJobs(n)'
  BY <1>2 DEF SingleJobs, Once, SendJobs, ReceiveJobs
<1>5. events' = events => SinglePost(n)'
  BY <1>2 DEF SinglePost, Once, EventsOf
<1>6. worker' = worker => SingleMatch(n)'
  BY <1>2 DEF SingleMatch
<1>7. inbox' = inbox /\ taken' = taken => SingleGift(n)'
  BY <1>2, <1>3 DEF SingleGift
<1>8. SingleJobs(n)' /\ SinglePost(n)' /\ SingleMatch(n)' /\ SingleGift(n)' => Single(n)'
  BY DEF Single, SingleJobs, SinglePost, SingleMatch, SingleGift
<1> QED
  BY <1>4, <1>5, <1>6, <1>7, <1>8

(* Nothing moves.                                                          *)
LEMMA StillPlaces ==
    ASSUME NEW n, Placed(n), msgs' = msgs, held' = held, queue' = queue,
           net' \subseteq net, worker' = worker, events' = events, inbox' = inbox,
           taken' = taken, refused' = refused
    PROVE  Placed(n)'
<1>1. Transit(n)
  BY SamePlaces, SameSingles DEF Transit
<1> QED
  BY <1>1, TransitKeeps

(* A job is put into a queue.                                              *)
LEMMA QueuedPlaces ==
    ASSUME Refs, NEW n \in Messages, Placed(n), NEW h \in Hosts,
           NEW j \in JobSet(Messages), msgs' = msgs,
           queue' = [queue EXCEPT ![h] = Append(@, j)]
    PROVE  /\ Sending(n)' => Sending(n) \/ (j.kind # "unserialize" /\ j.msg = n)
           /\ Received(n)' => Received(n) \/ (j.kind = "unserialize" /\ j.msg = n)
           /\ /\ j.kind # "unserialize" /\ j.msg = n => ~Sending(n)
              /\ j.kind = "unserialize" /\ j.msg = n => ~Received(n)
              => SingleJobs(n)'
<1>1. /\ queue \in [Hosts -> Seq(JobSet(Messages))]
      /\ msgs[n].src \in Hosts /\ msgs[n].dst \in Hosts
  BY PlaceTypes
<1>2. /\ queue'[h] = Append(queue[h], j) /\ queue[h] \in Seq(JobSet(Messages))
      /\ \A g \in Hosts \ {h} : queue'[g] = queue[g]
  BY <1>1
<1>3. /\ \A g \in Hosts : \A M :
            Some(queue'[g], M) <=> Some(queue[g], M) \/ (g = h /\ j \in M)
      /\ \A g \in Hosts : \A M :
            Once(queue[g], M) /\ (g = h /\ j \in M => ~Some(queue[g], M))
            => Once(queue'[g], M)
  <2>1. \A M : /\ Some(Append(queue[h], j), M) <=> Some(queue[h], M) \/ j \in M
               /\ Once(queue[h], M) /\ (j \in M => ~Some(queue[h], M))
                  => Once(Append(queue[h], j), M)
    BY <1>2, AppendSome
  <2>2. ASSUME NEW g \in Hosts, NEW M
        PROVE  /\ Some(queue'[g], M) <=> Some(queue[g], M) \/ (g = h /\ j \in M)
               /\ Once(queue[g], M) /\ (g = h /\ j \in M => ~Some(queue[g], M))
                  => Once(queue'[g], M)
    <3>1. CASE g = h
      BY <1>2, <2>1, <3>1
    <3>2. CASE g # h
      BY <1>2, <3>2
    <3> QED
      BY <3>1, <3>2
  <2> QED
    BY <2>2
<1>4. /\ j \in SendJobs(n) <=> j.kind # "unserialize" /\ j.msg = n
      /\ j \in ReceiveJobs(n) <=> j.kind = "unserialize" /\ j.msg = n
  BY JobMembers
<1>5. /\ Sending(n)' <=> Some(queue'[msgs[n].src], SendJobs(n))
      /\ Received(n)' <=> Some(queue'[msgs[n].dst], ReceiveJobs(n))
      /\ SingleJobs(n)' <=> /\ Once(queue'[msgs[n].src], SendJobs(n))
                            /\ Once(queue'[msgs[n].dst], ReceiveJobs(n))
  BY DEF Sending, Received, SingleJobs, Some, Once, SendJobs, ReceiveJobs
<1>6. SingleJobs(n)
  BY SingleParts DEF Placed
<1>7. Sending(n)' => Sending(n) \/ (j.kind # "unserialize" /\ j.msg = n)
  BY <1>1, <1>3, <1>4, <1>5 DEF Sending
<1>8. Received(n)' => Received(n) \/ (j.kind = "unserialize" /\ j.msg = n)
  BY <1>1, <1>3, <1>4, <1>5 DEF Received
<1>9. ASSUME j.kind # "unserialize" /\ j.msg = n => ~Sending(n),
             j.kind = "unserialize" /\ j.msg = n => ~Received(n)
      PROVE  SingleJobs(n)'
  BY <1>1, <1>3, <1>4, <1>5, <1>6, <1>9 DEF Sending, Received, SingleJobs
<1> QED
  BY <1>7, <1>8, <1>9

(* The queue service lets a message go, or drops it.                       *)
LEMMA ServicePlaces ==
    ASSUME Refs, NEW n \in Messages, Placed(n),
           NEW h \in Hosts, NEW m \in held[h], QueueService(h, m)
    PROVE  Placed(n)'
<1> DEFINE j == Job("serialize", m)
<1>1. /\ msgs' = msgs /\ net' = net /\ worker' = worker /\ events' = events
      /\ inbox' = inbox /\ taken' = taken /\ refused' = refused
      /\ held' = [held EXCEPT ![h] = @ \ {m}]
      /\ queue' = queue \/ queue' = [queue EXCEPT ![h] = Append(@, j)]
  BY DEF QueueService, hist, Execute
<1>2. /\ queue \in [Hosts -> Seq(JobSet(Messages))] /\ held \in [Hosts -> SUBSET Messages]
      /\ msgs[n].src \in Hosts /\ msgs[n].dst \in Hosts
  BY PlaceTypes
<1>3. m \in Messages /\ msgs[m].src = h
  BY <1>2 DEF Refs, RouteInv
<1>4. j \in JobSet(Messages) /\ j.kind = "serialize" /\ j.msg = m
  BY <1>3 DEF Job, JobSet
<1> HIDE DEF j
<1>6. /\ Kept(n)' => Kept(n)
      /\ m = n => Kept(n) /\ ~Kept(n)'
  BY <1>1, <1>2, <1>3 DEF Kept
<1>7. CASE queue' = queue
  <2>1. Transit(n)
    BY <1>1, <1>6, <1>7, SamePlaces, SameSingles DEF Transit
  <2> QED
    BY <2>1, TransitKeeps
<1>8. CASE queue' = [queue EXCEPT ![h] = Append(@, j)]
  <2>1. /\ Sending(n)' => Sending(n) \/ m = n
        /\ Received(n)' => Received(n)
        /\ (m = n => ~Sending(n)) => SingleJobs(n)'
    BY <1>1, <1>4, <1>8, QueuedPlaces
  <2>2. m = n => ~Sending(n)
    BY <1>6 DEF Placed
  <2>5. Transit(n)
    BY <1>1, <1>6, <2>1, <2>2, SamePlaces, SameSingles DEF Transit
  <2> QED
    BY <2>5, TransitKeeps
<1> QED
  BY <1>1, <1>7, <1>8

(* The head of a queue, as a place of its message.                         *)
LEMMA HeadPlaces ==
    ASSUME Refs, NEW n \in Messages, Placed(n), NEW h \in Hosts, NEW kind,
           NextJob(h, kind)
    PROVE  /\ queue[h] # << >> /\ Head(queue[h]) \in JobSet(Messages)
           /\ Head(queue[h]).kind = kind
           /\ kind # "unserialize" /\ Head(queue[h]).msg = n
              => h = msgs[n].src /\ Sending(n) /\ Head(queue[h]) \in SendJobs(n)
           /\ kind = "unserialize" /\ Head(queue[h]).msg = n
              => h = msgs[n].dst /\ Received(n) /\ Head(queue[h]) \in ReceiveJobs(n)
           /\ Once(queue[msgs[n].src], SendJobs(n))
           /\ Once(queue[msgs[n].dst], ReceiveJobs(n))
<1>1. /\ queue[h] \in Seq(JobSet(Messages)) /\ queue[h] # << >>
      /\ Head(queue[h]) \in JobSet(Messages) /\ Head(queue[h]).kind = kind
  BY QueueHead DEF Refs
<1>2. 1 \in DOMAIN queue[h] /\ Head(queue[h]) = queue[h][1]
  BY <1>1, TailElements
<1>3. IF kind = "unserialize" THEN msgs[Head(queue[h]).msg].dst = h
                              ELSE msgs[Head(queue[h]).msg].src = h
  BY <1>1, <1>2 DEF Refs, RouteInv
<1>4. Head(queue[h]) \in SendJobs(n) => Some(queue[h], SendJobs(n))
  BY <1>2 DEF Some
<1>5. Head(queue[h]) \in ReceiveJobs(n) => Some(queue[h], ReceiveJobs(n))
  BY <1>2 DEF Some
<1>6. /\ Once(queue[msgs[n].src], SendJobs(n))
      /\ Once(queue[msgs[n].dst], ReceiveJobs(n))
  BY DEF Placed, Single
<1>7. CASE kind # "unserialize"
  BY <1>1, <1>3, <1>4, <1>6, <1>7, JobMembers DEF Sending
<1>8. CASE kind = "unserialize"
  BY <1>1, <1>3, <1>5, <1>6, <1>8, JobMembers DEF Received
<1> QED
  BY <1>7, <1>8

(* A job is taken out of a queue.                                          *)
LEMMA DequeuedPlaces ==
    ASSUME Refs, NEW n \in Messages, Placed(n), NEW h \in Hosts, NEW kind,
           NextJob(h, kind), msgs' = msgs, queue' = Dequeued(h)
    PROVE  /\ Sending(n)' => Sending(n)
           /\ Received(n)' => Received(n)
           /\ kind # "unserialize" /\ Head(queue[h]).msg = n => ~Sending(n)'
           /\ kind = "unserialize" /\ Head(queue[h]).msg = n => ~Received(n)'
           /\ SingleJobs(n)'
<1>1. /\ queue \in [Hosts -> Seq(JobSet(Messages))]
      /\ msgs[n].src \in Hosts /\ msgs[n].dst \in Hosts
  BY PlaceTypes
<1>2. queue' = [queue EXCEPT ![h] = Tail(@)] /\ queue[h] # << >>
  BY HeadPlaces DEF Dequeued
<1>3. \A g \in Hosts : \A M :
         /\ Some(queue'[g], M) => Some(queue[g], M)
         /\ Once(queue[g], M) => Once(queue'[g], M)
         /\ g = h /\ Head(queue[h]) \in M => Some(queue[g], M)
         /\ g = h /\ Head(queue[h]) \in M /\ Once(queue[g], M) => ~Some(queue'[g], M)
  BY <1>1, <1>2, TailOf
<1>5. /\ Sending(n)' <=> Some(queue'[msgs[n].src], SendJobs(n))
      /\ Received(n)' <=> Some(queue'[msgs[n].dst], ReceiveJobs(n))
      /\ SingleJobs(n)' <=> /\ Once(queue'[msgs[n].src], SendJobs(n))
                            /\ Once(queue'[msgs[n].dst], ReceiveJobs(n))
  BY DEF Sending, Received, SingleJobs, Some, Once, SendJobs, ReceiveJobs
<1>6. /\ Sending(n)' => Sending(n)
      /\ Received(n)' => Received(n)
  BY <1>1, <1>3, <1>5 DEF Sending, Received
<1>7. SingleJobs(n)'
  BY <1>1, <1>3, <1>5, HeadPlaces
<1>8. kind # "unserialize" /\ Head(queue[h]).msg = n => ~Sending(n)'
  BY <1>1, <1>3, <1>5, HeadPlaces
<1>9. kind = "unserialize" /\ Head(queue[h]).msg = n => ~Received(n)'
  BY <1>1, <1>3, <1>5, HeadPlaces
<1> QED
  BY <1>6, <1>7, <1>8, <1>9

(* SerializeAndSend replaces one job of a message by another.              *)
LEMMA SerializePlaces ==
    ASSUME Refs, NEW n \in Messages, Placed(n),
           NEW h \in Hosts, NEW w \in Workers, SerializeAndSend(h, w)
    PROVE  Placed(n)'
<1> DEFINE m == Head(queue[h]).msg
           j == Job("send", m)
<1>1. /\ msgs' = msgs /\ net' = net /\ worker' = worker /\ events' = events
      /\ inbox' = inbox /\ taken' = taken /\ refused' = refused /\ held' = held
      /\ NextJob(h, "serialize")
      /\ \/ queue' = [queue EXCEPT ![h] = Append(Tail(@), j)]
         \/ queue' = Dequeued(h)
  BY DEF SerializeAndSend, hist
<1>2. CASE queue' = Dequeued(h)
  <2>1. Transit(n)
    BY <1>1, <1>2, DequeuedPlaces, SamePlaces, SameSingles DEF Transit
  <2> QED
    BY <2>1, TransitKeeps
<1>3. CASE queue' = [queue EXCEPT ![h] = Append(Tail(@), j)]
  <2>1. /\ queue \in [Hosts -> Seq(JobSet(Messages))]
        /\ msgs[n].src \in Hosts /\ msgs[n].dst \in Hosts
    BY PlaceTypes
  <2>2. /\ queue[h] \in Seq(JobSet(Messages)) /\ queue[h] # << >>
        /\ Tail(queue[h]) \in Seq(JobSet(Messages)) /\ m \in Messages
    BY <1>1, QueueHead DEF Refs
  <2>3. j \in JobSet(Messages) /\ j.kind = "send" /\ j.msg = m
    BY <2>2 DEF Job, JobSet
  <2> HIDE DEF j
  <2>4. (j \in SendJobs(n) <=> m = n) /\ j \notin ReceiveJobs(n)
    BY <2>3, JobMembers
  <2>5. /\ m = n => h = msgs[n].src /\ Sending(n) /\ Head(queue[h]) \in SendJobs(n)
        /\ Once(queue[msgs[n].src], SendJobs(n))
        /\ Once(queue[msgs[n].dst], ReceiveJobs(n))
    BY <1>1, HeadPlaces
  <2>6. /\ queue'[h] = Append(Tail(queue[h]), j)
        /\ \A g \in Hosts \ {h} : queue'[g] = queue[g]
    BY <1>3, <2>1
  <2>7. /\ Some(queue'[msgs[n].src], SendJobs(n)) => Sending(n)
        /\ Once(queue'[msgs[n].src], SendJobs(n))
    <3>1. CASE msgs[n].src = h
      <4>1. /\ Some(Tail(queue[h]), SendJobs(n)) => Some(queue[h], SendJobs(n))
            /\ Once(Tail(queue[h]), SendJobs(n))
            /\ m = n => ~Some(Tail(queue[h]), SendJobs(n))
        BY <2>2, <2>5, <3>1, TailSome
      <4>2. /\ Some(Append(Tail(queue[h]), j), SendJobs(n))
               <=> Some(Tail(queue[h]), SendJobs(n)) \/ j \in SendJobs(n)
            /\ Once(Tail(queue[h]), SendJobs(n))
               /\ (j \in SendJobs(n) => ~Some(Tail(queue[h]), SendJobs(n)))
               => Once(Append(Tail(queue[h]), j), SendJobs(n))
        BY <2>2, <2>3, AppendSome
      <4> QED
        BY <2>4, <2>5, <2>6, <3>1, <4>1, <4>2 DEF Sending
    <3>2. CASE msgs[n].src # h
      BY <2>1, <2>5, <2>6, <3>2 DEF Sending
    <3> QED
      BY <3>1, <3>2
  <2>8. /\ Some(queue'[msgs[n].dst], ReceiveJobs(n)) => Received(n)
        /\ Once(queue'[msgs[n].dst], ReceiveJobs(n))
    <3>1. CASE msgs[n].dst = h
      <4>1. /\ Some(Tail(queue[h]), ReceiveJobs(n)) => Some(queue[h], ReceiveJobs(n))
            /\ Once(Tail(queue[h]), ReceiveJobs(n))
        BY <2>2, <2>5, <3>1, TailSome
      <4>2. /\ Some(Append(Tail(queue[h]), j), ReceiveJobs(n))
               <=> Some(Tail(queue[h]), ReceiveJobs(n)) \/ j \in ReceiveJobs(n)
            /\ Once(Tail(queue[h]), ReceiveJobs(n))
               /\ (j \in ReceiveJobs(n) => ~Some(Tail(queue[h]), ReceiveJobs(n)))
               => Once(Append(Tail(queue[h]), j), ReceiveJobs(n))
        BY <2>2, <2>3, AppendSome
      <4> QED
        BY <2>4, <2>6, <3>1, <4>1, <4>2 DEF Received
    <3>2. CASE msgs[n].dst # h
      BY <2>1, <2>5, <2>6, <3>2 DEF Received
    <3> QED
      BY <3>1, <3>2
  <2>9. /\ Sending(n)' => Sending(n)
        /\ Received(n)' => Received(n)
        /\ SingleJobs(n)'
    BY <1>1, <2>7, <2>8
       DEF Sending, Received, SingleJobs, Some, Once, SendJobs, ReceiveJobs
  <2>10. Transit(n)
    BY <1>1, <2>9, SamePlaces, SameSingles DEF Transit
  <2> QED
    BY <2>10, TransitKeeps
<1> QED
  BY <1>1, <1>2, <1>3

(* MsgSenderRunnable puts the message into the network, or loses it.       *)
LEMMA SenderPlaces ==
    ASSUME Refs, NEW n \in Messages, Placed(n),
           NEW h \in Hosts, NEW w \in Workers, MsgSenderRunnable(h, w)
    PROVE  Placed(n)'
<1> DEFINE m == Head(queue[h]).msg
<1>1. /\ msgs' = msgs /\ worker' = worker /\ events' = events
      /\ inbox' = inbox /\ taken' = taken /\ refused' = refused /\ held' = held
      /\ NextJob(h, "send") /\ queue' = Dequeued(h)
      /\ net' = net \cup {m} \/ net' = net
  BY DEF MsgSenderRunnable, hist
<1>2. n \in net' => n \in net \/ (Sending(n) /\ ~Sending(n)')
  BY <1>1, HeadPlaces, DequeuedPlaces
<1>3. Transit(n)
  BY <1>1, <1>2, DequeuedPlaces, SamePlaces, SameSingles DEF Transit
<1> QED
  BY <1>3, TransitKeeps

(* UnserializeAndReceive takes a message from the queue into a thread's    *)
(* hands, or drops it.                                                     *)
LEMMA UnserializePlaces ==
    ASSUME Refs, NEW n \in Messages, Placed(n),
           NEW h \in Hosts, NEW w \in Workers, Unserialize(h, w)
    PROVE  Placed(n)'
<1> DEFINE m == Head(queue[h]).msg
           x == [msg |-> m, cb |-> Lookup(h, m)]
<1>1. /\ msgs' = msgs /\ net' = net /\ events' = events
      /\ inbox' = inbox /\ taken' = taken /\ held' = held
      /\ NextJob(h, "unserialize") /\ queue' = Dequeued(h)
      /\ \/ worker' = worker /\ refused' \in {refused, refused \cup {m}}
         \/ worker' = [worker EXCEPT ![h][w] = x] /\ refused' = refused
  BY DEF Unserialize
<1>2. /\ Sending(n)' => Sending(n)
      /\ Received(n)' => Received(n)
      /\ m = n => Received(n) /\ ~Received(n)' /\ h = msgs[n].dst
      /\ SingleJobs(n)'
  BY <1>1, HeadPlaces, DequeuedPlaces
<1>3. x.msg = m
  OBVIOUS
<1> HIDE DEF m, x
<1>4. CASE worker' = worker /\ refused' \in {refused, refused \cup {m}}
  <2>1. m = n => ~Somewhere(n)'
    BY <1>1, <1>2, <1>4, SamePlaces DEF Placed, Somewhere
  <2>2. n \in refused' => n \in refused \/ ~Somewhere(n)'
    BY <1>4, <2>1
  <2>3. Transit(n)
    BY <1>1, <1>2, <1>4, <2>2, SamePlaces, SameSingles DEF Transit
  <2> QED
    BY <2>3, TransitKeeps
<1>5. CASE worker' = [worker EXCEPT ![h][w] = x] /\ refused' = refused
  <2>1. /\ DOMAIN worker = Hosts /\ \A g \in Hosts : DOMAIN worker[g] = Workers
        /\ msgs[n].dst \in Hosts
    BY PlaceTypes
  <2>2. \A v \in Workers :
           \/ worker'[msgs[n].dst][v] = worker[msgs[n].dst][v]
           \/ msgs[n].dst = h /\ v = w /\ worker'[msgs[n].dst][v] = x
    BY <1>5, <2>1
  <2>3. m = n => \A v \in Workers : worker[msgs[n].dst][v].msg # n
    BY <1>2 DEF Placed, Matched
  <2>4. \A v, u \in Workers :
           worker[msgs[n].dst][v].msg = n /\ worker[msgs[n].dst][u].msg = n => v = u
    BY DEF Placed, Single
  <2>5. (\E v \in Workers : worker'[msgs[n].dst][v].msg = n) => Matched(n) \/ m = n
    BY <1>3, <2>2 DEF Matched
  <2>6. \A v, u \in Workers :
           worker'[msgs[n].dst][v].msg = n /\ worker'[msgs[n].dst][u].msg = n => v = u
    BY <1>3, <2>2, <2>3, <2>4
  <2>7. (Matched(n)' => Matched(n) \/ m = n) /\ SingleMatch(n)'
    BY <1>1, <2>5, <2>6 DEF Matched, SingleMatch
  <2>8. Transit(n)
    BY <1>1, <1>2, <1>5, <2>7, SamePlaces, SameSingles DEF Transit
  <2> QED
    BY <2>8, TransitKeeps
<1> QED
  BY <1>1, <1>4, <1>5

(* The message goes from the thread into a ReceiveEvent, or is gone.       *)
LEMMA PostPlaces ==
    ASSUME Refs, NEW n \in Messages, Placed(n),
           NEW h \in Hosts, NEW w \in Workers, PostReceiveEvent(h, w)
    PROVE  Placed(n)'
<1> DEFINE m == worker[h][w].msg
           e == [msg |-> m, cb |-> worker[h][w].cb, ls |-> listening[h]]
<1>1. /\ msgs' = msgs /\ net' = net /\ queue' = queue /\ refused' = refused
      /\ inbox' = inbox /\ taken' = taken /\ held' = held /\ m # 0
      /\ worker' = [worker EXCEPT ![h][w] = Idle]
      /\ events' = events \/ events' = [events EXCEPT ![h] = Append(@, e)]
  BY DEF PostReceiveEvent
<1>2. /\ DOMAIN worker = Hosts /\ \A g \in Hosts : DOMAIN worker[g] = Workers
      /\ msgs[n].dst \in Hosts /\ n # 0
      /\ events \in [Hosts -> Seq(EventSet(Messages))]
  BY PlaceTypes
<1>3. m \in Messages /\ msgs[m].dst = h /\ worker[h][w].cb \in Messages \cup {0}
  BY <1>1, Contents DEF Refs, RouteInv
<1>4. e \in EventSet(Messages) /\ e.msg = m
  <2>1. listening[h] \in BOOLEAN
    BY DEF Refs, Types
  <2> QED
    BY <1>3, <2>1 DEF EventSet
<1>5. e \in EventsOf(n) <=> m = n
  BY <1>4, EventMembers DEF Refs
<1>6. m = n => h = msgs[n].dst /\ worker[msgs[n].dst][w].msg = n
  BY <1>3
<1> HIDE DEF m, e
<1>7. \A v, u \in Workers :
         worker[msgs[n].dst][v].msg = n /\ worker[msgs[n].dst][u].msg = n => v = u
  BY DEF Placed, Single
<1>8. \A v \in Workers :
         \/ worker'[msgs[n].dst][v] = worker[msgs[n].dst][v]
         \/ worker'[msgs[n].dst][v] = Idle
  BY <1>1, <1>2
<1>9. msgs[n].dst = h => worker'[msgs[n].dst][w] = Idle
  BY <1>1, <1>2
<1>10. Idle.msg # n
  BY <1>2 DEF Idle
<1>11. /\ (\E v \in Workers : worker'[msgs[n].dst][v].msg = n) => Matched(n)
       /\ m = n => Matched(n) /\ ~(\E v \in Workers : worker'[msgs[n].dst][v].msg = n)
       /\ \A v, u \in Workers :
             worker'[msgs[n].dst][v].msg = n /\ worker'[msgs[n].dst][u].msg = n => v = u
  <2>1. \A v \in Workers : worker'[msgs[n].dst][v].msg = n => worker[msgs[n].dst][v].msg = n
    BY <1>8, <1>10
  <2>2. m = n => \A v \in Workers : worker'[msgs[n].dst][v].msg # n
    BY <1>6, <1>7, <1>9, <1>10, <2>1
  <2> QED
    BY <1>6, <1>7, <2>1, <2>2 DEF Matched
<1>12. /\ Matched(n)' => Matched(n)
       /\ m = n => Matched(n) /\ ~Matched(n)'
       /\ SingleMatch(n)'
  BY <1>1, <1>11 DEF Matched, SingleMatch
<1>13. CASE events' = events
  <2>1. Transit(n)
    BY <1>1, <1>12, <1>13, SamePlaces, SameSingles DEF Transit
  <2> QED
    BY <2>1, TransitKeeps
<1>14. CASE events' = [events EXCEPT ![h] = Append(@, e)]
  <2>1. /\ Some(Append(events[h], e), EventsOf(n))
           <=> Some(events[h], EventsOf(n)) \/ e \in EventsOf(n)
        /\ Once(events[h], EventsOf(n)) /\ (e \in EventsOf(n) => ~Some(events[h], EventsOf(n)))
           => Once(Append(events[h], e), EventsOf(n))
    <3>1. events[h] \in Seq(EventSet(Messages)) /\ e \in EventSet(Messages)
      BY <1>2, <1>4
    <3> QED
      BY <3>1, AppendSome
  <2>2. Once(events[msgs[n].dst], EventsOf(n)) /\ (m = n => ~Posted(n))
    BY <1>12 DEF Placed, Single
  <2>3. /\ Some(events'[msgs[n].dst], EventsOf(n)) => Posted(n) \/ m = n
        /\ Once(events'[msgs[n].dst], EventsOf(n))
    <3>1. CASE msgs[n].dst = h
      <4>1. events'[msgs[n].dst] = Append(events[h], e)
        BY <1>2, <1>14, <3>1
      <4> QED
        BY <1>5, <2>1, <2>2, <3>1, <4>1 DEF Posted
    <3>2. CASE msgs[n].dst # h
      <4>1. events'[msgs[n].dst] = events[msgs[n].dst]
        BY <1>2, <1>14, <3>2
      <4> QED
        BY <2>2, <4>1 DEF Posted
    <3> QED
      BY <3>1, <3>2
  <2>4. (Posted(n)' => Posted(n) \/ m = n) /\ SinglePost(n)'
    BY <1>1, <2>3 DEF Posted, SinglePost, Some, Once, EventsOf
  <2>5. Transit(n)
    BY <1>1, <1>12, <2>4, SamePlaces, SameSingles DEF Transit
  <2> QED
    BY <2>5, TransitKeeps
<1> QED
  BY <1>1, <1>13, <1>14

(* A ReceiveEvent gives the message to a callback or to the listener.      *)
LEMMA ReceivePlaces ==
    ASSUME Refs, NEW n \in Messages, Placed(n), NEW h \in Hosts, ReceiveEvent(h)
    PROVE  Placed(n)'
<1> DEFINE m == Head(events[h]).msg
           c == Head(events[h]).cb
<1>1. /\ msgs' = msgs /\ net' = net /\ queue' = queue /\ refused' = refused
      /\ held' = held /\ worker' = worker /\ events[h] # << >>
      /\ events' = [events EXCEPT ![h] = Tail(@)]
      /\ \/ taken' = taken \cup {<<c, m>>} /\ inbox' = inbox
         \/ taken' = taken /\ inbox' = [inbox EXCEPT ![h] = @ \cup {m}]
         \/ taken' = taken /\ inbox' = inbox
  BY DEF ReceiveEvent
<1>2. /\ events \in [Hosts -> Seq(EventSet(Messages))]
      /\ inbox \in [Hosts -> SUBSET Messages] /\ msgs[n].dst \in Hosts
  BY PlaceTypes
<1>3. /\ events[h] \in Seq(EventSet(Messages))
      /\ 1 \in DOMAIN events[h] /\ Head(events[h]) = events[h][1]
      /\ Head(events[h]) \in EventSet(Messages)
  BY <1>1, <1>2, TailElements
<1>4. m \in Messages /\ msgs[m].dst = h
  BY <1>3, Contents DEF Refs, RouteInv
<1>5. Head(events[h]) \in EventsOf(n) <=> m = n
  BY <1>3, EventMembers DEF Refs
<1>6. Once(events[msgs[n].dst], EventsOf(n)) /\ SingleGift(n)
  BY DEF Placed, Single, SingleGift
<1>7. /\ Some(events'[msgs[n].dst], EventsOf(n)) => Posted(n)
      /\ m = n => Posted(n) /\ ~Some(events'[msgs[n].dst], EventsOf(n))
      /\ Once(events'[msgs[n].dst], EventsOf(n))
  <2>1. CASE msgs[n].dst = h
    <3>1. events'[msgs[n].dst] = Tail(events[h])
      BY <1>1, <1>2, <2>1
    <3>2. /\ Some(Tail(events[h]), EventsOf(n)) => Some(events[h], EventsOf(n))
          /\ Head(events[h]) \in EventsOf(n) => Some(events[h], EventsOf(n))
          /\ Once(events[h], EventsOf(n)) => Once(Tail(events[h]), EventsOf(n))
          /\ Once(events[h], EventsOf(n)) /\ Head(events[h]) \in EventsOf(n)
             => ~Some(Tail(events[h]), EventsOf(n))
      BY <1>1, <1>3, TailSome
    <3> QED
      BY <1>5, <1>6, <2>1, <3>1, <3>2 DEF Posted
  <2>2. CASE msgs[n].dst # h
    <3>1. events'[msgs[n].dst] = events[msgs[n].dst] /\ m # n
      BY <1>1, <1>2, <1>4, <2>2
    <3> QED
      BY <1>6, <3>1 DEF Posted
  <2> QED
    BY <2>1, <2>2
<1>8. /\ Posted(n)' => Posted(n)
      /\ m = n => Posted(n) /\ ~Posted(n)'
      /\ SinglePost(n)'
  BY <1>1, <1>7 DEF Posted, SinglePost, Some, Once, EventsOf
<1>9. m = n => ~Given(n)
  BY <1>8 DEF Placed
<1> HIDE DEF m, c
<1>10. /\ n \in inbox'[msgs[n].dst] => n \in inbox[msgs[n].dst] \/ m = n
       /\ \A r \in Messages : <<r, n>> \in taken' => <<r, n>> \in taken \/ (m = n /\ r = c)
       /\ taken' = taken \/ inbox' = inbox
  BY <1>1, <1>2
<1>11. Messages' = Messages
  BY <1>1 DEF Messages
<1>12. Given(n)' => Given(n) \/ m = n
  BY <1>1, <1>10, <1>11 DEF Given
<1>13. SingleGift(n)'
  <2>1. CASE m = n
    BY <1>1, <1>6, <1>9, <1>10, <1>11, <2>1 DEF SingleGift, Given
  <2>2. CASE m # n
    BY <1>1, <1>6, <1>10, <1>11, <2>2 DEF SingleGift
  <2> QED
    BY <2>1, <2>2
<1>14. Transit(n)
  BY <1>1, <1>8, <1>12, <1>13, SamePlaces, SameSingles DEF Transit
<1> QED
  BY <1>14, TransitKeeps

(* The receiver thread takes a datagram that the network does not deliver  *)
(* again.                                                                  *)
LEMMA ReceiverPlaces ==
    ASSUME Refs, NEW n \in Messages \ copied', Placed(n),
           NEW m \in net, MsgReceiverThread(m)
    PROVE  Placed(n)'
<1> DEFINE h == msgs[m].dst
           j == Job("unserialize", m)
<1>1. /\ msgs' = msgs /\ held' = held /\ worker' = worker /\ events' = events
      /\ inbox' = inbox /\ taken' = taken /\ refused' = refused
      /\ queue' = [queue EXCEPT ![h] = Append(@, j)]
      /\ net' = net \ {m} \/ (net' = net /\ copied' = copied \cup {m})
  BY DEF MsgReceiverThread, Execute
<1>2. m \in Messages /\ h \in Hosts
  BY MessageNumbers DEF Refs, Types, Message
<1>3. j \in JobSet(Messages) /\ j.kind = "unserialize" /\ j.msg = m
  BY <1>2 DEF Job, JobSet
<1> HIDE DEF h, j
<1>4. /\ n \in net' => n \in net
      /\ m = n => n \in net /\ n \notin net'
  BY <1>1
<1>5. /\ Sending(n)' => Sending(n)
      /\ Received(n)' => Received(n) \/ m = n
      /\ (m = n => ~Received(n)) => SingleJobs(n)'
  BY <1>1, <1>2, <1>3, QueuedPlaces
<1>6. m = n => ~Received(n)
  BY <1>4 DEF Placed
<1>7. Transit(n)
  BY <1>1, <1>4, <1>5, <1>6, SamePlaces, SameSingles DEF Transit
<1> QED
  BY <1>7, TransitKeeps

(* A message is created: the others stay where they are.                   *)
LEMMA OthersPlaces ==
    ASSUME Refs, NEW n \in Messages, Placed(n),
           NEW h \in Hosts, NEW d \in Hosts, NEW id \in Nat, NEW re \in Messages \cup {0},
           Submit(h, d, id, re)
    PROVE  Placed(n)'
<1> DEFINE m == Len(msgs) + 1
           j == Job("serialize", m)
<1>1. /\ Messages' = Messages \cup {m} /\ m \notin Messages
      /\ msgs'[n] = msgs[n] /\ m # n
  BY SubmitNumbers DEF Refs
<1>2. /\ net' = net /\ worker' = worker /\ events' = events
      /\ inbox' = inbox /\ taken' = taken
  BY DEF Submit
<1>3. /\ refused' = refused \/ refused' = refused \cup {m}
      /\ held' = held \/ held' = [held EXCEPT ![h] = @ \cup {m}]
      /\ queue' = queue \/ queue' = [queue EXCEPT ![h] = Append(@, j)]
  BY SubmitRoutes
<1>4. /\ queue \in [Hosts -> Seq(JobSet(Messages))] /\ held \in [Hosts -> SUBSET Messages]
      /\ msgs[n].src \in Hosts /\ msgs[n].dst \in Hosts
  BY PlaceTypes
<1>5. taken \subseteq Messages \X Messages
  BY DEF Refs, Types
<1>6. j \in JobSet(Messages \cup {m}) /\ j \notin SendJobs(n) /\ j \notin ReceiveJobs(n)
  <2>1. j.kind = "serialize" /\ j.msg = m
    BY DEF Job
  <2>2. j \in JobSet(Messages \cup {m})
    BY DEF Job, JobSet
  <2> QED
    BY <1>1, <2>1, <2>2 DEF SendJobs, ReceiveJobs
<1> HIDE DEF m, j
<1>7. Kept(n)' => Kept(n)
  <2>1. n \in held'[msgs[n].src] => n \in held[msgs[n].src]
    <3>1. \/ held'[msgs[n].src] = held[msgs[n].src]
          \/ held'[msgs[n].src] = held[msgs[n].src] \cup {m}
      <4>1. CASE held' = held
        BY <4>1
      <4>2. CASE held' = [held EXCEPT ![h] = @ \cup {m}]
        BY <1>4, <4>2
      <4> QED
        BY <1>3, <4>1, <4>2
    <3> QED
      BY <1>1, <3>1
  <2> QED
    BY <1>1, <2>1 DEF Kept
<1>8. ASSUME NEW g \in Hosts, NEW M, j \notin M
      PROVE  /\ Some(queue'[g], M) => Some(queue[g], M)
             /\ Once(queue[g], M) => Once(queue'[g], M)
  <2>1. queue'[g] = queue[g] \/ queue'[g] = Append(queue[g], j)
    BY <1>3, <1>4
  <2>2. queue[g] \in Seq(JobSet(Messages \cup {m}))
    <3>1. JobSet(Messages) \subseteq JobSet(Messages \cup {m})
      BY DEF JobSet
    <3> QED
      BY <1>4, <3>1, SeqMonotonic
  <2>3. /\ Some(Append(queue[g], j), M) <=> Some(queue[g], M) \/ j \in M
        /\ Once(queue[g], M) /\ (j \in M => ~Some(queue[g], M))
           => Once(Append(queue[g], j), M)
    BY <1>6, <2>2, AppendSome
  <2>4. CASE queue'[g] = queue[g]
    BY <2>4
  <2>5. CASE queue'[g] = Append(queue[g], j)
    BY <1>8, <2>3, <2>5
  <2> QED
    BY <2>1, <2>4, <2>5
<1>9. Single(n)
  BY DEF Placed
<1>10. /\ Some(queue'[msgs[n].src], SendJobs(n)) => Sending(n)
       /\ Some(queue'[msgs[n].dst], ReceiveJobs(n)) => Received(n)
       /\ Once(queue'[msgs[n].src], SendJobs(n))
       /\ Once(queue'[msgs[n].dst], ReceiveJobs(n))
  BY <1>4, <1>6, <1>8, <1>9 DEF Single, Sending, Received
<1>11. /\ Sending(n)' => Sending(n)
       /\ Received(n)' => Received(n)
       /\ SingleJobs(n)'
  BY <1>1, <1>10 DEF Sending, Received, SingleJobs, Some, Once, SendJobs, ReceiveJobs
<1>12. /\ Matched(n)' => Matched(n)
       /\ Posted(n)' => Posted(n)
       /\ SingleMatch(n)' /\ SinglePost(n)'
  BY <1>1, <1>2, <1>9
     DEF Single, Matched, Posted, SingleMatch, SinglePost, Some, Once, EventsOf
<1>13. (Given(n)' => Given(n)) /\ SingleGift(n)'
  BY <1>1, <1>2, <1>5, <1>9 DEF Single, SingleGift, Given
<1>14. Single(n)'
  BY <1>11, <1>12, <1>13 DEF Single, SingleJobs, SinglePost, SingleMatch, SingleGift
<1>15. Transit(n)
  BY <1>1, <1>2, <1>3, <1>7, <1>11, <1>12, <1>13, <1>14 DEF Transit
<1> QED
  BY <1>15, TransitKeeps

(* The new message is in at most one place.                                *)
LEMMA NewPlaces ==
    ASSUME Refs, NEW n, n = Len(msgs) + 1,
           NEW h \in Hosts, NEW d \in Hosts, NEW id \in Nat, NEW re \in Messages \cup {0},
           Submit(h, d, id, re)
    PROVE  Placed(n)'
<1> DEFINE x == Record(h, d, id, re)
           j == Job("serialize", n)
<1>0. Types
  BY DEF Refs
<1>1. n \notin Messages /\ n # 0 /\ msgs'[n] = x
  BY <1>0, SubmitNumbers
<1>2. x.src = h /\ x.dst = d
  BY DEF Record
<1>3. /\ net' = net /\ worker' = worker /\ events' = events
      /\ inbox' = inbox /\ taken' = taken
  BY DEF Submit
<1>4. \/ refused' = refused \cup {n} /\ held' = held /\ queue' = queue
      \/ /\ held' = [held EXCEPT ![h] = @ \cup {n}]
         /\ queue' = queue /\ refused' = refused
      \/ /\ queue' = [queue EXCEPT ![h] = Append(@, j)]
         /\ held' = held /\ refused' = refused
  BY SubmitRoutes
<1> HIDE DEF x, j
<1>6. /\ net \subseteq Messages /\ taken \subseteq Messages \X Messages
      /\ refused \subseteq Messages
      /\ queue \in [Hosts -> Seq(JobSet(Messages))] /\ held \in [Hosts -> SUBSET Messages]
  BY <1>0, TypesByVariable
<1>7. ASSUME NEW g \in Hosts
      PROVE  /\ n \notin held[g] /\ n \notin inbox[g]
             /\ \A w \in Workers : worker[g][w].msg # n
             /\ \A i \in DOMAIN queue[g] : queue[g][i].msg # n
             /\ \A i \in DOMAIN events[g] : events[g][i].msg # n
             /\ queue[g] \in Seq(JobSet(Messages))
  BY <1>1, <1>0, Contents
<1>8. n \notin net' /\ n \notin refused
  BY <1>1, <1>3, <1>6
<1>9. ~Matched(n)' /\ SingleMatch(n)'
  BY <1>1, <1>2, <1>3, <1>7 DEF Matched, SingleMatch
<1>10. ~Posted(n)' /\ SinglePost(n)'
  BY <1>1, <1>2, <1>3, <1>7 DEF Posted, SinglePost, Some, Once, EventsOf
<1>11. ~Given(n)' /\ SingleGift(n)'
  <2>1. n \notin inbox'[d] /\ \A r : <<r, n>> \notin taken'
    BY <1>1, <1>3, <1>6, <1>7
  <2> QED
    BY <1>1, <1>2, <2>1 DEF Given, SingleGift
<1>12. \A g \in Hosts : /\ \A i \in DOMAIN queue[g] : queue[g][i] \notin SendJobs(n)
                        /\ \A i \in DOMAIN queue[g] : queue[g][i] \notin ReceiveJobs(n)
  BY <1>7 DEF SendJobs, ReceiveJobs
<1>13. \A g \in Hosts : /\ ~Some(queue[g], SendJobs(n)) /\ ~Some(queue[g], ReceiveJobs(n))
                        /\ Once(queue[g], SendJobs(n)) /\ Once(queue[g], ReceiveJobs(n))
  BY <1>12 DEF Some, Once
<1>14. /\ Sending(n)' <=> Some(queue'[h], SendJobs(n))
       /\ Received(n)' <=> Some(queue'[d], ReceiveJobs(n))
       /\ SingleJobs(n)' <=> /\ Once(queue'[h], SendJobs(n))
                             /\ Once(queue'[d], ReceiveJobs(n))
       /\ Kept(n)' <=> n \in held'[h]
  BY <1>1, <1>2
     DEF Sending, Received, SingleJobs, Kept, Some, Once, SendJobs, ReceiveJobs
<1>15. /\ ~Received(n)' /\ SingleJobs(n)'
       /\ queue' = queue => ~Sending(n)'
  <2>1. CASE queue' = queue
    BY <1>13, <1>14, <2>1
  <2>2. CASE queue' = [queue EXCEPT ![h] = Append(@, j)]
    <3>1. j.kind = "serialize" /\ j.msg = n /\ j \in JobSet(Messages \cup {n})
      BY DEF j, Job, JobSet
    <3>2. j \notin ReceiveJobs(n)
      BY <3>1 DEF ReceiveJobs
    <3>3. queue[h] \in Seq(JobSet(Messages \cup {n}))
      <4>1. JobSet(Messages) \subseteq JobSet(Messages \cup {n})
        BY DEF JobSet
      <4> QED
        BY <1>6, <4>1, SeqMonotonic
    <3>4. \A M : /\ Some(Append(queue[h], j), M) <=> Some(queue[h], M) \/ j \in M
                 /\ Once(queue[h], M) /\ (j \in M => ~Some(queue[h], M))
                    => Once(Append(queue[h], j), M)
      BY <3>1, <3>3, AppendSome
    <3>5. queue'[h] = Append(queue[h], j) /\ (d # h => queue'[d] = queue[d])
      BY <1>6, <2>2
    <3>6. Once(queue'[h], SendJobs(n)) /\ Once(queue'[h], ReceiveJobs(n))
          /\ ~Some(queue'[h], ReceiveJobs(n))
      BY <1>13, <3>2, <3>4, <3>5
    <3>7. Once(queue'[d], ReceiveJobs(n)) /\ ~Some(queue'[d], ReceiveJobs(n))
      BY <1>13, <3>5, <3>6
    <3>8. queue' # queue
      <4>1. Some(queue'[h], SendJobs(n))
        <5>1. j \in SendJobs(n)
          BY DEF SendJobs, j, Job
        <5> QED
          BY <3>4, <3>5, <5>1
      <4> QED
        BY <1>13, <4>1
    <3> QED
      BY <1>14, <3>6, <3>7, <3>8
  <2> QED
    BY <1>4, <2>1, <2>2
<1>16. held' = held => ~Kept(n)'
  BY <1>7, <1>14
<1>17. Single(n)'
  BY <1>9, <1>10, <1>11, <1>15 DEF Single, SingleJobs, SinglePost, SingleMatch, SingleGift
<1>18. n \in refused' => held' = held /\ queue' = queue
  BY <1>4, <1>8
<1>19. (Kept(n)' => ~Sending(n)') /\ (n \in refused' => ~Somewhere(n)')
  BY <1>4, <1>8, <1>9, <1>10, <1>11, <1>15, <1>16, <1>18 DEF Somewhere
<1> QED
  BY <1>8, <1>9, <1>10, <1>11, <1>15, <1>17, <1>19 DEF Placed

(* Every step keeps a message that is not duplicated in one place.         *)
LEMMA NextPlaces == Refs /\ PlaceInv /\ [Next]_vars => PlaceInv'
<1> SUFFICES ASSUME Refs, PlaceInv, [Next]_vars PROVE PlaceInv'
  OBVIOUS
<1>0. /\ Types /\ \A h \in Hosts : currentID[h] \in Nat
  BY DEF Refs, Types
<1>1. ASSUME NEW h \in Hosts, NEW d \in Hosts, NEW id \in Nat, NEW re \in Messages \cup {0},
             Submit(h, d, id, re)
      PROVE  PlaceInv'
  <2>1. copied' = copied /\ Messages' = Messages \cup {Len(msgs) + 1}
    BY <1>0, <1>1, SubmitNumbers DEF Submit
  <2>2. \A n \in Messages \ copied' : Placed(n)'
    BY <1>1, <2>1, OthersPlaces DEF PlaceInv
  <2>3. \A n : n = Len(msgs) + 1 => Placed(n)'
    BY <1>1, NewPlaces
  <2> QED
    BY <2>1, <2>2, <2>3 DEF PlaceInv
<1>2. ASSUME NEW h \in Hosts, NEW d \in Hosts, send(h, d) \/ sendAndWait(h, d)
      PROVE  PlaceInv'
  <2>1. Submit(h, d, currentID[h], 0)
    BY <1>2 DEF send, sendAndWait
  <2> QED
    BY <1>0, <1>1, <2>1
<1>3. ASSUME NEW h \in Hosts, NEW n \in inbox[h], sendReply(h, n)
      PROVE  PlaceInv'
  <2>1. Submit(h, msgs[n].src, msgs[n].id, n)
    BY <1>3 DEF sendReply
  <2>2. msgs[n].src \in Hosts /\ msgs[n].id \in Nat /\ n \in Messages
    BY <1>0, Contents, MessageNumbers DEF Message
  <2> QED
    BY <1>1, <2>1, <2>2
<1>4. ASSUME msgs' = msgs, copied \subseteq copied',
             \A n \in Messages \ copied' : Placed(n) => Placed(n)'
      PROVE  PlaceInv'
  <2>1. Messages' = Messages
    BY <1>4 DEF Messages
  <2> QED
    BY <1>4, <2>1 DEF PlaceInv
<1>5. ASSUME NEW h \in Hosts, NEW m \in held[h], QueueService(h, m) PROVE PlaceInv'
  <2>1. msgs' = msgs /\ copied' = copied
    BY <1>5 DEF QueueService, hist
  <2> QED
    BY <1>4, <1>5, <2>1, ServicePlaces
<1>6. ASSUME msgs' = msgs, held' = held, queue' = queue, net' \subseteq net,
             worker' = worker, events' = events, inbox' = inbox, taken' = taken,
             refused' = refused, copied' = copied
      PROVE  PlaceInv'
  BY <1>4, <1>6, StillPlaces
<1>7. ASSUME NEW h \in Hosts, Application(h) PROVE PlaceInv'
  <2>1. setTransportMessageListener(h) => PlaceInv'
    BY <1>6 DEF setTransportMessageListener, hist
  <2> QED
    BY <1>2, <1>3, <1>5, <1>7, <2>1 DEF Application
<1>8. ASSUME NEW h \in Hosts, NEW w \in Workers, SerializeAndSend(h, w) PROVE PlaceInv'
  <2>1. msgs' = msgs /\ copied' = copied
    BY <1>8 DEF SerializeAndSend, hist
  <2> QED
    BY <1>4, <1>8, <2>1, SerializePlaces
<1>9. ASSUME NEW h \in Hosts, NEW w \in Workers, MsgSenderRunnable(h, w) PROVE PlaceInv'
  <2>1. msgs' = msgs /\ copied' = copied
    BY <1>9 DEF MsgSenderRunnable, hist
  <2> QED
    BY <1>4, <1>9, <2>1, SenderPlaces
<1>10. ASSUME NEW h \in Hosts, NEW w \in Workers, Unserialize(h, w) PROVE PlaceInv'
  <2>1. msgs' = msgs /\ copied' = copied
    BY <1>10 DEF Unserialize
  <2> QED
    BY <1>4, <1>10, <2>1, UnserializePlaces
<1>11. ASSUME NEW h \in Hosts, NEW w \in Workers, PostReceiveEvent(h, w) PROVE PlaceInv'
  <2>1. msgs' = msgs /\ copied' = copied
    BY <1>11 DEF PostReceiveEvent
  <2> QED
    BY <1>4, <1>11, <2>1, PostPlaces
<1>12. ASSUME NEW h \in Hosts, Timer(h) \/ messageTimeoutOccured(h) PROVE PlaceInv'
  <2>1. /\ msgs' = msgs /\ held' = held /\ queue' = queue /\ net' = net
        /\ worker' = worker /\ events' = events /\ inbox' = inbox /\ taken' = taken
        /\ refused' = refused /\ copied' = copied
    BY <1>12 DEF Timer, TimeoutOccurred, messageTimeoutOccured, hist
  <2> QED
    BY <1>6, <2>1
<1>13. ASSUME NEW h \in Hosts, ReceiveEvent(h) PROVE PlaceInv'
  <2>1. msgs' = msgs /\ copied' = copied
    BY <1>13 DEF ReceiveEvent
  <2> QED
    BY <1>4, <1>13, <2>1, ReceivePlaces
<1>14. ASSUME NEW m \in net, MsgReceiverThread(m) PROVE PlaceInv'
  <2>1. msgs' = msgs /\ copied \subseteq copied'
    BY <1>14 DEF MsgReceiverThread
  <2> QED
    BY <1>4, <1>14, <2>1, ReceiverPlaces
<1>15. ASSUME (\E m \in net : Lose(m)) \/ (\E h \in Hosts : ReceiverDies(h)) \/ UNCHANGED vars
       PROVE  PlaceInv'
  <2>1. /\ msgs' = msgs /\ held' = held /\ queue' = queue /\ net' \subseteq net
        /\ worker' = worker /\ events' = events /\ inbox' = inbox /\ taken' = taken
        /\ refused' = refused /\ copied' = copied
    BY <1>15 DEF Lose, ReceiverDies, hist, vars
  <2> QED
    BY <1>6, <2>1
<1> QED
  BY <1>2, <1>7, <1>8, <1>9, <1>10, <1>11, <1>12, <1>13, <1>14, <1>15
     DEF Next, Network, HostStep, Pool

-----------------------------------------------------------------------------
(* The theorems.                                                           *)

(* The parts of the inductive invariant that are proved one by one.        *)
Parts ==
    Refs /\ MatchInv /\ AnswerInv /\ CallbackInv /\ NoLeak /\ ReplyOrCollision
    /\ PlaceInv

(* No message exists at the start.                                         *)
LEMMA InitParts == Init => Parts
<1> SUFFICES ASSUME Init PROVE Parts
  OBVIOUS
<1>1. msgs = << >> /\ Messages = {} /\ Len(msgs) = 0
  BY DEF Init, Messages
<1>2. Types
  <2>1. faults \in 0 .. MaxFaults
    <3>1. IsFiniteSet({h \in Hosts : rx[h] = "none"})
      BY HostAssumption, FS_Subset
    <3>2. Cardinality({h \in Hosts : rx[h] = "none"}) \in Nat
      BY <3>1, FS_CardinalityType
    <3> QED
      BY <3>2, BoundAssumption DEF Init
  <2>2. /\ currentID \in [Hosts -> Nat]
        /\ open \in [Hosts -> SUBSET Messages]
        /\ timers \in [Hosts -> SUBSET Messages]
        /\ held \in [Hosts -> SUBSET Messages]
        /\ inbox \in [Hosts -> SUBSET Messages]
    BY DEF Init
  <2>3. queue \in [Hosts -> Seq([kind : {"serialize", "send", "unserialize"},
                                 msg : Messages])]
    BY DEF Init
  <2>4. events \in [Hosts -> Seq([msg : Messages, cb : 0..Len(msgs), ls : BOOLEAN])]
    BY DEF Init
  <2>5. /\ worker \in [Hosts -> [Workers -> [msg : 0..Len(msgs), cb : 0..Len(msgs)]]]
        /\ evt \in [Hosts -> 0..Len(msgs)]
    <3>1. 0 \in 0 .. Len(msgs)
      BY <1>1
    <3> QED
      BY <3>1 DEF Init, Idle
  <2>6. listening \in [Hosts -> BOOLEAN]
    BY DEF Init
  <2>7. rx \in [Hosts -> {"running", "dead", "none"}]
    BY DEF Init
  <2>8. /\ net \subseteq Messages /\ halted \in BOOLEAN
        /\ taken \subseteq Messages \X Messages
        /\ raced \subseteq Hosts /\ uncreated \subseteq Messages
        /\ copied \subseteq Messages /\ refused \subseteq Messages
    BY DEF Init
  <2>9. /\ msgs \in Seq([src : Hosts, dst : Hosts, id : Nat, re : Nat,
                       origin : Nat])
        /\ outcomes \in Seq(Nat) /\ Len(outcomes) = Len(msgs)
    BY DEF Init
  <2> QED
    BY <2>1, <2>2, <2>3, <2>4, <2>5, <2>6, <2>7, <2>8, <2>9 DEF Types
<1>3. NumberInv /\ PlaceInv /\ ReplyOrCollision
  BY <1>1 DEF NumberInv, PlaceInv, ReplyOrCollision
<1>4. RouteInv /\ OwnInv /\ MatchInv /\ AnswerInv
  BY DEF Init, RouteInv, OwnInv, MatchInv, AnswerInv, Idle
<1>5. CallbackInv /\ NoLeak
  BY <1>1 DEF Init, CallbackInv, Callbacks, NoLeak, Idle
<1> QED
  BY <1>2, <1>3, <1>4, <1>5 DEF Parts, Refs

(* Every step keeps the parts of the invariant.                            *)
LEMMA NextParts == Parts /\ [Next]_vars => Parts'
BY NextRefs, NextAnswers, NextCallbacks, NextTaken, NextPlaces DEF Parts

(* The inductive invariant is one, and holds in every reachable state.     *)
THEOREM Invariance == Spec => []IInv
<1>1. Init => Parts
  BY InitParts
<1>2. Parts /\ [Next]_vars => Parts'
  BY NextParts
<1>3. Parts => IInv
  BY OpenRequests DEF Parts, IInv, Refs
<1> QED
  BY <1>1, <1>2, <1>3, PTL DEF Spec

(* Every variable keeps its type, and the requests in openCallbacks are    *)
(* the host's own, under identifiers that differ                           *)
(* (AbstractRealTransport.sendAndWait).                                    *)
THEOREM TypeCorrectness == Spec => []TypeOK
<1>1. IInv => TypeOK
  BY DEF IInv
<1> QED
  BY <1>1, Invariance, PTL

(* A TransMessageCallback is called at most once, by a reply or by the     *)
(* timeout, on a host whose map has seen no data race.                     *)
THEOREM AtMostOnce == Spec => []OneOutcome
<1>1. IInv => OneOutcome
  <2> SUFFICES ASSUME IInv, NEW r \in Messages, msgs[r].src \notin raced
               PROVE  ~(outcomes[r] > 1)
    BY DEF OneOutcome
  <2>1. Types
    BY DEF IInv, TypeOK
  <2>2. msgs[r].src \in Hosts \ raced /\ outcomes[r] \in Nat
    BY <2>1, MessageNumbers DEF Message
  <2>3. Callbacks(msgs[r].src)
    BY <2>2 DEF IInv, CallbackInv
  <2>4. outcomes[r] <= 1
    BY <2>3 DEF Callbacks
  <2> QED
    BY <2>2, <2>4
<1> QED
  BY <1>1, Invariance, PTL

(* A callback gets an answer to its request and to no other message of its *)
(* host, unless another host has chosen the same identifier                *)
(* (UnserializeAndReceive looks at the identifier only, and sendReply()    *)
(* sends under any identifier).                                            *)
THEOREM RepliesMatch == Spec => []ReplyOrCollision
<1>1. IInv => ReplyOrCollision
  BY DEF IInv
<1> QED
  BY <1>1, Invariance, PTL

(* Every entry of openCallbacks has a timer that will take it out, on a    *)
(* host whose map has seen no data race.                                   *)
THEOREM EntriesTimed == Spec => []NoLeak
<1>1. IInv => NoLeak
  BY DEF IInv
<1> QED
  BY <1>1, Invariance, PTL

(* A message that the network has not duplicated is given to one callback  *)
(* or to the listener, and not twice (UnserializeAndReceive, ReceiveEvent).*)
THEOREM GivenOnce == Spec => []HandedUpOnce
<1>1. IInv => HandedUpOnce
  <2> SUFFICES ASSUME IInv, NEW n \in Messages \ copied
               PROVE  /\ Cardinality({r \in Messages : <<r, n>> \in taken}) <= 1
                      /\ n \in inbox[msgs[n].dst] => \A r \in Messages : <<r, n>> \notin taken
    BY DEF HandedUpOnce
  <2>1. Single(n)
    BY DEF IInv, PlaceInv, Placed
  <2>2. n \in inbox[msgs[n].dst] => \A r \in Messages : <<r, n>> \notin taken
    BY <2>1 DEF Single
  <2> DEFINE R == {r \in Messages : <<r, n>> \in taken}
  <2>3. \A r, q \in R : r = q
    BY <2>1 DEF Single
  <2> HIDE DEF R
  <2>4. Cardinality(R) <= 1
    <3>1. CASE R = {}
      <4>1. Cardinality({}) = 0
        BY FS_EmptySet
      <4> QED
        BY <3>1, <4>1
    <3>2. CASE R # {}
      <4>1. PICK r : R = {r}
        BY <2>3, <3>2
      <4>2. Cardinality({r}) = 1
        BY FS_Singleton
      <4> QED
        BY <4>1, <4>2
    <3> QED
      BY <3>1, <3>2
  <2> QED
    BY <2>2, <2>4 DEF R
<1> QED
  BY <1>1, Invariance, PTL

(* What a FirewallService has refused, when sent or when received, never   *)
(* reaches a callback or a listener, unless the network has copied it.     *)
THEOREM RefusedForGood == Spec => []FirewallHolds
<1>1. IInv => FirewallHolds
  <2> SUFFICES ASSUME IInv, NEW n \in refused \ copied
               PROVE  /\ \A r \in Messages : <<r, n>> \notin taken
                      /\ \A h \in Hosts : n \notin inbox[h]
    BY DEF FirewallHolds
  <2>1. n \in Messages
    BY DEF IInv, TypeOK, Types
  <2>2. ~Given(n)
    BY <2>1 DEF IInv, PlaceInv, Placed, Somewhere
  <2>3. \A h \in Hosts : n \in inbox[h] => msgs[n].dst = h
    BY DEF IInv, RouteInv
  <2> QED
    BY <2>2, <2>3 DEF Given
<1> QED
  BY <1>1, Invariance, PTL
=============================================================================

----------------------- MODULE RealtimeSchedulerProofs -----------------------
(***************************************************************************)
(* Proofs about the realtime scheduler, for every choice of its constants. *)
(***************************************************************************)
EXTENDS RealtimeScheduler, FiniteSetTheorems, SequenceTheorems, TLAPS

USE DEF Times, Task, NoTask

(* What Tail() does to a list of at least two tasks.                       *)
LEMMA TailOfLonger ==
    ASSUME NEW q \in Seq(TaskId), Len(q) > 1
    PROVE  /\ Tail(q) \in Seq(TaskId) \ {<< >>}
           /\ Len(Tail(q)) = Len(q) - 1
           /\ \A i \in 1 .. Len(q) - 1 : Tail(q)[i] = q[i + 1]
           /\ Head(Tail(q)) = q[2]
<1>1. q # << >> /\ Len(q) \in Nat
  BY EmptySeq, LenProperties
<1>2. /\ Tail(q) \in Seq(TaskId)
      /\ Len(Tail(q)) = Len(q) - 1
      /\ \A i \in 1 .. Len(Tail(q)) : Tail(q)[i] = q[i + 1]
  BY <1>1, HeadTailProperties
<1>3. Tail(q) # << >>
  <2>1. Len(Tail(q)) # Len(<< >>)
    BY <1>1, <1>2
  <2> QED
    BY <2>1
<1>4. 1 \in 1 .. Len(q) - 1
  BY <1>1
<1>5. Tail(q)[1] = q[2]
  BY <1>2, <1>4
<1> QED
  BY <1>1, <1>2, <1>3, <1>5

(* Initially the types are right and no walk is under way.                 *)
LEMMA InitTypeWalk == Init => TypeOK /\ WalkInv
<1>1. ASSUME Init PROVE TypeOK
  <2>1. DOMAIN Handler = {} /\ Handler \in [DOMAIN Handler -> Seq(TaskId) \ {<< >>}]
    BY <1>1 DEF Init
  <2>2. tasks \in Seq(Task) /\ log \in Seq([task : Nat, sec : Nat, frac : Fractions])
    BY <1>1 DEF Init
  <2> QED
    BY <1>1, <2>1, <2>2, TimeAssumption DEF Init, TypeOK
<1>2. Init => WalkInv
  BY DEF Init, WalkInv
<1> QED
  BY <1>1, <1>2

(* Filing a task and its timeout message keeps the types: the common part  *)
(* of scheduleIn() and of handleMessage() for the start message.           *)
LEMMA ScheduleTypes ==
    ASSUME TypeOK, NEW d \in Nat, NEW h \in Handlers \cup {Null},
           Schedule(d, h)
    PROVE  /\ DOMAIN Handler' \subseteq Nat
           /\ Handler' \in [DOMAIN Handler' -> Seq(TaskId) \ {<< >>}]
           /\ timers' \subseteq [id : Nat, sec : Nat, frac : Fractions]
           /\ modified' \in BOOLEAN
           /\ tasks' \in Seq(Task)
           /\ DOMAIN Handler \subseteq DOMAIN Handler'
           /\ \A k \in DOMAIN Handler :
                /\ Len(Handler'[k]) >= Len(Handler[k])
                /\ Head(Handler'[k]) = Head(Handler[k])
<1> DEFINE key == now.sec + d
           i == Len(tasks) + 1
<1>1. key \in Nat /\ i \in TaskId /\ now.frac \in Fractions
  BY DEF TypeOK, TaskId
<1>2. Handler' = AddTask(key, i)
  BY DEF Schedule
<1>3. Context(key) \in {"module", "callback", "sole"}
  BY DEF Context
<1>4. tasks' \in Seq(Task)
  BY <1>1, <1>3 DEF Schedule, TypeOK
<1>5. timers' \subseteq [id : Nat, sec : Nat, frac : Fractions]
  BY <1>1 DEF Schedule, TypeOK, TaskId
<1>6. modified' \in BOOLEAN
  BY DEF Schedule, TypeOK
<1>7. CASE key \in DOMAIN Handler
  <2>1. Handler' = [Handler EXCEPT ![key] = Append(@, i)]
    BY <1>2, <1>7 DEF AddTask
  <2>2. Handler[key] \in Seq(TaskId) /\ Handler[key] # << >>
    BY <1>7 DEF TypeOK
  <2>3. /\ Append(Handler[key], i) \in Seq(TaskId) \ {<< >>}
        /\ Len(Append(Handler[key], i)) >= Len(Handler[key])
        /\ Head(Append(Handler[key], i)) = Head(Handler[key])
    BY <1>1, <2>2
  <2> QED
    BY <1>4, <1>5, <1>6, <1>7, <2>1, <2>3 DEF TypeOK
<1>8. CASE key \notin DOMAIN Handler
  <2>1. Handler' = [k \in DOMAIN Handler \cup {key} |->
                       IF k = key THEN <<i>> ELSE Handler[k]]
    BY <1>2, <1>8 DEF AddTask
  <2>2. <<i>> \in Seq(TaskId) \ {<< >>}
    BY <1>1
  <2> QED
    BY <1>1, <1>4, <1>5, <1>6, <1>8, <2>1, <2>2 DEF TypeOK
<1> QED
  BY <1>7, <1>8

(* Every step keeps the types and the state of the walk.                   *)
LEMMA NextTypeWalk == TypeOK /\ WalkInv /\ [Next]_vars => (TypeOK /\ WalkInv)'
<1> SUFFICES ASSUME TypeOK, WalkInv, [Next]_vars
             PROVE  TypeOK' /\ WalkInv'
  OBVIOUS
<1>1. ASSUME NEW d \in Delays, NEW h \in HandlerArgs, scheduleIn(d, h)
      PROVE  TypeOK' /\ WalkInv'
  <2>1. d \in Nat /\ h \in Handlers \cup {Null} /\ Schedule(d, h)
    BY <1>1, TimeAssumption, HandlerAssumption DEF scheduleIn
  <2> QED
    <3>1. TypeOK'
      BY <1>1, <2>1, ScheduleTypes DEF scheduleIn, TypeOK
    <3>2. WalkInv'
      BY <1>1, <2>1, ScheduleTypes DEF scheduleIn, TypeOK, WalkInv
    <3> QED
      BY <3>1, <3>2
<1>2. ASSUME NEW h \in Handlers, handleStartMessage(h)
      PROVE  TypeOK' /\ WalkInv'
  <2>1. StartDelay \in Nat /\ Schedule(StartDelay, h)
    BY <1>2, TimeAssumption DEF handleStartMessage
  <2> QED
    BY <1>2, <2>1, ScheduleTypes DEF handleStartMessage, TypeOK, WalkInv
<1>3. ASSUME NEW m \in timers, handleTimeout(m)
      PROVE  TypeOK' /\ WalkInv'
  <2>1. TypeOK'
    BY <1>3 DEF handleTimeout, TypeOK
  <2>2. WalkInv'
    BY <1>3 DEF handleTimeout, WalkInv
  <2> QED
    BY <2>1, <2>2
<1>4. ASSUME NEW k \in todo, Fire(k)
      PROVE  TypeOK' /\ WalkInv'
  <2>1. k \in DOMAIN Handler /\ k \in Nat
    BY DEF WalkInv, TypeOK
  <2>2. Handler[k] \in Seq(TaskId) /\ Handler[k] # << >>
    BY <2>1 DEF TypeOK
  <2>3. Head(Handler[k]) \in TaskId /\ Len(Handler[k]) \in Nat \ {0}
    BY <2>2
  <2>4. TypeOK'
    BY <1>4, <2>1, <2>3 DEF Fire, TaskId, TypeOK
  <2>5. /\ running'.task = Head(Handler[k])
        /\ running'.key = k
        /\ running'.size = Len(Handler[k])
    BY <1>4 DEF Fire
  <2>7. todo' = todo \ {k} /\ pc' = "callback" /\ Handler' = Handler
    BY <1>4 DEF Fire
  <2>8. running'.task # 0
    BY <2>3, <2>5 DEF TaskId
  <2>9. WalkInv'
    BY <2>1, <2>3, <2>5, <2>7, <2>8 DEF WalkInv
  <2> QED
    BY <2>4, <2>9
<1>5. ASSUME NEW k \in todo, Skip(k)
      PROVE  TypeOK' /\ WalkInv'
  BY <1>5 DEF Skip, TypeOK, WalkInv
<1>6. ASSUME Return
      PROVE  TypeOK' /\ WalkInv'
  <2>1. CASE running.task = 0
    BY <1>6, <2>1 DEF Return, TypeOK, WalkInv
  <2>2. CASE running.task # 0 /\ running.size = 1
    <3>1. Handler' = [k \in DOMAIN Handler \ {running.key} |-> Handler[k]]
      BY <1>6, <2>2 DEF Return
    <3>2. TypeOK'
      BY <1>6, <2>2, <3>1 DEF Return, TypeOK
    <3>3. WalkInv'
      BY <1>6, <2>2, <3>1 DEF Return, WalkInv
    <3> QED
      BY <3>2, <3>3
  <2>3. CASE running.task # 0 /\ running.size # 1
    <3> DEFINE q == Handler[running.key]
    <3>1. Handler' = [Handler EXCEPT ![running.key] = Tail(q)]
      BY <1>6, <2>3 DEF Return
    <3>2. /\ running.key \in DOMAIN Handler
          /\ q \in Seq(TaskId)
          /\ Len(q) > 1
      BY <2>3 DEF WalkInv, TypeOK
    <3>3. Tail(q) \in Seq(TaskId) \ {<< >>}
      BY <3>2, TailOfLonger
    <3>4. TypeOK'
      BY <1>6, <2>3, <3>1, <3>2, <3>3 DEF Return, TypeOK
    <3>5. WalkInv'
      BY <1>6, <2>3, <3>1 DEF Return, WalkInv
    <3> QED
      BY <3>4, <3>5
  <2> QED
    BY <2>1, <2>2, <2>3 DEF TypeOK
<1>7. ASSUME LoopEnd PROVE TypeOK' /\ WalkInv'
  BY <1>7 DEF LoopEnd, TypeOK, WalkInv
<1>8. ASSUME Abort PROVE TypeOK' /\ WalkInv'
  BY <1>8 DEF Abort, TypeOK, WalkInv
<1>9. ASSUME Tick PROVE TypeOK' /\ WalkInv'
  BY <1>9 DEF Tick, AdvanceTime, walk, TypeOK, WalkInv
<1>10. ASSUME UNCHANGED vars PROVE TypeOK' /\ WalkInv'
  BY <1>10 DEF vars, TypeOK, WalkInv
<1> QED
  BY <1>1, <1>2, <1>3, <1>4, <1>5, <1>6, <1>7, <1>8, <1>9, <1>10 DEF Next, Step

(* The scheduler is well typed; in particular no list of the map is ever   *)
(* empty when the walk reads its first element.                            *)
THEOREM TypeCorrect == Spec => []TypeOK
BY InitTypeWalk, NextTypeWalk, PTL DEF Spec

-----------------------------------------------------------------------------
(* What Schedule() does to the history of tasks: it only adds a last one,  *)
(* for second now.sec + d.                                                 *)
LEMMA ScheduleTasks ==
    ASSUME TypeOK, NEW d \in Nat, NEW h \in Handlers \cup {Null},
           Schedule(d, h)
    PROVE  /\ Len(tasks) \in Nat
           /\ DOMAIN tasks = 1 .. Len(tasks)
           /\ DOMAIN tasks' = 1 .. Len(tasks) + 1
           /\ Len(tasks') = Len(tasks) + 1
           /\ \A j \in DOMAIN tasks : tasks'[j] = tasks[j]
           /\ tasks'[Len(tasks) + 1].key = now.sec + d
           /\ tasks'[Len(tasks) + 1].handler = h
           /\ tasks'[Len(tasks) + 1].from = Context(now.sec + d)
<1> DEFINE t == [key |-> now.sec + d, frac |-> now.frac, delay |-> d,
                 handler |-> h, from |-> Context(now.sec + d)]
<1>1. tasks \in Seq(Task) /\ tasks' = Append(tasks, t)
  BY DEF Schedule, TypeOK
<1>2. t.key = now.sec + d /\ t.handler = h /\ t.from = Context(now.sec + d)
  OBVIOUS
<1> HIDE DEF t
<1> QED
  BY <1>1, <1>2

(* What Schedule() does to the map: the list of second now.sec + d gets    *)
(* one more last element, or comes into being; the others stay.            *)
LEMMA ScheduleMap ==
    ASSUME TypeOK, NEW d \in Nat, NEW h \in Handlers \cup {Null},
           Schedule(d, h)
    PROVE  /\ now.sec + d \in Nat
           /\ DOMAIN Handler' = DOMAIN Handler \cup {now.sec + d}
           /\ \A k \in DOMAIN Handler : k # now.sec + d =>
                 Handler'[k] = Handler[k]
           /\ now.sec + d \in DOMAIN Handler =>
                 Handler'[now.sec + d] =
                    Append(Handler[now.sec + d], Len(tasks) + 1)
           /\ now.sec + d \notin DOMAIN Handler =>
                 Handler'[now.sec + d] = <<Len(tasks) + 1>>
BY DEF Schedule, AddTask, TypeOK

(* Append() on a list of tasks.                                            *)
LEMMA AppendTask ==
    ASSUME NEW q \in Seq(TaskId), q # << >>, NEW i \in TaskId
    PROVE  /\ Len(q) \in Nat \ {0}
           /\ DOMAIN q = 1 .. Len(q)
           /\ Len(Append(q, i)) = Len(q) + 1
           /\ DOMAIN Append(q, i) = 1 .. Len(q) + 1
           /\ \A j \in 1 .. Len(q) : Append(q, i)[j] = q[j]
           /\ Append(q, i)[Len(q) + 1] = i
           /\ Head(Append(q, i)) = Head(q)
OBVIOUS

(* Schedule() keeps the lists in order, whatever list it adds to.          *)
LEMMA ScheduleLists ==
    ASSUME TypeOK, ListInv, NoOvertaking, FiredInItsSecond,
           NEW d \in Nat, NEW h \in Handlers \cup {Null}, Schedule(d, h),
           log' = log, running' = running
    PROVE  ListInv' /\ NoOvertaking' /\ FiredInItsSecond'
<1> DEFINE key == now.sec + d
           n == Len(tasks) + 1
<1>1. /\ Len(tasks) \in Nat
      /\ DOMAIN tasks = 1 .. Len(tasks)
      /\ DOMAIN tasks' = 1 .. n
      /\ \A j \in DOMAIN tasks : tasks'[j] = tasks[j]
      /\ tasks'[n].key = key
  BY ScheduleTasks
<1>2. n \in TaskId /\ n \in DOMAIN tasks' /\ DOMAIN tasks \subseteq DOMAIN tasks'
  BY <1>1 DEF TaskId
<1>3. /\ DOMAIN Handler' = DOMAIN Handler \cup {key}
      /\ \A k \in DOMAIN Handler : k # key => Handler'[k] = Handler[k]
      /\ key \in DOMAIN Handler => Handler'[key] = Append(Handler[key], n)
      /\ key \notin DOMAIN Handler => Handler'[key] = <<n>>
  BY ScheduleMap
<1> HIDE DEF n, key
<1>4. \A j \in DOMAIN tasks : j < n
  BY <1>1 DEF n
<1>5. \A k \in DOMAIN Handler : Handler[k] \in Seq(TaskId) /\ Handler[k] # << >>
  BY DEF TypeOK
<1>6. ASSUME NEW k \in DOMAIN Handler'
      PROVE  /\ \A j \in DOMAIN Handler'[k] :
                   Handler'[k][j] \in DOMAIN tasks' /\ tasks'[Handler'[k][j]].key = k
             /\ \A i, j \in DOMAIN Handler'[k] :
                   i < j => Handler'[k][i] < Handler'[k][j]
             /\ k \in DOMAIN Handler => Head(Handler'[k]) = Head(Handler[k])
             /\ k \notin DOMAIN Handler => k = key /\ Head(Handler'[k]) = n
  <2>1. CASE k # key
    BY <2>1, <1>1, <1>2, <1>3 DEF ListInv
  <2>2. CASE k = key /\ k \in DOMAIN Handler
    <3> DEFINE q == Handler[k]
    <3>1. q \in Seq(TaskId) /\ q # << >> /\ Handler'[k] = Append(q, n)
      BY <1>3, <1>5, <2>2
    <3>2. /\ \A j \in DOMAIN q : q[j] \in DOMAIN tasks /\ tasks[q[j]].key = k
          /\ \A i, j \in DOMAIN q : i < j => q[i] < q[j]
      BY <2>2 DEF ListInv
    <3> HIDE DEF q
    <3>3. /\ Len(q) \in Nat \ {0}
          /\ DOMAIN q = 1 .. Len(q)
          /\ DOMAIN Append(q, n) = 1 .. Len(q) + 1
          /\ \A j \in 1 .. Len(q) : Append(q, n)[j] = q[j]
          /\ Append(q, n)[Len(q) + 1] = n
          /\ Head(Append(q, n)) = Head(q)
      BY <1>2, <3>1, AppendTask
    <3>4. \A j \in 1 .. Len(q) + 1 : j \in 1 .. Len(q) \/ j = Len(q) + 1
      BY <3>3
    <3>5. \A j \in DOMAIN Handler'[k] :
             Handler'[k][j] \in DOMAIN tasks' /\ tasks'[Handler'[k][j]].key = k
      BY <1>1, <1>2, <2>2, <3>1, <3>2, <3>3, <3>4
    <3>6. \A i, j \in DOMAIN Handler'[k] : i < j => Handler'[k][i] < Handler'[k][j]
      BY <1>4, <3>1, <3>2, <3>3, <3>4
    <3>7. Head(Handler'[k]) = Head(Handler[k])
      BY <3>1, <3>3 DEF q
    <3> QED
      BY <2>2, <3>5, <3>6, <3>7
  <2>3. CASE k = key /\ k \notin DOMAIN Handler
    BY <2>3, <1>1, <1>2, <1>3
  <2> QED
    BY <2>1, <2>2, <2>3
<1>7. ASSUME NEW l \in DOMAIN log'
      PROVE  /\ log'[l].task \in DOMAIN tasks /\ log'[l].task < n
             /\ tasks'[log'[l].task] = tasks[log[l].task]
  BY <1>1, <1>4 DEF ListInv
<1>8. ListInv'
  <2>1. \A l \in DOMAIN log' : log'[l].task \in DOMAIN tasks'
    BY <1>2, <1>7
  <2>2. ASSUME NEW l \in DOMAIN log', NEW k \in DOMAIN Handler',
               tasks'[log'[l].task].key = k
        PROVE  \/ log'[l].task < Head(Handler'[k])
               \/ running'.task = log'[l].task /\ running'.key = k
    BY <1>6, <1>7, <2>2 DEF ListInv
  <2> QED
    BY <1>6, <2>1, <2>2 DEF ListInv
<1>9. NoOvertaking' /\ FiredInItsSecond'
  BY <1>7 DEF NoOvertaking, FiredInItsSecond
<1> QED
  BY <1>8, <1>9

(* Every step keeps the lists in order and calls only heads of lists of    *)
(* the current second.                                                     *)
LEMMA NextLists ==
    IInv /\ [Next]_vars => ListInv' /\ NoOvertaking' /\ FiredInItsSecond'
<1> SUFFICES ASSUME IInv, [Next]_vars
             PROVE  ListInv' /\ NoOvertaking' /\ FiredInItsSecond'
  OBVIOUS
<1>0. TypeOK /\ WalkInv /\ ListInv /\ TimerInv /\ NoOvertaking /\ FiredInItsSecond
  BY DEF IInv
<1>1. ASSUME NEW d \in Delays, NEW h \in HandlerArgs, scheduleIn(d, h)
      PROVE  ListInv' /\ NoOvertaking' /\ FiredInItsSecond'
  <2>1. /\ d \in Nat /\ h \in Handlers \cup {Null} /\ Schedule(d, h)
        /\ log' = log /\ running' = running
    BY <1>1, TimeAssumption, HandlerAssumption DEF scheduleIn
  <2> QED
    BY <1>0, <2>1, ScheduleLists
<1>2. ASSUME NEW h \in Handlers, handleStartMessage(h)
      PROVE  ListInv' /\ NoOvertaking' /\ FiredInItsSecond'
  <2>1. /\ StartDelay \in Nat /\ Schedule(StartDelay, h)
        /\ log' = log /\ running' = running
    BY <1>0, <1>2, TimeAssumption DEF handleStartMessage, WalkInv
  <2> QED
    BY <1>0, <2>1, ScheduleLists
<1>3. ASSUME NEW k \in todo, Fire(k)
      PROVE  ListInv' /\ NoOvertaking' /\ FiredInItsSecond'
  <2> DEFINE i == Head(Handler[k])
             e == [task |-> i, sec |-> now.sec, frac |-> now.frac]
  <2>1. /\ k \in DOMAIN Handler /\ k \in Nat
        /\ Handler[k] \in Seq(TaskId) /\ Handler[k] # << >>
    BY <1>0 DEF WalkInv, TypeOK
  <2>2. i = Handler[k][1] /\ 1 \in DOMAIN Handler[k]
    BY <2>1
  <2>3. i \in DOMAIN tasks /\ tasks[i].key = k
    BY <1>0, <2>1, <2>2 DEF ListInv
  <2>4. k = now.sec
    <3>1. k <= now.sec /\ handlerOf(Head(Handler[k])) # Null /\ now.sec \in Nat
      BY <1>0, <1>3 DEF Fire, Due, TypeOK
    <3>2. k < now.sec => handlerOf(Head(Handler[k])) = Null
      BY <1>0, <2>1 DEF TimerInv
    <3> QED
      BY <2>1, <3>1, <3>2
  <2>5. /\ log' = Append(log, e) /\ e.task = i /\ e.sec = now.sec
        /\ log \in Seq([task : Nat, sec : Nat, frac : Fractions])
        /\ running = NoTask /\ running'.task = i /\ running'.key = k
        /\ tasks' = tasks /\ Handler' = Handler
    BY <1>0, <1>3 DEF Fire, TypeOK, WalkInv
  <2> HIDE DEF i, e
  <2>6. /\ Len(log) \in Nat
        /\ DOMAIN log = 1 .. Len(log)
        /\ DOMAIN log' = 1 .. Len(log) + 1
        /\ \A l \in DOMAIN log : log'[l] = log[l]
        /\ log'[Len(log) + 1] = e
    BY <2>5
  <2>7. ASSUME NEW l \in DOMAIN log, tasks[log[l].task].key = k
        PROVE  log[l].task < i
    <3>1. \/ log[l].task < Head(Handler[k])
          \/ running.task = log[l].task /\ running.key = k
      BY <1>0, <2>1, <2>7 DEF ListInv
    <3>2. log[l].task \in DOMAIN tasks /\ tasks \in Seq(Task)
      BY <1>0 DEF ListInv, TypeOK
    <3>3. log[l].task # 0
      BY <3>2
    <3> QED
      BY <2>5, <3>1, <3>3 DEF i
  <2>8. \A l \in DOMAIN log' : l \in DOMAIN log \/ l = Len(log) + 1
    BY <2>6
  <2>9. ListInv'
    <3>1. \A l \in DOMAIN log' : log'[l].task \in DOMAIN tasks'
      BY <1>0, <2>3, <2>5, <2>6, <2>8 DEF ListInv
    <3>2. ASSUME NEW l \in DOMAIN log', NEW j \in DOMAIN Handler',
                 tasks'[log'[l].task].key = j
          PROVE  \/ log'[l].task < Head(Handler'[j])
                 \/ running'.task = log'[l].task /\ running'.key = j
      <4>1. CASE l \in DOMAIN log /\ j = k
        BY <2>5, <2>6, <2>7, <3>2, <4>1 DEF i
      <4>2. CASE l \in DOMAIN log /\ j # k
        <5>1. log[l].task \in DOMAIN tasks /\ tasks \in Seq(Task)
          BY <1>0, <4>2 DEF ListInv, TypeOK
        <5>2. log[l].task # 0
          BY <5>1
        <5> QED
          BY <1>0, <2>5, <2>6, <3>2, <4>2, <5>2 DEF ListInv
      <4>3. CASE l = Len(log) + 1
        BY <2>3, <2>5, <2>6, <3>2, <4>3
      <4> QED
        BY <2>8, <4>1, <4>2, <4>3
    <3> QED
      BY <1>0, <2>5, <3>1, <3>2 DEF ListInv
  <2>10. NoOvertaking'
    <3> SUFFICES ASSUME NEW l \in DOMAIN log', NEW m \in DOMAIN log', l < m,
                        tasks'[log'[l].task].key = tasks'[log'[m].task].key
                 PROVE  log'[l].task < log'[m].task
      BY DEF NoOvertaking
    <3>1. l \in DOMAIN log
      BY <2>6, <2>8
    <3>2. CASE m \in DOMAIN log
      BY <1>0, <2>5, <2>6, <3>1, <3>2 DEF NoOvertaking
    <3>3. CASE m = Len(log) + 1
      BY <2>3, <2>5, <2>6, <2>7, <3>1, <3>3
    <3> QED
      BY <2>8, <3>2, <3>3
  <2>11. FiredInItsSecond'
    BY <1>0, <2>3, <2>4, <2>5, <2>6, <2>8 DEF FiredInItsSecond
  <2> QED
    BY <2>9, <2>10, <2>11
<1>4. ASSUME Return
      PROVE  ListInv' /\ NoOvertaking' /\ FiredInItsSecond'
  <2>1. tasks' = tasks /\ log' = log /\ running'.task = 0
    BY <1>4 DEF Return
  <2>2. NoOvertaking' /\ FiredInItsSecond'
    BY <1>0, <2>1 DEF NoOvertaking, FiredInItsSecond
  <2>3. CASE running.task = 0
    <3>1. \A l \in DOMAIN log : log[l].task \in DOMAIN tasks /\ tasks \in Seq(Task)
      BY <1>0 DEF ListInv, TypeOK
    <3>2. \A l \in DOMAIN log : log[l].task # 0
      BY <3>1
    <3>3. Handler' = Handler
      BY <1>4, <2>3 DEF Return
    <3>4. ListInv'
      BY <1>0, <2>1, <2>3, <3>2, <3>3 DEF ListInv
    <3> QED
      BY <2>2, <3>4
  <2>4. CASE running.task # 0 /\ running.size = 1
    <3>1. Handler' = [k \in DOMAIN Handler \ {running.key} |-> Handler[k]]
      BY <1>4, <2>4 DEF Return
    <3>2. ListInv'
      BY <1>0, <2>1, <3>1 DEF ListInv
    <3> QED
      BY <2>2, <3>2
  <2>5. CASE running.task # 0 /\ running.size # 1
    <3> DEFINE r == running.key
               q == Handler[r]
    <3>1. Handler' = [Handler EXCEPT ![r] = Tail(q)]
      BY <1>4, <2>5 DEF Return
    <3>2. /\ r \in DOMAIN Handler /\ q \in Seq(TaskId) /\ Len(q) > 1
          /\ running.task = Head(q)
      BY <1>0, <2>5 DEF WalkInv, TypeOK
    <3>3. /\ \A j \in DOMAIN q : q[j] \in DOMAIN tasks /\ tasks[q[j]].key = r
          /\ \A i, j \in DOMAIN q : i < j => q[i] < q[j]
      BY <1>0, <3>2 DEF ListInv
    <3>4. \A l \in DOMAIN log : tasks[log[l].task].key = r =>
              log[l].task < Head(q) \/ log[l].task = Head(q)
      BY <1>0, <3>2 DEF ListInv
    <3> HIDE DEF q, r
    <3>5. /\ Tail(q) \in Seq(TaskId) /\ Tail(q) # << >>
          /\ Len(Tail(q)) = Len(q) - 1
          /\ \A i \in 1 .. Len(q) - 1 : Tail(q)[i] = q[i + 1]
          /\ Head(Tail(q)) = q[2]
      BY <3>2, TailOfLonger
    <3>6. /\ Len(q) \in Nat /\ DOMAIN q = 1 .. Len(q)
          /\ DOMAIN Tail(q) = 1 .. Len(q) - 1
          /\ \A i \in DOMAIN Tail(q) : i + 1 \in DOMAIN q
          /\ Head(q) = q[1]
          /\ \A j \in DOMAIN q : q[j] \in Nat
      BY <3>2, <3>5 DEF TaskId
    <3>7. /\ \A j \in DOMAIN Tail(q) :
                Tail(q)[j] \in DOMAIN tasks /\ tasks[Tail(q)[j]].key = r
          /\ \A i, j \in DOMAIN Tail(q) : i < j => Tail(q)[i] < Tail(q)[j]
      BY <3>3, <3>5, <3>6
    <3>8. q[1] < q[2] /\ q[1] \in Nat /\ q[2] \in Nat
      <4>1. 1 \in DOMAIN q /\ 2 \in DOMAIN q /\ 1 < 2
        BY <3>2, <3>6
      <4> QED
        BY <3>3, <3>6, <4>1
    <3>9. ASSUME NEW l \in DOMAIN log, NEW k \in DOMAIN Handler,
                 tasks[log[l].task].key = k
          PROVE  log[l].task < Head(Handler'[k])
      <4>1. log[l].task \in DOMAIN tasks /\ tasks \in Seq(Task)
        BY <1>0 DEF ListInv, TypeOK
      <4>2. log[l].task \in Nat
        BY <4>1
      <4>3. CASE k = r
        <5>1. Head(Handler'[k]) = q[2]
          BY <3>1, <3>2, <3>5, <4>3
        <5>2. log[l].task < q[1] \/ log[l].task = q[1]
          BY <3>4, <3>6, <3>9, <4>3
        <5>3. log[l].task < q[2]
          BY <3>8, <4>2, <5>2
        <5> QED
          BY <5>1, <5>3
      <4>4. CASE k # r
        BY <1>0, <3>1, <3>9, <4>4 DEF ListInv, r
      <4> QED
        BY <4>3, <4>4
    <3>10. ListInv'
      BY <1>0, <2>1, <3>1, <3>2, <3>7, <3>9 DEF ListInv
    <3> QED
      BY <2>2, <3>10
  <2> QED
    BY <2>3, <2>4, <2>5
<1>5. ASSUME UNCHANGED <<Handler, tasks, log, running>>
      PROVE  ListInv' /\ NoOvertaking' /\ FiredInItsSecond'
  BY <1>0, <1>5 DEF ListInv, NoOvertaking, FiredInItsSecond
<1>6. ASSUME NEW m \in timers, handleTimeout(m)
      PROVE  UNCHANGED <<Handler, tasks, log, running>>
  BY <1>6 DEF handleTimeout
<1>7. ASSUME NEW k \in todo, Skip(k)
      PROVE  UNCHANGED <<Handler, tasks, log, running>>
  BY <1>7 DEF Skip
<1>8. LoopEnd \/ Abort \/ Tick \/ UNCHANGED vars =>
         UNCHANGED <<Handler, tasks, log, running>>
  BY DEF LoopEnd, Abort, Tick, AdvanceTime, walk, vars
<1> QED
  BY <1>1, <1>2, <1>3, <1>4, <1>5, <1>6, <1>7, <1>8 DEF Next, Step

-----------------------------------------------------------------------------
(* The timeout messages of T for second k.                                 *)
At(T, k) == {x \in T : x.sec = k}

(* One more timeout message, for second m.sec.                             *)
LEMMA AddTimer ==
    ASSUME NEW T, IsFiniteSet(T), NEW m, m \notin T, NEW k
    PROVE  /\ IsFiniteSet(T \cup {m})
           /\ Cardinality(At(T, k)) \in Nat
           /\ m.sec = k => Cardinality(At(T \cup {m}, k))
                             = Cardinality(At(T, k)) + 1
           /\ m.sec # k => Cardinality(At(T \cup {m}, k))
                             = Cardinality(At(T, k))
<1> DEFINE S == At(T, k)
<1>1. IsFiniteSet(S) /\ m \notin S
  BY FS_Subset DEF At
<1>2. Cardinality(S) \in Nat
  BY <1>1, FS_CardinalityType
<1>3. IsFiniteSet(T \cup {m})
  BY FS_AddElement
<1>4. CASE m.sec = k
  <2>1. At(T \cup {m}, k) = S \cup {m}
    BY <1>4 DEF At
  <2>2. Cardinality(S \cup {m}) = Cardinality(S) + 1
    BY <1>1, FS_AddElement
  <2> QED
    BY <1>2, <1>3, <1>4, <2>1, <2>2
<1>5. CASE m.sec # k
  <2>1. At(T \cup {m}, k) = S
    BY <1>5 DEF At
  <2> QED
    BY <1>2, <1>3, <1>5, <2>1
<1> QED
  BY <1>4, <1>5

(* One timeout message less.                                               *)
LEMMA RemoveTimer ==
    ASSUME NEW T, IsFiniteSet(T), NEW m \in T, NEW k
    PROVE  /\ IsFiniteSet(T \ {m})
           /\ Cardinality(At(T, k)) \in Nat
           /\ m.sec = k => Cardinality(At(T \ {m}, k))
                             = Cardinality(At(T, k)) - 1
           /\ m.sec # k => Cardinality(At(T \ {m}, k))
                             = Cardinality(At(T, k))
<1> DEFINE S == At(T, k)
<1>1. IsFiniteSet(S)
  BY FS_Subset DEF At
<1>2. Cardinality(S) \in Nat
  BY <1>1, FS_CardinalityType
<1>3. IsFiniteSet(T \ {m})
  BY FS_Subset
<1>4. CASE m.sec = k
  <2>1. At(T \ {m}, k) = S \ {m} /\ m \in S
    BY <1>4 DEF At
  <2>2. Cardinality(S \ {m}) = Cardinality(S) - 1
    BY <1>1, <2>1, FS_RemoveElement
  <2> QED
    BY <1>2, <1>3, <1>4, <2>1, <2>2
<1>5. CASE m.sec # k
  <2>1. At(T \ {m}, k) = S
    BY <1>5 DEF At
  <2> QED
    BY <1>2, <1>3, <1>5, <2>1
<1> QED
  BY <1>4, <1>5

(* Schedule() adds a timeout message for every task it files.              *)
LEMMA ScheduleTimers ==
    ASSUME TypeOK, WalkInv, ListInv, TimerInv, WakeupsCoverTasks,
           NEW d \in Nat, NEW h \in Handlers \cup {Null}, Schedule(d, h),
           now' = now, running' = running,
           pc \in {"idle", "callback"}, pc' \in {"idle", "callback"},
           pc' = "idle" => pc = "idle"
    PROVE  TimerInv' /\ WakeupsCoverTasks'
<1> DEFINE key == now.sec + d
           n == Len(tasks) + 1
           m == [id |-> n, sec |-> key, frac |-> now.frac]
<1>1. /\ Len(tasks) \in Nat
      /\ Len(tasks') = n
      /\ \A j \in DOMAIN tasks : tasks'[j] = tasks[j]
  BY ScheduleTasks
<1>2. /\ key \in Nat
      /\ DOMAIN Handler' = DOMAIN Handler \cup {key}
      /\ \A k \in DOMAIN Handler : k # key => Handler'[k] = Handler[k]
      /\ key \in DOMAIN Handler => Handler'[key] = Append(Handler[key], n)
      /\ key \notin DOMAIN Handler => Handler'[key] = <<n>>
  BY ScheduleMap
<1>3. /\ now.sec \in Nat /\ now.frac \in Fractions /\ Fractions \subseteq Nat
      /\ IsFiniteSet(timers) /\ \A x \in timers : x.id <= Len(tasks)
      /\ timers \subseteq [id : Nat, sec : Nat, frac : Fractions]
  BY TimeAssumption DEF TypeOK, TimerInv
<1>4. /\ m \notin timers /\ timers' = timers \cup {m}
      /\ m.id = n /\ m.sec = key /\ m.frac = now.frac
  BY <1>1, <1>3 DEF Schedule
<1>5. n \in TaskId /\ key >= now.sec
  BY <1>1, <1>3 DEF TaskId
<1> HIDE DEF n, key, m
<1>6. ASSUME NEW k \in DOMAIN Handler
      PROVE  /\ Handler[k] \in Seq(TaskId) /\ Handler[k] # << >>
             /\ Head(Handler'[k]) = Head(Handler[k])
             /\ handlerOf(Head(Handler[k]))' = handlerOf(Head(Handler[k]))
  <2>1. Handler[k] \in Seq(TaskId) /\ Handler[k] # << >>
    BY DEF TypeOK
  <2>2. Head(Handler[k]) \in DOMAIN tasks
    <3>1. 1 \in DOMAIN Handler[k] /\ Head(Handler[k]) = Handler[k][1]
      BY <2>1
    <3> QED
      BY <3>1 DEF ListInv
  <2>3. Head(Handler'[k]) = Head(Handler[k])
    BY ScheduleTypes
  <2> QED
    BY <1>1, <2>1, <2>2, <2>3 DEF handlerOf
<1>7. TimerInv'
  <2>1. IsFiniteSet(timers')
    BY <1>3, <1>4, AddTimer
  <2>2. \A x \in timers' : x.id <= Len(tasks') /\ ~Before(x, now')
    <3>1. ASSUME NEW x \in timers
          PROVE  x.id <= Len(tasks') /\ ~Before(x, now')
      BY <1>1, <1>3 DEF TimerInv, n
    <3>2. m.id <= Len(tasks') /\ ~Before(m, now')
      <4>1. n <= n /\ Len(tasks') = n
        BY <1>1 DEF n
      <4>2. ~(key < now.sec) /\ ~(now.frac < now.frac)
        <5>1. now.frac \in Nat
          BY <1>3
        <5>2. ~(now.frac < now.frac)
          BY <5>1
        <5>3. ~(key < now.sec)
          BY <1>3 DEF key
        <5> QED
          BY <5>2, <5>3
      <4>3. m.id <= Len(tasks')
        BY <1>4, <4>1
      <4>4. ~Before(m, now')
        BY <1>4, <4>2 DEF Before
      <4> QED
        BY <4>3, <4>4
    <3> QED
      BY <1>4, <3>1, <3>2
  <2>3. ASSUME NEW k \in DOMAIN Handler', k < now'.sec
        PROVE  handlerOf(Head(Handler[k]))' = Null
    <3>1. k \in DOMAIN Handler
      <4>1. k # key
        BY <1>2, <1>3, <1>5, <2>3
      <4> QED
        BY <1>2, <4>1
    <3> QED
      BY <1>6, <2>3, <3>1 DEF TimerInv
  <2>4. running'.task # 0 =>
           running'.key = now'.sec /\ handlerOf(running.task)' # Null
    BY <1>6 DEF TimerInv, WalkInv
  <2> QED
    BY <2>1, <2>2, <2>3, <2>4 DEF TimerInv
<1>8. WakeupsCoverTasks'
  <2> SUFFICES ASSUME NEW k \in DOMAIN Handler', handlerOf(Head(Handler[k]))' # Null
               PROVE  Len(Handler'[k]) <= Wakeups(k)' + (IF InHand(k)' THEN 1 ELSE 0)
    BY DEF WakeupsCoverTasks
  <2>1. InHand(k)' <=> InHand(k)
    BY DEF InHand, WalkInv
  <2>2. /\ Wakeups(k) \in Nat
        /\ k = key => Wakeups(k)' = Wakeups(k) + 1
        /\ k # key => Wakeups(k)' = Wakeups(k)
    <3>1. /\ Wakeups(k) = Cardinality(At(timers, k))
          /\ Wakeups(k)' = Cardinality(At(timers \cup {m}, k))
      BY <1>4 DEF Wakeups, At
    <3>2. /\ Cardinality(At(timers, k)) \in Nat
          /\ m.sec = k => Cardinality(At(timers \cup {m}, k))
                            = Cardinality(At(timers, k)) + 1
          /\ m.sec # k => Cardinality(At(timers \cup {m}, k))
                            = Cardinality(At(timers, k))
      BY <1>3, <1>4, AddTimer
    <3> QED
      BY <1>4, <3>1, <3>2
  <2>3. CASE k \in DOMAIN Handler
    <3>1. Len(Handler[k]) <= Wakeups(k) + (IF InHand(k) THEN 1 ELSE 0)
      BY <1>6, <2>3 DEF WakeupsCoverTasks
    <3>2. CASE k = key
      <4>1. Len(Handler'[k]) = Len(Handler[k]) + 1 /\ Len(Handler[k]) \in Nat
        BY <1>2, <1>5, <1>6, <2>3, <3>2, AppendTask
      <4> QED
        BY <2>1, <2>2, <3>1, <3>2, <4>1
    <3>3. CASE k # key
      BY <1>2, <2>1, <2>2, <2>3, <3>1, <3>3
    <3> QED
      BY <3>2, <3>3
  <2>4. CASE k \notin DOMAIN Handler
    <3>1. k = key /\ Handler'[k] = <<n>>
      BY <1>2, <2>4
    <3>2. Len(Handler'[k]) = 1
      BY <3>1
    <3> QED
      BY <2>2, <3>1, <3>2
  <2> QED
    BY <2>3, <2>4
<1> QED
  BY <1>7, <1>8

(* Every step keeps the timeout messages in step with the lists.           *)
LEMMA NextTimers == IInv /\ [Next]_vars => TimerInv' /\ WakeupsCoverTasks'
<1> SUFFICES ASSUME IInv, [Next]_vars
             PROVE  TimerInv' /\ WakeupsCoverTasks'
  OBVIOUS
<1>0. TypeOK /\ WalkInv /\ ListInv /\ TimerInv /\ WakeupsCoverTasks
  BY DEF IInv
<1>a. /\ now.sec \in Nat /\ IsFiniteSet(timers)
      /\ \A k \in DOMAIN Handler : k \in Nat /\ Len(Handler[k]) \in Nat \ {0}
      /\ \A k : Wakeups(k) \in Nat
  <2>1. now.sec \in Nat /\ IsFiniteSet(timers)
    BY <1>0 DEF TypeOK, TimerInv
  <2>2. \A k \in DOMAIN Handler : k \in Nat /\ Len(Handler[k]) \in Nat \ {0}
    BY <1>0 DEF TypeOK
  <2>3. ASSUME NEW k PROVE Wakeups(k) \in Nat
    BY <2>1, FS_Subset, FS_CardinalityType DEF Wakeups
  <2> QED
    BY <2>1, <2>2, <2>3
<1>1. ASSUME NEW d \in Delays, NEW h \in HandlerArgs, scheduleIn(d, h)
      PROVE  TimerInv' /\ WakeupsCoverTasks'
  <2>1. /\ d \in Nat /\ h \in Handlers \cup {Null} /\ Schedule(d, h)
        /\ now' = now /\ running' = running /\ pc' = pc
        /\ pc \in {"idle", "callback"}
    BY <1>1, TimeAssumption, HandlerAssumption DEF scheduleIn
  <2> QED
    BY <1>0, <2>1, ScheduleTimers
<1>2. ASSUME NEW h \in Handlers, handleStartMessage(h)
      PROVE  TimerInv' /\ WakeupsCoverTasks'
  <2>1. /\ StartDelay \in Nat /\ Schedule(StartDelay, h)
        /\ now' = now /\ running' = running
        /\ pc = "idle" /\ pc' = "callback"
    BY <1>0, <1>2, TimeAssumption DEF handleStartMessage, WalkInv
  <2> QED
    BY <1>0, <2>1, ScheduleTimers
<1>3. ASSUME NEW m \in timers, handleTimeout(m)
      PROVE  TimerInv' /\ WakeupsCoverTasks'
  <2>1. /\ timers' = timers \ {m} /\ m.sec = now.sec
        /\ pc = "idle" /\ pc' = "loop" /\ todo' = DOMAIN Handler
        /\ UNCHANGED <<now, Handler, running, tasks>>
    BY <1>3 DEF handleTimeout
  <2>2. TimerInv'
    <3>1. IsFiniteSet(timers')
      BY <1>a, <2>1, RemoveTimer
    <3> QED
      BY <1>0, <2>1, <3>1 DEF TimerInv, handlerOf
  <2>3. ASSUME NEW k \in DOMAIN Handler, handlerOf(Head(Handler[k])) # Null
        PROVE  Len(Handler[k]) <= Wakeups(k)' + (IF InHand(k)' THEN 1 ELSE 0)
    <3>1. Len(Handler[k]) <= Wakeups(k)
      <4>1. ~InHand(k)
        BY <2>1 DEF InHand
      <4> QED
        BY <1>0, <1>a, <2>1, <2>3, <4>1 DEF WakeupsCoverTasks
    <3>a. /\ Wakeups(k) = Cardinality(At(timers, k))
          /\ Wakeups(k)' = Cardinality(At(timers \ {m}, k))
      BY <2>1 DEF Wakeups, At
    <3>2. CASE k = now.sec
      <4>1. InHand(k)'
        BY <2>1, <3>2 DEF InHand
      <4>2. Wakeups(k)' = Wakeups(k) - 1
        BY <1>a, <2>1, <3>2, <3>a, RemoveTimer
      <4> QED
        BY <1>a, <3>1, <4>1, <4>2
    <3>3. CASE k # now.sec
      <4>1. Wakeups(k)' = Wakeups(k)
        BY <1>a, <2>1, <3>3, <3>a, RemoveTimer
      <4> QED
        BY <1>a, <3>1, <4>1
    <3> QED
      BY <3>2, <3>3
  <2>4. WakeupsCoverTasks'
    BY <2>1, <2>3 DEF WakeupsCoverTasks, handlerOf
  <2> QED
    BY <2>2, <2>4
<1>4. ASSUME NEW k \in todo, Fire(k)
      PROVE  TimerInv' /\ WakeupsCoverTasks'
  <2>1. /\ UNCHANGED <<now, Handler, timers, tasks>>
        /\ pc = "loop" /\ pc' = "callback" /\ todo' = todo \ {k}
        /\ running'.task = Head(Handler[k]) /\ running'.key = k
        /\ k <= now.sec /\ handlerOf(Head(Handler[k])) # Null
    BY <1>4 DEF Fire, Due
  <2>2. k \in DOMAIN Handler /\ k \in Nat
    BY <1>0 DEF WalkInv, TypeOK
  <2>3. k = now.sec
    <3>1. k < now.sec => handlerOf(Head(Handler[k])) = Null
      BY <1>0, <2>2 DEF TimerInv
    <3> QED
      BY <1>a, <2>1, <2>2, <3>1
  <2>4. TimerInv'
    BY <1>0, <2>1, <2>3 DEF TimerInv, handlerOf
  <2>5. running'.task # 0
    <3>1. Handler[k] \in Seq(TaskId) /\ Handler[k] # << >>
      BY <1>0, <2>2 DEF TypeOK
    <3>2. Head(Handler[k]) \in TaskId
      BY <3>1
    <3> QED
      BY <2>1, <3>2 DEF TaskId
  <2>6. \A j \in DOMAIN Handler : InHand(j) => InHand(j)'
    BY <1>0, <2>1, <2>3, <2>5 DEF InHand, WalkInv
  <2>7. \A j : Wakeups(j)' = Wakeups(j)
    BY <2>1 DEF Wakeups
  <2>8. ASSUME NEW j \in DOMAIN Handler, handlerOf(Head(Handler[j])) # Null
        PROVE  Len(Handler[j]) <= Wakeups(j)' + (IF InHand(j)' THEN 1 ELSE 0)
    <3>1. Len(Handler[j]) <= Wakeups(j) + (IF InHand(j) THEN 1 ELSE 0)
      BY <1>0, <2>1, <2>8 DEF WakeupsCoverTasks
    <3> QED
      BY <1>a, <2>6, <2>7, <3>1
  <2>9. WakeupsCoverTasks'
    BY <2>1, <2>8 DEF WakeupsCoverTasks, handlerOf
  <2> QED
    BY <2>4, <2>9
<1>5. ASSUME NEW k \in todo, Skip(k)
      PROVE  TimerInv' /\ WakeupsCoverTasks'
  <2>1. /\ UNCHANGED <<now, Handler, timers, tasks, running, pc>>
        /\ pc = "loop" /\ todo' = todo \ {k}
        /\ k > now.sec \/ handlerOf(Head(Handler[k])) = Null
    <3>1. k \in DOMAIN Handler
      BY <1>0 DEF WalkInv
    <3> QED
      BY <1>5, <1>a, <3>1 DEF Skip, Due
  <2>2. TimerInv'
    BY <1>0, <2>1 DEF TimerInv, handlerOf
  <2>3. ASSUME NEW j \in DOMAIN Handler, handlerOf(Head(Handler[j])) # Null
        PROVE  Len(Handler[j]) <= Wakeups(j)' + (IF InHand(j)' THEN 1 ELSE 0)
    <3>1. Len(Handler[j]) <= Wakeups(j) + (IF InHand(j) THEN 1 ELSE 0)
      BY <1>0, <2>1, <2>3 DEF WakeupsCoverTasks
    <3>2. InHand(j) => InHand(j)'
      BY <1>a, <2>1, <2>3 DEF InHand
    <3>3. Wakeups(j)' = Wakeups(j)
      BY <2>1 DEF Wakeups
    <3> QED
      BY <1>a, <3>1, <3>2, <3>3
  <2>4. WakeupsCoverTasks'
    BY <2>1, <2>3 DEF WakeupsCoverTasks, handlerOf
  <2> QED
    BY <2>2, <2>4
<1>6. ASSUME Return
      PROVE  TimerInv' /\ WakeupsCoverTasks'
  <2>1. UNCHANGED <<now, timers, tasks, todo>> /\ running'.task = 0 /\ pc = "callback"
    BY <1>6 DEF Return
  <2>2. CASE running.task = 0
    <3>1. Handler' = Handler /\ pc' = "idle"
      BY <1>6, <2>2 DEF Return
    <3> QED
      BY <1>0, <2>1, <2>2, <3>1
         DEF TimerInv, handlerOf, WakeupsCoverTasks, Wakeups, InHand
  <2>3. CASE running.task # 0 /\ running.size = 1
    <3>1. /\ Handler' = [k \in DOMAIN Handler \ {running.key} |-> Handler[k]]
          /\ pc' = "loop"
      BY <1>6, <2>3 DEF Return
    <3>2. TimerInv'
      BY <1>0, <2>1, <3>1 DEF TimerInv, handlerOf
    <3>3. ASSUME NEW k \in DOMAIN Handler', handlerOf(Head(Handler[k]))' # Null
          PROVE  Len(Handler'[k]) <= Wakeups(k)' + (IF InHand(k)' THEN 1 ELSE 0)
      <4>1. k \in DOMAIN Handler /\ k # running.key /\ Handler'[k] = Handler[k]
        BY <3>1
      <4>2. ~InHand(k) /\ handlerOf(Head(Handler[k])) # Null
        BY <2>1, <3>3, <4>1 DEF InHand, handlerOf
      <4>3. Len(Handler[k]) <= Wakeups(k)
        BY <1>0, <1>a, <2>1, <4>1, <4>2 DEF WakeupsCoverTasks
      <4>4. Wakeups(k)' = Wakeups(k)
        BY <2>1 DEF Wakeups
      <4> QED
        BY <1>a, <4>1, <4>3, <4>4
    <3>4. WakeupsCoverTasks'
      BY <3>3 DEF WakeupsCoverTasks
    <3> QED
      BY <3>2, <3>4
  <2>4. CASE running.task # 0 /\ running.size # 1
    <3> DEFINE r == running.key
               q == Handler[r]
    <3>1. Handler' = [Handler EXCEPT ![r] = Tail(q)] /\ pc' = "loop"
      BY <1>6, <2>4 DEF Return
    <3>2. /\ r \in DOMAIN Handler /\ q \in Seq(TaskId) /\ Len(q) > 1
          /\ r = now.sec /\ r \notin todo
      BY <1>0, <2>4 DEF WalkInv, TypeOK, TimerInv
    <3>3. Len(Tail(q)) = Len(q) - 1
      BY <3>2, TailOfLonger
    <3>4. /\ DOMAIN Handler' = DOMAIN Handler
          /\ Handler'[r] = Tail(q)
          /\ \A k \in DOMAIN Handler : k # r => Handler'[k] = Handler[k]
      BY <3>1, <3>2
    <3>5. TimerInv'
      <4>1. ASSUME NEW k \in DOMAIN Handler', k < now'.sec
            PROVE  handlerOf(Head(Handler[k]))' = Null
        BY <1>0, <1>a, <2>1, <3>2, <3>4, <4>1 DEF TimerInv, handlerOf
      <4> QED
        BY <1>0, <2>1, <4>1 DEF TimerInv
    <3>6. ASSUME NEW k \in DOMAIN Handler', handlerOf(Head(Handler[k]))' # Null
          PROVE  Len(Handler'[k]) <= Wakeups(k)' + (IF InHand(k)' THEN 1 ELSE 0)
      <4>1. Wakeups(k)' = Wakeups(k)
        BY <2>1 DEF Wakeups
      <4>2. CASE k = r
        <5>1. handlerOf(Head(q)) # Null
          BY <1>0, <2>4 DEF TimerInv, WalkInv
        <5>2. Len(q) <= Wakeups(k) + (IF InHand(k) THEN 1 ELSE 0)
          BY <1>0, <2>1, <3>2, <4>2, <5>1 DEF WakeupsCoverTasks
        <5>3. Len(Handler'[k]) = Len(q) - 1 /\ Len(q) \in Nat
          BY <1>a, <3>2, <3>3, <3>4, <4>2
        <5>4. Len(q) - 1 <= Wakeups(k)
          BY <1>a, <5>2, <5>3
        <5>5. Len(Handler'[k]) <= Wakeups(k)'
          BY <4>1, <5>3, <5>4
        <5> QED
          BY <1>a, <4>1, <5>5
      <4>3. CASE k # r
        <5>1. Len(Handler[k]) <= Wakeups(k) + (IF InHand(k) THEN 1 ELSE 0)
          BY <1>0, <2>1, <3>4, <3>6, <4>3 DEF WakeupsCoverTasks, handlerOf
        <5>2. ~InHand(k)
          BY <2>1, <4>3 DEF InHand
        <5> QED
          BY <1>a, <3>4, <4>1, <4>3, <5>1, <5>2
      <4> QED
        BY <4>2, <4>3
    <3>7. WakeupsCoverTasks'
      BY <3>6 DEF WakeupsCoverTasks
    <3> QED
      BY <3>5, <3>7
  <2> QED
    BY <2>2, <2>3, <2>4
<1>7. ASSUME LoopEnd
      PROVE  TimerInv' /\ WakeupsCoverTasks'
  <2>1. /\ UNCHANGED <<now, timers, Handler, tasks, running, todo>>
        /\ pc = "loop" /\ pc' = "idle" /\ todo = {}
    BY <1>7 DEF LoopEnd
  <2>2. TimerInv'
    BY <1>0, <2>1 DEF TimerInv, handlerOf
  <2>3. WakeupsCoverTasks'
    BY <1>0, <2>1 DEF WakeupsCoverTasks, Wakeups, InHand, handlerOf
  <2> QED
    BY <2>2, <2>3
<1>8. ASSUME Abort
      PROVE  TimerInv' /\ WakeupsCoverTasks'
  BY <1>0, <1>8 DEF Abort, TimerInv, WakeupsCoverTasks, handlerOf
<1>9. ASSUME NEW t \in Times, AdvanceTime(t)
      PROVE  TimerInv' /\ WakeupsCoverTasks'
  <2>1. /\ UNCHANGED <<Handler, timers, tasks, todo, running, pc>>
        /\ pc = "idle" /\ now' = t /\ Before(now, t) /\ running.task = 0
        /\ \A m \in timers : ~Before(m, t)
    BY <1>0, <1>9 DEF AdvanceTime, walk, WalkInv
  <2>2. now.sec <= t.sec /\ t.sec \in Nat
    BY <1>a, <2>1 DEF Before
  <2>3. ASSUME NEW k \in DOMAIN Handler, handlerOf(Head(Handler[k])) # Null
        PROVE  Len(Handler[k]) <= Wakeups(k) /\ t.sec <= k
    <3>1. ~InHand(k)
      BY <2>1 DEF InHand
    <3>2. Len(Handler[k]) <= Wakeups(k)
      BY <1>0, <1>a, <2>1, <2>3, <3>1 DEF WakeupsCoverTasks
    <3>3. {m \in timers : m.sec = k} # {}
      <4>1. Wakeups(k) # 0
        BY <1>a, <3>2
      <4> QED
        BY <4>1, FS_EmptySet DEF Wakeups
    <3>4. PICK m \in timers : m.sec = k
      BY <3>3
    <3> QED
      BY <1>a, <2>1, <2>2, <3>2, <3>4 DEF Before
  <2>4. TimerInv'
    <3>1. ASSUME NEW k \in DOMAIN Handler, k < t.sec
          PROVE  handlerOf(Head(Handler[k])) = Null
      BY <1>a, <2>2, <2>3, <3>1
    <3> QED
      BY <1>0, <2>1, <3>1 DEF TimerInv, handlerOf
  <2>5. WakeupsCoverTasks'
    <3>1. ASSUME NEW k \in DOMAIN Handler, handlerOf(Head(Handler[k])) # Null
          PROVE  Len(Handler[k]) <= Wakeups(k)' + (IF InHand(k)' THEN 1 ELSE 0)
      <4>1. Wakeups(k)' = Wakeups(k)
        BY <2>1 DEF Wakeups
      <4> QED
        BY <1>a, <2>3, <3>1, <4>1
    <3> QED
      BY <2>1, <3>1 DEF WakeupsCoverTasks, handlerOf
  <2> QED
    BY <2>4, <2>5
<1>10. ASSUME Tick
       PROVE  TimerInv' /\ WakeupsCoverTasks'
  <2>1. PICK sc \in 0 .. MaxTime, f \in Fractions :
           AdvanceTime([sec |-> sc, frac |-> f])
    BY <1>10 DEF Tick
  <2>2. [sec |-> sc, frac |-> f] \in Times
    BY TimeAssumption
  <2> QED
    BY <1>9, <2>1, <2>2
<1>11. ASSUME UNCHANGED vars
       PROVE  TimerInv' /\ WakeupsCoverTasks'
  BY <1>0, <1>11
     DEF vars, TimerInv, WakeupsCoverTasks, Wakeups, InHand, handlerOf
<1> QED
  BY <1>1, <1>2, <1>3, <1>4, <1>5, <1>6, <1>7, <1>8, <1>10, <1>11
     DEF Next, Step

-----------------------------------------------------------------------------
(* The inductive invariant holds initially.                                *)
LEMMA InitInv == Init => IInv
<1> SUFFICES ASSUME Init PROVE IInv
  OBVIOUS
<1>1. TypeOK /\ WalkInv
  BY InitTypeWalk
<1>2. DOMAIN Handler = {} /\ DOMAIN log = {} /\ timers = {} /\ running.task = 0
  BY DEF Init
<1>3. ListInv /\ NoOvertaking /\ FiredInItsSecond
  BY <1>2 DEF ListInv, NoOvertaking, FiredInItsSecond
<1>4. TimerInv /\ WakeupsCoverTasks
  BY <1>2, FS_EmptySet DEF TimerInv, WakeupsCoverTasks
<1> QED
  BY <1>1, <1>3, <1>4 DEF IInv

(* The inductive invariant, for every choice of the constants.             *)
THEOREM Invariance == Spec => []IInv
<1>1. IInv /\ [Next]_vars => IInv'
  <2> SUFFICES ASSUME IInv, [Next]_vars PROVE IInv'
    OBVIOUS
  <2>1. TypeOK' /\ WalkInv'
    BY NextTypeWalk DEF IInv
  <2>2. ListInv' /\ NoOvertaking' /\ FiredInItsSecond'
    BY NextLists
  <2>3. TimerInv' /\ WakeupsCoverTasks'
    BY NextTimers
  <2> QED
    BY <2>1, <2>2, <2>3 DEF IInv
<1> QED
  BY InitInv, <1>1, PTL DEF Spec

(* Tasks of one second are called in the order of their scheduleIn()       *)
(* calls, and at most once.                                                *)
THEOREM OrderOfCalls == Spec => []NoOvertaking
<1>1. IInv => NoOvertaking
  BY DEF IInv
<1> QED
  BY Invariance, <1>1, PTL

(* handleMessage() calls a task only during the second it was scheduled    *)
(* for, although its timeout messages are anonymous.                       *)
THEOREM SecondOfCalls == Spec => []FiredInItsSecond
<1>1. IInv => FiredInItsSecond
  BY DEF IInv
<1> QED
  BY Invariance, <1>1, PTL

(* There is a timeout message left for every task that waits for a call,   *)
(* unless a null handler blocks its list.                                  *)
THEOREM Coverage == Spec => []WakeupsCoverTasks
<1>1. IInv => WakeupsCoverTasks
  BY DEF IInv
<1> QED
  BY Invariance, <1>1, PTL

-----------------------------------------------------------------------------
(* Filing a task loses none, and what the callback of the only task of a   *)
(* second files for that second is marked as such.                         *)
LEMMA ScheduleLoses ==
    ASSUME TypeOK, WalkInv, ListInv, LossInv,
           NEW d \in Nat, NEW h \in Handlers \cup {Null}, Schedule(d, h),
           log' = log, running' = running
    PROVE  LossInv'
<1> DEFINE key == now.sec + d
           n == Len(tasks) + 1
<1>1. /\ Len(tasks) \in Nat
      /\ DOMAIN tasks = 1 .. Len(tasks)
      /\ DOMAIN tasks' = 1 .. n
      /\ \A j \in DOMAIN tasks : tasks'[j] = tasks[j]
      /\ tasks'[n].from = Context(key)
  BY ScheduleTasks
<1>2. n \in TaskId
  BY <1>1 DEF TaskId
<1>3. /\ DOMAIN Handler' = DOMAIN Handler \cup {key}
      /\ \A k \in DOMAIN Handler : k # key => Handler'[k] = Handler[k]
      /\ key \in DOMAIN Handler => Handler'[key] = Append(Handler[key], n)
      /\ key \notin DOMAIN Handler => Handler'[key] = <<n>>
  BY ScheduleMap
<1> HIDE DEF n, key
<1>4. ASSUME NEW k \in DOMAIN Handler
      PROVE  /\ DOMAIN Handler[k] \subseteq DOMAIN Handler'[k]
             /\ \A j \in DOMAIN Handler[k] : Handler'[k][j] = Handler[k][j]
             /\ k # key => Handler'[k] = Handler[k]
             /\ k = key => \A j \in DOMAIN Handler'[k] :
                   j \in DOMAIN Handler[k] \/ Handler'[k][j] = n
  <2>1. Handler[k] \in Seq(TaskId) /\ Handler[k] # << >>
    BY DEF TypeOK
  <2>2. CASE k = key
    <3> DEFINE q == Handler[k]
    <3>1. q \in Seq(TaskId) /\ q # << >> /\ Handler'[k] = Append(q, n)
      BY <1>3, <2>1, <2>2
    <3> HIDE DEF q
    <3>2. /\ Len(q) \in Nat
          /\ DOMAIN q = 1 .. Len(q)
          /\ DOMAIN Append(q, n) = 1 .. Len(q) + 1
          /\ \A j \in 1 .. Len(q) : Append(q, n)[j] = q[j]
          /\ Append(q, n)[Len(q) + 1] = n
      BY <1>2, <3>1, AppendTask
    <3>3. \A j \in 1 .. Len(q) + 1 : j \in 1 .. Len(q) \/ j = Len(q) + 1
      BY <3>2
    <3> QED
      BY <2>2, <3>1, <3>2, <3>3 DEF q
  <2>3. CASE k # key
    BY <1>3, <2>3
  <2> QED
    BY <2>2, <2>3
<1>5. \E k \in DOMAIN Handler' : \E j \in DOMAIN Handler'[k] : Handler'[k][j] = n
  <2>1. CASE key \in DOMAIN Handler
    <3>1. Handler[key] \in Seq(TaskId) /\ Handler[key] # << >>
      BY <2>1 DEF TypeOK
    <3>2. /\ Len(Handler[key]) \in Nat
          /\ DOMAIN Handler'[key] = 1 .. Len(Handler[key]) + 1
          /\ Handler'[key][Len(Handler[key]) + 1] = n
      BY <1>2, <1>3, <2>1, <3>1, AppendTask
    <3>3. Len(Handler[key]) + 1 \in DOMAIN Handler'[key]
      BY <3>2
    <3> QED
      BY <1>3, <3>2, <3>3
  <2>2. CASE key \notin DOMAIN Handler
    <3>1. 1 \in DOMAIN <<n>> /\ <<n>>[1] = n
      OBVIOUS
    <3> QED
      BY <1>3, <2>2, <3>1
  <2> QED
    BY <2>1, <2>2
<1>6. ASSUME NEW i, Pending(i) PROVE Pending(i)'
  <2>1. PICK k \in DOMAIN Handler : \E j \in DOMAIN Handler[k] : Handler[k][j] = i
    BY <1>6 DEF Pending
  <2> QED
    BY <1>3, <1>4, <2>1 DEF Pending
<1>7. \A i : Fired(i)' <=> Fired(i)
  BY DEF Fired
<1>8. LossOnlyByReentry'
  <2> SUFFICES ASSUME NEW i \in DOMAIN tasks'
               PROVE  Pending(i)' \/ Fired(i)' \/ tasks'[i].from = "sole"
    BY DEF LossOnlyByReentry
  <2>1. i \in DOMAIN tasks \/ i = n
    BY <1>1 DEF n
  <2>2. CASE i \in DOMAIN tasks
    <3>1. Pending(i) \/ Fired(i) \/ tasks[i].from = "sole"
      BY <2>2 DEF LossInv, LossOnlyByReentry
    <3> QED
      BY <1>1, <1>6, <1>7, <2>2, <3>1
  <2>3. CASE i = n
    BY <1>5, <2>3 DEF Pending
  <2> QED
    BY <2>1, <2>2, <2>3
<1>9. ASSUME running.task # 0, running.size = 1,
             NEW j \in DOMAIN Handler'[running.key], j > 1
      PROVE  tasks'[Handler'[running.key][j]].from = "sole"
  <2> DEFINE r == running.key
  <2>1. r \in DOMAIN Handler
    BY <1>9 DEF WalkInv
  <2>2. CASE j \in DOMAIN Handler[r]
    <3>1. Handler[r][j] \in DOMAIN tasks /\ tasks[Handler[r][j]].from = "sole"
      BY <1>9, <2>1, <2>2 DEF LossInv, ListInv
    <3> QED
      BY <1>1, <1>4, <2>1, <2>2, <3>1
  <2>3. CASE j \notin DOMAIN Handler[r]
    <3>1. r = key /\ Handler'[r][j] = n
      BY <1>4, <1>9, <2>1, <2>3
    <3>2. pc = "callback"
      BY <1>9 DEF WalkInv
    <3>3. Context(key) = "sole"
      BY <1>9, <3>1, <3>2 DEF Context
    <3> QED
      BY <1>1, <3>1, <3>3
  <2> QED
    BY <2>2, <2>3
<1>10. running'.task # 0 => Fired(running.task)'
  BY <1>7 DEF LossInv
<1> QED
  BY <1>8, <1>9, <1>10 DEF LossInv

(* A step that touches neither the map nor the histories loses nothing.    *)
LEMMA StutterLoses ==
    ASSUME LossInv, UNCHANGED <<Handler, tasks, log, running>>
    PROVE  LossInv'
BY DEF LossInv, LossOnlyByReentry, Pending, Fired

(* The callback's return takes only the called task and what that callback *)
(* itself filed for its own second off the map.                            *)
LEMMA ReturnLoses == IInv /\ LossInv /\ Return => LossInv'
<1> SUFFICES ASSUME IInv, LossInv, Return PROVE LossInv'
  OBVIOUS
<1>0. TypeOK /\ WalkInv /\ ListInv
  BY DEF IInv
<1>1. tasks' = tasks /\ log' = log /\ running'.task = 0
  BY DEF Return
<1>2. \A i : Fired(i)' <=> Fired(i)
  BY <1>1 DEF Fired
<1>3. SUFFICES ASSUME NEW i \in DOMAIN tasks, ~Fired(i), tasks[i].from # "sole"
               PROVE  Pending(i)'
  BY <1>1, <1>2 DEF LossInv, LossOnlyByReentry
<1>4a. PICK k \in DOMAIN Handler : \E j \in DOMAIN Handler[k] : Handler[k][j] = i
  BY <1>3 DEF LossInv, LossOnlyByReentry, Pending
<1>4. PICK j \in DOMAIN Handler[k] : Handler[k][j] = i
  BY <1>4a
<1>5. CASE running.task = 0
  <2>1. Handler' = Handler
    BY <1>5 DEF Return
  <2> QED
    BY <1>4, <2>1 DEF Pending
<1>6. CASE running.task # 0
  <2> DEFINE r == running.key
             q == Handler[r]
  <2>1. /\ r \in DOMAIN Handler /\ q \in Seq(TaskId) /\ q # << >>
        /\ running.task = Head(q)
        /\ running.size \in Nat \ {0} /\ running.size <= Len(q)
    BY <1>0, <1>6 DEF WalkInv, TypeOK
  <2>2. /\ Len(q) \in Nat /\ DOMAIN q = 1 .. Len(q) /\ Head(q) = q[1]
    BY <2>1
  <2>3. Fired(q[1])
    BY <1>6, <2>1, <2>2 DEF LossInv
  <2>4. CASE k # r
    <3>1. k \in DOMAIN Handler' /\ Handler'[k] = Handler[k]
      BY <1>4, <1>6, <2>1, <2>4 DEF Return
    <3> QED
      BY <1>4, <3>1 DEF Pending
  <2>5. CASE k = r /\ running.size = 1
    <3>1. j = 1
      BY <1>3, <1>4, <1>6, <2>2, <2>5 DEF LossInv
    <3> QED
      BY <1>3, <1>4, <2>3, <2>5, <3>1
  <2>6. CASE k = r /\ running.size # 1
    <3>1. Handler' = [Handler EXCEPT ![r] = Tail(q)]
      BY <1>6, <2>6 DEF Return
    <3>2. Len(q) > 1
      BY <2>1, <2>2, <2>6
    <3>3. /\ Tail(q) \in Seq(TaskId)
          /\ Len(Tail(q)) = Len(q) - 1
          /\ \A x \in 1 .. Len(q) - 1 : Tail(q)[x] = q[x + 1]
      BY <2>1, <3>2, TailOfLonger
    <3>4. j # 1 /\ q[j] = i
      BY <1>3, <1>4, <2>3, <2>6
    <3> HIDE DEF q, r
    <3>5. j - 1 \in 1 .. Len(q) - 1 /\ (j - 1) + 1 = j
      BY <1>4, <2>2, <2>6, <3>4 DEF q, r
    <3>6. DOMAIN Tail(q) = 1 .. Len(q) - 1
      BY <3>3
    <3>7. j - 1 \in DOMAIN Tail(q) /\ Tail(q)[j - 1] = i
      BY <3>3, <3>4, <3>5, <3>6
    <3>8. r \in DOMAIN Handler' /\ Handler'[r] = Tail(q)
      BY <2>1, <3>1
    <3> QED
      BY <3>7, <3>8 DEF Pending
  <2> QED
    BY <2>4, <2>5, <2>6
<1> QED
  BY <1>5, <1>6

(* What the walk calls is logged.                                          *)
LEMMA FireLoses ==
    ASSUME IInv, LossInv, NEW k \in todo, Fire(k)
    PROVE  LossInv'
<1> DEFINE i == Head(Handler[k])
           e == [task |-> i, sec |-> now.sec, frac |-> now.frac]
<1>1. /\ k \in DOMAIN Handler
      /\ Handler[k] \in Seq(TaskId) /\ Handler[k] # << >>
      /\ log \in Seq([task : Nat, sec : Nat, frac : Fractions])
  BY DEF IInv, WalkInv, TypeOK
<1>2. /\ log' = Append(log, e) /\ e.task = i
      /\ tasks' = tasks /\ Handler' = Handler
      /\ running'.task = i /\ running'.key = k
      /\ running'.size = Len(Handler[k])
  BY DEF Fire
<1> HIDE DEF i, e
<1>3. /\ Len(log) \in Nat
      /\ DOMAIN log = 1 .. Len(log)
      /\ DOMAIN log' = 1 .. Len(log) + 1
      /\ \A l \in DOMAIN log : log'[l] = log[l]
      /\ log'[Len(log) + 1] = e
  BY <1>1, <1>2
<1>4. \A x : Fired(x) => Fired(x)'
  BY <1>3 DEF Fired
<1>5. \E l \in DOMAIN log' : log'[l].task = i
  <2>1. Len(log) + 1 \in DOMAIN log'
    BY <1>3
  <2> QED
    BY <1>2, <1>3, <2>1
<1>6. LossOnlyByReentry'
  BY <1>2, <1>4 DEF LossInv, LossOnlyByReentry, Pending
<1>7. DOMAIN Handler[k] = 1 .. Len(Handler[k])
  BY <1>1
<1>8. running'.size = 1 => \A j \in DOMAIN Handler'[running'.key] : ~(j > 1)
  BY <1>2, <1>7
<1> QED
  BY <1>2, <1>5, <1>6, <1>8 DEF LossInv, Fired

(* A task leaves the map without a call only if the callback of the only   *)
(* task of its second filed it: Handler.remove(key) in handleMessage() then*)
(* drops the whole list, whatever was added during eventOccurred().        *)
THEOREM Losses == Spec => []LossOnlyByReentry
<1>1. Init => LossInv
  BY DEF Init, NoTask, LossInv, LossOnlyByReentry
<1>2. IInv /\ LossInv /\ [Next]_vars => LossInv'
  <2> SUFFICES ASSUME IInv, LossInv, [Next]_vars PROVE LossInv'
    OBVIOUS
  <2>0. TypeOK /\ WalkInv /\ ListInv
    BY DEF IInv
  <2>1. ASSUME NEW d \in Delays, NEW h \in HandlerArgs, scheduleIn(d, h)
        PROVE  LossInv'
    <3>1. /\ d \in Nat /\ h \in Handlers \cup {Null} /\ Schedule(d, h)
          /\ log' = log /\ running' = running
      BY <2>1, TimeAssumption, HandlerAssumption DEF scheduleIn
    <3> QED
      BY <2>0, <3>1, ScheduleLoses
  <2>2. ASSUME NEW h \in Handlers, handleStartMessage(h)
        PROVE  LossInv'
    <3>1. /\ StartDelay \in Nat /\ Schedule(StartDelay, h)
          /\ log' = log /\ running' = running
      BY <2>0, <2>2, TimeAssumption DEF handleStartMessage, WalkInv
    <3> QED
      BY <2>0, <3>1, ScheduleLoses
  <2>3. ASSUME NEW k \in todo, Fire(k) PROVE LossInv'
    BY <2>3, FireLoses
  <2>4. ASSUME Return PROVE LossInv'
    BY <2>4, ReturnLoses
  <2>5. ASSUME NEW m \in timers, handleTimeout(m) PROVE LossInv'
    BY <2>5, StutterLoses DEF handleTimeout
  <2>6. ASSUME NEW k \in todo, Skip(k) PROVE LossInv'
    BY <2>6, StutterLoses DEF Skip
  <2>7. LoopEnd \/ Abort \/ Tick \/ UNCHANGED vars => LossInv'
    BY StutterLoses DEF LoopEnd, Abort, Tick, AdvanceTime, walk, vars
  <2> QED
    BY <2>1, <2>2, <2>3, <2>4, <2>5, <2>6, <2>7 DEF Next, Step
<1>3. LossInv => LossOnlyByReentry
  BY DEF LossInv
<1> QED
  BY Invariance, <1>1, <1>2, <1>3, PTL DEF Spec

-----------------------------------------------------------------------------
(* The event queue's view of the scheduler.                                *)
Keys(q) == [i \in DOMAIN q |-> q[i].key]
Calls(q) == [l \in DOMAIN q |-> q[l].task]

LogEntry == [task : Nat, sec : Nat, frac : Fractions]

(* The keys of a sequence of tasks.                                        *)
LEMMA KeySequence ==
    ASSUME NEW q \in Seq(Task)
    PROVE  /\ Keys(q) \in Seq(Nat) /\ Len(Keys(q)) = Len(q)
           /\ DOMAIN Keys(q) = DOMAIN q
           /\ \A i \in DOMAIN q : Keys(q)[i] = q[i].key
<1>1. Len(q) \in Nat /\ DOMAIN q = 1 .. Len(q) /\ \A i \in DOMAIN q : q[i] \in Task
  BY LenProperties
<1>2. \A i \in DOMAIN q : q[i].key \in Nat
  BY <1>1
<1>3. Keys(q) = [i \in 1 .. Len(q) |-> q[i].key]
  BY <1>1 DEF Keys
<1>4. Keys(q) \in [1 .. Len(q) -> Nat]
  BY <1>1, <1>2, <1>3
<1>5. Keys(q) \in Seq(Nat)
  BY <1>1, <1>4, SeqDef
<1>6. Len(Keys(q)) = Len(q)
  BY <1>1, <1>3, <1>5, LenProperties
<1> QED
  BY <1>1, <1>3, <1>5, <1>6

(* The tasks of a sequence of calls.                                       *)
LEMMA CallSequence ==
    ASSUME NEW q \in Seq(LogEntry)
    PROVE  /\ Calls(q) \in Seq(Nat) /\ Len(Calls(q)) = Len(q)
           /\ DOMAIN Calls(q) = DOMAIN q
           /\ \A l \in DOMAIN q : Calls(q)[l] = q[l].task
<1>1. Len(q) \in Nat /\ DOMAIN q = 1 .. Len(q) /\ \A i \in DOMAIN q : q[i] \in LogEntry
  BY LenProperties
<1>2. \A i \in DOMAIN q : q[i].task \in Nat
  BY <1>1 DEF LogEntry
<1>3. Calls(q) = [i \in 1 .. Len(q) |-> q[i].task]
  BY <1>1 DEF Calls
<1>4. Calls(q) \in [1 .. Len(q) -> Nat]
  BY <1>1, <1>2, <1>3
<1>5. Calls(q) \in Seq(Nat)
  BY <1>1, <1>4, SeqDef
<1>6. Len(Calls(q)) = Len(q)
  BY <1>1, <1>3, <1>5, LenProperties
<1> QED
  BY <1>1, <1>3, <1>5, <1>6

(* A sequence with one more element at its end.                            *)
LEMMA OneMore ==
    ASSUME NEW S, NEW f \in Seq(S), NEW g \in Seq(S), NEW x \in S,
           Len(g) = Len(f) + 1,
           \A i \in 1 .. Len(f) : g[i] = f[i],
           g[Len(f) + 1] = x
    PROVE  g = Append(f, x)
<1>1. /\ Append(f, x) \in Seq(S)
      /\ Len(Append(f, x)) = Len(f) + 1
      /\ Len(f) \in Nat
      /\ \A i \in 1 .. Len(f) : Append(f, x)[i] = f[i]
      /\ Append(f, x)[Len(f) + 1] = x
  OBVIOUS
<1>2. \A i \in 1 .. Len(f) + 1 : i \in 1 .. Len(f) \/ i = Len(f) + 1
  BY <1>1
<1>3. \A i \in 1 .. Len(g) : g[i] = Append(f, x)[i]
  BY <1>1, <1>2
<1> QED
  BY <1>1, <1>3, SeqEqual

(* The histories are sequences before and after a step that keeps types.   *)
LEMMA HistoryTypes ==
    ASSUME TypeOK, TypeOK'
    PROVE  /\ tasks \in Seq(Task) /\ tasks' \in Seq(Task)
           /\ log \in Seq(LogEntry) /\ log' \in Seq(LogEntry)
BY DEF TypeOK, LogEntry

(* Filing a task is a submission to the event queue.                       *)
LEMMA ScheduleSubmits ==
    ASSUME TypeOK, TypeOK', NEW d \in Nat, NEW h \in Handlers \cup {Null},
           Schedule(d, h), now' = now, log' = log
    PROVE  \E due \in 0 .. MaxTime : EQ!Submit(due)
<1> DEFINE due == now.sec + d
<1>V. /\ Keys(tasks) \in Seq(Nat) /\ Len(Keys(tasks)) = Len(tasks)
      /\ \A j \in DOMAIN tasks : Keys(tasks)[j] = tasks[j].key
      /\ Keys(tasks') \in Seq(Nat) /\ Len(Keys(tasks')) = Len(tasks')
      /\ \A j \in DOMAIN tasks' : Keys(tasks')[j] = tasks'[j].key
  BY HistoryTypes, KeySequence
<1>1. now.sec \in Nat /\ due \in 0 .. MaxTime /\ due >= now.sec /\ due \in Nat
  BY TimeAssumption DEF Schedule, TypeOK
<1>2. /\ Len(tasks') = Len(tasks) + 1
      /\ DOMAIN tasks = 1 .. Len(tasks) /\ DOMAIN tasks' = 1 .. Len(tasks) + 1
      /\ Len(tasks) \in Nat
      /\ \A j \in DOMAIN tasks : tasks'[j] = tasks[j]
      /\ tasks'[Len(tasks) + 1].key = due
  BY ScheduleTasks
<1> HIDE DEF due
<1>3. /\ Keys(tasks) \in Seq(Nat) /\ Len(Keys(tasks)) = Len(tasks)
      /\ \A j \in DOMAIN tasks : Keys(tasks)[j] = tasks[j].key
  BY <1>V
<1>4. /\ Keys(tasks') \in Seq(Nat) /\ Len(Keys(tasks')) = Len(tasks')
      /\ \A j \in DOMAIN tasks' : Keys(tasks')[j] = tasks'[j].key
  BY <1>V
<1>5. Keys(tasks') = Append(Keys(tasks), due)
  <2>1. \A j \in 1 .. Len(Keys(tasks)) : Keys(tasks')[j] = Keys(tasks)[j]
    <3>1. \A j \in 1 .. Len(Keys(tasks)) : j \in DOMAIN tasks /\ j \in DOMAIN tasks'
      BY <1>2, <1>3
    <3> QED
      BY <1>2, <1>3, <1>4, <3>1
  <2>2. Keys(tasks')[Len(Keys(tasks)) + 1] = due
    BY <1>2, <1>3, <1>4
  <2> QED
    BY <1>1, <1>2, <1>3, <1>4, <2>1, <2>2, OneMore
<1>6. EQ!Submit(due)
  BY <1>1, <1>5 DEF EQ!Submit, Keys, Calls
<1> QED
  BY <1>1, <1>6 DEF EQ!Submit

(* A call from the walk is the execution of a task whose turn it is.       *)
LEMMA FireExecutes ==
    ASSUME IInv, TypeOK', NEW k \in todo, Fire(k)
    PROVE  \E i \in DOMAIN tasks : EQ!Execute(i)
<1> DEFINE i == Head(Handler[k])
           e == [task |-> i, sec |-> now.sec, frac |-> now.frac]
<1>0. TypeOK /\ WalkInv /\ ListInv /\ TimerInv
  BY DEF IInv
<1>1. /\ k \in DOMAIN Handler /\ k \in Nat
      /\ Handler[k] \in Seq(TaskId) /\ Handler[k] # << >>
  BY <1>0 DEF WalkInv, TypeOK
<1>V. /\ Calls(log) \in Seq(Nat) /\ Len(Calls(log)) = Len(log)
      /\ DOMAIN Calls(log) = DOMAIN log
      /\ \A l \in DOMAIN log : Calls(log)[l] = log[l].task
      /\ DOMAIN Keys(tasks) = DOMAIN tasks
      /\ \A j \in DOMAIN tasks : Keys(tasks)[j] = tasks[j].key
      /\ Calls(log') \in Seq(Nat) /\ Len(Calls(log')) = Len(log')
      /\ \A l \in DOMAIN log' : Calls(log')[l] = log'[l].task
  BY <1>0, HistoryTypes, KeySequence, CallSequence
<1>2. i = Handler[k][1] /\ 1 \in DOMAIN Handler[k]
  BY <1>1
<1>3. i \in DOMAIN tasks /\ tasks[i].key = k /\ i \in Nat
  <2>1. i \in DOMAIN tasks /\ tasks[i].key = k
    BY <1>0, <1>1, <1>2 DEF ListInv
  <2>2. i \in TaskId
    BY <1>1
  <2> QED
    BY <2>1, <2>2 DEF TaskId
<1>4. k = now.sec
  <2>1. k <= now.sec /\ handlerOf(Head(Handler[k])) # Null /\ now.sec \in Nat
    BY <1>0 DEF Fire, Due, TypeOK
  <2>2. k < now.sec => handlerOf(Head(Handler[k])) = Null
    BY <1>0, <1>1 DEF TimerInv
  <2> QED
    BY <1>1, <2>1, <2>2
<1>5. /\ log' = Append(log, e) /\ e.task = i
      /\ log \in Seq([task : Nat, sec : Nat, frac : Fractions])
      /\ tasks' = tasks /\ now' = now
      /\ pc # "callback"
  BY <1>0 DEF Fire, TypeOK
<1>6. ASSUME NEW l \in DOMAIN log, tasks[log[l].task].key = now.sec
      PROVE  log[l].task < i
  <2>1. log[l].task \in DOMAIN tasks /\ tasks \in Seq(Task)
    BY <1>0 DEF ListInv, TypeOK
  <2>2. log[l].task # 0
    BY <2>1
  <2>3. running.task = 0
    BY <1>0, <1>5 DEF WalkInv
  <2> QED
    BY <1>0, <1>1, <1>4, <1>6, <2>2, <2>3 DEF ListInv
<1> HIDE DEF i, e
<1>7. /\ Len(log) \in Nat /\ DOMAIN log = 1 .. Len(log)
      /\ Len(log') = Len(log) + 1
      /\ DOMAIN log' = 1 .. Len(log) + 1
      /\ \A l \in DOMAIN log : log'[l] = log[l]
      /\ log'[Len(log) + 1] = e
  BY <1>5
<1>8. /\ Calls(log) \in Seq(Nat) /\ Len(Calls(log)) = Len(log)
      /\ DOMAIN Calls(log) = DOMAIN log
      /\ \A l \in DOMAIN log : Calls(log)[l] = log[l].task
      /\ DOMAIN Keys(tasks) = DOMAIN tasks
      /\ \A j \in DOMAIN tasks : Keys(tasks)[j] = tasks[j].key
  BY <1>V
<1>9. /\ Calls(log') \in Seq(Nat) /\ Len(Calls(log')) = Len(log')
      /\ \A l \in DOMAIN log' : Calls(log')[l] = log'[l].task
  BY <1>V
<1>10. Calls(log') = Append(Calls(log), i)
  <2>1. \A j \in 1 .. Len(Calls(log)) : Calls(log')[j] = Calls(log)[j]
    <3>1. \A j \in 1 .. Len(Calls(log)) : j \in DOMAIN log /\ j \in DOMAIN log'
      BY <1>7, <1>8
    <3> QED
      BY <1>7, <1>8, <1>9, <3>1
  <2>2. Calls(log')[Len(Calls(log)) + 1] = i
    BY <1>5, <1>7, <1>8, <1>9
  <2> QED
    BY <1>3, <1>7, <1>8, <1>9, <2>1, <2>2, OneMore
<1>11. \A l \in DOMAIN Calls(log) : Keys(tasks)[Calls(log)[l]] = now.sec => Calls(log)[l] < i
  <2> SUFFICES ASSUME NEW l \in DOMAIN log, Keys(tasks)[log[l].task] = now.sec
               PROVE  log[l].task < i
    BY <1>8
  <2>1. log[l].task \in DOMAIN tasks
    BY <1>0 DEF ListInv
  <2> QED
    BY <1>6, <1>8, <2>1
<1>12. Keys(tasks') = Keys(tasks)
  BY <1>5
<1>13. i \in DOMAIN Keys(tasks) /\ Keys(tasks)[i] = now.sec
  BY <1>3, <1>4, <1>8
<1>14. EQ!Execute(i)
  BY <1>5, <1>10, <1>11, <1>12, <1>13 DEF EQ!Execute, Keys, Calls
<1> QED
  BY <1>3, <1>14 DEF EQ!Execute

(* The scheduler implements the event queue: scheduleIn() submits, a call  *)
(* of eventOccurred() from the walk executes the task whose turn it is, the*)
(* kernel's clock advances, and every other step is invisible.             *)
THEOREM Refinement == Spec => ImplementsEventQueue
<1>1. Init => EQ!Init
  <2> SUFFICES ASSUME Init PROVE EQ!Init
    OBVIOUS
  <2>1. now.sec = 0 /\ tasks = << >> /\ log = << >>
    BY DEF Init
  <2>2. TypeOK
    BY InitTypeWalk
  <2>3. /\ Keys(tasks) \in Seq(Nat) /\ Len(Keys(tasks)) = 0
        /\ Calls(log) \in Seq(Nat) /\ Len(Calls(log)) = 0
    BY <2>1, <2>2, KeySequence, CallSequence DEF TypeOK, LogEntry
  <2>4. Keys(tasks) = << >> /\ Calls(log) = << >>
    BY <2>3, EmptySeq
  <2> QED
    BY <2>1, <2>4 DEF EQ!Init, Keys, Calls
<1>2. IInv /\ IInv' /\ [Next]_vars => [EQ!Next]_(EQ!qvars)
  <2> SUFFICES ASSUME IInv, IInv', [Next]_vars
               PROVE  EQ!Next \/ UNCHANGED EQ!qvars
    OBVIOUS
  <2>0. TypeOK /\ WalkInv /\ TypeOK'
    BY DEF IInv
  <2>1. ASSUME NEW d \in Delays, NEW h \in HandlerArgs, scheduleIn(d, h)
        PROVE  EQ!Next
    <3>1. /\ d \in Nat /\ h \in Handlers \cup {Null} /\ Schedule(d, h)
          /\ log' = log /\ now' = now
      BY <2>1, TimeAssumption, HandlerAssumption DEF scheduleIn
    <3> QED
      BY <2>0, <3>1, ScheduleSubmits DEF EQ!Next
  <2>2. ASSUME NEW h \in Handlers, handleStartMessage(h)
        PROVE  EQ!Next
    <3>1. /\ StartDelay \in Nat /\ Schedule(StartDelay, h)
          /\ log' = log /\ now' = now
      BY <2>2, TimeAssumption DEF handleStartMessage
    <3> QED
      BY <2>0, <3>1, ScheduleSubmits DEF EQ!Next
  <2>3. ASSUME NEW k \in todo, Fire(k) PROVE EQ!Next
    <3>1. PICK i \in DOMAIN tasks : EQ!Execute(i)
      BY <2>0, <2>3, FireExecutes
    <3> QED
      BY <3>1 DEF EQ!Next
  <2>4. ASSUME Tick PROVE EQ!Next \/ UNCHANGED EQ!qvars
    <3>1. PICK sc \in 0 .. MaxTime, f \in Fractions :
             AdvanceTime([sec |-> sc, frac |-> f])
      BY <2>4 DEF Tick
    <3>2. /\ now'.sec = sc /\ tasks' = tasks /\ log' = log
          /\ now.sec < sc \/ now.sec = sc
      BY <3>1 DEF AdvanceTime, Before
    <3>3. now.sec \in Nat
      BY <2>0 DEF TypeOK
    <3>4. CASE now.sec < sc
      <4>1. EQ!Advance(sc)
        BY <3>2, <3>3, <3>4 DEF EQ!Advance
      <4> QED
        BY <4>1 DEF EQ!Next
    <3>5. CASE now.sec = sc
      BY <3>2, <3>5 DEF EQ!qvars
    <3> QED
      BY <3>2, <3>4, <3>5
  <2>5. ASSUME now' = now, tasks' = tasks, log' = log
        PROVE  UNCHANGED EQ!qvars
    BY <2>5 DEF EQ!qvars
  <2>6. ASSUME NEW m \in timers, handleTimeout(m) PROVE UNCHANGED EQ!qvars
    BY <2>5, <2>6 DEF handleTimeout
  <2>7. ASSUME NEW k \in todo, Skip(k) PROVE UNCHANGED EQ!qvars
    BY <2>5, <2>7 DEF Skip
  <2>8. Return \/ LoopEnd \/ Abort \/ UNCHANGED vars => UNCHANGED EQ!qvars
    BY <2>5 DEF Return, LoopEnd, Abort, vars
  <2> QED
    BY <2>1, <2>2, <2>3, <2>4, <2>6, <2>7, <2>8 DEF Next, Step
<1> QED
  BY Invariance, <1>1, <1>2, PTL DEF Spec, ImplementsEventQueue, EQ!Spec
=============================================================================

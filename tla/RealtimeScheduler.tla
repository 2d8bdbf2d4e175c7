------------------------- MODULE RealtimeScheduler -------------------------
(***************************************************************************)
(* The realtime scheduler: an OMNeT++ simple module that keeps the tasks   *)
(* other Java components hand to scheduleIn() in a hash map from the due   *)
(* second to the list of tasks of that second, and asks the simulation     *)
(* kernel for one bare "timeout" self-message per task.  A self-message    *)
(* does not say which task it is for: handleMessage() walks over the whole *)
(* map and runs the first task of every second that has come.              *)
(*                                                                         *)
(* The simulation is single-threaded, but a task's eventOccurred() runs in *)
(* the middle of the walk and may call scheduleIn() itself.  The walk is   *)
(* therefore one action per map entry, with the callback as a state of its *)
(* own (pc = "callback").                                                  *)
(*                                                                         *)
(* Simulation time is a pair: whole seconds and the rest.  The code's      *)
(* (long)(simTime().raw() / 10^scale) is the projection on the seconds.    *)
(***************************************************************************)
EXTENDS Integers, Sequences, FiniteSets

CONSTANTS
    Handlers,       \* the EventHandler objects
    Null,           \* Java's null
    HandlerArgs,    \* what callers pass as handler: Handlers, perhaps also Null
    Delays,         \* the delays callers pass
    Fractions,      \* the sub-second parts of simulation time
    StartDelay,     \* the literal 1000 of handleMessage()
    MaxTasks,       \* bound: calls of scheduleIn()
    MaxNested,      \* bound: calls made from inside a callback
    MaxTime         \* bound: the last second of the simulation

ASSUME HandlerAssumption ==
    /\ Null \notin Handlers
    /\ HandlerArgs \subseteq Handlers \cup {Null}

ASSUME TimeAssumption ==
    /\ Delays \subseteq Nat
    /\ Fractions \subseteq Nat
    /\ 0 \in Fractions
    /\ MaxTime \in Nat
    /\ StartDelay \in 0..MaxTime

ASSUME BoundAssumption == MaxTasks \in Nat /\ MaxNested \in Nat

VARIABLES
    now,        \* simTime()
    Handler,    \* HashMap<Long, ArrayList<SchedulerTask>>
    timers,     \* the self-messages in the kernel's future event set
    startMsg,   \* the message Start.initialize() sent is still under way
    pc,         \* where the simulation thread is
    todo,       \* entries the map iterator has not returned yet
    modified,   \* the map's modCount has moved since the iterator was made
    running,    \* the task whose eventOccurred() is on the stack, with the
                \* size of its list when it was called
    tasks,      \* history: every SchedulerTask created, in order
    log         \* history: every eventOccurred() call made for a task

vars == <<now, Handler, timers, startMsg, pc, todo, modified, running,
          tasks, log>>

walk == <<todo, modified, running>>

Times == [sec : Nat, frac : Fractions]

(* Ordering of simulation times. *)
Before(s, t) == s.sec < t.sec \/ (s.sec = t.sec /\ s.frac < t.frac)

NoTask == [task |-> 0, key |-> 0, size |-> 0]

handlerOf(i) == tasks[i].handler

(* The context a call of scheduleIn() for second key is made from: another *)
(* module, a callback, or the callback of the only task of that very       *)
(* second.                                                                 *)
Context(key) ==
    IF pc # "callback" THEN "module"
    ELSE IF running.task # 0 /\ running.size = 1 /\ running.key = key
         THEN "sole" ELSE "callback"

NestedCalls == Cardinality({i \in DOMAIN tasks : tasks[i].from # "module"})

-----------------------------------------------------------------------------
(* initialize() of RealtimeScheduler (an empty map) and then of Start,     *)
(* which sends its TimeoutMsg over the zero-delay connection of Net1.      *)
Init ==
    /\ now = [sec |-> 0, frac |-> 0]
    /\ Handler = [k \in {} |-> << >>]
    /\ timers = {}
    /\ startMsg = TRUE
    /\ pc = "idle"
    /\ todo = {} /\ modified = FALSE /\ running = NoTask
    /\ tasks = << >>
    /\ log = << >>

(* Mutants of AddTask: always put(), and add(0, task).                     *)
AddTask_Put(key, i) ==
    [k \in DOMAIN Handler \cup {key} |-> IF k = key THEN <<i>> ELSE Handler[k]]

AddTask_AtFront(key, i) ==
    [k \in DOMAIN Handler \cup {key} |->
        IF k # key THEN Handler[k]
        ELSE <<i>> \o (IF key \in DOMAIN Handler THEN Handler[key] ELSE << >>)]

(* Handler.get(key).add(task), or Handler.put(key, <one-element list>).    *)
AddTask(key, i) ==
    IF key \in DOMAIN Handler
    THEN [Handler EXCEPT ![key] = Append(@, i)]
    ELSE [k \in DOMAIN Handler \cup {key} |->
             IF k = key THEN <<i>> ELSE Handler[k]]

(* Mutant of Schedule: the timeout message belongs to the put() branch.    *)
Schedule_OneTimer(delay, h) ==
    LET key == now.sec + delay
        i   == Len(tasks) + 1
    IN  /\ i <= MaxTasks
        /\ key <= MaxTime
        /\ tasks' = Append(tasks, [key |-> key, frac |-> now.frac,
                                   delay |-> delay, handler |-> h,
                                   from |-> Context(key)])
        /\ Handler' = AddTask(key, i)
        /\ modified' = (modified \/ key \notin DOMAIN Handler)
        /\ timers' = IF key \in DOMAIN Handler THEN timers
                     ELSE timers \cup {[id |-> i, sec |-> key, frac |-> now.frac]}

(* The body of scheduleIn(): file the task, then scheduleAt() a timeout    *)
(* message `delay' seconds from now.                                       *)
Schedule(delay, h) ==
    LET key == now.sec + delay
        i   == Len(tasks) + 1
    IN  /\ i <= MaxTasks
        /\ key <= MaxTime
        /\ tasks' = Append(tasks, [key |-> key, frac |-> now.frac,
                                   delay |-> delay, handler |-> h,
                                   from |-> Context(key)])
        /\ Handler' = AddTask(key, i)
        /\ modified' = (modified \/ key \notin DOMAIN Handler)
        /\ timers' = timers \cup {[id |-> i, sec |-> key, frac |-> now.frac]}

(* A call of scheduleIn(), by another module's event handler while this    *)
(* module is idle, or by the callback that is on the stack.  One of the    *)
(* MaxTasks calls is kept for the start message.                           *)
scheduleIn(delay, h) ==
    /\ pc \in {"idle", "callback"}
    /\ pc = "callback" => NestedCalls < MaxNested
    /\ startMsg => Len(tasks) + 1 < MaxTasks
    /\ Schedule(delay, h)
    /\ UNCHANGED <<now, startMsg, pc, todo, running, log>>

(* handleMessage() for Start's message: schedule the handler once more,    *)
(* StartDelay later, and call it at once.                                  *)
handleStartMessage(h) ==
    /\ pc = "idle" /\ startMsg
    /\ startMsg' = FALSE
    /\ Schedule(StartDelay, h)
    /\ pc' = "callback"
    /\ running' = NoTask
    /\ UNCHANGED <<now, todo, log>>

(* handleMessage() for a self-message: a new iterator over the map.        *)
handleTimeout(m) ==
    /\ pc = "idle" /\ m \in timers
    /\ m.sec = now.sec /\ m.frac = now.frac
    /\ timers' = timers \ {m}
    /\ pc' = "loop"
    /\ todo' = DOMAIN Handler
    /\ modified' = FALSE
    /\ UNCHANGED <<now, Handler, startMsg, running, tasks, log>>

(* Mutants of Due: `<' for `<=', and no comparison.                        *)
Due_Strict(k) == k < now.sec /\ handlerOf(Head(Handler[k])) # Null

Due_Always(k) == handlerOf(Head(Handler[k])) # Null

(* The entry of second k has come and its first task has a handler.        *)
Due(k) == k <= now.sec /\ handlerOf(Head(Handler[k])) # Null

(* it.next() returns the entry of second k, in the order of the hash       *)
(* table, which is any order; its first task is due and is called.         *)
Fire(k) ==
    /\ pc = "loop" /\ k \in todo /\ ~modified
    /\ Due(k)
    /\ todo' = todo \ {k}
    /\ pc' = "callback"
    /\ running' = [task |-> Head(Handler[k]), key |-> k,
                   size |-> Len(Handler[k])]
    /\ log' = Append(log, [task |-> Head(Handler[k]), sec |-> now.sec,
                            frac |-> now.frac])
    /\ UNCHANGED <<now, Handler, timers, startMsg, modified, tasks>>

(* it.next() returns an entry that is not due, or whose first task has no  *)
(* handler ("Handler is null"): nothing happens, the entry stays.          *)
Skip(k) ==
    /\ pc = "loop" /\ k \in todo /\ ~modified
    /\ ~Due(k)
    /\ todo' = todo \ {k}
    /\ UNCHANGED <<now, Handler, timers, startMsg, pc, modified, running,
                   tasks, log>>

(* Mutant of Return: remove(0) in both branches, Handler.remove() in none. *)
Return_KeepEntry ==
    /\ pc = "callback"
    /\ running' = NoTask
    /\ pc' = IF running.task = 0 THEN "idle" ELSE "loop"
    /\ modified' = (modified /\ running.task # 0)
    /\ Handler' = IF running.task = 0 THEN Handler
                  ELSE [Handler EXCEPT ![running.key] = Tail(@)]
    /\ UNCHANGED <<now, timers, startMsg, todo, tasks, log>>

(* eventOccurred() returns.  What is removed was decided before the call:  *)
(* a one-element list goes with its whole entry, of a longer one the first *)
(* element goes.  After Start's direct call nothing is removed.            *)
Return ==
    /\ pc = "callback"
    /\ running' = NoTask
    /\ \/ /\ running.task = 0
          /\ pc' = "idle"
          /\ modified' = FALSE
          /\ UNCHANGED Handler
       \/ /\ running.task # 0 /\ running.size = 1
          /\ pc' = "loop"
          /\ Handler' = [k \in DOMAIN Handler \ {running.key} |-> Handler[k]]
          /\ modified' = TRUE
       \/ /\ running.task # 0 /\ running.size # 1
          /\ pc' = "loop"
          /\ Handler' = [Handler EXCEPT ![running.key] = Tail(@)]
          /\ UNCHANGED modified
    /\ UNCHANGED <<now, timers, startMsg, todo, tasks, log>>

(* it.hasNext() is false: handleMessage() is done.                         *)
LoopEnd ==
    /\ pc = "loop" /\ todo = {}
    /\ pc' = "idle"
    /\ modified' = FALSE
    /\ UNCHANGED <<now, Handler, timers, startMsg, todo, running, tasks, log>>

(* it.next() finds that the map has changed under the iterator and throws  *)
(* ConcurrentModificationException out of handleMessage(): the simulation  *)
(* ends with an error.                                                     *)
Abort ==
    /\ pc = "loop" /\ todo # {} /\ modified
    /\ pc' = "halted"
    /\ UNCHANGED <<now, Handler, timers, startMsg, todo, modified, running,
                   tasks, log>>

(* The kernel moves on to a later event, of this or of another module,     *)
(* never past a message in its future event set.                           *)
AdvanceTime(t) ==
    /\ pc = "idle" /\ ~startMsg
    /\ t.sec <= MaxTime
    /\ Before(now, t)
    /\ \A m \in timers : ~Before(m, t)
    /\ now' = t
    /\ UNCHANGED <<Handler, timers, startMsg, pc, walk, tasks, log>>

Step ==
    \/ \E m \in timers : handleTimeout(m)
    \/ \E k \in todo : Fire(k)
    \/ \E k \in todo : Skip(k)
    \/ Return
    \/ LoopEnd
    \/ Abort

Tick == \E s \in 0..MaxTime, f \in Fractions :
            AdvanceTime([sec |-> s, frac |-> f])

Next ==
    \/ Step
    \/ Tick
    \/ \E h \in Handlers : handleStartMessage(h)
    \/ \E d \in Delays, h \in HandlerArgs : scheduleIn(d, h)

Spec == Init /\ [][Next]_vars

(* The kernel delivers the messages it holds, callbacks return, and time   *)
(* goes on: the event loop of the simulation.  Nothing is assumed of the   *)
(* callers of scheduleIn().                                                *)
FairSpec ==
    /\ Spec
    /\ WF_vars(Step)
    /\ WF_vars(Tick)
    /\ WF_vars(\E h \in Handlers : handleStartMessage(h))

-----------------------------------------------------------------------------
Task == [key : Nat, frac : Fractions, delay : Nat,
         handler : Handlers \cup {Null},
         from : {"module", "callback", "sole"}]

(* Tasks are numbered in the order of their creation.                      *)
TaskId == Nat \ {0}

(* Types.  No list of the map is ever empty, so that get(0) of the walk    *)
(* never throws IndexOutOfBoundsException.                                 *)
TypeOK ==
    /\ now \in Times
    /\ DOMAIN Handler \subseteq Nat
    /\ Handler \in [DOMAIN Handler -> Seq(TaskId) \ {<< >>}]
    /\ timers \subseteq [id : Nat, sec : Nat, frac : Fractions]
    /\ startMsg \in BOOLEAN
    /\ pc \in {"idle", "loop", "callback", "halted"}
    /\ todo \subseteq Nat
    /\ modified \in BOOLEAN
    /\ running \in [task : Nat, key : Nat, size : Nat]
    /\ tasks \in Seq(Task)
    /\ log \in Seq([task : Nat, sec : Nat, frac : Fractions])

Pending(i) == \E k \in DOMAIN Handler :
                  \E j \in DOMAIN Handler[k] : Handler[k][j] = i

Fired(i) == \E l \in DOMAIN log : log[l].task = i

Blocked(i) == \E k \in DOMAIN Handler :
                  /\ handlerOf(Head(Handler[k])) = Null
                  /\ \E j \in DOMAIN Handler[k] : Handler[k][j] = i

(* The tasks of one second are called in the order of their scheduleIn()   *)
(* calls, and none is called twice, whatever the timeout messages, the     *)
(* walks and the calls made by callbacks do in between.                    *)
NoOvertaking ==
    \A l, m \in DOMAIN log :
        l < m /\ tasks[log[l].task].key = tasks[log[m].task].key
            => log[l].task < log[m].task

(* A task is called in the very second it was scheduled for, although the  *)
(* timeout messages do not say which task they are for and the walk takes  *)
(* every second that has passed (getKey() <= time).                        *)
FiredInItsSecond ==
    \A l \in DOMAIN log : log[l].sec = tasks[log[l].task].key

(* The number of timeout messages for second k still to be delivered.      *)
Wakeups(k) == Cardinality({m \in timers : m.sec = k})

(* The walk in progress will still take, or is taking, a task off second k.*)
InHand(k) ==
    \/ pc = "loop" /\ k = now.sec /\ k \in todo
    \/ pc = "callback" /\ running.task # 0 /\ running.key = k

(* Every walk takes at most one task off each second, so unless a null     *)
(* handler stands at the head of the list, there must be as many timeout   *)
(* messages left for a second as there are tasks in its list, the one the  *)
(* current walk is about to take not counted.                              *)
WakeupsCoverTasks ==
    pc # "halted" =>
        \A k \in DOMAIN Handler :
            \/ handlerOf(Head(Handler[k])) = Null
            \/ Len(Handler[k]) <= Wakeups(k) + (IF InHand(k) THEN 1 ELSE 0)

(* The only way for a task to vanish without a call is to be scheduled, by *)
(* the callback of the only task of some second, for that same second:     *)
(* Handler.remove(key) then takes it away together with its scheduler.     *)
LossOnlyByReentry ==
    \A i \in DOMAIN tasks : Pending(i) \/ Fired(i) \/ tasks[i].from = "sole"

(* Every task is called in the end, unless a walk aborts the simulation,   *)
(* the task stands behind one with a null handler, or it was scheduled by  *)
(* the callback of the only task of its own second.                        *)
Settles ==
    \A i \in 1..MaxTasks :
        (i \in DOMAIN tasks) ~>
            \/ Fired(i) \/ Blocked(i) \/ pc = "halted"
            \/ i \in DOMAIN tasks /\ tasks[i].from = "sole"

-----------------------------------------------------------------------------
(* The inductive invariant behind the safety properties.                   *)

(* The walk: entries the iterator has still to return are in the map, and  *)
(* the running task is the head of its list.                               *)
WalkInv ==
    /\ todo \subseteq DOMAIN Handler
    /\ pc = "idle" \/ (pc = "callback" /\ running.task = 0) => todo = {}
    /\ pc # "callback" => running = NoTask
    /\ running.task # 0 =>
         /\ running.key \in DOMAIN Handler \ todo
         /\ running.task = Head(Handler[running.key])
         /\ running.size <= Len(Handler[running.key])
         /\ running.size > 0

(* The lists: a list holds tasks of its second in the order of their       *)
(* creation, and what was called of that second is older than its head,    *)
(* the running task apart.                                                 *)
ListInv ==
    /\ \A k \in DOMAIN Handler : \A j \in DOMAIN Handler[k] :
          /\ Handler[k][j] \in DOMAIN tasks
          /\ tasks[Handler[k][j]].key = k
    /\ \A k \in DOMAIN Handler : \A i, j \in DOMAIN Handler[k] :
          i < j => Handler[k][i] < Handler[k][j]
    /\ \A l \in DOMAIN log : log[l].task \in DOMAIN tasks
    /\ \A l \in DOMAIN log : \A k \in DOMAIN Handler :
          tasks[log[l].task].key = k =>
             \/ log[l].task < Head(Handler[k])
             \/ running.task = log[l].task /\ running.key = k

(* The kernel: timeout messages are finitely many, numbered by their       *)
(* tasks, and not in the past; a second that has passed without its list   *)
(* being emptied has a null handler at its head, so that the running task  *)
(* is one of the current second, with a handler.                           *)
TimerInv ==
    /\ IsFiniteSet(timers)
    /\ \A m \in timers : m.id <= Len(tasks) /\ ~Before(m, now)
    /\ \A k \in DOMAIN Handler :
          k < now.sec => handlerOf(Head(Handler[k])) = Null
    /\ running.task # 0 =>
          running.key = now.sec /\ handlerOf(running.task) # Null

(* The conjunction, inductive together with WakeupsCoverTasks.             *)
IInv ==
    /\ TypeOK
    /\ WalkInv
    /\ ListInv
    /\ TimerInv
    /\ WakeupsCoverTasks
    /\ NoOvertaking
    /\ FiredInItsSecond

(* The losses: the running task has been called, and when it was alone in  *)
(* its list at its call, whatever stands behind it now was scheduled by    *)
(* its own callback.                                                       *)
LossInv ==
    /\ LossOnlyByReentry
    /\ running.task # 0 => Fired(running.task)
    /\ running.task # 0 /\ running.size = 1 =>
          \A j \in DOMAIN Handler[running.key] :
             j > 1 => tasks[Handler[running.key][j]].from = "sole"

-----------------------------------------------------------------------------
(* The abstract specification.                                             *)

(* The event queue as it is seen in the scheduler's history.               *)
EQ == INSTANCE EventQueue WITH
          Seconds   <- 0..MaxTime,
          clock     <- now.sec,
          submitted <- [i \in DOMAIN tasks |-> tasks[i].key],
          executed  <- [l \in DOMAIN log |-> log[l].task]

(* The scheduler implements the event queue: a task is executed in its own *)
(* second, once, and in submission order among the tasks of that second.   *)
ImplementsEventQueue == EQ!Spec

-----------------------------------------------------------------------------
(* What the API says of this code, and the code does not do.               *)

(* A scheduled event is executed in the end.                               *)
EventuallyFires ==
    \A i \in 1..MaxTasks : (i \in DOMAIN tasks) ~> Fired(i)
=============================================================================

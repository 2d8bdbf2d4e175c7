----------------------------- MODULE EventQueue -----------------------------
(***************************************************************************)
(* What the realtime scheduler promises of the tasks it calls: tasks are   *)
(* submitted for a second that has not passed, a task is executed during   *)
(* the second it was submitted for and at most once, and the tasks of one  *)
(* second are executed in the order of their submission.  It does not      *)
(* promise to execute every task.                                          *)
(***************************************************************************)
EXTENDS Integers, Sequences

CONSTANT Seconds    \* the seconds of the simulation, a set of numbers

VARIABLES
    clock,      \* the current second
    submitted,  \* the due second of every task, in order of submission
    executed    \* the tasks executed, in order of execution

qvars == <<clock, submitted, executed>>

Init == clock = 0 /\ submitted = << >> /\ executed = << >>

Submit(due) ==
    /\ due >= clock
    /\ submitted' = Append(submitted, due)
    /\ UNCHANGED <<clock, executed>>

Execute(i) ==
    /\ i \in DOMAIN submitted
    /\ submitted[i] = clock
    /\ \A l \in DOMAIN executed :
          submitted[executed[l]] = clock => executed[l] < i
    /\ executed' = Append(executed, i)
    /\ UNCHANGED <<clock, submitted>>

Advance(t) ==
    /\ t > clock
    /\ clock' = t
    /\ UNCHANGED <<submitted, executed>>

Next ==
    \/ \E due \in Seconds : Submit(due)
    \/ \E i \in DOMAIN submitted : Execute(i)
    \/ \E t \in Seconds : Advance(t)

Spec == Init /\ [][Next]_qvars
=============================================================================

------------------------------ MODULE TaskScheduler ------------------------------
(***************************************************************************)
(* The cooperative scheduler of src/Scheduler/task_scheduler.cpp.          *)
(*                                                                         *)
(* A table of SCHED_MAX_TASKS slots, a 1 Hz interrupt that counts every    *)
(* used slot down, and a main loop that visits the slots in index order,   *)
(* runs the ready ones to completion, and sleeps until the next interrupt. *)
(* The interrupt may fire between any two steps of the main loop, and on   *)
(* the 8-bit AVR also in the middle of the main loop's 32-bit read of a    *)
(* slot's delay (l.165), the one access that is not inside noInterrupts(). *)
(***************************************************************************)
EXTENDS Integers

CONSTANTS
    Task,             \* the functions handed to sched_add_task
    NULL,             \* the content of an empty slot
    SCHED_MAX_TASKS,  \* the number of slots (8 in the code)
    Request,          \* the calls of sched_add_task that setup and tasks make
    TearAt,           \* the moduli 2^8, 2^16, 2^24 at which a byte-wise read
                      \* of a delay can tear; {} where the read is one word
    MAX_LAG           \* bound: how late a task may become while others run

ASSUME TaskAssumption == NULL \notin Task
ASSUME SlotsAssumption == SCHED_MAX_TASKS \in Nat \ {0}
ASSUME RequestAssumption ==
    Request \subseteq [task : Task, delay : Int, looptime : Int]
ASSUME TearAssumption == TearAt \subseteq Nat \ {0}
ASSUME LagAssumption == MAX_LAG \in Nat

Slot == 0 .. SCHED_MAX_TASKS - 1

VARIABLES
    task,      \* task_list[s].task
    delay,     \* task_list[s].delay
    looptime,  \* task_list[s].looptime
    i,         \* the slot the main loop is at; SCHED_MAX_TASKS after the last
    pc         \* what the processor is doing

vars == <<task, delay, looptime, i, pc>>

State == {"setup", "scan", "run", "asleep"}

TypeOK ==
    /\ task \in [Slot -> Task \cup {NULL}]
    /\ delay \in [Slot -> Int]
    /\ looptime \in [Slot -> Int]
    /\ i \in 0 .. SCHED_MAX_TASKS
    /\ pc \in State
    /\ pc = "run" => i \in Slot /\ task[i] # NULL

----------------------------------------------------------------------------
Used(s) == task[s] # NULL

\* Mutations of Ready: the test of l.165 without the slot's occupant, and with
\* the boundary off by one.
ReadyUnused(s) == delay[s] <= 0
ReadyOneEarly(s) == Used(s) /\ delay[s] <= 1

Ready(s) == Used(s) /\ delay[s] <= 0

\* tick_callback: every used slot counts down.
TickedDelay == [s \in Slot |-> IF Used(s) THEN delay[s] - 1 ELSE delay[s]]

\* The processor loads the low bytes of delay[s] (its value modulo m), the tick
\* counts it down, and the high bytes are loaded: they differ from the ones that
\* belong to the low bytes only when the tick borrowed from them.
Torn(d, m) == IF d % m = 0 THEN d - m ELSE d

\* Mutation of FirstEmpty: a one-shot gives up its slot when it is started, not
\* when it returns.
FirstNotAwaited ==
    CHOOSE s \in Slot : ~Used(s) \/ (pc = "run" /\ i = s /\ looptime[s] <= 0)

\* The slot sched_add_task takes: the first empty one.
FirstEmpty == CHOOSE s \in Slot : ~Used(s) /\ \A q \in 0 .. s - 1 : Used(q)

----------------------------------------------------------------------------
\* After sched_setup; the slots' other fields are zero-initialised globals.
Init ==
    /\ task = [s \in Slot |-> NULL]
    /\ delay = [s \in Slot |-> 0]
    /\ looptime = [s \in Slot |-> 0]
    /\ i = 0
    /\ pc = "setup"

\* sched_add_task, called by setup() or by the running task, with interrupts
\* off. When no slot is empty it changes nothing and returns -1, which every
\* caller ignores.
AddTask(r) ==
    /\ pc \in {"setup", "run"}
    /\ IF \E s \in Slot : ~Used(s)
       THEN /\ task' = [task EXCEPT ![FirstEmpty] = r.task]
            /\ delay' = [delay EXCEPT ![FirstEmpty] = r.delay]
            /\ looptime' = [looptime EXCEPT ![FirstEmpty] = r.looptime]
       ELSE UNCHANGED <<task, delay, looptime>>
    /\ UNCHANGED <<i, pc>>

\* setup() ends in sched_mainloop, whose first pass starts at slot 0.
EnterMainloop ==
    /\ pc = "setup"
    /\ pc' = "scan"
    /\ UNCHANGED <<task, delay, looptime, i>>

\* The interrupt while the processor is awake.
Tick ==
    /\ pc # "asleep"
    /\ \A s \in Slot : Used(s) => delay[s] > -MAX_LAG
    /\ delay' = TickedDelay
    /\ UNCHANGED <<task, looptime, i, pc>>

\* Mutation of WakeUp: the loop index is not reset.
WakeUpInPlace ==
    /\ pc = "asleep"
    /\ \A s \in Slot : Used(s) => delay[s] > -MAX_LAG
    /\ delay' = TickedDelay
    /\ pc' = "scan"
    /\ UNCHANGED <<task, looptime, i>>

\* The interrupt that ends sched_sleep: the next pass starts at slot 0.
WakeUp ==
    /\ pc = "asleep"
    /\ delay' = TickedDelay
    /\ i' = 0
    /\ pc' = "scan"
    /\ UNCHANGED <<task, looptime>>

\* The test of slot i succeeds and its task is called.
Start ==
    /\ pc = "scan"
    /\ i \in Slot
    /\ Ready(i)
    /\ pc' = "run"
    /\ UNCHANGED <<task, delay, looptime, i>>

\* The test of slot i fails.
Skip ==
    /\ pc = "scan"
    /\ i \in Slot
    /\ ~Ready(i)
    /\ i' = i + 1
    /\ UNCHANGED <<task, delay, looptime, pc>>

\* The test of slot i, with the interrupt in the middle of the read of its delay.
TornTest ==
    /\ pc = "scan"
    /\ i \in Slot
    /\ Used(i)
    /\ \A s \in Slot : Used(s) => delay[s] > -MAX_LAG
    /\ delay' = TickedDelay
    /\ \E m \in TearAt :
          IF Torn(delay[i], m) <= 0
          THEN pc' = "run" /\ i' = i
          ELSE pc' = "scan" /\ i' = i + 1
    /\ UNCHANGED <<task, looptime>>

Rearm(next) ==
    IF looptime[i] > 0
    THEN delay' = [delay EXCEPT ![i] = next] /\ UNCHANGED task
    ELSE task' = [task EXCEPT ![i] = NULL] /\ UNCHANGED delay

\* Mutations of Finish: the period counts from the end of the run; the loop
\* starts over after every run; a task that is late again is run at once, as
\* task_scheduler.h:13 describes it.
FinishFromNow ==
    /\ pc = "run"
    /\ Rearm(looptime[i])
    /\ i' = i + 1
    /\ pc' = "scan"
    /\ UNCHANGED looptime
FinishStartOver ==
    /\ pc = "run"
    /\ Rearm(delay[i] + looptime[i])
    /\ i' = 0
    /\ pc' = "scan"
    /\ UNCHANGED looptime
FinishInPlace ==
    /\ pc = "run"
    /\ Rearm(delay[i] + looptime[i])
    /\ pc' = "scan"
    /\ UNCHANGED <<i, looptime>>

\* The task returns: with interrupts off, a cyclic slot is re-armed relative to
\* its last due time, a one-shot slot is emptied.
Finish ==
    /\ pc = "run"
    /\ Rearm(delay[i] + looptime[i])
    /\ i' = i + 1
    /\ pc' = "scan"
    /\ UNCHANGED looptime

\* The pass is over: sched_sleep, without another look at the table.
Sleep ==
    /\ pc = "scan"
    /\ i = SCHED_MAX_TASKS
    /\ pc' = "asleep"
    /\ UNCHANGED <<task, delay, looptime, i>>

Mainloop == EnterMainloop \/ Start \/ Skip \/ Finish \/ Sleep

Next ==
    \/ \E r \in Request : AddTask(r)
    \/ EnterMainloop
    \/ Tick
    \/ WakeUp
    \/ Start
    \/ Skip
    \/ TornTest
    \/ Finish
    \/ Sleep

\* The processor keeps executing, every task returns, and the watchdog or RTC
\* always fires again while the processor sleeps. Ticks while it is awake, and
\* torn reads, may happen or not.
Fairness == WF_vars(Mainloop) /\ WF_vars(WakeUp)

Spec == Init /\ [][Next]_vars /\ Fairness

----------------------------------------------------------------------------
\* A ready slot's task is started, whatever the other tasks add, however late
\* they make it and wherever the interrupt lands (l.164-184).
ReadyRuns == \A s \in Slot : Ready(s) ~> (pc = "run" /\ i = s)

\* However late the tasks are, each pass ends and the processor goes back to
\* sleep: a late task never keeps the main loop awake (l.164-187).
SleepsAgain == []<>(pc = "asleep")

=============================================================================

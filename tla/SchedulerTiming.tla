----------------------------- MODULE SchedulerTiming -----------------------------
(***************************************************************************)
(* TaskScheduler with history variables: what time it is, when every       *)
(* accepted task is due, and what happened to it while it waited.  They    *)
(* never influence the scheduler; they only let properties speak of its    *)
(* past.                                                                   *)
(***************************************************************************)
EXTENDS TaskScheduler

CONSTANT MAX_CLOCK   \* bound: how many interrupts are explored

ASSUME ClockAssumption == MAX_CLOCK \in Nat

VARIABLES
    clock,    \* interrupts so far
    due,      \* when the task in each slot has to start next
    ran,      \* the task in the slot was started at least once
    passed,   \* starts of other slots since the slot is ready
    slept     \* sleeps begun since the slot is ready

history == <<clock, due, ran, passed, slept>>
tvars == <<task, delay, looptime, i, pc, clock, due, ran, passed, slept>>

TimingTypeOK ==
    /\ TypeOK
    /\ clock \in Nat
    /\ due \in [Slot -> Int]
    /\ ran \in [Slot -> BOOLEAN]
    /\ passed \in [Slot -> Nat]
    /\ slept \in [Slot -> Nat]

TInit ==
    /\ Init
    /\ clock = 0
    /\ due = [s \in Slot |-> 0]
    /\ ran = [s \in Slot |-> FALSE]
    /\ passed = [s \in Slot |-> 0]
    /\ slept = [s \in Slot |-> 0]

\* One more interrupt.
CountTick == clock < MAX_CLOCK /\ clock' = clock + 1

\* Slot i is started: every other slot that is ready by then is overtaken.
RecordStart ==
    /\ ran' = [ran EXCEPT ![i] = TRUE]
    /\ passed' = [s \in Slot |-> IF s # i /\ Ready(s)' THEN passed[s] + 1 ELSE 0]
    /\ slept' = [slept EXCEPT ![i] = 0]

TAddTask(r) ==
    /\ AddTask(r)
    /\ IF \E s \in Slot : ~Used(s)
       THEN /\ due' = [due EXCEPT ![FirstEmpty] = clock + r.delay]
            /\ ran' = [ran EXCEPT ![FirstEmpty] = FALSE]
       ELSE UNCHANGED <<due, ran>>
    /\ UNCHANGED <<clock, passed, slept>>

TEnterMainloop == EnterMainloop /\ UNCHANGED history

TTick == Tick /\ CountTick /\ UNCHANGED <<due, ran, passed, slept>>

TWakeUp == WakeUp /\ CountTick /\ UNCHANGED <<due, ran, passed, slept>>

TStart == Start /\ RecordStart /\ UNCHANGED <<clock, due>>

TSkip == Skip /\ UNCHANGED history

TTornTest ==
    /\ TornTest
    /\ CountTick
    /\ IF pc' = "run" THEN RecordStart ELSE UNCHANGED <<ran, passed, slept>>
    /\ UNCHANGED due

\* A cyclic task is due again looptime after it was last due, not after it ran.
TFinish ==
    /\ Finish
    /\ due' = [due EXCEPT ![i] = IF looptime[i] > 0 THEN @ + looptime[i] ELSE @]
    /\ UNCHANGED <<clock, ran, passed, slept>>

TSleep ==
    /\ Sleep
    /\ slept' = [s \in Slot |-> IF Ready(s) THEN slept[s] + 1 ELSE 0]
    /\ UNCHANGED <<clock, due, ran, passed>>

TNext ==
    \/ \E r \in Request : TAddTask(r)
    \/ TEnterMainloop
    \/ TTick
    \/ TWakeUp
    \/ TStart
    \/ TSkip
    \/ TTornTest
    \/ TFinish
    \/ TSleep

TSpec == TInit /\ [][TNext]_tvars

----------------------------------------------------------------------------
\* The counter of an accepted task is exactly the time left until it is due, on
\* whatever side of an addition, a run or a re-arming the interrupts fall: no
\* tick is lost or counted twice, so a period never drifts (l.126-130, 176-179).
NoDrift == \A s \in Slot : Used(s) => delay[s] = due[s] - clock

Starts == pc # "run" /\ pc' = "run"

\* A task starts before it is due only in one way: the interrupt lands in the
\* read of its delay exactly when that delay is a modulus m of the byte-wise
\* read, and it then starts m - 1 ticks early (l.165).
StartsDueOrTorn ==
    Starts => \/ due[i] <= clock
              \/ \E m \in TearAt : due[i] - clock' = m - 1
EarlyOnlyByTear == [][StartsDueOrTorn]_tvars

\* task_scheduler.h:26 promises an initial delay of <delay> seconds and a period
\* of <looptime> seconds: no task starts before it is due.
NeverEarly == [][Starts => due[i] <= clock']_tvars

\* An accepted task leaves its slot only after it was run, by its own return and
\* only if it is a one-shot: neither a task that a running task adds nor the
\* re-arming or emptying after a run ever hits the wrong occupant (l.134-183).
Leaves(s) == Used(s) /\ (task'[s] # task[s] \/ looptime'[s] # looptime[s])
AcceptedRuns ==
    [][\A s \in Slot : Leaves(s) =>
          ran[s] /\ looptime[s] <= 0 /\ pc = "run" /\ i = s /\ task'[s] = NULL]_tvars

\* Bounded overtaking: from the moment a slot is ready until it is started, at
\* most every other slot is started once, and the processor goes to sleep on it
\* at most once: when it became ready behind the loop's back (l.164, l.187).
BoundedOvertaking ==
    \A s \in Slot : passed[s] <= SCHED_MAX_TASKS - 1 /\ slept[s] <= 1

=============================================================================

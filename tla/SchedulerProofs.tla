----------------------------- MODULE SchedulerProofs -----------------------------
(***************************************************************************)
(* Proofs about SchedulerTiming, for every table size, every set of        *)
(* requests, every set of moduli and every bound on lateness and clock.    *)
(***************************************************************************)
EXTENDS SchedulerTiming, WellFoundedInduction, TLAPS

USE SlotsAssumption, LagAssumption, ClockAssumption

----------------------------------------------------------------------------
(* Lemmas about the operators of TaskScheduler. *)

(* A torn read says "ready" of a task that is not ready only when the delay
   is the modulus itself: the tick borrows and the low part is still zero
   (the test of task_scheduler.cpp:165). *)
LEMMA TornReadsReady ==
  ASSUME NEW m \in TearAt, NEW d \in Int, Torn(d, m) <= 0, d > 0
  PROVE  d = m
<1>1. m \in Nat /\ m > 0
  BY TearAssumption
<1>2. d % m = 0 /\ d <= m
  BY <1>1 DEF Torn
<1>3. CASE d < m
  <2>1. d % m = d
    BY <1>1, <1>3
  <2> QED
    BY <2>1, <1>2
<1> QED
  BY <1>1, <1>2, <1>3

(* A torn read never hides a task that was ready before the tick. *)
LEMMA TornSeesReady ==
  ASSUME NEW m \in TearAt, NEW d \in Int, d <= 0
  PROVE  Torn(d, m) <= 0
BY TearAssumption DEF Torn

(* sched_add_task takes an empty slot whenever there is one (l.139-146). *)
LEMMA FirstEmptyIsEmpty ==
  ASSUME \E s \in Slot : ~Used(s)
  PROVE  FirstEmpty \in Slot /\ ~Used(FirstEmpty)
<1> DEFINE E == {s \in Slot : ~Used(s)}
<1>1. E # {} /\ E \subseteq Nat
  BY DEF Slot
<1>2. PICK x \in E : \A y \in E : ~(<<y, x>> \in OpToRel(<, Nat))
  BY <1>1, NatLessThanWellFounded, WFMin
<1>3. x \in Slot /\ ~Used(x)
  OBVIOUS
<1>4. \A q \in 0 .. x - 1 : Used(q)
  <2> SUFFICES ASSUME NEW q \in 0 .. x - 1, ~Used(q)
               PROVE  FALSE
    OBVIOUS
  <2>1. q \in Slot /\ q < x /\ q \in Nat /\ x \in Nat
    BY <1>3 DEF Slot
  <2>2. <<q, x>> \in OpToRel(<, Nat)
    BY <2>1 DEF OpToRel
  <2> QED
    BY <1>2, <2>1, <2>2
<1>5. \E s \in Slot : ~Used(s) /\ \A q \in 0 .. s - 1 : Used(q)
  BY <1>3, <1>4
<1> QED
  BY <1>5 DEF FirstEmpty

----------------------------------------------------------------------------
(* Type correctness. *)

LEMMA TypeInit == Init => TypeOK
BY DEF Init, TypeOK, State

LEMMA TypeStep == TypeOK /\ [Next]_vars => TypeOK'
<1> SUFFICES ASSUME TypeOK, [Next]_vars
             PROVE  TypeOK'
  OBVIOUS
<1> USE DEF TypeOK, State, Slot
<1>1. ASSUME NEW r \in Request, AddTask(r)
      PROVE  TypeOK'
  <2>1. r.task \in Task /\ r.delay \in Int /\ r.looptime \in Int /\ r.task # NULL
    BY RequestAssumption, TaskAssumption
  <2> QED
    BY <1>1, <2>1 DEF AddTask
<1>2. CASE EnterMainloop
  BY <1>2 DEF EnterMainloop
<1>3. CASE Tick
  BY <1>3 DEF Tick, TickedDelay
<1>4. CASE WakeUp
  BY <1>4 DEF WakeUp, TickedDelay
<1>5. CASE Start
  BY <1>5 DEF Start, Ready, Used
<1>6. CASE Skip
  BY <1>6 DEF Skip
<1>7. CASE TornTest
  BY <1>7 DEF TornTest, TickedDelay, Used
<1>8. CASE Finish
  BY <1>8 DEF Finish, Rearm
<1>9. CASE Sleep
  BY <1>9 DEF Sleep
<1>10. CASE UNCHANGED vars
  BY <1>10 DEF vars
<1> QED
  BY <1>1, <1>2, <1>3, <1>4, <1>5, <1>6, <1>7, <1>8, <1>9, <1>10 DEF Next

(* The table, the loop index and the program counter keep their types, and
   the task that runs is in the slot the loop is at. *)
THEOREM TypeCorrect == Spec => []TypeOK
BY TypeInit, TypeStep, PTL DEF Spec

----------------------------------------------------------------------------
(* The history variables. *)

(* They never disturb the scheduler: every step of SchedulerTiming is a step
   of TaskScheduler. *)
LEMMA TimingIsScheduling == [TNext]_tvars => [Next]_vars
BY DEF TNext, tvars, Next, vars, TAddTask, TEnterMainloop, TTick, TWakeUp,
       TStart, TSkip, TTornTest, TFinish, TSleep

LEMMA TimingTypeInit == TInit => TimingTypeOK
BY TypeInit DEF TInit, TimingTypeOK

LEMMA RecordStartType ==
  ASSUME TimingTypeOK, RecordStart
  PROVE  /\ ran' \in [Slot -> BOOLEAN]
         /\ passed' \in [Slot -> Nat]
         /\ slept' \in [Slot -> Nat]
<1>1. ran' \in [Slot -> BOOLEAN]
  BY Zenon DEF TimingTypeOK, RecordStart
<1>2. passed' \in [Slot -> Nat]
  <2>1. ASSUME NEW s \in Slot
        PROVE  (IF s # i /\ Ready(s)' THEN passed[s] + 1 ELSE 0) \in Nat
    BY DEF TimingTypeOK
  <2> QED
    BY <2>1, Zenon DEF RecordStart
<1>3. slept' \in [Slot -> Nat]
  BY DEF TimingTypeOK, RecordStart
<1> QED
  BY <1>1, <1>2, <1>3

LEMMA TimingTypeStep == TimingTypeOK /\ [TNext]_tvars => TimingTypeOK'
<1> SUFFICES ASSUME TimingTypeOK, [TNext]_tvars
             PROVE  TimingTypeOK'
  OBVIOUS
<1>0. TypeOK'
  BY TimingIsScheduling, TypeStep DEF TimingTypeOK
<1> USE DEF TimingTypeOK
<1>1. ASSUME NEW r \in Request, TAddTask(r)
      PROVE  TimingTypeOK'
  <2>1. r.delay \in Int
    BY RequestAssumption
  <2>2. ran' \in [Slot -> BOOLEAN]
    BY <1>1, Zenon DEF TAddTask
  <2>3. due' \in [Slot -> Int]
    BY <1>1, <2>1 DEF TAddTask
  <2> QED
    BY <1>0, <1>1, <2>2, <2>3 DEF TAddTask
<1>2. CASE TEnterMainloop
  BY <1>0, <1>2 DEF TEnterMainloop, history
<1>3. CASE TTick
  BY <1>0, <1>3 DEF TTick, CountTick
<1>4. CASE TWakeUp
  BY <1>0, <1>4 DEF TWakeUp, CountTick
<1>5. CASE TStart
  BY <1>0, <1>5, RecordStartType DEF TStart
<1>6. CASE TSkip
  BY <1>0, <1>6 DEF TSkip, history
<1>7. CASE TTornTest
  BY <1>0, <1>7, RecordStartType DEF TTornTest, CountTick
<1>8. CASE TFinish
  <2>1. i \in Slot /\ looptime[i] \in Int
    BY <1>8 DEF TFinish, Finish, TypeOK
  <2> QED
    BY <1>0, <1>8, <2>1 DEF TFinish
<1>9. CASE TSleep
  BY <1>0, <1>9 DEF TSleep
<1>10. CASE UNCHANGED tvars
  BY <1>0, <1>10 DEF tvars
<1> QED
  BY <1>1, <1>2, <1>3, <1>4, <1>5, <1>6, <1>7, <1>8, <1>9, <1>10 DEF TNext

(* The scheduler's variables and the history variables keep their types. *)
THEOREM TimingTypeCorrect == TSpec => []TimingTypeOK
BY TimingTypeInit, TimingTypeStep, PTL DEF TSpec

----------------------------------------------------------------------------
(* No tick is lost or counted twice. *)

LEMMA NoDriftStep == TimingTypeOK /\ NoDrift /\ [TNext]_tvars => NoDrift'
<1> SUFFICES ASSUME TimingTypeOK, NoDrift, [TNext]_tvars
             PROVE  NoDrift'
  OBVIOUS
<1> USE DEF TimingTypeOK, TypeOK, NoDrift, Used
<1>1. ASSUME NEW r \in Request, TAddTask(r)
      PROVE  NoDrift'
  <2>1. r.delay \in Int
    BY RequestAssumption
  <2> QED
    BY <1>1, <2>1 DEF TAddTask, AddTask
<1>2. CASE TEnterMainloop
  BY <1>2 DEF TEnterMainloop, EnterMainloop, history
<1>3. CASE TTick
  BY <1>3 DEF TTick, Tick, TickedDelay, CountTick
<1>4. CASE TWakeUp
  BY <1>4 DEF TWakeUp, WakeUp, TickedDelay, CountTick
<1>5. CASE TStart
  BY <1>5 DEF TStart, Start
<1>6. CASE TSkip
  BY <1>6 DEF TSkip, Skip, history
<1>7. CASE TTornTest
  BY <1>7 DEF TTornTest, TornTest, TickedDelay, CountTick
<1>8. CASE TFinish
  BY <1>8 DEF TFinish, Finish, Rearm
<1>9. CASE TSleep
  BY <1>9 DEF TSleep, Sleep
<1>10. CASE UNCHANGED tvars
  BY <1>10 DEF tvars
<1> QED
  BY <1>1, <1>2, <1>3, <1>4, <1>5, <1>6, <1>7, <1>8, <1>9, <1>10 DEF TNext

(* A slot's counter is always the time left until its task is due. *)
THEOREM NeverDrifts == TSpec => []NoDrift
<1>1. TInit => NoDrift
  BY DEF TInit, Init, NoDrift, Used
<1> QED
  BY <1>1, NoDriftStep, TimingTypeCorrect, PTL DEF TSpec

(* A start that is not due is a torn read of exactly the modulus. *)
LEMMA StartStep ==
  TimingTypeOK /\ NoDrift /\ [TNext]_tvars => [StartsDueOrTorn]_tvars
<1> SUFFICES ASSUME TimingTypeOK, NoDrift, TNext, Starts
             PROVE  \/ due[i] <= clock
                    \/ \E m \in TearAt : due[i] - clock' = m - 1
  BY DEF StartsDueOrTorn
<1> USE DEF TimingTypeOK, TypeOK, NoDrift, Starts, Slot
<1>1. CASE TStart
  BY <1>1 DEF TStart, Start, Ready
<1>2. CASE TTornTest
  <2>1. i \in Slot /\ Used(i) /\ delay[i] = due[i] - clock /\ clock' = clock + 1
    BY <1>2 DEF TTornTest, TornTest, CountTick
  <2>2. PICK m \in TearAt : Torn(delay[i], m) <= 0
    BY <1>2 DEF TTornTest, TornTest
  <2>3. CASE delay[i] > 0
    <3>1. delay[i] = m
      BY <2>1, <2>2, <2>3, TornReadsReady
    <3> QED
      BY <2>1, <3>1
  <2>4. CASE delay[i] <= 0
    BY <2>1, <2>4
  <2> QED
    BY <2>1, <2>3, <2>4
<1>3. CASE ~TStart /\ ~TTornTest
  BY <1>3 DEF TNext, TAddTask, AddTask, TEnterMainloop, EnterMainloop, TTick, Tick,
              TWakeUp, WakeUp, TSkip, Skip, TFinish, Finish, TSleep, Sleep
<1> QED
  BY <1>1, <1>2, <1>3

(* The only way a task starts before it is due. *)
THEOREM EarlyStarts == TSpec => EarlyOnlyByTear
BY StartStep, TimingTypeCorrect, NeverDrifts, PTL DEF TSpec, EarlyOnlyByTear

(* Where a delay is read in one access, as on the SAMD21, no task starts
   before it is due: the promise of task_scheduler.h:26. *)
THEOREM NeverEarlyOnWordReads ==
  ASSUME TearAt = {}
  PROVE  TSpec => NeverEarly
<1>1. [StartsDueOrTorn]_tvars /\ TimingTypeOK /\ [TNext]_tvars
        => [Starts => due[i] <= clock']_tvars
  <2> SUFFICES ASSUME StartsDueOrTorn, TimingTypeOK, TNext, Starts
               PROVE  due[i] <= clock'
    OBVIOUS
  <2>1. due[i] <= clock /\ i \in Slot
    <3>1. due[i] <= clock
      BY DEF StartsDueOrTorn
    <3>2. i \in Slot
      BY DEF TNext, Starts, TAddTask, AddTask, TEnterMainloop, EnterMainloop, TTick, Tick,
             TWakeUp, WakeUp, TSkip, Skip, TFinish, Finish, TSleep, Sleep,
             TStart, Start, TTornTest, TornTest
    <3> QED
      BY <3>1, <3>2
  <2>2. clock' \in {clock, clock + 1}
    BY DEF TNext, TAddTask, TEnterMainloop, TTick, TWakeUp, TSkip, TFinish, TSleep,
           TStart, TTornTest, CountTick, history
  <2> QED
    BY <2>1, <2>2 DEF TimingTypeOK
<1> QED
  BY <1>1, EarlyStarts, TimingTypeCorrect, PTL DEF TSpec, EarlyOnlyByTear, NeverEarly

----------------------------------------------------------------------------
(* An accepted task stays in its slot until it was run. *)

RunningRan == pc = "run" => ran[i]

LEMMA RunningRanStep == TimingTypeOK /\ RunningRan /\ [TNext]_tvars => RunningRan'
<1> SUFFICES ASSUME TimingTypeOK, RunningRan, [TNext]_tvars
             PROVE  RunningRan'
  OBVIOUS
<1> USE DEF TimingTypeOK, TypeOK, RunningRan
<1>1. ASSUME NEW r \in Request, TAddTask(r)
      PROVE  RunningRan'
  <2>1. CASE \E s \in Slot : ~Used(s)
    <3>1. pc = "run" => FirstEmpty # i
      BY <2>1, FirstEmptyIsEmpty DEF Used
    <3> QED
      BY <1>1, <2>1, <3>1 DEF TAddTask, AddTask
  <2>2. CASE ~\E s \in Slot : ~Used(s)
    BY <1>1, <2>2 DEF TAddTask, AddTask
  <2> QED
    BY <2>1, <2>2
<1>2. CASE TStart \/ TTornTest
  BY <1>2 DEF TStart, Start, TTornTest, TornTest, RecordStart
<1>3. CASE TEnterMainloop \/ TTick \/ TWakeUp \/ TSkip \/ TFinish \/ TSleep
  BY <1>3 DEF TEnterMainloop, EnterMainloop, TTick, Tick, TWakeUp, WakeUp, TSkip, Skip,
              TFinish, Finish, TSleep, Sleep, history
<1>4. CASE UNCHANGED tvars
  BY <1>4 DEF tvars
<1> QED
  BY <1>1, <1>2, <1>3, <1>4 DEF TNext

LEMMA LeavesStep ==
  ASSUME TimingTypeOK, RunningRan, TNext, NEW s \in Slot, Leaves(s)
  PROVE  ran[s] /\ looptime[s] <= 0 /\ pc = "run" /\ i = s /\ task'[s] = NULL
<1> USE DEF TimingTypeOK, TypeOK, Leaves, Used
<1>1. ASSUME NEW r \in Request, TAddTask(r)
      PROVE  FALSE
  <2>1. CASE \E q \in Slot : ~Used(q)
    <3>1. FirstEmpty # s
      BY <2>1, FirstEmptyIsEmpty
    <3> QED
      BY <1>1, <2>1, <3>1 DEF TAddTask, AddTask
  <2>2. CASE ~\E q \in Slot : ~Used(q)
    BY <1>1, <2>2 DEF TAddTask, AddTask
  <2> QED
    BY <2>1, <2>2
<1>2. CASE TFinish
  BY <1>2 DEF TFinish, Finish, Rearm, RunningRan
<1>3. CASE TEnterMainloop \/ TTick \/ TWakeUp \/ TStart \/ TSkip \/ TTornTest \/ TSleep
  BY <1>3 DEF TEnterMainloop, EnterMainloop, TTick, Tick, TWakeUp, WakeUp, TStart, Start,
              TSkip, Skip, TTornTest, TornTest, TSleep, Sleep
<1> QED
  BY <1>1, <1>2, <1>3 DEF TNext

(* Only a one-shot leaves its slot, by its own return, after it was run. *)
THEOREM AcceptedTasksRun == TSpec => AcceptedRuns
<1>1. TInit => RunningRan
  BY DEF TInit, Init, RunningRan
<1>2. TimingTypeOK /\ RunningRan /\ [TNext]_tvars =>
        [\A s \in Slot : Leaves(s) =>
          ran[s] /\ looptime[s] <= 0 /\ pc = "run" /\ i = s /\ task'[s] = NULL]_tvars
  BY LeavesStep
<1> QED
  BY <1>1, <1>2, RunningRanStep, TimingTypeCorrect, PTL DEF TSpec, AcceptedRuns

----------------------------------------------------------------------------
(* Bounded overtaking. *)

(* The number of slots that the current pass has dealt with. *)
Visited == IF pc = "run" THEN i + 1 ELSE i

(* What slot s may have suffered: behind the loop, only starts of this pass
   after its own turn; ahead of it, only starts of this pass before its turn,
   and, if it has been slept on, those of the previous pass after its turn. *)
Suffered(s) ==
  /\ ~Ready(s) => passed[s] = 0 /\ slept[s] = 0
  /\ pc = "setup" => slept[s] = 0
  /\ pc = "asleep" => (slept[s] = 0 => passed[s] = 0)
  /\ s < Visited => /\ passed[s] <= Visited - 1 - s
                    /\ slept[s] <= IF pc = "asleep" THEN 1 ELSE 0
  /\ s >= Visited =>
       /\ slept[s] <= 1
       /\ passed[s] <= Visited + IF slept[s] = 1 THEN SCHED_MAX_TASKS - 1 - s ELSE 0

OvertakingInv ==
  /\ pc = "setup" => i = 0
  /\ pc = "asleep" => i = SCHED_MAX_TASKS
  /\ \A s \in Slot : Suffered(s)

LEMMA OvertakingBounds == TimingTypeOK /\ OvertakingInv => BoundedOvertaking
<1> SUFFICES ASSUME TimingTypeOK, OvertakingInv, NEW s \in Slot
             PROVE  passed[s] <= SCHED_MAX_TASKS - 1 /\ slept[s] <= 1
  BY DEF BoundedOvertaking
<1>1. /\ s \in 0 .. SCHED_MAX_TASKS - 1
      /\ Visited \in 0 .. SCHED_MAX_TASKS
      /\ passed[s] \in Nat
      /\ slept[s] \in Nat
  BY DEF TimingTypeOK, TypeOK, Slot, Visited
<1>2. Suffered(s)
  BY DEF OvertakingInv
<1> QED
  BY <1>1, <1>2 DEF Suffered

LEMMA OvertakingInit == TInit => OvertakingInv
BY DEF TInit, Init, OvertakingInv, Suffered, Visited, Slot

LEMMA LoopIndexStep ==
  ASSUME TimingTypeOK, OvertakingInv, TNext
  PROVE  (pc' = "setup" => i' = 0) /\ (pc' = "asleep" => i' = SCHED_MAX_TASKS)
BY DEF OvertakingInv, TNext, TAddTask, AddTask, TEnterMainloop, EnterMainloop, TTick, Tick,
       TWakeUp, WakeUp, TStart, Start, TSkip, Skip, TTornTest, TornTest, TFinish, Finish,
       TSleep, Sleep

(* The start of slot i, ready or read as ready by a torn test. *)
LEMMA SufferedByStart ==
  ASSUME TimingTypeOK, NEW s \in Slot, Suffered(s), RecordStart,
         pc = "scan", pc' = "run", i \in Slot, i' = i, Ready(s) => Ready(s)'
  PROVE  Suffered(s)'
<1>1. /\ s \in 0 .. SCHED_MAX_TASKS - 1
      /\ i \in 0 .. SCHED_MAX_TASKS - 1
      /\ passed[s] \in Nat
      /\ slept[s] \in Nat
  BY DEF TimingTypeOK, Slot
<1>2. passed'[s] = IF s # i /\ Ready(s)' THEN passed[s] + 1 ELSE 0
  BY DEF RecordStart
<1>3. slept'[s] = IF s = i THEN 0 ELSE slept[s]
  BY DEF RecordStart, TimingTypeOK
<1> QED
  BY <1>1, <1>2, <1>3 DEF Suffered, Visited

(* A step that starts nothing, puts nothing to sleep and does not move the
   loop: slots become ready, or, in a task, are filled. *)
LEMMA SufferedInPlace ==
  ASSUME TimingTypeOK, NEW s \in Slot, Suffered(s),
         Ready(s) => Ready(s)',
         UNCHANGED <<passed, slept, i, pc>>
  PROVE  Suffered(s)'
<1>1. /\ s \in 0 .. SCHED_MAX_TASKS - 1
      /\ i \in 0 .. SCHED_MAX_TASKS
      /\ passed[s] \in Nat
      /\ slept[s] \in Nat
  BY DEF TimingTypeOK, TypeOK, Slot
<1> QED
  BY <1>1 DEF Suffered, Visited

LEMMA SufferedStep ==
  ASSUME TimingTypeOK, OvertakingInv, TNext, NEW s \in Slot
  PROVE  Suffered(s)'
<1>1. /\ s \in 0 .. SCHED_MAX_TASKS - 1
      /\ i \in 0 .. SCHED_MAX_TASKS
      /\ passed[s] \in Nat
      /\ slept[s] \in Nat
      /\ delay \in [Slot -> Int]
      /\ task \in [Slot -> Task \cup {NULL}]
  BY DEF TimingTypeOK, TypeOK, Slot
<1>2. Suffered(s) /\ (pc = "setup" => i = 0) /\ (pc = "asleep" => i = SCHED_MAX_TASKS)
  BY DEF OvertakingInv
<1>3. ASSUME NEW r \in Request, TAddTask(r)
      PROVE  Suffered(s)'
  <2>1. Ready(s) => Ready(s)'
    <3>1. CASE \E q \in Slot : ~Used(q)
      BY <1>1, <1>3, <3>1, FirstEmptyIsEmpty DEF TAddTask, AddTask, Ready, Used
    <3>2. CASE ~\E q \in Slot : ~Used(q)
      BY <1>3, <3>2 DEF TAddTask, AddTask, Ready, Used
    <3> QED
      BY <3>1, <3>2
  <2> QED
    BY <1>2, <1>3, <2>1, SufferedInPlace DEF TAddTask, AddTask
<1>4. CASE TEnterMainloop
  <2>1. Ready(s) <=> Ready(s)'
    BY <1>4 DEF TEnterMainloop, EnterMainloop, Ready, Used
  <2> QED
    BY <1>1, <1>2, <1>4, <2>1 DEF TEnterMainloop, EnterMainloop, history, Suffered, Visited
<1>5. CASE TTick
  <2>1. Ready(s) => Ready(s)'
    BY <1>1, <1>5 DEF TTick, Tick, TickedDelay, Ready, Used
  <2> QED
    BY <1>2, <1>5, <2>1, SufferedInPlace DEF TTick, Tick
<1>6. CASE TWakeUp
  <2>1. Ready(s) => Ready(s)'
    BY <1>1, <1>6 DEF TWakeUp, WakeUp, TickedDelay, Ready, Used
  <2> QED
    BY <1>1, <1>2, <1>6, <2>1 DEF TWakeUp, WakeUp, Suffered, Visited
<1>7. CASE TStart
  <2>1. Ready(s) <=> Ready(s)'
    BY <1>7 DEF TStart, Start, Ready, Used
  <2> QED
    BY <1>2, <1>7, <2>1, SufferedByStart DEF TStart, Start
<1>8. CASE TSkip
  <2>1. Ready(s) <=> Ready(s)'
    BY <1>8 DEF TSkip, Skip, Ready, Used
  <2> QED
    BY <1>1, <1>2, <1>8, <2>1 DEF TSkip, Skip, history, Suffered, Visited
<1>9. CASE TTornTest
  <2>1. Ready(s) => Ready(s)'
    BY <1>1, <1>9 DEF TTornTest, TornTest, TickedDelay, Ready, Used
  <2>2. CASE pc' = "run"
    <3>1. i' = i
      BY <1>9, <2>2 DEF TTornTest, TornTest
    <3> QED
      BY <1>2, <1>9, <2>1, <2>2, <3>1, SufferedByStart DEF TTornTest, TornTest
  <2>3. CASE pc' # "run"
    <3>1. i \in Slot /\ ~Ready(i)
      BY <1>1, <1>9, <2>3, TornSeesReady DEF TTornTest, TornTest, Ready
    <3>2. pc = "scan" /\ pc' = "scan" /\ i' = i + 1 /\ UNCHANGED <<passed, slept>>
      BY <1>9, <2>3 DEF TTornTest, TornTest
    <3> QED
      BY <1>1, <1>2, <2>1, <3>1, <3>2 DEF Suffered, Visited
  <2> QED
    BY <2>2, <2>3
<1>10. CASE TFinish
  <2>1. i \in Slot /\ (s # i => (Ready(s) <=> Ready(s)'))
    BY <1>1, <1>10 DEF TFinish, Finish, Rearm, Ready, Used, TimingTypeOK, TypeOK
  <2>2. pc = "run" /\ pc' = "scan" /\ i' = i + 1 /\ UNCHANGED <<passed, slept>>
    BY <1>10 DEF TFinish, Finish
  <2> QED
    BY <1>1, <1>2, <2>1, <2>2 DEF Suffered, Visited
<1>11. CASE TSleep
  <2>1. Ready(s) <=> Ready(s)'
    BY <1>11 DEF TSleep, Sleep, Ready, Used
  <2>2. slept'[s] = IF Ready(s) THEN slept[s] + 1 ELSE 0
    BY <1>11 DEF TSleep
  <2> QED
    BY <1>1, <1>2, <1>11, <2>1, <2>2 DEF TSleep, Sleep, Suffered, Visited
<1> QED
  BY <1>3, <1>4, <1>5, <1>6, <1>7, <1>8, <1>9, <1>10, <1>11 DEF TNext

LEMMA OvertakingStep ==
  TimingTypeOK /\ OvertakingInv /\ [TNext]_tvars => OvertakingInv'
<1>1. TimingTypeOK /\ OvertakingInv /\ TNext => OvertakingInv'
  <2> SUFFICES ASSUME TimingTypeOK, OvertakingInv, TNext
               PROVE  OvertakingInv'
    OBVIOUS
  <2>1. (pc' = "setup" => i' = 0) /\ (pc' = "asleep" => i' = SCHED_MAX_TASKS)
    BY LoopIndexStep
  <2>2. \A s \in Slot : Suffered(s)'
    BY SufferedStep
  <2> QED
    BY <2>1, <2>2 DEF OvertakingInv
<1>2. OvertakingInv /\ UNCHANGED tvars => OvertakingInv'
  BY DEF OvertakingInv, Suffered, Visited, Ready, Used, tvars
<1> QED
  BY <1>1, <1>2

(* Between becoming ready and being started a task is overtaken at most once
   by each other slot, and slept on at most once. *)
THEOREM OvertakingIsBounded == TSpec => []BoundedOvertaking
BY OvertakingInit, OvertakingStep, OvertakingBounds, TimingTypeCorrect, PTL DEF TSpec
=============================================================================

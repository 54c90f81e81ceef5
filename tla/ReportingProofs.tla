----------------------------- MODULE ReportingProofs -----------------------------
(***************************************************************************)
(* Reporting, for every size of buffers, reports and retries: the types,    *)
(* and the invariants that the runs check on a small instance.              *)
(***************************************************************************)
EXTENDS Reporting, TLAPS

----------------------------------------------------------------------------
\* The strengthening. It has a part for the stream, one for what is open and
\* one for the counters.

\* Between a report's start and its end the unconfirmed bytes that were read are
\* in the report; at any other time none have been read.
StreamInv ==
    /\ pc \notin {"fill", "send"} \/ memfailed => lir = committed
    /\ \A b \in 0 .. committed - 1 : b \in delivered
    /\ pc \in {"fill", "send"} => \A b \in committed .. lir - 1 : b \in contents
    /\ pc \in {"start", "fill"} /\ ~memfailed => available <= ecr - lir

SessionInv ==
    /\ pc \in {"idle", "power"} => modem # "session"
    /\ pc = "idle" => ~spi
    /\ pc \in {"start", "fill", "send"} => spi = ~memfailed
    /\ pc \in {"fill", "send"} => modem = "session" /\ filled + available = announced
    /\ pc = "send" => available = 0

TriesInv ==
    /\ pc = "power" => tries <= STOR_FUN_MAX_RETRIES
    /\ pc \in {"start", "send"} => tries < START_COMM_MAX_RETRIES
    /\ pc # "idle" /\ oneshot => jobs > 0

RInv == TypeOK /\ StreamInv /\ SessionInv /\ TriesInv

----------------------------------------------------------------------------
\* What a trimmed report holds is a length of a report.
LEMMA TrimmedLength ==
    ASSUME ReportingAssumption
    PROVE  MAX_BYTES_PER_REPORT - (MAX_BYTES_PER_REPORT % SAMPLE_SIZE)
               \in 0 .. MAX_BYTES_PER_REPORT
<1>1. MAX_BYTES_PER_REPORT \in Nat \ {0} /\ SAMPLE_SIZE \in Nat \ {0}
      /\ SAMPLE_SIZE <= MAX_BYTES_PER_REPORT
  BY DEF ReportingAssumption
<1>2. MAX_BYTES_PER_REPORT % SAMPLE_SIZE \in 0 .. SAMPLE_SIZE - 1
  BY <1>1
<1>. QED  BY <1>1, <1>2

\* A buffer is at least a byte and at most what is left of the report.
LEMMA FetchBounds ==
    ASSUME ReportingAssumption, TypeOK, available # 0
    PROVE  FetchLen \in 1 .. available
  BY DEF ReportingAssumption, TypeOK, FetchLen

LEMMA RInit == ReportingAssumption /\ Init => RInv
<1>. SUFFICES ASSUME ReportingAssumption, Init
              PROVE  RInv
  OBVIOUS
<1>1. TypeOK
  <2>1. /\ memfailed \in BOOLEAN /\ samples_remaining \in BOOLEAN
        /\ oneshot \in BOOLEAN /\ spi \in BOOLEAN
    BY DEF Init
  <2>2. contents \subseteq 0 .. MAX_STREAM - 1 /\ delivered \subseteq 0 .. MAX_STREAM - 1
    BY DEF Init
  <2>. QED  BY <2>1, <2>2 DEF ReportingAssumption, Init, TypeOK, PC, Modem
<1>2. StreamInv
  BY DEF Init, StreamInv
<1>3. SessionInv /\ TriesInv
  BY DEF Init, SessionInv, TriesInv
<1>. QED  BY <1>1, <1>2, <1>3 DEF RInv

----------------------------------------------------------------------------
LEMMA ProduceStep ==
    ASSUME ReportingAssumption, RInv, NEW n \in 1 .. MAX_STREAM, Produce(n)
    PROVE  RInv'
<1>1. TypeOK'
  BY DEF ReportingAssumption, RInv, TypeOK, Produce, session
<1>2. StreamInv'
  BY DEF ReportingAssumption, RInv, TypeOK, StreamInv, Produce, session
<1>3. SessionInv' /\ TriesInv'
  BY DEF RInv, SessionInv, TriesInv, Produce, session
<1>. QED  BY <1>1, <1>2, <1>3 DEF RInv

LEMMA ActivateStep ==
    ASSUME ReportingAssumption, RInv, NEW shot \in BOOLEAN, Activate(shot)
    PROVE  RInv'
<1>1. TypeOK'
  <2>1. /\ memfailed' \in BOOLEAN
        /\ samples_remaining' \in BOOLEAN
        /\ oneshot' \in BOOLEAN
        /\ spi' \in BOOLEAN
    BY DEF RInv, TypeOK, Activate
  <2>. QED
    BY <2>1 DEF ReportingAssumption, RInv, TypeOK, Activate, session, stream, PC
<1>2. StreamInv'
  BY DEF RInv, TypeOK, StreamInv, Activate, session, stream
<1>3. SessionInv' /\ TriesInv'
  BY DEF ReportingAssumption, RInv, SessionInv, TypeOK, TriesInv, Activate, session, stream
<1>. QED  BY <1>1, <1>2, <1>3 DEF RInv

\* The loop over stor_start ends in a decision that fits the stream.
LEMMA DecideStep ==
    ASSUME ReportingAssumption, RInv, pc = "power", NEW failed \in BOOLEAN, Decide(failed),
           UNCHANGED <<ecr, committed, connection_retries, oneshot, jobs, session, delivered,
                       readFaults>>
    PROVE  RInv'
<1>. DEFINE filler == failed \/ ecr = lir
            wanted == IF filler THEN SAMPLE_SIZE ELSE ecr - lir
            trimmed == MAX_BYTES_PER_REPORT - (MAX_BYTES_PER_REPORT % SAMPLE_SIZE)
<1>1. trimmed \in 0 .. MAX_BYTES_PER_REPORT
  BY TrimmedLength
<1>2. wanted \in Nat
  BY DEF ReportingAssumption, RInv, TypeOK
<1>3. /\ memfailed' = filler
      /\ spi' = ~filler
      /\ samples_remaining' = (wanted > MAX_BYTES_PER_REPORT)
      /\ available' = IF wanted > MAX_BYTES_PER_REPORT THEN trimmed ELSE wanted
      /\ lir' = IF filler THEN committed ELSE lir
      /\ pc' = "start"
      /\ tries' = 0
  BY DEF Decide
<1>4. available' \in 0 .. MAX_BYTES_PER_REPORT /\ available' <= wanted
  <2>. HIDE DEF wanted, trimmed
  <2>. QED  BY <1>1, <1>2, <1>3 DEF ReportingAssumption
<1>5. lir' = committed /\ lir = committed
  BY <1>3 DEF RInv, StreamInv
<1>6. TypeOK'
  <2>. HIDE DEF filler, wanted, trimmed
  <2>. filler \in BOOLEAN
    BY DEF filler
  <2>. QED  BY <1>3, <1>4, <1>5 DEF ReportingAssumption, RInv, TypeOK, session, PC
<1>7. StreamInv'
  <2>1. ~memfailed' => available' <= ecr' - lir'
    BY <1>3, <1>4
  <2>. QED  BY <1>3, <1>5, <2>1 DEF RInv, StreamInv
<1>8. SessionInv'
  <2>1. spi' = ~memfailed'
    BY <1>3
  <2>. QED  BY <1>3, <2>1 DEF SessionInv
<1>9. TriesInv'
  BY <1>3 DEF ReportingAssumption, RInv, TriesInv
<1>. QED  BY <1>6, <1>7, <1>8, <1>9 DEF RInv

LEMMA PowerStep ==
    ASSUME ReportingAssumption, RInv, Power
    PROVE  RInv'
<1>1. CASE StorStartOk
  <2>1. (tries = STOR_FUN_MAX_RETRIES) \in BOOLEAN
    OBVIOUS
  <2>. QED  BY <1>1, <2>1, DecideStep DEF StorStartOk
<1>2. CASE StorStartFails /\ tries >= STOR_FUN_MAX_RETRIES
  <2>1. ~(tries < STOR_FUN_MAX_RETRIES)
    BY <1>2 DEF ReportingAssumption, RInv, TypeOK
  <2>2. Decide(TRUE)
    BY <1>2, <2>1, Zenon DEF StorStartFails
  <2>3. TRUE \in BOOLEAN
    OBVIOUS
  <2>. QED  BY <1>2, <2>2, <2>3, DecideStep DEF StorStartFails
<1>3. CASE StorStartFails /\ tries < STOR_FUN_MAX_RETRIES
  <2>1. TypeOK'
    BY <1>3 DEF StorStartFails, ReportingAssumption, RInv, TypeOK, session, PC
  <2>2. StreamInv' /\ SessionInv' /\ TriesInv'
    BY <1>3 DEF StorStartFails, ReportingAssumption, RInv, TypeOK, StreamInv, SessionInv,
                TriesInv, session
  <2>. QED  BY <2>1, <2>2 DEF RInv
<1>4. (StorStartFails /\ tries >= STOR_FUN_MAX_RETRIES)
      \/ (StorStartFails /\ tries < STOR_FUN_MAX_RETRIES) \/ StorStartOk
  BY DEF Power, ReportingAssumption, RInv, TypeOK
<1>. QED  BY <1>1, <1>2, <1>3, <1>4

----------------------------------------------------------------------------
\* The ways out keep the counters in range, and give the one-shot's slot back.
LEMMA JobsStep ==
    ASSUME ReportingAssumption, RInv, pc # "idle", NEW added \in BOOLEAN, Jobs(added)
    PROVE  jobs' \in 0 .. FREE_SLOTS
  BY DEF ReportingAssumption, RInv, TypeOK, TriesInv, Jobs

LEMMA ReturnStep ==
    ASSUME ReportingAssumption, RInv, pc # "idle", Return \/ ReturnRescheduled
    PROVE  /\ pc' = "idle"
           /\ oneshot' = oneshot
           /\ jobs' \in 0 .. FREE_SLOTS
           /\ connection_retries' \in 0 .. RETRY_CONNECTION_MAX_TRIES
<1>1. CASE Return
  BY <1>1, JobsStep DEF Return, RInv, TypeOK
<1>2. CASE ReturnRescheduled
  <2>1. (connection_retries < RETRY_CONNECTION_MAX_TRIES) \in BOOLEAN
    OBVIOUS
  <2>2. jobs' \in 0 .. FREE_SLOTS
    BY <1>2, <2>1, JobsStep DEF ReturnRescheduled
  <2>. QED
    BY <1>2, <2>2 DEF ReturnRescheduled, ReportingAssumption, RInv, TypeOK
<1>. QED  BY <1>1, <1>2

\* A task that gives up leaves the stream where the confirmed bytes end.
LEMMA GivenUpStep ==
    ASSUME ReportingAssumption, RInv, pc \in {"start", "send"},
           Return \/ ReturnRescheduled, Shutdown, Abort,
           tries' \in 0 .. STOR_FUN_MAX_RETRIES + START_COMM_MAX_RETRIES,
           delivered' \in {delivered, delivered \cup contents},
           UNCHANGED <<memfailed, available, samples_remaining, readFaults>>
    PROVE  RInv'
<1>1. /\ pc' = "idle"
      /\ oneshot' = oneshot
      /\ jobs' \in 0 .. FREE_SLOTS
      /\ connection_retries' \in 0 .. RETRY_CONNECTION_MAX_TRIES
  BY ReturnStep
<1>2. TypeOK'
  <2>1. /\ memfailed' \in BOOLEAN
        /\ samples_remaining' \in BOOLEAN
        /\ oneshot' \in BOOLEAN
        /\ spi' \in BOOLEAN
    BY <1>1 DEF RInv, TypeOK, Abort
  <2>2. /\ ecr' = ecr /\ lir' = committed /\ committed' = committed
        /\ modem' \in {"off", "on"} /\ filled' = 0 /\ contents' = {} /\ announced' = announced
    BY DEF Abort, Shutdown
  <2>3. delivered' \subseteq 0 .. MAX_STREAM - 1
    BY DEF RInv, TypeOK
  <2>. QED
    BY <1>1, <2>1, <2>2, <2>3 DEF ReportingAssumption, RInv, TypeOK, PC, Modem
<1>3. StreamInv'
  BY <1>1 DEF RInv, TypeOK, StreamInv, Shutdown, Abort
<1>4. SessionInv' /\ TriesInv'
  BY <1>1 DEF RInv, SessionInv, TriesInv, Shutdown, Abort
<1>. QED  BY <1>2, <1>3, <1>4 DEF RInv

LEMMA StartStep ==
    ASSUME ReportingAssumption, RInv, Start
    PROVE  RInv'
<1>1. CASE CommStartOk
  <2>1. TypeOK'
    BY <1>1 DEF CommStartOk, ReportingAssumption, RInv, TypeOK, stream, PC, Modem
  <2>2. StreamInv'
    BY <1>1 DEF CommStartOk, RInv, TypeOK, StreamInv, stream
  <2>3. SessionInv' /\ TriesInv'
    BY <1>1 DEF CommStartOk, RInv, TypeOK, SessionInv, TriesInv, stream
  <2>. QED  BY <2>1, <2>2, <2>3 DEF RInv
<1>2. CASE CommStartRetry /\ tries + 1 < START_COMM_MAX_RETRIES
  <2>1. TypeOK'
    <3>1. tries' \in 0 .. STOR_FUN_MAX_RETRIES + START_COMM_MAX_RETRIES /\ modem' \in Modem
      BY <1>2 DEF CommStartRetry, ReportingAssumption, RInv, TypeOK, Modem
    <3>. QED
      BY <1>2, <3>1 DEF CommStartRetry, RInv, TypeOK, stream
  <2>2. StreamInv'
    BY <1>2 DEF CommStartRetry, RInv, TypeOK, StreamInv, stream
  <2>3. SessionInv' /\ TriesInv'
    BY <1>2 DEF CommStartRetry, RInv, TypeOK, SessionInv, TriesInv, stream
  <2>. QED  BY <2>1, <2>2, <2>3 DEF RInv
<1>3. CASE CommStartRetry /\ ~(tries + 1 < START_COMM_MAX_RETRIES)
  <2>1. tries' \in 0 .. STOR_FUN_MAX_RETRIES + START_COMM_MAX_RETRIES
    BY <1>3 DEF CommStartRetry, ReportingAssumption, RInv, TypeOK, TriesInv
  <2>. QED  BY <1>3, <2>1, GivenUpStep DEF CommStartRetry
<1>4. CASE CommStartLater
  BY <1>4, GivenUpStep DEF CommStartLater, RInv, TypeOK
<1>. QED  BY <1>1, <1>2, <1>3, <1>4 DEF Start

----------------------------------------------------------------------------
LEMMA FillStep ==
    ASSUME ReportingAssumption, RInv, Fill
    PROVE  RInv'
<1>1. CASE FillFiller
  <2>1. FetchLen \in 1 .. available
    BY <1>1, FetchBounds DEF FillFiller, RInv
  <2>2. TypeOK'
    BY <1>1, <2>1 DEF FillFiller, FillReport, ReportingAssumption, RInv, TypeOK, stream
  <2>3. StreamInv'
    BY <1>1, <2>1 DEF FillFiller, FillReport, RInv, TypeOK, StreamInv, stream
  <2>4. SessionInv' /\ TriesInv'
    BY <1>1, <2>1 DEF FillFiller, FillReport, RInv, TypeOK, SessionInv, TriesInv, stream
  <2>. QED  BY <2>2, <2>3, <2>4 DEF RInv
<1>2. CASE ReadOk \/ \E skip \in 0 .. FETCH_SIZE : ReadFails(skip)
  <2>1. PICK n \in Nat :
          /\ n <= FetchLen /\ lir + n <= ecr
          /\ lir' = lir + n
          /\ FillReport(lir .. lir + n - 1)
    <3>1. FetchLen \in 1 .. available
      BY <1>2, FetchBounds DEF ReadOk, ReadFails, RInv
    <3>2. CASE ReadOk
      <4>1. FetchLen \in Nat /\ lir + FetchLen <= ecr
        BY <3>1, <3>2 DEF ReadOk, RInv, TypeOK
      <4>. QED  BY <3>2, <4>1 DEF ReadOk, RInv, TypeOK
    <3>3. CASE \E skip \in 0 .. FETCH_SIZE : ReadFails(skip)
      BY <3>3 DEF ReadFails
    <3>. QED  BY <1>2, <3>2, <3>3
  <2>2. /\ pc = "fill" /\ available # 0 /\ ~memfailed
        /\ tries' = 0
        /\ readFaults' \in 0 .. MAX_READ_FAULTS
        /\ UNCHANGED <<ecr, committed, pc, memfailed, samples_remaining,
                       connection_retries, oneshot, jobs, spi, delivered>>
    BY <1>2 DEF ReadOk, ReadFails, ReportingAssumption, RInv, TypeOK
  <2>3. FetchLen \in 1 .. available
    BY <2>2, FetchBounds DEF RInv
  <2>4. /\ filled' = filled + FetchLen
        /\ contents' = contents \cup (lir .. lir + n - 1)
        /\ available' = available - FetchLen
        /\ UNCHANGED <<modem, announced>>
    BY <2>1 DEF FillReport
  <2>5. available' \in 0 .. MAX_BYTES_PER_REPORT /\ filled' \in Nat
    BY <2>3, <2>4 DEF RInv, TypeOK
  <2>6. contents' \subseteq 0 .. MAX_STREAM - 1
    <3>1. lir + n <= MAX_STREAM
      BY <2>1 DEF ReportingAssumption, RInv, TypeOK
    <3>2. lir .. lir + n - 1 \subseteq 0 .. MAX_STREAM - 1
      BY <2>1, <3>1 DEF ReportingAssumption, RInv, TypeOK
    <3>. QED  BY <2>4, <3>2 DEF RInv, TypeOK
  <2>7. TypeOK'
    BY <2>1, <2>2, <2>4, <2>5, <2>6 DEF ReportingAssumption, RInv, TypeOK
  <2>8. StreamInv'
    <3>1. \A b \in committed .. lir + n - 1 : b \in contents \cup (lir .. lir + n - 1)
      BY <2>1, <2>2 DEF RInv, TypeOK, StreamInv
    <3>2. available' <= ecr - lir'
      BY <2>1, <2>2, <2>3, <2>4 DEF RInv, TypeOK, StreamInv
    <3>3. \A b \in committed' .. lir' - 1 : b \in contents'
      <4>1. committed' = committed /\ lir' - 1 = lir + n - 1
        BY <2>1, <2>2 DEF RInv, TypeOK
      <4>. QED  BY <2>4, <3>1, <4>1, Zenon
    <3>4. \A b \in 0 .. committed' - 1 : b \in delivered'
      BY <2>2 DEF RInv, StreamInv
    <3>. QED  BY <2>2, <3>2, <3>3, <3>4 DEF StreamInv
  <2>9. SessionInv' /\ TriesInv'
    BY <2>2, <2>3, <2>4 DEF RInv, TypeOK, SessionInv, TriesInv
  <2>. QED  BY <2>7, <2>8, <2>9 DEF RInv
<1>3. CASE Filled
  <2>1. TypeOK'
    BY <1>3 DEF Filled, ReportingAssumption, RInv, TypeOK, stream, session, PC
  <2>2. StreamInv'
    BY <1>3 DEF Filled, RInv, TypeOK, StreamInv, stream, session
  <2>3. SessionInv' /\ TriesInv'
    BY <1>3 DEF Filled, ReportingAssumption, RInv, TypeOK, SessionInv, TriesInv, stream, session
  <2>. QED  BY <2>1, <2>2, <2>3 DEF RInv
<1>. QED  BY <1>1, <1>2, <1>3 DEF Fill

LEMMA SendStep ==
    ASSUME ReportingAssumption, RInv, Send
    PROVE  RInv'
<1>1. CASE SendOk
  <2>1. jobs' \in 0 .. FREE_SLOTS
    <3>1. (samples_remaining /\ connection_retries < RETRY_CONNECTION_MAX_TRIES - 1) \in BOOLEAN
      BY DEF RInv, TypeOK
    <3>. QED  BY <1>1, <3>1, JobsStep DEF SendOk
  <2>2. TypeOK'
    <3>1. /\ memfailed' \in BOOLEAN
        /\ samples_remaining' \in BOOLEAN
        /\ oneshot' \in BOOLEAN
        /\ spi' \in BOOLEAN
      BY <1>1 DEF SendOk, RInv, TypeOK
    <3>2. committed' \in 0 .. lir /\ connection_retries' \in 0 .. RETRY_CONNECTION_MAX_TRIES
      BY <1>1 DEF SendOk, ReportingAssumption, RInv, TypeOK
    <3>3. contents' = {} /\ delivered' \subseteq 0 .. MAX_STREAM - 1
      BY <1>1 DEF SendOk, Deliver, Shutdown, RInv, TypeOK
    <3>. QED
      BY <1>1, <2>1, <3>1, <3>2, <3>3 DEF SendOk, Shutdown, RInv, TypeOK, PC, Modem
  <2>3. StreamInv'
    <3>1. \A b \in 0 .. lir - 1 : b \in delivered \cup contents
      BY <1>1 DEF SendOk, RInv, TypeOK, StreamInv
    <3>. QED  BY <1>1, <3>1 DEF SendOk, Deliver, Shutdown, RInv, TypeOK, StreamInv
  <2>4. SessionInv' /\ TriesInv'
    BY <1>1 DEF SendOk, Shutdown, RInv, SessionInv, TriesInv
  <2>. QED  BY <2>2, <2>3, <2>4 DEF RInv
<1>2. CASE SendRetry /\ tries + 1 < START_COMM_MAX_RETRIES
  <2>1. TypeOK'
    <3>1. tries' \in 0 .. STOR_FUN_MAX_RETRIES + START_COMM_MAX_RETRIES
      BY <1>2 DEF SendRetry, ReportingAssumption, RInv, TypeOK
    <3>2. delivered' \subseteq 0 .. MAX_STREAM - 1
      BY <1>2 DEF SendRetry, Deliver, RInv, TypeOK
    <3>. QED
      BY <1>2, <3>1, <3>2 DEF SendRetry, RInv, TypeOK, stream, session
  <2>2. StreamInv'
    BY <1>2 DEF SendRetry, Deliver, RInv, TypeOK, StreamInv, stream, session
  <2>3. SessionInv' /\ TriesInv'
    BY <1>2 DEF SendRetry, RInv, TypeOK, SessionInv, TriesInv, stream, session
  <2>. QED  BY <2>1, <2>2, <2>3 DEF RInv
<1>3. CASE SendRetry /\ ~(tries + 1 < START_COMM_MAX_RETRIES)
  <2>1. tries' \in 0 .. STOR_FUN_MAX_RETRIES + START_COMM_MAX_RETRIES
    BY <1>3 DEF SendRetry, ReportingAssumption, RInv, TypeOK, TriesInv
  <2>. QED  BY <1>3, <2>1, GivenUpStep DEF SendRetry, Deliver
<1>4. CASE SendLater
  BY <1>4, GivenUpStep DEF SendLater, Deliver, RInv, TypeOK
<1>. QED  BY <1>1, <1>2, <1>3, <1>4 DEF Send

----------------------------------------------------------------------------
LEMMA RStep == ReportingAssumption /\ RInv /\ [Next]_vars => RInv'
<1>. SUFFICES ASSUME ReportingAssumption, RInv, [Next]_vars
              PROVE  RInv'
  OBVIOUS
<1>1. ASSUME NEW n \in 1 .. MAX_STREAM, Produce(n)
      PROVE  RInv'
  BY <1>1, ProduceStep
<1>2. ASSUME NEW shot \in BOOLEAN, Activate(shot)
      PROVE  RInv'
  BY <1>2, ActivateStep
<1>3. CASE Task
  BY <1>3, PowerStep, StartStep, FillStep, SendStep DEF Task
<1>4. CASE UNCHANGED vars
  BY <1>4 DEF vars, stream, session, RInv, TypeOK, StreamInv, SessionInv, TriesInv
<1>. QED  BY <1>1, <1>2, <1>3, <1>4 DEF Next

\* The strengthening holds in every reachable state.
THEOREM ReportingInvariant == Spec => []RInv
<1>1. Init => RInv
  BY ReportingAssumption, RInit
<1>2. RInv /\ [Next]_vars => RInv'
  BY ReportingAssumption, RStep
<1>. QED  BY <1>1, <1>2, PTL DEF Spec

\* Type correctness: the counters stay in range, and the confirmed, the read and
\* the produced part of the stream lie in this order.
THEOREM ReportingTypeCorrect == Spec => []TypeOK
<1>1. RInv => TypeOK
  BY DEF RInv
<1>. QED  BY <1>1, ReportingInvariant, PTL

\* Whatever the memory, the module and the server do, a byte is confirmed only
\* if the server received it.
THEOREM NothingConfirmedIsLost == Spec => []ConfirmedDelivered
<1>1. RInv => ConfirmedDelivered
  BY DEF RInv, StreamInv, ConfirmedDelivered
<1>. QED  BY <1>1, ReportingInvariant, PTL

\* The retry loop over stor_read_comp (l.186) is never needed: a failed read
\* returns 0, and no other read is short.
THEOREM NoReadIsShort == Spec => []ReadsInFull
<1>1. RInv => ReadsInFull
  BY DEF RInv, StreamInv, ReadsInFull
<1>. QED  BY <1>1, ReportingInvariant, PTL

\* A report is dispatched in the session opened for it, with the announced length.
THEOREM LengthsAgree == Spec => []SentAsAnnounced
<1>1. RInv => SentAsAnnounced
  BY DEF RInv, TypeOK, SessionInv, SentAsAnnounced
<1>. QED  BY <1>1, ReportingInvariant, PTL

\* Every way out of the task turns the SPI bus off and takes back what was read
\* and not confirmed.
THEOREM EveryReturnReleases == Spec => []ReleasesStore
<1>1. RInv => ReleasesStore
  BY DEF RInv, StreamInv, SessionInv, ReleasesStore
<1>. QED  BY <1>1, ReportingInvariant, PTL
=============================================================================

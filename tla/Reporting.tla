-------------------------------- MODULE Reporting --------------------------------
(***************************************************************************)
(* reporting_task of src/CommunicationModule/reporting_task.cpp: take the   *)
(* unconfirmed bytes of the compressed stream, post them, and confirm them  *)
(* only if the server said so.                                              *)
(*                                                                          *)
(* The storage manager is used as ByteLog promises (SampleStore implements  *)
(* it): a byte is its place in the stream, adr_lir_committed_comp <=        *)
(* adr_lir_comp <= adr_ecr_comp are places.  The communication library is   *)
(* used through the contract of communication.h: what its calls may return  *)
(* and what they then leave of the module and of the report.  The scheduler *)
(* is reduced to the one-shot reporting tasks waiting in it.                *)
(***************************************************************************)
EXTENDS Integers, FiniteSets

CONSTANTS
    SAMPLE_SIZE,                 \* length of the filler report (19)
    STOR_FUN_MAX_RETRIES,        \* 3
    START_COMM_MAX_RETRIES,      \* 5
    RETRY_CONNECTION_MAX_TRIES,  \* 0 in the code
    MAX_BYTES_PER_REPORT,        \* 65536 (GSM) or 55 (LoRa)
    FETCH_SIZE,                  \* FETCH_BUFFER_MAX_SIZE / 2 (256)
    FREE_SLOTS,                  \* slots of the scheduler the cyclic tasks leave
    MAX_STREAM,                  \* bound: bytes ever produced
    MAX_READ_FAULTS              \* bound: failures of stor_read_comp

ASSUME ReportingAssumption ==
    /\ SAMPLE_SIZE \in 1 .. MAX_BYTES_PER_REPORT
    /\ STOR_FUN_MAX_RETRIES \in Nat \ {0}
    /\ START_COMM_MAX_RETRIES \in Nat \ {0}
    /\ RETRY_CONNECTION_MAX_TRIES \in Nat
    /\ MAX_BYTES_PER_REPORT \in Nat
    /\ FETCH_SIZE \in Nat \ {0}
    /\ FREE_SLOTS \in Nat
    /\ MAX_STREAM \in Nat
    /\ MAX_READ_FAULTS \in Nat

VARIABLES
    ecr, lir, committed,  \* the stream: produced, read and confirmed up to here
    pc,                   \* where reporting_task is
    tries,                \* of the loop it is in
    memfailed,            \* the report is a filler
    available,            \* bytes of the report still to be filled in
    samples_remaining,    \* the report was trimmed
    connection_retries,
    oneshot, jobs,        \* this run is a one-shot; one-shots in the scheduler
    spi,                  \* the SPI bus to the EEPROM is on
    modem,                \* the communication module: off, on (with whatever it was
                          \* left with), or in the session opened for a report
    announced,            \* the length given to comm_start_report
    filled, contents,     \* the bytes filled in: how many, and which of the stream
    delivered,            \* stream bytes in the reports the server received
    readFaults            \* failed reads

stream == <<ecr, lir, committed>>
session == <<modem, announced, filled, contents>>
vars == <<stream, pc, tries, memfailed, available, samples_remaining,
          connection_retries, oneshot, jobs, spi, session, delivered, readFaults>>

PC == {"idle", "power", "start", "fill", "send"}
Modem == {"off", "on", "session"}

TypeOK ==
    /\ ecr \in 0 .. MAX_STREAM
    /\ lir \in 0 .. ecr
    /\ committed \in 0 .. lir
    /\ pc \in PC
    /\ tries \in 0 .. STOR_FUN_MAX_RETRIES + START_COMM_MAX_RETRIES
    /\ memfailed \in BOOLEAN
    /\ samples_remaining \in BOOLEAN
    /\ oneshot \in BOOLEAN
    /\ spi \in BOOLEAN
    /\ available \in 0 .. MAX_BYTES_PER_REPORT
    /\ connection_retries \in 0 .. RETRY_CONNECTION_MAX_TRIES
    /\ jobs \in 0 .. FREE_SLOTS
    /\ modem \in Modem
    /\ announced \in Nat
    /\ filled \in Nat
    /\ contents \subseteq 0 .. MAX_STREAM - 1
    /\ delivered \subseteq 0 .. MAX_STREAM - 1
    /\ readFaults \in 0 .. MAX_READ_FAULTS

Init ==
    /\ ecr = 0 /\ lir = 0 /\ committed = 0
    /\ pc = "idle"
    /\ tries = 0
    /\ memfailed = FALSE
    /\ available = 0
    /\ samples_remaining = FALSE
    /\ connection_retries = 0
    /\ oneshot = FALSE /\ jobs = 0
    /\ spi = FALSE
    /\ modem \in {"off", "on"}  \* comm_setup does not see whether it went off
    /\ announced = 0 /\ filled = 0 /\ contents = {}
    /\ delivered = {}
    /\ readFaults = 0

----------------------------------------------------------------------------
\* The parts of the ways out.

\* sched_add_task of a one-shot; a full table ignores it. A one-shot that is
\* running gives its slot back only when it returns.
Jobs(added) ==
    LET after == IF added /\ jobs < FREE_SLOTS THEN jobs + 1 ELSE jobs
    IN jobs' = IF oneshot THEN after - 1 ELSE after

\* Return, after reschedule().
ReturnRescheduled ==
    /\ pc' = "idle"
    /\ Jobs(connection_retries < RETRY_CONNECTION_MAX_TRIES)
    /\ connection_retries' = IF connection_retries < RETRY_CONNECTION_MAX_TRIES
                             THEN connection_retries + 1 ELSE connection_retries
    /\ UNCHANGED oneshot

Return ==
    /\ pc' = "idle"
    /\ Jobs(FALSE)
    /\ UNCHANGED <<connection_retries, oneshot>>

\* stor_abort (skipped when the report is a filler: it was called then) and
\* stor_abort_comp.
Abort ==
    /\ spi' = IF memfailed THEN spi ELSE FALSE
    /\ lir' = committed
    /\ UNCHANGED <<ecr, committed>>

\* The library tries to turn the module off, and the session's report is given
\* up. The module may stay on: comm_abort may return COMM_ERR_RETRY, which the
\* task does not look at, and comm_start_report and comm_send_report do not look
\* at what their own shutdown returns.
Shutdown ==
    /\ modem' \in {"off", "on"}
    /\ filled' = 0 /\ contents' = {}
    /\ UNCHANGED announced

----------------------------------------------------------------------------
\* Between two runs, sampling_task compresses another n bytes.
Produce(n) ==
    /\ pc = "idle"
    /\ ecr + n <= MAX_STREAM
    /\ ecr' = ecr + n
    /\ UNCHANGED <<lir, committed, pc, tries, memfailed, available, samples_remaining,
                   connection_retries, oneshot, jobs, spi, session, delivered,
                   readFaults>>

\* The scheduler calls reporting_task from its cyclic slot or from a one-shot.
Activate(shot) ==
    /\ pc = "idle"
    /\ shot => jobs > 0
    /\ pc' = "power"
    /\ oneshot' = shot
    /\ tries' = 0
    /\ memfailed' = FALSE
    /\ samples_remaining' = FALSE
    /\ UNCHANGED <<stream, available, connection_retries, jobs, spi, session, delivered,
                   readFaults>>

\* Mutation of Decide: stor_abort is dropped.
DecideKeepsBus(failed) ==
    LET filler == failed \/ ecr = lir
        wanted == IF filler THEN SAMPLE_SIZE ELSE ecr - lir
        trim == wanted > MAX_BYTES_PER_REPORT
    IN /\ memfailed' = filler
       /\ spi' = TRUE
       /\ samples_remaining' = trim
       /\ available' = IF trim
                       THEN MAX_BYTES_PER_REPORT - (MAX_BYTES_PER_REPORT % SAMPLE_SIZE)
                       ELSE wanted
       /\ lir' = IF filler THEN committed ELSE lir
       /\ pc' = "start"
       /\ tries' = 0

\* What the task decides to report once the loop over stor_start has ended:
\* a filler if the memory failed or there is nothing to send.
Decide(failed) ==
    LET filler == failed \/ ecr = lir
        wanted == IF filler THEN SAMPLE_SIZE ELSE ecr - lir
        trim == wanted > MAX_BYTES_PER_REPORT
    IN /\ memfailed' = filler
       /\ spi' = ~filler
       /\ samples_remaining' = trim
       /\ available' = IF trim
                       THEN MAX_BYTES_PER_REPORT - (MAX_BYTES_PER_REPORT % SAMPLE_SIZE)
                       ELSE wanted
       /\ lir' = IF filler THEN committed ELSE lir
       /\ pc' = "start"
       /\ tries' = 0

\* stor_start succeeds; after STOR_FUN_MAX_RETRIES failures that is too late.
StorStartOk ==
    /\ pc = "power"
    /\ Decide(tries = STOR_FUN_MAX_RETRIES)
    /\ UNCHANGED <<ecr, committed, connection_retries, oneshot, jobs, session, delivered,
                   readFaults>>

StorStartFails ==
    /\ pc = "power"
    /\ IF tries < STOR_FUN_MAX_RETRIES
       THEN /\ tries' = tries + 1
            /\ spi' = TRUE
            /\ UNCHANGED <<lir, pc, memfailed, available, samples_remaining>>
       ELSE Decide(TRUE)
    /\ UNCHANGED <<ecr, committed, connection_retries, oneshot, jobs, session, delivered,
                   readFaults>>

----------------------------------------------------------------------------
\* comm_start_report opened a session for available bytes.
CommStartOk ==
    /\ pc = "start"
    /\ modem' = "session"
    /\ announced' = available
    /\ filled' = 0 /\ contents' = {}
    /\ pc' = "fill"
    /\ UNCHANGED <<stream, tries, memfailed, available, samples_remaining,
                   connection_retries, oneshot, jobs, spi, delivered, readFaults>>

\* Mutation of CommStartRetry: the tries are not counted.
CommStartRetryForever ==
    /\ pc = "start"
    /\ UNCHANGED tries
    /\ IF tries + 1 < START_COMM_MAX_RETRIES
       THEN /\ modem' \in {"off", "on"}
            /\ UNCHANGED <<announced, filled, contents, stream, spi, pc, jobs,
                           connection_retries, oneshot>>
       ELSE ReturnRescheduled /\ Shutdown /\ Abort
    /\ UNCHANGED <<memfailed, available, samples_remaining, delivered, readFaults>>

\* COMM_ERR_RETRY: the module may have been left on. The last try ends the task.
CommStartRetry ==
    /\ pc = "start"
    /\ tries' = tries + 1
    /\ IF tries + 1 < START_COMM_MAX_RETRIES
       THEN /\ modem' \in {"off", "on"}
            /\ UNCHANGED <<announced, filled, contents, stream, spi, pc, jobs,
                           connection_retries, oneshot>>
       ELSE ReturnRescheduled /\ Shutdown /\ Abort
    /\ UNCHANGED <<memfailed, available, samples_remaining, delivered, readFaults>>

\* COMM_ERR_RETRY_LATER: the library has tried to shut the module down.
CommStartLater ==
    /\ pc = "start"
    /\ ReturnRescheduled /\ Shutdown /\ Abort
    /\ UNCHANGED <<tries, memfailed, available, samples_remaining, delivered,
                   readFaults>>

----------------------------------------------------------------------------
\* The report is filled in, a buffer at a time.

FetchLen == IF FETCH_SIZE > available THEN available ELSE FETCH_SIZE

\* comm_fill_report of a buffer that holds these stream bytes.
FillReport(bytes) ==
    /\ filled' = filled + FetchLen
    /\ contents' = contents \cup bytes
    /\ available' = available - FetchLen
    /\ UNCHANGED <<modem, announced>>

FillFiller ==
    /\ pc = "fill" /\ available # 0
    /\ memfailed
    /\ FillReport({})
    /\ UNCHANGED <<stream, pc, tries, memfailed, samples_remaining, connection_retries,
                   oneshot, jobs, spi, delivered, readFaults>>

\* stor_read_comp returns the bytes asked for. (ReadsInFull: it has as many, so
\* that the loop of l.186 never goes round and the branch of l.187 is never taken.)
ReadOk ==
    /\ pc = "fill" /\ available # 0
    /\ ~memfailed
    /\ ecr - lir >= FetchLen
    /\ lir' = lir + FetchLen
    /\ FillReport(lir .. lir + FetchLen - 1)
    /\ tries' = 0
    /\ UNCHANGED <<ecr, committed, pc, memfailed, samples_remaining, connection_retries,
                   oneshot, jobs, spi, delivered, readFaults>>

\* Mutation of ReadFails: a failed buffer is left out of the report.
ReadFailsLeftOut(skip) ==
    /\ pc = "fill" /\ available # 0
    /\ ~memfailed
    /\ skip <= FetchLen /\ lir + skip <= ecr
    /\ readFaults < MAX_READ_FAULTS
    /\ readFaults' = readFaults + 1
    /\ lir' = lir + skip
    /\ available' = available - FetchLen
    /\ UNCHANGED <<ecr, committed, pc, tries, memfailed, samples_remaining, session,
                   connection_retries, oneshot, jobs, spi, delivered>>

\* Mutation of ReadFails: a 0 is retried, from where the failed read stopped.
ReadFailsRetried(skip) ==
    /\ pc = "fill" /\ available # 0
    /\ ~memfailed
    /\ skip <= FetchLen /\ lir + skip <= ecr
    /\ readFaults < MAX_READ_FAULTS
    /\ readFaults' = readFaults + 1
    /\ lir' = lir + skip
    /\ UNCHANGED <<ecr, committed, pc, tries, memfailed, available, samples_remaining,
                   session, connection_retries, oneshot, jobs, spi, delivered>>

\* stor_read_comp fails and returns 0. If it failed behind the end of the ring it
\* has moved past the bytes before it, and they are in the buffer. The 0 ends the
\* loop of l.186 with tries = 0: the buffer goes into the report as it is.
ReadFails(skip) ==
    /\ pc = "fill" /\ available # 0
    /\ ~memfailed
    /\ skip <= FetchLen /\ lir + skip <= ecr
    /\ readFaults < MAX_READ_FAULTS
    /\ readFaults' = readFaults + 1
    /\ lir' = lir + skip
    /\ FillReport(lir .. lir + skip - 1)
    /\ tries' = 0
    /\ UNCHANGED <<ecr, committed, pc, memfailed, samples_remaining, connection_retries,
                   oneshot, jobs, spi, delivered>>

Filled ==
    /\ pc = "fill" /\ available = 0
    /\ pc' = "send"
    /\ tries' = 0
    /\ UNCHANGED <<stream, memfailed, available, samples_remaining, connection_retries,
                   oneshot, jobs, spi, session, delivered, readFaults>>

----------------------------------------------------------------------------
\* The server has the report, whether the module learns of it or not.
Deliver == delivered' = delivered \cup contents

\* Mutation of SendOk: the stream is confirmed up to what was produced, as
\* reading the write pointer instead of the read pointer would.
SendOkConfirmsAll ==
    /\ pc = "send"
    /\ Deliver
    /\ Shutdown
    /\ pc' = "idle"
    /\ spi' = FALSE
    /\ committed' = IF memfailed THEN committed ELSE ecr
    /\ lir' = IF memfailed THEN lir ELSE ecr
    /\ Jobs(samples_remaining /\ connection_retries < RETRY_CONNECTION_MAX_TRIES - 1)
    /\ connection_retries' = 0
    /\ UNCHANGED <<ecr, tries, memfailed, available, samples_remaining, oneshot,
                   readFaults>>

\* Mutation of SendOk: stor_abort_comp is called where stor_end_comp should be.
SendOkCancels ==
    /\ pc = "send"
    /\ Deliver
    /\ Shutdown
    /\ pc' = "idle"
    /\ spi' = IF memfailed THEN spi ELSE FALSE
    /\ lir' = IF memfailed THEN lir ELSE committed
    /\ Jobs(samples_remaining /\ connection_retries < RETRY_CONNECTION_MAX_TRIES - 1)
    /\ connection_retries' = 0
    /\ UNCHANGED <<ecr, committed, tries, memfailed, available, samples_remaining, oneshot,
                   readFaults>>

\* comm_send_report returns COMM_OK: the server answered. stor_end and
\* stor_end_comp confirm what was read, and a trimmed report may be followed up.
SendOk ==
    /\ pc = "send"
    /\ Deliver
    /\ Shutdown
    /\ pc' = "idle"
    /\ spi' = IF memfailed THEN spi ELSE FALSE
    /\ committed' = IF memfailed THEN committed ELSE lir
    /\ Jobs(samples_remaining /\ connection_retries < RETRY_CONNECTION_MAX_TRIES - 1)
    /\ connection_retries' = 0
    /\ UNCHANGED <<ecr, lir, tries, memfailed, available, samples_remaining, oneshot,
                   readFaults>>

\* COMM_ERR_RETRY: the module did not acknowledge the command; it may have sent
\* the report nevertheless. The last try ends the task, without reschedule().
SendRetry ==
    /\ pc = "send"
    /\ Deliver \/ UNCHANGED delivered
    /\ tries' = tries + 1
    /\ IF tries + 1 < START_COMM_MAX_RETRIES
       THEN UNCHANGED <<session, stream, spi, pc, jobs, connection_retries, oneshot>>
       ELSE Return /\ Shutdown /\ Abort
    /\ UNCHANGED <<memfailed, available, samples_remaining, readFaults>>

\* COMM_ERR_RETRY_LATER: no answer, or another answer than 200. The library has
\* tried to shut the module down.
SendLater ==
    /\ pc = "send"
    /\ Deliver \/ UNCHANGED delivered
    /\ ReturnRescheduled /\ Shutdown /\ Abort
    /\ UNCHANGED <<tries, memfailed, available, samples_remaining, readFaults>>

Fill ==
    \/ FillFiller
    \/ ReadOk
    \/ \E skip \in 0 .. FETCH_SIZE : ReadFails(skip)
    \/ Filled

Power == StorStartOk \/ StorStartFails
Start == CommStartOk \/ CommStartRetry \/ CommStartLater
Send == SendOk \/ SendRetry \/ SendLater

Task == Power \/ Start \/ Fill \/ Send

Next ==
    \/ \E n \in 1 .. MAX_STREAM : Produce(n)
    \/ \E shot \in BOOLEAN : Activate(shot)
    \/ Task

\* The task runs to its end and is called again from its cyclic slot. Each call
\* of the memory and of the module that is repeated for ever succeeds now and
\* then: the assumption without which no report need ever get through.
Fairness ==
    /\ WF_vars(Task)
    /\ WF_vars(Activate(FALSE))
    /\ SF_vars(StorStartOk /\ tries < STOR_FUN_MAX_RETRIES)
    /\ SF_vars(CommStartOk /\ ~memfailed)
    /\ SF_vars(SendOk /\ ~memfailed)

Spec == Init /\ [][Next]_vars /\ Fairness

----------------------------------------------------------------------------
\* A byte is confirmed, and so never sent again, only if the server received it
\* in some report: however often reports were cut off, retried, doubled or filled
\* in by failed reads (l.170-252).
ConfirmedDelivered == \A b \in 0 .. committed - 1 : b \in delivered

\* There is always as much to read as is left to fill in, also after a read that
\* failed half way: no read is short, which l.186 is written to retry.
ReadsInFull == pc = "fill" /\ ~memfailed => available <= ecr - lir

\* What reporting_task.cpp:188 says: a report that could not be read from memory
\* is not sent. Everything in a report of the stream was read from the stream.
ReadBeforeSent == pc = "send" /\ ~memfailed => Cardinality(contents) = filled

\* The HTTP session was opened for as many bytes as were filled in, whatever the
\* trimming, the filler and failed reads did (l.107-134, 171-203).
SentAsAnnounced == pc = "send" => modem = "session" /\ filled = announced

\* Whichever way the task returns, it lets go of the store: the SPI bus is off
\* and the next report starts at the first unconfirmed byte. In between the
\* EEPROM is only read while the bus is on (l.98-104, 148-164, 219-252).
ReleasesStore ==
    /\ pc = "idle" => ~spi /\ lir = committed
    /\ pc = "fill" /\ ~memfailed => spi

\* Whatever the memory and the module do, the task returns: no loop goes on for
\* ever (l.79, 117, 171, 186, 212).
TaskReturns == pc # "idle" ~> pc = "idle"

\* Every byte that is produced reaches the server in the end (l.137, 215-252).
EventuallyDelivered == \A b \in 0 .. MAX_STREAM - 1 : (ecr > b) ~> (b \in delivered)
=============================================================================

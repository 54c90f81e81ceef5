------------------------------- MODULE SampleStore -------------------------------
(***************************************************************************)
(* The storage manager, src/Memory/storage_manager.cpp up to l.443: one     *)
(* EEPROM holding two rings, the raw samples in 0 .. MEMORY_SIZE and the    *)
(* compressed stream in MEMORY_SIZE + 1 .. MEMORY_COMPRESSED_MAX.  The      *)
(* rings are described by pointers in RAM, which a reset forgets.           *)
(*                                                                          *)
(* The EEPROM may miss its time-out at every wait: before a page is         *)
(* transferred, after it, or after a read.  What a device that is busy since *)
(* an earlier time-out ignores is in Eeprom; here it is one more byte of the *)
(* compressor's that is lost, since stor_write comes first in its session   *)
(* and a session that was opened finds the device ready.  The compressor    *)
(* (l.447 to 1024) is reduced to the bytes it writes, without looking at    *)
(* the results, from adr_ecr_comp on: literal runs, whose header precedes   *)
(* them but is written when they end, possibly some samples later, and      *)
(* references.  Where its address arithmetic goes wrong a byte misses its   *)
(* cell: one that is skipped (l.507 with 488), or the ring's last one, when *)
(* an empty run that was begun there is undone to MEMORY_SIZE (l.551-553):  *)
(* this raw cell may be published as adr_ecr_comp, and a reference that     *)
(* follows begins there.  When that happens is in Lzfx; here it may happen  *)
(* at any time.  Its own position in the raw ring, adr_lir, is not modelled.*)
(***************************************************************************)
EXTENDS Integers, Sequences

CONSTANTS
    MEMORY_SIZE,            \* last cell of the raw ring (60000)
    MEMORY_COMPRESSED_MAX,  \* last cell of the compressed ring (65535)
    PAGE_SIZE,              \* of the EEPROM (128)
    SAMPLE_SIZE,            \* bytes of a sample (19)
    RAW_START, COMP_START,  \* the pointers' values after a reset (l.46-52)
    MAX_EMIT,               \* the most bytes one sample is compressed to
    MAX_RUN,                \* the longest open run, with its header (LZFX_MAX_LIT + 1)
    PERIOD,                 \* compressed bytes are numbered modulo PERIOD
    MAX_FAULTS              \* bound: operations with a time-out or a missed cell, resets

ASSUME StoreAssumption ==
    /\ MEMORY_SIZE \in Nat
    /\ MEMORY_COMPRESSED_MAX \in Nat /\ MEMORY_SIZE < MEMORY_COMPRESSED_MAX
    /\ PAGE_SIZE \in Nat \ {0}
    /\ SAMPLE_SIZE \in 1 .. MEMORY_SIZE
    /\ RAW_START \in 0 .. MEMORY_SIZE
    /\ COMP_START \in MEMORY_SIZE + 1 .. MEMORY_COMPRESSED_MAX
    /\ MAX_EMIT \in 0 .. MEMORY_COMPRESSED_MAX - MEMORY_SIZE - 1
    /\ MAX_RUN \in 0 .. MEMORY_COMPRESSED_MAX - MEMORY_SIZE - MAX_EMIT
    /\ PERIOD \in Nat /\ SAMPLE_SIZE < PERIOD
    /\ MAX_FAULTS \in Nat

RawCell == 0 .. MEMORY_SIZE
CompCell == MEMORY_SIZE + 1 .. MEMORY_COMPRESSED_MAX
Cell == 0 .. MEMORY_COMPRESSED_MAX
Byte == 0 .. PERIOD - 1

VARIABLES
    mem,                     \* the EEPROM
    adr_ecr,                 \* raw ring: where to write
    adr_ecr_comp,            \* compressed ring: where to write,
    adr_lir_comp,            \*   where to read,
    adr_lir_committed_comp,  \*   and the first byte that was not confirmed
    header,                  \* where the header of the open literal run goes
    session,                 \* what the running task does with the store
    next,                    \* the number of the next compressed byte
    out,                     \* what the last stor_read_comp returned
    fault, faults            \* the last operation timed out or missed a cell; such
                             \* operations and resets

pointers == <<adr_ecr, adr_ecr_comp, adr_lir_comp, adr_lir_committed_comp>>
vars == <<mem, pointers, header, session, next, out, fault, faults>>

NoHeader == -1
Session == {"none", "write", "compress", "report"}

TypeOK ==
    /\ mem \in [Cell -> Byte]
    /\ header \in CompCell \cup {NoHeader}
    /\ session \in Session
    /\ next \in Byte
    /\ out \in Seq(Byte)
    /\ fault \in BOOLEAN
    /\ faults \in 0 .. MAX_FAULTS

----------------------------------------------------------------------------
\* The rings.

AdvRaw(a, n) == IF a + n > MEMORY_SIZE THEN a + n - MEMORY_SIZE - 1 ELSE a + n

CompSize == MEMORY_COMPRESSED_MAX - MEMORY_SIZE

\* Mutation of AdvComp: the end of the ring is forgotten.
AdvCompOpen(a, n) == a + n

AdvComp(a, n) == IF a + n > MEMORY_COMPRESSED_MAX THEN a + n - CompSize ELSE a + n

\* The place in the ring that adr_ecr_comp stands for.
Writer == IF adr_ecr_comp = MEMORY_SIZE THEN MEMORY_COMPRESSED_MAX ELSE adr_ecr_comp

\* stor_available_comp, and the same distance from any reading address.
AvailableFrom(a) ==
    IF adr_ecr_comp >= a
    THEN adr_ecr_comp - a
    ELSE adr_ecr_comp - MEMORY_SIZE - 1 + (MEMORY_COMPRESSED_MAX + 1 - a)

stor_available_comp == AvailableFrom(adr_lir_comp)

Number(first, n) == [k \in 1 .. n |-> (first + k - 1) % PERIOD]

----------------------------------------------------------------------------
\* The EEPROM and its driver.

\* Mutation of PageEnds: the driver does not split at the end of a page.
OnePage(a, n) == {0, n}

\* write_eeprom hands the n bytes from a on to the device page by page: the
\* places in the data where a page write ends, or 0.
PageEnds(a, n) == {0, n} \cup {k \in 1 .. n : (a + k) % PAGE_SIZE = 0}

\* Where byte j of them lands: the device counts on from the first address of the
\* page write, and wraps within that address's page.
Landing(a, n, j) ==
    LET before == {p \in PageEnds(a, n) : p < j}
        first == a + CHOOSE p \in before : \A q \in before : q <= p
    IN first - (first % PAGE_SIZE) + ((a + j - 1) % PAGE_SIZE)

\* The memory when write_eeprom has written the data up to place k; of the bytes that
\* land in the same cell the last one stays.
Written(m, a, data, k) ==
    LET hits(c) == {j \in 1 .. k : Landing(a, Len(data), j) = c}
    IN [c \in Cell |->
          IF hits(c) = {} THEN m[c]
          ELSE data[CHOOSE j \in hits(c) : \A q \in hits(c) : q <= j]]

----------------------------------------------------------------------------
Init ==
    /\ mem = [c \in Cell |-> 0]
    /\ adr_ecr = RAW_START
    /\ adr_ecr_comp = COMP_START
    /\ adr_lir_comp = COMP_START
    /\ adr_lir_committed_comp = COMP_START
    /\ header = NoHeader
    /\ session = "none"
    /\ next = 0
    /\ out = <<>>
    /\ fault = FALSE
    /\ faults = 0

NoFault == fault' = FALSE /\ UNCHANGED faults

Fault == faults < MAX_FAULTS /\ fault' = TRUE /\ faults' = faults + 1

\* stor_start for sampling_task or reporting_task. (If it fails, the task does
\* nothing to the store.)
StartSampling ==
    /\ session = "none"
    /\ session' = "write"
    /\ NoFault
    /\ UNCHANGED <<mem, pointers, header, next, out>>

StartReport ==
    /\ session = "none"
    /\ session' = "report"
    /\ NoFault
    /\ UNCHANGED <<mem, pointers, header, next, out>>

\* stor_write of the sample: in one piece, or in two where the ring ends. Its bytes
\* stand for their places in it.
Sample == [j \in 1 .. SAMPLE_SIZE |-> j]
Bas == IF adr_ecr + SAMPLE_SIZE > MEMORY_SIZE THEN MEMORY_SIZE - adr_ecr + 1 ELSE SAMPLE_SIZE
SampleBas == SubSeq(Sample, 1, Bas)
SampleHaut == SubSeq(Sample, Bas + 1, SAMPLE_SIZE)

StorWrite ==
    /\ session = "write"
    /\ mem' = Written(Written(mem, adr_ecr, SampleBas, Bas), 0, SampleHaut, SAMPLE_SIZE - Bas)
    /\ adr_ecr' = IF adr_ecr + SAMPLE_SIZE > MEMORY_SIZE
                  THEN SAMPLE_SIZE - Bas
                  ELSE adr_ecr + SAMPLE_SIZE
    /\ session' = "compress"
    /\ NoFault
    /\ UNCHANGED <<adr_ecr_comp, adr_lir_comp, adr_lir_committed_comp, header, next, out>>

\* A page of the first or only piece times out, before or after the transfer.
\* sampling_task does not look at the result.
StorWriteFailsBas ==
    /\ session = "write"
    /\ Fault
    /\ \E k \in PageEnds(adr_ecr, Bas) : mem' = Written(mem, adr_ecr, SampleBas, k)
    /\ session' = "compress"
    /\ UNCHANGED <<pointers, header, next, out>>

\* A page of the second piece times out, when adr_ecr is already at the start.
StorWriteFailsHaut ==
    /\ session = "write"
    /\ Bas < SAMPLE_SIZE
    /\ Fault
    /\ \E k \in PageEnds(0, SAMPLE_SIZE - Bas) :
          mem' = Written(Written(mem, adr_ecr, SampleBas, Bas), 0, SampleHaut, k)
    /\ adr_ecr' = 0
    /\ session' = "compress"
    /\ UNCHANGED <<adr_ecr_comp, adr_lir_comp, adr_lir_committed_comp, header,
                   next, out>>

\* The number of the byte at the header of the open run.
HeaderNumber == (next + PERIOD - AvailableFrom(header)) % PERIOD

\* The compressor writes n bytes one by one (write_1_byte), except the one at hole, the
\* header of a run that stays open, and the header of the run it closes. Those in lost
\* time out unnoticed or miss their cell, 0 standing for the closed header; a stray one
\* goes to MEMORY_SIZE instead of the ring's last cell. (The 255 that an empty run leaves
\* as its header is overwritten, or is behind all that is published, and left out.)
Emitted(n, hole, closes, lost, stray) ==
    LET fresh == [k \in 1 .. n |-> AdvComp(Writer, k - 1)]
        astray == {k \in 1 .. n : stray /\ fresh[k] = MEMORY_COMPRESSED_MAX}
    IN [c \in Cell |->
          IF \E k \in 1 .. n \ (lost \cup {hole}) : fresh[k] = c
          THEN Number(next, n)[CHOOSE k \in 1 .. n : fresh[k] = c]
          ELSE IF closes /\ c = header /\ 0 \notin lost THEN HeaderNumber
          ELSE IF c = MEMORY_SIZE /\ astray # {} THEN Number(next, n)[CHOOSE k \in astray : TRUE]
          ELSE mem[c]]

\* What the compressor leaves in adr_ecr_comp: where the run undone was empty and begun
\* in the ring's last cell, the raw cell.
Published(n, stray) ==
    IF stray /\ AdvComp(Writer, n) = MEMORY_COMPRESSED_MAX THEN MEMORY_SIZE
    ELSE AdvComp(Writer, n)

\* compression publishes what it has written, holes included. stor_end follows.
\* (Without _DEBUG compression does not call the compressor, l.655-661: n = 0.)
Compression(n, hole, closes, lost, stray) ==
    /\ session = "compress"
    /\ closes => header # NoHeader
    /\ 0 \in lost => closes
    /\ stray => /\ closes \/ header = NoHeader
                /\ \A k \in 1 .. n :
                      AdvComp(Writer, k - 1) = MEMORY_COMPRESSED_MAX => k \in lost \ {hole}
                /\ Published(n, stray) = MEMORY_SIZE => hole = 0
    /\ n = 0 /\ adr_ecr_comp = MEMORY_SIZE => stray
    /\ IF lost = {} THEN NoFault ELSE Fault
    /\ mem' = Emitted(n, hole, closes, lost, stray)
    /\ adr_ecr_comp' = Published(n, stray)
    /\ header' = IF hole # 0 THEN AdvComp(Writer, hole - 1)
                 ELSE IF closes THEN NoHeader ELSE header
    /\ hole = 0 /\ header' # NoHeader => AvailableFrom(header) + n <= MAX_RUN
    /\ next' = (next + n) % PERIOD
    /\ session' = "none"
    /\ UNCHANGED <<adr_ecr, adr_lir_comp, adr_lir_committed_comp, out>>

\* stor_read_comp: in one piece, or in two where the ring ends.
LitBas == MEMORY_COMPRESSED_MAX + 1 - adr_lir_comp
Wraps(len) == adr_lir_comp + len > MEMORY_COMPRESSED_MAX

StorReadComp(maxlen) ==
    LET len == IF stor_available_comp < maxlen THEN stor_available_comp ELSE maxlen
        bas == IF Wraps(len) THEN LitBas ELSE len
        haut == len - bas
    IN /\ session = "report"
       /\ out' = [k \in 1 .. len |-> IF k <= bas THEN mem[adr_lir_comp + k - 1]
                                     ELSE mem[MEMORY_SIZE + k - bas]]
       /\ adr_lir_comp' = IF Wraps(len) THEN MEMORY_SIZE + 1 + haut ELSE adr_lir_comp + len
       /\ NoFault
       /\ UNCHANGED <<mem, adr_ecr, adr_ecr_comp, adr_lir_committed_comp, header,
                      session, next>>

\* A read that times out returns 0. If it was the second piece, adr_lir_comp has
\* already moved past the first.
StorReadCompFails(maxlen) ==
    LET len == IF stor_available_comp < maxlen THEN stor_available_comp ELSE maxlen
    IN /\ session = "report"
       /\ Fault
       /\ out' = <<>>
       /\ adr_lir_comp' \in {adr_lir_comp}
                            \cup IF Wraps(len) THEN {MEMORY_SIZE + 1} ELSE {}
       /\ UNCHANGED <<mem, adr_ecr, adr_ecr_comp, adr_lir_committed_comp, header,
                      session, next>>

\* stor_end and stor_end_comp: the report was sent. compteur_echantillon = 0 makes
\* the compressor start afresh: the header of an open run is never written.
EndReport ==
    /\ session = "report"
    /\ adr_lir_committed_comp' = adr_lir_comp
    /\ header' = NoHeader
    /\ session' = "none"
    /\ out' = <<>>
    /\ NoFault
    /\ UNCHANGED <<mem, adr_ecr, adr_ecr_comp, adr_lir_comp, next>>

\* Mutation of AbortReport: the reading position is kept, as stor_abort keeps
\* that of the raw ring (l.82).
AbortReportKeeps ==
    /\ session = "report"
    /\ session' = "none"
    /\ out' = <<>>
    /\ NoFault
    /\ UNCHANGED <<mem, pointers, header, next>>

\* stor_abort and stor_abort_comp: it was not.
AbortReport ==
    /\ session = "report"
    /\ adr_lir_comp' = adr_lir_committed_comp
    /\ session' = "none"
    /\ out' = <<>>
    /\ NoFault
    /\ UNCHANGED <<mem, adr_ecr, adr_ecr_comp, adr_lir_committed_comp, header, next>>

\* The board is reset: the pointers are initialised, the EEPROM is not.
Reset ==
    /\ adr_ecr' = RAW_START
    /\ adr_ecr_comp' = COMP_START
    /\ adr_lir_comp' = COMP_START
    /\ adr_lir_committed_comp' = COMP_START
    /\ header' = NoHeader
    /\ session' = "none"
    /\ out' = <<>>
    /\ next' = 0
    /\ faults < MAX_FAULTS /\ fault' = FALSE /\ faults' = faults + 1
    /\ UNCHANGED mem

Next ==
    \/ StartSampling
    \/ StartReport
    \/ StorWrite
    \/ StorWriteFailsBas
    \/ StorWriteFailsHaut
    \/ \E n \in 0 .. MAX_EMIT :
          \E hole \in 0 .. n, closes \in BOOLEAN, lost \in SUBSET (0 .. n), stray \in BOOLEAN :
             Compression(n, hole, closes, lost, stray)
    \/ \E maxlen \in 1 .. CompSize : StorReadComp(maxlen)
    \/ \E maxlen \in 1 .. CompSize : StorReadCompFails(maxlen)
    \/ EndReport
    \/ AbortReport
    \/ Reset

Spec == Init /\ [][Next]_vars

----------------------------------------------------------------------------
\* Whatever times out and wherever the rings end, samples are written in the raw ring
\* and the readers stay in the compressed one; its writer may be a raw cell, but only the
\* one before the ring that an empty run was undone to (l.553), from which no reader
\* follows it. Outside a report nothing is taken that was not confirmed (l.46-106, 194-332).
PointersOK ==
    /\ adr_ecr \in RawCell
    /\ adr_ecr_comp \in CompCell \cup {MEMORY_SIZE}
    /\ adr_lir_comp \in CompCell
    /\ adr_lir_committed_comp \in CompCell
    /\ session # "report" => adr_lir_comp = adr_lir_committed_comp

\* The compressed stream behaves as ByteLog promises, whatever the addresses at
\* which it wraps: nothing is skipped, repeated or invented between a sample's
\* compression and the reader, a cancelled report is read again from the same
\* byte, and a confirmed byte never comes back (l.274-332, 87-106).
Unconfirmed == [k \in 1 .. AvailableFrom(adr_lir_committed_comp) |->
                  mem[AdvComp(adr_lir_committed_comp, k - 1)]]

CompressedLog == INSTANCE ByteLog WITH
    CAPACITY <- CompSize,
    MAX_APPEND <- MAX_EMIT,
    log <- Unconfirmed,
    taken <- AvailableFrom(adr_lir_committed_comp) - AvailableFrom(adr_lir_comp)

ImplementsByteLog == CompressedLog!Spec

\* A sample whose write succeeds is in the raw ring byte for byte, and no other
\* cell has changed, wherever the ring and the pages end (l.194-225, 358-380).
StoredExactly ==
    [][session = "write" /\ session' = "compress" /\ ~fault' =>
         /\ \A j \in 1 .. SAMPLE_SIZE : mem'[AdvRaw(adr_ecr, j - 1)] = Sample[j]
         /\ \A c \in Cell :
              (\A j \in 1 .. SAMPLE_SIZE : AdvRaw(adr_ecr, j - 1) # c) => mem'[c] = mem[c]
      ]_vars

=============================================================================

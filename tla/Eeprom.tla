--------------------------------- MODULE Eeprom ---------------------------------
(***************************************************************************)
(* The EEPROM driver, src/Memory/storage_manager.cpp l.74-97 and l.334-443,  *)
(* one SPI instruction at a time, and the device (external).  The device     *)
(* programs a page on its own after it has taken the bytes, and answers only *)
(* RDSR until it has finished; it takes a WRITE only after a WREN.  It is    *)
(* busy only while it programs, for as long as it likes.  A reset of the     *)
(* board, which the device does not notice, may fall between any two         *)
(* instructions.                                                             *)
(*                                                                           *)
(* SampleStore has a whole call of the driver as one step.  Calls are made   *)
(* only between a stor_start that returned 0 and stor_end or stor_abort: the *)
(* tasks give up when stor_start fails at all tries.                         *)
(***************************************************************************)
EXTENDS Integers, Sequences

CONSTANTS
    MEMORY_COMPRESSED_MAX,  \* last cell of the device (65535)
    PAGE_SIZE,              \* of the device (128)
    TIMEOUT,                \* polls of wait_memory(1000)
    MAX_LEN,                \* bound: the longest read or write
    Byte                    \* what a cell holds

ASSUME EepromAssumption ==
    /\ MEMORY_COMPRESSED_MAX \in Nat
    /\ PAGE_SIZE \in Nat \ {0}
    /\ TIMEOUT \in Nat
    /\ MAX_LEN \in Nat
    /\ Byte # {}

Cell == 0 .. MEMORY_COMPRESSED_MAX

VARIABLES
    mem, wip, wel,      \* the device: cells, write in progress, write-enable latch
    open,               \* stor_start has returned 0 and the session has not ended
    pc,                 \* the next instruction of the driver, or what it waits for
    timeout,            \* of wait_memory
    op, address, data,  \* the last call: its kind, and the buffer it writes or fills
    done,               \* bytes of it in the pages that were written
    code,               \* its result
    lost,               \* history: the device has ignored a transfer of this call
    late                \* history: a wait of the session has timed out, and the
                        \*   device has ignored no transfer since

device == <<mem, wip, wel>>
call == <<op, address, data>>
vars == <<device, open, pc, timeout, call, done, code, lost, late>>

Waiting == {"starting", "ending", "enabling", "writing", "reading"}
Buffer == UNION {[1 .. n -> Byte] : n \in 0 .. MAX_LEN}

TypeOK ==
    /\ mem \in [Cell -> Byte]
    /\ wip \in BOOLEAN /\ wel \in BOOLEAN /\ open \in BOOLEAN
    /\ pc \in {"idle", "page", "transfer", "read"} \cup Waiting
    /\ timeout \in 0 .. TIMEOUT
    /\ op \in {"write", "read"}
    /\ address \in Cell
    /\ data \in Buffer
    /\ done \in 0 .. Len(data)
    /\ code \in {0, -1}
    /\ lost \in BOOLEAN /\ late \in BOOLEAN

----------------------------------------------------------------------------
\* Mutation of LenPart: the place in the page is forgotten.
LenPartWhole == IF Len(data) - done >= PAGE_SIZE THEN PAGE_SIZE ELSE Len(data) - done

\* The bytes of the next page write: up to the end of the page.
LenPart ==
    LET place == (address + done) % PAGE_SIZE
        len == Len(data) - done
    IN IF place + len >= PAGE_SIZE THEN PAGE_SIZE - place ELSE len

\* Where the device puts the j-th byte of a page write from cell a on: it counts on
\* within a's page, and from its end goes on at its beginning.
Landing(a, j) == a - (a % PAGE_SIZE) + ((a + j - 1) % PAGE_SIZE)

\* Mutation of Programmed: each page is given the first bytes of the buffer.
ProgrammedFirst(n) ==
    [c \in Cell |->
        IF c \in address + done .. address + done + n - 1
        THEN data[c - address - done + 1]
        ELSE mem[c]]

\* The cells after a page write of the next n bytes. Of the bytes that land in one cell
\* the last one stays.
Programmed(n) ==
    LET hits(c) == {j \in 1 .. n : Landing(address + done, j) = c}
    IN [c \in Cell |->
          IF hits(c) = {} THEN mem[c]
          ELSE data[done + CHOOSE j \in hits(c) : \A i \in hits(c) : i <= j]]

\* The device has finished its page. The latch falls.
Ready ==
    /\ wip
    /\ wip' = FALSE
    /\ wel' = FALSE
    /\ UNCHANGED <<mem, open, pc, timeout, call, done, code, lost, late>>

----------------------------------------------------------------------------
\* wait_memory. It is entered with the instruction before it.
Wait(next) == pc' = next /\ timeout' = TIMEOUT

Poll ==
    /\ pc \in Waiting /\ timeout > 0 /\ wip
    /\ timeout' = timeout - 1
    /\ UNCHANGED <<device, open, pc, call, done, code, lost, late>>

\* Its returns, 0 and 1.
WaitOk(place) == pc = place /\ timeout > 0 /\ ~wip /\ UNCHANGED timeout
WaitFails(place) == pc = place /\ timeout = 0 /\ UNCHANGED timeout

Return(c) == pc' = "idle" /\ code' = c

\* A call that fails in wait_memory.
Fails(place) ==
    /\ WaitFails(place)
    /\ Return(-1)
    /\ late' = TRUE
    /\ UNCHANGED <<device, open, call, done, lost>>

----------------------------------------------------------------------------
\* stor_start. The tasks call it again when it fails, or stor_abort.
StorStart ==
    /\ pc = "idle" /\ ~open
    /\ Wait("starting")
    /\ UNCHANGED <<device, open, call, done, code, lost, late>>

\* Mutation of StartFails: the result of stor_start is not looked at.
StartFailsOpen ==
    /\ WaitFails("starting")
    /\ pc' = "idle"
    /\ open' = TRUE
    /\ late' = FALSE
    /\ UNCHANGED <<device, call, done, code, lost>>

StartFails ==
    /\ WaitFails("starting")
    /\ pc' = "idle"
    /\ UNCHANGED <<device, open, call, done, code, lost, late>>

StartOk ==
    /\ WaitOk("starting")
    /\ pc' = "idle"
    /\ open' = TRUE
    /\ late' = FALSE
    /\ UNCHANGED <<device, call, done, code, lost>>

\* stor_end and stor_abort: what wait_memory returns is not looked at.
StorEnd ==
    /\ pc = "idle"
    /\ Wait("ending")
    /\ UNCHANGED <<device, open, call, done, code, lost, late>>

Ended ==
    /\ WaitOk("ending") \/ WaitFails("ending")
    /\ pc' = "idle"
    /\ open' = FALSE
    /\ UNCHANGED <<device, call, done, code, lost, late>>

----------------------------------------------------------------------------
\* write_eeprom and read_eeprom of a buffer at a.
Call(kind, a, buffer) ==
    /\ pc = "idle" /\ open
    /\ a + Len(buffer) <= MEMORY_COMPRESSED_MAX + 1
    /\ op' = kind /\ address' = a /\ data' = buffer
    /\ done' = 0
    /\ lost' = FALSE
    /\ pc' = IF kind = "write" THEN "page" ELSE "read"
    /\ UNCHANGED <<device, open, timeout, code, late>>

\* write_eeprom has written all its pages.
WriteReturns ==
    /\ pc = "page" /\ done = Len(data)
    /\ Return(0)
    /\ UNCHANGED <<device, open, timeout, call, done, lost, late>>

\* write_eeprom_page for the next page: WREN, which a busy device ignores, ...
SendWren ==
    /\ pc = "page" /\ done < Len(data)
    /\ wel' = (wel \/ ~wip)
    /\ Wait("enabling")
    /\ UNCHANGED <<mem, wip, open, call, done, code, lost, late>>

EnableOk ==
    /\ WaitOk("enabling")
    /\ pc' = "transfer"
    /\ UNCHANGED <<device, open, call, done, code, lost, late>>

\* ... WRITE, which the device ignores without the latch, ...
Accepted == ~wip /\ wel

SendWrite ==
    /\ pc = "transfer"
    /\ mem' = IF Accepted THEN Programmed(LenPart) ELSE mem
    /\ wip' = (wip \/ Accepted)
    /\ lost' = (lost \/ ~Accepted)
    /\ late' = (late /\ Accepted)
    /\ Wait("writing")
    /\ UNCHANGED <<wel, open, call, done, code>>

\* ... and the wait until the page is programmed.
WriteOk ==
    /\ WaitOk("writing")
    /\ done' = done + LenPart
    /\ pc' = "page"
    /\ UNCHANGED <<device, open, call, code, lost, late>>

\* READ and the bytes; of a busy device they may be anything.
SendRead ==
    /\ pc = "read"
    /\ data' \in IF wip THEN [1 .. Len(data) -> Byte]
                 ELSE {[j \in 1 .. Len(data) |-> mem[address + j - 1]]}
    /\ lost' = wip
    /\ late' = (late /\ ~wip)
    /\ Wait("reading")
    /\ UNCHANGED <<device, open, op, address, done, code>>

ReadOk ==
    /\ WaitOk("reading")
    /\ Return(0)
    /\ UNCHANGED <<device, open, call, done, lost, late>>

\* The board is reset.
Reset ==
    /\ open' = FALSE
    /\ pc' = "idle"
    /\ timeout' = 0
    /\ data' = <<>> /\ done' = 0
    /\ UNCHANGED <<device, op, address, code, lost, late>>

----------------------------------------------------------------------------
Init ==
    /\ mem \in [Cell -> Byte]
    /\ wip = FALSE /\ wel = FALSE
    /\ open = FALSE
    /\ pc = "idle"
    /\ timeout = 0
    /\ op = "read" /\ address = 0 /\ data = <<>> /\ done = 0
    /\ code = 0
    /\ lost = FALSE /\ late = FALSE

Driver ==
    \/ Poll
    \/ StartOk \/ StartFails \/ Ended
    \/ WriteReturns \/ SendWren \/ EnableOk \/ SendWrite \/ WriteOk
    \/ SendRead \/ ReadOk
    \/ \E place \in {"enabling", "writing", "reading"} : Fails(place)

Next ==
    \/ Ready
    \/ Driver
    \/ StorStart
    \/ StorEnd
    \/ \E kind \in {"write", "read"}, a \in Cell, buffer \in Buffer : Call(kind, a, buffer)
    \/ Reset

Spec == Init /\ [][Next]_vars

----------------------------------------------------------------------------
\* The first n bytes of the buffer are what the cells hold.
Agree(n) == \A j \in 1 .. n : mem[address + j - 1] = data[j]

\* A call that returns 0 has done what it was called for, unless the device has ignored
\* one of its transfers: every byte that was written is in its own cell, wherever pages
\* end, every byte that was read is its cell's (l.358-433).
DoneUnlessLost == pc = "idle" /\ code = 0 /\ ~lost => Agree(Len(data))

\* The device ignores a transfer only after a time-out of the same session, and after
\* each at most one: a session that stor_start has opened finds the device ready, also
\* after a reset in the middle of a page (l.74-78, 388-433).
LostOnlyLate ==
    /\ pc = "transfer" /\ ~Accepted => late
    /\ pc = "read" /\ wip => late

\* Whatever happens, no cell changes but by a page write, to the byte that was given
\* for it, and among those that were not yet written (l.358-413).
WritesInPlace ==
    [][\A c \in Cell : mem'[c] # mem[c] =>
          /\ pc = "transfer"
          /\ c - address + 1 \in done + 1 .. Len(data)
          /\ mem'[c] = data[c - address + 1]]_vars

=============================================================================

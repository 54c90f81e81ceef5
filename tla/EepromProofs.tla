------------------------------ MODULE EepromProofs ------------------------------
(***************************************************************************)
(* The EEPROM driver, for every size of device, page and buffer and every    *)
(* time-out: what a call that returns 0 has done, and when the device may    *)
(* have ignored it.                                                          *)
(***************************************************************************)
EXTENDS Eeprom, SequenceTheorems, WellFoundedInduction, TLAPS

InWrite == {"page", "enabling", "transfer", "writing"}
InCall == InWrite \cup {"read", "reading"}

\* Between the waits of a session in which nothing has timed out, the device is ready;
\* and when it is given a page, it has taken the WREN.
ReadyInv ==
    /\ pc \in InCall => open
    /\ pc = "starting" => ~open
    /\ open /\ ~late /\ pc \in {"idle", "page", "enabling", "transfer", "read"} => ~wip
    /\ ~late /\ pc \in {"enabling", "transfer"} => wel

\* The buffer is one of cells of the device, and there is something left to write
\* wherever a page write is under way.
PlaceInv ==
    /\ address + Len(data) <= MEMORY_COMPRESSED_MAX + 1
    /\ pc \in {"enabling", "transfer", "writing"} => done < Len(data)

\* What the device has taken is in its place: the pages of a write before done and, while
\* it is programmed, the next one; the bytes of a read; and all of a call that returned 0.
DataInv ==
    ~lost =>
        /\ pc \in InWrite => Agree(done)
        /\ pc = "writing" => Agree(done + LenPart)
        /\ pc = "reading" => Agree(Len(data))
        /\ pc \notin InCall /\ code = 0 => Agree(Len(data))

EepromInv == TypeOK /\ ReadyInv /\ PlaceInv /\ DataInv

----------------------------------------------------------------------------
\* Buffers.

LEMMA BufferIsSeq ==
    ASSUME EepromAssumption, NEW b \in Buffer
    PROVE  /\ b \in Seq(Byte)
           /\ Len(b) \in 0 .. MAX_LEN
           /\ \A j \in 1 .. Len(b) : b[j] \in Byte
<1>1. PICK n \in 0 .. MAX_LEN : b \in [1 .. n -> Byte]
  BY DEF Buffer
<1>2. n \in Nat /\ b \in Seq(Byte)
  BY <1>1, SeqDef DEF EepromAssumption
<1>3. Len(b) = n
  BY <1>1, <1>2, LenProperties
<1>. QED  BY <1>1, <1>2, <1>3

LEMMA EmptyBuffer == EepromAssumption => <<>> \in Buffer /\ Len(<<>>) = 0
<1>. SUFFICES ASSUME EepromAssumption PROVE <<>> \in Buffer /\ Len(<<>>) = 0
  OBVIOUS
<1>1. <<>> \in [1 .. 0 -> Byte] /\ 0 \in 0 .. MAX_LEN
  BY DEF EepromAssumption
<1>. QED  BY <1>1 DEF Buffer

\* What a read fills is a buffer of the same length.
LEMMA FilledBuffer ==
    ASSUME EepromAssumption, NEW n \in 0 .. MAX_LEN, NEW b \in [1 .. n -> Byte]
    PROVE  b \in Buffer /\ Len(b) = n
<1>1. n \in Nat /\ b \in Seq(Byte)
  BY SeqDef DEF EepromAssumption
<1>2. Len(b) = n
  BY <1>1, LenProperties
<1>. QED  BY <1>2 DEF Buffer

----------------------------------------------------------------------------
\* Pages.

LEMMA PageOf ==
    ASSUME EepromAssumption, NEW x \in Nat
    PROVE  \E q \in Nat : /\ PAGE_SIZE * q \in Nat
                          /\ x % PAGE_SIZE \in 0 .. PAGE_SIZE - 1
                          /\ x = (PAGE_SIZE * q) + (x % PAGE_SIZE)
<1>1. PAGE_SIZE \in Nat \ {0}
  BY DEF EepromAssumption
<1>. DEFINE q == x \div PAGE_SIZE
<1>2. q \in Nat /\ x % PAGE_SIZE \in 0 .. PAGE_SIZE - 1 /\ x = (PAGE_SIZE * q) + (x % PAGE_SIZE)
  BY <1>1, SMT
<1>3. PAGE_SIZE * q \in Nat
  BY <1>1, <1>2
<1>. QED  BY <1>2, <1>3, Zenon

LEMMA PlaceInPage ==
    ASSUME EepromAssumption, NEW q \in Nat, NEW r \in 0 .. PAGE_SIZE - 1
    PROVE  ((PAGE_SIZE * q) + r) % PAGE_SIZE = r
  BY SMT DEF EepromAssumption

\* The bytes of a page write that ends where the page ends do not wrap.
LEMMA LandsInOrder ==
    ASSUME EepromAssumption, NEW a \in Nat, NEW j \in Nat \ {0},
           (a % PAGE_SIZE) + j <= PAGE_SIZE
    PROVE  Landing(a, j) = a + j - 1
<1>1. PICK q \in Nat : /\ PAGE_SIZE * q \in Nat
                       /\ a % PAGE_SIZE \in 0 .. PAGE_SIZE - 1
                       /\ a = (PAGE_SIZE * q) + (a % PAGE_SIZE)
  BY PageOf
<1>. DEFINE page == PAGE_SIZE * q
            r == a % PAGE_SIZE
            t == r + j - 1
<1>2. t \in 0 .. PAGE_SIZE - 1
  BY <1>1 DEF EepromAssumption
<1>3. (page + t) % PAGE_SIZE = t
  BY <1>2, PlaceInPage
<1>4. page \in Nat /\ r \in Nat /\ a = page + r
  BY <1>1
<1>. HIDE DEF page, r
<1>5. a + j - 1 = page + t
  BY <1>4
<1>6. Landing(a, j) = (a - r) + t
  BY <1>3, <1>5 DEF Landing, r
<1>. QED  BY <1>4, <1>6

LEMMA LenPartIs ==
    ASSUME EepromAssumption, TypeOK, done < Len(data)
    PROVE  /\ LenPart \in 1 .. Len(data) - done
           /\ ((address + done) % PAGE_SIZE) + LenPart <= PAGE_SIZE
           /\ address + done \in Nat
<1>1. Len(data) \in Nat /\ done \in Nat /\ address \in Nat
  BY BufferIsSeq DEF TypeOK, Cell
<1>. DEFINE place == (address + done) % PAGE_SIZE
<1>2. place \in 0 .. PAGE_SIZE - 1
  <2>1. address + done \in Nat
    BY <1>1
  <2>. QED  BY <2>1, PageOf
<1>. HIDE DEF place
<1>3. LenPart = IF place + (Len(data) - done) >= PAGE_SIZE THEN PAGE_SIZE - place
                ELSE Len(data) - done
  BY DEF LenPart, place
<1>4. PAGE_SIZE \in Nat \ {0}
  BY DEF EepromAssumption
<1>5. LenPart \in 1 .. Len(data) - done /\ place + LenPart <= PAGE_SIZE
  BY <1>1, <1>2, <1>3, <1>4
<1>. QED  BY <1>1, <1>5 DEF place

\* A page write puts its bytes in their cells, and leaves the others alone.
LEMMA ProgrammedInPlace ==
    ASSUME EepromAssumption, TypeOK, done < Len(data)
    PROVE  Programmed(LenPart) =
             [c \in Cell |-> IF c - address + 1 \in done + 1 .. done + LenPart
                             THEN data[c - address + 1] ELSE mem[c]]
<1>. DEFINE n == LenPart
            hits(c) == {j \in 1 .. n : Landing(address + done, j) = c}
<1>1. n \in Nat /\ done \in Nat /\ address \in Nat
  BY LenPartIs, BufferIsSeq DEF TypeOK, Cell
<1>2. \A j \in 1 .. n : Landing(address + done, j) = address + done + j - 1
  <2>. TAKE j \in 1 .. n
  <2>. DEFINE place == (address + done) % PAGE_SIZE
  <2>1. address + done \in Nat /\ place \in Int /\ place + n <= PAGE_SIZE
    BY <1>1, LenPartIs, PageOf
  <2>. HIDE DEF place, n
  <2>2. place + j <= PAGE_SIZE /\ j \in Nat \ {0}
    BY <1>1, <2>1 DEF EepromAssumption
  <2>. QED  BY <2>1, <2>2, LandsInOrder DEF place
<1>3. ASSUME NEW c \in Cell
      PROVE  Programmed(n)[c] = IF c - address + 1 \in done + 1 .. done + n
                                THEN data[c - address + 1] ELSE mem[c]
  <2>0. c \in Nat
    BY DEF Cell
  <2>1. Programmed(n)[c] = IF hits(c) = {} THEN mem[c]
                           ELSE data[done + CHOOSE j \in hits(c) : \A i \in hits(c) : i <= j]
    BY DEF Programmed
  <2>. DEFINE k == c - address - done + 1
  <2>2. CASE k \in 1 .. n
    <3>1. hits(c) = {k}
      BY <1>1, <1>2, <2>0, <2>2
    <3>2. (CHOOSE j \in hits(c) : \A i \in hits(c) : i <= j) = k
      <4>1. \A i \in hits(c) : i <= k
        BY <3>1, <2>2
      <4>. HIDE DEF k, hits
      <4>. QED  BY <3>1, <4>1, Zenon
    <3>3. done + k = c - address + 1 /\ c - address + 1 \in done + 1 .. done + n
      BY <1>1, <2>0, <2>2
    <3>4. Programmed(n)[c] = data[done + k]
      <4>. HIDE DEF k, hits
      <4>. QED  BY <2>1, <3>1, <3>2, Zenon
    <3>. QED  BY <3>3, <3>4
  <2>3. CASE k \notin 1 .. n
    <3>1. hits(c) = {}
      BY <1>1, <1>2, <2>0, <2>3
    <3>2. c - address + 1 \notin done + 1 .. done + n
      BY <1>1, <2>0, <2>3
    <3>. QED  BY <2>1, <3>1, <3>2
  <2>. QED  BY <2>2, <2>3
<1>4. Programmed(n) = [c \in Cell |-> Programmed(n)[c]]
  BY DEF Programmed
<1>. HIDE DEF n
<1>5. Programmed(n) = [c \in Cell |-> IF c - address + 1 \in done + 1 .. done + n
                                      THEN data[c - address + 1] ELSE mem[c]]
  BY <1>3, <1>4, Zenon
<1>. QED  BY <1>5 DEF n

----------------------------------------------------------------------------
\* The invariant holds at first, and each step preserves it.

LEMMA EepromInit == Init => EepromInv
<1>. SUFFICES ASSUME Init PROVE EepromInv
  OBVIOUS
<1>1. <<>> \in Buffer /\ Len(<<>>) = 0
  BY EepromAssumption, EmptyBuffer
<1>2. TypeOK
  <2>1. /\ mem \in [Cell -> Byte] /\ data \in Buffer /\ done \in 0 .. Len(data)
        /\ address \in Cell /\ timeout \in 0 .. TIMEOUT
    BY <1>1, EepromAssumption DEF Init, Cell
  <2>2. /\ wip \in BOOLEAN /\ wel \in BOOLEAN /\ open \in BOOLEAN
        /\ lost \in BOOLEAN /\ late \in BOOLEAN
    BY Zenon DEF Init
  <2>3. pc = "idle" /\ op = "read" /\ code = 0
    BY DEF Init
  <2>. QED  BY <2>1, <2>2, <2>3 DEF TypeOK
<1>3. ReadyInv
  BY DEF Init, ReadyInv, InCall, InWrite
<1>4. PlaceInv
  BY <1>1, EepromAssumption DEF Init, PlaceInv
<1>5. DataInv
  BY <1>1 DEF Init, DataInv, InCall, InWrite, Agree
<1>. QED  BY <1>2, <1>3, <1>4, <1>5 DEF EepromInv

LEMMA ReadyStep == EepromInv /\ [Next]_vars => ReadyInv'
<1>. SUFFICES ASSUME EepromInv, [Next]_vars PROVE ReadyInv'
  OBVIOUS
<1>. USE DEF EepromInv, ReadyInv, InCall, InWrite
<1>1. CASE Ready
  BY <1>1 DEF Ready
<1>2. CASE Poll
  BY <1>2 DEF Poll, device
<1>3. CASE StorStart \/ StartFails \/ StartOk \/ StorEnd \/ Ended
  BY <1>3 DEF StorStart, StartFails, StartOk, StorEnd, Ended, Wait, WaitOk, WaitFails, device
<1>4. ASSUME NEW kind \in {"write", "read"}, NEW a \in Cell, NEW buffer \in Buffer,
             Call(kind, a, buffer)
      PROVE  ReadyInv'
  BY <1>4 DEF Call, device
<1>5. CASE SendWren \/ EnableOk \/ SendRead
  <2>1. CASE SendWren
    BY <2>1, Zenon DEF SendWren, Wait
  <2>2. CASE EnableOk
    BY <2>2 DEF EnableOk, WaitOk, device
  <2>3. CASE SendRead
    BY <2>3 DEF SendRead, Wait, device
  <2>. QED  BY <1>5, <2>1, <2>2, <2>3
<1>6. CASE SendWrite
  BY <1>6 DEF SendWrite, Wait
<1>7. CASE WriteReturns \/ WriteOk \/ ReadOk
  BY <1>7 DEF WriteReturns, WriteOk, ReadOk, WaitOk, Return, device
<1>8. ASSUME NEW place \in {"enabling", "writing", "reading"}, Fails(place)
      PROVE  ReadyInv'
  BY <1>8 DEF Fails, WaitFails, Return, device
<1>9. CASE Reset
  BY <1>9 DEF Reset
<1>10. CASE UNCHANGED vars
  BY <1>10 DEF vars, device
<1>. QED
  BY <1>1, <1>2, <1>3, <1>4, <1>5, <1>6, <1>7, <1>8, <1>9, <1>10 DEF Next, Driver

\* The buffer: a call's is given, a read's is filled, and a reset forgets it.
LEMMA BufferStep ==
    ASSUME EepromInv, [Next]_vars
    PROVE  /\ data' \in Buffer
           /\ done' \in 0 .. Len(data)'
           /\ address' \in Cell
           /\ PlaceInv'
<1>. USE DEF EepromInv, PlaceInv
<1>0. data \in Buffer /\ done \in 0 .. Len(data) /\ address \in Cell /\ Len(data) \in 0 .. MAX_LEN
  BY EepromAssumption, BufferIsSeq DEF TypeOK
<1>1. CASE UNCHANGED <<call, done>> /\ pc' \notin {"enabling", "transfer", "writing"}
  BY <1>0, <1>1 DEF call
<1>2. CASE UNCHANGED <<call, done, pc>>
  BY <1>0, <1>2 DEF call
<1>3. CASE SendWren \/ EnableOk \/ SendWrite
  BY <1>0, <1>3 DEF SendWren, EnableOk, SendWrite, WaitOk, call
<1>4. ASSUME NEW kind \in {"write", "read"}, NEW a \in Cell, NEW buffer \in Buffer,
             Call(kind, a, buffer)
      PROVE  data' \in Buffer /\ done' \in 0 .. Len(data)' /\ address' \in Cell /\ PlaceInv'
  <2>1. Len(buffer) \in 0 .. MAX_LEN
    BY EepromAssumption, BufferIsSeq
  <2>. QED  BY <1>4, <2>1 DEF Call
<1>5. CASE WriteOk
  <2>1. done < Len(data) /\ LenPart \in 1 .. Len(data) - done
    BY <1>5, EepromAssumption, LenPartIs DEF WriteOk, WaitOk
  <2>. QED  BY <1>0, <1>5, <2>1 DEF WriteOk, call
<1>6. CASE SendRead
  <2>1. UNCHANGED <<address, done>> /\ pc' = "reading"
    BY <1>6 DEF SendRead, Wait
  <2>2. data' \in [1 .. Len(data) -> Byte]
    <3>1. \A j \in 1 .. Len(data) : mem[address + j - 1] \in Byte
      BY <1>0, EepromAssumption DEF TypeOK, Cell
    <3>2. [j \in 1 .. Len(data) |-> mem[address + j - 1]] \in [1 .. Len(data) -> Byte]
      BY <3>1
    <3>. QED  BY <1>6, <3>2 DEF SendRead
  <2>3. data' \in Buffer /\ Len(data)' = Len(data)
    BY <1>0, <2>2, EepromAssumption, FilledBuffer
  <2>. QED  BY <1>0, <2>1, <2>3
<1>7. CASE Reset
  <2>1. <<>> \in Buffer /\ Len(<<>>) = 0
    BY EepromAssumption, EmptyBuffer
  <2>. QED  BY <1>0, <1>7, <2>1, EepromAssumption DEF Reset, Cell
<1>8. CASE StorStart \/ StartFails \/ StartOk \/ StorEnd \/ Ended \/ WriteReturns \/ ReadOk
  <2>1. UNCHANGED <<call, done>> /\ pc' \notin {"enabling", "transfer", "writing"}
    BY <1>8 DEF StorStart, StartFails, StartOk, StorEnd, Ended, WriteReturns, ReadOk, Wait, Return
  <2>. QED  BY <1>1, <2>1
<1>9. CASE Ready \/ Poll \/ UNCHANGED vars
  BY <1>2, <1>9 DEF Ready, Poll, vars
<1>10. ASSUME NEW place \in {"enabling", "writing", "reading"}, Fails(place)
       PROVE  data' \in Buffer /\ done' \in 0 .. Len(data)' /\ address' \in Cell /\ PlaceInv'
  <2>1. UNCHANGED <<call, done>> /\ pc' = "idle"
    BY <1>10 DEF Fails, Return
  <2>. QED  BY <1>1, <2>1
<1>. QED
  BY <1>3, <1>4, <1>5, <1>6, <1>7, <1>8, <1>9, <1>10 DEF Next, Driver

\* A cell changes only where the device takes a page, and then to its byte of the buffer.
LEMMA MemoryStep ==
    ASSUME EepromInv, [Next]_vars
    PROVE  \/ UNCHANGED mem
           \/ /\ SendWrite /\ Accepted
              /\ done < Len(data)
              /\ mem' = [c \in Cell |-> IF c - address + 1 \in done + 1 .. done + LenPart
                                        THEN data[c - address + 1] ELSE mem[c]]
<1>1. CASE SendWrite
  <2>1. done < Len(data)
    BY <1>1 DEF SendWrite, EepromInv, PlaceInv
  <2>2. CASE Accepted
    <3>1. mem' = Programmed(LenPart)
      BY <1>1, <2>2 DEF SendWrite
    <3>2. Programmed(LenPart) = [c \in Cell |-> IF c - address + 1 \in done + 1 .. done + LenPart
                                                THEN data[c - address + 1] ELSE mem[c]]
      BY <2>1, EepromAssumption, ProgrammedInPlace DEF EepromInv
    <3>. QED  BY <1>1, <2>1, <2>2, <3>1, <3>2, Zenon
  <2>3. CASE ~Accepted
    BY <1>1, <2>3 DEF SendWrite
  <2>. QED  BY <2>2, <2>3
<1>2. CASE ~SendWrite
  BY <1>2
  DEF Next, Driver, Ready, Poll, StorStart, StartFails, StartOk, StorEnd, Ended, Call, WriteReturns,
      SendWren, EnableOk, WriteOk, SendRead, ReadOk, Fails, Reset, device, vars
<1>. QED  BY <1>1, <1>2

LEMMA TypeStep == EepromInv /\ [Next]_vars => TypeOK'
<1>. SUFFICES ASSUME EepromInv, [Next]_vars PROVE TypeOK'
  OBVIOUS
<1>1. data' \in Buffer /\ done' \in 0 .. Len(data)' /\ address' \in Cell
  BY BufferStep
<1>2. mem' \in [Cell -> Byte]
  <2>1. mem \in [Cell -> Byte]
    BY DEF EepromInv, TypeOK
  <2>2. CASE /\ done < Len(data)
             /\ mem' = [c \in Cell |-> IF c - address + 1 \in done + 1 .. done + LenPart
                                       THEN data[c - address + 1] ELSE mem[c]]
    <3>1. \A j \in 1 .. Len(data) : data[j] \in Byte
      BY EepromAssumption, BufferIsSeq DEF EepromInv, TypeOK
    <3>2. Len(data) \in Nat /\ done \in Nat /\ address \in Nat /\ LenPart \in 1 .. Len(data) - done
      BY <2>2, EepromAssumption, BufferIsSeq, LenPartIs DEF EepromInv, TypeOK, Cell
    <3>3. ASSUME NEW c \in Cell, c - address + 1 \in done + 1 .. done + LenPart
          PROVE  c - address + 1 \in 1 .. Len(data)
      BY <3>2, <3>3 DEF Cell
    <3>4. \A c \in Cell : (IF c - address + 1 \in done + 1 .. done + LenPart
                           THEN data[c - address + 1] ELSE mem[c]) \in Byte
      BY <2>1, <3>1, <3>3
    <3>. QED  BY <2>2, <3>4
  <2>. QED  BY <2>1, <2>2, MemoryStep
<1>3. wip' \in BOOLEAN /\ wel' \in BOOLEAN /\ open' \in BOOLEAN /\ lost' \in BOOLEAN /\ late' \in BOOLEAN
  <2>1. wip \in BOOLEAN /\ wel \in BOOLEAN /\ open \in BOOLEAN /\ lost \in BOOLEAN /\ late \in BOOLEAN
    BY Zenon DEF EepromInv, TypeOK
  <2>. QED
    BY <2>1
    DEF Next, Driver, Ready, Poll, StorStart, StartFails, StartOk, StorEnd, Ended, Call,
        WriteReturns, SendWren, EnableOk, SendWrite, WriteOk, SendRead, ReadOk, Fails, Reset,
        device, vars
<1>4. /\ pc' \in {"idle", "page", "transfer", "read"} \cup Waiting
      /\ timeout' \in 0 .. TIMEOUT
      /\ op' \in {"write", "read"}
      /\ code' \in {0, -1}
  BY EepromAssumption
  DEF EepromInv, TypeOK, Waiting, Next, Driver, Ready, Poll, StorStart, StartFails, StartOk,
      StorEnd, Ended, Call, WriteReturns, SendWren, EnableOk, SendWrite, WriteOk, SendRead, ReadOk,
      Fails, Reset, Wait, WaitOk, WaitFails, Return, call, vars
<1>. QED  BY <1>1, <1>2, <1>3, <1>4 DEF TypeOK

LEMMA DataStep == EepromInv /\ [Next]_vars => DataInv'
<1>. SUFFICES ASSUME EepromInv, [Next]_vars, ~lost' PROVE DataInv'
  BY DEF DataInv
<1>. USE DEF DataInv, InCall, InWrite
<1>0. /\ Len(data) \in Nat /\ done \in 0 .. Len(data) /\ address \in Nat
      /\ address + Len(data) <= MEMORY_COMPRESSED_MAX + 1
  BY EepromAssumption, BufferIsSeq DEF EepromInv, TypeOK, PlaceInv, Cell
<1>1. CASE Ready \/ Poll \/ UNCHANGED vars
  <2>1. UNCHANGED <<mem, call, done, pc, code, lost>>
    BY <1>1 DEF Ready, Poll, vars, device
  <2>. QED  BY <2>1 DEF EepromInv, Agree, LenPart, call
<1>2. CASE StorStart \/ StartFails \/ StartOk \/ StorEnd \/ Ended
  <2>1. /\ UNCHANGED <<mem, call, done, code, lost>>
        /\ pc \notin InCall /\ pc' \notin InCall
    BY <1>2 DEF StorStart, StartFails, StartOk, StorEnd, Ended, Wait, WaitOk, WaitFails, device
  <2>. QED  BY <2>1 DEF EepromInv, Agree, call
<1>3. ASSUME NEW kind \in {"write", "read"}, NEW a \in Cell, NEW buffer \in Buffer,
             Call(kind, a, buffer)
      PROVE  DataInv'
  BY <1>3 DEF Call, Agree
<1>4. CASE WriteReturns
  <2>1. /\ UNCHANGED <<mem, call, done, lost>>
        /\ pc = "page" /\ pc' = "idle" /\ done = Len(data)
    BY <1>4 DEF WriteReturns, Return, device
  <2>. QED  BY <2>1 DEF EepromInv, Agree, call
<1>5. CASE SendWren \/ EnableOk
  <2>1. /\ UNCHANGED <<mem, call, done, lost>>
        /\ pc \in {"page", "enabling"} /\ pc' \in {"enabling", "transfer"}
    BY <1>5 DEF SendWren, EnableOk, Wait, WaitOk, device
  <2>. QED  BY <2>1 DEF EepromInv, Agree, call
<1>6. CASE SendWrite
  <2>1. /\ UNCHANGED <<call, done>>
        /\ Accepted /\ ~lost /\ pc = "transfer" /\ pc' = "writing"
    BY <1>6 DEF SendWrite, Wait
  <2>2. LenPart' = LenPart
    BY <2>1 DEF LenPart, call
  <2>3. /\ done < Len(data)
        /\ mem' = [c \in Cell |-> IF c - address + 1 \in done + 1 .. done + LenPart
                                  THEN data[c - address + 1] ELSE mem[c]]
    <3>1. done < Len(data)
      BY <2>1 DEF EepromInv, PlaceInv
    <3>2. mem' = Programmed(LenPart)
      BY <1>6, <2>1 DEF SendWrite
    <3>. QED  BY <3>1, <3>2, EepromAssumption, ProgrammedInPlace DEF EepromInv
  <2>4. LenPart \in 1 .. Len(data) - done
    BY <2>3, EepromAssumption, LenPartIs DEF EepromInv
  <2>5. ASSUME NEW j \in 1 .. done + LenPart
        PROVE  mem'[address + j - 1] = data[j]
    <3>0. j \in 1 .. Len(data) /\ done \in Nat
      BY <1>0, <2>4
    <3>1. address + j - 1 \in Cell /\ (address + j - 1) - address + 1 = j
      BY <1>0, <3>0, EepromAssumption DEF Cell
    <3>2. mem'[address + j - 1] = IF j \in done + 1 .. done + LenPart THEN data[j]
                                  ELSE mem[address + j - 1]
      BY <2>3, <3>1
    <3>3. j \notin done + 1 .. done + LenPart => mem[address + j - 1] = data[j]
      <4>1. j \notin done + 1 .. done + LenPart => j \in 1 .. done
        BY <2>4, <3>0
      <4>2. Agree(done)
        BY <2>1 DEF EepromInv
      <4>. QED  BY <4>1, <4>2 DEF Agree
    <3>. QED  BY <3>2, <3>3
  <2>6. Agree(done)' /\ Agree(done + LenPart)'
    BY <1>0, <2>1, <2>2, <2>4, <2>5 DEF Agree, call
  <2>. QED  BY <2>1, <2>6
<1>7. CASE WriteOk
  <2>1. /\ UNCHANGED <<mem, call, lost>>
        /\ pc = "writing" /\ pc' = "page" /\ done' = done + LenPart
    BY <1>7 DEF WriteOk, WaitOk, device
  <2>. QED  BY <2>1 DEF EepromInv, Agree, call
<1>8. CASE SendRead
  <2>1. /\ UNCHANGED <<mem, address>>
        /\ ~wip /\ pc' = "reading"
        /\ data' = [j \in 1 .. Len(data) |-> mem[address + j - 1]]
    BY <1>8 DEF SendRead, Wait, device
  <2>2. Len(data)' = Len(data)
    BY <1>0, <2>1
  <2>. QED  BY <2>1, <2>2 DEF Agree
<1>9. CASE ReadOk
  <2>1. /\ UNCHANGED <<mem, call, lost>>
        /\ pc = "reading" /\ pc' = "idle"
    BY <1>9 DEF ReadOk, WaitOk, Return, device
  <2>. QED  BY <2>1 DEF EepromInv, Agree, call
<1>10. ASSUME NEW place \in {"enabling", "writing", "reading"}, Fails(place)
       PROVE  DataInv'
  BY <1>10 DEF Fails, Return
<1>11. CASE Reset
  <2>1. pc' = "idle" /\ data' = <<>> /\ Len(<<>>) = 0
    BY <1>11, EepromAssumption, EmptyBuffer DEF Reset
  <2>. QED  BY <2>1 DEF Agree
<1>. QED
  BY <1>1, <1>2, <1>3, <1>4, <1>5, <1>6, <1>7, <1>8, <1>9, <1>10, <1>11 DEF Next, Driver

LEMMA EepromStep == EepromInv /\ [Next]_vars => EepromInv'
  BY TypeStep, ReadyStep, BufferStep, DataStep DEF EepromInv

----------------------------------------------------------------------------
\* Whatever is called and however slow the device, the driver's and the device's state are
\* well typed; no time-out is counted below 0.
THEOREM EepromTypeCorrect == Spec => []TypeOK
<1>1. EepromInv => TypeOK
  BY DEF EepromInv
<1>. QED  BY <1>1, EepromInit, EepromStep, PTL DEF Spec

\* For every page size and every call: where 0 is returned and nothing was ignored, the
\* bytes of the buffer are those of the cells.
THEOREM DoneIfNotLost == Spec => []DoneUnlessLost
<1>1. EepromInv => DoneUnlessLost
  BY DEF EepromInv, DataInv, InCall, InWrite, DoneUnlessLost
<1>. QED  BY <1>1, EepromInit, EepromStep, PTL DEF Spec

\* The device ignores a page or a read only after a time-out, and one for each.
THEOREM LostAfterTimeout == Spec => []LostOnlyLate
<1>1. EepromInv => LostOnlyLate
  BY DEF EepromInv, ReadyInv, InCall, InWrite, LostOnlyLate, Accepted
<1>. QED  BY <1>1, EepromInit, EepromStep, PTL DEF Spec

\* A page write changes the cells of its bytes and no others.
THEOREM NoOtherCell == Spec => WritesInPlace
<1>. DEFINE Step == \A c \in Cell : mem'[c] # mem[c] =>
                       /\ pc = "transfer"
                       /\ c - address + 1 \in done + 1 .. Len(data)
                       /\ mem'[c] = data[c - address + 1]
<1>1. EepromInv /\ [Next]_vars => [Step]_vars
  <2>. SUFFICES ASSUME EepromInv, [Next]_vars, NEW c \in Cell, mem'[c] # mem[c]
                PROVE  /\ pc = "transfer"
                       /\ c - address + 1 \in done + 1 .. Len(data)
                       /\ mem'[c] = data[c - address + 1]
    OBVIOUS
  <2>1. /\ SendWrite
        /\ done < Len(data)
        /\ mem' = [d \in Cell |-> IF d - address + 1 \in done + 1 .. done + LenPart
                                  THEN data[d - address + 1] ELSE mem[d]]
    BY MemoryStep
  <2>2. c - address + 1 \in done + 1 .. done + LenPart /\ mem'[c] = data[c - address + 1]
    BY <2>1
  <2>3. Len(data) \in Nat /\ done \in Nat /\ LenPart \in 1 .. Len(data) - done
    BY <2>1, EepromAssumption, BufferIsSeq, LenPartIs DEF EepromInv, TypeOK
  <2>. QED  BY <2>1, <2>2, <2>3 DEF SendWrite
<1>. QED  BY <1>1, EepromInit, EepromStep, PTL DEF Spec, WritesInPlace
=============================================================================

------------------------------- MODULE StoreProofs -------------------------------
(***************************************************************************)
(* SampleStore, for every layout of the EEPROM: samples and readers stay in  *)
(* their rings and the compressor's address there or in the raw cell before *)
(* its ring, what is said to be available is what lies between them, a      *)
(* sample that is written in time is stored byte for byte, and every cell   *)
(* is a byte.  The second half shows that SampleStore implements ByteLog: the *)
(* log is read off the compressed ring from the first unconfirmed byte to   *)
(* the writer, initial states map to initial states, and each step of the   *)
(* store is a step of the log or leaves it as it is.                        *)
(***************************************************************************)
EXTENDS SampleStore, SequenceTheorems, WellFoundedInduction, TLAPS

\* The invariant: the pointers, and the states a task's use of the store goes through.
PointersInv == PointersOK /\ session \in Session

----------------------------------------------------------------------------
\* Advancing by less than a lap stays in the ring.
LEMMA AdvCompInRing ==
    ASSUME StoreAssumption, NEW a \in CompCell, NEW n \in 0 .. CompSize
    PROVE  AdvComp(a, n) \in CompCell
  BY DEF StoreAssumption, CompCell, CompSize, AdvComp

\* Whatever raw cell adr_ecr_comp may be, it stands for a place in the ring ...
LEMMA WriterInRing ==
    ASSUME StoreAssumption, adr_ecr_comp \in CompCell \cup {MEMORY_SIZE}
    PROVE  Writer \in CompCell
  BY DEF StoreAssumption, CompCell, Writer

\* ... and is left at one.
LEMMA PublishedCell ==
    ASSUME StoreAssumption, adr_ecr_comp \in CompCell \cup {MEMORY_SIZE},
           NEW n \in 0 .. CompSize, NEW stray \in BOOLEAN
    PROVE  Published(n, stray) \in CompCell \cup {MEMORY_SIZE}
  BY WriterInRing, AdvCompInRing DEF Published

\* stor_available_comp never reports a full lap, and is the distance from the
\* reader to the writer: a reader that takes it all has caught up (l.321-332).
LEMMA AvailableIsDistance ==
    ASSUME StoreAssumption, NEW a \in CompCell, adr_ecr_comp \in CompCell \cup {MEMORY_SIZE}
    PROVE  /\ AvailableFrom(a) \in 0 .. CompSize - 1
           /\ AdvComp(a, AvailableFrom(a)) = Writer
  BY DEF StoreAssumption, CompCell, CompSize, AdvComp, AvailableFrom, Writer

----------------------------------------------------------------------------
LEMMA PointersInit == StoreAssumption /\ Init => PointersInv
  BY DEF StoreAssumption, Init, PointersInv, PointersOK, RawCell, CompCell, Session

\* stor_write moves adr_ecr by a sample, or to the start of the ring.
LEMMA WriteStep ==
    ASSUME StoreAssumption, PointersInv,
           StorWrite \/ StorWriteFailsBas \/ StorWriteFailsHaut
    PROVE  PointersInv'
<1>1. adr_ecr' \in RawCell
  <2>1. CASE StorWrite
    BY <2>1 DEF StorWrite, Bas, StoreAssumption, PointersInv, PointersOK, RawCell
  <2>2. CASE StorWriteFailsBas
    BY <2>2 DEF StorWriteFailsBas, pointers, PointersInv, PointersOK
  <2>3. CASE StorWriteFailsHaut
    BY <2>3 DEF StorWriteFailsHaut, StoreAssumption, RawCell
  <2>. QED  BY <2>1, <2>2, <2>3
<1>2. /\ session' = "compress" /\ session = "write"
      /\ UNCHANGED <<adr_ecr_comp, adr_lir_comp, adr_lir_committed_comp>>
  BY DEF StorWrite, StorWriteFailsBas, StorWriteFailsHaut, pointers
<1>. QED  BY <1>1, <1>2 DEF PointersInv, PointersOK, Session

\* What stor_read_comp asks the EEPROM for is at most what is available.
LEMMA ReadLength ==
    ASSUME StoreAssumption, PointersInv, NEW maxlen \in 1 .. CompSize
    PROVE  (IF stor_available_comp < maxlen THEN stor_available_comp ELSE maxlen)
               \in 0 .. CompSize - 1
<1>1. stor_available_comp \in 0 .. CompSize - 1
  BY AvailableIsDistance DEF PointersInv, PointersOK, stor_available_comp
<1>2. CompSize \in Nat
  BY DEF StoreAssumption, CompSize
<1>. QED  BY <1>1, <1>2

LEMMA ReadStep ==
    ASSUME StoreAssumption, PointersInv, NEW maxlen \in 1 .. CompSize,
           StorReadComp(maxlen) \/ StorReadCompFails(maxlen)
    PROVE  PointersInv'
<1>. DEFINE len == IF stor_available_comp < maxlen THEN stor_available_comp ELSE maxlen
<1>1. len \in 0 .. CompSize - 1
  BY ReadLength
<1>2. adr_lir_comp' \in {adr_lir_comp, MEMORY_SIZE + 1} \/
      adr_lir_comp' = IF Wraps(len)
                      THEN MEMORY_SIZE + 1 + (len - LitBas)
                      ELSE adr_lir_comp + len
  <2>1. CASE StorReadComp(maxlen)
    <3>1. ~Wraps(len) => adr_lir_comp' = adr_lir_comp + len
      BY <2>1 DEF StorReadComp
    <3>2. Wraps(len) => adr_lir_comp' = MEMORY_SIZE + 1 + (len - LitBas)
      BY <2>1 DEF StorReadComp
    <3>. QED  BY <3>1, <3>2
  <2>2. CASE StorReadCompFails(maxlen)
    BY <2>2 DEF StorReadCompFails
  <2>. QED  BY <2>1, <2>2
<1>3. adr_lir_comp' \in CompCell
  <2>. HIDE DEF len
  <2>. QED
    BY <1>1, <1>2
    DEF StoreAssumption, PointersInv, PointersOK, CompCell, CompSize, Wraps, LitBas
<1>4. /\ session' = session /\ session = "report"
      /\ UNCHANGED <<adr_ecr, adr_ecr_comp, adr_lir_committed_comp>>
  BY DEF StorReadComp, StorReadCompFails
<1>. QED  BY <1>3, <1>4 DEF PointersInv, PointersOK

LEMMA PointersStep == StoreAssumption /\ PointersInv /\ [Next]_vars => PointersInv'
<1>. SUFFICES ASSUME StoreAssumption, PointersInv, [Next]_vars
              PROVE  PointersInv'
  OBVIOUS
<1>1. CASE StartSampling \/ StartReport
  BY <1>1 DEF StartSampling, StartReport, pointers, PointersInv, PointersOK, Session
<1>2. CASE StorWrite \/ StorWriteFailsBas \/ StorWriteFailsHaut
  BY <1>2, WriteStep
<1>3. ASSUME NEW n \in 0 .. MAX_EMIT, NEW hole \in 0 .. n, NEW closes \in BOOLEAN,
             NEW lost \in SUBSET (0 .. n), NEW stray \in BOOLEAN,
             Compression(n, hole, closes, lost, stray)
      PROVE  PointersInv'
  <2>1. n \in 0 .. CompSize
    BY DEF StoreAssumption, CompSize
  <2>2. adr_ecr_comp' \in CompCell \cup {MEMORY_SIZE}
    BY <1>3, <2>1, PublishedCell DEF Compression, PointersInv, PointersOK
  <2>. QED  BY <1>3, <2>2 DEF Compression, PointersInv, PointersOK, Session
<1>4. ASSUME NEW maxlen \in 1 .. CompSize, StorReadComp(maxlen) \/ StorReadCompFails(maxlen)
      PROVE  PointersInv'
  BY <1>4, ReadStep
<1>5. CASE EndReport \/ AbortReport
  BY <1>5 DEF EndReport, AbortReport, PointersInv, PointersOK, Session
<1>6. CASE Reset
  BY <1>6 DEF Reset, StoreAssumption, PointersInv, PointersOK, RawCell, CompCell, Session
<1>7. CASE UNCHANGED vars
  BY <1>7 DEF vars, pointers, PointersInv, PointersOK
<1>. QED  BY <1>1, <1>2, <1>3, <1>4, <1>5, <1>6, <1>7 DEF Next

\* Whatever operation times out and wherever samples, reads and the compressor's runs
\* meet the ends of the rings, samples are written in the raw ring and readers stay in
\* the compressed one; the compressor's address leaves it for no other cell than the one
\* an undone empty run goes back to (l.551-553), and an idle store has taken nothing that
\* was not confirmed.
THEOREM PointersConfined == Spec => []PointersOK
<1>1. Init => PointersInv
  BY StoreAssumption, PointersInit
<1>2. PointersInv /\ [Next]_vars => PointersInv'
  BY StoreAssumption, PointersStep
<1>3. PointersInv => PointersOK
  BY DEF PointersInv
<1>. QED  BY <1>1, <1>2, <1>3, PTL DEF Spec

----------------------------------------------------------------------------
\* The pages of the EEPROM: the start of an address's page, and its place in it.
LEMMA PageOf ==
    ASSUME StoreAssumption, NEW x \in Nat
    PROVE  \E q \in Nat, r \in 0 .. PAGE_SIZE - 1 :
              /\ x = (PAGE_SIZE * q) + r
              /\ x % PAGE_SIZE = r
              /\ PAGE_SIZE * q \in Nat /\ (PAGE_SIZE * q) % PAGE_SIZE = 0
<1>1. PAGE_SIZE \in Nat \ {0}
  BY DEF StoreAssumption
<1>. DEFINE q == x \div PAGE_SIZE
            r == x % PAGE_SIZE
<1>2. q \in Nat /\ r \in 0 .. PAGE_SIZE - 1 /\ x = (PAGE_SIZE * q) + r
  BY <1>1, SMT
<1>3. PAGE_SIZE * q \in Nat
  BY <1>1, <1>2
<1>4. (PAGE_SIZE * q) % PAGE_SIZE = 0
  BY <1>1, <1>2, SMT
<1>. QED  BY <1>2, <1>3, <1>4, Zenon

LEMMA PlaceInPage ==
    ASSUME StoreAssumption, NEW q \in Nat, NEW r \in 0 .. PAGE_SIZE - 1
    PROVE  ((PAGE_SIZE * q) + r) % PAGE_SIZE = r
  BY SMT DEF StoreAssumption

\* Addresses with no start of a page between them are in the same page.
LEMMA SamePage ==
    ASSUME StoreAssumption, NEW x \in Nat, NEW y \in Nat, x <= y,
           \A z \in x + 1 .. y : z % PAGE_SIZE # 0
    PROVE  x - (x % PAGE_SIZE) = y - (y % PAGE_SIZE)
<1>1. PICK q \in Nat, r \in 0 .. PAGE_SIZE - 1 :
         /\ y = (PAGE_SIZE * q) + r /\ y % PAGE_SIZE = r
         /\ PAGE_SIZE * q \in Nat /\ (PAGE_SIZE * q) % PAGE_SIZE = 0
  BY PageOf
<1>. DEFINE page == PAGE_SIZE * q
<1>2. y = page + r /\ page \in Nat /\ page % PAGE_SIZE = 0 /\ r \in 0 .. PAGE_SIZE - 1
  BY <1>1
<1>. HIDE DEF page
<1>. DEFINE d == x - page
<1>3. page <= x
  BY <1>2
<1>4. d \in 0 .. PAGE_SIZE - 1 /\ x = page + d
  BY <1>2, <1>3 DEF StoreAssumption
<1>. HIDE DEF d
<1>5. x % PAGE_SIZE = d
  <2>1. x = (PAGE_SIZE * q) + d
    BY <1>4 DEF page
  <2>. QED  BY <2>1, <1>4, PlaceInPage
<1>6. y % PAGE_SIZE = r
  BY <1>1
<1>. QED  BY <1>2, <1>4, <1>5, <1>6

\* A set of numbers below j has a greatest one.
LEMMA GreatestIsElement ==
    ASSUME NEW j \in Nat, NEW S \in SUBSET (0 .. j - 1), S # {}
    PROVE  /\ (CHOOSE p \in S : \A q \in S : q <= p) \in S
           /\ \A q \in S : q <= (CHOOSE p \in S : \A r \in S : r <= p)
<1>. DEFINE D == {j - p : p \in S}
<1>1. D \subseteq Nat /\ D # {}
  OBVIOUS
<1>2. PICK d \in D : \A e \in D : ~(<<e, d>> \in OpToRel(<, Nat))
  BY <1>1, NatLessThanWellFounded, WFMin
<1>3. PICK p \in S : d = j - p
  BY <1>2
<1>4. ASSUME NEW q \in S, q > p PROVE FALSE
  <2>1. j - q \in D /\ j - q < d /\ j - q \in Nat /\ d \in Nat
    BY <1>1, <1>3, <1>4
  <2>. QED  BY <2>1, <1>2 DEF OpToRel
<1>5. \A q \in S : q <= p
  BY <1>4
<1>. QED  BY <1>5

\* Each byte lands where it belongs: write_eeprom ends its page writes where the pages
\* end, so that the device never wraps within one (l.358-380).
LEMMA LandsInOrder ==
    ASSUME StoreAssumption, NEW a \in Nat, NEW n \in Nat, NEW j \in 1 .. n
    PROVE  Landing(a, n, j) = a + j - 1
<1>. DEFINE before == {p \in PageEnds(a, n) : p < j}
            p0 == CHOOSE p \in before : \A q \in before : q <= p
<1>1. before \subseteq 0 .. j - 1 /\ 0 \in before
  BY DEF PageEnds
<1>2. p0 \in before /\ \A q \in before : q <= p0
  <2>1. j \in Nat /\ before \in SUBSET (0 .. j - 1) /\ before # {}
    BY <1>1
  <2>. HIDE DEF before
  <2>. QED  BY <2>1, GreatestIsElement, Zenon
<1>3. p0 \in 0 .. j - 1
  BY <1>1, <1>2
<1>4. Landing(a, n, j) = (a + p0) - ((a + p0) % PAGE_SIZE) + ((a + j - 1) % PAGE_SIZE)
  BY DEF Landing
<1>5. ASSUME NEW z \in (a + p0) + 1 .. a + j - 1, z % PAGE_SIZE = 0
      PROVE  FALSE
  <2>. DEFINE k == z - a
  <2>1. k \in 1 .. n /\ k < j /\ k > p0 /\ a + k = z
    BY <1>3
  <2>2. k \in before
    BY <2>1, <1>5 DEF PageEnds
  <2>. QED  BY <2>1, <2>2, <1>2, <1>3
<1>6. /\ a + p0 \in Nat /\ a + j - 1 \in Nat /\ a + p0 <= a + j - 1
  BY <1>3
<1>. HIDE DEF p0
<1>7. (a + p0) - ((a + p0) % PAGE_SIZE) = (a + j - 1) - ((a + j - 1) % PAGE_SIZE)
  BY <1>5, <1>6, SamePage
<1>8. (a + j - 1) % PAGE_SIZE \in Int
  BY <1>6 DEF StoreAssumption
<1>. QED  BY <1>4, <1>6, <1>7, <1>8

\* The memory with the first k bytes of data from address a on.
Put(m, a, data, k) ==
    [c \in Cell |-> IF c \in a .. a + k - 1 THEN data[c - a + 1] ELSE m[c]]

\* write_eeprom up to place k writes the first k bytes and nothing else.
LEMMA WrittenExactly ==
    ASSUME StoreAssumption, NEW m, NEW a \in Nat, NEW data, Len(data) \in Nat,
           NEW k \in 0 .. Len(data)
    PROVE  Written(m, a, data, k) = Put(m, a, data, k)
<1>. DEFINE hits(c) == {j \in 1 .. k : Landing(a, Len(data), j) = c}
            byte(c) == IF hits(c) = {} THEN m[c]
                       ELSE data[CHOOSE j \in hits(c) : \A q \in hits(c) : q <= j]
<1>1. Written(m, a, data, k) = [c \in Cell |-> byte(c)]
  BY DEF Written
<1>2. ASSUME NEW c \in Cell
      PROVE  byte(c) = IF c \in a .. a + k - 1 THEN data[c - a + 1] ELSE m[c]
  <2>1. c \in Nat
    BY DEF Cell, StoreAssumption
  <2>2. hits(c) = {j \in 1 .. k : a + j - 1 = c}
    BY LandsInOrder
  <2>3. CASE c \in a .. a + k - 1
    <3>1. hits(c) = {c - a + 1}
      BY <2>1, <2>2, <2>3
    <3>2. (CHOOSE j \in hits(c) : \A q \in hits(c) : q <= j) = c - a + 1
      BY <3>1, <2>1
    <3>3. hits(c) # {}
      BY <3>1
    <3>4. byte(c) = data[CHOOSE j \in hits(c) : \A q \in hits(c) : q <= j]
      BY <3>3, Zenon
    <3>. HIDE DEF byte
    <3>. QED  BY <2>3, <3>2, <3>4
  <2>4. CASE c \notin a .. a + k - 1
    <3>1. hits(c) = {}
      BY <2>1, <2>2, <2>4
    <3>. QED  BY <2>4, <3>1
  <2>. QED  BY <2>3, <2>4
<1>. HIDE DEF byte
<1>. QED  BY <1>1, <1>2 DEF Put

----------------------------------------------------------------------------
\* The raw ring. The two pieces of a sample: it starts over where the ring ends.
LEMMA Pieces ==
    ASSUME StoreAssumption, adr_ecr \in RawCell
    PROVE  /\ Bas \in 1 .. SAMPLE_SIZE /\ adr_ecr + Bas <= MEMORY_SIZE + 1
           /\ Bas < SAMPLE_SIZE => adr_ecr + Bas = MEMORY_SIZE + 1
           /\ SAMPLE_SIZE - Bas <= adr_ecr
           /\ Len(SampleBas) = Bas /\ \A j \in 1 .. Bas : SampleBas[j] = j
           /\ Len(SampleHaut) = SAMPLE_SIZE - Bas
           /\ \A j \in 1 .. SAMPLE_SIZE - Bas : SampleHaut[j] = Bas + j
<1>1. /\ Bas \in 1 .. SAMPLE_SIZE /\ adr_ecr + Bas <= MEMORY_SIZE + 1
      /\ Bas < SAMPLE_SIZE => adr_ecr + Bas = MEMORY_SIZE + 1
      /\ SAMPLE_SIZE - Bas <= adr_ecr
  BY DEF StoreAssumption, RawCell, Bas
<1>2. SAMPLE_SIZE \in Nat /\ Sample \in Seq(Nat) /\ Len(Sample) = SAMPLE_SIZE
  BY DEF StoreAssumption, Sample
<1>3. Len(SampleBas) = Bas /\ \A j \in 1 .. Bas : SampleBas[j] = Sample[j]
  BY <1>1, <1>2, SubSeqProperties DEF SampleBas
<1>4. /\ Len(SampleHaut) = SAMPLE_SIZE - Bas
      /\ \A j \in 1 .. SAMPLE_SIZE - Bas : SampleHaut[j] = Sample[Bas + j]
  <2>1. CASE Bas = SAMPLE_SIZE
    BY <1>2, <2>1 DEF SampleHaut
  <2>2. CASE Bas < SAMPLE_SIZE
    <3>1. /\ Len(SampleHaut) = SAMPLE_SIZE - (Bas + 1) + 1
          /\ \A j \in 1 .. SAMPLE_SIZE - (Bas + 1) + 1 : SampleHaut[j] = Sample[Bas + 1 + j - 1]
      BY <1>1, <1>2, <2>2, SubSeqProperties DEF SampleHaut
    <3>2. SAMPLE_SIZE - (Bas + 1) + 1 = SAMPLE_SIZE - Bas
      BY <1>1, <1>2
    <3>3. ASSUME NEW j \in 1 .. SAMPLE_SIZE - Bas PROVE SampleHaut[j] = Sample[Bas + j]
      <4>1. Bas + 1 + j - 1 = Bas + j
        BY <1>1
      <4>. QED  BY <3>1, <3>2, <4>1
    <3>. QED  BY <3>1, <3>2, <3>3
  <2>. QED  BY <1>1, <1>2, <2>1, <2>2
<1>5. /\ \A j \in 1 .. Bas : Sample[j] = j
      /\ \A j \in 1 .. SAMPLE_SIZE - Bas : Sample[Bas + j] = Bas + j
  BY <1>1, <1>2 DEF Sample
<1>. QED  BY <1>1, <1>3, <1>4, <1>5

\* The memory when the first bas bytes of the first piece and the first haut bytes of
\* the second one are written.
Holds(bas, haut) ==
    [c \in Cell |-> IF c \in 0 .. haut - 1 THEN Bas + c + 1
                    ELSE IF c \in adr_ecr .. adr_ecr + bas - 1 THEN c - adr_ecr + 1
                    ELSE mem[c]]

LEMMA FirstPiece ==
    ASSUME StoreAssumption, adr_ecr \in RawCell, NEW k \in 0 .. Bas
    PROVE  Written(mem, adr_ecr, SampleBas, k) = Holds(k, 0)
<1>1. /\ adr_ecr \in Nat /\ Bas \in Nat
      /\ Len(SampleBas) \in Nat /\ k \in 0 .. Len(SampleBas)
  BY Pieces DEF StoreAssumption, RawCell
<1>2. Written(mem, adr_ecr, SampleBas, k) = Put(mem, adr_ecr, SampleBas, k)
  BY <1>1, WrittenExactly
<1>3. \A c \in adr_ecr .. adr_ecr + k - 1 : SampleBas[c - adr_ecr + 1] = c - adr_ecr + 1
  BY <1>1, Pieces
<1>4. 0 .. 0 - 1 = {}
  OBVIOUS
<1>. QED  BY <1>2, <1>3, <1>4 DEF Put, Holds

LEMMA SecondPiece ==
    ASSUME StoreAssumption, adr_ecr \in RawCell, NEW k \in 0 .. SAMPLE_SIZE - Bas
    PROVE  Written(Written(mem, adr_ecr, SampleBas, Bas), 0, SampleHaut, k) = Holds(Bas, k)
<1>. DEFINE first == Written(mem, adr_ecr, SampleBas, Bas)
<1>1. /\ 0 \in Nat /\ Bas \in Nat /\ SAMPLE_SIZE - Bas \in Nat
      /\ Len(SampleHaut) \in Nat /\ k \in 0 .. Len(SampleHaut)
  BY Pieces DEF StoreAssumption
<1>2. first = [c \in Cell |-> IF c \in adr_ecr .. adr_ecr + Bas - 1 THEN c - adr_ecr + 1
                              ELSE mem[c]]
  <2>1. first = Holds(Bas, 0)
    BY <1>1, FirstPiece
  <2>2. 0 .. 0 - 1 = {}
    OBVIOUS
  <2>. QED  BY <2>1, <2>2 DEF Holds
<1>. HIDE DEF first
<1>3. Written(first, 0, SampleHaut, k) = Put(first, 0, SampleHaut, k)
  BY <1>1, WrittenExactly
<1>4. \A c \in 0 .. 0 + k - 1 : SampleHaut[c - 0 + 1] = Bas + c + 1
  BY <1>1, Pieces
<1>5. 0 .. 0 + k - 1 = 0 .. k - 1
  OBVIOUS
<1>6. Written(first, 0, SampleHaut, k) = Holds(Bas, k)
  BY <1>2, <1>3, <1>4, <1>5 DEF Put, Holds
<1>. QED  BY <1>6 DEF first

\* What one of the three write actions leaves in the memory.
LEMMA WriteHolds ==
    ASSUME StoreAssumption, adr_ecr \in RawCell,
           StorWrite \/ StorWriteFailsBas \/ StorWriteFailsHaut
    PROVE  \E bas \in 0 .. Bas, haut \in 0 .. SAMPLE_SIZE - Bas : mem' = Holds(bas, haut)
<1>1. Bas \in Nat /\ SAMPLE_SIZE - Bas \in Nat
  BY Pieces DEF StoreAssumption
<1>2. CASE StorWrite
  BY <1>1, <1>2, SecondPiece DEF StorWrite
<1>3. CASE StorWriteFailsBas
  <2>1. PICK k \in PageEnds(adr_ecr, Bas) : mem' = Written(mem, adr_ecr, SampleBas, k)
    BY <1>3 DEF StorWriteFailsBas
  <2>2. k \in 0 .. Bas
    BY <1>1 DEF PageEnds
  <2>. QED  BY <1>1, <2>1, <2>2, FirstPiece
<1>4. CASE StorWriteFailsHaut
  <2>1. PICK k \in PageEnds(0, SAMPLE_SIZE - Bas) :
           mem' = Written(Written(mem, adr_ecr, SampleBas, Bas), 0, SampleHaut, k)
    BY <1>4 DEF StorWriteFailsHaut
  <2>2. k \in 0 .. SAMPLE_SIZE - Bas
    BY <1>1 DEF PageEnds
  <2>. QED  BY <1>1, <2>1, <2>2, SecondPiece
<1>. QED  BY <1>2, <1>3, <1>4

\* It leaves bytes in every cell, and the compressed ring alone.
LEMMA HoldsBytes ==
    ASSUME StoreAssumption, adr_ecr \in RawCell, mem \in [Cell -> Byte],
           NEW bas \in 0 .. Bas, NEW haut \in 0 .. SAMPLE_SIZE - Bas
    PROVE  /\ Holds(bas, haut) \in [Cell -> Byte]
           /\ \A c \in CompCell : Holds(bas, haut)[c] = mem[c]
<1>1. /\ Bas \in 1 .. SAMPLE_SIZE /\ adr_ecr + Bas <= MEMORY_SIZE + 1
      /\ SAMPLE_SIZE - Bas <= adr_ecr /\ adr_ecr \in Nat
  BY Pieces DEF StoreAssumption, RawCell
<1>2. ASSUME NEW c \in Cell PROVE Holds(bas, haut)[c] \in Byte
  <2>1. c \in 0 .. haut - 1 => Bas + c + 1 \in Byte
    BY <1>1 DEF StoreAssumption, Byte
  <2>2. c \in adr_ecr .. adr_ecr + bas - 1 => c - adr_ecr + 1 \in Byte
    BY <1>1 DEF StoreAssumption, Byte
  <2>. QED  BY <2>1, <2>2 DEF Holds
<1>3. ASSUME NEW c \in CompCell PROVE Holds(bas, haut)[c] = mem[c]
  <2>1. c \in Cell /\ c \notin 0 .. haut - 1 /\ c \notin adr_ecr .. adr_ecr + bas - 1
    BY <1>1 DEF StoreAssumption, CompCell, Cell, RawCell
  <2>. QED  BY <2>1 DEF Holds
<1>4. Holds(bas, haut) = [c \in Cell |-> Holds(bas, haut)[c]]
  BY DEF Holds
<1>. QED  BY <1>2, <1>3, <1>4

\* Where the bytes of a whole sample go.
LEMMA SamplePlaces ==
    ASSUME StoreAssumption, adr_ecr \in RawCell
    PROVE  /\ \A j \in 1 .. SAMPLE_SIZE :
                 Holds(Bas, SAMPLE_SIZE - Bas)[AdvRaw(adr_ecr, j - 1)] = j
           /\ \A c \in Cell :
                 (\A j \in 1 .. SAMPLE_SIZE : AdvRaw(adr_ecr, j - 1) # c)
                   => Holds(Bas, SAMPLE_SIZE - Bas)[c] = mem[c]
<1>. DEFINE haut == SAMPLE_SIZE - Bas
<1>1. /\ Bas \in 1 .. SAMPLE_SIZE /\ adr_ecr + Bas <= MEMORY_SIZE + 1
      /\ Bas < SAMPLE_SIZE => adr_ecr + Bas = MEMORY_SIZE + 1
      /\ SAMPLE_SIZE - Bas <= adr_ecr
      /\ adr_ecr \in RawCell /\ SAMPLE_SIZE \in Nat
  BY Pieces DEF StoreAssumption
<1>2. ASSUME NEW j \in 1 .. SAMPLE_SIZE
      PROVE  Holds(Bas, haut)[AdvRaw(adr_ecr, j - 1)] = j
  <2>. DEFINE c == AdvRaw(adr_ecr, j - 1)
  <2>1. CASE j <= Bas
    <3>1. c = adr_ecr + j - 1 /\ c \in adr_ecr .. adr_ecr + Bas - 1 /\ c \notin 0 .. haut - 1
      BY <1>1, <2>1 DEF AdvRaw, RawCell, StoreAssumption
    <3>2. c \in Cell /\ c - adr_ecr + 1 = j
      BY <1>1, <2>1, <3>1 DEF Cell, RawCell, StoreAssumption
    <3>. HIDE DEF c, haut
    <3>3. Holds(Bas, haut)[c] = j
      BY <3>1, <3>2 DEF Holds
    <3>. QED  BY <3>3 DEF c
  <2>2. CASE j > Bas
    <3>1. c = j - Bas - 1 /\ c \in 0 .. haut - 1
      BY <1>1, <2>2 DEF AdvRaw, RawCell, StoreAssumption
    <3>2. c \in Cell /\ Bas + c + 1 = j
      BY <1>1, <2>2, <3>1 DEF Cell, RawCell, StoreAssumption
    <3>. HIDE DEF c, haut
    <3>3. Holds(Bas, haut)[c] = j
      BY <3>1, <3>2 DEF Holds
    <3>. QED  BY <3>3 DEF c
  <2>. QED  BY <1>1, <2>1, <2>2
<1>3. ASSUME NEW c \in Cell, \A j \in 1 .. SAMPLE_SIZE : AdvRaw(adr_ecr, j - 1) # c
      PROVE  Holds(Bas, haut)[c] = mem[c]
  <2>1. c \notin adr_ecr .. adr_ecr + Bas - 1
    <3>1. SUFFICES ASSUME c \in adr_ecr .. adr_ecr + Bas - 1 PROVE FALSE
      OBVIOUS
    <3>. DEFINE j == c - adr_ecr + 1
    <3>2. j \in 1 .. SAMPLE_SIZE /\ AdvRaw(adr_ecr, j - 1) = c
      BY <1>1, <3>1 DEF AdvRaw, RawCell, StoreAssumption
    <3>. QED  BY <3>2, <1>3
  <2>2. c \notin 0 .. haut - 1
    <3>1. SUFFICES ASSUME c \in 0 .. haut - 1 PROVE FALSE
      OBVIOUS
    <3>. DEFINE j == Bas + c + 1
    <3>2. j \in 1 .. SAMPLE_SIZE /\ AdvRaw(adr_ecr, j - 1) = c
      BY <1>1, <3>1 DEF AdvRaw, RawCell, StoreAssumption
    <3>. QED  BY <3>2, <1>3
  <2>. QED  BY <2>1, <2>2 DEF Holds
<1>. QED  BY <1>2, <1>3

\* Of the steps that end the writing of a sample only StorWrite does not time out.
LEMMA SampleStep ==
    ASSUME StoreAssumption, PointersInv, [Next]_vars,
           session = "write", session' = "compress", ~fault'
    PROVE  mem' = Holds(Bas, SAMPLE_SIZE - Bas)
<1>1. StorWrite
  <2>1. session # session'
    OBVIOUS
  <2>2. \A n \in 0 .. MAX_EMIT : \A hole \in 0 .. n, closes \in BOOLEAN,
           lost \in SUBSET (0 .. n), stray \in BOOLEAN :
              ~Compression(n, hole, closes, lost, stray)
    BY DEF Compression
  <2>3. \A maxlen \in 1 .. CompSize : ~StorReadComp(maxlen) /\ ~StorReadCompFails(maxlen)
    BY DEF StorReadComp, StorReadCompFails
  <2>. QED
    BY <2>1, <2>2, <2>3
    DEF Next, vars, StartSampling, StartReport, StorWriteFailsBas, StorWriteFailsHaut,
        Fault, EndReport, AbortReport, Reset
<1>2. Bas \in Nat /\ SAMPLE_SIZE - Bas \in 0 .. SAMPLE_SIZE - Bas
  BY Pieces DEF StoreAssumption, PointersInv, PointersOK
<1>. QED  BY <1>1, <1>2, SecondPiece DEF StorWrite, PointersInv, PointersOK

\* A sample that is written in time is in the raw ring byte for byte, and nothing else
\* has changed, wherever it starts and wherever the ring and the pages end (l.194-225,
\* 358-380).
THEOREM SamplesStoredExactly == Spec => StoredExactly
<1>1. Init => PointersInv
  BY StoreAssumption, PointersInit
<1>2. PointersInv /\ [Next]_vars => PointersInv'
  BY StoreAssumption, PointersStep
<1>3. ASSUME PointersInv, [Next]_vars
      PROVE  [session = "write" /\ session' = "compress" /\ ~fault' =>
                /\ \A j \in 1 .. SAMPLE_SIZE : mem'[AdvRaw(adr_ecr, j - 1)] = Sample[j]
                /\ \A c \in Cell :
                     (\A j \in 1 .. SAMPLE_SIZE : AdvRaw(adr_ecr, j - 1) # c)
                       => mem'[c] = mem[c]]_vars
  <2>1. \A j \in 1 .. SAMPLE_SIZE : Sample[j] = j
    BY DEF Sample
  <2>2. adr_ecr \in RawCell
    BY <1>3 DEF PointersInv, PointersOK
  <2>. QED  BY <1>3, <2>1, <2>2, StoreAssumption, SampleStep, SamplePlaces
<1>. QED  BY <1>1, <1>2, <1>3, PTL DEF Spec, StoredExactly

----------------------------------------------------------------------------
\* Type correctness: the bytes in the memory and read from it.
StoreInv == TypeOK /\ PointersInv

LEMMA Bytes ==
    ASSUME StoreAssumption, NEW x \in Int
    PROVE  x % PERIOD \in Byte
  BY SMT DEF StoreAssumption, Byte

\* What the compressor writes.
LEMMA EmittedBytes ==
    ASSUME StoreAssumption, StoreInv, NEW n \in 0 .. MAX_EMIT, NEW hole \in 0 .. n,
           NEW closes \in BOOLEAN, NEW lost \in SUBSET (0 .. n), NEW stray \in BOOLEAN,
           closes => header # NoHeader
    PROVE  Emitted(n, hole, closes, lost, stray) \in [Cell -> Byte]
<1>1. next \in Int /\ PERIOD \in Int
  BY DEF StoreInv, TypeOK, Byte, StoreAssumption
<1>2. ASSUME NEW k \in 1 .. n PROVE Number(next, n)[k] \in Byte
  <2>1. Number(next, n)[k] = (next + k - 1) % PERIOD /\ next + k - 1 \in Int
    BY <1>1 DEF Number
  <2>. QED  BY <2>1, Bytes
<1>3. ASSUME closes PROVE HeaderNumber \in Byte
  <2>1. header \in CompCell
    BY <1>3 DEF StoreInv, TypeOK
  <2>2. AvailableFrom(header) \in Int
    BY <2>1, AvailableIsDistance DEF StoreInv, PointersInv, PointersOK
  <2>3. next + PERIOD - AvailableFrom(header) \in Int
    BY <1>1, <2>2
  <2>. QED  BY <2>3, Bytes DEF HeaderNumber
<1>. DEFINE fresh == [k \in 1 .. n |-> AdvComp(Writer, k - 1)]
            astray == {k \in 1 .. n : stray /\ fresh[k] = MEMORY_COMPRESSED_MAX}
            written(c) == \E k \in 1 .. n \ (lost \cup {hole}) : fresh[k] = c
            place(c) == CHOOSE k \in 1 .. n : fresh[k] = c
            byte(c) == IF written(c) THEN Number(next, n)[place(c)]
                       ELSE IF closes /\ c = header /\ 0 \notin lost THEN HeaderNumber
                       ELSE IF c = MEMORY_SIZE /\ astray # {}
                            THEN Number(next, n)[CHOOSE k \in astray : TRUE]
                       ELSE mem[c]
<1>4. Emitted(n, hole, closes, lost, stray) = [c \in Cell |-> byte(c)]
  BY DEF Emitted
<1>5. ASSUME NEW c \in Cell PROVE byte(c) \in Byte
  <2>1. written(c) => place(c) \in 1 .. n
    BY Zenon
  <2>2. mem[c] \in Byte
    BY DEF StoreInv, TypeOK
  <2>3. astray # {} => (CHOOSE k \in astray : TRUE) \in 1 .. n
    <3>1. astray \subseteq 1 .. n
      BY Zenon
    <3>. HIDE DEF astray
    <3>. QED  BY <3>1
  <2>. HIDE DEF written, place, astray
  <2>. QED  BY <1>2, <1>3, <2>1, <2>2, <2>3
<1>. HIDE DEF byte
<1>. QED  BY <1>4, <1>5

LEMMA TypeInit == StoreAssumption /\ Init => TypeOK
<1>. SUFFICES ASSUME StoreAssumption, Init PROVE TypeOK
  OBVIOUS
<1>1. 0 \in Byte /\ MAX_FAULTS \in Nat
  BY DEF StoreAssumption, Byte
<1>2. mem \in [Cell -> Byte]
  BY <1>1 DEF Init
<1>3. fault \in BOOLEAN
  BY Zenon DEF Init
<1>4. session \in Session /\ next \in Byte /\ faults \in 0 .. MAX_FAULTS
  BY <1>1 DEF Init, Session
<1>5. out \in Seq(Byte) /\ header \in CompCell \cup {NoHeader}
  BY DEF Init
<1>. QED  BY <1>2, <1>3, <1>4, <1>5, Zenon DEF TypeOK

\* The time-outs are counted.
LEMMA FaultsStep ==
    ASSUME StoreAssumption, StoreInv, NoFault \/ Fault
    PROVE  fault' \in BOOLEAN /\ faults' \in 0 .. MAX_FAULTS
<1>1. fault' \in BOOLEAN
  BY Zenon DEF NoFault, Fault
<1>2. faults' \in 0 .. MAX_FAULTS
  BY DEF NoFault, Fault, StoreInv, TypeOK, StoreAssumption
<1>. QED  BY <1>1, <1>2

\* What changes the memory.
LEMMA TypeOfMemory ==
    ASSUME StoreAssumption, StoreInv, [Next]_vars
    PROVE  mem' \in [Cell -> Byte]
<1>1. mem \in [Cell -> Byte] /\ adr_ecr \in RawCell
  BY DEF StoreInv, TypeOK, PointersInv, PointersOK
<1>2. CASE StorWrite \/ StorWriteFailsBas \/ StorWriteFailsHaut
  BY <1>1, <1>2, WriteHolds, HoldsBytes
<1>3. ASSUME NEW n \in 0 .. MAX_EMIT, NEW hole \in 0 .. n, NEW closes \in BOOLEAN,
             NEW lost \in SUBSET (0 .. n), NEW stray \in BOOLEAN,
             Compression(n, hole, closes, lost, stray)
      PROVE  mem' \in [Cell -> Byte]
  BY <1>3, EmittedBytes DEF Compression
<1>4. CASE UNCHANGED mem
  BY <1>1, <1>4
<1>. QED
  BY <1>2, <1>3, <1>4
  DEF Next, vars, StartSampling, StartReport, StorReadComp, StorReadCompFails, EndReport,
      AbortReport, Reset

\* What a read returns.
LEMMA TypeOfOut ==
    ASSUME StoreAssumption, StoreInv, [Next]_vars
    PROVE  out' \in Seq(Byte)
<1>1. ASSUME NEW maxlen \in 1 .. CompSize, StorReadComp(maxlen) PROVE out' \in Seq(Byte)
  <2>. DEFINE len == IF stor_available_comp < maxlen THEN stor_available_comp ELSE maxlen
              bas == IF Wraps(len) THEN LitBas ELSE len
              byte(k) == IF k <= bas THEN mem[adr_lir_comp + k - 1]
                         ELSE mem[MEMORY_SIZE + k - bas]
  <2>1. len \in 0 .. CompSize - 1
    BY ReadLength DEF StoreInv
  <2>2. out' = [k \in 1 .. len |-> byte(k)]
    BY <1>1 DEF StorReadComp
  <2>3. ASSUME NEW k \in 1 .. len PROVE byte(k) \in Byte
    <3>. HIDE DEF len
    <3>1. adr_lir_comp \in CompCell
      BY DEF StoreInv, PointersInv, PointersOK
    <3>2. k <= bas => adr_lir_comp + k - 1 \in Cell
      BY <2>1, <2>3, <3>1 DEF StoreAssumption, CompCell, CompSize, Cell, Wraps, LitBas
    <3>3. k > bas => MEMORY_SIZE + k - bas \in Cell
      BY <2>1, <2>3, <3>1 DEF StoreAssumption, CompCell, CompSize, Cell, Wraps, LitBas
    <3>4. bas \in Int
      BY <2>1, <3>1 DEF StoreAssumption, CompCell, LitBas
    <3>. HIDE DEF bas
    <3>. QED  BY <2>3, <3>2, <3>3, <3>4 DEF StoreInv, TypeOK
  <2>4. len \in Nat
    BY <2>1
  <2>. HIDE DEF len, byte
  <2>. QED  BY <2>2, <2>3, <2>4
<1>2. CASE UNCHANGED out
  <2>1. out \in Seq(Byte)
    BY DEF StoreInv, TypeOK
  <2>. QED  BY <1>2, <2>1, Zenon
<1>3. CASE out' = <<>>
  BY <1>3
<1>. QED
  BY <1>1, <1>2, <1>3
  DEF Next, vars, StartSampling, StartReport, StorWrite, StorWriteFailsBas,
      StorWriteFailsHaut, Compression, StorReadCompFails, EndReport, AbortReport, Reset

LEMMA TypeOfHeader ==
    ASSUME StoreAssumption, StoreInv, [Next]_vars
    PROVE  header' \in CompCell \cup {NoHeader} /\ next' \in Byte
<1>1. header \in CompCell \cup {NoHeader} /\ next \in Byte /\ 0 \in Byte
  BY DEF StoreInv, TypeOK, StoreAssumption, Byte
<1>2. ASSUME NEW n \in 0 .. MAX_EMIT, NEW hole \in 0 .. n, NEW closes \in BOOLEAN,
             NEW lost \in SUBSET (0 .. n), NEW stray \in BOOLEAN,
             Compression(n, hole, closes, lost, stray)
      PROVE  header' \in CompCell \cup {NoHeader} /\ next' \in Byte
  <2>1. hole # 0 => AdvComp(Writer, hole - 1) \in CompCell
    <3>1. hole # 0 => hole - 1 \in 0 .. CompSize
      BY DEF StoreAssumption, CompSize
    <3>. QED  BY <3>1, WriterInRing, AdvCompInRing DEF StoreInv, PointersInv, PointersOK
  <2>2. next' = (next + n) % PERIOD /\ next + n \in Int
    BY <1>1, <1>2 DEF Compression, Byte, StoreAssumption
  <2>3. next' \in Byte
    BY <2>2, Bytes
  <2>4. header' = IF hole # 0 THEN AdvComp(Writer, hole - 1)
                  ELSE IF closes THEN NoHeader ELSE header
    BY <1>2 DEF Compression
  <2>. QED  BY <1>1, <2>1, <2>3, <2>4
<1>3. CASE UNCHANGED next /\ (UNCHANGED header \/ header' = NoHeader)
  BY <1>1, <1>3
<1>4. CASE Reset
  BY <1>1, <1>4 DEF Reset
<1>. QED
  BY <1>2, <1>3, <1>4
  DEF Next, vars, StartSampling, StartReport, StorWrite, StorWriteFailsBas,
      StorWriteFailsHaut, StorReadComp, StorReadCompFails, EndReport, AbortReport

LEMMA TypeOfFaults ==
    ASSUME StoreAssumption, StoreInv, [Next]_vars
    PROVE  fault' \in BOOLEAN /\ faults' \in 0 .. MAX_FAULTS
<1>1. CASE NoFault \/ Fault
  BY <1>1, FaultsStep
<1>2. CASE Reset
  <2>1. fault' \in BOOLEAN
    BY <1>2, Zenon DEF Reset
  <2>2. faults' \in 0 .. MAX_FAULTS
    BY <1>2 DEF Reset, StoreInv, TypeOK, StoreAssumption
  <2>. QED  BY <2>1, <2>2
<1>3. CASE UNCHANGED vars
  <2>1. UNCHANGED <<fault, faults>>
    BY <1>3 DEF vars
  <2>2. fault \in BOOLEAN /\ faults \in 0 .. MAX_FAULTS
    BY Zenon DEF StoreInv, TypeOK
  <2>. QED  BY <2>1, <2>2, Zenon
<1>4. ASSUME NEW n \in 0 .. MAX_EMIT, NEW hole \in 0 .. n, NEW closes \in BOOLEAN,
             NEW lost \in SUBSET (0 .. n), NEW stray \in BOOLEAN,
             Compression(n, hole, closes, lost, stray)
      PROVE  NoFault \/ Fault
  BY <1>4 DEF Compression
<1>. QED
  BY <1>1, <1>2, <1>3, <1>4
  DEF Next, StartSampling, StartReport, StorWrite, StorWriteFailsBas, StorWriteFailsHaut,
      StorReadComp, StorReadCompFails, EndReport, AbortReport

LEMMA StoreInit == Init => StoreInv
  BY StoreAssumption, TypeInit, PointersInit DEF StoreInv

LEMMA StoreStep == StoreInv /\ [Next]_vars => StoreInv'
<1>. SUFFICES ASSUME StoreInv, [Next]_vars PROVE StoreInv'
  OBVIOUS
<1>1. PointersInv'
  BY StoreAssumption, PointersStep DEF StoreInv
<1>2. session' \in Session
  BY <1>1 DEF PointersInv
<1>3. TypeOK'
  BY <1>2, StoreAssumption, TypeOfMemory, TypeOfOut, TypeOfHeader, TypeOfFaults DEF TypeOK
<1>. QED  BY <1>1, <1>3 DEF StoreInv

\* Every cell of the EEPROM, and whatever is read from it, is a byte; the header of an
\* open run has a place in the compressed ring.
THEOREM StoreTypeCorrect == Spec => []TypeOK
<1>1. StoreInv => TypeOK
  BY DEF StoreInv
<1>. QED  BY <1>1, StoreInit, StoreStep, PTL DEF Spec

----------------------------------------------------------------------------
\* SampleStore implements ByteLog.

\* How much of the log the reader has taken.
Taken == AvailableFrom(adr_lir_committed_comp) - AvailableFrom(adr_lir_comp)

\* The strengthening: the reader is between the first unconfirmed byte and the writer.
LogInv == StoreInv /\ Taken \in Nat

----------------------------------------------------------------------------
\* Addresses.

LEMMA AdvCompTwice ==
    ASSUME StoreAssumption, NEW a \in CompCell, NEW i \in Nat, NEW j \in Nat,
           i + j <= CompSize
    PROVE  AdvComp(AdvComp(a, i), j) = AdvComp(a, i + j)
  BY DEF StoreAssumption, CompCell, CompSize, AdvComp

\* ... and round it.
LEMMA AdvCompLap ==
    ASSUME StoreAssumption, NEW a \in CompCell, NEW i \in 0 .. CompSize - 1,
           NEW j \in 0 .. CompSize - 1, i + j >= CompSize
    PROVE  AdvComp(AdvComp(a, i), j) = AdvComp(a, i + j - CompSize)
  BY DEF StoreAssumption, CompCell, CompSize, AdvComp

\* Two places of the ring less than a lap apart are two cells.
LEMMA AdvCompInjective ==
    ASSUME StoreAssumption, NEW a \in CompCell, NEW i \in 0 .. CompSize - 1,
           NEW j \in 0 .. CompSize - 1, AdvComp(a, i) = AdvComp(a, j)
    PROVE  i = j
  BY DEF StoreAssumption, CompCell, CompSize, AdvComp

\* A reader that moves on leaves as many bytes less.
LEMMA AvailableAfter ==
    ASSUME StoreAssumption, adr_ecr_comp \in CompCell \cup {MEMORY_SIZE}, NEW a \in CompCell,
           NEW n \in 0 .. AvailableFrom(a)
    PROVE  AvailableFrom(AdvComp(a, n)) = AvailableFrom(a) - n
  BY DEF StoreAssumption, CompCell, CompSize, AdvComp, AvailableFrom

LEMMA CompSizePositive == StoreAssumption => CompSize \in Nat \ {0} /\ MAX_EMIT \in 0 .. CompSize - 1
  BY DEF StoreAssumption, CompSize

\* Where the reader is, in the log and in the ring.
LEMMA Places ==
    ASSUME StoreAssumption, LogInv
    PROVE  /\ AvailableFrom(adr_lir_committed_comp) \in 0 .. CompSize - 1
           /\ AvailableFrom(adr_lir_comp) \in 0 .. CompSize - 1
           /\ stor_available_comp = AvailableFrom(adr_lir_comp)
           /\ Taken \in 0 .. AvailableFrom(adr_lir_committed_comp)
           /\ AdvComp(adr_lir_committed_comp, Taken) = adr_lir_comp
           /\ AdvComp(adr_lir_committed_comp, AvailableFrom(adr_lir_committed_comp))
                = Writer
           /\ session # "report" => Taken = 0
<1>. DEFINE c == adr_lir_committed_comp
            r == adr_lir_comp
<1>1. c \in CompCell /\ r \in CompCell /\ adr_ecr_comp \in CompCell \cup {MEMORY_SIZE}
  BY DEF LogInv, StoreInv, PointersInv, PointersOK
<1>2. /\ AvailableFrom(c) \in 0 .. CompSize - 1 /\ AvailableFrom(r) \in 0 .. CompSize - 1
      /\ AdvComp(c, AvailableFrom(c)) = Writer
      /\ AdvComp(r, AvailableFrom(r)) = Writer
  BY <1>1, AvailableIsDistance
<1>3. CompSize \in Nat
  BY CompSizePositive
<1>4. Taken \in 0 .. AvailableFrom(c)
  BY <1>2, <1>3 DEF LogInv, Taken
<1>5. AdvComp(c, Taken) = r
  <2>1. Taken \in 0 .. AvailableFrom(c) /\ AvailableFrom(r) = AvailableFrom(c) - Taken
    BY <1>2, <1>3, <1>4 DEF Taken
  <2>. QED
    BY <1>1, <1>2, <2>1
    DEF StoreAssumption, CompCell, CompSize, AdvComp, AvailableFrom
<1>6. session # "report" => Taken = 0
  <2>1. session # "report" => r = c
    BY DEF LogInv, StoreInv, PointersInv, PointersOK
  <2>. QED  BY <1>2, <1>3, <2>1 DEF Taken
<1>. QED  BY <1>2, <1>4, <1>5, <1>6 DEF stor_available_comp

----------------------------------------------------------------------------
\* The log.

\* The n cells of the ring from a on are a sequence of bytes.
RingFrom(m, a, n) == [k \in 1 .. n |-> m[AdvComp(a, k - 1)]]

LEMMA RingBytes ==
    ASSUME StoreAssumption, NEW m \in [Cell -> Byte], NEW a \in CompCell,
           NEW n \in 0 .. CompSize - 1
    PROVE  RingFrom(m, a, n) \in Seq(Byte) /\ Len(RingFrom(m, a, n)) = n
<1>. DEFINE byte(k) == m[AdvComp(a, k - 1)]
<1>1. CompSize \in Nat
  BY CompSizePositive
<1>2. ASSUME NEW k \in 1 .. n PROVE byte(k) \in Byte
  <2>1. k - 1 \in 0 .. CompSize
    BY <1>1
  <2>2. AdvComp(a, k - 1) \in CompCell
    BY <2>1, AdvCompInRing
  <2>3. CompCell \subseteq Cell
    BY DEF StoreAssumption, CompCell, Cell
  <2>. QED  BY <2>2, <2>3
<1>3. n \in Nat
  BY <1>1
<1>. HIDE DEF byte
<1>4. [k \in 1 .. n |-> byte(k)] \in Seq(Byte) /\ Len([k \in 1 .. n |-> byte(k)]) = n
  BY <1>2, <1>3
<1>. QED  BY <1>4 DEF byte, RingFrom

LEMMA LogBytes ==
    ASSUME StoreAssumption, LogInv
    PROVE  /\ Unconfirmed \in Seq(Byte)
           /\ Len(Unconfirmed) = AvailableFrom(adr_lir_committed_comp)
           /\ \A k \in 1 .. AvailableFrom(adr_lir_committed_comp) :
                 Unconfirmed[k] = mem[AdvComp(adr_lir_committed_comp, k - 1)]
<1>1. /\ AvailableFrom(adr_lir_committed_comp) \in 0 .. CompSize - 1
      /\ adr_lir_committed_comp \in CompCell /\ mem \in [Cell -> Byte]
  BY Places DEF LogInv, StoreInv, TypeOK, PointersInv, PointersOK
<1>2. Unconfirmed \in Seq(Byte) /\ Len(Unconfirmed) = AvailableFrom(adr_lir_committed_comp)
  <2>1. Unconfirmed = RingFrom(mem, adr_lir_committed_comp, AvailableFrom(adr_lir_committed_comp))
    BY DEF Unconfirmed, RingFrom
  <2>. QED  BY <1>1, <2>1, RingBytes
<1>. QED  BY <1>2 DEF Unconfirmed

\* A step that leaves the compressed ring alone.
LEMMA LogKept ==
    ASSUME StoreAssumption, LogInv, \A c \in CompCell : mem'[c] = mem[c],
           UNCHANGED <<adr_ecr_comp, adr_lir_committed_comp>>
    PROVE  Unconfirmed' = Unconfirmed
<1>. DEFINE n == AvailableFrom(adr_lir_committed_comp)
<1>1. AvailableFrom(adr_lir_committed_comp)' = n
  BY DEF AvailableFrom
<1>2. n \in 0 .. CompSize - 1 /\ CompSize \in Nat
  BY Places, CompSizePositive
<1>3. ASSUME NEW k \in 1 .. n
      PROVE  mem'[AdvComp(adr_lir_committed_comp, k - 1)] = mem[AdvComp(adr_lir_committed_comp, k - 1)]
  <2>1. k - 1 \in 0 .. CompSize
    BY <1>2
  <2>. QED  BY <2>1, AdvCompInRing DEF LogInv, StoreInv, PointersInv, PointersOK
<1>4. Unconfirmed' = [k \in 1 .. n |-> mem'[AdvComp(adr_lir_committed_comp, k - 1)]]
  BY <1>1 DEF Unconfirmed, AdvComp
<1>. HIDE DEF n
<1>. QED  BY <1>3, <1>4 DEF Unconfirmed, n

\* What a sample of n bytes overtakes.
Lap(n) == IF Len(Unconfirmed) + n >= CompSize THEN CompSize ELSE 0

\* What ByteLog asks of a sample of n bytes.
LEMMA IsProduce ==
    ASSUME NEW n \in 0 .. MAX_EMIT,
           Taken = 0, Taken' = Taken, UNCHANGED out,
           fault' \in BOOLEAN,
           Unconfirmed' \in Seq(Byte), Len(Unconfirmed') = (Len(Unconfirmed) + n) - Lap(n),
           \E late \in 0 .. Len(Unconfirmed), hole \in 0 .. n :
              \A k \in Lap(n) + 1 .. Len(Unconfirmed) + n :
                 \/ k <= Len(Unconfirmed)
                    /\ (k = late \/ Unconfirmed'[k - Lap(n)] = Unconfirmed[k])
                 \/ k > Len(Unconfirmed)
                    /\ (fault' \/ k = Len(Unconfirmed) + hole
                        \/ Unconfirmed'[k - Lap(n)] = CompressedLog!Fresh(n)[k - Len(Unconfirmed)]),
           next' = (next + n) % PERIOD
    PROVE  CompressedLog!Produce(n)
<1>1. AvailableFrom(adr_lir_committed_comp) - AvailableFrom(adr_lir_comp) = 0
  BY DEF Taken
<1>2. UNCHANGED <<AvailableFrom(adr_lir_committed_comp) - AvailableFrom(adr_lir_comp), out>>
  BY DEF Taken
<1>3. CompressedLog!Byte = Byte
  BY DEF CompressedLog!Byte, Byte
<1>. QED  BY <1>1, <1>2, <1>3, Zenon DEF CompressedLog!Produce, Lap

\* Such a step of a task that is not reporting is a sample of no bytes.
LEMMA Idle ==
    ASSUME StoreAssumption, LogInv, session # "report", \A c \in CompCell : mem'[c] = mem[c],
           UNCHANGED <<adr_ecr_comp, adr_lir_comp, adr_lir_committed_comp, next, out>>,
           fault' \in BOOLEAN
    PROVE  CompressedLog!Produce(0)
<1>. DEFINE len == Len(Unconfirmed)
<1>1. /\ Unconfirmed' = Unconfirmed /\ Unconfirmed \in Seq(Byte)
      /\ len \in 0 .. CompSize - 1 /\ CompSize \in Nat
  BY LogKept, LogBytes, Places, CompSizePositive
<1>2. Taken = 0 /\ Taken' = Taken
  <2>1. Taken' = Taken
    BY DEF Taken, AvailableFrom
  <2>. QED  BY <2>1, Places
<1>3. next' = (next + 0) % PERIOD
  BY DEF LogInv, StoreInv, TypeOK, Byte, StoreAssumption
<1>4. len + 0 = len /\ ~(len >= CompSize) /\ len - 0 = len
  BY <1>1
<1>5. Lap(0) = 0
  BY <1>1 DEF Lap
<1>6. \E late \in 0 .. len, hole \in 0 .. 0 : \A k \in Lap(0) + 1 .. len + 0 :
         \/ k <= len /\ (k = late \/ Unconfirmed'[k - Lap(0)] = Unconfirmed[k])
         \/ k > len /\ (fault' \/ k = len + hole
                        \/ Unconfirmed'[k - Lap(0)] = CompressedLog!Fresh(0)[k - len])
  <2>1. 0 \in 0 .. len
    BY <1>1
  <2>2. \A k \in Lap(0) + 1 .. len + 0 : k <= len /\ Unconfirmed'[k - Lap(0)] = Unconfirmed[k]
    BY <1>1, <1>5
  <2>. QED  BY <2>1, <2>2
<1>7. 0 \in 0 .. MAX_EMIT /\ Unconfirmed' \in Seq(Byte)
      /\ Len(Unconfirmed') = (len + 0) - Lap(0)
  BY <1>1, <1>5 DEF StoreAssumption
<1>. QED  BY <1>2, <1>3, <1>6, <1>7, IsProduce, Zenon

----------------------------------------------------------------------------
\* The compressor's bytes.

\* Number j of the new bytes, unless it is held back or lost, is in the ring.
LEMMA EmittedFresh ==
    ASSUME StoreAssumption, LogInv, NEW n \in 0 .. MAX_EMIT, NEW hole \in 0 .. n,
           NEW closes \in BOOLEAN, NEW lost \in SUBSET (0 .. n), NEW stray \in BOOLEAN,
           NEW j \in 1 .. n, j # hole, j \notin lost
    PROVE  Emitted(n, hole, closes, lost, stray)[AdvComp(Writer, j - 1)] = (next + j - 1) % PERIOD
<1>. DEFINE fresh == [k \in 1 .. n |-> AdvComp(Writer, k - 1)]
            c == fresh[j]
            place == CHOOSE k \in 1 .. n : fresh[k] = c
<1>1. Writer \in CompCell /\ n \in 0 .. CompSize - 1 /\ CompSize \in Nat
  BY WriterInRing, CompSizePositive DEF LogInv, StoreInv, PointersInv, PointersOK
<1>2. c = AdvComp(Writer, j - 1) /\ c \in Cell
  <2>1. j - 1 \in 0 .. CompSize
    BY <1>1
  <2>2. c = AdvComp(Writer, j - 1) /\ c \in CompCell
    BY <1>1, <2>1, AdvCompInRing
  <2>. QED  BY <2>2 DEF StoreAssumption, CompCell, Cell
<1>3. ASSUME NEW k \in 1 .. n, fresh[k] = c PROVE k = j
  <2>1. k - 1 \in 0 .. CompSize - 1 /\ j - 1 \in 0 .. CompSize - 1
    BY <1>1
  <2>2. AdvComp(Writer, k - 1) = AdvComp(Writer, j - 1)
    BY <1>2, <1>3
  <2>3. k - 1 = j - 1
    BY <1>1, <2>1, <2>2, AdvCompInjective
  <2>. QED  BY <2>3
<1>4. place = j
  <2>1. fresh[j] = c
    OBVIOUS
  <2>. HIDE DEF fresh, c
  <2>2. place \in 1 .. n /\ fresh[place] = c
    BY <2>1
  <2>. QED  BY <2>2, <1>3
<1>5. \E k \in 1 .. n \ (lost \cup {hole}) : fresh[k] = c
  BY Zenon
<1>6. Emitted(n, hole, closes, lost, stray)[c] = Number(next, n)[place]
  BY <1>2, <1>5 DEF Emitted
<1>7. Number(next, n)[j] = (next + j - 1) % PERIOD
  BY DEF Number
<1>. QED  BY <1>2, <1>4, <1>6, <1>7

\* The other cells keep their bytes, but for the header that is written late.
LEMMA EmittedElsewhere ==
    ASSUME StoreAssumption, NEW n, NEW hole, NEW closes, NEW lost, NEW stray,
           NEW c \in CompCell, c # header,
           \A j \in 1 .. n : AdvComp(Writer, j - 1) # c
    PROVE  Emitted(n, hole, closes, lost, stray)[c] = mem[c]
<1>. DEFINE fresh == [k \in 1 .. n |-> AdvComp(Writer, k - 1)]
<1>1. ~ \E k \in 1 .. n \ (lost \cup {hole}) : fresh[k] = c
  BY Zenon
<1>2. c \in Cell /\ c # MEMORY_SIZE
  BY DEF StoreAssumption, CompCell, Cell
<1>. QED  BY <1>1, <1>2 DEF Emitted

\* The log grows by what was compressed, and loses a lap that it reaches.
LEMMA LogGrows ==
    ASSUME StoreAssumption, LogInv, NEW n \in 0 .. MAX_EMIT, NEW stray \in BOOLEAN,
           adr_ecr_comp' = Published(n, stray),
           UNCHANGED adr_lir_committed_comp
    PROVE  /\ AvailableFrom(adr_lir_committed_comp)' = (Len(Unconfirmed) + n) - Lap(n)
           /\ AvailableFrom(adr_lir_committed_comp)' \in 0 .. CompSize - 1
<1>. DEFINE c == adr_lir_committed_comp
<1>. DEFINE p == AdvComp(Writer, n)
<1>1. /\ c \in CompCell /\ Writer \in CompCell
      /\ Len(Unconfirmed) = AvailableFrom(c) /\ AvailableFrom(c) \in 0 .. CompSize - 1
      /\ AdvComp(c, AvailableFrom(c)) = Writer
      /\ n \in 0 .. CompSize - 1 /\ CompSize \in Nat
  BY LogBytes, Places, WriterInRing, CompSizePositive
  DEF LogInv, StoreInv, PointersInv, PointersOK
<1>2. p \in CompCell
  BY <1>1, AdvCompInRing
<1>3. AvailableFrom(c)' = IF p >= c THEN p - c
                          ELSE p - MEMORY_SIZE - 1 + (MEMORY_COMPRESSED_MAX + 1 - c)
  <2>1. AvailableFrom(c)' = IF adr_ecr_comp' >= c
                            THEN adr_ecr_comp' - c
                            ELSE adr_ecr_comp' - MEMORY_SIZE - 1 + (MEMORY_COMPRESSED_MAX + 1 - c)
    BY DEF AvailableFrom
  <2>2. adr_ecr_comp' = p \/ (adr_ecr_comp' = MEMORY_SIZE /\ p = MEMORY_COMPRESSED_MAX)
    BY DEF Published
  <2>. HIDE DEF c, p
  <2>. QED  BY <1>1, <1>2, <2>1, <2>2 DEF StoreAssumption, CompCell
<1>. DEFINE len == AvailableFrom(c)
            len1 == AvailableFrom(c)'
<1>4. len1 = IF len + n >= CompSize THEN len + n - CompSize ELSE len + n
  <2>1. Writer = AdvComp(c, len) /\ p = AdvComp(Writer, n)
    BY <1>1
  <2>. HIDE DEF c, p, len, len1
  <2>2. len1 = IF p >= c THEN p - c
               ELSE p - MEMORY_SIZE - 1 + (MEMORY_COMPRESSED_MAX + 1 - c)
    BY <1>3 DEF len1
  <2>3. len \in 0 .. CompSize - 1
    BY <1>1 DEF len
  <2>. QED
    BY <1>1, <1>2, <2>1, <2>2, <2>3 DEF StoreAssumption, CompCell, CompSize, AdvComp
<1>. QED  BY <1>1, <1>4 DEF Lap

\* Compressing a sample appends its bytes: late is the header the step writes, if it is
\* still in the log.
LEMMA CompressionProduces ==
    ASSUME StoreAssumption, LogInv, NEW n \in 0 .. MAX_EMIT, NEW hole \in 0 .. n,
           NEW closes \in BOOLEAN, NEW lost \in SUBSET (0 .. n), NEW stray \in BOOLEAN,
           Compression(n, hole, closes, lost, stray)
    PROVE  CompressedLog!Produce(n)
<1>. DEFINE c == adr_lir_committed_comp
            len == Len(Unconfirmed)
            cell(k) == AdvComp(c, k - 1)
<1>1. /\ c \in CompCell /\ Writer \in CompCell
      /\ len = AvailableFrom(c) /\ len \in 0 .. CompSize - 1 /\ AdvComp(c, len) = Writer
      /\ n \in 0 .. CompSize - 1 /\ CompSize \in Nat
  BY LogBytes, Places, WriterInRing, CompSizePositive DEF LogInv, StoreInv, PointersInv, PointersOK
<1>2. /\ mem' = Emitted(n, hole, closes, lost, stray)
      /\ adr_ecr_comp' = Published(n, stray)
      /\ next' = (next + n) % PERIOD
      /\ UNCHANGED <<adr_lir_comp, adr_lir_committed_comp, out>>
      /\ session = "compress"
      /\ closes => header # NoHeader
  BY DEF Compression
<1>3. fault' \in BOOLEAN /\ (lost # {} => fault')
  BY Zenon DEF Compression, NoFault, Fault
<1>4. /\ AvailableFrom(c)' = (len + n) - Lap(n)
      /\ AvailableFrom(c)' \in 0 .. CompSize - 1
  BY <1>2, LogGrows
<1>5. Lap(n) \in {0, CompSize} /\ (Lap(n) = 0 <=> len + n < CompSize)
  BY <1>1 DEF Lap
<1>. DEFINE len1 == AvailableFrom(c)'
<1>6. Unconfirmed' = [k \in 1 .. len1 |-> mem'[cell(k)]]
  BY <1>2 DEF Unconfirmed, AdvComp
<1>7. Unconfirmed' \in Seq(Byte) /\ Len(Unconfirmed') = (len + n) - Lap(n)
  <2>1. mem' \in [Cell -> Byte]
    BY <1>2, EmittedBytes DEF LogInv
  <2>2. Unconfirmed' \in Seq(Byte) /\ Len(Unconfirmed') = len1
    <3>1. Unconfirmed' = RingFrom(mem', c, len1)
      BY <1>6 DEF RingFrom
    <3>2. len1 \in 0 .. CompSize - 1
      BY <1>4
    <3>. HIDE DEF len1, c
    <3>. QED  BY <1>1, <2>1, <3>1, <3>2, RingBytes
  <2>. QED  BY <1>4, <2>2
<1>8. \A k \in Lap(n) + 1 .. len + n : Unconfirmed'[k - Lap(n)] = mem'[cell(k - Lap(n))]
  <2>1. \A k \in Lap(n) + 1 .. len + n : k - Lap(n) \in 1 .. len1
    BY <1>1, <1>4, <1>5
  <2>. HIDE DEF len1, cell
  <2>. QED  BY <1>6, <2>1
<1>9. Taken = 0 /\ Taken' = Taken
  <2>1. Taken = 0
    BY <1>2, Places
  <2>2. adr_lir_comp = adr_lir_committed_comp
    BY <1>2 DEF LogInv, StoreInv, PointersInv, PointersOK
  <2>3. adr_lir_comp' = adr_lir_committed_comp'
    BY <1>2, <2>2
  <2>4. Taken' = 0
    BY <1>2, <1>4, <2>3 DEF Taken
  <2>. QED  BY <2>1, <2>4
\* The old bytes.
<1>10. PICK late \in 0 .. len : \A k \in 1 .. len : cell(k) = header => k = late
  <2>1. CASE \E k \in 1 .. len : cell(k) = header
    <3>1. PICK late \in 1 .. len : cell(late) = header
      BY <2>1
    <3>2. ASSUME NEW k \in 1 .. len, cell(k) = header PROVE k = late
      <4>1. k - 1 \in 0 .. CompSize - 1 /\ late - 1 \in 0 .. CompSize - 1
        BY <1>1
      <4>2. AdvComp(c, k - 1) = AdvComp(c, late - 1)
        BY <3>1, <3>2
      <4>3. k - 1 = late - 1
        BY <1>1, <4>1, <4>2, AdvCompInjective
      <4>. QED  BY <4>3
    <3>3. late \in 0 .. len
      BY <1>1
    <3>. HIDE DEF cell, len
    <3>. QED  BY <3>2, <3>3
  <2>2. CASE ~ \E k \in 1 .. len : cell(k) = header
    <3>1. 0 \in 0 .. len
      BY <1>1
    <3>. QED  BY <2>2, <3>1
  <2>. QED  BY <2>1, <2>2
<1>11. ASSUME NEW k \in Lap(n) + 1 .. len + n, k <= len, k # late
       PROVE  Unconfirmed'[k - Lap(n)] = Unconfirmed[k]
  <2>1. Lap(n) = 0 /\ len + n < CompSize /\ k \in 1 .. len /\ k - Lap(n) = k
    BY <1>1, <1>5, <1>11
  <2>2. cell(k) \in CompCell /\ cell(k) # header
    <3>1. k - 1 \in 0 .. CompSize
      BY <1>1, <2>1
    <3>. QED  BY <1>1, <1>10, <1>11, <2>1, <3>1, AdvCompInRing
  <2>3. ASSUME NEW j \in 1 .. n, AdvComp(Writer, j - 1) = cell(k) PROVE FALSE
    <3>1. /\ len \in Nat /\ j - 1 \in Nat /\ len + (j - 1) <= CompSize
          /\ len + (j - 1) \in 0 .. CompSize - 1 /\ k - 1 \in 0 .. CompSize - 1
      BY <1>1, <2>1
    <3>2. AdvComp(c, len + (j - 1)) = AdvComp(c, k - 1)
      BY <1>1, <2>3, <3>1, AdvCompTwice
    <3>3. len + (j - 1) = k - 1
      BY <1>1, <3>1, <3>2, AdvCompInjective
    <3>. QED  BY <1>1, <2>1, <3>3
  <2>4. mem'[cell(k)] = mem[cell(k)]
    BY <1>2, <2>2, <2>3, EmittedElsewhere
  <2>5. Unconfirmed[k] = mem[cell(k)]
    BY <1>1, <2>1, LogBytes
  <2>6. Unconfirmed'[k - Lap(n)] = mem'[cell(k - Lap(n))]
    BY <1>8
  <2>. QED  BY <2>1, <2>4, <2>5, <2>6
\* The new ones.
<1>12. ASSUME NEW k \in Lap(n) + 1 .. len + n, k > len, ~fault', k # len + hole
       PROVE  Unconfirmed'[k - Lap(n)] = CompressedLog!Fresh(n)[k - len]
  <2>. DEFINE j == k - len
  <2>1. j \in 1 .. n /\ j # hole /\ k = len + j
    BY <1>1, <1>5, <1>12
  <2>2. j \notin lost
    BY <1>3, <1>12
  <2>3. cell(k - Lap(n)) = AdvComp(Writer, j - 1)
    <3>1. CASE Lap(n) = 0
      <4>1. len \in Nat /\ j - 1 \in Nat /\ len + (j - 1) <= CompSize /\ len + (j - 1) = (k - Lap(n)) - 1
        BY <1>1, <1>5, <2>1, <3>1
      <4>. HIDE DEF j, len
      <4>. QED  BY <1>1, <4>1, AdvCompTwice
    <3>2. CASE Lap(n) = CompSize
      <4>1. /\ len \in 0 .. CompSize - 1 /\ j - 1 \in 0 .. CompSize - 1
            /\ len + (j - 1) >= CompSize /\ len + (j - 1) - CompSize = (k - Lap(n)) - 1
        BY <1>1, <1>5, <2>1, <3>2
      <4>. HIDE DEF j, len
      <4>. QED  BY <1>1, <4>1, AdvCompLap
    <3>. QED  BY <1>5, <3>1, <3>2
  <2>4. mem'[AdvComp(Writer, j - 1)] = (next + j - 1) % PERIOD
    <3>. HIDE DEF j
    <3>. QED  BY <1>2, <2>1, <2>2, EmittedFresh
  <2>5. CompressedLog!Fresh(n)[j] = (next + j - 1) % PERIOD
    <3>. HIDE DEF j
    <3>. QED  BY <2>1 DEF CompressedLog!Fresh
  <2>6. Unconfirmed'[k - Lap(n)] = mem'[cell(k - Lap(n))]
    BY <1>8
  <2>. QED  BY <2>3, <2>4, <2>5, <2>6
<1>13. \A k \in Lap(n) + 1 .. len + n :
          \/ k <= len /\ (k = late \/ Unconfirmed'[k - Lap(n)] = Unconfirmed[k])
          \/ k > len /\ (fault' \/ k = len + hole
                         \/ Unconfirmed'[k - Lap(n)] = CompressedLog!Fresh(n)[k - len])
  <2>1. \A k \in Lap(n) + 1 .. len + n : k <= len \/ k > len
    BY <1>1, <1>5
  <2>. HIDE DEF len
  <2>. QED  BY <1>11, <1>12, <2>1, Zenon
<1>14. \E l \in 0 .. len, h \in 0 .. n : \A k \in Lap(n) + 1 .. len + n :
          \/ k <= len /\ (k = l \/ Unconfirmed'[k - Lap(n)] = Unconfirmed[k])
          \/ k > len /\ (fault' \/ k = len + h
                         \/ Unconfirmed'[k - Lap(n)] = CompressedLog!Fresh(n)[k - len])
  BY <1>13, Zenon
<1>. QED
  BY <1>2, <1>3, <1>7, <1>9, <1>14, IsProduce, Zenon

----------------------------------------------------------------------------
\* The reader.

\* A part of the log.
LEMMA LogPart ==
    ASSUME StoreAssumption, LogInv, NEW t \in 0 .. Len(Unconfirmed),
           NEW n \in 0 .. Len(Unconfirmed) - t, NEW s \in Seq(Byte), Len(s) = n,
           \A k \in 1 .. n : s[k] = Unconfirmed[t + k]
    PROVE  s = SubSeq(Unconfirmed, t + 1, t + n)
<1>. DEFINE u == SubSeq(Unconfirmed, t + 1, t + n)
<1>1. Unconfirmed \in Seq(Byte) /\ Len(Unconfirmed) \in Nat
  BY LogBytes
<1>2. t + 1 \in Int /\ t + n \in Int /\ (t + n) - (t + 1) + 1 = n /\ n \in Nat
  BY <1>1
<1>3. \A i \in t + 1 .. t + n : Unconfirmed[i] \in Byte
  <2>1. \A i \in t + 1 .. t + n : i \in 1 .. Len(Unconfirmed)
    BY <1>1
  <2>. QED  BY <1>1, <2>1, ElementOfSeq
<1>4. u \in Seq(Byte) /\ Len(u) = n /\ \A i \in 1 .. n : u[i] = Unconfirmed[(t + 1) + i - 1]
  <2>. DEFINE a == t + 1
              b == t + n
  <2>1. a \in Int /\ b \in Int /\ b - a + 1 = n /\ n \in Nat
    BY <1>2
  <2>2. \A i \in a .. b : Unconfirmed[i] \in Byte
    BY <1>3
  <2>. HIDE DEF a, b
  <2>3. /\ SubSeq(Unconfirmed, a, b) \in Seq(Byte)
        /\ Len(SubSeq(Unconfirmed, a, b)) = IF a <= b THEN b - a + 1 ELSE 0
        /\ \A i \in 1 .. b - a + 1 : SubSeq(Unconfirmed, a, b)[i] = Unconfirmed[a + i - 1]
    BY <2>1, <2>2, SubSeqProperties
  <2>4. Len(SubSeq(Unconfirmed, a, b)) = n
    BY <2>1, <2>3
  <2>5. \A i \in 1 .. n : SubSeq(Unconfirmed, a, b)[i] = Unconfirmed[a + i - 1]
    BY <2>1, <2>3
  <2>. QED  BY <2>3, <2>4, <2>5 DEF a, b
<1>5. \A i \in 1 .. n : (t + 1) + i - 1 = t + i
  BY <1>1
<1>. HIDE DEF u
<1>6. s = u
  BY <1>4, <1>5, SeqEqual
<1>. QED  BY <1>6 DEF u

\* A read of len bytes or less, in one piece or in two, stays behind the writer.
ReadLen(maxlen) == IF stor_available_comp < maxlen THEN stor_available_comp ELSE maxlen

LEMMA ReadLenOK ==
    ASSUME StoreAssumption, LogInv, NEW maxlen \in 1 .. CompSize
    PROVE  /\ ReadLen(maxlen) \in 0 .. AvailableFrom(adr_lir_comp)
           /\ ReadLen(maxlen) \in 0 .. CompSize
           /\ ReadLen(maxlen) <= Len(Unconfirmed) - Taken
<1>1. /\ stor_available_comp = AvailableFrom(adr_lir_comp)
      /\ AvailableFrom(adr_lir_comp) \in 0 .. CompSize - 1
      /\ AvailableFrom(adr_lir_committed_comp) \in 0 .. CompSize - 1
      /\ Len(Unconfirmed) = AvailableFrom(adr_lir_committed_comp)
      /\ CompSize \in Nat
  BY Places, LogBytes, CompSizePositive
<1>. QED  BY <1>1 DEF ReadLen, Taken

\* The reader's new address: it goes round the ring.
LEMMA ReadGoesRound ==
    ASSUME StoreAssumption, LogInv, NEW len \in 0 .. CompSize
    PROVE  AdvComp(adr_lir_comp, len) = IF Wraps(len) THEN MEMORY_SIZE + 1 + (len - LitBas)
                                        ELSE adr_lir_comp + len
  BY DEF LogInv, StoreInv, PointersInv, PointersOK, StoreAssumption, CompCell, CompSize,
         AdvComp, Wraps, LitBas

\* The log when the reader has moved on by n.
LEMMA ReaderMoves ==
    ASSUME StoreAssumption, LogInv, NEW n \in 0 .. AvailableFrom(adr_lir_comp),
           adr_lir_comp' = AdvComp(adr_lir_comp, n),
           UNCHANGED <<mem, adr_ecr_comp, adr_lir_committed_comp>>
    PROVE  Unconfirmed' = Unconfirmed /\ Taken' = Taken + n
<1>1. Unconfirmed' = Unconfirmed
  BY LogKept
<1>2. /\ adr_lir_comp \in CompCell /\ adr_ecr_comp \in CompCell \cup {MEMORY_SIZE}
      /\ AvailableFrom(adr_lir_comp) \in 0 .. CompSize - 1
      /\ AvailableFrom(adr_lir_committed_comp) \in 0 .. CompSize - 1
      /\ CompSize \in Nat
  BY Places, CompSizePositive DEF LogInv, StoreInv, PointersInv, PointersOK
<1>3. AvailableFrom(AdvComp(adr_lir_comp, n)) = AvailableFrom(adr_lir_comp) - n
  BY <1>2, AvailableAfter
<1>4. /\ AvailableFrom(adr_lir_comp)' = AvailableFrom(AdvComp(adr_lir_comp, n))
      /\ AvailableFrom(adr_lir_committed_comp)' = AvailableFrom(adr_lir_committed_comp)
  BY DEF AvailableFrom
<1>5. Taken' = AvailableFrom(adr_lir_committed_comp) - (AvailableFrom(adr_lir_comp) - n)
  BY <1>3, <1>4 DEF Taken
<1>. QED  BY <1>1, <1>2, <1>5 DEF Taken

\* stor_read_comp returns the next bytes of the log.
LEMMA ReadTakes ==
    ASSUME StoreAssumption, LogInv, NEW maxlen \in 1 .. CompSize, StorReadComp(maxlen)
    PROVE  \E n \in 0 .. CompSize : CompressedLog!Take(n)
<1>. DEFINE n == ReadLen(maxlen)
            c == adr_lir_committed_comp
            bas == IF Wraps(n) THEN LitBas ELSE n
            cell(k) == IF k <= bas THEN adr_lir_comp + k - 1 ELSE MEMORY_SIZE + k - bas
<1>1. /\ n \in 0 .. AvailableFrom(adr_lir_comp) /\ n \in 0 .. CompSize
      /\ n <= Len(Unconfirmed) - Taken
  BY ReadLenOK
<1>2. /\ out' = [k \in 1 .. n |-> IF k <= bas THEN mem[adr_lir_comp + k - 1]
                                  ELSE mem[MEMORY_SIZE + k - bas]]
      /\ adr_lir_comp' = IF Wraps(n) THEN MEMORY_SIZE + 1 + (n - bas) ELSE adr_lir_comp + n
      /\ fault' = FALSE
      /\ UNCHANGED <<mem, adr_ecr_comp, adr_lir_committed_comp, next>>
  BY DEF StorReadComp, ReadLen, NoFault
<1>3. Unconfirmed' = Unconfirmed /\ Taken' = Taken + n
  <2>1. adr_lir_comp' = AdvComp(adr_lir_comp, n)
    <3>. HIDE DEF n
    <3>. QED  BY <1>1, <1>2, ReadGoesRound
  <2>. HIDE DEF n
  <2>. QED  BY <1>1, <1>2, <2>1, ReaderMoves
<1>4. /\ Taken \in 0 .. AvailableFrom(c) /\ AvailableFrom(c) \in 0 .. CompSize - 1
      /\ AdvComp(c, Taken) = adr_lir_comp /\ c \in CompCell /\ adr_lir_comp \in CompCell
      /\ Len(Unconfirmed) = AvailableFrom(c) /\ Unconfirmed \in Seq(Byte)
      /\ CompSize \in Nat
  BY Places, LogBytes, CompSizePositive DEF LogInv, StoreInv, PointersInv, PointersOK
<1>5. ASSUME NEW k \in 1 .. n PROVE out'[k] = Unconfirmed[Taken + k]
  <2>. HIDE DEF n, c
  <2>1. /\ Taken + k \in 1 .. AvailableFrom(c)
        /\ Taken + (k - 1) <= CompSize /\ Taken \in Nat /\ k - 1 \in Nat
        /\ (Taken + k) - 1 = Taken + (k - 1)
    BY <1>1, <1>4
  <2>2. Unconfirmed[Taken + k] = mem[AdvComp(c, Taken + (k - 1))]
    BY <2>1, LogBytes DEF c
  <2>3. AdvComp(c, Taken + (k - 1)) = AdvComp(adr_lir_comp, k - 1)
    BY <1>4, <2>1, AdvCompTwice
  <2>4. AdvComp(adr_lir_comp, k - 1) = cell(k)
    BY <1>1, <1>4 DEF StoreAssumption, CompCell, CompSize, AdvComp, Wraps, LitBas
  <2>5. out'[k] = mem[cell(k)]
    <3>. HIDE DEF bas
    <3>. QED  BY <1>2
  <2>. QED  BY <2>2, <2>3, <2>4, <2>5
<1>6. out' = SubSeq(Unconfirmed, Taken + 1, Taken + n)
  <2>. HIDE DEF n, c
  <2>1. \A k \in 1 .. n : out'[k] \in Byte
    <3>1. \A k \in 1 .. n : Taken + k \in 1 .. Len(Unconfirmed)
      BY <1>1, <1>4
    <3>. QED  BY <1>4, <1>5, <3>1
  <2>2. out' \in Seq(Byte) /\ Len(out') = n
    <3>. DEFINE byte(k) == out'[k]
    <3>1. out' = [k \in 1 .. n |-> byte(k)] /\ n \in Nat
      BY <1>1, <1>2
    <3>2. \A k \in 1 .. n : byte(k) \in Byte
      BY <2>1
    <3>. HIDE DEF byte
    <3>3. [k \in 1 .. n |-> byte(k)] \in Seq(Byte) /\ Len([k \in 1 .. n |-> byte(k)]) = n
      BY <3>1, <3>2
    <3>. QED  BY <3>1, <3>3
  <2>3. Taken \in 0 .. Len(Unconfirmed) /\ n \in 0 .. Len(Unconfirmed) - Taken
    BY <1>1, <1>4
  <2>. QED  BY <1>5, <2>2, <2>3, LogPart
<1>7. CompressedLog!Take(n)
  BY <1>1, <1>2, <1>3, <1>6 DEF CompressedLog!Take, Taken
<1>. QED  BY <1>1, <1>7

\* A read that times out may leave the reader at the start of the ring.
LEMMA FailedReadTakes ==
    ASSUME StoreAssumption, LogInv, NEW maxlen \in 1 .. CompSize, StorReadCompFails(maxlen)
    PROVE  \E n \in 0 .. CompSize : CompressedLog!FailedTake(n)
<1>. DEFINE n == ReadLen(maxlen)
<1>1. /\ n \in 0 .. AvailableFrom(adr_lir_comp) /\ n \in 0 .. CompSize
      /\ n <= Len(Unconfirmed) - Taken
  BY ReadLenOK
<1>2. /\ out' = <<>> /\ fault' = TRUE
      /\ adr_lir_comp' = adr_lir_comp \/ (Wraps(n) /\ adr_lir_comp' = MEMORY_SIZE + 1)
      /\ UNCHANGED <<mem, adr_ecr_comp, adr_lir_committed_comp, next>>
  BY DEF StorReadCompFails, ReadLen, Fault
<1>. HIDE DEF n
<1>3. adr_lir_comp \in CompCell /\ AvailableFrom(adr_lir_comp) \in 0 .. CompSize - 1
  BY Places DEF LogInv, StoreInv, PointersInv, PointersOK
<1>4. PICK m \in 0 .. n : adr_lir_comp' = AdvComp(adr_lir_comp, m)
  <2>1. CASE adr_lir_comp' = adr_lir_comp
    <3>1. adr_lir_comp = AdvComp(adr_lir_comp, 0) /\ 0 \in 0 .. n
      BY <1>1, <1>3 DEF AdvComp, CompCell, StoreAssumption
    <3>. QED  BY <2>1, <3>1
  <2>2. CASE Wraps(n) /\ adr_lir_comp' = MEMORY_SIZE + 1
    <3>1. LitBas \in 0 .. n /\ MEMORY_SIZE + 1 = AdvComp(adr_lir_comp, LitBas)
      BY <1>1, <1>3, <2>2 DEF AdvComp, CompCell, CompSize, StoreAssumption, Wraps, LitBas
    <3>. QED  BY <2>2, <3>1
  <2>. QED  BY <1>2, <2>1, <2>2
<1>5. Unconfirmed' = Unconfirmed /\ Taken' = Taken + m
  <2>1. m \in 0 .. AvailableFrom(adr_lir_comp)
    BY <1>1, <1>3
  <2>. QED  BY <1>2, <1>4, <2>1, ReaderMoves
<1>6. Taken' \in Taken .. Taken + n
  BY <1>1, <1>5 DEF LogInv
<1>7. CompressedLog!FailedTake(n)
  BY <1>1, <1>2, <1>5, <1>6 DEF CompressedLog!FailedTake, Taken
<1>. QED  BY <1>1, <1>7

\* stor_end_comp confirms what was taken.
LEMMA EndConfirms ==
    ASSUME StoreAssumption, LogInv, EndReport
    PROVE  CompressedLog!Confirm
<1>. DEFINE n == AvailableFrom(adr_lir_comp)
            c == adr_lir_committed_comp
            byte(k) == mem[AdvComp(adr_lir_comp, k - 1)]
<1>1. /\ adr_lir_committed_comp' = adr_lir_comp /\ out' = <<>> /\ fault' = FALSE
      /\ UNCHANGED <<mem, adr_ecr_comp, adr_lir_comp, next>>
  BY DEF EndReport, NoFault
<1>2. /\ Taken \in 0 .. AvailableFrom(c) /\ n \in 0 .. CompSize - 1
      /\ AvailableFrom(c) \in 0 .. CompSize - 1
      /\ AdvComp(c, Taken) = adr_lir_comp /\ c \in CompCell /\ adr_lir_comp \in CompCell
      /\ Len(Unconfirmed) = AvailableFrom(c) /\ Unconfirmed \in Seq(Byte)
      /\ CompSize \in Nat /\ mem \in [Cell -> Byte]
  BY Places, LogBytes, CompSizePositive DEF LogInv, StoreInv, TypeOK, PointersInv, PointersOK
<1>3. n = Len(Unconfirmed) - Taken
  BY <1>2 DEF Taken
<1>4. AvailableFrom(adr_lir_committed_comp)' = n /\ AvailableFrom(adr_lir_comp)' = n
  BY <1>1 DEF AvailableFrom
<1>5. Taken' = 0
  BY <1>2, <1>4 DEF Taken
<1>6. Unconfirmed' = RingFrom(mem, adr_lir_comp, n)
  BY <1>1, <1>4 DEF Unconfirmed, RingFrom, AdvComp
<1>7. Unconfirmed' \in Seq(Byte) /\ Len(Unconfirmed') = n
  <2>. HIDE DEF n
  <2>. QED  BY <1>2, <1>6, RingBytes
<1>8. ASSUME NEW k \in 1 .. n PROVE Unconfirmed'[k] = Unconfirmed[Taken + k]
  <2>. HIDE DEF n
  <2>1. /\ Taken + k \in 1 .. AvailableFrom(c)
        /\ Taken + (k - 1) <= CompSize /\ Taken \in Nat /\ k - 1 \in Nat
        /\ (Taken + k) - 1 = Taken + (k - 1)
    BY <1>2, <1>3
  <2>2. Unconfirmed[Taken + k] = mem[AdvComp(c, Taken + (k - 1))]
    BY <2>1, LogBytes
  <2>3. AdvComp(c, Taken + (k - 1)) = AdvComp(adr_lir_comp, k - 1)
    <3>. HIDE DEF c
    <3>. QED  BY <1>2, <2>1, AdvCompTwice
  <2>4. Unconfirmed'[k] = mem[AdvComp(adr_lir_comp, k - 1)]
    BY <1>6 DEF RingFrom
  <2>. QED  BY <2>2, <2>3, <2>4
<1>9. Unconfirmed' = SubSeq(Unconfirmed, Taken + 1, Len(Unconfirmed))
  <2>1. Taken \in 0 .. Len(Unconfirmed) /\ n \in 0 .. Len(Unconfirmed) - Taken
    BY <1>2, <1>3
  <2>. HIDE DEF n, c
  <2>2. Unconfirmed' = SubSeq(Unconfirmed, Taken + 1, Taken + n)
    BY <1>7, <1>8, <2>1, LogPart
  <2>3. Taken + n = Len(Unconfirmed)
    BY <1>2, <1>3
  <2>. QED  BY <2>2, <2>3
<1>. QED  BY <1>1, <1>5, <1>9 DEF CompressedLog!Confirm, Taken

\* stor_abort_comp cancels it.
LEMMA AbortCancels ==
    ASSUME StoreAssumption, LogInv, AbortReport
    PROVE  CompressedLog!Cancel
<1>1. /\ adr_lir_comp' = adr_lir_committed_comp /\ out' = <<>> /\ fault' = FALSE
      /\ UNCHANGED <<mem, adr_ecr_comp, adr_lir_committed_comp, next>>
  BY DEF AbortReport, NoFault
<1>2. Unconfirmed' = Unconfirmed
  BY <1>1, LogKept
<1>3. Taken' = 0
  <2>1. /\ AvailableFrom(adr_lir_committed_comp)' = AvailableFrom(adr_lir_committed_comp)
        /\ AvailableFrom(adr_lir_comp)' = AvailableFrom(adr_lir_committed_comp)
    BY <1>1 DEF AvailableFrom
  <2>2. AvailableFrom(adr_lir_committed_comp) \in 0 .. CompSize - 1 /\ CompSize \in Nat
    BY Places, CompSizePositive
  <2>. QED  BY <2>1, <2>2 DEF Taken
<1>. QED  BY <1>1, <1>2, <1>3 DEF CompressedLog!Cancel, Taken

\* A reset restarts it: the pointers are at the start, whatever the EEPROM holds.
LEMMA ResetRestarts ==
    ASSUME StoreAssumption, LogInv, Reset
    PROVE  CompressedLog!Restart
<1>1. /\ adr_ecr_comp' = COMP_START /\ adr_lir_comp' = COMP_START
      /\ adr_lir_committed_comp' = COMP_START
      /\ out' = <<>> /\ fault' = FALSE /\ next' = 0
  BY DEF Reset
<1>2. COMP_START \in Int
  BY DEF StoreAssumption
<1>3. AvailableFrom(adr_lir_committed_comp)' = 0 /\ AvailableFrom(adr_lir_comp)' = 0
  BY <1>1, <1>2 DEF AvailableFrom
<1>4. Unconfirmed' = <<>>
  <2>1. Unconfirmed' = [k \in 1 .. 0 |-> mem'[AdvComp(adr_lir_committed_comp', k - 1)]]
    BY <1>3 DEF Unconfirmed, AdvComp
  <2>. QED  BY <2>1
<1>5. Taken' = 0
  BY <1>3 DEF Taken
<1>. QED  BY <1>1, <1>4, <1>5 DEF CompressedLog!Restart, Taken

----------------------------------------------------------------------------
LEMMA LogStarts == Init => CompressedLog!Init /\ Taken = 0
<1>. SUFFICES ASSUME Init PROVE CompressedLog!Init /\ Taken = 0
  OBVIOUS
<1>1. COMP_START \in Int
  BY StoreAssumption DEF StoreAssumption
<1>2. AvailableFrom(adr_lir_committed_comp) = 0 /\ AvailableFrom(adr_lir_comp) = 0
  BY <1>1 DEF Init, AvailableFrom
<1>3. Unconfirmed = <<>>
  <2>1. Unconfirmed = [k \in 1 .. 0 |-> mem[AdvComp(adr_lir_committed_comp, k - 1)]]
    BY <1>2 DEF Unconfirmed
  <2>. QED  BY <2>1
<1>4. Taken = 0
  BY <1>2 DEF Taken
<1>. QED  BY <1>3, <1>4 DEF Init, CompressedLog!Init, Taken

\* Each step of the store is one of the log, or none.
LEMMA LogStep ==
    ASSUME StoreAssumption, LogInv, [Next]_vars
    PROVE  [CompressedLog!Next]_(CompressedLog!vars)
<1>1. ASSUME NEW n \in 0 .. MAX_EMIT, CompressedLog!Produce(n)
      PROVE  CompressedLog!Next
  BY <1>1 DEF CompressedLog!Next
<1>2. 0 \in 0 .. MAX_EMIT
  BY DEF StoreAssumption
<1>3. CASE StartSampling \/ StartReport
  <2>1. session # "report" /\ fault' \in BOOLEAN
    BY <1>3 DEF StartSampling, StartReport, NoFault
  <2>2. UNCHANGED <<mem, adr_ecr_comp, adr_lir_comp, adr_lir_committed_comp, next, out>>
    BY <1>3 DEF StartSampling, StartReport, pointers
  <2>. QED  BY <1>1, <1>2, <2>1, <2>2, Idle
<1>4. CASE StorWrite \/ StorWriteFailsBas \/ StorWriteFailsHaut
  <2>1. session # "report" /\ fault' \in BOOLEAN
    BY <1>4 DEF StorWrite, StorWriteFailsBas, StorWriteFailsHaut, NoFault, Fault
  <2>2. UNCHANGED <<adr_ecr_comp, adr_lir_comp, adr_lir_committed_comp, next, out>>
    BY <1>4 DEF StorWrite, StorWriteFailsBas, StorWriteFailsHaut, pointers
  <2>3. \A c \in CompCell : mem'[c] = mem[c]
    BY <1>4, WriteHolds, HoldsBytes DEF LogInv, StoreInv, TypeOK, PointersInv, PointersOK
  <2>. QED  BY <1>1, <1>2, <2>1, <2>2, <2>3, Idle
<1>5. ASSUME NEW n \in 0 .. MAX_EMIT, NEW hole \in 0 .. n, NEW closes \in BOOLEAN,
             NEW lost \in SUBSET (0 .. n), NEW stray \in BOOLEAN,
             Compression(n, hole, closes, lost, stray)
      PROVE  CompressedLog!Next
  BY <1>1, <1>5, CompressionProduces
<1>6. ASSUME NEW maxlen \in 1 .. CompSize, StorReadComp(maxlen)
      PROVE  CompressedLog!Next
  BY <1>6, ReadTakes DEF CompressedLog!Next
<1>7. ASSUME NEW maxlen \in 1 .. CompSize, StorReadCompFails(maxlen)
      PROVE  CompressedLog!Next
  BY <1>7, FailedReadTakes DEF CompressedLog!Next
<1>8. CASE EndReport
  BY <1>8, EndConfirms DEF CompressedLog!Next
<1>9. CASE AbortReport
  BY <1>9, AbortCancels DEF CompressedLog!Next
<1>10. CASE Reset
  BY <1>10, ResetRestarts DEF CompressedLog!Next
<1>11. CASE UNCHANGED vars
  <2>1. UNCHANGED <<mem, adr_ecr_comp, adr_lir_comp, adr_lir_committed_comp, next, out, fault>>
    BY <1>11 DEF vars, pointers
  <2>2. Unconfirmed' = Unconfirmed /\ Taken' = Taken
    BY <2>1, LogKept DEF Taken, AvailableFrom
  <2>. QED  BY <2>1, <2>2 DEF CompressedLog!vars, Taken
<1>. QED
  BY <1>3, <1>4, <1>5, <1>6, <1>7, <1>8, <1>9, <1>10, <1>11 DEF Next

\* The reader stays between the first unconfirmed byte and the writer.
LEMMA TakenStep ==
    ASSUME StoreAssumption, LogInv, StoreInv', [Next]_vars
    PROVE  Taken' \in Nat
<1>1. CASE session' # "report"
  <2>1. adr_lir_comp' = adr_lir_committed_comp' /\ adr_lir_comp' \in CompCell
        /\ adr_ecr_comp' \in CompCell \cup {MEMORY_SIZE}
    BY <1>1 DEF StoreInv, PointersInv, PointersOK
  <2>2. AvailableFrom(adr_lir_comp)' = AvailableFrom(adr_lir_committed_comp)'
    BY <2>1 DEF AvailableFrom
  <2>3. AvailableFrom(adr_lir_comp)' \in Int
    BY <2>1 DEF AvailableFrom, StoreAssumption, CompCell
  <2>. QED  BY <2>2, <2>3 DEF Taken
<1>2. ASSUME NEW maxlen \in 1 .. CompSize, StorReadComp(maxlen) PROVE Taken' \in Nat
  <2>1. PICK n \in 0 .. CompSize : CompressedLog!Take(n)
    BY <1>2, ReadTakes
  <2>2. Taken' = Taken + n
    BY <2>1 DEF CompressedLog!Take, Taken
  <2>. QED  BY <2>2 DEF LogInv
<1>3. ASSUME NEW maxlen \in 1 .. CompSize, StorReadCompFails(maxlen) PROVE Taken' \in Nat
  <2>1. PICK n \in 0 .. CompSize : CompressedLog!FailedTake(n)
    BY <1>3, FailedReadTakes
  <2>2. Taken' \in Taken .. Taken + n
    BY <2>1 DEF CompressedLog!FailedTake, Taken
  <2>. QED  BY <2>2 DEF LogInv
<1>4. CASE UNCHANGED pointers
  BY <1>4 DEF pointers, Taken, AvailableFrom, LogInv
<1>. QED
  BY <1>1, <1>2, <1>3, <1>4
  DEF Next, vars, StartSampling, StartReport, StorWrite, StorWriteFailsBas,
      StorWriteFailsHaut, Compression, EndReport, AbortReport, Reset

\* Whatever times out, wherever the ring ends and however long the task is off the line:
\* the compressed stream is a FIFO of bytes that is read provisionally, as ByteLog
\* says (l.87-106, 274-332).
THEOREM StoreImplementsByteLog == Spec => ImplementsByteLog
<1>1. Init => LogInv /\ CompressedLog!Init
  BY StoreInit, LogStarts DEF LogInv
<1>2. LogInv /\ [Next]_vars => LogInv'
  BY StoreAssumption, StoreStep, TakenStep DEF LogInv
<1>3. LogInv /\ [Next]_vars => [CompressedLog!Next]_(CompressedLog!vars)
  BY StoreAssumption, LogStep
<1>. QED
  BY <1>1, <1>2, <1>3, PTL DEF Spec, ImplementsByteLog, CompressedLog!Spec
=============================================================================

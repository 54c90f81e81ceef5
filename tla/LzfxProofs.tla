------------------------------- MODULE LzfxProofs -------------------------------
(***************************************************************************)
(* Proofs about Lzfx, for rings, samples and runs of every size and both   *)
(* boards.  The addresses stay in their rings, but for the output address   *)
(* and the one raw cell before the compressed ring.  In a stream that is    *)
(* not spoilt nothing is written there; the loops of lzfx_compress, with    *)
(* their mixed 16- and 32-bit arithmetic, stop where they should: nothing   *)
(* is skipped and little is left; and what is in the compressed ring,       *)
(* decoded, is the bytes that were taken.                                   *)
(***************************************************************************)
EXTENDS Lzfx, WellFoundedInduction, TLAPS

USE LzfxAssumption

\* The raw bytes from e up to x, around the ring's end.
Behind(x, e) == IF e <= x THEN x - e ELSE (x - e) + MEMORY_SIZE + 1

----------------------------------------------------------------------------
\* The inductive invariant. Its types go with what a call leaves to the next: the
\* length of a reference is one that was found, that of a run one that was counted.
LeftOpen ==
    \/ resultat \in {None, Error}
    \/ \E n \in 3 .. 2 * SAMPLE_SIZE : resultat = Ref(n)
    \/ \E n \in 1 .. LZFX_MAX_LIT - 1 : resultat = Lit(n)

TypeInv == TypeOK /\ board \in BOARDS /\ LeftOpen

\* Between calls entree is adr_lir: lzfx_compress reads it from there.
IdleInv == pc = "idle" => entree = adr_lir /\ lit = 0

\* Between calls: what is left is a reference that reached the end, or little more.
IdleBehind ==
    LET left == Behind(adr_ecr, adr_lir)
    IN /\ \A n \in 3 .. 2 * SAMPLE_SIZE : resultat = Ref(n) => left = n /\ n <= SAMPLE_SIZE + 2
       /\ resultat[1] # "ref" => left <= 2 \/ (adr_lir = 0 /\ left = 3)
       /\ compteur = Dernier_echantillon => left = 0

\* In the first sample of a batch, which does not cross the ring's end.
FirstBehind == SAMPLE_SIZE <= adr_ecr /\ entree \in adr_ecr - SAMPLE_SIZE .. adr_ecr

\* In the others: a sample that crosses the ring's end is not the last and has two bytes
\* past it, and with 32-bit ints nothing is left before the end by a sample after it.
Crossing ==
    /\ adr_ecr < SAMPLE_SIZE => adr_ecr >= 2 /\ compteur # Dernier_echantillon
    /\ adr_ecr >= SAMPLE_SIZE /\ board = "SAMD" => entree <= adr_ecr

LoopBehind ==
    /\ Crossing
    /\ \A n \in 3 .. 2 * SAMPLE_SIZE :
          resultat = Ref(n) => Behind(adr_ecr, entree) = n + SAMPLE_SIZE /\ n <= SAMPLE_SIZE + 2
    /\ resultat[1] # "ref" => Behind(adr_ecr, entree) <= SAMPLE_SIZE + 2

FinalBehind ==
    /\ Crossing
    /\ compteur = Dernier_echantillon
    /\ Behind(adr_ecr, entree) <= SAMPLE_SIZE + 2

\* Where the compressor is, in a stream that was not spoilt.
BehindInv ==
    slip = NoSlip =>
      /\ pc = "idle" /\ compteur > 0 => IdleBehind
      /\ pc = "first" => FirstBehind
      /\ pc = "loop" => LoopBehind
      /\ pc = "final" => FinalBehind

LzfxInv == TypeInv /\ IdleInv /\ BehindInv

----------------------------------------------------------------------------
(* The remainders of numbers within one range of the divisor. *)
LEMMA SmallRemainder ==
    ASSUME NEW m \in Nat, m > 0, NEW x \in Int
    PROVE  /\ 0 <= x /\ x < m => x % m = x
           /\ 0 - m <= x /\ x < 0 => x % m = x + m
<1>. DEFINE q == x \div m
<1>1. x = m * q + (x % m) /\ x % m \in 0 .. m - 1 /\ q \in Int
  OBVIOUS
<1>. HIDE DEF q
<1>2. ASSUME 0 <= x, x < m PROVE q = 0
  <2>1. ~(q >= 1)
    BY <1>1, <1>2
  <2>2. ~(q <= -1)
    BY <1>1, <1>2
  <2>. QED  BY <1>1, <2>1, <2>2
<1>3. ASSUME 0 - m <= x, x < 0 PROVE q = -1
  <2>1. ~(q >= 0)
    BY <1>1, <1>3
  <2>2. ~(q <= -2)
    BY <1>1, <1>3
  <2>. QED  BY <1>1, <2>1, <2>2
<1>. QED  BY <1>1, <1>2, <1>3

(* KeepsUp counts what is left as Behind does. *)
LEMMA BehindIsRemainder ==
    ASSUME NEW x \in RawCell, NEW e \in RawCell
    PROVE  /\ (x - e) % (MEMORY_SIZE + 1) = Behind(x, e)
           /\ Behind(x, e) \in 0 .. MEMORY_SIZE
<1>1. x - e \in Int /\ MEMORY_SIZE + 1 \in Nat /\ MEMORY_SIZE + 1 > 0
  BY DEF RawCell
<1>. QED  BY <1>1, SmallRemainder DEF RawCell, Behind

(* The raw addresses a step goes on to stay in the ring (l.535-539). *)
LEMMA RawPlusCell ==
    ASSUME NEW e \in RawCell, NEW n \in 0 .. 2 * SAMPLE_SIZE
    PROVE  RawPlus(e, n) \in RawCell
  BY DEF RawPlus, RawCell

(* What is taken is less behind; the end is not overrun, and not jumped over. *)
LEMMA Advance ==
    ASSUME NEW x \in RawCell, NEW e \in RawCell, NEW n \in Nat, n <= Behind(x, e)
    PROVE  /\ Behind(x, RawPlus(e, n)) = Behind(x, e) - n
           /\ e <= x => RawPlus(e, n) <= x
<1>1. CASE e + n <= MEMORY_SIZE
  BY <1>1 DEF RawPlus, RawCell, Behind
<1>2. CASE e + n > MEMORY_SIZE
  <2>1. e > x
    BY <1>2 DEF RawCell, Behind
  <2>2. RawPlus(e, n) = (e + n) - (MEMORY_SIZE + 1)
    BY <1>2 DEF RawPlus, RawCell
  <2>. QED  BY <1>2, <2>1, <2>2 DEF RawCell, Behind
<1>. QED  BY <1>1, <1>2 DEF RawCell

(* And a sample more is behind after one is stored. *)
LEMMA SampleMore ==
    ASSUME NEW x \in RawCell, NEW e \in RawCell, Behind(x, e) <= SAMPLE_SIZE + 2
    PROVE  Behind(RawPlus(x, SAMPLE_SIZE), e) = Behind(x, e) + SAMPLE_SIZE
<1>1. CASE x + SAMPLE_SIZE <= MEMORY_SIZE
  BY <1>1 DEF RawPlus, RawCell, Behind
<1>2. CASE x + SAMPLE_SIZE > MEMORY_SIZE
  <2>1. RawPlus(x, SAMPLE_SIZE) = (x + SAMPLE_SIZE) - (MEMORY_SIZE + 1)
    BY <1>2 DEF RawPlus, RawCell
  <2>. QED  BY <1>2, <2>1 DEF RawCell, Behind
<1>. QED  BY <1>1, <1>2 DEF RawCell

(* The address a byte is followed by is never the raw cell (l.463). *)
LEMMA OutNextCell ==
    ASSUME NEW s \in OutCell
    PROVE  OutNext(s) \in OutCell /\ OutNext(s) > MEMORY_SIZE
  BY DEF OutCell, OutNext

(* Undoing an empty run may lead to it, and no further (l.551-559). *)
LEMMA AfterRunCell ==
    ASSUME sortie \in OutCell
    PROVE  AfterRun \in OutCell
<1>1. EndOfRun \in OutCell /\ (lit = 0 => EndOfRun > MEMORY_SIZE)
  BY OutNextCell DEF EndOfRun
<1>. QED  BY <1>1 DEF AfterRun, OutCell

(* A stream once spoilt stays so until the next batch. *)
LEMMA RecordSlip ==
    ASSUME NEW c, NEW S \in SUBSET Slip, slip \in Slip \cup {NoSlip}, Record(c, S)
    PROVE  /\ slip' \in Slip \cup {NoSlip}
           /\ slip' = NoSlip => slip = NoSlip /\ S = {}
<1>1. NoSlip \notin Slip
  BY DEF NoSlip, Slip
<1>2. S # {} => (CHOOSE s \in S : TRUE) \in S
  OBVIOUS
<1>. QED  BY <1>1, <1>2 DEF Record

(* What resultat holds is told apart by its first part. *)
LEMMA Tags ==
    /\ None[1] # "ref" /\ None[1] # "lit" /\ Error[1] # "ref" /\ Error[1] # "lit"
    /\ \A n : Ref(n)[1] = "ref" /\ Ref(n)[2] = n /\ Lit(n)[1] = "lit" /\ Lit(n)[2] = n
    /\ \A n, m : Ref(n) # Lit(m) /\ Ref(n) # None /\ Ref(n) # Error
<1>1. /\ None[1] # "ref" /\ None[1] # "lit" /\ Error[1] # "ref" /\ Error[1] # "lit"
  BY DEF None, Error
<1>2. \A n : Ref(n)[1] = "ref" /\ Ref(n)[2] = n /\ Lit(n)[1] = "lit" /\ Lit(n)[2] = n
  BY DEF Ref, Lit
<1>. QED  BY <1>1, <1>2

----------------------------------------------------------------------------
\* Type correctness.

LEMMA LzfxTypeInit == Init => TypeInv
<1>. SUFFICES ASSUME Init PROVE TypeInv
  OBVIOUS
<1>1. adr_ecr \in RawCell /\ adr_ecr_comp \in OutCell
  <2>1. PICK s \in STARTS : adr_ecr = s[1] /\ adr_ecr_comp = s[2]
    BY DEF Init
  <2>. QED  BY <2>1 DEF RawCell, OutCell
<1>2. 0 \in 0 .. LZFX_MAX_LIT - 1
  OBVIOUS
<1>. QED  BY <1>1, <1>2 DEF Init, TypeInv, TypeOK, LeftOpen, NoSlip

(* A step of lzfx_compress keeps to the rings if its locals do. *)
LEMMA StepTyped ==
    ASSUME TypeInv, UNCHANGED <<board, adr_ecr, adr_lir_deb, compteur, samples, missed>>,
           entree' \in RawCell, sortie' \in OutCell, lit' \in 0 .. LZFX_MAX_LIT - 1,
           \/ UNCHANGED <<adr_lir, adr_ecr_comp>>
           \/ adr_lir' \in RawCell /\ adr_ecr_comp' \in OutCell,
           LeftOpen', pc' \in {"idle", "first", "loop", "final"},
           slip' \in Slip \cup {NoSlip}
    PROVE  TypeInv'
  BY DEF TypeInv, TypeOK

(* Copying a byte (l.488-509). *)
LEMMA Copying ==
    ASSUME TypeInv, NEW l \in 0 .. LZFX_MAX_LIT - 1, NEW skip, Copy(l, skip)
    PROVE  /\ entree' = RawPlus(entree, 1) /\ entree' \in RawCell
           /\ sortie' \in OutCell /\ lit' \in 0 .. LZFX_MAX_LIT - 1
           /\ slip' \in Slip \cup {NoSlip}
           /\ slip' = NoSlip => slip = NoSlip /\ (pc = "first" \/ l + 1 # LZFX_MAX_LIT)
<1>. DEFINE at == IF skip THEN OutNext(sortie) ELSE sortie
            after == OutNext(at)
            full == l + 1 = LZFX_MAX_LIT
            copied == [cell EXCEPT ![at] = Lit(entree)]
            c == IF full THEN [copied EXCEPT ![HeaderOf(after, l + 1)] = Header(l + 1)]
                 ELSE copied
            met == IF full /\ pc # "first" THEN {"full"} ELSE {}
<1>1. /\ Record(c, met)
      /\ lit' = IF full THEN 0 ELSE l + 1
      /\ sortie' = IF full THEN OutNext(after) ELSE after
      /\ entree' = RawPlus(entree, 1)
  BY DEF Copy
<1>2. sortie' \in OutCell
  <2>1. at \in OutCell
    BY OutNextCell DEF TypeInv, TypeOK
  <2>2. after \in OutCell /\ OutNext(after) \in OutCell
    BY <2>1, OutNextCell
  <2>. HIDE DEF after
  <2>. QED  BY <1>1, <2>2
<1>3. entree' \in RawCell
  BY <1>1, RawPlusCell DEF TypeInv, TypeOK
<1>4. lit' \in 0 .. LZFX_MAX_LIT - 1
  BY <1>1
<1>5. met \in SUBSET Slip /\ slip \in Slip \cup {NoSlip}
  BY DEF Slip, TypeInv, TypeOK
<1>6. met = {} => pc = "first" \/ l + 1 # LZFX_MAX_LIT
  OBVIOUS
<1>. HIDE DEF met, c
<1>. QED  BY <1>1, <1>2, <1>3, <1>4, <1>5, <1>6, RecordSlip

(* Writing a reference (l.513-541). *)
LEMMA Encoding ==
    ASSUME TypeInv, NEW c, NEW s \in OutCell, NEW n \in 3 .. 2 * SAMPLE_SIZE,
           NEW met \in SUBSET Slip, Encode(c, s, n, met)
    PROVE  /\ entree' = RawPlus(entree, n) /\ entree' \in RawCell
           /\ sortie' \in OutCell /\ lit' = 0 /\ lit' \in 0 .. LZFX_MAX_LIT - 1
           /\ slip' \in Slip \cup {NoSlip}
           /\ slip' = NoSlip => slip = NoSlip /\ met = {} /\ s # MEMORY_SIZE
<1>. DEFINE second == OutNext(s)
            d == IF n - 2 < LONG_REF
                 THEN [c EXCEPT ![s] = Ref(n), ![second] = More]
                 ELSE [c EXCEPT ![s] = Ref(n), ![second] = More, ![OutNext(second)] = More]
            all == met \cup IF s = MEMORY_SIZE THEN {"stray"} ELSE {}
<1>1. /\ Record(d, all)
      /\ sortie' = IF n - 2 < LONG_REF THEN OutNext(second) ELSE OutNext(OutNext(second))
      /\ lit' = 0
      /\ entree' = RawPlus(entree, n)
  BY DEF Encode
<1>2. sortie' \in OutCell
  <2>1. second \in OutCell
    BY OutNextCell
  <2>. HIDE DEF second
  <2>. QED  BY <1>1, <2>1, OutNextCell
<1>3. entree' \in RawCell
  BY <1>1, RawPlusCell DEF TypeInv, TypeOK
<1>4. all \in SUBSET Slip /\ met \subseteq all /\ (all = {} => s # MEMORY_SIZE) /\ slip \in Slip \cup {NoSlip}
  BY DEF Slip, TypeInv, TypeOK
<1>. HIDE DEF all, d
<1>. QED  BY <1>1, <1>2, <1>3, <1>4, RecordSlip

(* Returning. *)
LEMMA Returning ==
    ASSUME TypeInv, NEW r, NEW lir \in RawCell, NEW comp \in OutCell, Return(r, lir, comp),
           UNCHANGED <<board, samples, missed>>, slip' \in Slip \cup {NoSlip},
           r = None \/ (\E n \in 3 .. 2 * SAMPLE_SIZE : r = Ref(n))
                    \/ (\E n \in 1 .. LZFX_MAX_LIT - 1 : r = Lit(n))
    PROVE  TypeInv' /\ IdleInv'
<1>1. /\ pc' = "idle" /\ resultat' = r /\ adr_lir' = lir /\ entree' = lir
      /\ adr_ecr_comp' = comp /\ sortie' = comp /\ lit' = 0
      /\ UNCHANGED <<adr_ecr, adr_lir_deb, compteur>>
  BY DEF Return
<1>2. LeftOpen'
  BY <1>1 DEF LeftOpen
<1>3. 0 \in 0 .. LZFX_MAX_LIT - 1
  OBVIOUS
<1>. QED  BY <1>1, <1>2, <1>3, StepTyped DEF IdleInv

(* The types as the proofs of the steps use them. *)
LEMMA LoopTyped ==
    ASSUME TypeInv
    PROVE  /\ adr_ecr \in RawCell /\ adr_lir \in RawCell /\ entree \in RawCell
           /\ sortie \in OutCell /\ adr_ecr_comp \in OutCell
           /\ lit \in 0 .. LZFX_MAX_LIT - 1 /\ compteur \in 0 .. Dernier_echantillon
           /\ slip \in Slip \cup {NoSlip} /\ board \in {"AVR", "SAMD"}
           /\ Behind(adr_ecr, entree) \in 0 .. MEMORY_SIZE
  BY BehindIsRemainder DEF TypeInv, TypeOK

(* Where a sample begins, in the arithmetic of the two boards (l.669). *)
LEMMA SampleBegins ==
    ASSUME TypeInv
    PROVE  debut = IF adr_ecr < SAMPLE_SIZE THEN (adr_ecr - SAMPLE_SIZE) + WORD
                   ELSE adr_ecr - SAMPLE_SIZE
<1>1. WORD \in Nat /\ WORD > 0 /\ adr_ecr - SAMPLE_SIZE \in Int
  BY DEF TypeInv, TypeOK, RawCell
<1>. QED  BY <1>1, SmallRemainder DEF debut, TypeInv, TypeOK, RawCell

LEMMA AsIntOf ==
    ASSUME NEW x \in Int, board \in {"AVR", "SAMD"}
    PROVE  /\ 0 <= x /\ x < WORD => AsInt(x) = x
           /\ 0 - WORD <= x /\ x < 0 => AsInt(x) = IF board = "AVR" THEN x + WORD ELSE x
<1>1. WORD \in Nat /\ WORD > 0
  OBVIOUS
<1>. QED  BY <1>1, SmallRemainder DEF AsInt

(* The loop goes on exactly while three bytes are left, on either side of the ring's end
   and in the arithmetic of either board (l.720), and l.821-827 count them. *)
LEMMA LoopingMeans ==
    ASSUME TypeInv, pc = "loop", Crossing
    PROVE  /\ Looping <=> Behind(adr_ecr, entree) >= 3
           /\ Looping => Left = Behind(adr_ecr, entree)
<1>. DEFINE a == adr_ecr
            into == (entree - a) + SAMPLE_SIZE
<1>0. /\ a \in RawCell /\ entree \in RawCell /\ board \in {"AVR", "SAMD"}
  BY LoopTyped
<1>1. CASE entree <= a
  <2>1. Looping <=> entree + 2 < a
    BY <1>0, <1>1 DEF Looping, fin, RawCell
  <2>2. Behind(a, entree) = a - entree
    BY <1>1 DEF Behind
  <2>3. entree < a => Left = a - entree
    BY DEF Left, fin
  <2>. QED  BY <1>0, <2>1, <2>2, <2>3 DEF RawCell
<1>2. CASE entree > a
  <2>1. into \in Nat /\ into < WORD /\ SAMPLE_SIZE < into
    BY <1>0, <1>2 DEF RawCell
  <2>2. Looping <=> AsInt(SAMPLE_SIZE - AsInt(entree - debut)) > 2
    BY <1>0, <1>2 DEF Looping, fin, RawCell
  <2>3. AsInt(SAMPLE_SIZE - AsInt(entree - debut)) > 2
    <3>1. CASE a >= SAMPLE_SIZE
      <4>1. board = "AVR"
        BY <1>0, <1>2, <3>1 DEF Crossing, RawCell
      <4>2. entree - debut = into
        BY <1>0, <3>1, SampleBegins DEF RawCell
      <4>3. AsInt(entree - debut) = into
        BY <1>0, <2>1, <4>2, AsIntOf
      <4>4. AsInt(SAMPLE_SIZE - into) = (SAMPLE_SIZE - into) + WORD
        BY <1>0, <2>1, <4>1, AsIntOf
      <4>. QED  BY <1>0, <4>3, <4>4 DEF RawCell
    <3>2. CASE a < SAMPLE_SIZE
      <4>1. entree - debut = into - WORD
        BY <1>0, <3>2, SampleBegins DEF RawCell
      <4>2. AsInt(into - WORD) = IF board = "AVR" THEN into ELSE into - WORD
        BY <1>0, <2>1, AsIntOf
      <4>3. CASE board = "AVR"
        <5>1. AsInt(SAMPLE_SIZE - into) = (SAMPLE_SIZE - into) + WORD
          BY <1>0, <2>1, <4>3, AsIntOf
        <5>. QED  BY <1>0, <4>1, <4>2, <4>3, <5>1 DEF RawCell
      <4>4. CASE board = "SAMD"
        <5>1. AsInt(SAMPLE_SIZE - (into - WORD)) = SAMPLE_SIZE - (into - WORD)
          BY <4>4 DEF AsInt
        <5>. QED  BY <1>0, <4>1, <4>2, <4>4, <5>1 DEF RawCell
      <4>. QED  BY <1>0, <4>3, <4>4
    <3>. QED  BY <1>0, <3>1, <3>2 DEF RawCell
  <2>4. Behind(a, entree) = (a - entree) + MEMORY_SIZE + 1
    BY <1>0, <1>2 DEF Behind, RawCell
  <2>5. a >= 2
    BY <1>0 DEF Crossing, RawCell
  <2>6. Left = (MEMORY_SIZE + 1 - entree) + a
    BY <1>0, <1>2 DEF Left, fin, RawCell
  <2>. QED  BY <1>0, <2>2, <2>3, <2>4, <2>5, <2>6 DEF RawCell
<1>. QED  BY <1>0, <1>1, <1>2 DEF RawCell

(* The copying of the last bytes goes on exactly until none is left (l.571). *)
LEMMA FinalMeans ==
    ASSUME TypeInv, pc = "final", FinalBehind
    PROVE  FinalLeft <=> Behind(adr_ecr, entree) > 0
<1>. DEFINE a == adr_ecr
            into == (entree - a) + SAMPLE_SIZE
<1>1. a \in RawCell /\ entree \in RawCell /\ board \in {"AVR", "SAMD"}
  BY LoopTyped
<1>2. a >= SAMPLE_SIZE /\ debut = a - SAMPLE_SIZE
  BY <1>1, SampleBegins DEF FinalBehind, Crossing, RawCell
<1>3. (SAMPLE_SIZE - entree) + debut = SAMPLE_SIZE - into
  BY <1>1, <1>2 DEF RawCell
<1>4. CASE entree <= debut
  BY <1>1, <1>2, <1>4 DEF FinalLeft, fin, RawCell, Behind
<1>5. CASE debut < entree /\ entree <= a
  <2>1. AsInt(SAMPLE_SIZE - into) = a - entree
    BY <1>1, <1>2, <1>5, AsIntOf DEF RawCell
  <2>. QED  BY <1>1, <1>2, <1>3, <1>5, <2>1 DEF FinalLeft, RawCell, Behind
<1>6. CASE entree > a
  <2>1. board = "AVR"
    BY <1>1, <1>2, <1>6 DEF FinalBehind, Crossing, RawCell
  <2>2. SAMPLE_SIZE - into \in Int /\ SAMPLE_SIZE - into < 0 /\ 0 - WORD < SAMPLE_SIZE - into
    BY <1>1, <1>2, <1>6 DEF RawCell
  <2>3. AsInt(SAMPLE_SIZE - into) = (SAMPLE_SIZE - into) + WORD
    BY <1>1, <2>1, <2>2, AsIntOf
  <2>4. FinalLeft
    BY <1>1, <1>2, <1>3, <1>6, <2>2, <2>3 DEF FinalLeft, RawCell
  <2>5. Behind(a, entree) > 0
    BY <1>1, <1>6 DEF RawCell, Behind
  <2>. QED  BY <2>4, <2>5
<1>. QED  BY <1>1, <1>2, <1>4, <1>5, <1>6 DEF RawCell

----------------------------------------------------------------------------
\* The invariant is inductive.

LEMMA LzfxInit == Init => LzfxInv
<1>. SUFFICES ASSUME Init PROVE LzfxInv
  OBVIOUS
<1>1. pc = "idle" /\ compteur = 0 /\ entree = adr_lir /\ lit = 0
  BY DEF Init
<1>2. BehindInv
  BY <1>1 DEF BehindInv
<1>. QED  BY <1>1, <1>2, LzfxTypeInit DEF LzfxInv, IdleInv

(* Bytes taken in the loop that do not open anything. *)
LEMMA LoopAdvance ==
    ASSUME TypeInv, pc = "loop", LoopBehind, UNCHANGED <<board, adr_ecr, compteur>>,
           NEW n \in Nat, n <= Behind(adr_ecr, entree), entree' = RawPlus(entree, n),
           Behind(adr_ecr, entree) - n <= SAMPLE_SIZE + 2,
           resultat'[1] # "ref"
    PROVE  /\ LoopBehind'
           /\ compteur = Dernier_echantillon => FinalBehind'
<1>1. /\ Behind(adr_ecr, RawPlus(entree, n)) = Behind(adr_ecr, entree) - n
      /\ entree <= adr_ecr => RawPlus(entree, n) <= adr_ecr
  BY LoopTyped, Advance
<1>2. Behind(adr_ecr, entree)' <= SAMPLE_SIZE + 2
  BY <1>1 DEF Behind
<1>3. Crossing'
  BY <1>1 DEF LoopBehind, Crossing
<1>4. \A m : resultat' # Ref(m)
  BY Tags
<1>. QED  BY <1>2, <1>3, <1>4 DEF LoopBehind, FinalBehind

(* compression begins after a sample, stored or not. *)
LEMMA BeginStep ==
    ASSUME LzfxInv, NEW a \in RawCell, Begin(a), missed' \in 0 .. MAX_MISSED
    PROVE  LzfxInv'
<1>. DEFINE n == IF compteur < Dernier_echantillon THEN compteur + 1 ELSE 1
            wraps == a < SAMPLE_SIZE
            met == {s \in Slip :
                \/ s = "missed" /\ a # RawPlus(adr_ecr, SAMPLE_SIZE)
                \/ s = "leftover" /\ n = 1 /\ adr_lir # adr_ecr
                \/ s = "wrapped" /\ wraps /\ (a < 2 \/ n \in {1, 2, Dernier_echantillon})
                \/ s = "null" /\ adr_lir = 0
                \/ s = "stalled" /\ board = "SAMD" /\ ~wraps /\ adr_lir > a}
<1>1. /\ pc = "idle" /\ samples < MAX_SAMPLES /\ samples' = samples + 1
      /\ compteur' = n /\ adr_ecr' = a
      /\ adr_lir_deb' \in {adr_lir_deb, adr_lir}
      /\ UNCHANGED <<board, adr_lir, adr_ecr_comp>>
  BY DEF Begin
<1>2. /\ adr_lir = 0 => resultat' = Error /\ UNCHANGED <<pc, locals>>
      /\ adr_lir # 0 => /\ pc' = IF n = 1 THEN "first" ELSE "loop"
                        /\ sortie' = IF n = 1 THEN OutNext(sortie) ELSE sortie
                        /\ UNCHANGED <<resultat, entree, lit>>
  BY DEF Begin
<1>3. IF n = 1 THEN slip' = IF met = {} THEN NoSlip ELSE CHOOSE s \in met : TRUE
      ELSE Record(cell, met)
  BY DEF Begin
<1>4. met = {} =>
         /\ a = RawPlus(adr_ecr, SAMPLE_SIZE)
         /\ n = 1 => adr_lir = adr_ecr
         /\ wraps => a >= 2 /\ n \notin {1, 2, Dernier_echantillon}
         /\ adr_lir # 0
         /\ board = "SAMD" /\ ~wraps => adr_lir <= a
  <2>1. {"missed", "leftover", "wrapped", "null", "stalled"} \subseteq Slip
    BY DEF Slip
  <2>2. a \in Int /\ adr_lir \in Int
    BY LoopTyped DEF RawCell, LzfxInv
  <2>. QED  BY <2>1, <2>2
<1>5. met \in SUBSET Slip
  OBVIOUS
<1>6. n \in 1 .. Dernier_echantillon /\ (n # 1 => compteur > 0 /\ n = compteur + 1)
  BY LoopTyped DEF LzfxInv
<1>. HIDE DEF met, n
<1>7. slip' \in Slip \cup {NoSlip} /\ (slip' = NoSlip => met = {} /\ (n = 1 \/ slip = NoSlip))
  <2>1. CASE n = 1
    <3>1. NoSlip \notin Slip
      BY DEF NoSlip, Slip
    <3>2. met # {} => (CHOOSE s \in met : TRUE) \in Slip
      BY <1>5
    <3>. QED  BY <1>3, <2>1, <3>1, <3>2
  <2>2. CASE n # 1
    BY <1>3, <1>5, <2>2, RecordSlip, LoopTyped DEF LzfxInv
  <2>. QED  BY <2>1, <2>2
<1>8. TypeInv'
  <2>1. adr_lir_deb' \in RawCell
    BY <1>1 DEF LzfxInv, TypeInv, TypeOK
  <2>2. LeftOpen'
    BY <1>2 DEF LzfxInv, TypeInv, LeftOpen
  <2>3. /\ pc' \in {"idle", "first", "loop", "final"} /\ entree' \in RawCell
        /\ lit' \in 0 .. LZFX_MAX_LIT - 1
    BY <1>1, <1>2, LoopTyped DEF LzfxInv, locals
  <2>4. sortie' \in OutCell
    BY <1>2, LoopTyped, OutNextCell DEF LzfxInv, locals
  <2>5. samples' \in 0 .. MAX_SAMPLES
    BY <1>1 DEF LzfxInv, TypeInv, TypeOK
  <2>6. compteur' \in 0 .. Dernier_echantillon
    BY <1>1, <1>6
  <2>. QED  BY <1>1, <1>7, <2>1, <2>2, <2>3, <2>4, <2>5, <2>6 DEF LzfxInv, TypeInv, TypeOK
<1>9. IdleInv'
  BY <1>1, <1>2 DEF LzfxInv, IdleInv, locals
<1>10. BehindInv'
  <2>. SUFFICES ASSUME slip' = NoSlip
                PROVE  /\ pc' = "first" => FirstBehind'
                       /\ pc' = "loop" => LoopBehind'
                       /\ pc' \in {"first", "loop"}
    BY DEF BehindInv
  <2>1. /\ a = RawPlus(adr_ecr, SAMPLE_SIZE) /\ (n = 1 => adr_lir = adr_ecr)
        /\ wraps => a >= 2 /\ n \notin {1, 2, Dernier_echantillon}
        /\ adr_lir # 0 /\ (board = "SAMD" /\ ~wraps => adr_lir <= a)
        /\ n = 1 \/ slip = NoSlip
    BY <1>4, <1>7
  <2>2. /\ pc' = IF n = 1 THEN "first" ELSE "loop"
        /\ UNCHANGED <<resultat, entree, lit, board>> /\ entree = adr_lir
    BY <1>1, <1>2, <2>1 DEF LzfxInv, IdleInv
  <2>3. adr_ecr \in RawCell /\ adr_lir \in RawCell
    BY LoopTyped DEF LzfxInv
  <2>4. CASE n = 1
    <3>1. a >= SAMPLE_SIZE /\ a = adr_ecr + SAMPLE_SIZE
      BY <2>1, <2>3, <2>4 DEF RawPlus, RawCell
    <3>. QED  BY <1>1, <2>1, <2>2, <2>3, <2>4, <3>1 DEF FirstBehind, RawCell
  <2>5. CASE n # 1
    <3>1. IdleBehind
      BY <1>1, <1>6, <2>1, <2>5 DEF LzfxInv, BehindInv
    <3>2. /\ \A m \in 3 .. 2 * SAMPLE_SIZE : resultat = Ref(m) =>
                Behind(adr_ecr, adr_lir) = m /\ m <= SAMPLE_SIZE + 2
          /\ resultat[1] # "ref" => Behind(adr_ecr, adr_lir) <= 2
      BY <2>1, <3>1 DEF IdleBehind
    <3>3. Behind(adr_ecr, adr_lir) <= SAMPLE_SIZE + 2
      <4>1. resultat[1] # "ref" \/ \E m \in 3 .. 2 * SAMPLE_SIZE : resultat = Ref(m)
        BY Tags DEF LzfxInv, TypeInv, LeftOpen
      <4>2. CASE resultat[1] # "ref"
        BY <2>3, <3>2, <4>2, BehindIsRemainder
      <4>3. CASE \E m \in 3 .. 2 * SAMPLE_SIZE : resultat = Ref(m)
        BY <3>2, <4>3
      <4>. QED  BY <4>1, <4>2, <4>3
    <3>4. Behind(a, adr_lir) = Behind(adr_ecr, adr_lir) + SAMPLE_SIZE
      BY <2>1, <2>3, <3>3, SampleMore
    <3>5. Behind(adr_ecr, entree)' = Behind(a, adr_lir)
      BY <1>1, <2>2 DEF Behind
    <3>6. Crossing'
      BY <1>1, <2>1, <2>2, <2>3, <2>5 DEF Crossing, RawCell
    <3>7. LoopBehind'
      <4>1. Behind(adr_ecr, adr_lir) \in Nat
        BY <2>3, BehindIsRemainder
      <4>. QED  BY <2>2, <3>2, <3>4, <3>5, <3>6, <4>1 DEF LoopBehind
    <3>. QED  BY <2>2, <2>5, <3>7
  <2>. QED  BY <2>4, <2>5
<1>. QED  BY <1>8, <1>9, <1>10 DEF LzfxInv

(* The copying of a first sample goes on exactly until none of it is left (l.457). *)
LEMMA FirstMeans ==
    ASSUME TypeInv, pc = "first", FirstBehind
    PROVE  FirstLeft <=> entree < adr_ecr
<1>1. adr_ecr \in RawCell /\ entree \in RawCell /\ board \in {"AVR", "SAMD"}
  BY LoopTyped
<1>2. debut = adr_ecr - SAMPLE_SIZE
  BY <1>1, SampleBegins DEF FirstBehind, RawCell
<1>3. debut + SAMPLE_SIZE = adr_ecr /\ adr_ecr < WORD
  BY <1>1, <1>2 DEF RawCell
<1>4. AsInt(debut + SAMPLE_SIZE) = adr_ecr
  BY <1>1, <1>3, AsIntOf DEF RawCell
<1>. QED  BY <1>1, <1>2, <1>4 DEF FirstLeft, fin, FirstBehind, RawCell

\* What no step of lzfx_compress changes.
Fixed == UNCHANGED <<board, adr_ecr, adr_lir_deb, compteur, samples, missed>>

LEMMA RecopiageStep == LzfxInv /\ Recopiage => LzfxInv'
<1>. SUFFICES ASSUME LzfxInv, Recopiage PROVE LzfxInv'
  OBVIOUS
<1>1. /\ pc = "first" /\ FirstLeft /\ Copy(lit, FALSE) /\ Fixed
      /\ UNCHANGED <<pc, adr_lir, adr_ecr_comp, resultat>>
  BY DEF Recopiage, saved, Fixed
<1>2. /\ entree' = RawPlus(entree, 1) /\ entree' \in RawCell
      /\ sortie' \in OutCell /\ lit' \in 0 .. LZFX_MAX_LIT - 1
      /\ slip' \in Slip \cup {NoSlip}
      /\ slip' = NoSlip => slip = NoSlip
  BY <1>1, LoopTyped, Copying DEF LzfxInv
<1>3. TypeInv'
  BY <1>1, <1>2, StepTyped DEF LzfxInv, Fixed, TypeInv, LeftOpen
<1>4. ASSUME slip' = NoSlip PROVE FirstBehind'
  <2>1. FirstBehind /\ entree < adr_ecr
    BY <1>1, <1>2, <1>4, FirstMeans DEF LzfxInv, BehindInv
  <2>2. adr_ecr \in RawCell /\ entree \in RawCell
    BY LoopTyped DEF LzfxInv
  <2>3. entree' = entree + 1
    BY <1>2, <2>1, <2>2 DEF RawPlus, RawCell
  <2>. QED  BY <1>1, <2>1, <2>2, <2>3 DEF FirstBehind, Fixed, RawCell
<1>. QED  BY <1>1, <1>3, <1>4 DEF LzfxInv, IdleInv, BehindInv

(* The two ends of a call that leave nothing. *)
LEMMA DoneStep == LzfxInv /\ (RecopiageDone \/ BatchDone) => LzfxInv'
<1>. SUFFICES ASSUME LzfxInv, RecopiageDone \/ BatchDone PROVE LzfxInv'
  OBVIOUS
<1>1. PICK comp \in OutCell : Return(None, fin, comp) /\ UNCHANGED <<board, samples, missed>>
  BY LoopTyped, AfterRunCell DEF LzfxInv, RecopiageDone, BatchDone
<1>2. slip' \in Slip \cup {NoSlip}
  <2>1. CASE RecopiageDone
    BY <2>1, LoopTyped DEF LzfxInv, RecopiageDone
  <2>2. CASE BatchDone
    BY <2>2, LoopTyped, RecordSlip DEF LzfxInv, BatchDone
  <2>. QED  BY <2>1, <2>2
<1>3. fin \in RawCell
  BY LoopTyped DEF LzfxInv, fin
<1>4. TypeInv' /\ IdleInv'
  BY <1>1, <1>2, <1>3, Returning DEF LzfxInv
<1>5. pc' = "idle" /\ adr_ecr' = adr_ecr /\ adr_lir' = adr_ecr /\ resultat' = None
  BY <1>1 DEF Return, fin
<1>6. IdleBehind'
  <2>1. Behind(adr_ecr, adr_lir)' = 0
    BY <1>3, <1>5 DEF Behind, fin, RawCell
  <2>2. /\ \A m : resultat' # Ref(m)
    BY <1>5, Tags
  <2>. QED  BY <2>1, <2>2 DEF IdleBehind
<1>. QED  BY <1>4, <1>5, <1>6 DEF LzfxInv, BehindInv

(* In the loop there is at least what a step of it takes. *)
LEMMA InTheLoop ==
    ASSUME LzfxInv, Looping
    PROVE  /\ pc = "loop" /\ TypeInv
           /\ slip = NoSlip => /\ LoopBehind
                               /\ Behind(adr_ecr, entree) >= 3
                               /\ Left = Behind(adr_ecr, entree)
                               /\ Behind(adr_ecr, entree) \in 0 .. MEMORY_SIZE
<1>1. pc = "loop"
  BY DEF Looping
<1>2. slip = NoSlip => LoopBehind /\ Crossing
  BY <1>1 DEF LzfxInv, BehindInv, LoopBehind
<1>. QED  BY <1>1, <1>2, LoopingMeans, LoopTyped DEF LzfxInv

LEMMA ContinuiteStep ==
    ASSUME LzfxInv, NEW n \in 3 .. 2 * SAMPLE_SIZE, Continuite(n)
    PROVE  LzfxInv'
<1>. DEFINE maxlen == resultat[2] - 2 + IF compteur < Dernier_echantillon
                                        THEN SAMPLE_SIZE - 1 ELSE SAMPLE_SIZE - 3
<1>1. /\ Looping /\ resultat[1] = "ref" /\ n >= resultat[2] /\ n <= maxlen
      /\ Encode(cell, sortie, n, {}) /\ resultat' = None
      /\ Fixed /\ UNCHANGED <<pc, adr_lir, adr_ecr_comp>>
  BY DEF Continuite, Fixed
<1>2. PICK m \in 3 .. 2 * SAMPLE_SIZE : resultat = Ref(m)
  BY <1>1, Tags DEF LzfxInv, TypeInv, LeftOpen
<1>3. m <= n /\ n <= (m + SAMPLE_SIZE) - 3
  BY <1>1, <1>2, Tags, LoopTyped DEF LzfxInv
<1>4. /\ entree' = RawPlus(entree, n) /\ entree' \in RawCell
      /\ sortie' \in OutCell /\ lit' \in 0 .. LZFX_MAX_LIT - 1
      /\ slip' \in Slip \cup {NoSlip}
      /\ slip' = NoSlip => slip = NoSlip
  BY <1>1, LoopTyped, Encoding DEF LzfxInv
<1>5. TypeInv'
  BY <1>1, <1>4, StepTyped DEF LzfxInv, Fixed, TypeInv, TypeOK, LeftOpen
<1>6. ASSUME slip' = NoSlip PROVE LoopBehind'
  <2>1. pc = "loop" /\ LoopBehind /\ Behind(adr_ecr, entree) = m + SAMPLE_SIZE
    BY <1>1, <1>2, <1>4, <1>6, InTheLoop DEF LoopBehind
  <2>2. n <= Behind(adr_ecr, entree) /\ Behind(adr_ecr, entree) - n <= SAMPLE_SIZE + 2
    BY <1>3, <2>1
  <2>. QED  BY <1>1, <1>4, <2>1, <2>2, Tags, LoopAdvance DEF LzfxInv, Fixed
<1>. QED  BY <1>1, <1>5, <1>6, InTheLoop DEF LzfxInv, IdleInv, BehindInv

LEMMA ContinueRunStep == LzfxInv /\ ContinueRun => LzfxInv'
<1>. SUFFICES ASSUME LzfxInv, ContinueRun PROVE LzfxInv'
  OBVIOUS
<1>1. /\ Looping /\ resultat[1] = "lit" /\ lit' = resultat[2] /\ resultat' = None
      /\ Fixed /\ UNCHANGED <<pc, adr_lir, adr_ecr_comp, entree, sortie, slip>>
  BY DEF ContinueRun, Fixed
<1>2. PICK m \in 1 .. LZFX_MAX_LIT - 1 : resultat = Lit(m)
  BY <1>1, Tags DEF LzfxInv, TypeInv, LeftOpen
<1>3. lit' \in 0 .. LZFX_MAX_LIT - 1
  BY <1>1, <1>2, Tags
<1>4. TypeInv'
  BY <1>1, <1>3, StepTyped DEF LzfxInv, Fixed, TypeInv, TypeOK, LeftOpen
<1>5. ASSUME slip' = NoSlip PROVE LoopBehind'
  <2>1. LoopBehind /\ Behind(adr_ecr, entree) <= SAMPLE_SIZE + 2
    BY <1>1, <1>5, InTheLoop DEF LoopBehind
  <2>2. Behind(adr_ecr, entree)' = Behind(adr_ecr, entree)
    BY <1>1 DEF Behind, Fixed
  <2>3. Crossing'
    BY <1>1, <2>1 DEF LoopBehind, Crossing, Fixed
  <2>4. \A k : resultat' # Ref(k)
    BY <1>1, Tags
  <2>. QED  BY <2>1, <2>2, <2>3, <2>4 DEF LoopBehind
<1>. QED  BY <1>1, <1>4, <1>5, InTheLoop DEF LzfxInv, IdleInv, BehindInv

LEMMA MatchStep ==
    ASSUME LzfxInv, NEW n \in 3 .. 2 * SAMPLE_SIZE, Match(n)
    PROVE  LzfxInv'
<1>. DEFINE met == IF compteur = 2 /\ entree = debut THEN {"first"} ELSE {}
<1>1. /\ Looping /\ resultat = None /\ compteur < Dernier_echantillon
      /\ n <= Left \/ n = 3
      /\ IF n = Left
         THEN /\ Record(RunClosed, met)
              /\ \/ Return(Ref(n), entree, AfterRun)
                 \/ n = 3 /\ entree = 0 /\ Return(None, entree, AfterRun)
         ELSE Encode(RunClosed, AfterRun, n, met) /\ UNCHANGED <<saved, pc>>
      /\ UNCHANGED <<board, samples, missed>>
  BY DEF Match
<1>2. met \in SUBSET Slip /\ AfterRun \in OutCell /\ entree \in RawCell
      /\ slip \in Slip \cup {NoSlip}
  BY LoopTyped, AfterRunCell DEF LzfxInv, Slip
<1>3. slip = NoSlip => /\ LoopBehind /\ Left = Behind(adr_ecr, entree)
                       /\ Behind(adr_ecr, entree) \in 3 .. SAMPLE_SIZE + 2
  BY <1>1, InTheLoop, Tags DEF LoopBehind
<1>. HIDE DEF met
<1>4. CASE n = Left
  <2>1. slip' \in Slip \cup {NoSlip} /\ (slip' = NoSlip => slip = NoSlip)
    BY <1>1, <1>2, <1>4, RecordSlip
  <2>2. PICK r \in {None, Ref(n)} : Return(r, entree, AfterRun) /\ (r = None => n = 3 /\ entree = 0)
    BY <1>1, <1>4, Tags
  <2>3. TypeInv' /\ IdleInv'
    BY <1>1, <1>2, <2>1, <2>2, Returning DEF LzfxInv
  <2>4. /\ pc' = "idle" /\ adr_lir' = entree /\ resultat' = r
        /\ adr_ecr' = adr_ecr /\ compteur' = compteur
    BY <2>2 DEF Return
  <2>5. ASSUME slip' = NoSlip PROVE IdleBehind'
    <3>1. Behind(adr_ecr, adr_lir)' = n /\ n <= SAMPLE_SIZE + 2
      BY <1>3, <1>4, <2>1, <2>4, <2>5 DEF Behind
    <3>2. \A m : resultat' = Ref(m) => m = n
      BY <2>2, <2>4, Tags
    <3>3. resultat'[1] # "ref" => n = 3 /\ adr_lir' = 0
      BY <2>2, <2>4, Tags
    <3>. QED  BY <1>1, <2>4, <3>1, <3>2, <3>3 DEF IdleBehind
  <2>. QED  BY <2>3, <2>4, <2>5 DEF LzfxInv, BehindInv
<1>5. CASE n # Left
  <2>1. Encode(RunClosed, AfterRun, n, met) /\ UNCHANGED <<saved, pc>>
    BY <1>1, <1>5
  <2>2. /\ entree' = RawPlus(entree, n) /\ entree' \in RawCell
        /\ sortie' \in OutCell /\ lit' \in 0 .. LZFX_MAX_LIT - 1
        /\ slip' \in Slip \cup {NoSlip}
        /\ slip' = NoSlip => slip = NoSlip
    BY <1>2, <2>1, Encoding DEF LzfxInv
  <2>3. TypeInv'
    BY <1>1, <2>1, <2>2, StepTyped DEF LzfxInv, TypeInv, TypeOK, LeftOpen, saved
  <2>4. ASSUME slip' = NoSlip PROVE LoopBehind'
    <3>1. n <= Behind(adr_ecr, entree) /\ Behind(adr_ecr, entree) - n <= SAMPLE_SIZE + 2
      BY <1>1, <1>3, <2>2, <2>4
    <3>. QED  BY <1>1, <1>3, <2>1, <2>2, <2>4, <3>1, Tags, InTheLoop, LoopAdvance DEF saved
  <2>. QED  BY <1>1, <2>1, <2>3, <2>4, InTheLoop DEF LzfxInv, IdleInv, BehindInv, saved
<1>. QED  BY <1>4, <1>5

LEMMA MatchLastStep ==
    ASSUME LzfxInv, NEW n \in 3 .. SAMPLE_SIZE, MatchLast(n)
    PROVE  LzfxInv'
<1>1. /\ Looping /\ resultat = None /\ compteur = Dernier_echantillon
      /\ n <= Left - 2 \/ n = 3
      /\ Encode(RunClosed, AfterRun, n, {})
      /\ pc' \in {"final", pc} /\ Fixed
      /\ UNCHANGED <<adr_lir, adr_ecr_comp, resultat>>
  BY DEF MatchLast, Fixed, saved
<1>2. n \in 3 .. 2 * SAMPLE_SIZE /\ AfterRun \in OutCell
  BY LoopTyped, AfterRunCell DEF LzfxInv
<1>3. /\ entree' = RawPlus(entree, n) /\ entree' \in RawCell
      /\ sortie' \in OutCell /\ lit' \in 0 .. LZFX_MAX_LIT - 1
      /\ slip' \in Slip \cup {NoSlip}
      /\ slip' = NoSlip => slip = NoSlip
  BY <1>1, <1>2, Encoding DEF LzfxInv
<1>4. pc' \in {"final", "loop"}
  BY <1>1, InTheLoop
<1>5. TypeInv'
  BY <1>1, <1>3, <1>4, StepTyped DEF LzfxInv, Fixed, TypeInv, LeftOpen
<1>6. ASSUME slip' = NoSlip PROVE LoopBehind' /\ FinalBehind'
  <2>1. /\ pc = "loop" /\ LoopBehind /\ Left = Behind(adr_ecr, entree)
        /\ Behind(adr_ecr, entree) \in 3 .. SAMPLE_SIZE + 2
    BY <1>1, <1>3, <1>6, InTheLoop, Tags DEF LoopBehind
  <2>2. n <= Behind(adr_ecr, entree) /\ Behind(adr_ecr, entree) - n <= SAMPLE_SIZE + 2
    BY <1>1, <2>1
  <2>. QED  BY <1>1, <1>3, <2>1, <2>2, Tags, LoopAdvance DEF LzfxInv, Fixed
<1>. QED  BY <1>4, <1>5, <1>6 DEF LzfxInv, IdleInv, BehindInv

LEMMA LiteralStep == LzfxInv /\ Literal => LzfxInv'
<1>. SUFFICES ASSUME LzfxInv, Literal PROVE LzfxInv'
  OBVIOUS
<1>. DEFINE l == IF compteur = 2 /\ entree = debut THEN SAMPLE_SIZE ELSE lit
<1>1. /\ Looping /\ resultat = None /\ Copy(l, l = 0) /\ Fixed
      /\ UNCHANGED <<pc, adr_lir, adr_ecr_comp, resultat>>
  BY DEF Literal, Fixed, saved
<1>2. l \in 0 .. LZFX_MAX_LIT - 1
  <2>1. lit \in 0 .. LZFX_MAX_LIT - 1
    BY LoopTyped DEF LzfxInv
  <2>2. SAMPLE_SIZE \in 0 .. LZFX_MAX_LIT - 1
    OBVIOUS
  <2>. QED  BY <2>1, <2>2, Zenon
<1>. HIDE DEF l
<1>3. /\ entree' = RawPlus(entree, 1) /\ entree' \in RawCell
      /\ sortie' \in OutCell /\ lit' \in 0 .. LZFX_MAX_LIT - 1
      /\ slip' \in Slip \cup {NoSlip}
      /\ slip' = NoSlip => slip = NoSlip
  BY <1>1, <1>2, Copying DEF LzfxInv
<1>4. TypeInv'
  BY <1>1, <1>3, StepTyped DEF LzfxInv, Fixed, TypeInv, TypeOK, LeftOpen
<1>5. ASSUME slip' = NoSlip PROVE LoopBehind'
  <2>1. pc = "loop" /\ LoopBehind /\ Behind(adr_ecr, entree) \in 3 .. SAMPLE_SIZE + 2
    BY <1>1, <1>3, <1>5, InTheLoop, Tags DEF LoopBehind
  <2>2. 1 <= Behind(adr_ecr, entree) /\ Behind(adr_ecr, entree) - 1 <= SAMPLE_SIZE + 2
    BY <2>1
  <2>. QED  BY <1>1, <1>3, <2>1, <2>2, Tags, LoopAdvance DEF LzfxInv, Fixed
<1>. QED  BY <1>1, <1>4, <1>5, InTheLoop DEF LzfxInv, IdleInv, BehindInv

LEMMA LoopDoneStep == LzfxInv /\ LoopDone => LzfxInv'
<1>. SUFFICES ASSUME LzfxInv, LoopDone PROVE LzfxInv'
  OBVIOUS
<1>1. /\ pc = "loop" /\ ~Looping
      /\ IF compteur # Dernier_echantillon
         THEN Return(IF lit = 0 THEN None ELSE Lit(lit), entree, sortie)
         ELSE pc' = "final" /\ UNCHANGED <<saved, locals>>
      /\ UNCHANGED <<board, cell, start, slip, samples, missed>>
  BY DEF LoopDone
<1>2. /\ entree \in RawCell /\ sortie \in OutCell /\ lit \in 0 .. LZFX_MAX_LIT - 1
      /\ slip \in Slip \cup {NoSlip} /\ Behind(adr_ecr, entree) \in 0 .. MEMORY_SIZE
  BY LoopTyped DEF LzfxInv
<1>3. slip = NoSlip => LoopBehind /\ Behind(adr_ecr, entree) <= 2
  BY <1>1, <1>2, LoopingMeans DEF LzfxInv, BehindInv, LoopBehind
<1>4. CASE compteur # Dernier_echantillon
  <2>1. PICK r \in {None} \cup {Lit(m) : m \in 1 .. LZFX_MAX_LIT - 1} : Return(r, entree, sortie)
    BY <1>1, <1>2, <1>4
  <2>2. TypeInv' /\ IdleInv'
    BY <1>1, <1>2, <2>1, Returning DEF LzfxInv
  <2>3. /\ pc' = "idle" /\ adr_lir' = entree /\ resultat' = r
        /\ adr_ecr' = adr_ecr /\ compteur' = compteur
    BY <2>1 DEF Return
  <2>4. ASSUME slip' = NoSlip PROVE IdleBehind'
    <3>1. Behind(adr_ecr, adr_lir)' <= 2
      BY <1>1, <1>3, <2>3, <2>4 DEF Behind
    <3>2. \A m : resultat' # Ref(m)
      BY <2>1, <2>3, Tags
    <3>. QED  BY <1>4, <2>3, <3>1, <3>2 DEF IdleBehind
  <2>. QED  BY <2>2, <2>3, <2>4 DEF LzfxInv, BehindInv
<1>5. CASE compteur = Dernier_echantillon
  <2>1. pc' = "final" /\ UNCHANGED <<saved, locals, board, slip, samples, missed>>
    BY <1>1, <1>5
  <2>2. TypeInv'
    BY <2>1 DEF saved, locals, LzfxInv, TypeInv, TypeOK, LeftOpen
  <2>3. ASSUME slip' = NoSlip PROVE FinalBehind'
    <3>1. Crossing /\ Behind(adr_ecr, entree) <= SAMPLE_SIZE + 2
      BY <1>2, <1>3, <2>1, <2>3 DEF LoopBehind
    <3>. QED  BY <1>5, <2>1, <3>1 DEF FinalBehind, Crossing, Behind, saved, locals
  <2>. QED  BY <2>1, <2>2, <2>3 DEF LzfxInv, IdleInv, BehindInv
<1>. QED  BY <1>4, <1>5

LEMMA RecopiageFinalStep == LzfxInv /\ RecopiageFinal => LzfxInv'
<1>. SUFFICES ASSUME LzfxInv, RecopiageFinal PROVE LzfxInv'
  OBVIOUS
<1>1. /\ pc = "final" /\ FinalLeft /\ Copy(lit, lit = 0) /\ Fixed
      /\ UNCHANGED <<pc, adr_lir, adr_ecr_comp, resultat>>
  BY DEF RecopiageFinal, Fixed, saved
<1>2. /\ entree' = RawPlus(entree, 1) /\ entree' \in RawCell
      /\ sortie' \in OutCell /\ lit' \in 0 .. LZFX_MAX_LIT - 1
      /\ slip' \in Slip \cup {NoSlip}
      /\ slip' = NoSlip => slip = NoSlip
  BY <1>1, LoopTyped, Copying DEF LzfxInv
<1>3. TypeInv'
  BY <1>1, <1>2, StepTyped DEF LzfxInv, Fixed, TypeInv, TypeOK, LeftOpen
<1>4. ASSUME slip' = NoSlip PROVE FinalBehind'
  <2>1. /\ FinalBehind /\ 1 <= Behind(adr_ecr, entree)
        /\ adr_ecr \in RawCell /\ entree \in RawCell
        /\ Behind(adr_ecr, entree) \in 0 .. MEMORY_SIZE
    BY <1>1, <1>2, <1>4, FinalMeans, LoopTyped DEF LzfxInv, BehindInv
  <2>2. /\ Behind(adr_ecr, entree') = Behind(adr_ecr, entree) - 1
        /\ entree <= adr_ecr => entree' <= adr_ecr
    BY <1>2, <2>1, Advance
  <2>3. Behind(adr_ecr, entree)' = Behind(adr_ecr, entree')
    BY <1>1 DEF Behind, Fixed
  <2>4. Crossing'
    BY <1>1, <2>1, <2>2 DEF FinalBehind, Crossing, Fixed
  <2>. QED  BY <1>1, <2>1, <2>2, <2>3, <2>4 DEF FinalBehind, Fixed
<1>. QED  BY <1>1, <1>3, <1>4 DEF LzfxInv, IdleInv, BehindInv

LEMMA OtherStep == LzfxInv /\ (StorEndComp \/ UNCHANGED vars) => LzfxInv'
<1>1. ASSUME LzfxInv, StorEndComp PROVE LzfxInv'
  <2>1. /\ pc = "idle" /\ compteur' = 0 /\ adr_lir_deb' = adr_lir
        /\ UNCHANGED <<board, adr_ecr, adr_lir, adr_ecr_comp, resultat, pc, locals, slip,
                       samples, missed>>
    BY <1>1 DEF StorEndComp
  <2>2. TypeInv'
    BY <1>1, <2>1 DEF LzfxInv, TypeInv, TypeOK, LeftOpen, locals
  <2>. QED  BY <1>1, <2>1, <2>2 DEF LzfxInv, IdleInv, BehindInv, locals
<1>2. ASSUME LzfxInv, UNCHANGED vars PROVE LzfxInv'
  <2>1. TypeInv'
    BY <1>2 DEF LzfxInv, TypeInv, TypeOK, LeftOpen, vars, saved, locals
  <2>2. IdleInv'
    BY <1>2 DEF LzfxInv, IdleInv, vars, saved, locals
  <2>3. BehindInv'
    BY <1>2 DEF LzfxInv, BehindInv, IdleBehind, FirstBehind, LoopBehind, FinalBehind,
                Crossing, Behind, vars, saved, locals
  <2>. QED  BY <2>1, <2>2, <2>3 DEF LzfxInv
<1>. QED  BY <1>1, <1>2

LEMMA LzfxStep == LzfxInv /\ [Next]_vars => LzfxInv'
<1>. SUFFICES ASSUME LzfxInv, [Next]_vars PROVE LzfxInv'
  OBVIOUS
<1>1. /\ adr_ecr \in RawCell /\ 0 \in RawCell /\ RawPlus(adr_ecr, SAMPLE_SIZE) \in RawCell
      /\ missed \in 0 .. MAX_MISSED
  <2>1. adr_ecr \in RawCell /\ SAMPLE_SIZE \in 0 .. 2 * SAMPLE_SIZE
    BY LoopTyped DEF LzfxInv
  <2>2. RawPlus(adr_ecr, SAMPLE_SIZE) \in RawCell
    BY <2>1, RawPlusCell
  <2>. QED  BY <2>1, <2>2 DEF RawCell, LzfxInv, TypeInv, TypeOK
<1>2. CASE Stored \/ NotStored
  <2>1. PICK a \in RawCell : Begin(a)
    BY <1>1, <1>2 DEF Stored, NotStored
  <2>2. missed' \in 0 .. MAX_MISSED
    BY <1>1, <1>2 DEF Stored, NotStored
  <2>. QED  BY <2>1, <2>2, BeginStep
<1>3. CASE Compress
  BY <1>3, RecopiageStep, DoneStep, ContinuiteStep, ContinueRunStep, MatchStep, MatchLastStep,
     LiteralStep, LoopDoneStep, RecopiageFinalStep DEF Compress
<1>. QED  BY <1>2, <1>3, OtherStep DEF Next

----------------------------------------------------------------------------
(* Type correctness, on either board, spoilt streams included: the raw addresses stay in
   the raw ring, no run or reference leaves its bounds, and the address of the output is
   in its ring or at the one raw cell before it, where an undone empty run may leave it
   (storage_manager.cpp:449-594, 669-1021). *)
THEOREM LzfxTypeCorrect == Spec => []TypeOK
<1>1. LzfxInv => TypeOK
  BY DEF LzfxInv, TypeInv
<1>. QED  BY <1>1, LzfxInit, LzfxStep, PTL DEF Spec

(* The compressor keeps up with the samples: a call leaves at most a reference that
   reached the end, or two bytes, and the last call of a batch leaves nothing, wherever in
   the rings and in the arithmetic of either board (storage_manager.cpp:720, 821-827, 932-945,
   983). *)
THEOREM CompressorKeepsUp == Spec => []KeepsUp
<1>1. LzfxInv => KeepsUp
  <2>. SUFFICES ASSUME LzfxInv, pc = "idle", compteur > 0, slip = NoSlip
                PROVE  LET left == (adr_ecr - adr_lir) % (MEMORY_SIZE + 1)
                       IN /\ resultat[1] = "ref" => left = resultat[2]
                          /\ resultat[1] # "ref" => left <= 2 \/ (adr_lir = 0 /\ left = 3)
                          /\ compteur = Dernier_echantillon => left = 0
    BY DEF KeepsUp
  <2>1. (adr_ecr - adr_lir) % (MEMORY_SIZE + 1) = Behind(adr_ecr, adr_lir)
    BY LoopTyped, BehindIsRemainder DEF LzfxInv
  <2>2. IdleBehind
    BY DEF LzfxInv, BehindInv
  <2>3. resultat[1] = "ref" => Behind(adr_ecr, adr_lir) = resultat[2]
    <3>1. resultat[1] = "ref" => \E n \in 3 .. 2 * SAMPLE_SIZE : resultat = Ref(n)
      BY Tags DEF LzfxInv, TypeInv, LeftOpen
    <3>. QED  BY <2>2, <3>1, Tags DEF IdleBehind
  <2>. QED  BY <2>1, <2>2, <2>3 DEF IdleBehind
<1>. QED  BY <1>1, LzfxInit, LzfxStep, PTL DEF Spec

\* Where a call sets adr_lir to adr_ecr it has taken every byte.
NothingSkipped == (RecopiageDone \/ BatchDone) /\ slip = NoSlip => entree = fin

(* That nothing is left after the first and the last sample of a batch is not only what
   the code sets: the copying loops have come to the end of the sample exactly, neither
   short of it nor past it (storage_manager.cpp:457, 571, 983). *)
THEOREM NoByteIsSkipped == Spec => [][NothingSkipped]_vars
<1>1. LzfxInv => NothingSkipped
  <2>. SUFFICES ASSUME LzfxInv, RecopiageDone \/ BatchDone, slip = NoSlip
                PROVE  entree = adr_ecr
    BY DEF NothingSkipped, fin
  <2>1. adr_ecr \in RawCell /\ entree \in RawCell
    BY LoopTyped DEF LzfxInv
  <2>2. CASE RecopiageDone
    <3>1. FirstBehind /\ ~(entree < adr_ecr)
      BY <2>2, FirstMeans DEF LzfxInv, BehindInv, RecopiageDone
    <3>. QED  BY <2>1, <3>1 DEF FirstBehind, RawCell
  <2>3. CASE BatchDone
    <3>1. ~(Behind(adr_ecr, entree) > 0)
      BY <2>3, FinalMeans DEF LzfxInv, BehindInv, BatchDone
    <3>. QED  BY <2>1, <3>1 DEF Behind, RawCell
  <2>. QED  BY <2>2, <2>3
<1>. QED  BY <1>1, LzfxInit, LzfxStep, PTL DEF Spec

----------------------------------------------------------------------------
(* The addresses of the compressed ring. The stream of a batch begins in the ring proper,
   not at the raw cell before it. *)
RingCell == MEMORY_SIZE + 1 .. MEMORY_COMPRESSED_MAX

LEMMA Ring ==
    /\ CompSize \in Nat /\ CompSize > 0
    /\ RingCell \subseteq OutCell
    /\ CompSize = MEMORY_COMPRESSED_MAX - MEMORY_SIZE
    /\ LZFX_MAX_LIT <= MEMORY_SIZE /\ LZFX_MAX_LIT < CompSize /\ SAMPLE_SIZE < LZFX_MAX_LIT
    /\ SAMPLE_SIZE \in Nat /\ LZFX_MAX_LIT \in Nat
  BY BatchAssumption DEF CompSize, RingCell, OutCell

LEMMA OutPlusCell ==
    ASSUME NEW s \in RingCell, NEW i \in 0 .. CompSize
    PROVE  /\ OutPlus(s, i) \in RingCell
           /\ OutPlus(s, i) = IF s + i > MEMORY_COMPRESSED_MAX THEN (s + i) - CompSize ELSE s + i
  BY DEF OutPlus, RingCell, CompSize

LEMMA OutPlusPlus ==
    ASSUME NEW s \in RingCell, NEW i \in Nat, NEW j \in Nat, i + j <= CompSize
    PROVE  OutPlus(OutPlus(s, i), j) = OutPlus(s, i + j)
  BY DEF OutPlus, RingCell, CompSize

(* The cells of less than a turn are different ones. *)
LEMMA OutPlusDiffer ==
    ASSUME NEW s \in RingCell, NEW i \in 0 .. CompSize - 1, NEW j \in 0 .. CompSize - 1, i # j
    PROVE  OutPlus(s, i) # OutPlus(s, j)
  BY DEF OutPlus, RingCell, CompSize

LEMMA OutPlusNext ==
    ASSUME NEW s \in RingCell, NEW i \in 0 .. CompSize - 1
    PROVE  OutNext(OutPlus(s, i)) = OutPlus(s, i + 1) /\ OutPlus(s, 0) = s
  BY DEF OutPlus, RingCell, CompSize, OutNext

(* The header goes to the cell before the run (l.551-556). *)
LEMMA HeaderPlace ==
    ASSUME NEW s \in RingCell, NEW n \in Nat, NEW m \in Nat, n + m + 1 <= CompSize
    PROVE  HeaderOf(OutPlus(s, n + m + 1), m) = OutPlus(s, n)
  BY DEF OutPlus, RingCell, CompSize, HeaderOf

(* How far a cell is from the first one (0 for a full turn); the raw cell stands for the
   last one. *)
LEMMA StreamLength ==
    ASSUME NEW s \in RingCell, NEW i \in 0 .. CompSize - 1
    PROVE  /\ (OutPlus(s, i) - s) % CompSize = i
           /\ OutPlus(s, i) = MEMORY_COMPRESSED_MAX => (MEMORY_SIZE - s) % CompSize = i
<1>1. OutPlus(s, i) - s = i \/ OutPlus(s, i) - s = i - CompSize
  BY OutPlusCell DEF RingCell, CompSize
<1>2. OutPlus(s, i) = MEMORY_COMPRESSED_MAX => MEMORY_SIZE - s = i - CompSize
  BY OutPlusCell DEF RingCell, CompSize
<1>3. i \in Int /\ i - CompSize \in Int /\ 0 <= i /\ i < CompSize
  BY Ring
<1>. QED  BY <1>1, <1>2, <1>3, Ring, SmallRemainder

LEMMA RawPlusPlus ==
    ASSUME NEW p \in RawCell, NEW i \in Nat, NEW j \in Nat, i + j <= MEMORY_SIZE + 1
    PROVE  /\ RawPlus(RawPlus(p, i), j) = RawPlus(p, i + j)
           /\ RawPlus(p, i) \in RawCell /\ RawPlus(p, 0) = p
  BY DEF RawPlus, RawCell

(* The parts of a token. *)
LEMMA Tokens ==
    /\ \A n : /\ Header(n)[1] = "header" /\ Header(n)[2] = n
              /\ Ref(n)[1] = "ref" /\ Ref(n)[2] = n
  BY DEF Header, Ref

----------------------------------------------------------------------------
(* Read is what its definition says: it recurs to smaller numbers of cells only. *)
ReadBody(f, n) ==
    [at \in OutCell |-> [p \in RawCell |->
        LET t == cell[at]
            ref == RefCells(t[2])
        IN IF n = 0 THEN p
           ELSE IF t[1] = "ref" /\ n >= ref
                THEN f[n - ref][OutPlus(at, ref)][RawPlus(p, t[2])]
           ELSE IF t[1] = "header" /\ t[2] \in 1 .. n - 1 /\ Copied(OutPlus(at, 1), t[2], p)
                THEN f[n - (t[2] + 1)][OutPlus(at, t[2] + 1)][RawPlus(p, t[2])]
           ELSE -1]]

LEMMA ReadBodyDepends ==
    ASSUME NEW n \in Nat, NEW f, NEW g, \A i \in 0 .. n - 1 : f[i] = g[i]
    PROVE  ReadBody(f, n) = ReadBody(g, n)
<1>. DEFINE T(h, at, p) ==
        LET t == cell[at]
            ref == RefCells(t[2])
        IN IF n = 0 THEN p
           ELSE IF t[1] = "ref" /\ n >= ref
                THEN h[n - ref][OutPlus(at, ref)][RawPlus(p, t[2])]
           ELSE IF t[1] = "header" /\ t[2] \in 1 .. n - 1 /\ Copied(OutPlus(at, 1), t[2], p)
                THEN h[n - (t[2] + 1)][OutPlus(at, t[2] + 1)][RawPlus(p, t[2])]
           ELSE -1
<1>1. ASSUME NEW at \in OutCell, NEW p \in RawCell PROVE T(f, at, p) = T(g, at, p)
  <2>. DEFINE l == cell[at][2]
              x == RefCells(l)
  <2>1. x \in {2, 3}
    BY DEF RefCells
  <2>2. n >= x => n - x \in 0 .. n - 1
    BY <2>1
  <2>3. l \in 1 .. n - 1 => n - (l + 1) \in 0 .. n - 1
    OBVIOUS
  <2>4. n >= x => f[n - x] = g[n - x]
    BY <2>2
  <2>5. l \in 1 .. n - 1 => f[n - (l + 1)] = g[n - (l + 1)]
    BY <2>3
  <2>. HIDE DEF l, x
  <2>6. T(f, at, p) = IF n = 0 THEN p
           ELSE IF cell[at][1] = "ref" /\ n >= x
                THEN f[n - x][OutPlus(at, x)][RawPlus(p, l)]
           ELSE IF cell[at][1] = "header" /\ l \in 1 .. n - 1 /\ Copied(OutPlus(at, 1), l, p)
                THEN f[n - (l + 1)][OutPlus(at, l + 1)][RawPlus(p, l)]
           ELSE -1
    BY DEF l, x
  <2>7. T(g, at, p) = IF n = 0 THEN p
           ELSE IF cell[at][1] = "ref" /\ n >= x
                THEN g[n - x][OutPlus(at, x)][RawPlus(p, l)]
           ELSE IF cell[at][1] = "header" /\ l \in 1 .. n - 1 /\ Copied(OutPlus(at, 1), l, p)
                THEN g[n - (l + 1)][OutPlus(at, l + 1)][RawPlus(p, l)]
           ELSE -1
    BY DEF l, x
  <2>. HIDE DEF T
  <2>. QED  BY <2>4, <2>5, <2>6, <2>7
<1>2. /\ ReadBody(f, n) = [at \in OutCell |-> [p \in RawCell |-> T(f, at, p)]]
      /\ ReadBody(g, n) = [at \in OutCell |-> [p \in RawCell |-> T(g, at, p)]]
  BY DEF ReadBody
<1>. HIDE DEF T
<1>3. ASSUME NEW at \in OutCell
      PROVE  [p \in RawCell |-> T(f, at, p)] = [p \in RawCell |-> T(g, at, p)]
  BY <1>1
<1>. QED  BY <1>2, <1>3

(* A set of numbers has a least one: what the proofs by induction below rest on. *)
LEMMA LeastNumber ==
    ASSUME NEW S \in SUBSET Nat, S # {}
    PROVE  \E x \in S : \A y \in S : x <= y
<1>1. PICK x \in S : \A y \in S : ~(<<y, x>> \in OpToRel(<, Nat))
  BY NatLessThanWellFounded, WFMin
<1>2. \A y \in S : x <= y
  <2>. SUFFICES ASSUME NEW y \in S, y < x PROVE FALSE
    OBVIOUS
  <2>1. <<y, x>> \in OpToRel(<, Nat)
    BY DEF OpToRel
  <2>. QED  BY <1>1, <2>1
<1>. QED  BY <1>2

LEMMA ReadIs == Read = [n \in 0 .. CompSize |-> ReadBody(Read, n)]
<1>. DEFINE Upto(g, m) == g = [n \in 0 .. m |-> ReadBody(g, n)]
            Missing == {m \in Nat : ~ \E g : Upto(g, m)}
<1>1. Upto([n \in 0 .. 0 |-> ReadBody(<<>>, 0)], 0)
  <2>. DEFINE g == [n \in 0 .. 0 |-> ReadBody(<<>>, 0)]
  <2>1. \A n \in 0 .. 0 : n = 0
    OBVIOUS
  <2>2. ReadBody(g, 0) = ReadBody(<<>>, 0)
    <3>1. \A i \in 0 .. 0 - 1 : g[i] = <<>>[i]
      OBVIOUS
    <3>. HIDE DEF g
    <3>. QED  BY <3>1, ReadBodyDepends
  <2>. HIDE DEF g
  <2>3. [n \in 0 .. 0 |-> ReadBody(g, n)] = [n \in 0 .. 0 |-> ReadBody(<<>>, 0)]
    BY <2>1, <2>2
  <2>. QED  BY <2>3 DEF g
<1>2. ASSUME NEW m \in Nat, NEW g, Upto(g, m) PROVE \E h : Upto(h, m + 1)
  <2>. DEFINE h == [n \in 0 .. m + 1 |-> IF n = m + 1 THEN ReadBody(g, m + 1) ELSE g[n]]
  <2>1. \A n \in 0 .. m : g[n] = ReadBody(g, n)
    <3>. DEFINE gg == [n \in 0 .. m |-> ReadBody(g, n)]
    <3>1. \A n \in 0 .. m : gg[n] = ReadBody(g, n)
      OBVIOUS
    <3>2. g = gg
      BY <1>2, Zenon
    <3>. HIDE DEF gg
    <3>. QED  BY <3>1, <3>2, Zenon
  <2>2. /\ \A n \in 0 .. m : h[n] = g[n]
        /\ h[m + 1] = ReadBody(g, m + 1)
    OBVIOUS
  <2>3. DOMAIN h = 0 .. m + 1 /\ h = [n \in 0 .. m + 1 |-> h[n]]
    OBVIOUS
  <2>. HIDE DEF h
  <2>4. ASSUME NEW n \in 0 .. m + 1 PROVE h[n] = ReadBody(h, n)
    <3>1. n \in Nat /\ \A i \in 0 .. n - 1 : h[i] = g[i]
      BY <2>2
    <3>2. ReadBody(h, n) = ReadBody(g, n)
      BY <3>1, ReadBodyDepends
    <3>3. n = m + 1 \/ n \in 0 .. m
      OBVIOUS
    <3>. QED  BY <2>1, <2>2, <3>2, <3>3
  <2>5. h = [n \in 0 .. m + 1 |-> ReadBody(h, n)]
    BY <2>3, <2>4
  <2>. QED  BY <2>5
<1>. HIDE DEF Upto
<1>3. Missing = {}
  <2>. SUFFICES ASSUME Missing # {} PROVE FALSE
    OBVIOUS
  <2>1. PICK m \in Missing : \A k \in Missing : m <= k
    BY LeastNumber
  <2>2. m # 0
    BY <1>1
  <2>3. m - 1 \in Nat /\ m - 1 \notin Missing /\ (m - 1) + 1 = m
    BY <2>1, <2>2
  <2>. QED  BY <1>2, <2>3
<1>4. \E g : Upto(g, CompSize)
  BY <1>3, Ring
<1>5. \E g : g = [n \in 0 .. CompSize |-> ReadBody(g, n)]
  BY <1>4 DEF Upto
<1>6. Read = CHOOSE g : g = [n \in 0 .. CompSize |-> ReadBody(g, n)]
  BY DEF Read, ReadBody
<1>. HIDE DEF Missing
<1>. QED  BY <1>5, <1>6, Zenon

----------------------------------------------------------------------------
(* A stream that decodes, as the proofs build it up: from its end, while Read takes it
   from its beginning. *)

\* The m bytes from raw address p on are in the cells from a on.
Run(c, a, m, p) == \A k \in 0 .. m - 1 : c[OutPlus(a, k)] = Lit(RawPlus(p, k))

\* The token i cells after s is one that leads from g[i] to a later place in g.
Token(c, s, g, i) ==
    LET t == c[OutPlus(s, i)]
        ref == RefCells(t[2])
    IN \/ /\ t[1] = "ref"
          /\ i + ref \in DOMAIN g /\ g[i + ref] = RawPlus(g[i], t[2])
       \/ /\ t[1] = "header" /\ t[2] \in Nat \ {0}
          /\ Run(c, OutPlus(s, i + 1), t[2], g[i])
          /\ i + (t[2] + 1) \in DOMAIN g /\ g[i + (t[2] + 1)] = RawPlus(g[i], t[2])

\* g is where the tokens of n cells from s on begin, with the raw addresses they stand for,
\* from d to q.
Trace(c, s, d, n, q, g) ==
    /\ DOMAIN g \subseteq 0 .. n /\ \A i \in DOMAIN g : g[i] \in RawCell
    /\ 0 \in DOMAIN g /\ g[0] = d
    /\ n \in DOMAIN g /\ g[n] = q
    /\ \A i \in DOMAIN g \ {n} : Token(c, s, g, i)

Reads(c, s, d, n, q) == \E g : Trace(c, s, d, n, q, g)

(* Read agrees. *)
LEMMA ReadsIsRead ==
    ASSUME start \in RingCell, adr_lir_deb \in RawCell, NEW n \in 0 .. CompSize - 1, NEW q,
           Reads(cell, start, adr_lir_deb, n, q)
    PROVE  Read[n][start][adr_lir_deb] = q
<1>1. PICK g : Trace(cell, start, adr_lir_deb, n, q, g)
  BY DEF Reads
<1>. DEFINE Right(i) == Read[n - i][OutPlus(start, i)][g[i]] = q
            Wrong == {l \in 0 .. n : n - l \in DOMAIN g /\ ~Right(n - l)}
<1>2. ASSUME NEW i \in DOMAIN g PROVE i \in 0 .. n /\ i \in Nat /\ g[i] \in RawCell
  BY <1>1 DEF Trace
<1>3. ASSUME NEW i \in DOMAIN g, \A j \in DOMAIN g : j > i => Right(j) PROVE Right(i)
  <2>. DEFINE at == OutPlus(start, i)
              l == cell[at][2]
              x == RefCells(l)
              m == n - i
  <2>1. at \in OutCell /\ m \in 0 .. CompSize /\ i \in 0 .. CompSize
    BY <1>2, Ring, OutPlusCell
  <2>2. Read[m] = ReadBody(Read, m)
    BY <2>1, ReadIs
  <2>3. ReadBody(Read, m)[at][g[i]] =
          IF m = 0 THEN g[i]
          ELSE IF cell[at][1] = "ref" /\ m >= x
               THEN Read[m - x][OutPlus(at, x)][RawPlus(g[i], l)]
          ELSE IF cell[at][1] = "header" /\ l \in 1 .. m - 1 /\ Copied(OutPlus(at, 1), l, g[i])
               THEN Read[m - (l + 1)][OutPlus(at, l + 1)][RawPlus(g[i], l)]
          ELSE -1
    BY <1>2, <2>1 DEF ReadBody
  <2>4. CASE i = n
    <3>1. m = 0 /\ g[i] = q
      BY <1>1, <1>2, <2>4 DEF Trace
    <3>. QED  BY <2>2, <2>3, <3>1
  <2>5. CASE i # n /\ cell[at][1] = "ref"
    <3>1. i + x \in DOMAIN g /\ g[i + x] = RawPlus(g[i], l)
      BY <1>1, <2>5 DEF Trace, Token
    <3>2. x \in {2, 3}
      BY DEF RefCells
    <3>. HIDE DEF x, l
    <3>. HIDE DEF at
    <3>3. m >= x /\ m # 0 /\ m - x = n - (i + x) /\ i + x > i /\ i + x <= CompSize
      <4>1. i + x \in 0 .. n /\ i \in 0 .. n
        BY <1>2, <3>1
      <4>. QED  BY <3>2, <4>1, Ring
    <3>4. OutPlus(at, x) = OutPlus(start, i + x)
      BY <1>2, <3>2, <3>3, OutPlusPlus DEF at
    <3>5. Right(i + x)
      BY <1>3, <3>1, <3>3
    <3>. QED  BY <2>2, <2>3, <2>5, <3>1, <3>3, <3>4, <3>5 DEF at
  <2>6. CASE i # n /\ cell[at][1] # "ref"
    <3>1. /\ cell[at][1] = "header" /\ l \in Nat \ {0}
          /\ Run(cell, OutPlus(start, i + 1), l, g[i])
          /\ i + (l + 1) \in DOMAIN g /\ g[i + (l + 1)] = RawPlus(g[i], l)
      BY <1>1, <2>6 DEF Trace, Token
    <3>. HIDE DEF l
    <3>. HIDE DEF at
    <3>2. /\ m # 0 /\ m - (l + 1) = n - (i + (l + 1)) /\ i + (l + 1) > i
          /\ i + (l + 1) <= CompSize /\ l \in 1 .. m - 1
      <4>1. i + (l + 1) \in 0 .. n /\ i \in 0 .. n
        BY <1>2, <3>1
      <4>. QED  BY <3>1, <4>1, Ring
    <3>3. /\ OutPlus(at, l + 1) = OutPlus(start, i + (l + 1))
          /\ OutPlus(at, 1) = OutPlus(start, i + 1)
      <4>1. i \in Nat /\ l + 1 \in Nat /\ 1 \in Nat /\ i + 1 <= CompSize
        BY <1>2, <3>1, <3>2, Ring
      <4>. QED  BY <3>2, <4>1, OutPlusPlus DEF at
    <3>4. Copied(OutPlus(at, 1), l, g[i])
      BY <3>1, <3>3 DEF Run, Copied
    <3>5. Right(i + (l + 1))
      BY <1>3, <3>1, <3>2
    <3>. QED  BY <2>2, <2>3, <2>6, <3>1, <3>2, <3>3, <3>4, <3>5 DEF at
  <2>. QED  BY <2>4, <2>5, <2>6
<1>. HIDE DEF Right
<1>4. Wrong = {}
  <2>. SUFFICES ASSUME Wrong # {} PROVE FALSE
    OBVIOUS
  <2>0. Wrong \subseteq Nat
    OBVIOUS
  <2>. HIDE DEF Wrong
  <2>1. PICK l \in Wrong : \A k \in Wrong : l <= k
    BY <2>0, LeastNumber
  <2>. USE DEF Wrong
  <2>2. ASSUME NEW j \in DOMAIN g, j > n - l PROVE Right(j)
    BY <1>2, <2>1, <2>2
  <2>. QED  BY <1>3, <2>1, <2>2
<1>5. Right(0)
  <2>1. 0 \in DOMAIN g /\ n \in 0 .. n /\ n - n = 0
    BY <1>1 DEF Trace
  <2>. QED  BY <1>4, <2>1
<1>6. OutPlus(start, 0) = start /\ g[0] = adr_lir_deb /\ n - 0 = n
  BY <1>1, Ring, OutPlusNext DEF Trace
<1>. QED  BY <1>5, <1>6 DEF Right

LEMMA ReadsNothing ==
    ASSUME NEW c, NEW s, NEW d \in RawCell
    PROVE  Reads(c, s, d, 0, d)
<1>1. Trace(c, s, d, 0, d, [i \in {0} |-> d])
  BY DEF Trace
<1>. QED  BY <1>1 DEF Reads

(* What follows a stream does not change it. *)
LEMMA ReadsFrame ==
    ASSUME NEW c, NEW e, NEW s \in RingCell, NEW d, NEW n \in 0 .. CompSize - 1, NEW q,
           Reads(c, s, d, n, q), \A i \in 0 .. n - 1 : e[OutPlus(s, i)] = c[OutPlus(s, i)]
    PROVE  Reads(e, s, d, n, q)
<1>1. PICK g : Trace(c, s, d, n, q, g)
  BY DEF Reads
<1>2. ASSUME NEW i \in DOMAIN g \ {n} PROVE Token(e, s, g, i)
  <2>. DEFINE t == c[OutPlus(s, i)]
              l == t[2]
  <2>1. i \in 0 .. n - 1 /\ i \in Nat /\ Token(c, s, g, i)
    BY <1>1 DEF Trace
  <2>2. e[OutPlus(s, i)] = t
    BY <2>1
  <2>3. ASSUME l \in Nat \ {0}, Run(c, OutPlus(s, i + 1), l, g[i]), i + (l + 1) \in DOMAIN g
        PROVE  Run(e, OutPlus(s, i + 1), l, g[i])
    <3>. HIDE DEF l
    <3>1. i + (l + 1) <= n
      BY <1>1, <2>3 DEF Trace
    <3>2. ASSUME NEW k \in 0 .. l - 1
          PROVE  e[OutPlus(OutPlus(s, i + 1), k)] = c[OutPlus(OutPlus(s, i + 1), k)]
      <4>1. OutPlus(OutPlus(s, i + 1), k) = OutPlus(s, (i + 1) + k)
        <5>1. i + 1 \in Nat /\ k \in Nat /\ (i + 1) + k <= CompSize
          BY <2>1, <2>3, <3>1, Ring
        <5>. QED  BY <5>1, OutPlusPlus
      <4>2. (i + 1) + k \in 0 .. n - 1
        BY <2>1, <2>3, <3>1
      <4>. QED  BY <4>1, <4>2
    <3>. QED  BY <2>3, <3>2 DEF Run
  <2>. QED  BY <2>1, <2>2, <2>3 DEF Token
<1>3. Trace(e, s, d, n, q, g)
  BY <1>1, <1>2 DEF Trace
<1>. QED  BY <1>3 DEF Reads

(* A reference or a run is added. *)
LEMMA ReadsMore ==
    ASSUME NEW c, NEW s, NEW d, NEW n \in Nat, NEW q \in RawCell, Reads(c, s, d, n, q),
           NEW t, t = c[OutPlus(s, n)], NEW x \in Nat \ {0}, RawPlus(q, t[2]) \in RawCell,
           \/ t[1] = "ref" /\ x = RefCells(t[2])
           \/ t[1] = "header" /\ t[2] \in Nat \ {0} /\ x = t[2] + 1
              /\ Run(c, OutPlus(s, n + 1), t[2], q)
    PROVE  Reads(c, s, d, n + x, RawPlus(q, t[2]))
<1>1. PICK g : Trace(c, s, d, n, q, g)
  BY DEF Reads
<1>. DEFINE r == RawPlus(q, t[2])
            h == [i \in DOMAIN g \cup {n + x} |-> IF i = n + x THEN r ELSE g[i]]
<1>2. \A i \in DOMAIN g : i \in 0 .. n /\ i # n + x
  BY <1>1 DEF Trace
<1>3. /\ DOMAIN h = DOMAIN g \cup {n + x} /\ h[n + x] = r
      /\ \A i \in DOMAIN g : h[i] = g[i]
  BY <1>2
<1>. HIDE DEF h, r
<1>4. ASSUME NEW i \in DOMAIN g \ {n} PROVE Token(c, s, h, i)
  BY <1>1, <1>3 DEF Trace, Token
<1>5. Token(c, s, h, n)
  <2>1. n \in DOMAIN h /\ h[n] = q /\ n + x \in DOMAIN h
    BY <1>1, <1>3 DEF Trace
  <2>. QED  BY <1>3, <2>1 DEF Token, r
<1>6. Trace(c, s, d, n + x, r, h)
  <2>1. DOMAIN h \subseteq 0 .. n + x
    BY <1>2, <1>3
  <2>2. \A i \in DOMAIN h : h[i] \in RawCell
    BY <1>1, <1>3 DEF Trace, r
  <2>3. 0 \in DOMAIN h /\ h[0] = d
    BY <1>1, <1>3 DEF Trace
  <2>. QED  BY <1>3, <1>4, <1>5, <2>1, <2>2, <2>3 DEF Trace
<1>. QED  BY <1>6 DEF Reads, r

\* A stream of len cells: n that decode from d on, and the run that is still open, with
\* the place of its header. e is the raw address of the next byte.
Streams(c, s, d, m, len, e) ==
    \E n \in Nat, q \in RawCell :
        /\ len = IF m = 0 THEN n ELSE n + m + 1
        /\ Reads(c, s, d, n, q)
        /\ Run(c, OutPlus(s, n + 1), m, q)
        /\ e = RawPlus(q, m)

(* A byte is copied as the first of a run, behind the place of its header... *)
LEMMA StreamOpens ==
    ASSUME NEW c, NEW e, NEW s \in RingCell, NEW d, NEW len \in Nat, len + 2 < CompSize,
           NEW x \in RawCell, Streams(c, s, d, 0, len, x),
           e[OutPlus(s, len + 1)] = Lit(x),
           \A i \in 0 .. len - 1 : e[OutPlus(s, i)] = c[OutPlus(s, i)]
    PROVE  Streams(e, s, d, 1, len + 2, RawPlus(x, 1))
<1>1. PICK q \in RawCell : Reads(c, s, d, len, q) /\ x = RawPlus(q, 0)
  BY DEF Streams
<1>2. q = x
  BY <1>1, RawPlusPlus
<1>3. Reads(e, s, d, len, x)
  <2>1. len \in 0 .. CompSize - 1
    BY Ring
  <2>. QED  BY <1>1, <1>2, <2>1, ReadsFrame
<1>4. Run(e, OutPlus(s, len + 1), 1, x)
  <2>1. \A k \in 0 .. 1 - 1 : k = 0
    OBVIOUS
  <2>2. OutPlus(OutPlus(s, len + 1), 0) = OutPlus(s, len + 1) /\ RawPlus(x, 0) = x
    <3>1. len + 1 \in Nat /\ (len + 1) + 0 <= CompSize /\ (len + 1) + 0 = len + 1
      BY Ring
    <3>. QED  BY <3>1, OutPlusPlus, RawPlusPlus
  <2>. QED  BY <2>1, <2>2 DEF Run
<1>. QED  BY <1>3, <1>4 DEF Streams

(* ... or as a further one. *)
LEMMA StreamGoesOn ==
    ASSUME NEW c, NEW e, NEW s \in RingCell, NEW d, NEW len \in Nat, len + 1 < CompSize,
           NEW m \in Nat \ {0}, m <= MEMORY_SIZE, NEW x, Streams(c, s, d, m, len, x),
           e[OutPlus(s, len)] = Lit(x),
           \A i \in 0 .. len - 1 : e[OutPlus(s, i)] = c[OutPlus(s, i)]
    PROVE  Streams(e, s, d, m + 1, len + 1, RawPlus(x, 1))
<1>1. PICK n \in Nat, q \in RawCell :
        /\ len = n + m + 1 /\ Reads(c, s, d, n, q)
        /\ Run(c, OutPlus(s, n + 1), m, q) /\ x = RawPlus(q, m)
  BY DEF Streams
<1>2. Reads(e, s, d, n, q)
  <2>1. n \in 0 .. CompSize - 1 /\ \A i \in 0 .. n - 1 : i \in 0 .. len - 1
    BY <1>1, Ring
  <2>. QED  BY <1>1, <2>1, ReadsFrame
<1>3. ASSUME NEW k \in 0 .. m
      PROVE  OutPlus(OutPlus(s, n + 1), k) = OutPlus(s, (n + 1) + k)
  <2>1. n + 1 \in Nat /\ k \in Nat /\ (n + 1) + k <= CompSize
    BY <1>1, Ring
  <2>. QED  BY <2>1, OutPlusPlus
<1>4. Run(e, OutPlus(s, n + 1), m + 1, q)
  <2>. SUFFICES ASSUME NEW k \in 0 .. m
                PROVE  e[OutPlus(OutPlus(s, n + 1), k)] = Lit(RawPlus(q, k))
    BY DEF Run
  <2>1. CASE k = m
    BY <1>1, <1>3, <2>1
  <2>2. CASE k # m
    <3>1. k \in 0 .. m - 1 /\ (n + 1) + k \in 0 .. len - 1
      BY <1>1, <2>2
    <3>. QED  BY <1>1, <1>3, <3>1 DEF Run
  <2>. QED  BY <2>1, <2>2
<1>5. RawPlus(x, 1) = RawPlus(q, m + 1)
  BY <1>1, RawPlusPlus
<1>6. len + 1 = n + (m + 1) + 1 /\ m + 1 # 0
  BY <1>1
<1>. QED  BY <1>2, <1>4, <1>5, <1>6 DEF Streams

(* Its header is written; an empty run gets one too, which the next token overwrites. *)
LEMMA StreamCloses ==
    ASSUME NEW c, NEW e, NEW s \in RingCell, NEW d, NEW len \in Nat, len < CompSize,
           NEW m \in Nat, m <= MEMORY_SIZE, NEW x, Streams(c, s, d, m, len, x),
           m # 0 => e[OutPlus(s, (len - m) - 1)] = Header(m),
           \A i \in 0 .. len - 1 :
              (m = 0 \/ i # (len - m) - 1) => e[OutPlus(s, i)] = c[OutPlus(s, i)]
    PROVE  Streams(e, s, d, 0, len, x) /\ x \in RawCell
<1>1. PICK n \in Nat, q \in RawCell :
        /\ len = IF m = 0 THEN n ELSE n + m + 1
        /\ Reads(c, s, d, n, q)
        /\ Run(c, OutPlus(s, n + 1), m, q) /\ x = RawPlus(q, m)
  BY DEF Streams
<1>2. x \in RawCell /\ RawPlus(x, 0) = x
  BY <1>1, RawPlusPlus
<1>3. Reads(e, s, d, n, q)
  <2>1. n \in 0 .. CompSize - 1
        /\ \A i \in 0 .. n - 1 : i \in 0 .. len - 1 /\ (m # 0 => i # (len - m) - 1)
    BY <1>1, Ring
  <2>. QED  BY <1>1, <2>1, ReadsFrame
<1>4. Reads(e, s, d, len, x)
  <2>1. CASE m = 0
    <3>1. len = n /\ x = q
      BY <1>1, <2>1, RawPlusPlus
    <3>. QED  BY <1>3, <3>1
  <2>2. CASE m # 0
    <3>1. (len - m) - 1 = n /\ len = n + (m + 1) /\ m + 1 \in Nat \ {0}
      BY <1>1, <2>2
    <3>2. Run(e, OutPlus(s, n + 1), m, q)
      <4>. SUFFICES ASSUME NEW k \in 0 .. m - 1
                    PROVE  e[OutPlus(OutPlus(s, n + 1), k)] = Lit(RawPlus(q, k))
        BY DEF Run
      <4>1. n + 1 \in Nat /\ k \in Nat /\ (n + 1) + k <= CompSize
            /\ (n + 1) + k \in 0 .. len - 1 /\ (n + 1) + k # n
        BY <3>1, Ring
      <4>2. OutPlus(OutPlus(s, n + 1), k) = OutPlus(s, (n + 1) + k)
        BY <4>1, OutPlusPlus
      <4>3. c[OutPlus(OutPlus(s, n + 1), k)] = Lit(RawPlus(q, k))
        BY <1>1 DEF Run
      <4>. QED  BY <3>1, <4>1, <4>2, <4>3
    <3>3. /\ e[OutPlus(s, n)] = Header(m) /\ Header(m)[1] = "header" /\ Header(m)[2] = m
      BY <2>2, <3>1, Tokens
    <3>4. m \in Nat \ {0} /\ RawPlus(q, m) \in RawCell
      BY <1>1, <1>2, <2>2
    <3>5. Reads(e, s, d, n + (m + 1), RawPlus(q, Header(m)[2]))
      BY <1>3, <3>1, <3>2, <3>3, <3>4, ReadsMore
    <3>. QED  BY <1>1, <3>1, <3>3, <3>5
  <2>. QED  BY <2>1, <2>2
<1>5. Run(e, OutPlus(s, len + 1), 0, x)
  BY DEF Run
<1>. QED  BY <1>2, <1>4, <1>5 DEF Streams

(* A reference is written behind a closed run. *)
LEMMA StreamRefers ==
    ASSUME NEW c, NEW e, NEW s \in RingCell, NEW d, NEW len \in Nat, len < CompSize,
           NEW x \in RawCell, Streams(c, s, d, 0, len, x),
           NEW n \in 3 .. 2 * SAMPLE_SIZE, e[OutPlus(s, len)] = Ref(n),
           \A i \in 0 .. len - 1 : e[OutPlus(s, i)] = c[OutPlus(s, i)]
    PROVE  Streams(e, s, d, 0, len + RefCells(n), RawPlus(x, n))
<1>1. PICK q \in RawCell : Reads(c, s, d, len, q) /\ x = RawPlus(q, 0)
  BY DEF Streams
<1>2. q = x
  BY <1>1, RawPlusPlus
<1>3. Reads(e, s, d, len, x)
  <2>1. len \in 0 .. CompSize - 1
    BY Ring
  <2>. QED  BY <1>1, <1>2, <2>1, ReadsFrame
<1>4. RefCells(n) \in Nat \ {0} /\ len + RefCells(n) \in Nat
  BY DEF RefCells
<1>5. RawPlus(x, n) \in RawCell
  BY RawPlusCell
<1>6. RawPlus(RawPlus(x, n), 0) = RawPlus(x, n)
  BY <1>5, RawPlusPlus
<1>7. Ref(n)[1] = "ref" /\ Ref(n)[2] = n
  BY Tokens
<1>8. Reads(e, s, d, len + RefCells(n), RawPlus(x, Ref(n)[2]))
  BY <1>3, <1>4, <1>5, <1>7, ReadsMore
<1>9. Run(e, OutPlus(s, (len + RefCells(n)) + 1), 0, RawPlus(x, n))
  BY DEF Run
<1>. QED  BY <1>4, <1>5, <1>6, <1>7, <1>8, <1>9 DEF Streams

----------------------------------------------------------------------------
\* The invariant of the stream. The run that is open has no header yet; between two calls
\* its length is in resultat, or is not kept (l.868).
OpenRun ==
    IF pc = "idle" /\ compteur = 1 THEN SAMPLE_SIZE
    ELSE IF resultat[1] = "lit" THEN resultat[2]
    ELSE IF pc = "loop" /\ compteur = 2 /\ entree = debut THEN SAMPLE_SIZE
    ELSE lit

\* A run was closed, and nothing written after it yet: a reference follows, or nothing in
\* this batch. Only here the address may be the raw cell instead of the ring's last.
Undone ==
    \/ resultat[1] = "ref"
    \/ pc = "idle" /\ (adr_lir = 0 \/ compteur = Dernier_echantillon)

At(len) ==
    \/ sortie = OutPlus(start, len)
    \/ Undone /\ sortie = MEMORY_SIZE /\ OutPlus(start, len) = MEMORY_COMPRESSED_MAX

\* The bytes of the batch's samples so far.
Total == compteur * SAMPLE_SIZE

\* The stream is no longer than what it stands for, but for one header: each further one
\* follows a reference, which is shorter than its bytes.
Bound(len) ==
    /\ len + Behind(adr_ecr, entree) <= Total + 1
    /\ OpenRun = 0 /\ ~Undone => len + Behind(adr_ecr, entree) <= Total

InStream ==
    \E len \in 0 .. CompSize - 1 :
        At(len) /\ Streams(cell, start, adr_lir_deb, OpenRun, len, entree) /\ Bound(len)

\* The first sample of a batch is copied.
InFirst ==
    /\ adr_lir_deb = adr_ecr - SAMPLE_SIZE
    /\ entree = adr_lir_deb + lit
    /\ sortie = OutPlus(start, 1 + lit)
    /\ Run(cell, OutPlus(start, 1), lit, adr_lir_deb)

\* What is left over from the last sample is taken up before anything else, and always
\* with a sample to go.
OpenInv ==
    /\ pc = "loop" /\ resultat # None => lit = 0 /\ Behind(adr_ecr, entree) >= SAMPLE_SIZE
    /\ pc = "final" => resultat = None
    /\ pc = "idle" /\ compteur = 1 => resultat = None /\ entree = adr_ecr
    /\ pc = "loop" /\ compteur = 2 => resultat = None /\ Behind(adr_ecr, entree) <= SAMPLE_SIZE

FrameInv ==
    /\ pc = "idle" => sortie = adr_ecr_comp
    /\ pc = "idle" /\ compteur = 0 => adr_lir_deb = adr_lir
    /\ pc = "first" => compteur = 1
    /\ pc \in {"loop", "final"} => compteur > 1
    /\ cell = [a \in OutCell |-> cell[a]]
    /\ start \in RingCell

StreamInv ==
    /\ FrameInv
    /\ slip = NoSlip /\ compteur > 0 =>
          OpenInv /\ IF pc = "first" THEN InFirst ELSE InStream

DecodeInv == LzfxInv /\ StreamInv

(* The room there is for a batch. *)
LEMMA TotalFits ==
    /\ \A k \in 0 .. Dernier_echantillon :
          k * SAMPLE_SIZE \in Nat /\ k * SAMPLE_SIZE + 1 < CompSize
    /\ \A k \in Nat : (k + 1) * SAMPLE_SIZE = k * SAMPLE_SIZE + SAMPLE_SIZE
<1>1. ASSUME NEW k \in 0 .. Dernier_echantillon
      PROVE  k * SAMPLE_SIZE \in Nat /\ k * SAMPLE_SIZE <= Dernier_echantillon * SAMPLE_SIZE
  <2>1. k \in Nat /\ Dernier_echantillon \in Nat /\ SAMPLE_SIZE \in Nat /\ k <= Dernier_echantillon
    OBVIOUS
  <2>2. Dernier_echantillon - k \in Nat
    BY <2>1
  <2>3. (Dernier_echantillon - k) * SAMPLE_SIZE \in Nat
    BY <2>1, <2>2
  <2>4. Dernier_echantillon * SAMPLE_SIZE
          = k * SAMPLE_SIZE + (Dernier_echantillon - k) * SAMPLE_SIZE
    BY <2>1
  <2>5. k * SAMPLE_SIZE \in Nat
    BY <2>1
  <2>. QED  BY <2>3, <2>4, <2>5
<1>2. \A k \in Nat : (k + 1) * SAMPLE_SIZE = k * SAMPLE_SIZE + SAMPLE_SIZE
  OBVIOUS
<1>3. Dernier_echantillon * SAMPLE_SIZE \in Nat
  OBVIOUS
<1>. QED  BY <1>1, <1>2, <1>3, BatchAssumption DEF CompSize

(* Where a sample begins a sample is left (l.669, 868). *)
LEMMA DebutBehind ==
    ASSUME NEW a \in RawCell, NEW e \in RawCell, e = (a - SAMPLE_SIZE) % WORD
    PROVE  Behind(a, e) = SAMPLE_SIZE
<1>1. WORD \in Nat /\ WORD > 0 /\ a - SAMPLE_SIZE \in Int
  BY DEF RawCell
<1>. QED  BY <1>1, SmallRemainder DEF RawCell, Behind

LEMMA OneCell ==
    ASSUME NEW c, c = [a \in OutCell |-> c[a]], NEW x \in OutCell, NEW y, NEW e,
           e = [c EXCEPT ![x] = y]
    PROVE  /\ e = [a \in OutCell |-> e[a]]
           /\ e[x] = y
           /\ \A a \in OutCell : a # x => e[a] = c[a]
  OBVIOUS

(* What Copy does to the cells. *)
LEMMA CopyCells ==
    ASSUME FrameInv, NEW l \in Nat, NEW skip \in BOOLEAN, Copy(l, skip), l + 1 # LZFX_MAX_LIT,
           NEW len \in Nat, sortie = OutPlus(start, len),
           NEW k \in Nat, k = (IF skip THEN len + 1 ELSE len), k + 1 < CompSize
    PROVE  /\ cell' = [a \in OutCell |-> cell'[a]]
           /\ cell'[OutPlus(start, k)] = Lit(entree)
           /\ \A i \in 0 .. k - 1 : cell'[OutPlus(start, i)] = cell[OutPlus(start, i)]
           /\ sortie' = OutPlus(start, k + 1) /\ lit' = l + 1 /\ start' = start
<1>. DEFINE at == IF skip THEN OutNext(sortie) ELSE sortie
<1>0. start \in RingCell /\ cell = [a \in OutCell |-> cell[a]]
  BY DEF FrameInv
<1>1. at = OutPlus(start, k) /\ at \in OutCell /\ OutNext(at) = OutPlus(start, k + 1)
  <2>1. len \in 0 .. CompSize - 1 /\ k \in 0 .. CompSize - 1 /\ k \in 0 .. CompSize
    BY Ring
  <2>2. OutNext(OutPlus(start, len)) = OutPlus(start, len + 1)
    BY <1>0, <2>1, OutPlusNext
  <2>3. at = OutPlus(start, k)
    BY <2>2
  <2>4. OutNext(OutPlus(start, k)) = OutPlus(start, k + 1) /\ OutPlus(start, k) \in RingCell
    BY <1>0, <2>1, OutPlusNext, OutPlusCell
  <2>. QED  BY <2>3, <2>4, Ring
<1>2. /\ cell' = [cell EXCEPT ![at] = Lit(entree)] /\ start' = start
      /\ lit' = l + 1 /\ sortie' = OutNext(at)
  BY DEF Copy, Record
<1>. HIDE DEF at
<1>3. /\ cell' = [a \in OutCell |-> cell'[a]] /\ cell'[at] = Lit(entree)
      /\ \A a \in OutCell : a # at => cell'[a] = cell[a]
  BY <1>0, <1>1, <1>2, OneCell
<1>4. ASSUME NEW i \in 0 .. k - 1 PROVE OutPlus(start, i) \in OutCell /\ OutPlus(start, i) # at
  <2>1. i \in 0 .. CompSize - 1 /\ k \in 0 .. CompSize - 1 /\ i # k /\ i \in 0 .. CompSize
    BY Ring
  <2>. QED  BY <1>0, <1>1, <2>1, OutPlusDiffer, OutPlusCell, Ring
<1>. QED  BY <1>1, <1>2, <1>3, <1>4

(* What Fin_Literal_run does. *)
LEMMA CloseCells ==
    ASSUME FrameInv, NEW len \in Nat, len < CompSize, sortie = OutPlus(start, len),
           lit \in Nat, lit # 0 => lit < len
    PROVE  /\ RunClosed = [a \in OutCell |-> RunClosed[a]]
           /\ lit # 0 => RunClosed[OutPlus(start, (len - lit) - 1)] = Header(lit)
           /\ \A i \in 0 .. len - 1 :
                 (lit = 0 \/ i # (len - lit) - 1) =>
                    RunClosed[OutPlus(start, i)] = cell[OutPlus(start, i)]
           /\ \/ AfterRun = sortie
              \/ AfterRun = MEMORY_SIZE /\ sortie = MEMORY_COMPRESSED_MAX
<1>. DEFINE n == IF lit = 0 THEN len ELSE (len - lit) - 1
            at == OutPlus(start, n)
<1>0. start \in RingCell /\ cell = [a \in OutCell |-> cell[a]]
  BY DEF FrameInv
<1>1. n \in 0 .. CompSize - 1 /\ n \in 0 .. CompSize /\ len \in 0 .. CompSize - 1
  BY Ring
<1>2. EndOfRun = OutPlus(start, n + lit + 1)
  <2>1. OutNext(sortie) = OutPlus(start, len + 1)
    BY <1>0, <1>1, OutPlusNext
  <2>2. CASE lit = 0
    <3>1. n + lit + 1 = len + 1
      BY <2>2
    <3>. QED  BY <2>1, <2>2, <3>1 DEF EndOfRun
  <2>3. CASE lit # 0
    <3>1. n + lit + 1 = len
      BY <2>3
    <3>. QED  BY <2>3, <3>1 DEF EndOfRun
  <2>. QED  BY <2>2, <2>3
<1>3. HeaderOf(EndOfRun, lit) = at
  <2>1. n \in Nat /\ n + lit + 1 <= CompSize
    BY Ring
  <2>. HIDE DEF n
  <2>. QED  BY <1>0, <1>2, <2>1, HeaderPlace
<1>4. at \in OutCell
  <2>. HIDE DEF n
  <2>. QED  BY <1>0, <1>1, OutPlusCell, Ring
<1>5. /\ RunClosed = [a \in OutCell |-> RunClosed[a]] /\ RunClosed[at] = Header(lit)
      /\ \A a \in OutCell : a # at => RunClosed[a] = cell[a]
  <2>1. RunClosed = [cell EXCEPT ![at] = Header(lit)]
    BY <1>3 DEF RunClosed
  <2>. HIDE DEF at
  <2>. QED  BY <1>0, <1>4, <2>1, OneCell
<1>6. ASSUME NEW i \in 0 .. len - 1, lit = 0 \/ i # (len - lit) - 1
      PROVE  OutPlus(start, i) \in OutCell /\ OutPlus(start, i) # at
  <2>1. i \in 0 .. CompSize - 1 /\ i # n /\ i \in 0 .. CompSize
    BY <1>1, <1>6, Ring
  <2>. HIDE DEF n
  <2>. QED  BY <1>0, <1>1, <2>1, OutPlusDiffer, OutPlusCell, Ring
<1>7. \/ AfterRun = sortie
      \/ AfterRun = MEMORY_SIZE /\ sortie = MEMORY_COMPRESSED_MAX
  <2>1. sortie \in RingCell
    <3>1. len \in 0 .. CompSize
      BY Ring
    <3>. QED  BY <1>0, <3>1, OutPlusCell
  <2>. QED  BY <2>1 DEF AfterRun, EndOfRun, OutNext, RingCell
<1>. QED  BY <1>5, <1>6, <1>7

(* What Encodage_compression does. *)
LEMMA EncodeCells ==
    ASSUME FrameInv, NEW c, c = [a \in OutCell |-> c[a]], NEW len \in Nat,
           NEW n \in 3 .. 2 * SAMPLE_SIZE, len + RefCells(n) < CompSize, NEW met,
           Encode(c, OutPlus(start, len), n, met)
    PROVE  /\ cell' = [a \in OutCell |-> cell'[a]]
           /\ cell'[OutPlus(start, len)] = Ref(n)
           /\ \A i \in 0 .. len - 1 : cell'[OutPlus(start, i)] = c[OutPlus(start, i)]
           /\ sortie' = OutPlus(start, len + RefCells(n)) /\ lit' = 0 /\ start' = start
<1>. DEFINE s == OutPlus(start, len)
            t == OutPlus(start, len + 1)
            u == OutPlus(start, len + 2)
<1>0. start \in RingCell /\ RefCells(n) \in {2, 3}
      /\ (n - 2 < LONG_REF <=> RefCells(n) = 2)
  BY DEF FrameInv, RefCells
<1>1. len \in 0 .. CompSize - 1 /\ len + 1 \in 0 .. CompSize - 1
      /\ len + 2 \in 0 .. CompSize /\ (RefCells(n) = 3 => len + 2 \in 0 .. CompSize - 1)
  BY <1>0, Ring
<1>2. /\ OutNext(s) = t /\ OutNext(t) = u
      /\ RefCells(n) = 3 => OutNext(u) = OutPlus(start, len + 3)
      /\ s \in OutCell /\ t \in OutCell /\ u \in OutCell /\ s # t
      /\ RefCells(n) = 3 => s # u /\ t # u
  <2>1. (len + 1) + 1 = len + 2 /\ (len + 2) + 1 = len + 3
    OBVIOUS
  <2>2. OutNext(s) = t /\ OutNext(t) = u /\ (RefCells(n) = 3 => OutNext(u) = OutPlus(start, len + 3))
    BY <1>0, <1>1, <2>1, OutPlusNext
  <2>3. s \in OutCell /\ t \in OutCell /\ u \in OutCell
    <3>1. len \in 0 .. CompSize /\ len + 1 \in 0 .. CompSize
      BY <1>1, Ring
    <3>. QED  BY <1>0, <1>1, <3>1, OutPlusCell, Ring
  <2>4. s # t /\ (RefCells(n) = 3 => s # u /\ t # u)
    <3>1. len # len + 1 /\ len # len + 2 /\ len + 1 # len + 2
      OBVIOUS
    <3>. QED  BY <1>0, <1>1, <3>1, OutPlusDiffer
  <2>. QED  BY <2>2, <2>3, <2>4
<1>3. ASSUME NEW i \in 0 .. len - 1
      PROVE  /\ OutPlus(start, i) \in OutCell /\ OutPlus(start, i) # s /\ OutPlus(start, i) # t
             /\ RefCells(n) = 3 => OutPlus(start, i) # u
  <2>1. i \in 0 .. CompSize - 1 /\ i \in 0 .. CompSize /\ i # len /\ i # len + 1 /\ i # len + 2
    BY <1>1, Ring
  <2>. QED  BY <1>0, <1>1, <2>1, OutPlusDiffer, OutPlusCell, Ring
<1>4. /\ cell' = IF n - 2 < LONG_REF
                 THEN [c EXCEPT ![s] = Ref(n), ![t] = More]
                 ELSE [c EXCEPT ![s] = Ref(n), ![t] = More, ![u] = More]
      /\ sortie' = IF n - 2 < LONG_REF THEN u ELSE OutNext(u)
      /\ lit' = 0 /\ start' = start
  BY <1>2 DEF Encode, Record
<1>5. sortie' = OutPlus(start, len + RefCells(n))
  BY <1>0, <1>2, <1>4
<1>. HIDE DEF s, t, u
<1>. DEFINE c1 == [c EXCEPT ![s] = Ref(n)]
            c2 == [c1 EXCEPT ![t] = More]
            c3 == [c2 EXCEPT ![u] = More]
<1>6. /\ c1 = [a \in OutCell |-> c1[a]] /\ c1[s] = Ref(n)
      /\ \A a \in OutCell : a # s => c1[a] = c[a]
  BY <1>2, OneCell
<1>7. /\ c2 = [a \in OutCell |-> c2[a]]
      /\ \A a \in OutCell : a # t => c2[a] = c1[a]
  <2>. HIDE DEF c1
  <2>. QED  BY <1>2, <1>6, OneCell
<1>8. /\ c3 = [a \in OutCell |-> c3[a]]
      /\ \A a \in OutCell : a # u => c3[a] = c2[a]
  <2>. HIDE DEF c2
  <2>. QED  BY <1>2, <1>7, OneCell
<1>9. cell' = IF n - 2 < LONG_REF THEN c2 ELSE c3
  BY <1>4
<1>. HIDE DEF c1, c2, c3
<1>10. CASE RefCells(n) = 2
  <2>1. cell' = c2
    BY <1>0, <1>9, <1>10
  <2>. QED  BY <1>2, <1>3, <1>4, <1>5, <1>6, <1>7, <2>1 DEF s
<1>11. CASE RefCells(n) = 3
  <2>1. cell' = c3
    BY <1>0, <1>9, <1>11
  <2>. QED  BY <1>2, <1>3, <1>4, <1>5, <1>6, <1>7, <1>8, <1>11, <2>1 DEF s
<1>. QED  BY <1>0, <1>10, <1>11

(* Whatever is written, the cells are those of the ring. *)
LEMMA CellsKept ==
    ASSUME cell = [a \in OutCell |-> cell[a]]
    PROVE  /\ RunClosed = [a \in OutCell |-> RunClosed[a]]
           /\ \A l, skip : Copy(l, skip) => cell' = [a \in OutCell |-> cell'[a]]
           /\ \A s, n, met : Encode(cell, s, n, met) => cell' = [a \in OutCell |-> cell'[a]]
           /\ \A s, n, met : Encode(RunClosed, s, n, met) => cell' = [a \in OutCell |-> cell'[a]]
<1>1. ASSUME NEW c, c = [a \in OutCell |-> c[a]], NEW x, NEW y, NEW e, e = [c EXCEPT ![x] = y]
      PROVE  e = [a \in OutCell |-> e[a]]
  BY <1>1
<1>2. RunClosed = [a \in OutCell |-> RunClosed[a]]
  BY <1>1 DEF RunClosed
<1>3. ASSUME NEW l, NEW skip, Copy(l, skip) PROVE cell' = [a \in OutCell |-> cell'[a]]
  <2>. DEFINE at == IF skip THEN OutNext(sortie) ELSE sortie
              copied == [cell EXCEPT ![at] = Lit(entree)]
              closed == [copied EXCEPT ![HeaderOf(OutNext(at), l + 1)] = Header(l + 1)]
  <2>1. cell' = copied \/ cell' = closed
    BY <1>3 DEF Copy, Record
  <2>2. copied = [a \in OutCell |-> copied[a]]
    BY <1>1
  <2>3. closed = [a \in OutCell |-> closed[a]]
    <3>. HIDE DEF copied
    <3>. QED  BY <1>1, <2>2
  <2>. HIDE DEF copied, closed
  <2>. QED  BY <2>1, <2>2, <2>3
<1>4. ASSUME NEW c, c = [a \in OutCell |-> c[a]], NEW s, NEW n, NEW met, Encode(c, s, n, met)
      PROVE  cell' = [a \in OutCell |-> cell'[a]]
  <2>. DEFINE c1 == [c EXCEPT ![s] = Ref(n)]
              c2 == [c1 EXCEPT ![OutNext(s)] = More]
              c3 == [c2 EXCEPT ![OutNext(OutNext(s))] = More]
  <2>1. cell' = c2 \/ cell' = c3
    BY <1>4 DEF Encode, Record
  <2>2. c1 = [a \in OutCell |-> c1[a]]
    BY <1>1, <1>4
  <2>3. c2 = [a \in OutCell |-> c2[a]]
    <3>. HIDE DEF c1
    <3>. QED  BY <1>1, <2>2
  <2>4. c3 = [a \in OutCell |-> c3[a]]
    <3>. HIDE DEF c2
    <3>. QED  BY <1>1, <2>3
  <2>. HIDE DEF c2, c3
  <2>. QED  BY <2>1, <2>3, <2>4
<1>. QED  BY <1>2, <1>3, <1>4

(* The numbers the proofs of the steps use. *)
LEMMA DecodeTyped ==
    ASSUME DecodeInv
    PROVE  /\ adr_ecr \in RawCell /\ adr_lir \in RawCell /\ adr_lir_deb \in RawCell
           /\ entree \in RawCell /\ sortie \in OutCell
           /\ lit \in 0 .. LZFX_MAX_LIT - 1 /\ lit \in Nat /\ compteur \in Nat
           /\ compteur \in 0 .. Dernier_echantillon
           /\ Total \in Nat /\ Total + 1 < CompSize
           /\ Behind(adr_ecr, entree) \in Nat
           /\ start \in RingCell /\ cell = [a \in OutCell |-> cell[a]]
<1>1. TypeInv
  BY DEF DecodeInv, LzfxInv
<1>2. /\ adr_ecr \in RawCell /\ adr_lir \in RawCell
      /\ entree \in RawCell /\ sortie \in OutCell
      /\ lit \in 0 .. LZFX_MAX_LIT - 1
      /\ compteur \in 0 .. Dernier_echantillon
      /\ Behind(adr_ecr, entree) \in 0 .. MEMORY_SIZE
  BY <1>1, LoopTyped
<1>3. adr_lir_deb \in RawCell
  BY <1>1 DEF TypeInv, TypeOK
<1>4. Total \in Nat /\ Total + 1 < CompSize
  BY <1>2, TotalFits DEF Total
<1>5. start \in RingCell /\ cell = [a \in OutCell |-> cell[a]]
  BY DEF DecodeInv, StreamInv, FrameInv
<1>6. lit \in Nat /\ compteur \in Nat /\ Behind(adr_ecr, entree) \in Nat
  BY <1>2
<1>. QED  BY <1>2, <1>3, <1>4, <1>5, <1>6

(* What a step begins from, in the loop or after it. *)
LEMMA LoopStream ==
    ASSUME DecodeInv, slip = NoSlip, pc \in {"loop", "final"}
    PROVE  /\ FrameInv /\ OpenInv /\ compteur > 1
           /\ \E len \in 0 .. CompSize - 1 :
                 /\ At(len) /\ (~Undone => sortie = OutPlus(start, len))
                 /\ Streams(cell, start, adr_lir_deb, OpenRun, len, entree)
                 /\ Bound(len)
<1>1. FrameInv /\ compteur > 1 /\ compteur > 0
  BY DecodeTyped DEF DecodeInv, StreamInv, FrameInv
<1>2. OpenInv /\ InStream
  BY <1>1 DEF DecodeInv, StreamInv
<1>. QED  BY <1>1, <1>2 DEF InStream, At

(* A step that stays in the loop, or goes on to its end. *)
LEMMA StreamStays ==
    ASSUME FrameInv, pc' \in {"loop", "final"}, compteur > 1, UNCHANGED <<compteur, start>>,
           cell' = [a \in OutCell |-> cell'[a]],
           slip' = NoSlip => OpenInv' /\ InStream'
    PROVE  StreamInv'
<1>1. FrameInv'
  BY DEF FrameInv
<1>2. pc' # "first"
  OBVIOUS
<1>. QED  BY <1>1, <1>2 DEF StreamInv

(* In the second sample the place where it begins is not met again. *)
LEMMA PastDebut ==
    ASSUME DecodeInv, slip = NoSlip, pc = "loop", entree' \in RawCell, adr_ecr' = adr_ecr,
           Behind(adr_ecr, entree)' < Behind(adr_ecr, entree),
           compteur' = compteur, resultat' = None
    PROVE  /\ OpenRun' = IF pc' = "idle" /\ compteur = 1 THEN SAMPLE_SIZE ELSE lit'
           /\ compteur = 2 => Behind(adr_ecr, entree)' < SAMPLE_SIZE
<1>1. compteur = 2 => Behind(adr_ecr, entree) <= SAMPLE_SIZE
  BY LoopStream DEF OpenInv
<1>2. compteur = 2 => Behind(adr_ecr, entree)' < SAMPLE_SIZE
  <2>1. Behind(adr_ecr, entree)' \in Nat /\ Behind(adr_ecr, entree) \in Nat
    <3>1. Behind(adr_ecr', entree') \in 0 .. MEMORY_SIZE
      BY DecodeTyped, BehindIsRemainder
    <3>. QED  BY <3>1, DecodeTyped DEF Behind
  <2>. QED  BY <1>1, <2>1
<1>3. compteur = 2 => entree' # debut'
  <2>. SUFFICES ASSUME compteur = 2, entree' = debut' PROVE FALSE
    OBVIOUS
  <2>1. entree' = (adr_ecr' - SAMPLE_SIZE) % WORD
    BY DEF debut
  <2>2. Behind(adr_ecr', entree') = SAMPLE_SIZE
    BY <2>1, DecodeTyped, DebutBehind
  <2>. QED  BY <1>2, <2>2 DEF Behind
<1>4. resultat'[1] # "lit"
  BY Tags
<1>. QED  BY <1>2, <1>3, <1>4 DEF OpenRun

(* What a step of the loop or after it leaves is a stream again. *)
LEMMA StreamGrows ==
    ASSUME pc' \in {"loop", "final"}, resultat' = None, compteur > 1,
           UNCHANGED <<start, compteur, adr_ecr, adr_lir_deb>>,
           NEW len \in 0 .. CompSize - 1, sortie' = OutPlus(start, len),
           Streams(cell', start, adr_lir_deb, OpenRun', len, entree'),
           len + Behind(adr_ecr, entree)' <= Total + 1,
           OpenRun' = 0 => len + Behind(adr_ecr, entree)' <= Total,
           compteur = 2 => Behind(adr_ecr, entree)' <= SAMPLE_SIZE
    PROVE  OpenInv' /\ InStream'
<1>1. OpenInv'
  BY DEF OpenInv
<1>2. Bound(len)'
  BY DEF Bound, Total
<1>3. At(len)' /\ Streams(cell, start, adr_lir_deb, OpenRun, len, entree)'
  BY DEF At
<1>. QED  BY <1>1, <1>2, <1>3 DEF InStream

(* A reference takes fewer bytes than it stands for (l.517-531). *)
LEMMA RefShorter ==
    ASSUME NEW n \in 3 .. 2 * SAMPLE_SIZE
    PROVE  RefCells(n) \in {2, 3} /\ RefCells(n) <= n - 1
<1>1. n = 3 => n - 2 < LONG_REF
  BY BatchAssumption
<1>. QED  BY <1>1 DEF RefCells

(* What a run that is still open takes of the stream. *)
LEMMA OpenStream ==
    ASSUME NEW c, NEW s, NEW d, NEW m \in Nat, NEW len \in Nat, NEW e,
           Streams(c, s, d, m, len, e), m <= MEMORY_SIZE
    PROVE  (m # 0 => m < len) /\ e \in RawCell
<1>1. PICK n \in Nat, q \in RawCell :
        len = (IF m = 0 THEN n ELSE n + m + 1) /\ e = RawPlus(q, m)
  BY DEF Streams
<1>2. RawPlus(q, m) \in RawCell
  BY RawPlusPlus
<1>. QED  BY <1>1, <1>2

(* Fin_Literal_run and Encodage_compression, as the loop calls them. *)
LEMMA Refers ==
    ASSUME DecodeInv, slip = NoSlip, pc = "loop", resultat = None, OpenRun = lit,
           NEW n \in 3 .. 2 * SAMPLE_SIZE, n <= Behind(adr_ecr, entree),
           NEW met, Encode(RunClosed, AfterRun, n, met), AfterRun # MEMORY_SIZE,
           UNCHANGED <<adr_ecr, adr_lir_deb, compteur, resultat>>, pc' \in {"loop", "final"},
           entree' \in RawCell
    PROVE  OpenInv' /\ InStream'
<1>1. FrameInv /\ compteur > 1
  BY LoopStream
<1>2. PICK len \in 0 .. CompSize - 1 :
         /\ sortie = OutPlus(start, len)
         /\ Streams(cell, start, adr_lir_deb, lit, len, entree)
         /\ Bound(len)
  BY LoopStream, Tags DEF Undone
<1>. DEFINE b == Behind(adr_ecr, entree)
<1>3. /\ len \in Nat /\ len < CompSize /\ lit \in Nat /\ lit <= MEMORY_SIZE
      /\ b \in Nat /\ Total \in Nat /\ Total + 1 < CompSize /\ len + b <= Total + 1
      /\ start \in RingCell /\ entree \in RawCell /\ adr_ecr \in RawCell
  BY <1>2, DecodeTyped, Ring DEF Bound
<1>4. (lit # 0 => lit < len)
  BY <1>2, <1>3, OpenStream
<1>5. /\ RunClosed = [a \in OutCell |-> RunClosed[a]]
      /\ Streams(RunClosed, start, adr_lir_deb, 0, len, entree)
  BY <1>1, <1>2, <1>3, <1>4, CloseCells, StreamCloses
<1>6. AfterRun = OutPlus(start, len)
  BY <1>1, <1>2, <1>3, <1>4, CloseCells
<1>7. RefCells(n) \in {2, 3} /\ RefCells(n) <= n - 1 /\ n \in Nat
  BY RefShorter
<1>8. len + RefCells(n) \in 0 .. CompSize - 1
  BY <1>3, <1>7, Ring
<1>9. /\ cell' = [a \in OutCell |-> cell'[a]]
      /\ cell'[OutPlus(start, len)] = Ref(n)
      /\ \A i \in 0 .. len - 1 : cell'[OutPlus(start, i)] = RunClosed[OutPlus(start, i)]
      /\ sortie' = OutPlus(start, len + RefCells(n)) /\ lit' = 0 /\ start' = start
  <2>1. Encode(RunClosed, OutPlus(start, len), n, met)
    BY <1>6 DEF Encode
  <2>2. len + RefCells(n) < CompSize
    BY <1>8, Ring
  <2>. QED  BY <1>1, <1>3, <1>5, <2>1, <2>2, EncodeCells
<1>10. Streams(cell', start, adr_lir_deb, 0, len + RefCells(n), RawPlus(entree, n))
  BY <1>3, <1>5, <1>9, StreamRefers
<1>11. entree' = RawPlus(entree, n) /\ Behind(adr_ecr, entree)' = b - n
  <2>1. entree' = RawPlus(entree, n)
    BY DEF Encode
  <2>2. Behind(adr_ecr, RawPlus(entree, n)) = b - n
    BY <1>3, <1>7, Advance
  <2>. QED  BY <2>1, <2>2 DEF Behind
<1>12. OpenRun' = 0 /\ (compteur = 2 => Behind(adr_ecr, entree)' < SAMPLE_SIZE)
  <2>1. b - n < b
    BY <1>3, <1>7
  <2>. QED  BY <1>9, <1>11, <2>1, PastDebut
<1>13. (len + RefCells(n)) + (b - n) <= Total
  BY <1>3, <1>7
<1>14. /\ (len + RefCells(n)) + Behind(adr_ecr, entree)' <= Total
       /\ compteur = 2 => Behind(adr_ecr, entree)' <= SAMPLE_SIZE
  <2>1. b - n \in Int
    BY <1>3, <1>7
  <2>. QED  BY <1>11, <1>12, <1>13, <2>1
<1>. HIDE DEF b
<1>15. /\ (len + RefCells(n)) + Behind(adr_ecr, entree)' <= Total + 1
       /\ UNCHANGED <<start, compteur, adr_ecr, adr_lir_deb>> /\ resultat' = None
  <2>1. Behind(adr_ecr, entree)' \in Int
    BY <1>3, <1>7, <1>11
  <2>. QED  BY <1>3, <1>7, <1>9, <1>14, <2>1
<1>. QED  BY <1>1, <1>8, <1>9, <1>10, <1>11, <1>12, <1>14, <1>15, StreamGrows

(* Literal_run, in the loop or after it. *)
LEMMA Copies ==
    ASSUME DecodeInv, slip = NoSlip, pc \in {"loop", "final"}, resultat = None,
           NEW l \in 0 .. LZFX_MAX_LIT - 1, OpenRun = l, Copy(l, l = 0), l + 1 # LZFX_MAX_LIT,
           Behind(adr_ecr, entree) > 0,
           UNCHANGED <<adr_ecr, adr_lir_deb, compteur, resultat, pc>>,
           OpenRun' = lit', compteur = 2 => Behind(adr_ecr, entree)' <= SAMPLE_SIZE
    PROVE  OpenInv' /\ InStream'
<1>1. FrameInv /\ compteur > 1
  BY LoopStream
<1>2. PICK len \in 0 .. CompSize - 1 :
         /\ sortie = OutPlus(start, len)
         /\ Streams(cell, start, adr_lir_deb, l, len, entree)
         /\ Bound(len) /\ ~Undone
  BY LoopStream, Tags DEF Undone
<1>. DEFINE b == Behind(adr_ecr, entree)
<1>3. /\ len \in Nat /\ len < CompSize /\ l \in Nat /\ l <= MEMORY_SIZE
      /\ b \in Nat /\ Total \in Nat /\ Total + 1 < CompSize /\ len + b <= Total + 1
      /\ l = 0 => len + b <= Total
      /\ start \in RingCell /\ entree \in RawCell /\ adr_ecr \in RawCell
  BY <1>2, DecodeTyped, Ring DEF Bound
<1>4. entree' = RawPlus(entree, 1) /\ Behind(adr_ecr, entree)' = b - 1
  <2>1. entree' = RawPlus(entree, 1)
    BY DEF Copy
  <2>2. Behind(adr_ecr, RawPlus(entree, 1)) = b - 1
    BY <1>3, Advance
  <2>. QED  BY <2>1, <2>2 DEF Behind
<1>. HIDE DEF b
<1>5. CASE l = 0
  <2>1. len + 1 \in Nat /\ (len + 1) + 1 < CompSize /\ len + 2 < CompSize
        /\ len + 2 \in 0 .. CompSize - 1 /\ (len + 1) + 1 = len + 2
    BY <1>3, <1>5, Ring DEF b
  <2>2. /\ cell'[OutPlus(start, len + 1)] = Lit(entree)
        /\ \A i \in 0 .. (len + 1) - 1 : cell'[OutPlus(start, i)] = cell[OutPlus(start, i)]
        /\ sortie' = OutPlus(start, (len + 1) + 1) /\ lit' = l + 1 /\ start' = start
    <3>1. Copy(l, TRUE)
      BY <1>5 DEF Copy
    <3>. QED  BY <1>1, <1>2, <1>3, <2>1, <3>1, CopyCells
  <2>3. Streams(cell', start, adr_lir_deb, 1, len + 2, RawPlus(entree, 1))
    <3>1. \A i \in 0 .. len - 1 : cell'[OutPlus(start, i)] = cell[OutPlus(start, i)]
      BY <2>2
    <3>. QED  BY <1>2, <1>3, <1>5, <2>1, <2>2, <3>1, StreamOpens
  <2>4. OpenRun' = 1 /\ (len + 2) + (b - 1) <= Total + 1
    BY <1>3, <1>5, <2>2
  <2>. QED  BY <1>1, <1>4, <2>1, <2>2, <2>3, <2>4, StreamGrows
<1>6. CASE l # 0
  <2>1. len + 1 < CompSize /\ len + 1 \in 0 .. CompSize - 1 /\ l \in Nat \ {0}
    BY <1>3, <1>6, Ring DEF b
  <2>2. /\ cell'[OutPlus(start, len)] = Lit(entree)
        /\ \A i \in 0 .. len - 1 : cell'[OutPlus(start, i)] = cell[OutPlus(start, i)]
        /\ sortie' = OutPlus(start, len + 1) /\ lit' = l + 1 /\ start' = start
    <3>1. Copy(l, FALSE)
      BY <1>6 DEF Copy
    <3>. QED  BY <1>1, <1>2, <1>3, <2>1, <3>1, CopyCells
  <2>3. Streams(cell', start, adr_lir_deb, l + 1, len + 1, RawPlus(entree, 1))
    BY <1>2, <1>3, <2>1, <2>2, StreamGoesOn
  <2>4. OpenRun' = l + 1 /\ OpenRun' # 0 /\ (len + 1) + (b - 1) <= Total + 1
    BY <1>3, <2>2
  <2>. QED  BY <1>1, <1>4, <2>1, <2>2, <2>3, <2>4, StreamGrows
<1>. QED  BY <1>5, <1>6

(* The steps. Each keeps the invariant of the stream. *)
LEMMA StreamContinuite ==
    ASSUME DecodeInv, NEW n \in 3 .. 2 * SAMPLE_SIZE, Continuite(n)
    PROVE  StreamInv'
<1>1. /\ Looping /\ resultat[1] = "ref" /\ n >= resultat[2]
      /\ Encode(cell, sortie, n, {}) /\ resultat' = None
      /\ UNCHANGED <<adr_ecr, adr_lir_deb, compteur, pc, start>>
      /\ n <= resultat[2] - 2 + (IF compteur < Dernier_echantillon
                                 THEN SAMPLE_SIZE - 1 ELSE SAMPLE_SIZE - 3)
  BY DEF Continuite, Encode, Record
<1>2. LzfxInv /\ pc = "loop" /\ TypeInv /\ FrameInv /\ compteur > 1
  BY <1>1, InTheLoop DEF DecodeInv, StreamInv, FrameInv
<1>3. cell' = [a \in OutCell |-> cell'[a]]
  BY <1>1, <1>2, CellsKept DEF FrameInv
<1>4. ASSUME slip' = NoSlip PROVE OpenInv' /\ InStream'
  <2>1. slip = NoSlip /\ sortie # MEMORY_SIZE /\ entree' \in RawCell
        /\ entree' = RawPlus(entree, n)
    BY <1>1, <1>2, <1>4, DecodeTyped, Encoding
  <2>2. PICK m \in 3 .. 2 * SAMPLE_SIZE : resultat = Ref(m)
    BY <1>1, <1>2, Tags DEF TypeInv, LeftOpen
  <2>3. resultat # None /\ resultat[1] # "lit" /\ compteur # 2 /\ lit = 0 /\ OpenRun = 0
    <3>1. resultat # None /\ resultat[1] # "lit"
      BY <2>2, Tags
    <3>2. compteur # 2 /\ lit = 0
      BY <1>2, <2>1, <3>1, LoopStream DEF OpenInv
    <3>. QED  BY <1>2, <3>1, <3>2 DEF OpenRun
  <2>4. PICK len \in 0 .. CompSize - 1 :
           /\ sortie = OutPlus(start, len)
           /\ Streams(cell, start, adr_lir_deb, 0, len, entree)
           /\ Bound(len)
    BY <1>2, <2>1, <2>3, LoopStream DEF At
  <2>. DEFINE b == Behind(adr_ecr, entree)
  <2>5. /\ len \in Nat /\ len < CompSize
        /\ b \in Nat /\ Total \in Nat /\ Total + 1 < CompSize /\ len + b <= Total + 1
        /\ start \in RingCell /\ entree \in RawCell /\ adr_ecr \in RawCell
    BY <2>4, DecodeTyped, Ring DEF Bound
  <2>6. RefCells(n) \in {2, 3} /\ RefCells(n) <= n - 1 /\ n \in Nat /\ n <= b
    <3>1. LoopBehind
      BY <1>1, <1>2, <2>1, InTheLoop
    <3>2. b = m + SAMPLE_SIZE
      BY <2>2, <3>1 DEF LoopBehind
    <3>3. n <= (m + SAMPLE_SIZE) - 3
      BY <1>1, <2>2, Tags
    <3>. QED  BY <3>2, <3>3, RefShorter
  <2>7. /\ len + RefCells(n) \in 0 .. CompSize - 1 /\ len + RefCells(n) < CompSize
        /\ (len + RefCells(n)) + (b - n) <= Total
    BY <2>5, <2>6, Ring
  <2>8. Encode(cell, OutPlus(start, len), n, {})
    BY <1>1, <2>4 DEF Encode
  <2>9. /\ cell'[OutPlus(start, len)] = Ref(n)
        /\ \A i \in 0 .. len - 1 : cell'[OutPlus(start, i)] = cell[OutPlus(start, i)]
        /\ sortie' = OutPlus(start, len + RefCells(n)) /\ lit' = 0 /\ start' = start
    <3>1. cell = [a \in OutCell |-> cell[a]]
      BY <1>2 DEF FrameInv
    <3>. QED  BY <1>2, <2>5, <2>7, <2>8, <3>1, EncodeCells
  <2>10. Streams(cell', start, adr_lir_deb, 0, len + RefCells(n), RawPlus(entree, n))
    BY <2>4, <2>5, <2>9, StreamRefers
  <2>11. Behind(adr_ecr, entree)' = b - n
    <3>1. Behind(adr_ecr, RawPlus(entree, n)) = b - n
      BY <2>5, <2>6, Advance
    <3>. QED  BY <1>1, <2>1, <3>1 DEF Behind
  <2>12. OpenRun' = 0
    <3>1. resultat'[1] # "lit"
      BY <1>1, Tags
    <3>. QED  BY <1>1, <1>2, <2>3, <2>9, <3>1 DEF OpenRun
  <2>13. /\ (len + RefCells(n)) + Behind(adr_ecr, entree)' <= Total
         /\ (len + RefCells(n)) + Behind(adr_ecr, entree)' <= Total + 1
    <3>1. b - n \in Int
      BY <2>5, <2>6
    <3>. QED  BY <2>5, <2>6, <2>7, <2>11, <3>1
  <2>. HIDE DEF b
  <2>. QED  BY <1>1, <1>2, <2>1, <2>3, <2>7, <2>9, <2>10, <2>12, <2>13, StreamGrows
<1>. QED  BY <1>1, <1>2, <1>3, <1>4, StreamStays

LEMMA StreamContinueRun == DecodeInv /\ ContinueRun => StreamInv'
<1>. SUFFICES ASSUME DecodeInv, ContinueRun PROVE StreamInv'
  OBVIOUS
<1>1. /\ Looping /\ resultat[1] = "lit" /\ lit' = resultat[2] /\ resultat' = None
      /\ UNCHANGED <<adr_ecr, adr_lir_deb, compteur, pc, entree, sortie, cell, start, slip>>
  BY DEF ContinueRun
<1>2. LzfxInv /\ pc = "loop" /\ TypeInv /\ FrameInv /\ compteur > 1
  BY <1>1, InTheLoop DEF DecodeInv, StreamInv, FrameInv
<1>3. cell' = [a \in OutCell |-> cell'[a]]
  BY <1>1, <1>2 DEF FrameInv
<1>4. ASSUME slip' = NoSlip PROVE OpenInv' /\ InStream'
  <2>1. PICK m \in 1 .. LZFX_MAX_LIT - 1 : resultat = Lit(m)
    BY <1>1, <1>2, Tags DEF TypeInv, LeftOpen
  <2>2. resultat # None /\ resultat[2] = m /\ resultat[1] # "ref"
    BY <2>1, Tags
  <2>3. compteur # 2 /\ OpenRun = m /\ ~Undone
    <3>1. compteur # 2
      BY <1>1, <1>2, <1>4, <2>2, LoopStream DEF OpenInv
    <3>. QED  BY <1>1, <1>2, <2>2, <3>1 DEF OpenRun, Undone
  <2>4. PICK len \in 0 .. CompSize - 1 :
           /\ sortie = OutPlus(start, len)
           /\ Streams(cell, start, adr_lir_deb, m, len, entree)
           /\ Bound(len)
    BY <1>1, <1>2, <1>4, <2>3, LoopStream
  <2>5. Behind(adr_ecr, entree)' = Behind(adr_ecr, entree)
    BY <1>1 DEF Behind
  <2>6. OpenRun' = m
    <3>1. resultat'[1] # "lit"
      BY <1>1, Tags
    <3>. QED  BY <1>1, <1>2, <2>2, <2>3, <3>1 DEF OpenRun
  <2>7. m # 0 /\ len + Behind(adr_ecr, entree) <= Total + 1
    BY <2>4 DEF Bound
  <2>. QED  BY <1>1, <1>2, <2>3, <2>4, <2>5, <2>6, <2>7, StreamGrows
<1>. QED  BY <1>1, <1>2, <1>3, <1>4, StreamStays

LEMMA StreamMatches ==
    ASSUME DecodeInv, NEW n \in 3 .. 2 * SAMPLE_SIZE, Looping, resultat = None,
           n <= Left \/ n = 3,
           NEW met \in SUBSET Slip, met = {} => compteur # 2 \/ entree # debut,
           Encode(RunClosed, AfterRun, n, met),
           UNCHANGED <<adr_ecr, adr_lir_deb, compteur, resultat>>, pc' \in {"loop", "final"}
    PROVE  StreamInv'
<1>1. LzfxInv /\ pc = "loop" /\ TypeInv /\ FrameInv /\ compteur > 1
  BY InTheLoop DEF DecodeInv, StreamInv, FrameInv
<1>2. cell' = [a \in OutCell |-> cell'[a]] /\ start' = start
  BY <1>1, CellsKept DEF FrameInv, Encode, Record
<1>3. ASSUME slip' = NoSlip PROVE OpenInv' /\ InStream'
  <2>1. AfterRun \in OutCell
    BY DecodeTyped, AfterRunCell
  <2>2. slip = NoSlip /\ met = {} /\ AfterRun # MEMORY_SIZE /\ entree' \in RawCell
    BY <1>1, <1>3, <2>1, Encoding
  <2>3. OpenRun = lit
    <3>1. resultat[1] # "lit"
      BY Tags
    <3>. QED  BY <1>1, <2>2, <3>1 DEF OpenRun
  <2>4. n <= Behind(adr_ecr, entree)
    BY <1>1, <2>2, InTheLoop
  <2>. QED  BY <1>1, <2>2, <2>3, <2>4, Refers
<1>. QED  BY <1>1, <1>2, <1>3, StreamStays

(* A call that returns. *)
LEMMA StreamLeft ==
    ASSUME FrameInv, compteur > 0, NEW r, NEW lir, NEW comp, Return(r, lir, comp),
           cell' = [a \in OutCell |-> cell'[a]], start' = start,
           slip' = NoSlip => OpenInv' /\ InStream'
    PROVE  StreamInv'
<1>1. pc' = "idle" /\ sortie' = adr_ecr_comp' /\ compteur' = compteur
  BY DEF Return
<1>2. FrameInv'
  BY <1>1 DEF FrameInv
<1>. QED  BY <1>1, <1>2 DEF StreamInv

(* Fin_Literal_run, before a call returns with nothing more written. *)
LEMMA Closes ==
    ASSUME DecodeInv, slip = NoSlip, pc \in {"loop", "final"}, resultat = None, OpenRun = lit,
           cell' = RunClosed, start' = start,
           NEW r, r[1] # "lit", Return(r, entree, AfterRun),
           r[1] = "ref" \/ entree = 0 \/ compteur = Dernier_echantillon
    PROVE  OpenInv' /\ InStream'
<1>1. FrameInv /\ compteur > 1
  BY LoopStream
<1>2. PICK len \in 0 .. CompSize - 1 :
         /\ sortie = OutPlus(start, len)
         /\ Streams(cell, start, adr_lir_deb, lit, len, entree)
         /\ Bound(len)
  BY LoopStream, Tags DEF Undone
<1>3. /\ len \in Nat /\ len < CompSize /\ lit \in Nat /\ lit <= MEMORY_SIZE
      /\ start \in RingCell
  BY <1>2, DecodeTyped, Ring
<1>4. (lit # 0 => lit < len)
  BY <1>2, <1>3, OpenStream
<1>5. /\ Streams(RunClosed, start, adr_lir_deb, 0, len, entree)
      /\ \/ AfterRun = sortie
         \/ AfterRun = MEMORY_SIZE /\ sortie = MEMORY_COMPRESSED_MAX
  BY <1>1, <1>2, <1>3, <1>4, CloseCells, StreamCloses
<1>6. /\ pc' = "idle" /\ resultat' = r /\ entree' = entree /\ adr_lir' = entree
      /\ sortie' = AfterRun /\ lit' = 0 /\ UNCHANGED <<adr_ecr, adr_lir_deb, compteur>>
  BY DEF Return
<1>7. OpenRun' = 0 /\ Undone'
  BY <1>1, <1>6 DEF OpenRun, Undone
<1>8. At(len)'
  BY <1>2, <1>5, <1>6, <1>7 DEF At
<1>9. Bound(len)'
  <2>1. Behind(adr_ecr, entree)' = Behind(adr_ecr, entree) /\ Total' = Total
    BY <1>6 DEF Behind, Total
  <2>. QED  BY <1>2, <1>7, <2>1 DEF Bound
<1>10. Streams(cell, start, adr_lir_deb, OpenRun, len, entree)'
  BY <1>5, <1>6, <1>7
<1>11. OpenInv'
  BY <1>1, <1>6 DEF OpenInv
<1>. QED  BY <1>8, <1>9, <1>10, <1>11 DEF InStream

LEMMA StreamMatch ==
    ASSUME DecodeInv, NEW n \in 3 .. 2 * SAMPLE_SIZE, Match(n)
    PROVE  StreamInv'
<1>. DEFINE met == IF compteur = 2 /\ entree = debut THEN {"first"} ELSE {}
<1>1. /\ Looping /\ resultat = None /\ compteur < Dernier_echantillon
      /\ n <= Left \/ n = 3
      /\ IF n = Left
         THEN /\ Record(RunClosed, met)
              /\ \/ Return(Ref(n), entree, AfterRun)
                 \/ n = 3 /\ entree = 0 /\ Return(None, entree, AfterRun)
         ELSE Encode(RunClosed, AfterRun, n, met) /\ UNCHANGED <<saved, pc>>
  BY DEF Match
<1>2. LzfxInv /\ pc = "loop" /\ TypeInv /\ FrameInv /\ compteur > 1
  BY <1>1, InTheLoop DEF DecodeInv, StreamInv, FrameInv
<1>3. met \in SUBSET Slip /\ (met = {} => compteur # 2 \/ entree # debut)
  BY DEF Slip
<1>. HIDE DEF met
<1>4. CASE n # Left
  <2>1. Encode(RunClosed, AfterRun, n, met) /\ UNCHANGED <<saved, pc>>
    BY <1>1, <1>4
  <2>. QED  BY <1>1, <1>2, <1>3, <2>1, StreamMatches DEF saved
<1>5. CASE n = Left
  <2>1. Record(RunClosed, met)
    BY <1>1, <1>5
  <2>2. PICK r \in {None, Ref(n)} : Return(r, entree, AfterRun) /\ (r = None => entree = 0)
    BY <1>1, <1>5, Tags
  <2>3. cell' = RunClosed /\ start' = start
    BY <2>1 DEF Record
  <2>4. cell' = [a \in OutCell |-> cell'[a]]
    BY <1>2, <2>3, CellsKept DEF FrameInv
  <2>5. r[1] # "lit" /\ (r[1] = "ref" \/ entree = 0)
    BY <2>2, Tags
  <2>6. ASSUME slip' = NoSlip PROVE OpenInv' /\ InStream'
    <3>1. slip = NoSlip /\ met = {}
      BY <1>2, <1>3, <2>1, <2>6, RecordSlip, LoopTyped
    <3>2. OpenRun = lit
      <4>1. resultat[1] # "lit"
        BY <1>1, Tags
      <4>. QED  BY <1>2, <1>3, <3>1, <4>1 DEF OpenRun
    <3>. QED  BY <1>1, <1>2, <2>2, <2>3, <2>5, <3>1, <3>2, Closes
  <2>7. compteur > 0
    BY <1>2, DecodeTyped
  <2>. QED  BY <1>2, <2>2, <2>3, <2>4, <2>6, <2>7, StreamLeft
<1>. QED  BY <1>4, <1>5

LEMMA StreamMatchLast ==
    ASSUME DecodeInv, NEW n \in 3 .. SAMPLE_SIZE, MatchLast(n)
    PROVE  StreamInv'
<1>1. /\ Looping /\ resultat = None /\ compteur = Dernier_echantillon
      /\ n <= Left - 2 \/ n = 3
      /\ Encode(RunClosed, AfterRun, n, {})
      /\ pc' \in {"final", pc}
      /\ UNCHANGED <<adr_ecr, adr_lir_deb, compteur, resultat>>
  BY DEF MatchLast, saved
<1>2. pc = "loop"
  BY <1>1, InTheLoop DEF DecodeInv
<1>3. n \in 3 .. 2 * SAMPLE_SIZE /\ {} \in SUBSET Slip /\ compteur # 2
  BY <1>1
<1>4. n <= Left \/ n = 3
  <2>1. adr_ecr \in Int /\ entree \in Int
    BY DecodeTyped DEF RawCell
  <2>2. Left \in Int
    BY <2>1 DEF Left, fin
  <2>. QED  BY <1>1, <1>3, <2>2
<1>. QED  BY <1>1, <1>2, <1>3, <1>4, StreamMatches

LEMMA StreamLiteral == DecodeInv /\ Literal => StreamInv'
<1>. SUFFICES ASSUME DecodeInv, Literal PROVE StreamInv'
  OBVIOUS
<1>. DEFINE l == IF compteur = 2 /\ entree = debut THEN SAMPLE_SIZE ELSE lit
<1>1. /\ Looping /\ resultat = None /\ Copy(l, l = 0)
      /\ UNCHANGED <<adr_ecr, adr_lir_deb, compteur, resultat, pc>>
  BY DEF Literal, saved
<1>2. l \in 0 .. LZFX_MAX_LIT - 1
  <2>1. lit \in 0 .. LZFX_MAX_LIT - 1
    BY DecodeTyped
  <2>2. SAMPLE_SIZE \in 0 .. LZFX_MAX_LIT - 1
    OBVIOUS
  <2>. QED  BY <2>1, <2>2, Zenon
<1>3. LzfxInv /\ pc = "loop" /\ TypeInv /\ FrameInv /\ compteur > 1
  BY <1>1, InTheLoop DEF DecodeInv, StreamInv, FrameInv
<1>4. OpenRun = l
  <2>1. resultat[1] # "lit"
    BY <1>1, Tags
  <2>. QED  BY <1>3, <2>1 DEF OpenRun
<1>. HIDE DEF l
<1>5. cell' = [a \in OutCell |-> cell'[a]] /\ start' = start
  BY <1>1, <1>3, CellsKept DEF FrameInv, Copy, Record
<1>6. ASSUME slip' = NoSlip PROVE OpenInv' /\ InStream'
  <2>1. /\ slip = NoSlip /\ l + 1 # LZFX_MAX_LIT
        /\ entree' = RawPlus(entree, 1) /\ entree' \in RawCell
    BY <1>1, <1>2, <1>3, <1>6, Copying
  <2>2. Behind(adr_ecr, entree) >= 3 /\ Behind(adr_ecr, entree) \in Nat
    BY <1>1, <1>3, <2>1, InTheLoop, DecodeTyped
  <2>3. Behind(adr_ecr, entree)' = Behind(adr_ecr, entree) - 1
    <3>1. Behind(adr_ecr, RawPlus(entree, 1)) = Behind(adr_ecr, entree) - 1
      BY <2>2, DecodeTyped, Advance
    <3>. QED  BY <1>1, <2>1, <3>1 DEF Behind
  <2>4. OpenRun' = lit' /\ (compteur = 2 => Behind(adr_ecr, entree)' < SAMPLE_SIZE)
    <3>1. Behind(adr_ecr, entree)' < Behind(adr_ecr, entree)
      BY <2>2, <2>3
    <3>. QED  BY <1>1, <1>3, <2>1, <3>1, PastDebut
  <2>5. compteur = 2 => Behind(adr_ecr, entree)' <= SAMPLE_SIZE
    <3>1. Behind(adr_ecr, entree)' \in Int
      BY <2>2, <2>3
    <3>. QED  BY <2>4, <3>1
  <2>6. Behind(adr_ecr, entree) > 0
    BY <2>2
  <2>. QED  BY <1>1, <1>2, <1>3, <1>4, <2>1, <2>4, <2>5, <2>6, Copies
<1>. QED  BY <1>1, <1>3, <1>5, <1>6, StreamStays

LEMMA StreamRecopiageFinal == DecodeInv /\ RecopiageFinal => StreamInv'
<1>. SUFFICES ASSUME DecodeInv, RecopiageFinal PROVE StreamInv'
  OBVIOUS
<1>1. /\ pc = "final" /\ FinalLeft /\ Copy(lit, lit = 0)
      /\ UNCHANGED <<adr_ecr, adr_lir_deb, compteur, resultat, pc>>
  BY DEF RecopiageFinal, saved
<1>2. TypeInv /\ FrameInv /\ compteur > 1 /\ lit \in 0 .. LZFX_MAX_LIT - 1
  BY <1>1, DecodeTyped DEF DecodeInv, LzfxInv, StreamInv, FrameInv
<1>3. cell' = [a \in OutCell |-> cell'[a]] /\ start' = start
  BY <1>1, <1>2, CellsKept DEF FrameInv, Copy, Record
<1>4. ASSUME slip' = NoSlip PROVE OpenInv' /\ InStream'
  <2>1. slip = NoSlip /\ lit + 1 # LZFX_MAX_LIT
    BY <1>1, <1>2, <1>4, Copying
  <2>2. FinalBehind /\ Behind(adr_ecr, entree) > 0
    BY <1>1, <1>2, <2>1, FinalMeans DEF DecodeInv, LzfxInv, BehindInv
  <2>3. resultat = None /\ compteur # 2
    BY <1>1, <2>1, <2>2, LoopStream DEF OpenInv, FinalBehind
  <2>4. OpenRun = lit /\ OpenRun' = lit'
    <3>1. resultat[1] # "lit"
      BY <2>3, Tags
    <3>. QED  BY <1>1, <2>3, <3>1 DEF OpenRun
  <2>. QED  BY <1>1, <1>2, <2>1, <2>2, <2>3, <2>4, Copies
<1>. QED  BY <1>1, <1>2, <1>3, <1>4, StreamStays

LEMMA StreamLoopDone == DecodeInv /\ LoopDone => StreamInv'
<1>. SUFFICES ASSUME DecodeInv, LoopDone PROVE StreamInv'
  OBVIOUS
<1>. DEFINE r == IF lit = 0 THEN None ELSE Lit(lit)
<1>1. /\ pc = "loop" /\ ~Looping
      /\ IF compteur # Dernier_echantillon
         THEN Return(r, entree, sortie)
         ELSE pc' = "final" /\ UNCHANGED <<saved, locals>>
      /\ UNCHANGED <<cell, start, slip>>
  BY DEF LoopDone
<1>2. TypeInv /\ FrameInv /\ compteur > 1 /\ compteur > 0 /\ lit \in Nat
  BY <1>1, DecodeTyped DEF DecodeInv, LzfxInv, StreamInv, FrameInv
<1>3. cell' = [a \in OutCell |-> cell'[a]]
  BY <1>1, <1>2 DEF FrameInv
<1>4. r[1] # "ref" /\ (IF r[1] = "lit" THEN r[2] = lit ELSE lit = 0)
  BY Tags
<1>. HIDE DEF r
<1>5. ASSUME slip = NoSlip
      PROVE  /\ resultat = None /\ OpenRun = lit /\ ~Undone
             /\ Behind(adr_ecr, entree) \in 0 .. 2
  <2>1. LoopBehind /\ Behind(adr_ecr, entree) \in 0 .. 2
    <3>1. LoopBehind /\ Behind(adr_ecr, entree) \in Nat
      BY <1>1, <1>5, DecodeTyped DEF DecodeInv, LzfxInv, BehindInv
    <3>. QED  BY <1>1, <1>2, <3>1, LoopingMeans DEF LoopBehind
  <2>2. resultat = None
    BY <1>1, <1>5, <2>1, LoopStream DEF OpenInv
  <2>3. entree # debut
    <3>1. entree = debut => Behind(adr_ecr, entree) = SAMPLE_SIZE
      BY DecodeTyped, DebutBehind DEF debut
    <3>. QED  BY <2>1, <3>1
  <2>4. resultat[1] # "lit" /\ resultat[1] # "ref"
    BY <2>2, Tags
  <2>. QED  BY <1>1, <2>1, <2>2, <2>3, <2>4 DEF OpenRun, Undone
<1>6. CASE compteur # Dernier_echantillon
  <2>1. Return(r, entree, sortie)
    BY <1>1, <1>6
  <2>2. /\ pc' = "idle" /\ resultat' = r /\ entree' = entree /\ adr_lir' = entree
        /\ sortie' = sortie /\ lit' = 0 /\ UNCHANGED <<adr_ecr, adr_lir_deb, compteur>>
    BY <2>1 DEF Return
  <2>3. ASSUME slip' = NoSlip PROVE OpenInv' /\ InStream'
    <3>1. slip = NoSlip
      BY <1>1, <2>3
    <3>2. PICK len \in 0 .. CompSize - 1 :
             /\ sortie = OutPlus(start, len)
             /\ Streams(cell, start, adr_lir_deb, lit, len, entree)
             /\ Bound(len)
      BY <1>1, <1>5, <3>1, LoopStream
    <3>3. OpenRun' = lit
      BY <1>2, <1>4, <2>2 DEF OpenRun
    <3>4. Behind(adr_ecr, entree)' = Behind(adr_ecr, entree) /\ Total' = Total
      BY <2>2 DEF Behind, Total
    <3>5. Bound(len)'
      BY <1>5, <3>1, <3>2, <3>3, <3>4 DEF Bound
    <3>6. At(len)' /\ Streams(cell, start, adr_lir_deb, OpenRun, len, entree)'
      BY <1>1, <2>2, <3>2, <3>3 DEF At
    <3>7. OpenInv'
      BY <1>2, <2>2 DEF OpenInv
    <3>. QED  BY <3>5, <3>6, <3>7 DEF InStream
  <2>. QED  BY <1>1, <1>2, <1>3, <2>1, <2>3, StreamLeft
<1>7. CASE compteur = Dernier_echantillon
  <2>1. /\ pc' = "final" /\ UNCHANGED <<adr_ecr, adr_lir_deb, compteur, resultat>>
        /\ UNCHANGED <<entree, sortie, lit, cell, start, slip>>
    BY <1>1, <1>7 DEF saved, locals
  <2>2. ASSUME slip' = NoSlip PROVE OpenInv' /\ InStream'
    <3>1. slip = NoSlip
      BY <2>1, <2>2
    <3>2. PICK len \in 0 .. CompSize - 1 :
             /\ sortie = OutPlus(start, len)
             /\ Streams(cell, start, adr_lir_deb, lit, len, entree)
             /\ Bound(len)
      BY <1>1, <1>5, <3>1, LoopStream
    <3>3. resultat' = None /\ OpenRun' = lit
      <4>1. resultat' = None
        BY <1>5, <2>1, <3>1
      <4>2. resultat'[1] # "lit"
        BY <4>1, Tags
      <4>. QED  BY <2>1, <4>1, <4>2 DEF OpenRun
    <3>4. Behind(adr_ecr, entree)' = Behind(adr_ecr, entree)
      BY <2>1 DEF Behind
    <3>5. /\ len + Behind(adr_ecr, entree)' <= Total + 1
          /\ OpenRun' = 0 => len + Behind(adr_ecr, entree)' <= Total
      BY <1>5, <3>1, <3>2, <3>3, <3>4 DEF Bound
    <3>6. compteur # 2
      BY <1>7
    <3>. QED  BY <1>2, <2>1, <3>2, <3>3, <3>5, <3>6, StreamGrows
  <2>. QED  BY <1>2, <1>3, <2>1, <2>2, StreamStays
<1>. QED  BY <1>6, <1>7

LEMMA StreamBatchDone == DecodeInv /\ BatchDone => StreamInv'
<1>. SUFFICES ASSUME DecodeInv, BatchDone PROVE StreamInv'
  OBVIOUS
<1>1. pc = "final" /\ ~FinalLeft /\ Record(RunClosed, {}) /\ Return(None, fin, AfterRun)
  BY DEF BatchDone
<1>2. /\ TypeInv /\ FrameInv /\ compteur > 1 /\ compteur > 0
      /\ slip \in Slip \cup {NoSlip} /\ adr_ecr \in RawCell /\ entree \in RawCell
  BY <1>1, DecodeTyped, LoopTyped DEF DecodeInv, LzfxInv, StreamInv, FrameInv
<1>3. cell' = RunClosed /\ start' = start
  BY <1>1 DEF Record
<1>4. cell' = [a \in OutCell |-> cell'[a]]
  BY <1>2, <1>3, CellsKept DEF FrameInv
<1>5. ASSUME slip' = NoSlip PROVE OpenInv' /\ InStream'
  <2>1. slip = NoSlip
    BY <1>1, <1>2, <1>5, RecordSlip
  <2>2. FinalBehind /\ ~(Behind(adr_ecr, entree) > 0)
    BY <1>1, <1>2, <2>1, FinalMeans DEF DecodeInv, LzfxInv, BehindInv
  <2>3. resultat = None /\ compteur = Dernier_echantillon
    BY <1>1, <2>1, <2>2, LoopStream DEF OpenInv, FinalBehind
  <2>4. fin = entree
    BY <1>2, <2>2 DEF Behind, RawCell, fin
  <2>5. OpenRun = lit /\ None[1] # "lit"
    <3>1. None[1] # "lit"
      BY Tags
    <3>. QED  BY <1>1, <2>3, <3>1 DEF OpenRun
  <2>6. Return(None, entree, AfterRun)
    BY <1>1, <2>4 DEF Return
  <2>. QED  BY <1>1, <1>3, <2>1, <2>3, <2>5, <2>6, Closes
<1>. QED  BY <1>1, <1>2, <1>3, <1>4, <1>5, StreamLeft

LEMMA StreamRecopiage == DecodeInv /\ Recopiage => StreamInv'
<1>. SUFFICES ASSUME DecodeInv, Recopiage PROVE StreamInv'
  OBVIOUS
<1>1. /\ pc = "first" /\ FirstLeft /\ Copy(lit, FALSE)
      /\ UNCHANGED <<adr_ecr, adr_lir_deb, compteur, resultat, pc>>
  BY DEF Recopiage, saved
<1>2. /\ TypeInv /\ FrameInv /\ compteur = 1 /\ lit \in 0 .. LZFX_MAX_LIT - 1 /\ lit \in Nat
      /\ adr_ecr \in RawCell /\ entree \in RawCell /\ adr_lir_deb \in RawCell /\ start \in RingCell
  BY <1>1, DecodeTyped DEF DecodeInv, LzfxInv, StreamInv, FrameInv
<1>3. cell' = [a \in OutCell |-> cell'[a]] /\ start' = start
  BY <1>1, <1>2, CellsKept DEF FrameInv, Copy, Record
<1>4. FrameInv'
  BY <1>1, <1>2, <1>3 DEF FrameInv
<1>5. ASSUME slip' = NoSlip PROVE OpenInv' /\ InFirst'
  <2>1. slip = NoSlip /\ entree' = RawPlus(entree, 1)
    BY <1>1, <1>2, <1>5, Copying
  <2>2. /\ adr_lir_deb = adr_ecr - SAMPLE_SIZE /\ entree = adr_lir_deb + lit
        /\ sortie = OutPlus(start, 1 + lit) /\ Run(cell, OutPlus(start, 1), lit, adr_lir_deb)
    BY <1>1, <1>2, <2>1 DEF DecodeInv, StreamInv, InFirst
  <2>3. entree < adr_ecr
    BY <1>1, <1>2, <2>1, FirstMeans DEF DecodeInv, LzfxInv, BehindInv
  <2>4. lit < SAMPLE_SIZE /\ entree' = adr_lir_deb + (lit + 1) /\ RawPlus(adr_lir_deb, lit) = entree
    BY <1>2, <2>1, <2>2, <2>3 DEF RawPlus, RawCell
  <2>5. 1 + lit \in Nat /\ (1 + lit) + 1 < CompSize /\ lit + 1 # LZFX_MAX_LIT
    BY <1>2, <2>4, Ring
  <2>6. /\ cell'[OutPlus(start, 1 + lit)] = Lit(entree)
        /\ \A i \in 0 .. (1 + lit) - 1 : cell'[OutPlus(start, i)] = cell[OutPlus(start, i)]
        /\ sortie' = OutPlus(start, (1 + lit) + 1) /\ lit' = lit + 1
    <3>. DEFINE len == 1 + lit
    <3>1. len \in Nat /\ len + 1 < CompSize /\ sortie = OutPlus(start, len)
      BY <2>2, <2>5
    <3>. HIDE DEF len
    <3>2. /\ cell'[OutPlus(start, len)] = Lit(entree)
          /\ \A i \in 0 .. len - 1 : cell'[OutPlus(start, i)] = cell[OutPlus(start, i)]
          /\ sortie' = OutPlus(start, len + 1) /\ lit' = lit + 1
      BY <1>1, <1>2, <2>5, <3>1, CopyCells
    <3>. QED  BY <3>2 DEF len
  <2>7. Run(cell', OutPlus(start, 1), lit + 1, adr_lir_deb)
    <3>. SUFFICES ASSUME NEW k \in 0 .. lit
                  PROVE  cell'[OutPlus(OutPlus(start, 1), k)] = Lit(RawPlus(adr_lir_deb, k))
      BY <1>2 DEF Run
    <3>1. OutPlus(OutPlus(start, 1), k) = OutPlus(start, 1 + k)
      <4>1. k \in Nat /\ 1 \in Nat /\ 1 + k <= CompSize
        BY <1>2, <2>5, Ring
      <4>. QED  BY <1>2, <4>1, OutPlusPlus
    <3>2. CASE k = lit
      BY <2>4, <2>6, <3>1, <3>2
    <3>3. CASE k # lit
      <4>1. k \in 0 .. lit - 1 /\ 1 + k \in 0 .. (1 + lit) - 1
        BY <1>2, <3>3
      <4>. QED  BY <2>2, <2>6, <3>1, <4>1 DEF Run
    <3>. QED  BY <3>2, <3>3
  <2>8. (1 + lit) + 1 = 1 + (lit + 1)
    BY <1>2
  <2>9. InFirst'
    BY <1>1, <1>3, <2>2, <2>4, <2>6, <2>7, <2>8 DEF InFirst
  <2>. QED  BY <1>1, <2>9 DEF OpenInv
<1>. QED  BY <1>1, <1>4, <1>5 DEF StreamInv

LEMMA StreamRecopiageDone == DecodeInv /\ RecopiageDone => StreamInv'
<1>. SUFFICES ASSUME DecodeInv, RecopiageDone PROVE StreamInv'
  OBVIOUS
<1>1. /\ pc = "first" /\ ~FirstLeft /\ Return(None, fin, sortie)
      /\ UNCHANGED <<cell, start, slip>>
  BY DEF RecopiageDone
<1>2. /\ TypeInv /\ FrameInv /\ compteur = 1 /\ compteur > 0 /\ lit \in Nat
      /\ adr_ecr \in RawCell /\ entree \in RawCell /\ adr_lir_deb \in RawCell /\ start \in RingCell
  BY <1>1, DecodeTyped DEF DecodeInv, LzfxInv, StreamInv, FrameInv
<1>3. cell' = [a \in OutCell |-> cell'[a]]
  BY <1>1, <1>2 DEF FrameInv
<1>4. /\ pc' = "idle" /\ resultat' = None /\ entree' = adr_ecr /\ sortie' = sortie
      /\ UNCHANGED <<adr_ecr, adr_lir_deb, compteur>>
  BY <1>1 DEF Return, fin
<1>5. ASSUME slip' = NoSlip PROVE OpenInv' /\ InStream'
  <2>. DEFINE len == SAMPLE_SIZE + 1
  <2>1. slip = NoSlip
    BY <1>1, <1>5
  <2>2. /\ adr_lir_deb = adr_ecr - SAMPLE_SIZE /\ entree = adr_lir_deb + lit
        /\ sortie = OutPlus(start, 1 + lit) /\ Run(cell, OutPlus(start, 1), lit, adr_lir_deb)
    BY <1>1, <1>2, <2>1 DEF DecodeInv, StreamInv, InFirst
  <2>3. FirstBehind /\ ~(entree < adr_ecr)
    BY <1>1, <1>2, <2>1, FirstMeans DEF DecodeInv, LzfxInv, BehindInv
  <2>4. lit = SAMPLE_SIZE /\ 1 + lit = len /\ adr_ecr = RawPlus(adr_lir_deb, SAMPLE_SIZE)
    BY <1>2, <2>2, <2>3 DEF FirstBehind, RawPlus, RawCell
  <2>5. Streams(cell, start, adr_lir_deb, SAMPLE_SIZE, len, adr_ecr)
    <3>1. /\ 0 \in Nat /\ SAMPLE_SIZE # 0 /\ len = 0 + SAMPLE_SIZE + 1 /\ 0 + 1 = 1
      OBVIOUS
    <3>2. Reads(cell, start, adr_lir_deb, 0, adr_lir_deb)
      BY <1>2, ReadsNothing
    <3>. HIDE DEF len
    <3>. QED  BY <1>2, <2>2, <2>4, <3>1, <3>2 DEF Streams
  <2>6. len \in 0 .. CompSize - 1
    BY Ring
  <2>7. OpenRun' = SAMPLE_SIZE
    BY <1>2, <1>4 DEF OpenRun
  <2>8. Bound(len)'
    <3>1. Behind(adr_ecr, entree)' = 0 /\ Total' = SAMPLE_SIZE
      BY <1>2, <1>4 DEF Behind, Total, RawCell
    <3>. QED  BY <2>7, <3>1 DEF Bound
  <2>. HIDE DEF len
  <2>9. At(len)' /\ Streams(cell, start, adr_lir_deb, OpenRun, len, entree)'
    BY <1>1, <1>4, <2>2, <2>4, <2>5, <2>7 DEF At
  <2>10. OpenInv'
    BY <1>4 DEF OpenInv
  <2>. QED  BY <2>6, <2>8, <2>9, <2>10 DEF InStream
<1>. QED  BY <1>1, <1>2, <1>3, <1>5, StreamLeft

LEMMA StreamOther == DecodeInv /\ (StorEndComp \/ UNCHANGED vars) => StreamInv'
<1>1. ASSUME DecodeInv, StorEndComp PROVE StreamInv'
  <2>1. /\ pc = "idle" /\ compteur' = 0 /\ adr_lir_deb' = adr_lir
        /\ UNCHANGED <<adr_lir, adr_ecr_comp, pc, sortie, cell, start>>
    BY <1>1 DEF StorEndComp, locals
  <2>. QED  BY <1>1, <2>1 DEF DecodeInv, StreamInv, FrameInv
<1>2. ASSUME DecodeInv, UNCHANGED vars PROVE StreamInv'
  <2>1. UNCHANGED <<board, adr_ecr, adr_lir, adr_lir_deb, adr_ecr_comp, compteur, resultat, pc,
                    entree, sortie, lit, cell, start, slip>>
    BY <1>2 DEF vars, saved, locals
  <2>2. FrameInv' = FrameInv /\ OpenInv' = OpenInv /\ InFirst' = InFirst
    BY <2>1 DEF FrameInv, OpenInv, InFirst, Behind
  <2>3. OpenRun' = OpenRun /\ Undone' = Undone /\ Total' = Total
        /\ Behind(adr_ecr, entree)' = Behind(adr_ecr, entree)
    BY <2>1 DEF OpenRun, Undone, Total, Behind, debut
  <2>4. InStream' = InStream
    BY <2>1, <2>3 DEF InStream, At, Bound
  <2>. QED  BY <1>2, <2>1, <2>2, <2>4 DEF DecodeInv, StreamInv
<1>. QED  BY <1>1, <1>2

LEMMA StreamInit == Init => StreamInv
<1>. SUFFICES ASSUME Init PROVE StreamInv
  OBVIOUS
<1>1. adr_ecr_comp \in RingCell
  <2>1. PICK s \in STARTS : adr_ecr_comp = s[2]
    BY DEF Init
  <2>. QED  BY <2>1 DEF RingCell
<1>2. cell = [a \in OutCell |-> cell[a]]
  BY DEF Init, Blank
<1>3. /\ pc = "idle" /\ sortie = adr_ecr_comp /\ compteur = 0
      /\ adr_lir_deb = adr_lir /\ start = adr_ecr_comp
  BY DEF Init
<1>. QED  BY <1>1, <1>2, <1>3 DEF StreamInv, FrameInv

(* compression begins a batch... *)
LEMMA StreamBegins ==
    ASSUME DecodeInv, NEW a \in RawCell, Begin(a),
           ~(compteur < Dernier_echantillon /\ compteur > 0)
    PROVE  StreamInv'
<1>. DEFINE met == {s \in Slip :
                \/ s = "missed" /\ a # RawPlus(adr_ecr, SAMPLE_SIZE)
                \/ s = "leftover" /\ adr_lir # adr_ecr
                \/ s = "wrapped" /\ a < SAMPLE_SIZE
                \/ s = "null" /\ adr_lir = 0}
<1>1. /\ compteur \in 0 .. Dernier_echantillon /\ adr_ecr \in RawCell /\ adr_lir \in RawCell
      /\ sortie \in OutCell
  BY DecodeTyped
<1>2. (IF compteur < Dernier_echantillon THEN compteur + 1 ELSE 1) = 1
  BY <1>1
<1>3. /\ pc = "idle" /\ compteur' = 1 /\ adr_ecr' = a
      /\ adr_lir_deb' = IF compteur < Dernier_echantillon THEN adr_lir_deb ELSE adr_lir
      /\ UNCHANGED <<adr_lir, adr_ecr_comp>>
      /\ cell' = Blank
      /\ start' = IF sortie = MEMORY_SIZE THEN MEMORY_COMPRESSED_MAX ELSE sortie
  BY <1>2 DEF Begin
<1>4. /\ adr_lir = 0 => UNCHANGED <<pc, entree, sortie, lit>>
      /\ adr_lir # 0 => pc' = "first" /\ sortie' = OutNext(sortie) /\ UNCHANGED <<entree, lit>>
  BY <1>2 DEF Begin, locals
<1>5. slip' = NoSlip => met = {}
  <2>. DEFINE all == {s \in Slip :
                \/ s = "missed" /\ a # RawPlus(adr_ecr, SAMPLE_SIZE)
                \/ s = "leftover" /\ 1 = 1 /\ adr_lir # adr_ecr
                \/ s = "wrapped" /\ a < SAMPLE_SIZE
                      /\ (a < 2 \/ 1 \in {1, 2, Dernier_echantillon})
                \/ s = "null" /\ adr_lir = 0
                \/ s = "stalled" /\ board = "SAMD" /\ ~(a < SAMPLE_SIZE) /\ adr_lir > a}
  <2>1. slip' = IF all = {} THEN NoSlip ELSE CHOOSE s \in all : TRUE
    BY <1>2 DEF Begin
  <2>2. met \subseteq all /\ all \subseteq Slip
    OBVIOUS
  <2>3. NoSlip \notin Slip
    BY DEF NoSlip, Slip
  <2>4. all # {} => (CHOOSE s \in all : TRUE) \in all
    OBVIOUS
  <2>. HIDE DEF met, all
  <2>. QED  BY <2>1, <2>2, <2>3, <2>4
<1>6. met = {} => /\ a = RawPlus(adr_ecr, SAMPLE_SIZE) /\ adr_lir = adr_ecr
                  /\ ~(a < SAMPLE_SIZE) /\ adr_lir # 0
  BY DEF Slip
<1>. HIDE DEF met
<1>7. start' \in RingCell /\ OutNext(sortie) = OutPlus(start', 1)
  <2>1. start' \in RingCell
    BY <1>1, <1>3 DEF RingCell, OutCell
  <2>2. OutNext(sortie) = OutNext(start')
    BY <1>1, <1>3 DEF OutNext, OutCell
  <2>3. 0 \in 0 .. CompSize - 1 /\ 0 + 1 = 1
    BY Ring
  <2>4. OutNext(OutPlus(start', 0)) = OutPlus(start', 0 + 1) /\ OutPlus(start', 0) = start'
    BY <2>1, <2>3, OutPlusNext
  <2>. QED  BY <2>1, <2>2, <2>3, <2>4
<1>8. FrameInv'
  <2>1. cell' = [b \in OutCell |-> cell'[b]]
    BY <1>3 DEF Blank
  <2>. QED  BY <1>3, <1>4, <1>7, <2>1 DEF FrameInv, DecodeInv, StreamInv
<1>9. ASSUME slip' = NoSlip PROVE OpenInv' /\ InFirst' /\ pc' = "first"
  <2>1. /\ a = RawPlus(adr_ecr, SAMPLE_SIZE) /\ adr_lir = adr_ecr
        /\ ~(a < SAMPLE_SIZE) /\ adr_lir # 0
    BY <1>5, <1>6, <1>9
  <2>2. a = adr_ecr + SAMPLE_SIZE
    BY <1>1, <2>1 DEF RawPlus, RawCell
  <2>3. adr_lir_deb' = adr_lir
    <3>1. compteur = 0 \/ ~(compteur < Dernier_echantillon)
      BY <1>1
    <3>. QED  BY <1>3, <3>1 DEF DecodeInv, StreamInv, FrameInv
  <2>4. entree = adr_lir /\ lit = 0
    BY <1>3 DEF DecodeInv, LzfxInv, IdleInv
  <2>5. pc' = "first" /\ sortie' = OutPlus(start', 1) /\ entree' = adr_lir /\ lit' = 0
    BY <1>4, <1>7, <2>1, <2>4
  <2>6. adr_lir_deb' = adr_ecr' - SAMPLE_SIZE /\ entree' = adr_lir_deb' + lit' /\ 1 + lit' = 1
    BY <1>1, <1>3, <2>1, <2>2, <2>3, <2>5 DEF RawCell
  <2>7. Run(cell', OutPlus(start', 1), lit', adr_lir_deb')
    BY <2>5 DEF Run
  <2>8. InFirst'
    BY <2>5, <2>6, <2>7 DEF InFirst
  <2>. QED  BY <2>5, <2>8 DEF OpenInv
<1>. QED  BY <1>8, <1>9 DEF StreamInv

(* ... or goes on with one. *)
LEMMA StreamResumes ==
    ASSUME DecodeInv, NEW a \in RawCell, Begin(a),
           compteur < Dernier_echantillon /\ compteur > 0
    PROVE  StreamInv'
<1>. DEFINE met == {s \in Slip :
                \/ s = "missed" /\ a # RawPlus(adr_ecr, SAMPLE_SIZE)
                \/ s = "leftover" /\ compteur + 1 = 1 /\ adr_lir # adr_ecr
                \/ s = "wrapped" /\ a < SAMPLE_SIZE
                      /\ (a < 2 \/ compteur + 1 \in {1, 2, Dernier_echantillon})
                \/ s = "null" /\ adr_lir = 0
                \/ s = "stalled" /\ board = "SAMD" /\ ~(a < SAMPLE_SIZE) /\ adr_lir > a}
<1>1. /\ compteur \in Nat /\ adr_ecr \in RawCell /\ adr_lir \in RawCell /\ lit \in Nat
      /\ TypeInv /\ slip \in Slip \cup {NoSlip} /\ FrameInv
  BY DecodeTyped, LoopTyped DEF DecodeInv, LzfxInv, StreamInv
<1>2. (IF compteur < Dernier_echantillon THEN compteur + 1 ELSE 1) = compteur + 1
      /\ compteur + 1 # 1
  BY <1>1
<1>3. /\ pc = "idle" /\ compteur' = compteur + 1 /\ adr_ecr' = a
      /\ UNCHANGED <<adr_lir, adr_lir_deb, adr_ecr_comp>>
      /\ Record(cell, met)
  BY <1>2 DEF Begin
<1>4. /\ adr_lir = 0 => UNCHANGED <<pc, entree, sortie, lit>>
      /\ adr_lir # 0 => pc' = "loop" /\ UNCHANGED <<resultat, entree, sortie, lit>>
  BY <1>2 DEF Begin, locals
<1>5. met \in SUBSET Slip
  OBVIOUS
<1>6. met = {} => /\ a = RawPlus(adr_ecr, SAMPLE_SIZE) /\ adr_lir # 0
                  /\ compteur = 1 => ~(a < SAMPLE_SIZE)
  <2>1. compteur = 1 => compteur + 1 \in {1, 2, Dernier_echantillon}
    OBVIOUS
  <2>. QED  BY <2>1 DEF Slip
<1>. HIDE DEF met
<1>7. slip' = NoSlip => slip = NoSlip /\ met = {}
  BY <1>1, <1>3, <1>5, RecordSlip
<1>8. cell' = cell /\ start' = start
  BY <1>3 DEF Record
<1>9. FrameInv'
  BY <1>1, <1>2, <1>3, <1>4, <1>8 DEF FrameInv
<1>10. ASSUME slip' = NoSlip PROVE OpenInv' /\ InStream' /\ pc' = "loop"
  <2>1. /\ slip = NoSlip /\ a = RawPlus(adr_ecr, SAMPLE_SIZE) /\ adr_lir # 0
        /\ compteur = 1 => ~(a < SAMPLE_SIZE)
    BY <1>6, <1>7, <1>10
  <2>2. pc' = "loop" /\ UNCHANGED <<resultat, entree, sortie, lit>>
    BY <1>4, <2>1
  <2>3. OpenInv /\ InStream /\ IdleBehind /\ entree = adr_lir /\ lit = 0
    BY <1>1, <1>3, <2>1 DEF DecodeInv, StreamInv, LzfxInv, IdleInv, BehindInv
  <2>. DEFINE b == Behind(adr_ecr, entree)
  <2>4. Behind(adr_ecr, entree)' = b + SAMPLE_SIZE /\ b \in Nat
    <3>1. Behind(adr_ecr, adr_lir) <= SAMPLE_SIZE + 2 /\ Behind(adr_ecr, adr_lir) \in Nat
      <4>1. resultat[1] # "ref" \/ \E m \in 3 .. 2 * SAMPLE_SIZE : resultat = Ref(m)
        BY <1>1, Tags DEF TypeInv, LeftOpen
      <4>. QED  BY <1>1, <2>1, <2>3, <4>1, BehindIsRemainder DEF IdleBehind
    <3>2. Behind(a, adr_lir) = Behind(adr_ecr, adr_lir) + SAMPLE_SIZE
      BY <1>1, <2>1, <3>1, SampleMore
    <3>. QED  BY <1>3, <2>2, <2>3, <3>1, <3>2 DEF Behind
  <2>5. compteur = 1 => resultat = None /\ entree = adr_ecr /\ b = 0 /\ entree' = debut'
    <3>. SUFFICES ASSUME compteur = 1
                  PROVE  resultat = None /\ entree = adr_ecr /\ b = 0 /\ entree' = debut'
      OBVIOUS
    <3>1. resultat = None /\ entree = adr_ecr
      BY <1>3, <2>3 DEF OpenInv
    <3>2. adr_ecr = a - SAMPLE_SIZE
      BY <1>1, <2>1 DEF RawPlus, RawCell
    <3>3. (a - SAMPLE_SIZE) % WORD = a - SAMPLE_SIZE
      <4>1. WORD \in Nat /\ WORD > 0 /\ a - SAMPLE_SIZE \in Int
            /\ 0 <= a - SAMPLE_SIZE /\ a - SAMPLE_SIZE < WORD
        BY <1>1, <3>2 DEF RawCell
      <4>. QED  BY <4>1, SmallRemainder
    <3>. QED  BY <1>1, <1>3, <2>2, <3>1, <3>2, <3>3 DEF debut, Behind, RawCell
  <2>6. OpenRun' = OpenRun
    <3>1. CASE compteur = 1
      <4>1. resultat[1] # "lit"
        BY <2>5, <3>1, Tags
      <4>2. compteur' = 2 /\ OpenRun = SAMPLE_SIZE
        BY <1>3, <3>1 DEF OpenRun
      <4>. QED  BY <2>2, <2>5, <3>1, <4>1, <4>2 DEF OpenRun
    <3>2. CASE compteur # 1
      <4>1. compteur' # 2
        BY <1>1, <1>3, <3>2
      <4>. QED  BY <1>3, <2>2, <3>2, <4>1 DEF OpenRun
    <3>. QED  BY <3>1, <3>2
  <2>7. Undone' = Undone
    <3>1. compteur # Dernier_echantillon
      BY <1>1
    <3>. QED  BY <1>3, <2>1, <2>2, <3>1 DEF Undone
  <2>8. Total' = Total + SAMPLE_SIZE /\ Total \in Nat
    <3>1. Total' = (compteur + 1) * SAMPLE_SIZE
      BY <1>3 DEF Total
    <3>. QED  BY <1>1, <3>1, TotalFits, DecodeTyped DEF Total
  <2>9. PICK len \in 0 .. CompSize - 1 :
           At(len) /\ Streams(cell, start, adr_lir_deb, OpenRun, len, entree) /\ Bound(len)
    BY <2>3 DEF InStream
  <2>10. At(len)'
    BY <1>8, <2>2, <2>7, <2>9 DEF At
  <2>11. Bound(len)'
    <3>1. len + b <= Total + 1 /\ (OpenRun = 0 /\ ~Undone => len + b <= Total)
      BY <2>9 DEF Bound
    <3>2. len + (b + SAMPLE_SIZE) <= (Total + SAMPLE_SIZE) + 1
      BY <2>4, <2>8, <3>1
    <3>3. OpenRun' = 0 /\ ~Undone' => len + (b + SAMPLE_SIZE) <= Total + SAMPLE_SIZE
      BY <2>4, <2>6, <2>7, <2>8, <3>1
    <3>. HIDE DEF b
    <3>. QED  BY <2>4, <2>8, <3>2, <3>3 DEF Bound
  <2>12. Streams(cell, start, adr_lir_deb, OpenRun, len, entree)'
    BY <1>3, <1>8, <2>2, <2>6, <2>9
  <2>13. OpenInv'
    <3>1. compteur' = 2 => compteur = 1
      BY <1>1, <1>3
    <3>2. Behind(adr_ecr, entree)' >= SAMPLE_SIZE
      BY <2>4
    <3>3. compteur' = 2 => Behind(adr_ecr, entree)' <= SAMPLE_SIZE
      BY <2>4, <2>5, <3>1
    <3>. QED  BY <2>2, <2>3, <2>5, <3>1, <3>2, <3>3 DEF OpenInv
  <2>. QED  BY <2>2, <2>10, <2>11, <2>12, <2>13 DEF InStream
<1>. QED  BY <1>9, <1>10 DEF StreamInv

LEMMA DecodeStep == DecodeInv /\ [Next]_vars => DecodeInv'
<1>. SUFFICES ASSUME DecodeInv, [Next]_vars PROVE DecodeInv'
  OBVIOUS
<1>1. LzfxInv'
  BY LzfxStep DEF DecodeInv
<1>2. CASE Stored \/ NotStored
  <2>1. adr_ecr \in RawCell /\ 0 \in RawCell /\ RawPlus(adr_ecr, SAMPLE_SIZE) \in RawCell
    <3>1. adr_ecr \in RawCell /\ SAMPLE_SIZE \in 0 .. 2 * SAMPLE_SIZE
      BY DecodeTyped
    <3>. QED  BY <3>1, RawPlusCell DEF RawCell
  <2>2. PICK a \in RawCell : Begin(a)
    BY <1>2, <2>1 DEF Stored, NotStored
  <2>. QED  BY <1>1, <2>2, StreamBegins, StreamResumes DEF DecodeInv
<1>3. CASE Compress
  <2>1. StreamInv'
    BY <1>3, StreamRecopiage, StreamRecopiageDone, StreamContinuite, StreamContinueRun,
       StreamMatch, StreamMatchLast, StreamLiteral, StreamLoopDone, StreamRecopiageFinal,
       StreamBatchDone DEF Compress
  <2>. QED  BY <1>1, <2>1 DEF DecodeInv
<1>4. CASE StorEndComp \/ UNCHANGED vars
  BY <1>1, <1>4, StreamOther DEF DecodeInv
<1>. QED  BY <1>2, <1>3, <1>4 DEF Next

----------------------------------------------------------------------------
(* What is in the compressed ring between two calls, decoded from the beginning of the
   batch, is the bytes of its samples up to adr_lir, in their order and with none left out
   or taken twice: for batches, runs and references of every length, wherever they meet
   the ends of the two rings, and whatever a call left open for the next, unless one of
   the cases of Slip was met (storage_manager.cpp:449-594, 669-1021). *)
THEOREM DecodedIsWritten == Spec => []DecodesUnlessSlipped
<1>1. DecodeInv => DecodesUnlessSlipped
  <2>. SUFFICES ASSUME DecodeInv, slip = NoSlip, pc = "idle", compteur > 0
                PROVE  Decoded = adr_lir
    BY DEF DecodesUnlessSlipped, Decodes
  <2>. DEFINE run == IF compteur = 1 THEN SAMPLE_SIZE
                     ELSE IF resultat[1] = "lit" THEN resultat[2] ELSE 0
              length == (adr_ecr_comp - start) % CompSize
  <2>1. /\ adr_lir_deb \in RawCell /\ start \in RingCell /\ compteur \in Nat
        /\ sortie = adr_ecr_comp /\ entree = adr_lir /\ lit = 0
    BY DecodeTyped DEF DecodeInv, StreamInv, FrameInv, LzfxInv, IdleInv
  <2>2. OpenRun = run
    BY <2>1 DEF OpenRun
  <2>3. run \in Nat
    <3>1. resultat[1] = "lit" => resultat[2] \in Nat
      <4>1. resultat[1] = "lit" => \E m \in 1 .. LZFX_MAX_LIT - 1 : resultat = Lit(m)
        BY Tags DEF DecodeInv, LzfxInv, TypeInv, LeftOpen
      <4>. QED  BY <4>1, Tags
    <3>. QED  BY <3>1
  <2>4. PICK len \in 0 .. CompSize - 1 :
           At(len) /\ Streams(cell, start, adr_lir_deb, run, len, adr_lir)
    BY <2>1, <2>2 DEF DecodeInv, StreamInv, InStream
  <2>5. length = len
    BY <2>1, <2>4, StreamLength DEF At
  <2>6. PICK n \in Nat, q \in RawCell :
           /\ len = IF run = 0 THEN n ELSE n + run + 1
           /\ Reads(cell, start, adr_lir_deb, n, q)
           /\ Run(cell, OutPlus(start, n + 1), run, q)
           /\ adr_lir = RawPlus(q, run)
    BY <2>4 DEF Streams
  <2>. HIDE DEF run, length
  <2>7. n \in 0 .. CompSize - 1
    BY <2>3, <2>6, Ring
  <2>8. Read[n][start][adr_lir_deb] = q
    BY <2>1, <2>6, <2>7, ReadsIsRead
  <2>9. (IF run = 0 THEN length ELSE length - run - 1) = n
    BY <2>3, <2>5, <2>6
  <2>10. q # -1 /\ ~(n < 0)
    BY <2>7 DEF RawCell
  <2>11. Copied(OutPlus(start, n + 1), run, q)
    BY <2>6 DEF Copied, Run
  <2>12. Decoded =
           LET closed == IF run = 0 THEN length ELSE length - run - 1
               p == IF closed < 0 THEN -1 ELSE Read[closed][start][adr_lir_deb]
           IN IF p = -1 THEN -1
              ELSE IF Copied(OutPlus(start, closed + 1), run, p) THEN RawPlus(p, run) ELSE -1
    BY DEF Decoded, run, length
  <2>. QED  BY <2>6, <2>8, <2>9, <2>10, <2>11, <2>12
<1>2. Init => DecodeInv
  BY LzfxInit, StreamInit DEF DecodeInv
<1>. QED  BY <1>1, <1>2, DecodeStep, PTL DEF Spec

----------------------------------------------------------------------------
(* The raw cell before the compressed ring. What keeps it: the address is there only after
   an empty run was undone (l.551-553), and the byte that follows is preceded by the test
   for the ring's end, unless it is a reference's. *)

(* The raw cell is the only address that is not in the ring. *)
LEMMA RawIsOutside ==
    /\ MEMORY_SIZE \in OutCell /\ MEMORY_SIZE \notin RingCell
    /\ \A a \in OutCell : a # MEMORY_SIZE => a \in RingCell
  BY DEF OutCell, RingCell

(* What follows the raw cell is in the ring too. *)
LEMMA NextInRing ==
    ASSUME NEW s \in OutCell
    PROVE  OutNext(s) \in RingCell
<1>1. OutNext(s) \in OutCell /\ OutNext(s) > MEMORY_SIZE
  BY OutNextCell
<1>. QED  BY <1>1 DEF OutCell, RingCell

(* A header is put into the ring whatever its run. *)
LEMMA HeaderCell ==
    ASSUME NEW s \in RingCell, NEW n \in 0 .. LZFX_MAX_LIT
    PROVE  HeaderOf(s, n) \in RingCell
<1>1. n + 1 <= CompSize
  BY Ring
<1>. QED  BY <1>1, Ring DEF HeaderOf, RingCell

(* Copying a byte that goes into the ring. *)
LEMMA CopyKeepsRaw ==
    ASSUME FrameInv, sortie \in OutCell, NEW l \in 0 .. LZFX_MAX_LIT - 1, NEW skip \in BOOLEAN,
           Copy(l, skip), ~skip => sortie # MEMORY_SIZE
    PROVE  cell'[MEMORY_SIZE] = cell[MEMORY_SIZE] /\ sortie' # MEMORY_SIZE
<1>. DEFINE at == IF skip THEN OutNext(sortie) ELSE sortie
            after == OutNext(at)
            copied == [cell EXCEPT ![at] = Lit(entree)]
            full == l + 1 = LZFX_MAX_LIT
<1>1. at \in RingCell
  <2>1. ~skip => sortie \in RingCell
    BY RawIsOutside
  <2>. QED  BY <2>1, NextInRing
<1>2. after \in RingCell /\ OutNext(after) \in RingCell
  <2>. HIDE DEF at
  <2>1. after \in RingCell
    BY <1>1, Ring, NextInRing
  <2>. HIDE DEF after
  <2>. QED  BY <2>1, Ring, NextInRing
<1>3. HeaderOf(after, l + 1) \in RingCell
  <2>. HIDE DEF after
  <2>. QED  BY <1>2, HeaderCell
<1>4. /\ cell' = IF full THEN [copied EXCEPT ![HeaderOf(after, l + 1)] = Header(l + 1)]
                 ELSE copied
      /\ sortie' = IF full THEN OutNext(after) ELSE after
  BY DEF Copy, Record
<1>5. MEMORY_SIZE \in OutCell /\ MEMORY_SIZE \notin RingCell
  BY RawIsOutside
<1>6. copied[MEMORY_SIZE] = cell[MEMORY_SIZE] /\ copied = [a \in OutCell |-> copied[a]]
  <2>. HIDE DEF at
  <2>. QED  BY <1>1, <1>5, Ring, OneCell DEF FrameInv
<1>. HIDE DEF at, after, copied, full
<1>7. [copied EXCEPT ![HeaderOf(after, l + 1)] = Header(l + 1)][MEMORY_SIZE] = cell[MEMORY_SIZE]
  BY <1>3, <1>5, <1>6
<1>. QED  BY <1>2, <1>4, <1>5, <1>6, <1>7

(* Closing a run: its header is in the ring, and if the address is then the raw cell, the
   header is that of an empty run and in the ring's last cell. *)
LEMMA CloseKeepsRaw ==
    ASSUME DecodeInv, RawRingKept, slip = NoSlip
    PROVE  /\ RunClosed[MEMORY_SIZE] = Old
           /\ AfterRun = MEMORY_SIZE => RunClosed[MEMORY_COMPRESSED_MAX] = Header(0)
<1>1. /\ sortie \in OutCell /\ lit \in 0 .. LZFX_MAX_LIT - 1 /\ lit \in 0 .. LZFX_MAX_LIT
      /\ cell = [a \in OutCell |-> cell[a]]
  BY DecodeTyped
<1>2. EndOfRun \in RingCell
  <2>1. lit # 0 => sortie \in RingCell
    BY <1>1, RawIsOutside DEF RawRingKept
  <2>2. OutNext(sortie) \in RingCell
    BY <1>1, NextInRing
  <2>. QED  BY <2>1, <2>2 DEF EndOfRun
<1>3. HeaderOf(EndOfRun, lit) \in RingCell
  BY <1>1, <1>2, HeaderCell
<1>4. RunClosed[MEMORY_SIZE] = Old
  <2>1. MEMORY_SIZE \in OutCell /\ MEMORY_SIZE \notin RingCell /\ cell[MEMORY_SIZE] = Old
    BY RawIsOutside DEF RawRingKept
  <2>2. RunClosed = [cell EXCEPT ![HeaderOf(EndOfRun, lit)] = Header(lit)]
    BY DEF RunClosed
  <2>. QED  BY <1>1, <1>3, <2>1, <2>2
<1>5. ASSUME AfterRun = MEMORY_SIZE PROVE RunClosed[MEMORY_COMPRESSED_MAX] = Header(0)
  <2>1. lit = 0
    BY <1>1, <1>5 DEF AfterRun, RawRingKept
  <2>2. EndOfRun = MEMORY_SIZE + 1
    BY <1>2, <1>5, <2>1 DEF AfterRun, RingCell
  <2>3. HeaderOf(EndOfRun, lit) = MEMORY_COMPRESSED_MAX
    BY <2>1, <2>2 DEF HeaderOf
  <2>4. MEMORY_COMPRESSED_MAX \in OutCell
    BY DEF OutCell
  <2>5. RunClosed = [cell EXCEPT ![MEMORY_COMPRESSED_MAX] = Header(0)]
    BY <2>1, <2>3 DEF RunClosed
  <2>. QED  BY <1>1, <2>4, <2>5
<1>. QED  BY <1>4, <1>5

(* A reference that is not written from the raw cell. *)
LEMMA EncodeKeepsRaw ==
    ASSUME NEW c, c = [a \in OutCell |-> c[a]], NEW s \in OutCell, s # MEMORY_SIZE,
           NEW n \in 3 .. 2 * SAMPLE_SIZE, NEW met, Encode(c, s, n, met)
    PROVE  cell'[MEMORY_SIZE] = c[MEMORY_SIZE] /\ sortie' # MEMORY_SIZE
<1>. DEFINE second == OutNext(s)
            third == OutNext(second)
<1>1. second \in RingCell
  BY NextInRing
<1>2. third \in RingCell /\ OutNext(third) \in RingCell
  <2>. HIDE DEF second
  <2>1. third \in RingCell
    BY <1>1, Ring, NextInRing
  <2>. HIDE DEF third
  <2>. QED  BY <2>1, Ring, NextInRing
<1>3. /\ cell' = IF n - 2 < LONG_REF
                 THEN [c EXCEPT ![s] = Ref(n), ![second] = More]
                 ELSE [c EXCEPT ![s] = Ref(n), ![second] = More, ![third] = More]
      /\ sortie' = IF n - 2 < LONG_REF THEN third ELSE OutNext(third)
  BY DEF Encode, Record
<1>4. MEMORY_SIZE \in OutCell /\ MEMORY_SIZE \notin RingCell
  BY RawIsOutside
<1>. HIDE DEF second, third
<1>. QED  BY <1>1, <1>2, <1>3, <1>4

(* The steps of lzfx_compress. *)
LEMMA RawRingCompress ==
    ASSUME DecodeInv, RawRingKept, Compress
    PROVE  RawRingKept'
<1>. SUFFICES ASSUME slip' = NoSlip
              PROVE  /\ cell'[MEMORY_SIZE] = Old
                     /\ sortie' = MEMORY_SIZE =>
                           lit' = 0 /\ cell'[MEMORY_COMPRESSED_MAX] = Header(0)
  BY DEF RawRingKept
<1>1. /\ TypeInv /\ FrameInv /\ sortie \in OutCell /\ lit \in 0 .. LZFX_MAX_LIT - 1
      /\ start \in RingCell /\ cell = [a \in OutCell |-> cell[a]]
      /\ RunClosed = [a \in OutCell |-> RunClosed[a]]
  BY DecodeTyped DEF DecodeInv, LzfxInv, StreamInv, RunClosed
<1>2. slip = NoSlip => cell[MEMORY_SIZE] = Old
  BY DEF RawRingKept
<1>3. ASSUME NEW l \in 0 .. LZFX_MAX_LIT - 1, Copy(l, l = 0), pc \in {"loop", "final"},
             resultat = None, OpenRun = l
      PROVE  cell'[MEMORY_SIZE] = Old /\ sortie' # MEMORY_SIZE
  <2>1. slip = NoSlip
    BY <1>1, <1>3, Copying
  <2>2. sortie # MEMORY_SIZE
    <3>1. PICK len \in 0 .. CompSize - 1 : sortie = OutPlus(start, len)
      BY <1>3, <2>1, LoopStream, Tags DEF Undone
    <3>2. OutPlus(start, len) \in RingCell
      <4>1. len \in 0 .. CompSize
        BY Ring
      <4>. QED  BY <1>1, <4>1, OutPlusCell
    <3>. QED  BY <3>1, <3>2 DEF RingCell
  <2>3. (l = 0) \in BOOLEAN
    OBVIOUS
  <2>. QED  BY <1>1, <1>2, <1>3, <2>1, <2>2, <2>3, CopyKeepsRaw
<1>4. CASE Recopiage
  <2>1. Copy(lit, FALSE) /\ pc = "first"
    BY <1>4 DEF Recopiage
  <2>2. slip = NoSlip
    BY <1>1, <2>1, Copying
  <2>3. sortie # MEMORY_SIZE
    <3>1. sortie = OutPlus(start, 1 + lit)
      BY <2>1, <2>2 DEF DecodeInv, StreamInv, FrameInv, InFirst
    <3>2. 1 + lit \in 0 .. CompSize
      BY <1>1, Ring
    <3>3. OutPlus(start, 1 + lit) \in RingCell
      BY <1>1, <3>2, OutPlusCell
    <3>. QED  BY <3>1, <3>3 DEF RingCell
  <2>. QED  BY <1>1, <1>2, <2>1, <2>2, <2>3, CopyKeepsRaw
<1>5. CASE RecopiageDone
  BY <1>5 DEF RecopiageDone, Return, RawRingKept
<1>6. CASE \E n \in 3 .. 2 * SAMPLE_SIZE : Continuite(n)
  <2>1. PICK n \in 3 .. 2 * SAMPLE_SIZE : Encode(cell, sortie, n, {})
    BY <1>6 DEF Continuite
  <2>2. slip = NoSlip /\ sortie # MEMORY_SIZE
    BY <1>1, <2>1, Encoding
  <2>. QED  BY <1>1, <1>2, <2>1, <2>2, EncodeKeepsRaw
<1>7. CASE ContinueRun
  <2>1. /\ pc = "loop" /\ resultat[1] = "lit"
        /\ UNCHANGED <<sortie, cell, slip>>
    BY <1>7 DEF ContinueRun, Looping
  <2>2. sortie # MEMORY_SIZE
    <3>1. PICK len \in 0 .. CompSize - 1 : sortie = OutPlus(start, len)
      BY <2>1, LoopStream DEF Undone
    <3>2. OutPlus(start, len) \in RingCell
      <4>1. len \in 0 .. CompSize
        BY Ring
      <4>. QED  BY <1>1, <4>1, OutPlusCell
    <3>. QED  BY <3>1, <3>2 DEF RingCell
  <2>. QED  BY <1>2, <2>1, <2>2
<1>8. ASSUME NEW n \in 3 .. 2 * SAMPLE_SIZE, NEW met \in SUBSET Slip,
             Encode(RunClosed, AfterRun, n, met)
      PROVE  cell'[MEMORY_SIZE] = Old /\ sortie' # MEMORY_SIZE
  <2>1. AfterRun \in OutCell
    BY <1>1, AfterRunCell
  <2>2. slip = NoSlip /\ AfterRun # MEMORY_SIZE
    BY <1>1, <1>8, <2>1, Encoding
  <2>. QED  BY <1>1, <1>8, <2>1, <2>2, CloseKeepsRaw, EncodeKeepsRaw
<1>9. ASSUME NEW met \in SUBSET Slip, Record(RunClosed, met), NEW r, NEW lir,
             Return(r, lir, AfterRun)
      PROVE  /\ cell'[MEMORY_SIZE] = Old
             /\ sortie' = MEMORY_SIZE =>
                   lit' = 0 /\ cell'[MEMORY_COMPRESSED_MAX] = Header(0)
  <2>1. slip = NoSlip
    BY <1>1, <1>9, RecordSlip DEF TypeInv, TypeOK
  <2>2. cell' = RunClosed /\ sortie' = AfterRun /\ lit' = 0
    BY <1>9 DEF Record, Return
  <2>. QED  BY <2>1, <2>2, CloseKeepsRaw
<1>10. CASE \E n \in 3 .. 2 * SAMPLE_SIZE : Match(n)
  <2>. DEFINE met == IF compteur = 2 /\ entree = debut THEN {"first"} ELSE {}
  <2>1. met \in SUBSET Slip
    BY DEF Slip
  <2>2. PICK n \in 3 .. 2 * SAMPLE_SIZE :
           \/ Record(RunClosed, met) /\ \E r : Return(r, entree, AfterRun)
           \/ Encode(RunClosed, AfterRun, n, met)
    BY <1>10 DEF Match
  <2>. HIDE DEF met
  <2>. QED  BY <1>8, <1>9, <2>1, <2>2
<1>11. CASE \E n \in 3 .. SAMPLE_SIZE : MatchLast(n)
  <2>1. PICK n \in 3 .. 2 * SAMPLE_SIZE : Encode(RunClosed, AfterRun, n, {})
    BY <1>11 DEF MatchLast
  <2>. QED  BY <1>8, <2>1
<1>12. CASE Literal
  <2>. DEFINE l == IF compteur = 2 /\ entree = debut THEN SAMPLE_SIZE ELSE lit
  <2>1. pc = "loop" /\ resultat = None /\ Copy(l, l = 0)
    BY <1>12 DEF Literal, Looping
  <2>2. l \in 0 .. LZFX_MAX_LIT - 1
    <3>1. SAMPLE_SIZE \in 0 .. LZFX_MAX_LIT - 1
      OBVIOUS
    <3>. QED  BY <1>1, <3>1, Zenon
  <2>3. OpenRun = l
    <3>1. resultat[1] # "lit"
      BY <2>1, Tags
    <3>. QED  BY <2>1, <3>1 DEF OpenRun
  <2>. HIDE DEF l
  <2>. QED  BY <1>3, <2>1, <2>2, <2>3
<1>13. CASE LoopDone
  BY <1>13 DEF LoopDone, Return, RawRingKept, saved, locals
<1>14. CASE RecopiageFinal
  <2>1. pc = "final" /\ Copy(lit, lit = 0)
    BY <1>14 DEF RecopiageFinal
  <2>2. resultat = None /\ OpenRun = lit
    <3>1. slip = NoSlip
      BY <1>1, <2>1, Copying
    <3>2. resultat = None
      BY <2>1, <3>1, LoopStream DEF OpenInv
    <3>. QED  BY <2>1, <3>2, Tags DEF OpenRun
  <2>. QED  BY <1>1, <1>3, <2>1, <2>2
<1>15. CASE BatchDone
  <2>1. Record(RunClosed, {}) /\ Return(None, fin, AfterRun)
    BY <1>15 DEF BatchDone
  <2>. QED  BY <1>9, <2>1
<1>. QED
  BY <1>4, <1>5, <1>6, <1>7, <1>10, <1>11, <1>12, <1>13, <1>14, <1>15 DEF Compress

(* A call begins a batch at the ring's next cell, or it goes on where the last one ended. *)
LEMMA RawRingBegin ==
    ASSUME DecodeInv, RawRingKept, NEW a, Begin(a)
    PROVE  RawRingKept'
<1>. DEFINE n == IF compteur < Dernier_echantillon THEN compteur + 1 ELSE 1
            met == {s \in Slip :
              \/ s = "missed" /\ a # RawPlus(adr_ecr, SAMPLE_SIZE)
              \/ s = "leftover" /\ n = 1 /\ adr_lir # adr_ecr
              \/ s = "wrapped" /\ a < SAMPLE_SIZE
                   /\ (a < 2 \/ n \in {1, 2, Dernier_echantillon})
              \/ s = "null" /\ adr_lir = 0
              \/ s = "stalled" /\ board = "SAMD" /\ ~(a < SAMPLE_SIZE) /\ adr_lir > a}
<1>. SUFFICES ASSUME slip' = NoSlip
              PROVE  /\ cell'[MEMORY_SIZE] = Old
                     /\ sortie' = MEMORY_SIZE =>
                           lit' = 0 /\ cell'[MEMORY_COMPRESSED_MAX] = Header(0)
  BY DEF RawRingKept
<1>1. /\ IF n = 1
         THEN /\ slip' = IF met = {} THEN NoSlip ELSE CHOOSE s \in met : TRUE
              /\ cell' = Blank
         ELSE Record(cell, met)
      /\ IF adr_lir = 0
         THEN UNCHANGED <<sortie, lit>>
         ELSE sortie' = (IF n = 1 THEN OutNext(sortie) ELSE sortie) /\ UNCHANGED lit
  BY DEF Begin, locals
<1>2. met \in SUBSET Slip /\ (adr_lir = 0 => met # {}) /\ NoSlip \notin Slip
      /\ (met # {} => (CHOOSE s \in met : TRUE) \in met)
  <2>1. met \in SUBSET Slip /\ NoSlip \notin Slip
    BY DEF Slip, NoSlip
  <2>2. adr_lir = 0 => "null" \in met
    BY DEF Slip
  <2>. QED  BY <2>1, <2>2
<1>3. slip \in Slip \cup {NoSlip} /\ sortie \in OutCell
  BY DecodeTyped DEF DecodeInv, LzfxInv, TypeInv, TypeOK
<1>4. MEMORY_SIZE \in OutCell
  BY DEF OutCell
<1>. HIDE DEF n, met
<1>5. CASE n = 1
  <2>1. met = {} /\ adr_lir # 0
    BY <1>1, <1>2, <1>5
  <2>2. sortie' > MEMORY_SIZE
    BY <1>1, <1>3, <1>5, <2>1, OutNextCell
  <2>. QED  BY <1>1, <1>4, <1>5, <2>2 DEF Blank
<1>6. CASE n # 1
  <2>1. slip = NoSlip /\ cell' = cell
    BY <1>1, <1>2, <1>3, <1>6, RecordSlip DEF Record
  <2>2. UNCHANGED <<sortie, lit>>
    BY <1>1, <1>6
  <2>. QED  BY <2>1, <2>2 DEF RawRingKept
<1>. QED  BY <1>5, <1>6

(* Unless one of the cases of Slip was met the compressor writes no cell of the samples'
   ring, although its address, as it is kept and published between calls, may be one: it
   then stands for the compressed ring's last cell (storage_manager.cpp:551-553, 984). *)
THEOREM RawRingStaysWhole == Spec => []RawRingKept
<1>1. Init => DecodeInv /\ RawRingKept
  <2>1. Init => DecodeInv
    BY LzfxInit, StreamInit DEF DecodeInv
  <2>2. Init => RawRingKept
    <3>. SUFFICES ASSUME Init PROVE RawRingKept
      OBVIOUS
    <3>1. PICK s \in STARTS : adr_ecr_comp = s[2] /\ sortie = s[2]
      BY DEF Init
    <3>2. sortie > MEMORY_SIZE
      BY <3>1
    <3>. QED  BY <3>2 DEF Init, RawRingKept, Blank, OutCell
  <2>. QED  BY <2>1, <2>2
<1>2. DecodeInv /\ RawRingKept /\ [Next]_vars => DecodeInv' /\ RawRingKept'
  <2>. SUFFICES ASSUME DecodeInv, RawRingKept, [Next]_vars PROVE RawRingKept'
    BY DecodeStep
  <2>1. CASE Stored \/ NotStored
    <3>1. PICK a : Begin(a)
      BY <2>1 DEF Stored, NotStored
    <3>. QED  BY <3>1, RawRingBegin
  <2>2. CASE Compress
    BY <2>2, RawRingCompress
  <2>3. CASE StorEndComp \/ UNCHANGED vars
    BY <2>3 DEF StorEndComp, vars, locals, RawRingKept
  <2>. QED  BY <2>1, <2>2, <2>3 DEF Next
<1>. QED  BY <1>1, <1>2, PTL DEF Spec

=============================================================================

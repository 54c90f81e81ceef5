---------------------------------- MODULE Lzfx ----------------------------------
(***************************************************************************)
(* The compressor, src/Memory/storage_manager.cpp l.447 to 1024: after each *)
(* sample lzfx_compress takes the bytes of the raw ring from adr_lir to     *)
(* adr_ecr and appends literal runs and back references to the compressed   *)
(* ring.  A run is preceded by a header that is written when it ends; an    *)
(* open run, or a reference that reached the end of the sample, is carried  *)
(* over to the next sample in resultat.                                     *)
(*                                                                          *)
(* All addresses and the order of all writes are those of the code.  What   *)
(* the search finds (l.755-802) is a choice: a literal, or a match of some  *)
(* length.  A byte of the stream is a token: the raw address of the byte    *)
(* that was copied, the length in a header, the bytes a reference stands    *)
(* for.  The samples' own writes are in SampleStore; here one is stored or  *)
(* not, and EEPROM accesses succeed.                                        *)
(***************************************************************************)
EXTENDS Integers

CONSTANTS
    MEMORY_SIZE,            \* last cell of the raw ring (60000)
    MEMORY_COMPRESSED_MAX,  \* last cell of the compressed ring (65535)
    SAMPLE_SIZE,            \* bytes of a sample (19)
    LZFX_MAX_LIT,           \* the longest literal run (32)
    Dernier_echantillon,    \* samples of a batch (240)
    LONG_REF,               \* from this length on a reference takes 3 bytes (7)
    WORD,                   \* 2^16, the range of uint16_t
    BOARDS,                 \* ATmega32U4 ("AVR", 16-bit int), SAMD21 ("SAMD")
    STARTS,                 \* addresses <<raw, compressed>> to begin with
    MAX_SAMPLES,            \* bound: samples,
    MAX_MISSED,             \*   and those that cannot be stored
    GO_ON                   \* go on once a stream is spoilt

ASSUME LzfxAssumption ==
    /\ MEMORY_SIZE \in Nat /\ MEMORY_COMPRESSED_MAX \in Nat /\ WORD \in Nat
    /\ MEMORY_SIZE < MEMORY_COMPRESSED_MAX /\ MEMORY_COMPRESSED_MAX < WORD
    /\ SAMPLE_SIZE \in Nat /\ SAMPLE_SIZE >= 5 /\ 2 * SAMPLE_SIZE + 2 <= MEMORY_SIZE
    /\ MEMORY_SIZE < WORD - SAMPLE_SIZE
    /\ LZFX_MAX_LIT \in SAMPLE_SIZE + 1 .. MEMORY_COMPRESSED_MAX - MEMORY_SIZE - 1
    /\ Dernier_echantillon \in Nat /\ Dernier_echantillon > 2
    /\ LONG_REF \in Nat
    /\ BOARDS \subseteq {"AVR", "SAMD"} /\ BOARDS # {}
    /\ STARTS \subseteq (0 .. MEMORY_SIZE) \X (MEMORY_SIZE + 1 .. MEMORY_COMPRESSED_MAX)
    /\ MAX_SAMPLES \in Nat /\ MAX_MISSED \in Nat
    /\ GO_ON \in BOOLEAN

\* A batch fits in the compressed ring even if nothing repeats in it, and a reference is
\* shorter than what it stands for.
ASSUME BatchAssumption ==
    /\ Dernier_echantillon * SAMPLE_SIZE + 1 < MEMORY_COMPRESSED_MAX - MEMORY_SIZE
    /\ LZFX_MAX_LIT <= MEMORY_SIZE
    /\ LONG_REF >= 2

RawCell == 0 .. MEMORY_SIZE

\* The compressed ring, and the raw cell before it (l.551).
OutCell == MEMORY_SIZE .. MEMORY_COMPRESSED_MAX

VARIABLES
    board,
    adr_ecr, adr_lir,   \* raw ring: after the last sample, first byte not taken
    adr_lir_deb,        \* where the bytes of this batch begin
    adr_ecr_comp,       \* compressed ring: where to write
    compteur,           \* compteur_echantillon
    resultat,           \* what the last call left to the next
    pc,                 \* where lzfx_compress is, or "idle"
    entree, sortie, lit,  \* its adresse_entree, adresse_sortie and lit
    cell,               \* history: what this batch has written
    start,              \* history: where its stream begins
    slip,               \* history: the first of the cases below it has met
    samples, missed     \* samples so far, and those that were not stored

saved == <<adr_ecr, adr_lir, adr_lir_deb, adr_ecr_comp, compteur, resultat>>
locals == <<entree, sortie, lit>>
vars == <<board, saved, pc, locals, cell, start, slip, samples, missed>>

None == <<"none", 0>>
Error == <<"error", 0>>
Lit(x) == <<"lit", x>>
Ref(n) == <<"ref", n>>
Header(n) == <<"header", n>>
More == <<"more", 0>>
Old == <<"old", 0>>

\* The cases in which a stream is spoilt:
\*   missed    compression after a sample that was not stored (sampling_task.cpp l.363)
\*   leftover  a batch begins, after a report, with bytes of the last one not taken (l.869)
\*   wrapped   adr_ecr - 19 underflows (l.669) where it is used
\*   null      raw address 0 (l.699): nothing is compressed any more
\*   stalled   with 32-bit ints the loop is not entered across the raw ring's end (l.720)
\*   first     the second sample begins with a match: no header for the first (l.869)
\*   full      a run of the greatest length: two cells are skipped (l.507, 488)
\*   stray     an empty run is undone from the ring's start to raw cell 60000 (l.553)
NoSlip == "none"
Slip == {"missed", "leftover", "wrapped", "null", "stalled", "first", "full", "stray"}

Blank == [a \in OutCell |-> Old]

\* The history of a step that writes c into the stream, and that meets the cases S.
Record(c, S) ==
    /\ slip' = IF slip = NoSlip /\ S # {} THEN CHOOSE s \in S : TRUE ELSE slip
    /\ cell' = c
    /\ UNCHANGED start

\* Bound: a behaviour ends where the first stream is spoilt, unless GO_ON.
Going == slip = NoSlip \/ GO_ON

----------------------------------------------------------------------------
\* Addresses.

RawPlus(a, n) == IF a + n > MEMORY_SIZE THEN a + n - MEMORY_SIZE - 1 ELSE a + n

\* Mutation of OutNext: from the ring's end to the raw cell before its start.
OutNextRaw(a) == IF a = MEMORY_COMPRESSED_MAX THEN MEMORY_SIZE ELSE a + 1

OutNext(a) == IF a = MEMORY_COMPRESSED_MAX THEN MEMORY_SIZE + 1 ELSE a + 1

\* An expression of type int that mixes uint16_t's: on the AVR it is unsigned.
AsInt(x) == IF board = "AVR" THEN x % WORD ELSE x

debut == (adr_ecr - SAMPLE_SIZE) % WORD
fin == adr_ecr

\* The bytes of the input that are left, as l.821-827 compute them.
Left == IF entree < fin THEN fin - entree ELSE MEMORY_SIZE + 1 - entree + fin

\* Mutation of HeaderOf: wrong by one across the end of the ring.
HeaderOfShort(s, n) ==
    IF s - (MEMORY_SIZE + 1) < n + 1
    THEN MEMORY_COMPRESSED_MAX - (n + 1 - (s - (MEMORY_SIZE + 1)))
    ELSE s - n - 1

\* Where the header of a run of n bytes goes that ends before s.
HeaderOf(s, n) ==
    IF s - (MEMORY_SIZE + 1) < n + 1
    THEN MEMORY_COMPRESSED_MAX + 1 - (n + 1 - (s - (MEMORY_SIZE + 1)))
    ELSE s - n - 1

\* Fin_Literal_run: the header is written. For an empty run a cell is skipped,
\* a header put there, and the cell given back: l.558 puts the address back into
\* the ring, but in the branch where that is not needed.
EndOfRun == IF lit = 0 THEN OutNext(sortie) ELSE sortie
RunClosed == [cell EXCEPT ![HeaderOf(EndOfRun, lit)] = Header(lit)]
AfterRun ==
    IF lit # 0 THEN sortie
    ELSE IF EndOfRun - (MEMORY_SIZE + 1) >= 1 /\ EndOfRun - 1 = MEMORY_SIZE
         THEN MEMORY_COMPRESSED_MAX
         ELSE EndOfRun - 1

----------------------------------------------------------------------------
\* After a reset or a report, at the end of a batch; the addresses drift through
\* the rings.
Init ==
    /\ board \in BOARDS
    /\ \E s \in STARTS : adr_ecr = s[1] /\ adr_ecr_comp = s[2]
    /\ adr_lir = adr_ecr /\ adr_lir_deb = adr_ecr
    /\ compteur = 0
    /\ resultat = None
    /\ pc = "idle"
    /\ entree = adr_ecr /\ sortie = adr_ecr_comp /\ lit = 0
    /\ cell = Blank
    /\ start = adr_ecr_comp
    /\ slip = NoSlip
    /\ samples = 0 /\ missed = 0

\* lzfx_compress returns r, with adr_lir = lir and adr_ecr_comp = comp.
Return(r, lir, comp) ==
    /\ pc' = "idle"
    /\ resultat' = r
    /\ adr_lir' = lir /\ entree' = lir
    /\ adr_ecr_comp' = comp /\ sortie' = comp
    /\ lit' = 0
    /\ UNCHANGED <<adr_ecr, adr_lir_deb, compteur>>

\* compression, after a sample that ends before a was stored, or was not: then a is
\* adr_ecr, or 0 if its first piece was. Address 0 passes for NULL (l.699).
Begin(a) ==
    LET n == IF compteur < Dernier_echantillon THEN compteur + 1 ELSE 1
        wraps == a < SAMPLE_SIZE
    IN /\ Going
       /\ pc = "idle"
       /\ samples < MAX_SAMPLES
       /\ samples' = samples + 1
       /\ compteur' = n
       /\ adr_ecr' = a
       /\ adr_lir_deb' = IF compteur < Dernier_echantillon THEN adr_lir_deb ELSE adr_lir
       /\ IF adr_lir = 0
          THEN resultat' = Error /\ UNCHANGED <<pc, locals>>
          ELSE /\ pc' = IF n = 1 THEN "first" ELSE "loop"
               /\ sortie' = IF n = 1 THEN OutNext(sortie) ELSE sortie
               /\ UNCHANGED <<resultat, entree, lit>>
       /\ LET met == {s \in Slip :
                \/ s = "missed" /\ a # RawPlus(adr_ecr, SAMPLE_SIZE)
                \/ s = "leftover" /\ n = 1 /\ adr_lir # adr_ecr
                \/ s = "wrapped" /\ wraps /\ (a < 2 \/ n \in {1, 2, Dernier_echantillon})
                \/ s = "null" /\ adr_lir = 0
                \/ s = "stalled" /\ board = "SAMD" /\ ~wraps /\ adr_lir > a}
          IN IF n = 1
             THEN /\ slip' = IF met = {} THEN NoSlip ELSE CHOOSE s \in met : TRUE
                  /\ cell' = Blank
                  /\ start' = IF sortie = MEMORY_SIZE THEN MEMORY_COMPRESSED_MAX ELSE sortie
             ELSE Record(cell, met)
       /\ UNCHANGED <<board, adr_lir, adr_ecr_comp>>

Stored == Begin(RawPlus(adr_ecr, SAMPLE_SIZE)) /\ UNCHANGED missed

NotStored ==
    /\ missed < MAX_MISSED
    /\ missed' = missed + 1
    /\ \/ Begin(adr_ecr)
       \/ adr_ecr + SAMPLE_SIZE > MEMORY_SIZE /\ Begin(0)

\* stor_end_comp: a report was sent; the next sample starts a batch.
StorEndComp ==
    /\ Going
    /\ pc = "idle"
    /\ compteur' = 0
    /\ adr_lir_deb' = adr_lir
    /\ UNCHANGED <<board, adr_ecr, adr_lir, adr_ecr_comp, resultat, pc, locals, cell,
                   start, slip, samples, missed>>

\* One byte is copied, as number l + 1 of its run, after a skipped cell if skip. A
\* run of the greatest length is closed, and a cell skipped.
Copy(l, skip) ==
    LET at == IF skip THEN OutNext(sortie) ELSE sortie
        after == OutNext(at)
        copied == [cell EXCEPT ![at] = Lit(entree)]
        full == l + 1 = LZFX_MAX_LIT
    IN /\ Record(IF full THEN [copied EXCEPT ![HeaderOf(after, l + 1)] = Header(l + 1)]
                 ELSE copied,
                 IF full /\ pc # "first" THEN {"full"} ELSE {})
       /\ lit' = IF full THEN 0 ELSE l + 1
       /\ sortie' = IF full THEN OutNext(after) ELSE after
       /\ entree' = RawPlus(entree, 1)

\* recopiage: the first sample of a batch is copied.
FirstLeft == IF entree >= debut THEN entree < AsInt(debut + SAMPLE_SIZE) ELSE entree < fin

Recopiage ==
    /\ pc = "first"
    /\ FirstLeft
    /\ Copy(lit, FALSE)
    /\ UNCHANGED <<board, saved, pc, samples, missed>>

RecopiageDone ==
    /\ pc = "first"
    /\ ~FirstLeft
    /\ Return(None, fin, sortie)
    /\ UNCHANGED <<board, cell, start, slip, samples, missed>>

\* Mutation of Looping: three bytes left are left to the next sample.
LoopingShort ==
    /\ pc = "loop"
    /\ IF entree > fin THEN AsInt(SAMPLE_SIZE - AsInt(entree - debut)) > 2 ELSE entree + 3 < fin

\* The loop over the other samples goes on while three bytes are left (l.720).
Looping ==
    /\ pc = "loop"
    /\ IF entree > fin THEN AsInt(SAMPLE_SIZE - AsInt(entree - debut)) > 2 ELSE entree + 2 < fin

\* Encodage_compression: a reference for n bytes is written at s into the cells c.
Encode(c, s, n, met) ==
    LET second == OutNext(s)
    IN /\ Record(IF n - 2 < LONG_REF
                 THEN [c EXCEPT ![s] = Ref(n), ![second] = More]
                 ELSE [c EXCEPT ![s] = Ref(n), ![second] = More, ![OutNext(second)] = More],
                 met \cup IF s = MEMORY_SIZE THEN {"stray"} ELSE {})
       /\ sortie' = IF n - 2 < LONG_REF THEN OutNext(second) ELSE OutNext(OutNext(second))
       /\ lit' = 0
       /\ entree' = RawPlus(entree, n)

\* Continuite: the reference that reached the end of the last sample goes on for
\* n bytes in all.
Continuite(n) ==
    LET maxlen == resultat[2] - 2 + IF compteur < Dernier_echantillon
                                    THEN SAMPLE_SIZE - 1 ELSE SAMPLE_SIZE - 3
    IN /\ Looping
       /\ resultat[1] = "ref"
       /\ n >= resultat[2] /\ n <= maxlen
       /\ Encode(cell, sortie, n, {})
       /\ resultat' = None
       /\ UNCHANGED <<board, adr_ecr, adr_lir, adr_lir_deb, adr_ecr_comp, compteur, pc,
                      samples, missed>>

\* Mutation of ContinueRun: resultat is not reset.
ContinueRunAgain ==
    /\ Looping
    /\ resultat[1] = "lit"
    /\ lit' = resultat[2]
    /\ UNCHANGED <<board, saved, pc, entree, sortie, cell, start, slip, samples, missed>>

\* So does the literal run.
ContinueRun ==
    /\ Looping
    /\ resultat[1] = "lit"
    /\ lit' = resultat[2]
    /\ resultat' = None
    /\ UNCHANGED <<board, adr_ecr, adr_lir, adr_lir_deb, adr_ecr_comp, compteur, pc,
                   entree, sortie, cell, start, slip, samples, missed>>

\* The search finds n equal bytes. If they reach the end of the sample, the
\* reference is left to the next one; in resultat its code is 8192 * (n - 2) plus the
\* offset, and 8192 itself is not recognised as one (l.723): that takes offset 0,
\* which is only found from address 0 (l.814).
Match(n) ==
    LET met == IF compteur = 2 /\ entree = debut THEN {"first"} ELSE {}
    IN /\ Looping
       /\ resultat = None
       /\ compteur < Dernier_echantillon
       /\ n >= 3 /\ (n <= Left \/ n = 3)
       /\ IF n = Left
          THEN /\ Record(RunClosed, met)
               /\ \/ Return(Ref(n), entree, AfterRun)
                  \/ n = 3 /\ entree = 0 /\ Return(None, entree, AfterRun)
          ELSE Encode(RunClosed, AfterRun, n, met) /\ UNCHANGED <<saved, pc>>
       /\ UNCHANGED <<board, samples, missed>>

\* In the last sample a reference leaves two bytes if it can, and near the end of
\* the sample the loop is left.
MatchLast(n) ==
    /\ Looping
    /\ resultat = None
    /\ compteur = Dernier_echantillon
    /\ entree + 4 < fin \/ AsInt(SAMPLE_SIZE - entree - debut) > 4
    /\ n >= 3 /\ (n <= Left - 2 \/ n = 3)
    /\ Encode(RunClosed, AfterRun, n, {})
    /\ pc' = IF IF entree' > debut
                THEN AsInt(SAMPLE_SIZE - AsInt(entree' - debut)) <= 3
                ELSE entree' + 3 >= fin
             THEN "final" ELSE pc
    /\ UNCHANGED <<board, saved, samples, missed>>

\* It finds none: Literal_run. The first byte of the second sample follows the run
\* of the first (l.868). A run that was filled has skipped a cell, and as lit = 0 so
\* does the next.
Literal ==
    LET l == IF compteur = 2 /\ entree = debut THEN SAMPLE_SIZE ELSE lit
    IN /\ Looping
       /\ resultat = None
       /\ Copy(l, l = 0)
       /\ UNCHANGED <<board, saved, pc, samples, missed>>

\* Fewer than three bytes are left: to the next sample, or to Recopiage_final.
LoopDone ==
    /\ pc = "loop"
    /\ ~Looping
    /\ IF compteur # Dernier_echantillon
       THEN Return(IF lit = 0 THEN None ELSE Lit(lit), entree, sortie)
       ELSE pc' = "final" /\ UNCHANGED <<saved, locals>>
    /\ UNCHANGED <<board, cell, start, slip, samples, missed>>

FinalLeft ==
    IF debut < entree THEN AsInt(SAMPLE_SIZE - entree + debut) > 0 ELSE entree < fin

RecopiageFinal ==
    /\ pc = "final"
    /\ FinalLeft
    /\ Copy(lit, lit = 0)
    /\ UNCHANGED <<board, saved, pc, samples, missed>>

BatchDone ==
    /\ pc = "final"
    /\ ~FinalLeft
    /\ Record(RunClosed, {})
    /\ Return(None, fin, AfterRun)
    /\ UNCHANGED <<board, samples, missed>>

Compress ==
    /\ Going
    /\ \/ Recopiage
       \/ RecopiageDone
       \/ \E n \in 3 .. 2 * SAMPLE_SIZE : Continuite(n)
       \/ ContinueRun
       \/ \E n \in 3 .. 2 * SAMPLE_SIZE : Match(n)
       \/ \E n \in 3 .. SAMPLE_SIZE : MatchLast(n)
       \/ Literal
       \/ LoopDone
       \/ RecopiageFinal
       \/ BatchDone

Next == Stored \/ NotStored \/ StorEndComp \/ Compress

Spec == Init /\ [][Next]_vars /\ WF_vars(Compress)

----------------------------------------------------------------------------
\* Type correctness: among others, the raw addresses stay in the raw ring, and the
\* output address in the compressed one or, no further out, in the raw cell before it.
TypeOK ==
    /\ adr_ecr \in RawCell /\ adr_lir \in RawCell /\ adr_lir_deb \in RawCell
    /\ entree \in RawCell
    /\ adr_ecr_comp \in OutCell /\ sortie \in OutCell
    /\ compteur \in 0 .. Dernier_echantillon
    /\ lit \in 0 .. LZFX_MAX_LIT - 1
    /\ pc \in {"idle", "first", "loop", "final"}
    /\ slip \in Slip \cup {NoSlip}
    /\ missed \in 0 .. MAX_MISSED /\ samples \in 0 .. MAX_SAMPLES

CompSize == MEMORY_COMPRESSED_MAX - MEMORY_SIZE
OutPlus(a, n) == IF a + n > MEMORY_COMPRESSED_MAX THEN a + n - CompSize ELSE a + n
Copied(a, n, p) == \A k \in 0 .. n - 1 : cell[OutPlus(a, k)] = Lit(RawPlus(p, k))
RefCells(n) == IF n - 2 < LONG_REF THEN 2 ELSE 3

\* Reading n cells of the stream from the cell at on, with the raw byte p next: the raw
\* address reached, or -1 where a cell is not what the format wants there.
Read[n \in 0 .. CompSize] ==
    [at \in OutCell |-> [p \in RawCell |->
        LET t == cell[at]
            ref == RefCells(t[2])
        IN IF n = 0 THEN p
           ELSE IF t[1] = "ref" /\ n >= ref
                THEN Read[n - ref][OutPlus(at, ref)][RawPlus(p, t[2])]
           ELSE IF t[1] = "header" /\ t[2] \in 1 .. n - 1 /\ Copied(OutPlus(at, 1), t[2], p)
                THEN Read[n - (t[2] + 1)][OutPlus(at, t[2] + 1)][RawPlus(p, t[2])]
           ELSE -1]]

\* The stream from start on, decoded cell by cell. What follows the last run or
\* reference that is complete is the run that the next call goes on with.
Decoded ==
    LET length == (adr_ecr_comp - start) % CompSize
        run == IF compteur = 1 THEN SAMPLE_SIZE
               ELSE IF resultat[1] = "lit" THEN resultat[2] ELSE 0
        closed == IF run = 0 THEN length ELSE length - run - 1
        p == IF closed < 0 THEN -1 ELSE Read[closed][start][adr_lir_deb]
    IN IF p = -1 THEN -1
       ELSE IF Copied(OutPlus(start, closed + 1), run, p) THEN RawPlus(p, run) ELSE -1

\* Between calls the stream of the batch, decoded, is the raw bytes up to adr_lir.
Decodes == pc = "idle" /\ compteur > 0 => Decoded = adr_lir

\* Without one of the cases of Slip it does: at every address, across batches and the
\* ends of both rings, and whatever is left open from call to call.
DecodesUnlessSlipped == slip = NoSlip => Decodes

\* The compressor stays behind the samples by at most a reference that reached the
\* end, or two bytes, and at the end of a batch by nothing.
KeepsUp ==
    pc = "idle" /\ compteur > 0 /\ slip = NoSlip =>
      LET left == (adr_ecr - adr_lir) % (MEMORY_SIZE + 1)
      IN /\ resultat[1] = "ref" => left = resultat[2]
         /\ resultat[1] # "ref" => left <= 2 \/ (adr_lir = 0 /\ left = 3)
         /\ compteur = Dernier_echantillon => left = 0

\* The compressor writes no raw cell unless a case of Slip is met ("stray" is the one).
\* Its address may be the raw cell (l.551-553, published at l.984), but only after an empty
\* run was undone that had begun in the ring's last cell: there is its header, where the
\* next byte of the stream belongs, and no run is open that would go on at the address.
RawRingKept ==
    slip = NoSlip =>
      /\ cell[MEMORY_SIZE] = Old
      /\ sortie = MEMORY_SIZE => lit = 0 /\ cell[MEMORY_COMPRESSED_MAX] = Header(0)

\* Every call returns.
CompressReturns == (pc # "idle" /\ slip = NoSlip) ~> (pc = "idle" \/ slip # NoSlip)

=============================================================================

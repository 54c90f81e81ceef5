--------------------------------- MODULE ByteLog ---------------------------------
(***************************************************************************)
(* What the storage manager promises its clients about the compressed      *)
(* stream: a FIFO of bytes whose reader takes bytes provisionally, and      *)
(* then either confirms what it took or cancels it.  The promise is exact   *)
(* as long as the memory answers in time and the producer writes where it   *)
(* should.  It has two limits: a log that reaches its capacity forgets its  *)
(* oldest CAPACITY bytes, and a restart forgets everything.                 *)
(*                                                                          *)
(* Bytes stand for their place in the stream: the producer's bytes are      *)
(* numbered modulo PERIOD, so that no byte can be mistaken for a neighbour. *)
(***************************************************************************)
EXTENDS Integers, Sequences

CONSTANTS CAPACITY,    \* number of cells of the ring
          PERIOD,      \* the numbering of the bytes starts over
          MAX_APPEND   \* the most bytes one sample is compressed to

VARIABLES
    log,     \* the unconfirmed bytes, oldest first
    taken,   \* how many of them the reader has taken
    next,    \* the number of the next byte of the producer
    out,     \* the bytes the last Take returned
    fault    \* the last operation timed out, or the producer missed a cell

vars == <<log, taken, next, out, fault>>

Byte == 0 .. PERIOD - 1

Fresh(n) == [k \in 1 .. n |-> (next + k - 1) % PERIOD]

Init ==
    /\ log = <<>>
    /\ taken = 0
    /\ next = 0
    /\ out = <<>>
    /\ fault = FALSE

\* A sample is compressed to n bytes. A full lap of the ring cannot be told from
\* an empty one: then the oldest CAPACITY bytes are forgotten. At most one of the
\* new bytes is still to be written (the header of a run that goes on), and at most
\* one of the old ones is written now; more are wrong only if the memory timed out or
\* the producer missed their cells.
Produce(n) ==
    LET len == Len(log) + n
        lap == IF len >= CAPACITY THEN CAPACITY ELSE 0
    IN /\ taken = 0
       /\ fault' \in BOOLEAN
       /\ log' \in Seq(Byte) /\ Len(log') = len - lap
       /\ \E late \in 0 .. Len(log), hole \in 0 .. n :
             \A k \in lap + 1 .. len :
                \/ k <= Len(log) /\ (k = late \/ log'[k - lap] = log[k])
                \/ k > Len(log) /\ (fault' \/ k = Len(log) + hole
                                    \/ log'[k - lap] = Fresh(n)[k - Len(log)])
       /\ next' = (next + n) % PERIOD
       /\ UNCHANGED <<taken, out>>

\* The reader gets the next n bytes.
Take(n) ==
    /\ n <= Len(log) - taken
    /\ out' = SubSeq(log, taken + 1, taken + n)
    /\ taken' = taken + n
    /\ fault' = FALSE
    /\ UNCHANGED <<log, next>>

\* The memory timed out: the reader gets nothing, but may have lost its place.
FailedTake(n) ==
    /\ n <= Len(log) - taken
    /\ out' = <<>>
    /\ taken' \in taken .. taken + n
    /\ fault' = TRUE
    /\ UNCHANGED <<log, next>>

Confirm ==
    /\ log' = SubSeq(log, taken + 1, Len(log))
    /\ taken' = 0
    /\ out' = <<>>
    /\ fault' = FALSE
    /\ UNCHANGED next

Cancel ==
    /\ taken' = 0
    /\ out' = <<>>
    /\ fault' = FALSE
    /\ UNCHANGED <<log, next>>

Restart ==
    /\ log' = <<>>
    /\ taken' = 0
    /\ out' = <<>>
    /\ fault' = FALSE
    /\ next' = 0

Next ==
    \/ \E n \in 0 .. MAX_APPEND : Produce(n)
    \/ \E n \in 0 .. CAPACITY : Take(n) \/ FailedTake(n)
    \/ Confirm
    \/ Cancel
    \/ Restart

Spec == Init /\ [][Next]_vars
=============================================================================

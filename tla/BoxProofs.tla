------------------------------- MODULE BoxProofs -------------------------------
(***************************************************************************)
(* The safety properties of BoxProtocol, for every number of tries and of   *)
(* late answers.                                                            *)
(*                                                                          *)
(* BInv says what may be on the line: of an undisturbed dialogue only the   *)
(* answers to its own commands so far, and as long as none was late, only   *)
(* the one that is awaited; and that tries, failures and fields count up    *)
(* together.                                                                *)
(***************************************************************************)
EXTENDS BoxProtocol, SequenceTheorems, TLAPS

\* The answers to the commands up to the current one.
Own == {Dialogue[talk][m] : m \in 1 .. i}

CountInv ==
    /\ pc # "idle" => failures = tries /\ filled = i - 1
    /\ pc = "idle" => filled \in {i - 1, i}

LineInv ==
    /\ ~carried => \A k \in 1 .. Len(coming) : coming[k] \in Own
    /\ ~carried /\ ~late => coming = <<>> \/ (pc = "read" /\ coming = <<Current>>)

BInv == TypeOK /\ CountInv /\ LineInv /\ AnswersFit /\ OwnUnlessLate /\ ResultTrue

----------------------------------------------------------------------------
\* The dialogues are not empty.
LEMMA Dialogues ==
    ASSUME NEW d \in Talk
    PROVE  /\ Dialogue[d] \in Seq(Command)
           /\ Len(Dialogue[d]) \in Nat \ {0}
           /\ \A m \in 1 .. Len(Dialogue[d]) : Dialogue[d][m] \in Command
  <1>1. CASE d = "data"
    BY <1>1 DEF Dialogue, Command
  <1>2. CASE d = "paygState"
    BY <1>2 DEF Dialogue, Command
  <1>3. CASE d = "opid"
    BY <1>3 DEF Dialogue, Command
  <1> QED
    BY <1>1, <1>2, <1>3 DEF Talk

\* What is left of the line when the first n answers are gone.
LEMMA Rest ==
    ASSUME NEW s \in Seq(Command), NEW n \in 0 .. Len(s)
    PROVE  LET t == SubSeq(s, n + 1, Len(s))
           IN /\ t \in Seq(Command) /\ Len(t) = Len(s) - n /\ Len(t) \in Nat
              /\ \A k \in 1 .. Len(t) : t[k] = s[n + k]
  <1>1. Len(s) \in Nat
    OBVIOUS
  <1>2. SubSeq(s, n + 1, Len(s)) \in Seq(Command)
    BY <1>1, SubSeqProperties
  <1>3. Len(SubSeq(s, n + 1, Len(s))) = Len(s) - n
    BY <1>1, SubSeqProperties
  <1>4. \A k \in 1 .. Len(s) - n : SubSeq(s, n + 1, Len(s))[k] = s[n + k]
    BY <1>1, SubSeqProperties
  <1> QED
    BY <1>1, <1>2, <1>3, <1>4

LEMMA Answers == \A c \in Command : AnsLen[c] \in Nat
  BY DEF AnsLen

LEMMA FlagsStep == ASSUME Flags, [Next]_vars PROVE Flags'
  <1>1. ASSUME NEW d \in Talk, Call(d) PROVE Flags'
    BY <1>1, Zenon DEF Flags, Call
  <1>2. CASE SendCommand \/ Accept \/ Reject \/ Lose
    BY <1>2, Zenon DEF Flags, SendCommand, Accept, Reject, Lose
  <1>3. CASE Timeout
    BY <1>3, Zenon DEF Flags, Timeout
  <1>4. CASE UNCHANGED vars
    BY <1>4, Zenon DEF Flags, vars
  <1> QED
    BY <1>1, <1>2, <1>3, <1>4 DEF Next, Dialog

LEMMA BInit == BoxAssumption /\ Init => BInv
  <1> SUFFICES ASSUME BoxAssumption, Init PROVE BInv
    OBVIOUS
  <1>1. Dialogue["opid"] = <<"OPID">> /\ Len(Dialogue["opid"]) = 1
    BY DEF Dialogue
  <1>2. Flags
    BY Zenon DEF Init, Flags
  <1>3. coming \in Seq(Command) /\ Len(coming) = 0
    BY DEF Init
  <1>4. TypeOK
    BY <1>1, <1>2, <1>3 DEF BoxAssumption, Init, TypeOK, Talk, Command, Failure
  <1>5. CountInv /\ LineInv
    BY <1>3 DEF Init, CountInv, LineInv
  <1>6. AnswersFit /\ OwnUnlessLate /\ ResultTrue
    BY <1>1 DEF Init, AnswersFit, OwnUnlessLate, ResultTrue, Failure
  <1> QED
    BY <1>4, <1>5, <1>6 DEF BInv

----------------------------------------------------------------------------
\* A dialogue begins.
LEMMA CallStep ==
    ASSUME BoxAssumption, BInv, NEW d \in Talk, Call(d)
    PROVE  BInv'
  <1> USE DEF BInv
  <1>1. Len(Dialogue[d]) \in Nat \ {0}
    BY Dialogues
  <1>2. Flags'
    BY FlagsStep DEF TypeOK, Next
  <1>3. TypeOK'
    BY <1>1, <1>2 DEF TypeOK, Call, BoxAssumption
  <1>4. CountInv'
    BY DEF Call, CountInv
  <1>5. LineInv'
    <2>1. (~carried)' => coming' = <<>>
      BY DEF Call
    <2>2. coming' = <<>> => Len(coming') = 0
      OBVIOUS
    <2> QED
      BY <2>1, <2>2 DEF LineInv
  <1>6. AnswersFit' /\ OwnUnlessLate' /\ ResultTrue'
    BY DEF Call, AnswersFit, OwnUnlessLate, ResultTrue
  <1> QED
    BY <1>3, <1>4, <1>5, <1>6

\* A command is sent: only the answers that were late are still before its own.
LEMMA SendStep ==
    ASSUME BoxAssumption, BInv, SendCommand
    PROVE  BInv'
  <1> USE DEF BInv
  <1>1. PICK n \in 0 .. Len(coming) :
          /\ Len(coming) - n <= MAX_BEHIND
          /\ coming' = Append(SubSeq(coming, n + 1, Len(coming)), Current)
    BY DEF SendCommand
  <1> DEFINE rest == SubSeq(coming, n + 1, Len(coming))
  <1>2. /\ rest \in Seq(Command) /\ Len(rest) = Len(coming) - n /\ Len(rest) \in Nat
        /\ \A k \in 1 .. Len(rest) : rest[k] = coming[n + k]
    BY Rest DEF TypeOK
  <1>3. Current \in Command
    BY Dialogues DEF TypeOK, Current
  <1>4. UNCHANGED <<talk, i, tries, result, got, filled, failures, carried, late>>
        /\ pc = "send" /\ pc' = "read"
    BY DEF SendCommand
  <1> HIDE DEF rest
  <1>5. /\ coming' \in Seq(Command) /\ Len(coming') = Len(rest) + 1
        /\ coming'[Len(rest) + 1] = Current
        /\ \A k \in 1 .. Len(rest) : coming'[k] = rest[k]
    <2>1. coming' = Append(rest, Current)
      BY <1>1 DEF rest
    <2> QED
      BY <1>2, <1>3, <2>1
  <1>6. Flags'
    BY FlagsStep DEF TypeOK, Next, Dialog
  <1>7. TypeOK'
    BY <1>1, <1>2, <1>4, <1>5, <1>6 DEF TypeOK, BoxAssumption
  <1>8. CountInv'
    BY <1>4 DEF CountInv
  <1>9. LineInv'
    <2>1. Own' = Own /\ Current' = Current
      BY <1>4 DEF Own, Current
    <2>2. Current \in Own
      BY DEF Own, Current, TypeOK
    <2>3. ASSUME ~carried, NEW k \in 1 .. Len(coming') PROVE coming'[k] \in Own
      <3>1. CASE k = Len(rest) + 1
        BY <1>5, <2>2, <3>1
      <3>2. CASE k \in 1 .. Len(rest)
        <4>1. n + k \in 1 .. Len(coming)
          BY <1>2, <3>2 DEF TypeOK
        <4> QED
          BY <1>2, <1>5, <2>3, <3>2, <4>1 DEF LineInv
      <3> QED
        BY <1>2, <1>5, <3>1, <3>2
    <2>4. ASSUME ~carried, ~late PROVE coming' = <<Current>>
      <3>1. coming = <<>>
        BY <1>4, <2>4 DEF LineInv
      <3>2. Len(coming) = 0
        BY <3>1
      <3>3. Len(rest) = 0
        <4>1. n = 0
          BY <1>1, <3>2
        <4>2. Len(rest) = Len(coming) - n
          BY <1>2
        <4> QED
          BY <3>2, <4>1, <4>2
      <3> QED
        BY <1>3, <1>5, <3>3
    <2> QED
      BY <1>4, <2>1, <2>3, <2>4 DEF LineInv
  <1>10. AnswersFit' /\ OwnUnlessLate' /\ ResultTrue'
    BY <1>4 DEF AnswersFit, OwnUnlessLate, ResultTrue
  <1> QED
    BY <1>7, <1>8, <1>9, <1>10

\* A failure is counted; a dialogue that is given up says so.
LEMMA FailedCounts ==
    ASSUME BoxAssumption, BInv, pc = "read", Failed, UNCHANGED <<got, filled, carried>>
    PROVE  /\ UNCHANGED <<talk, i>> /\ pc' \in {"send", "idle"}
           /\ tries' \in 0 .. MAX_TRIES /\ failures' \in 0 .. MAX_TRIES + 1
           /\ result' \in {0, Failure}
           /\ CountInv' /\ ResultTrue'
  <1> USE DEF BInv
  <1>1. tries \in 0 .. MAX_TRIES /\ failures = tries /\ filled = i - 1 /\ i \in Nat
        /\ result \in {0, Failure}
    BY Dialogues DEF TypeOK, CountInv
  <1>2. CASE tries < MAX_TRIES
    BY <1>1, <1>2 DEF Failed, CountInv, ResultTrue, BoxAssumption
  <1>3. CASE ~(tries < MAX_TRIES)
    BY <1>1, <1>3 DEF Failed, Return, CountInv, ResultTrue, BoxAssumption, Failure
  <1> QED
    BY <1>2, <1>3

\* Of the line only the first answers go, by a failure or a loss.
LEMMA LineShrinks ==
    ASSUME BInv, NEW n \in 0 .. Len(coming), n >= 1,
           coming' = SubSeq(coming, n + 1, Len(coming)), UNCHANGED <<talk, i, carried, late>>
    PROVE  /\ coming' \in Seq(Command) /\ Len(coming') <= MAX_BEHIND + 1
           /\ LineInv'
  <1> USE DEF BInv
  <1>1. /\ coming' \in Seq(Command) /\ Len(coming') = Len(coming) - n /\ Len(coming') \in Nat
        /\ \A k \in 1 .. Len(coming') : coming'[k] = coming[n + k]
    BY Rest DEF TypeOK
  <1>2. coming \in Seq(Command) /\ Len(coming) \in Nat /\ Len(coming) <= MAX_BEHIND + 1
    BY DEF TypeOK
  <1>3. Own' = Own
    BY DEF Own
  <1>4. ASSUME ~carried, NEW k \in 1 .. Len(coming') PROVE coming'[k] \in Own
    <2>1. n + k \in 1 .. Len(coming)
      BY <1>1, <1>2
    <2> QED
      BY <1>1, <1>4, <2>1 DEF LineInv
  <1>5. ASSUME ~carried, ~late PROVE coming' = <<>>
    <2>1. Len(coming) <= 1
      BY <1>5 DEF LineInv
    <2>2. Len(coming') = 0
      BY <1>1, <1>2, <2>1
    <2> QED
      BY <1>1, <2>2, EmptySeq
  <1>6. Len(coming') <= MAX_BEHIND + 1
    BY <1>1, <1>2, BoxAssumption DEF BoxAssumption
  <1> QED
    BY <1>1, <1>3, <1>4, <1>5, <1>6 DEF LineInv

LEMMA FirstGone ==
    ASSUME NEW s \in Seq(Command), s # <<>>
    PROVE  /\ Tail(s) = SubSeq(s, 1 + 1, Len(s)) /\ 1 \in 0 .. Len(s)
           /\ Len(s) >= 1 /\ Head(s) = s[1] /\ s[1] \in Command
  <1>1. Len(s) \in Nat /\ Len(s) >= 1
    BY EmptySeq
  <1>2. Tail(s) = SubSeq(s, 2, Len(s))
    BY TailIsSubSeq
  <1>3. Head(s) = s[1] /\ s[1] \in Command
    BY <1>1
  <1> QED
    BY <1>1, <1>2, <1>3

\* A failed command.
LEMMA FailedStep ==
    ASSUME BoxAssumption, BInv, Reject \/ Timeout
    PROVE  BInv'
  <1> USE DEF BInv
  <1>1. pc = "read" /\ Failed /\ UNCHANGED <<got, filled, carried>>
    BY DEF Reject, Timeout
  <1>2. /\ UNCHANGED <<talk, i>> /\ pc' \in {"send", "idle"}
        /\ tries' \in 0 .. MAX_TRIES /\ failures' \in 0 .. MAX_TRIES + 1
        /\ result' \in {0, Failure}
        /\ CountInv' /\ ResultTrue'
    BY <1>1, FailedCounts
  <1>3. coming' \in Seq(Command) /\ Len(coming') <= MAX_BEHIND + 1 /\ LineInv'
    <2>1. CASE Reject
      <3>1. PICK n \in 1 .. Len(coming) : coming' = SubSeq(coming, n + 1, Len(coming))
        BY <2>1 DEF Reject
      <3>2. n \in 0 .. Len(coming) /\ n >= 1
        BY <3>1 DEF TypeOK
      <3>3. UNCHANGED <<talk, i, carried, late>>
        BY <1>1, <1>2, <2>1 DEF Reject
      <3> QED
        BY <3>1, <3>2, <3>3, LineShrinks
    <2>2. CASE Timeout
      <3>1. coming' = coming /\ Own' = Own
        BY <1>2, <2>2 DEF Timeout, Own
      <3>2. ~late' => ~late /\ coming = <<>>
        BY <2>2 DEF Timeout
      <3> QED
        BY <1>1, <3>1, <3>2 DEF TypeOK, LineInv
    <2> QED
      BY <2>1, <2>2
  <1>4. Flags'
    BY FlagsStep DEF TypeOK, Next, Dialog
  <1>5. TypeOK'
    BY <1>1, <1>2, <1>3, <1>4 DEF TypeOK
  <1>6. late => late'
    BY DEF Reject, Timeout
  <1>7. AnswersFit' /\ OwnUnlessLate'
    BY <1>1, <1>2, <1>6 DEF AnswersFit, OwnUnlessLate
  <1> QED
    BY <1>2, <1>3, <1>5, <1>7

\* An answer is lost.
LEMMA LoseStep ==
    ASSUME BoxAssumption, BInv, Lose
    PROVE  BInv'
  <1> USE DEF BInv
  <1>1. coming # <<>> /\ coming \in Seq(Command)
    BY DEF Lose, TypeOK
  <1>2. UNCHANGED <<pc, talk, i, tries, result, got, filled, failures, carried, late>>
    BY DEF Lose
  <1>3. coming' = SubSeq(coming, 1 + 1, Len(coming)) /\ 1 \in 0 .. Len(coming)
    BY <1>1, FirstGone DEF Lose
  <1>4. coming' \in Seq(Command) /\ Len(coming') <= MAX_BEHIND + 1 /\ LineInv'
    BY <1>2, <1>3, LineShrinks
  <1>5. Flags'
    BY FlagsStep DEF TypeOK, Next
  <1>6. TypeOK' /\ CountInv' /\ AnswersFit' /\ OwnUnlessLate' /\ ResultTrue'
    BY <1>2, <1>4, <1>5 DEF TypeOK, CountInv, AnswersFit, OwnUnlessLate, ResultTrue
  <1> QED
    BY <1>4, <1>6

\* An answer is taken: it has the length of its field, and it is one of the dialogue's
\* own if the line was empty when it began.
LEMMA AcceptStep ==
    ASSUME BoxAssumption, BInv, Accept
    PROVE  BInv'
  <1> USE DEF BInv
  <1>1. /\ coming # <<>> /\ coming \in Seq(Command) /\ pc = "read" /\ Fits(Head(coming))
        /\ got' = Head(coming) /\ filled' = i /\ coming' = Tail(coming)
        /\ carried' = carried /\ late' = late /\ Succeeded
    BY DEF Accept, TypeOK
  <1>2. /\ Len(Dialogue[talk]) \in Nat \ {0} /\ i \in 1 .. Len(Dialogue[talk])
        /\ tries \in 0 .. MAX_TRIES /\ failures = tries /\ MAX_TRIES \in Nat \ {0}
    BY <1>1, Dialogues DEF TypeOK, CountInv, BoxAssumption
  <1>3. /\ coming' = SubSeq(coming, 1 + 1, Len(coming)) /\ 1 \in 0 .. Len(coming)
        /\ Head(coming) = coming[1] /\ coming[1] \in Command /\ Len(coming) >= 1
    BY <1>1, FirstGone
  <1>4. /\ coming' \in Seq(Command) /\ Len(coming') = Len(coming) - 1 /\ Len(coming') \in Nat
        /\ \A k \in 1 .. Len(coming') : coming'[k] = coming[1 + k]
    BY <1>1, <1>3, Rest
  <1>5. \/ /\ i' = i + 1 /\ tries' = 0 /\ failures' = 0 /\ pc' = "send" /\ result' = result
           /\ talk' = talk /\ i < Len(Dialogue[talk])
        \/ /\ pc' = "idle" /\ UNCHANGED <<talk, i, tries, failures>>
           /\ result' = IF tries = MAX_TRIES THEN Failure ELSE 0
           /\ tries = MAX_TRIES \/ i = Len(Dialogue[talk])
    BY <1>1, <1>2 DEF Succeeded, NextCommand, Return
  <1>6. Flags'
    BY FlagsStep DEF TypeOK, Next, Dialog
  <1>7. TypeOK'
    BY <1>1, <1>2, <1>3, <1>4, <1>5, <1>6 DEF TypeOK
  <1>8. CountInv' /\ ResultTrue'
    BY <1>1, <1>2, <1>5 DEF CountInv, ResultTrue, Failure
  <1>9. AnswersFit'
    <2>1. talk' = talk /\ AnsLen[Head(coming)] = AnsLen[Dialogue[talk][i]]
      BY <1>1, <1>5 DEF Fits, Current
    <2>2. ~carried => \E m \in 1 .. i : Head(coming) = Dialogue[talk][m]
      BY <1>1, <1>3 DEF LineInv, Own, TypeOK
    <2> QED
      BY <1>1, <2>1, <2>2 DEF AnswersFit
  <1>10. OwnUnlessLate'
    <2>1. ~carried /\ ~late => Head(coming) = Current
      BY <1>1 DEF LineInv
    <2>2. talk' = talk
      BY <1>5
    <2> QED
      BY <1>1, <2>1, <2>2 DEF OwnUnlessLate, Current
  <1>11. LineInv'
    <2>1. Own \subseteq Own'
      BY <1>2, <1>5 DEF Own
    <2>2. ASSUME ~carried, NEW k \in 1 .. Len(coming') PROVE coming'[k] \in Own'
      <3>1. 1 + k \in 1 .. Len(coming)
        BY <1>1, <1>4
      <3> QED
        BY <1>4, <2>1, <2>2, <3>1 DEF LineInv
    <2>3. ASSUME ~carried, ~late PROVE coming' = <<>>
      <3>1. Len(coming) = 1
        BY <1>1, <2>3 DEF LineInv
      <3> QED
        BY <1>4, <3>1, EmptySeq
    <2> QED
      BY <1>1, <2>2, <2>3 DEF LineInv
  <1> QED
    BY <1>7, <1>8, <1>9, <1>10, <1>11

LEMMA BNext == BoxAssumption /\ BInv /\ [Next]_vars => BInv'
  <1> SUFFICES ASSUME BoxAssumption, BInv, [Next]_vars PROVE BInv'
    OBVIOUS
  <1>1. CASE UNCHANGED vars
    <2>1. Flags'
      BY FlagsStep DEF BInv, TypeOK
    <2>2. Own' = Own /\ Current' = Current
      BY <1>1 DEF vars, Own, Current
    <2> QED
      BY <1>1, <2>1, <2>2 DEF vars, BInv, TypeOK, CountInv, LineInv, AnswersFit,
                              OwnUnlessLate, ResultTrue
  <1>2. ASSUME NEW d \in Talk, Call(d) PROVE BInv'
    BY <1>2, CallStep
  <1>3. CASE Dialog
    BY <1>3, SendStep, AcceptStep, FailedStep DEF Dialog
  <1>4. CASE Lose
    BY <1>4, LoseStep
  <1> QED
    BY <1>1, <1>2, <1>3, <1>4 DEF Next

LEMMA BAlways == Spec => []BInv
  <1>1. Init => BInv
    BY BoxAssumption, BInit
  <1>2. BInv /\ [Next]_vars => BInv'
    BY BoxAssumption, BNext
  <1> QED
    BY <1>1, <1>2, PTL DEF Spec

----------------------------------------------------------------------------
\* Type correctness.
THEOREM BoxTypeCorrect == Spec => []TypeOK
  <1>1. BInv => TypeOK
    BY DEF BInv
  <1> QED
    BY <1>1, BAlways, PTL

\* However many answers are late, a field is filled with an answer of its layout, to this
\* command or to an earlier one of the dialogue.
THEOREM FieldsKeepLayout == Spec => []AnswersFit
  <1>1. BInv => AnswersFit
    BY DEF BInv
  <1> QED
    BY <1>1, BAlways, PTL

\* While no answer comes after its time-out, every field is its own.
THEOREM FieldsAreOwn == Spec => []OwnUnlessLate
  <1>1. BInv => OwnUnlessLate
    BY DEF BInv
  <1> QED
    BY <1>1, BAlways, PTL

\* Success means that every field was filled, for any number of tries.
THEOREM ResultsAreTrue == Spec => []ResultTrue
  <1>1. BInv => ResultTrue
    BY DEF BInv
  <1> QED
    BY <1>1, BAlways, PTL

=============================================================================

------------------------------- MODULE BoxProtocol -------------------------------
(***************************************************************************)
(* The serial dialogues with the battery box,                               *)
(* src/CommunicationModule/sampling_task.cpp: get_data_from_box,            *)
(* get_paygState_from_box and get_opid_from_box send their commands one     *)
(* after the other, and each again when its answer does not come in time.   *)
(*                                                                          *)
(* send_command checks the length, the header and the checksum of what it   *)
(* reads, but not which command it answers: an answer that comes after its  *)
(* time-out, behind the flush of the next send_command, is taken for that   *)
(* of the next command if it has the same length.  The box answers in       *)
(* order, late or not at all; a garbled answer counts as lost.  That        *)
(* answers cut at the wrong place have a valid checksum is left out.        *)
(***************************************************************************)
EXTENDS Naturals, Sequences

CONSTANTS
    MAX_TRIES,      \* 5
    MAX_BEHIND      \* bound: answers that may still come when a command is sent

ASSUME BoxAssumption == MAX_TRIES \in Nat \ {0} /\ MAX_BEHIND \in Nat

\* msg_commands, paygState_commands, cmd_OPID.
Dialogue == [
    data |-> <<"RSOC", "RC", "FCC", "CV1", "CV2", "CV3", "CV4", "BV", "BT", "BC">>,
    paygState |-> <<"HTOP", "RPD", "ACC", "PS", "OCS", "SSC">>,
    opid |-> <<"OPID">>]

Talk == {"data", "paygState", "opid"}
Command == {"RSOC", "RC", "FCC", "CV1", "CV2", "CV3", "CV4", "BV", "BT", "BC",
            "HTOP", "RPD", "ACC", "PS", "OCS", "SSC", "OPID"}

\* The answers' lengths, anslen.
Cells == {"CV1", "CV2", "CV3", "CV4", "BV", "BT", "BC"}
AnsLen == [c \in Command |->
    IF c = "OPID" THEN 21 ELSE IF c = "HTOP" THEN 14 ELSE IF c \in Cells THEN 10 ELSE 8]

VARIABLES
    pc,         \* "idle", "send" (the next send_command), "read" (waiting for its answer)
    talk, i,    \* the dialogue, and the number of its command
    tries,
    coming,     \* the line: the commands whose answers may still come, in order
    result,     \* of the last dialogue: 0 or Failure
    got,        \* history: the command whose answer was copied last, into field
    filled,     \* history: number filled of the buffer
    failures,   \* history: how often command i has failed
    carried,    \* history: answers to other dialogues could still come at its start
    late        \* history: an answer could still come when a command timed out

vars == <<pc, talk, i, tries, coming, result, got, filled, failures, carried, late>>

Failure == 255

Current == Dialogue[talk][i]

\* As after a dialogue that went well.
Init ==
    /\ pc = "idle"
    /\ talk = "opid" /\ i = 1 /\ tries = 0
    /\ coming = <<>>
    /\ result = 0
    /\ got = "OPID" /\ filled = 1 /\ failures = 0
    /\ carried = FALSE /\ late = FALSE

\* sampling_task asks for the data, reporting_task for the identity and then the state.
Call(d) ==
    /\ pc = "idle"
    /\ pc' = "send"
    /\ talk' = d /\ i' = 1 /\ tries' = 0
    /\ filled' = 0 /\ failures' = 0
    /\ carried' = (coming # <<>>) /\ late' = FALSE
    /\ UNCHANGED <<coming, result, got>>

\* Mutation of SendCommand: the command is written twice.
SendTwice ==
    /\ pc = "send"
    /\ \E n \in 0 .. Len(coming) :
         /\ Len(coming) - n < MAX_BEHIND
         /\ coming' = SubSeq(coming, n + 1, Len(coming)) \o <<Current, Current>>
    /\ pc' = "read"
    /\ UNCHANGED <<talk, i, tries, result, got, filled, failures, carried, late>>

\* send_command up to readBytes: the first n answers have come and are flushed.
SendCommand ==
    /\ pc = "send"
    /\ \E n \in 0 .. Len(coming) :
         /\ Len(coming) - n <= MAX_BEHIND
         /\ coming' = Append(SubSeq(coming, n + 1, Len(coming)), Current)
    /\ pc' = "read"
    /\ UNCHANGED <<talk, i, tries, result, got, filled, failures, carried, late>>

Return(r) ==
    /\ pc' = "idle"
    /\ result' = r
    /\ UNCHANGED <<talk, i, tries>>

\* Mutation of Failed: the try is not counted.
FailedUncounted ==
    /\ pc' = "send"
    /\ UNCHANGED <<talk, i, tries, result, failures>>

\* send_command has failed.
Failed ==
    IF tries < MAX_TRIES
    THEN /\ tries' = tries + 1
         /\ failures' = failures + 1
         /\ pc' = "send"
         /\ UNCHANGED <<talk, i, result>>
    ELSE /\ failures' = failures + 1
         /\ Return(Failure)

\* Mutation of NextCommand: the tries of all commands are counted together.
NextCommandCounted ==
    /\ i' = i + 1
    /\ failures' = 0
    /\ pc' = "send"
    /\ UNCHANGED <<talk, tries, result>>

NextCommand ==
    /\ i' = i + 1
    /\ tries' = 0 /\ failures' = 0
    /\ pc' = "send"
    /\ UNCHANGED <<talk, result>>

\* What follows a success. After the last try it comes too late: the dialogue is given
\* up although the field is filled.
Succeeded ==
    IF tries < MAX_TRIES /\ i < Len(Dialogue[talk])
    THEN NextCommand
    ELSE Return(IF tries = MAX_TRIES THEN Failure ELSE 0) /\ UNCHANGED failures

\* Mutation of Fits: the length of the answer is not checked.
FitsAny(c) == TRUE

\* The checks of send_command.
Fits(c) == AnsLen[c] = AnsLen[Current]

\* An answer that fits is copied.
Accept ==
    /\ pc = "read"
    /\ coming # <<>>
    /\ Fits(Head(coming))
    /\ coming' = Tail(coming)
    /\ got' = Head(coming)
    /\ filled' = i
    /\ Succeeded
    /\ UNCHANGED <<carried, late>>

\* One that does not is read up to the length that is expected, with the beginning of
\* others if it is shorter; the rest of the last one is flushed before the next command.
Reject ==
    /\ pc = "read"
    /\ coming # <<>>
    /\ ~Fits(Head(coming))
    /\ \E n \in 1 .. Len(coming) :
         /\ n > 1 => AnsLen[Head(coming)] < AnsLen[Current]
         /\ coming' = SubSeq(coming, n + 1, Len(coming))
    /\ Failed
    /\ UNCHANGED <<got, filled, carried, late>>

\* A second passes without an answer.
Timeout ==
    /\ pc = "read"
    /\ late' = (late \/ coming # <<>>)
    /\ Failed
    /\ UNCHANGED <<coming, got, filled, carried>>

\* The box does not answer, the answer is garbled, or it comes while the port is closed.
Lose ==
    /\ coming # <<>>
    /\ coming' = Tail(coming)
    /\ UNCHANGED <<pc, talk, i, tries, result, got, filled, failures, carried, late>>

Dialog == SendCommand \/ Accept \/ Reject \/ Timeout

Next == (\E d \in Talk : Call(d)) \/ Dialog \/ Lose

\* send_command waits at most a second.
Spec == Init /\ [][Next]_vars /\ WF_vars(Dialog)

----------------------------------------------------------------------------
\* The flags.
Flags == carried \in BOOLEAN /\ late \in BOOLEAN

\* Type correctness.
TypeOK ==
    /\ Flags
    /\ pc \in {"idle", "send", "read"}
    /\ talk \in Talk /\ i \in 1 .. Len(Dialogue[talk])
    /\ tries \in 0 .. MAX_TRIES /\ failures \in 0 .. MAX_TRIES + 1
    /\ coming \in Seq(Command) /\ Len(coming) <= MAX_BEHIND + 1
    /\ result \in {0, Failure}
    /\ got \in Command /\ filled \in 0 .. Len(Dialogue[talk])

\* What fills a field has the field's layout (l.141, 161), and it is the answer to this
\* command or to one sent before it in the dialogue, unless answers to another were still
\* to come: however many answers are late, the first field of each length holds its own.
AnswersFit ==
    filled > 0 =>
      /\ AnsLen[got] = AnsLen[Dialogue[talk][filled]]
      /\ carried \/ \E m \in 1 .. filled : got = Dialogue[talk][m]

\* A field holds the answer to another command (l.137-161) only after an answer has come
\* later than its time-out.
OwnUnlessLate ==
    filled > 0 /\ ~carried /\ ~late => got = Dialogue[talk][filled]

\* The result of a dialogue (l.185-203): 0 if every field was filled; and if it was given
\* up, then at a command that failed at all its tries. One more that succeeds is ignored.
ResultTrue ==
    pc = "idle" =>
      /\ result = 0 => filled = Len(Dialogue[talk])
      /\ result = Failure =>
           \/ failures = MAX_TRIES + 1 /\ filled = i - 1
           \/ failures = MAX_TRIES /\ filled = i

\* Every dialogue ends (l.185), whatever the box does.
DialoguesReturn == (pc # "idle") ~> (pc = "idle")

=============================================================================

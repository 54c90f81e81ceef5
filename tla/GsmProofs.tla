------------------------------- MODULE GsmProofs -------------------------------
(***************************************************************************)
(* Proofs about GsmModem, for every number of tries and any number of      *)
(* failures of the module: whatever was late, power_off does not take an   *)
(* old NORMAL POWER DOWN for the answer to its own command, and every loop *)
(* of the library stays within its bound.  What the other calls return is  *)
(* true of a module that may refuse commands, miss the network and hang as *)
(* often as it likes, but whose answers are not late; with enough of them  *)
(* late it is not (TLC finds how: see the README).  One failure of any     *)
(* kind, a late answer among them, leaves a started report its connection. *)
(***************************************************************************)
EXTENDS GsmModem, SequenceTheorems, WellFoundedInduction, TLAPS

USE GsmAssumption

PowerDown == "NORMAL POWER DOWN"

\* A report of a power down is unread.
PowerDownUnread == \E k \in DOMAIN rx : rx[k] = PowerDown

\* The strengthening: a report of a power down is only unread while the module is off,
\* or just after the power key, before the line is flushed.
OffInv ==
    /\ rx \in Seq(Reply)
    /\ on \in BOOLEAN
    /\ tries \in Nat
    /\ (PowerDownUnread /\ on) => (pc = "try" /\ tries = 0)
    /\ AbortOkMeansOff

----------------------------------------------------------------------------
(* get_reply finds the first of the answers there are (l.76-92). *)
LEMMA FirstAnswerIsAnswer ==
  ASSUME rx \in Seq(Reply), Answers # {}
  PROVE  FirstAnswer \in Answers /\ FirstAnswer \in 1 .. Len(rx)
<1>1. Answers \subseteq 1 .. Len(rx) /\ Answers \subseteq Nat
  BY DEF Answers
<1>2. PICK x \in Answers : \A y \in Answers : ~(<<y, x>> \in OpToRel(<, Nat))
  BY <1>1, NatLessThanWellFounded, WFMin
<1>3. \A q \in Answers : x <= q
  <2> SUFFICES ASSUME NEW q \in Answers, q < x PROVE FALSE
    BY <1>1
  <2>1. <<q, x>> \in OpToRel(<, Nat)
    BY <1>1 DEF OpToRel
  <2> QED
    BY <1>2, <2>1
<1> QED
  BY <1>1, <1>3 DEF FirstAnswer

(* What stays unread was unread before (l.87-91). *)
LEMMA UnreadIsUnread ==
  ASSUME rx \in Seq(Reply), Answers # {}
  PROVE  /\ Unread \in Seq(Reply)
         /\ \A k \in DOMAIN Unread : \E j \in DOMAIN rx : Unread[k] = rx[j]
<1> DEFINE f == FirstAnswer
<1>1. f \in 1 .. Len(rx) /\ Len(rx) \in Nat
  BY FirstAnswerIsAnswer
<1>2. /\ DOMAIN Unread = 1 .. Len(rx) - f
      /\ \A k \in 1 .. Len(rx) - f : Unread[k] = rx[f + k]
      /\ Unread \in Seq(Reply)
  BY <1>1 DEF Unread
<1>3. \A k \in 1 .. Len(rx) - f : f + k \in DOMAIN rx
  BY <1>1
<1> QED
  BY <1>2, <1>3

(* What power_off waits for. *)
LEMMA AwaitedByPowerOff == Awaited["powd"] = {PowerDown}
BY DEF Awaited, Step, Command, PowerDown

(* What comm_send_report waits for. *)
LEMMA AwaitedAsResult == Awaited["result"] = {"+HTTPACTION: 200", "+HTTPACTION: other"}
BY DEF Awaited, Step, Command

(* The module appends replies of other kinds. *)
LEMMA AppendedReply ==
  ASSUME rx \in Seq(Reply), NEW reply \in Seq(Reply),
         \A k \in DOMAIN reply : reply[k] # PowerDown,
         rx' = rx \o reply
  PROVE  rx' \in Seq(Reply) /\ (PowerDownUnread' => PowerDownUnread)
<1>1. /\ rx' \in Seq(Reply)
      /\ DOMAIN rx' = 1 .. Len(rx) + Len(reply)
      /\ Len(rx) \in Nat /\ Len(reply) \in Nat
      /\ \A k \in 1 .. Len(rx) + Len(reply) :
            rx'[k] = IF k <= Len(rx) THEN rx[k] ELSE reply[k - Len(rx)]
  OBVIOUS
<1>2. ASSUME NEW k \in DOMAIN rx', rx'[k] = PowerDown PROVE PowerDownUnread
  <2>1. CASE k <= Len(rx)
    BY <1>1, <1>2, <2>1 DEF PowerDownUnread
  <2>2. CASE k > Len(rx)
    <3>1. k - Len(rx) \in DOMAIN reply /\ rx'[k] = reply[k - Len(rx)]
      BY <1>1, <2>2
    <3> QED
      BY <3>1, <1>2
  <2> QED
    BY <1>1, <2>1, <2>2
<1> QED
  BY <1>1, <1>2 DEF PowerDownUnread

----------------------------------------------------------------------------
(* Before comm_setup nothing is unread and nothing was shut down. *)
LEMMA OffInit == Init => OffInv
BY DEF Init, OffInv, PowerDownUnread, AbortOkMeansOff

(* A step that reads on, or not at all, and leaves the module's power alone. *)
LEMMA ReadingOn ==
  ASSUME OffInv, on' = on, tries' \in Nat, pc # "try",
         pc' = "idle" /\ shut' => ~on,
         \/ rx' = <<>>
         \/ rx' = rx
         \/ Answers # {} /\ rx' = Unread
  PROVE  OffInv'
<1>1. rx' \in Seq(Reply) /\ rx \in Seq(Reply)
  <2>1. rx \in Seq(Reply)
    BY DEF OffInv
  <2>2. Answers # {} => Unread \in Seq(Reply)
    BY <2>1, UnreadIsUnread
  <2>3. <<>> \in Seq(Reply)
    OBVIOUS
  <2> QED
    BY <2>1, <2>2, <2>3, Zenon
<1>2. PowerDownUnread' => PowerDownUnread
  <2>1. CASE rx' = <<>>
    BY <2>1 DEF PowerDownUnread
  <2>2. CASE rx' = rx
    BY <2>2 DEF PowerDownUnread
  <2>3. CASE Answers # {} /\ rx' = Unread
    BY <2>3, UnreadIsUnread DEF PowerDownUnread, OffInv
  <2> QED
    BY <2>1, <2>2, <2>3
<1> QED
  BY <1>1, <1>2 DEF OffInv, AbortOkMeansOff

(* A step after which nothing is unread, and that does not return from power_off. *)
LEMMA Flushing ==
  ASSUME OffInv, rx' = <<>>, on' \in BOOLEAN, tries' \in Nat, pc' # "idle"
  PROVE  OffInv'
BY DEF OffInv, PowerDownUnread, AbortOkMeansOff

(* The library keeps the invariant: power_off returns COMM_OK for a report of a power
   down that came while it waited, or for an older one, but then the module is off. *)
LEMMA HostStep == OffInv /\ Host => OffInv'
<1> SUFFICES ASSUME OffInv, Host PROVE OffInv'
  OBVIOUS
<1> USE DEF host, module, kept, OffInv
<1>1. CASE Setup
  BY <1>1, Flushing DEF Setup, Go
<1>2. CASE StartReport
  BY <1>2, ReadingOn DEF StartReport
<1>3. CASE PressKey
  <2>1. pc = "press" /\ pc' = "try" /\ tries' = 0 /\ rx' = rx
    BY <1>3 DEF PressKey
  <2>2. on' \in BOOLEAN
    BY <1>3 DEF PressKey, Fresh
  <2> QED
    BY <2>1, <2>2 DEF AbortOkMeansOff
<1>4. CASE AtTry
  BY <1>4, Flushing DEF AtTry, Go
<1>5. CASE \E step \in Step, next \in Step, unread \in {<<>>, Unread} :
              GoOn(step, next, unread)
  <2>1. PICK step \in Step, next \in Step, unread \in {<<>>, Unread} :
           GoOn(step, next, unread)
    BY <1>5
  <2>2. pc = step /\ pc' = next /\ Answers # {} /\ rx' = unread
    BY <2>1 DEF GoOn, Go, Answered
  <2>3. step # "try" /\ next # "idle"
    BY DEF Step, Command
  <2> QED
    BY <2>1, <2>2, <2>3, ReadingOn DEF GoOn
<1>6. CASE \E step \in Step, next \in Step : GoOnLate(step, next)
  <2>1. PICK step \in Step, next \in Step : GoOnLate(step, next)
    BY <1>6
  <2>2. next # "idle"
    BY DEF Step, Command
  <2> QED
    BY <2>1, <2>2, Flushing DEF GoOnLate, Go
<1>7. CASE AtTimeout \/ AttachTimeout
  BY <1>7, Flushing DEF AtTimeout, AttachTimeout, NextTry
<1>8. CASE EchoDone
  BY <1>8, ReadingOn DEF EchoDone, Answered, TimedOut, Starting
<1>9. CASE PowerOnFails
  BY <1>9 DEF PowerOnFails, Starting, PowerDownUnread, AbortOkMeansOff
<1>10. CASE Poll
  BY <1>10, Flushing DEF Poll, Go
<1>11. CASE PollsOver
  BY <1>11, ReadingOn DEF PollsOver, Go
<1>12. CASE DataOk
  BY <1>12, ReadingOn DEF DataOk, Return, Answered
<1>13. CASE StartFails \/ ActionTimeout
  BY <1>13, Flushing DEF StartFails, ActionTimeout, Return
<1>14. CASE FillReport
  BY <1>14, ReadingOn DEF FillReport
<1>15. CASE SendReport
  BY <1>15, Flushing DEF SendReport, Go
<1>16. CASE ActionOk
  BY <1>16, ReadingOn DEF ActionOk, Answered
<1>17. CASE ResultOk \/ ResultTimeout
  BY <1>17, Flushing DEF ResultOk, ResultTimeout, Go
<1>18. CASE Abort
  BY <1>18, ReadingOn DEF Abort, Go
<1>19. CASE CheckTimeout
  BY <1>19, Flushing DEF CheckTimeout, Fresh
<1>20. CASE PowdOk
  <2>1. pc = "powd" /\ Answers # {}
    BY <1>20 DEF PowdOk, Answered
  <2>2. PowerDownUnread
    BY <2>1, AwaitedByPowerOff DEF Answers, PowerDownUnread
  <2>3. ~on
    BY <2>1, <2>2
  <2> QED
    BY <1>20, <2>1, <2>3, ReadingOn DEF PowdOk, PowerOff
<1>21. CASE PowdTimeout
  BY <1>21, ReadingOn DEF PowdTimeout, PowerOff, TimedOut
<1>22. AtOk \/ StepOk \/ ReadDone \/ TermDone \/ CheckOk \/ QueryTimeout =>
          \/ \E step \in Step, next \in Step, unread \in {<<>>, Unread} :
                GoOn(step, next, unread)
          \/ \E step \in Step, next \in Step : GoOnLate(step, next)
  BY DEF AtOk, StepOk, ReadDone, TermDone, CheckOk, QueryTimeout, Step, Command
<1> QED
  BY <1>1, <1>2, <1>3, <1>4, <1>5, <1>6, <1>7, <1>8, <1>9, <1>10, <1>11, <1>12, <1>13,
     <1>14, <1>15, <1>16, <1>17, <1>18, <1>19, <1>20, <1>21, <1>22 DEF Host

\* What the module replies to any command but CPOWD.
OtherReplies == {reply \in Seq(Reply) : \A k \in DOMAIN reply : reply[k] # PowerDown}

LEMMA NotPowerDown ==
  ASSUME NEW a \in Reply \ {PowerDown}, NEW b \in Reply \ {PowerDown}
  PROVE  <<>> \in OtherReplies /\ <<a>> \in OtherReplies /\ <<a, b>> \in OtherReplies
<1>1. <<>> \in OtherReplies
  BY DEF OtherReplies
<1>2. <<a>> \in OtherReplies
  BY DEF OtherReplies
<1>3. <<a, b>> \in Seq(Reply) /\ DOMAIN <<a, b>> = 1 .. 2
  OBVIOUS
<1>4. <<a, b>>[1] = a /\ <<a, b>>[2] = b /\ a # PowerDown /\ b # PowerDown
  OBVIOUS
<1>5. <<a, b>> \in OtherReplies
  BY <1>3, <1>4 DEF OtherReplies
<1> QED
  BY <1>1, <1>2, <1>5

LEMMA TextsAreReplies ==
  {"OK", "+CGATT: 1", "+SAPBR: 1,1", "DOWNLOAD", "+HTTPACTION: 200", "+HTTPACTION: other",
   "+HTTPREAD"} = Reply \ {PowerDown}
BY DEF Reply, PowerDown

LEMMA Texts ==
  /\ <<>> \in OtherReplies
  /\ <<"OK">> \in OtherReplies
  /\ <<"DOWNLOAD">> \in OtherReplies
  /\ <<"+HTTPREAD", "OK">> \in OtherReplies
  /\ <<"+CGATT: 1", "OK">> \in OtherReplies
  /\ <<"+SAPBR: 1,1", "OK">> \in OtherReplies
  /\ <<"+HTTPACTION: 200">> \in OtherReplies
  /\ <<"+HTTPACTION: other">> \in OtherReplies
BY NotPowerDown, TextsAreReplies, Zenon

(* What the module says is no power down, except when it goes off. *)
LEMMA Replying ==
  ASSUME OffInv, NEW reply \in OtherReplies,
         rx' = rx \o reply,
         UNCHANGED <<pc, tries, shut, on>>
  PROVE  OffInv'
<1>1. rx' \in Seq(Reply) /\ (PowerDownUnread' => PowerDownUnread)
  BY AppendedReply DEF OffInv, OtherReplies
<1> QED
  BY <1>1 DEF OffInv, AbortOkMeansOff

(* The module keeps the invariant, and so do the end of a data session and a hang. *)
LEMMA ModuleStep == OffInv /\ (Module \/ DataTimeout \/ Hang) => OffInv'
<1> SUFFICES ASSUME OffInv, Module \/ DataTimeout \/ Hang PROVE OffInv'
  OBVIOUS
<1>1. ASSUME NEW reply \in OtherReplies, Take(reply) PROVE OffInv'
  BY <1>1, Replying DEF Take, host
<1>2. CASE TakeAt("AT") \/ TakeAt("ATE0")
  BY <1>1, <1>2, Texts DEF TakeAt
<1>3. CASE TakeAttach
  BY <1>1, <1>3, Texts DEF TakeAttach
<1>4. CASE TakeConf
  BY <1>1, <1>4, Texts DEF TakeConf
<1>5. CASE TakeQuery
  BY <1>1, <1>5, Texts DEF TakeQuery
<1>6. CASE TakeOpen
  BY <1>1, <1>6, Texts DEF TakeOpen
<1>7. CASE TakeHttp
  <2>1. PICK command \in DOMAIN Service : Take(Service[command].reply)
    BY <1>7 DEF TakeHttp
  <2>2. Service[command].reply \in {<<"OK">>, <<"DOWNLOAD">>, <<"+HTTPREAD", "OK">>}
    BY DEF Service
  <2> QED
    BY <1>1, <2>1, <2>2, Texts, Zenon
<1>8. CASE TakeReport \/ Swallow \/ Refuse
  BY <1>1, <1>8, Texts DEF TakeReport, Swallow, Refuse
<1>9. CASE TakePowerDown
  <2>1. on' = FALSE /\ UNCHANGED <<pc, tries, shut>> /\ rx' = Append(rx, PowerDown)
    BY <1>9 DEF TakePowerDown, Fresh, host, PowerDown
  <2>2. PowerDown \in Reply /\ rx \in Seq(Reply)
    BY DEF OffInv, Reply, PowerDown
  <2>3. rx' \in Seq(Reply)
    BY <2>1, <2>2
  <2> QED
    BY <2>1, <2>3 DEF OffInv, AbortOkMeansOff
<1>10. CASE \E received \in BOOLEAN, reply \in Awaited["result"] : Posted(received, reply)
  <2>1. PICK reply \in Awaited["result"] : rx' = Append(rx, reply)
    BY <1>10 DEF Posted
  <2>2. reply \in {"+HTTPACTION: 200", "+HTTPACTION: other"}
    BY AwaitedAsResult
  <2>3. rx' = rx \o <<reply>> 
    BY <2>1 DEF OffInv
  <2>4. <<reply>> \in OtherReplies
    BY <2>2, Texts
  <2> QED
    BY <1>10, <2>3, <2>4, Replying DEF Posted, host
<1>11. CASE DataTimeout
  <2>1. rx' = rx \o <<"OK">>
    BY <1>11 DEF DataTimeout, OffInv
  <2> QED
    BY <1>11, <2>1, Texts, Replying DEF DataTimeout, host
<1>12. CASE Hang
  BY <1>12 DEF Hang, host, OffInv, PowerDownUnread, AbortOkMeansOff
<1> QED
  BY <1>2, <1>3, <1>4, <1>5, <1>6, <1>7, <1>8, <1>9, <1>10, <1>11, <1>12 DEF Module

(* OffInv is inductive. *)
LEMMA OffStep == OffInv /\ [Next]_vars => OffInv'
<1>1. OffInv /\ UNCHANGED vars => OffInv'
  BY DEF vars, host, module, OffInv, PowerDownUnread, AbortOkMeansOff
<1> QED
  BY <1>1, HostStep, ModuleStep DEF Next

(* Whatever is late, refused or lost, and however often: when power_off, and with it
   comm_abort, returns COMM_OK the module is off and stays off until the next report
   (gsm_communication.cpp:162-171, 350-361). *)
THEOREM ShutDownIsOff == Spec => []AbortOkMeansOff
<1>1. OffInv => AbortOkMeansOff
  BY DEF OffInv
<1> QED
  BY <1>1, OffInit, OffStep, PTL DEF Spec

----------------------------------------------------------------------------
\* Type correctness.

Commands == {Command[s] : s \in DOMAIN Command} \cup {"report"}

\* The loops count their rounds: what bounds tries.
Rounds ==
    /\ tries \in 0 .. MAX_AT_TRIES + MAX_POLLS
    /\ pc = "try" => tries <= MAX_AT_TRIES
    /\ pc = "at" => tries < MAX_AT_TRIES
    /\ pc = "poll" => tries <= MAX_POLLS
    /\ pc = "attach" => tries < MAX_POLLS

Flags ==
    /\ module_is_on \in BOOLEAN /\ shut \in BOOLEAN
    /\ on \in BOOLEAN /\ hung \in BOOLEAN /\ bearer \in BOOLEAN
    /\ delivered \in BOOLEAN

Control ==
    /\ pc \in Between \cup Step \cup {"press", "try", "poll"}
    /\ calls \in 0 .. START_COMM_MAX_RETRIES
    /\ code \in {COMM_OK, COMM_ERR_RETRY, COMM_ERR_RETRY_LATER, "starting", "sending"}
    /\ http \in Http
    /\ loaded \in {"nothing", "report", "other"}
    /\ faults \in 0 .. MAX_FAULTS

Lines == tx \in Seq(Commands) /\ rx \in Seq(Reply)

TypeInv == Rounds /\ Flags /\ Control /\ Lines

LEMMA TypeInvInit == Init => TypeInv
<1>. SUFFICES ASSUME Init PROVE TypeInv
  OBVIOUS
<1>1. Rounds
  <2>1. tries = 0 /\ pc = "setup"
    BY DEF Init
  <2>. QED  BY <2>1 DEF Rounds
<1>2. Control
  <2>1. pc = "setup" /\ calls = 0 /\ faults = 0 /\ code = COMM_ERR_RETRY
        /\ http = "none" /\ loaded = "nothing"
    BY DEF Init
  <2>2. 0 \in 0 .. START_COMM_MAX_RETRIES /\ 0 \in 0 .. MAX_FAULTS
    OBVIOUS
  <2>3. "setup" \in Between /\ "none" \in Http
    BY DEF Between, Http
  <2>. QED  BY <2>1, <2>2, <2>3, Zenon DEF Control
<1>3. Flags
  BY Zenon DEF Init, Flags
<1>4. Lines
  BY DEF Init, Lines
<1>. QED  BY <1>1, <1>2, <1>3, <1>4 DEF TypeInv

\* The texts of the steps' commands.
LEMMA CommandOfStep ==
    /\ \A s \in DOMAIN Command : Command[s] \in Commands
    /\ {"CPOWD", "report"} \subseteq Commands
    /\ {"at", "echo", "attach", "conf", "query", "open", "init", "para", "data", "action",
        "read", "term", "powd", "check"} = DOMAIN Command
    /\ DOMAIN Command \subseteq Step /\ "result" \in Step
<1>1. DOMAIN Command = {"at", "echo", "attach", "conf", "query", "open", "init", "para", "data",
                        "action", "read", "term", "powd", "check"}
  BY DEF Command
<1>2. \A s \in DOMAIN Command : Command[s] \in Commands
  BY DEF Commands
<1>3. Command["powd"] = "CPOWD"
  BY DEF Command
<1>4. "CPOWD" \in Commands
  BY <1>1, <1>2, <1>3
<1>5. "report" \in Commands
  BY DEF Commands
<1>. QED  BY <1>1, <1>2, <1>4, <1>5 DEF Step

\* A command may be appended to those the module has yet to take.
LEMMA SentCommand ==
    ASSUME Lines, NEW command \in Commands
    PROVE  Sent(command) \in Seq(Commands)
  BY DEF Lines, Sent

\* What a call or a step of the library leaves on the line.
HostLines ==
    /\ rx' = <<>> \/ rx' = rx \/ (Answers # {} /\ rx' = Unread)
    /\ tx' = <<>> \/ tx' = tx \/ \E command \in Commands : tx' = Sent(command)

LEMMA LinesAfter ==
    ASSUME Lines, HostLines
    PROVE  Lines'
<1>1. rx' \in Seq(Reply)
  <2>1. <<>> \in Seq(Reply) /\ rx \in Seq(Reply)
    BY DEF Lines
  <2>2. Answers # {} => Unread \in Seq(Reply)
    BY UnreadIsUnread DEF Lines
  <2>. QED  BY <2>1, <2>2, Zenon DEF HostLines
<1>2. tx' \in Seq(Commands)
  <2>1. <<>> \in Seq(Commands) /\ tx \in Seq(Commands)
    BY DEF Lines
  <2>. QED  BY <2>1, SentCommand, Zenon DEF HostLines
<1>. QED  BY <1>1, <1>2 DEF Lines

LEMMA GoLines ==
    ASSUME NEW step \in DOMAIN Command, NEW unread, Go(step, unread),
           unread = <<>> \/ unread = rx \/ (Answers # {} /\ unread = Unread)
    PROVE  HostLines /\ pc' = step
<1>1. \E command \in Commands : tx' = Sent(command)
  <2>1. Command[step] \in Commands
    BY CommandOfStep
  <2>. QED  BY <2>1 DEF Go
<1>. QED  BY <1>1 DEF Go, HostLines

(* A failure of the module is counted, up to MAX_FAULTS. *)
LEMMA FaultsCounted ==
    ASSUME faults \in 0 .. MAX_FAULTS, Fault \/ UNCHANGED faults
    PROVE  faults' \in 0 .. MAX_FAULTS
  BY DEF Fault

\* Where a step can go on to without a loop of its own.
Straight == DOMAIN Command \ {"at", "attach"}

\* A step to a place outside the loops, at which what most steps leave alone stays.
LEMMA StraightOn ==
    ASSUME TypeInv, UNCHANGED <<kept, tries>>,
           pc' \in Straight \cup Between \cup {"result", "press"},
           code' \in {code, COMM_OK, COMM_ERR_RETRY, COMM_ERR_RETRY_LATER, "sending"},
           Fault \/ UNCHANGED faults,
           HostLines
    PROVE  TypeInv'
<1>1. Rounds'
  <2>1. pc' \notin {"try", "at", "poll", "attach"}
    BY CommandOfStep, Zenon DEF Straight, Between
  <2>. QED  BY <2>1 DEF TypeInv, Rounds
<1>2. Control'
  <2>1. pc' \in Between \cup Step \cup {"press", "try", "poll"}
    BY CommandOfStep, Zenon DEF Straight
  <2>2. faults' \in 0 .. MAX_FAULTS
    BY FaultsCounted DEF TypeInv, Control
  <2>. QED  BY <2>1, <2>2 DEF TypeInv, Control, kept, module
<1>3. Flags'
  BY Zenon DEF TypeInv, Flags, kept, module
<1>. QED  BY <1>1, <1>2, <1>3, LinesAfter DEF TypeInv

\* A step of the loops, which leaves all but the count of the rounds alone.
LEMMA Looping ==
    ASSUME TypeInv, UNCHANGED <<kept, code>>,
           pc' \in {"try", "at", "poll", "attach"}, Rounds',
           Fault \/ UNCHANGED faults,
           HostLines
    PROVE  TypeInv'
<1>1. Control'
  <2>1. pc' \in Between \cup Step \cup {"press", "try", "poll"}
    BY CommandOfStep, Zenon
  <2>2. faults' \in 0 .. MAX_FAULTS
    BY FaultsCounted DEF TypeInv, Control
  <2>. QED  BY <2>1, <2>2 DEF TypeInv, Control, kept, module
<1>2. Flags'
  BY Zenon DEF TypeInv, Flags, kept, module
<1>. QED  BY <1>1, <1>2, LinesAfter DEF TypeInv

LEMMA TimedOutFault ==
    ASSUME NEW step, TimedOut(step) PROVE Fault \/ UNCHANGED faults
  BY DEF TimedOut

LEMMA HostTyped == TypeInv /\ Host => TypeInv'
<1>. SUFFICES ASSUME TypeInv, Host PROVE TypeInv'
  OBVIOUS
<1>1. CASE \E step \in Step, next \in Straight, unread \in {<<>>, Unread} :
              GoOn(step, next, unread)
  <2>1. PICK step \in Step, next \in Straight, unread \in {<<>>, Unread} :
           GoOn(step, next, unread)
    BY <1>1
  <2>2. HostLines /\ pc' = next
    BY <2>1, GoLines DEF GoOn, Answered, Straight
  <2>. QED  BY <2>1, <2>2, StraightOn DEF GoOn
<1>2. CASE \E step \in Step, next \in Straight : GoOnLate(step, next)
  <2>1. PICK step \in Step, next \in Straight : GoOnLate(step, next)
    BY <1>2
  <2>2. HostLines /\ pc' = next
    BY <2>1, GoLines DEF GoOnLate, Straight
  <2>. QED  BY <2>1, <2>2, StraightOn, TimedOutFault DEF GoOnLate
<1>3. CASE AtTimeout \/ AttachTimeout
  <2>1. HostLines /\ UNCHANGED <<kept, code>> /\ (Fault \/ UNCHANGED faults)
    BY <1>3, TimedOutFault DEF AtTimeout, AttachTimeout, NextTry, HostLines
  <2>2. /\ pc' \in {"try", "poll"} /\ tries' = tries + 1
        /\ pc = IF pc' = "try" THEN "at" ELSE "attach"
    BY <1>3 DEF AtTimeout, AttachTimeout, NextTry, TimedOut
  <2>3. Rounds'
    BY <2>2 DEF TypeInv, Rounds
  <2>. QED  BY <2>1, <2>2, <2>3, Looping
<1>4. CASE AtTry \/ Poll
  <2>1. /\ HostLines /\ pc' \in {"at", "attach"}
        /\ pc' = IF pc = "try" THEN "at" ELSE "attach"
    BY <1>4, GoLines, CommandOfStep DEF AtTry, Poll
  <2>2. Rounds'
    BY <1>4, <2>1 DEF TypeInv, Rounds, AtTry, Poll
  <2>. QED  BY <1>4, <2>1, <2>2, Looping DEF AtTry, Poll
<1>5. CASE Setup \/ Abort \/ PollsOver
  <2>1. HostLines /\ pc' \in {"check", "powd"}
    BY <1>5, GoLines, CommandOfStep DEF Setup, Abort, PollsOver
  <2>2. {"check", "powd"} \subseteq Straight
    BY CommandOfStep DEF Straight
  <2>. QED  BY <1>5, <2>1, <2>2, StraightOn DEF Setup, Abort, PollsOver
<1>6. CASE DataOk \/ StartFails \/ ActionTimeout
  <2>1. /\ HostLines /\ pc' \in Between /\ UNCHANGED <<kept, tries>>
        /\ code' \in {COMM_OK, COMM_ERR_RETRY}
    BY <1>6 DEF DataOk, StartFails, ActionTimeout, Return, HostLines, Answered, Between
  <2>2. Fault \/ UNCHANGED faults
    BY <1>6, TimedOutFault DEF DataOk, StartFails, ActionTimeout
  <2>. QED  BY <2>1, <2>2, StraightOn
<1>7. CASE ActionOk
  <2>1. HostLines
    BY <1>7 DEF ActionOk, HostLines, Answered
  <2>. QED  BY <1>7, <2>1, StraightOn DEF ActionOk
<1>8. CASE ResultOk \/ ResultTimeout
  <2>1. HostLines /\ pc' \in {"read", "check"}
    BY <1>8, GoLines, CommandOfStep DEF ResultOk, ResultTimeout
  <2>2. {"read", "check"} \subseteq Straight
    BY CommandOfStep DEF Straight
  <2>3. code' \in {COMM_OK, COMM_ERR_RETRY_LATER} /\ UNCHANGED <<kept, tries>>
    BY <1>8 DEF ResultOk, ResultTimeout, ResultCode
  <2>4. Fault \/ UNCHANGED faults
    BY <1>8, TimedOutFault DEF ResultOk, ResultTimeout
  <2>. QED  BY <2>1, <2>2, <2>3, <2>4, StraightOn
<1>9. CASE StartReport
  <2>1. HostLines
    BY <1>9 DEF StartReport, HostLines
  <2>2. Rounds'
    BY <1>9 DEF StartReport, Rounds
  <2>3. Control'
    <3>1. pc' \in {"poll", "press"} /\ code' = "starting" /\ UNCHANGED <<http, faults>>
      BY <1>9 DEF StartReport
    <3>2. calls' \in 0 .. START_COMM_MAX_RETRIES
      BY <1>9 DEF StartReport, TypeInv, Control
    <3>3. loaded' \in {"nothing", "report", "other"}
      BY <1>9 DEF StartReport, TypeInv, Control
    <3>. QED  BY <3>1, <3>2, <3>3 DEF TypeInv, Control
  <2>4. Flags'
    BY <1>9, Zenon DEF StartReport, TypeInv, Flags
  <2>. QED  BY <2>1, <2>2, <2>3, <2>4, LinesAfter DEF TypeInv
<1>10. CASE PressKey
  <2>1. HostLines
    BY <1>10 DEF PressKey, HostLines, Fresh
  <2>2. Rounds'
    BY <1>10 DEF PressKey, Rounds
  <2>3. http' \in Http /\ loaded' \in {"nothing", "report", "other"}
    BY <1>10 DEF PressKey, Fresh, module, Http, TypeInv, Control
  <2>4. Control'
    BY <1>10, <2>3 DEF PressKey, TypeInv, Control
  <2>5. Flags'
    BY <1>10, Zenon DEF PressKey, Fresh, module, TypeInv, Flags
  <2>. QED  BY <2>1, <2>2, <2>4, <2>5, LinesAfter DEF TypeInv
<1>11. CASE EchoDone \/ PowerOnFails
  <2>1. HostLines
    <3>1. rx' = <<>> \/ rx' = rx \/ (Answers # {} /\ rx' = Unread)
      BY <1>11 DEF EchoDone, PowerOnFails, Answered
    <3>2. tx' = tx \/ tx' = Sent("CPOWD")
      BY <1>11 DEF EchoDone, PowerOnFails
    <3>. QED  BY <3>1, <3>2, CommandOfStep DEF HostLines
  <2>2. tries' = 0 /\ pc' \in {"poll", "powd", "startFailed"}
    BY <1>11 DEF EchoDone, PowerOnFails
  <2>3. Rounds'
    BY <2>2 DEF Rounds
  <2>4. code' \in {code, COMM_ERR_RETRY} /\ UNCHANGED <<calls, http, loaded>>
    BY <1>11 DEF EchoDone, PowerOnFails, module
  <2>5. pc' \in Between \cup Step \cup {"press", "try", "poll"}
    BY <2>2, CommandOfStep DEF Between
  <2>6. faults' \in 0 .. MAX_FAULTS
    BY <1>11, TimedOutFault, FaultsCounted DEF EchoDone, PowerOnFails, TypeInv, Control
  <2>7. Control'
    BY <2>4, <2>5, <2>6 DEF TypeInv, Control
  <2>8. Flags'
    BY <1>11, Zenon DEF EchoDone, PowerOnFails, module, TypeInv, Flags
  <2>. QED  BY <2>1, <2>3, <2>7, <2>8, LinesAfter DEF TypeInv
<1>12. CASE FillReport \/ SendReport
  <2>1. HostLines
    <3>1. CASE FillReport
      BY <3>1, CommandOfStep DEF FillReport, HostLines
    <3>2. CASE SendReport
      BY <3>2, GoLines, CommandOfStep DEF SendReport
    <3>. QED  BY <1>12, <3>1, <3>2
  <2>2. pc' \in {"filled", "action"} /\ UNCHANGED <<tries, http, loaded, faults>>
    BY <1>12 DEF FillReport, SendReport, Go, module
  <2>3. Rounds'
    BY <2>2 DEF TypeInv, Rounds
  <2>4. calls' \in 0 .. START_COMM_MAX_RETRIES /\ code' \in {code, "sending"}
    BY <1>12 DEF FillReport, SendReport, TypeInv, Control
  <2>5. pc' \in Between \cup Step \cup {"press", "try", "poll"}
    BY <2>2, CommandOfStep DEF Between
  <2>6. Control'
    BY <2>2, <2>4, <2>5 DEF TypeInv, Control
  <2>7. Flags'
    BY <1>12, Zenon DEF FillReport, SendReport, module, TypeInv, Flags
  <2>. QED  BY <2>1, <2>3, <2>6, <2>7, LinesAfter DEF TypeInv
<1>13. CASE CheckTimeout
  <2>1. HostLines
    BY <1>13 DEF CheckTimeout, HostLines, Fresh
  <2>2. Rounds'
    BY <1>13 DEF CheckTimeout, TypeInv, Rounds
  <2>3. faults' \in 0 .. MAX_FAULTS
    BY <1>13, TimedOutFault, FaultsCounted DEF CheckTimeout, TypeInv, Control
  <2>4. http' \in Http /\ loaded' \in {"nothing", "report", "other"}
    BY <1>13 DEF CheckTimeout, Fresh, Http
  <2>5. Control'
    BY <1>13, <2>3, <2>4 DEF CheckTimeout, TypeInv, Control
  <2>6. Flags'
    BY <1>13, Zenon DEF CheckTimeout, Fresh, TypeInv, Flags
  <2>. QED  BY <2>1, <2>2, <2>5, <2>6, LinesAfter DEF TypeInv
<1>14. CASE PowdOk \/ PowdTimeout
  <2>1. HostLines /\ pc' = "idle" /\ UNCHANGED <<tries, calls, code, http, loaded>>
    BY <1>14 DEF PowdOk, PowdTimeout, PowerOff, HostLines, module
  <2>2. Rounds'
    BY <2>1 DEF TypeInv, Rounds
  <2>3. faults' \in 0 .. MAX_FAULTS
    BY <1>14, TimedOutFault, FaultsCounted DEF PowdOk, PowdTimeout, TypeInv, Control
  <2>4. pc' \in Between
    BY <2>1 DEF Between
  <2>5. Control'
    BY <2>1, <2>3, <2>4 DEF TypeInv, Control
  <2>6. Flags'
    BY <1>14, Zenon DEF PowdOk, PowdTimeout, PowerOff, module, TypeInv, Flags
  <2>. QED  BY <2>1, <2>2, <2>5, <2>6, LinesAfter DEF TypeInv
<1>15. AtOk \/ StepOk \/ ReadDone \/ TermDone \/ CheckOk \/ QueryTimeout =>
          \/ \E step \in Step, next \in Straight, unread \in {<<>>, Unread} :
                GoOn(step, next, unread)
          \/ \E step \in Step, next \in Straight : GoOnLate(step, next)
  BY DEF AtOk, StepOk, ReadDone, TermDone, CheckOk, QueryTimeout, Step, Straight, Command
<1>. QED  BY <1>1, <1>2, <1>3, <1>4, <1>5, <1>6, <1>7, <1>8, <1>9, <1>10, <1>11, <1>12,
            <1>13, <1>14, <1>15 DEF Host

(* What the module says are replies, and it only takes what was sent. *)
LEMMA Taking ==
    ASSUME TypeInv, NEW reply \in Seq(Reply), Take(reply),
           http' \in Http, loaded' \in {"nothing", "report", "other"}, bearer' \in BOOLEAN,
           Fault \/ UNCHANGED faults
    PROVE  TypeInv'
<1>1. UNCHANGED <<pc, tries, calls, code>>
  BY DEF Take, host
<1>2. Rounds'
  BY <1>1 DEF TypeInv, Rounds
<1>3. Control'
  BY <1>1, FaultsCounted DEF TypeInv, Control
<1>4. Flags'
  BY Zenon DEF TypeInv, Flags, Take, host
<1>5. Lines'
  BY DEF TypeInv, Lines, Take
<1>. QED  BY <1>2, <1>3, <1>4, <1>5 DEF TypeInv

LEMMA ModuleTyped == TypeInv /\ (Module \/ DataTimeout \/ Hang) => TypeInv'
<1>. SUFFICES ASSUME TypeInv, Module \/ DataTimeout \/ Hang PROVE TypeInv'
  OBVIOUS
<1>1. /\ http \in Http /\ loaded \in {"nothing", "report", "other"} /\ rx \in Seq(Reply)
      /\ tx \in Seq(Commands)
  BY DEF TypeInv, Control, Lines
<1>2. bearer \in BOOLEAN
  BY Zenon DEF TypeInv, Flags
<1>3. {"ready", "none", "data", "posting"} = Http
  BY DEF Http
<1>4. ASSUME NEW reply \in OtherReplies, Take(reply),
             UNCHANGED <<bearer, http, loaded>>, Fault \/ UNCHANGED faults
      PROVE  TypeInv'
  BY <1>1, <1>2, <1>4, Taking, Zenon DEF OtherReplies
<1>5. CASE TakeAt("AT") \/ TakeAt("ATE0") \/ TakeQuery \/ Refuse
  BY <1>4, <1>5, Texts DEF TakeAt, TakeQuery, Refuse
<1>6. CASE TakeAttach \/ TakeConf
  BY <1>4, <1>6, Texts DEF TakeAttach, TakeConf
<1>7. CASE TakeOpen
  <2>1. PICK reply \in OtherReplies : Take(reply)
    BY <1>7, Texts DEF TakeOpen
  <2>2. bearer' \in BOOLEAN
    BY <1>2, <1>7, Zenon DEF TakeOpen
  <2>3. UNCHANGED <<http, loaded>> /\ (Fault \/ UNCHANGED faults)
    BY <1>7 DEF TakeOpen
  <2>. QED  BY <1>1, <2>1, <2>2, <2>3, Taking DEF OtherReplies
<1>8. CASE TakeHttp
  <2>1. PICK command \in DOMAIN Service :
           /\ Take(Service[command].reply) /\ http' = Service[command].to
           /\ loaded' = IF command = "HTTPDATA" THEN "nothing" ELSE loaded
           /\ UNCHANGED <<bearer, faults>>
    BY <1>8 DEF TakeHttp
  <2>2. Service[command].reply \in {<<"OK">>, <<"DOWNLOAD">>, <<"+HTTPREAD", "OK">>}
    BY DEF Service
  <2>3. Service[command].reply \in Seq(Reply)
    BY <2>2, Texts, Zenon DEF OtherReplies
  <2>4. http' \in Http
    BY <2>1 DEF Service, Http
  <2>5. loaded' \in {"nothing", "report", "other"}
    BY <1>1, <2>1
  <2>. QED  BY <1>2, <2>1, <2>3, <2>4, <2>5, Taking
<1>9. CASE TakeReport \/ Swallow
  <2>1. PICK reply \in OtherReplies : Take(reply)
    BY <1>9, Texts DEF TakeReport, Swallow
  <2>2. /\ http' \in Http /\ loaded' \in {"nothing", "report", "other"}
        /\ UNCHANGED <<bearer, faults>>
    BY <1>1, <1>3, <1>9 DEF TakeReport, Swallow
  <2>. QED  BY <1>2, <2>1, <2>2, Taking DEF OtherReplies
<1>10. CASE TakePowerDown
  <2>1. UNCHANGED <<pc, tries, calls, code, faults>> /\ http' = "none" /\ loaded' = "nothing"
    BY <1>10 DEF TakePowerDown, Fresh, host
  <2>2. Rounds'
    BY <2>1 DEF TypeInv, Rounds
  <2>3. Control'
    BY <1>3, <2>1 DEF TypeInv, Control
  <2>4. Flags'
    BY <1>10, Zenon DEF TakePowerDown, Fresh, host, TypeInv, Flags
  <2>5. PowerDown \in Reply
    BY DEF Reply, PowerDown
  <2>6. Lines'
    <3>1. rx' = Append(rx, PowerDown) /\ tx' = <<>>
      BY <1>10 DEF TakePowerDown, Fresh, PowerDown
    <3>2. rx' \in Seq(Reply)
      BY <1>1, <2>5, <3>1
    <3>3. <<>> \in Seq(Commands)
      OBVIOUS
    <3>. QED  BY <3>1, <3>2, <3>3 DEF Lines
  <2>. QED  BY <2>2, <2>3, <2>4, <2>6 DEF TypeInv
<1>11. CASE DataTimeout \/ \E received \in BOOLEAN, reply \in Awaited["result"] :
                              Posted(received, reply)
  <2>1. /\ UNCHANGED <<pc, tries, calls, code, faults, tx, loaded>> /\ http' = "ready"
    BY <1>11 DEF DataTimeout, Posted, host
  <2>2. Rounds'
    BY <2>1 DEF TypeInv, Rounds
  <2>3. Control'
    BY <1>3, <2>1 DEF TypeInv, Control
  <2>4. Flags'
    <3>1. delivered' \in BOOLEAN
      BY <1>11, Zenon DEF DataTimeout, Posted, TypeInv, Flags
    <3>2. UNCHANGED <<module_is_on, shut, on, hung, bearer>>
      BY <1>11 DEF DataTimeout, Posted, host
    <3>. QED  BY <3>1, <3>2, Zenon DEF TypeInv, Flags
  <2>5. {"OK", "+HTTPACTION: 200", "+HTTPACTION: other"} \subseteq Reply
    BY DEF Reply
  <2>6. \E reply \in {"OK", "+HTTPACTION: 200", "+HTTPACTION: other"} :
           rx' = Append(rx, reply)
    BY <1>11, AwaitedAsResult DEF DataTimeout, Posted
  <2>7. Lines'
    <3>1. PICK reply \in Reply : rx' = Append(rx, reply)
      BY <2>5, <2>6
    <3>. QED  BY <1>1, <2>1, <3>1 DEF Lines
  <2>. QED  BY <2>2, <2>3, <2>4, <2>7 DEF TypeInv
<1>12. CASE Hang
  <2>1. UNCHANGED <<pc, tries, calls, code, rx, http, loaded>> /\ tx' = <<>>
    BY <1>12 DEF Hang, host
  <2>2. Rounds'
    BY <2>1 DEF TypeInv, Rounds
  <2>3. Control'
    BY <1>12, <2>1, FaultsCounted DEF Hang, TypeInv, Control
  <2>4. Flags'
    BY <1>12, Zenon DEF Hang, host, TypeInv, Flags
  <2>5. Lines'
    BY <1>1, <2>1 DEF Lines
  <2>. QED  BY <2>2, <2>3, <2>4, <2>5 DEF TypeInv
<1>. QED  BY <1>5, <1>6, <1>7, <1>8, <1>9, <1>10, <1>11, <1>12 DEF Module

LEMMA TypeInvStep == TypeInv /\ [Next]_vars => TypeInv'
<1>1. ASSUME TypeInv, UNCHANGED vars PROVE TypeInv'
  <2>1. Rounds'
    BY <1>1 DEF TypeInv, Rounds, vars, host
  <2>2. Control'
    BY <1>1 DEF TypeInv, Control, vars, host, module
  <2>3. Flags'
    BY <1>1, Zenon DEF TypeInv, Flags, vars, host, module
  <2>4. Lines'
    BY <1>1 DEF TypeInv, Lines, vars
  <2>. QED  BY <2>1, <2>2, <2>3, <2>4 DEF TypeInv
<1>. QED  BY <1>1, HostTyped, ModuleTyped DEF Next

(* Every loop of the library is bounded (AT tries, network polls, the calls of
   reporting_task), whatever the module does or fails to do, and what is read and sent
   are the texts of the protocol (gsm_communication.cpp:76-92, 100-127, 187-206). *)
THEOREM GsmTypeCorrect == Spec => []TypeOK
<1>1. TypeInv => TypeOK
  <2>1. TypeInv => Flags /\ Rounds /\ Control /\ Lines
    BY DEF TypeInv
  <2>2. Rounds => tries \in 0 .. MAX_AT_TRIES + MAX_POLLS
    BY DEF Rounds
  <2>. QED  BY <2>1, <2>2, Zenon DEF Flags, Control, Lines, Commands, TypeOK
<1>. QED  BY <1>1, TypeInvInit, TypeInvStep, PTL DEF Spec

----------------------------------------------------------------------------
(* A module that is never late, however often it refuses, finds no network or hangs. *)

\* No get_reply times out while the module is about to react.
Punctual == Host => UNCHANGED faults

Awake == on /\ ~hung

Says(replies, text) == \E k \in DOMAIN replies : replies[k] = text
Said(text) == Says(rx, text)

\* The steps that send their command on a line with nothing on it.
OneCommand == DOMAIN Command \ {"action"}

\* Where the library does not wait for anything.
Elsewhere == (Between \ {"filled"}) \cup {"press", "try", "poll"}

ReportComing == tx # <<>> /\ Head(tx) = "report"

\* The result of a request is unread.
Reported == \E result \in Awaited["result"] : Said(result)

\* The line carries one command at a time or the replies to it, but for the report, which
\* no one waits for and which may still be coming when HTTPACTION is sent.
LineInv ==
    /\ ~Awake => tx = <<>>
    /\ pc \in OneCommand =>
          /\ tx \in {<<>>, <<Command[pc]>>}
          /\ tx # <<>> => rx = <<>>
          /\ pc \notin {"attach", "query", "read"} => Len(rx) <= 1
    /\ pc \in Elsewhere => tx = <<>> /\ rx = <<>>
    /\ pc = "filled" => tx \in {<<>>, <<"report">>}
    /\ pc = "action" => /\ tx \in {<<>>, <<"HTTPACTION">>, <<"report", "HTTPACTION">>}
                        /\ Awake /\ tx = <<>> => Said("OK")
                        /\ ReportComing => rx = <<>>
    /\ pc = "result" => tx \in {<<>>, <<"HTTPACTION">>}

\* The module is where the library believes it is: it waits for data, or has the report,
\* or posts it, exactly in the calls that are about this.
SessionInv ==
    /\ Awake /\ http = "data" =>
          /\ loaded = "nothing"
          /\ (pc = "data" /\ Said("DOWNLOAD")) \/ pc = "started"
             \/ (pc \in {"filled", "action"} /\ ReportComing)
    /\ Awake /\ http = "posting" => loaded = "report" /\ pc \in {"action", "result"} /\ tx = <<>>
    /\ Awake /\ pc \in {"filled", "action", "result"} =>
          IF ReportComing THEN http = "data" ELSE http \in {"ready", "posting"} /\ loaded = "report"
    /\ pc = "started" => http = "data" /\ loaded = "nothing"
    /\ pc = "sendFailed" => ~Awake
    /\ Reported => pc \in {"action", "result"} /\ tx = <<>> /\ http = "ready"
    /\ Said("DOWNLOAD") => pc = "data" /\ http = "data" /\ loaded = "nothing" /\ tx = <<>>

\* What is unread, or was taken for an answer, is true.
TruthInv ==
    /\ Said("+HTTPACTION: 200") => delivered
    /\ code = COMM_OK => \/ pc \in {"started", "filled"}
                         \/ delivered /\ pc \in {"read", "term", "powd", "idle"}
    /\ Said("+SAPBR: 1,1") => bearer /\ pc = "query"
    /\ pc = "open" /\ rx # <<>> => bearer
    /\ pc \in {"init", "para", "data", "started"} => bearer
    /\ (pc = "at" /\ rx # <<>>) \/ pc = "echo" => on
    /\ module_is_on /\ pc \notin {"powd", "check", "press", "try", "at"} => on

PunctualInv == LineInv /\ SessionInv /\ TruthInv

(* The texts in replies of at most two parts. *)
LEMMA SaysWhat ==
    ASSUME NEW text
    PROVE  /\ ~Says(<<>>, text)
           /\ \A a : Says(<<a>>, text) <=> text = a
           /\ \A a, b : Says(<<a, b>>, text) <=> text \in {a, b}
<1>1. ~Says(<<>>, text)
  BY DEF Says
<1>2. ASSUME NEW a PROVE Says(<<a>>, text) <=> text = a
  <2>1. DOMAIN <<a>> = {1} /\ <<a>>[1] = a
    OBVIOUS
  <2>. QED  BY <2>1 DEF Says
<1>3. ASSUME NEW a, NEW b PROVE Says(<<a, b>>, text) <=> text \in {a, b}
  <2>1. DOMAIN <<a, b>> = {1, 2} /\ <<a, b>>[1] = a /\ <<a, b>>[2] = b
    OBVIOUS
  <2>. QED  BY <2>1 DEF Says
<1>. QED  BY <1>1, <1>2, <1>3

LEMMA SaidMore ==
    ASSUME rx \in Seq(Reply), NEW reply \in Seq(Reply), rx' = rx \o reply, NEW text
    PROVE  Said(text)' <=> Said(text) \/ Says(reply, text)
<1>1. /\ DOMAIN rx' = 1 .. Len(rx) + Len(reply)
      /\ Len(rx) \in Nat /\ Len(reply) \in Nat
      /\ DOMAIN rx = 1 .. Len(rx) /\ DOMAIN reply = 1 .. Len(reply)
      /\ \A k \in 1 .. Len(rx) + Len(reply) :
            rx'[k] = IF k <= Len(rx) THEN rx[k] ELSE reply[k - Len(rx)]
  OBVIOUS
<1>2. Said(text)' => Said(text) \/ Says(reply, text)
  <2>. SUFFICES ASSUME NEW k \in DOMAIN rx', rx'[k] = text
                PROVE  Said(text) \/ Says(reply, text)
    BY DEF Said, Says
  <2>1. CASE k <= Len(rx)
    BY <1>1, <2>1 DEF Said, Says
  <2>2. CASE k > Len(rx)
    <3>1. k - Len(rx) \in DOMAIN reply /\ reply[k - Len(rx)] = text
      BY <1>1, <2>2
    <3>. QED  BY <3>1 DEF Says
  <2>. QED  BY <1>1, <2>1, <2>2
<1>3. Said(text) => Said(text)'
  BY <1>1 DEF Said, Says
<1>4. Says(reply, text) => Said(text)'
  <2>. SUFFICES ASSUME NEW k \in DOMAIN reply, reply[k] = text PROVE Said(text)'
    BY DEF Says
  <2>1. Len(rx) + k \in DOMAIN rx' /\ rx'[Len(rx) + k] = text
    BY <1>1
  <2>. QED  BY <2>1 DEF Said, Says
<1>. QED  BY <1>2, <1>3, <1>4

(* The one text there is, once it is read. *)
LEMMA OneAnswer ==
    ASSUME rx \in Seq(Reply), Len(rx) <= 1, Answers # {}
    PROVE  Unread = <<>>
<1>1. FirstAnswer \in 1 .. Len(rx)
  BY FirstAnswerIsAnswer
<1>2. FirstAnswer = 1 /\ Len(rx) = 1
  <2>1. Len(rx) \in Nat
    OBVIOUS
  <2>2. \A n \in Nat : n <= 1 => \A k \in 1 .. n : k = 1 /\ n = 1
    OBVIOUS
  <2>. QED  BY <1>1, <2>1, <2>2, Zenon
<1>3. Unread = SubSeq(rx, 2, 1)
  BY <1>2 DEF Unread
<1>4. Len(SubSeq(rx, 2, 1)) = 0 /\ SubSeq(rx, 2, 1) \in Seq(Reply)
  BY <1>2
<1>. QED  BY <1>3, <1>4

(* The commands of the steps, and back. *)
LEMMA CommandIs ==
    /\ Command["at"] = "AT" /\ Command["check"] = "AT" /\ Command["echo"] = "ATE0"
    /\ Command["attach"] = "CGATT?" /\ Command["conf"] = "SAPBR=3"
    /\ Command["query"] = "SAPBR=2" /\ Command["open"] = "SAPBR=1"
    /\ Command["init"] = "HTTPINIT" /\ Command["para"] = "HTTPPARA"
    /\ Command["data"] = "HTTPDATA" /\ Command["action"] = "HTTPACTION"
    /\ Command["read"] = "HTTPREAD" /\ Command["term"] = "HTTPTERM"
    /\ Command["powd"] = "CPOWD"
  BY DEF Command

LEMMA OneCommandIs ==
    /\ OneCommand = {"at", "echo", "attach", "conf", "query", "open", "init", "para", "data",
                     "read", "term", "powd", "check"}
    /\ Elsewhere = {"setup", "idle", "started", "startFailed", "sendFailed", "press", "try",
                    "poll"}
  BY CommandOfStep DEF OneCommand, Elsewhere, Between

(* A get_reply that times out punctually leaves a module that does not react. *)
LEMMA PunctualTimeOut ==
    ASSUME TypeInv, NEW step, TimedOut(step), UNCHANGED faults
    PROVE  ~Late
<1>1. faults \in Nat
  BY DEF TypeInv, Control
<1>. QED  BY <1>1 DEF TimedOut, Fault

(* A command on an empty line. *)
LEMMA SentAlone ==
    ASSUME tx = <<>>, NEW command
    PROVE  Sent(command) = IF Awake THEN <<command>> ELSE <<>>
  BY DEF Sent, Awake

\* A call or a step of the library leaves nothing open, on the line or of a session, and
\* what it goes by is true.
LeftQuiet ==
    /\ rx' = <<>>
    /\ pc' \in OneCommand \cup Elsewhere /\ pc' \notin {"started", "sendFailed"}
    /\ tx' = <<>> \/ (Awake' /\ pc' \in OneCommand /\ tx' = <<Command[pc']>>)
    /\ Awake' => http' \notin {"data", "posting"}
    /\ code' = COMM_OK => delivered' /\ pc' \in {"read", "term", "powd", "idle"}
    /\ pc' \in {"init", "para", "data"} => bearer'
    /\ pc' = "echo" => on'
    /\ module_is_on' /\ pc' \notin {"powd", "check", "press", "try", "at"} => on'

LEMMA Quietly == LeftQuiet => PunctualInv'
<1>. SUFFICES ASSUME LeftQuiet PROVE PunctualInv'
  OBVIOUS
<1>1. /\ rx' = <<>> /\ \A text : ~Said(text)' 
      /\ pc' \notin {"started", "sendFailed", "filled", "action", "result"}
  BY SaysWhat, OneCommandIs DEF LeftQuiet, Said
<1>2. LineInv'
  <2>1. Len(rx') = 0
    BY <1>1
  <2>2. ~Awake' => tx' = <<>>
    BY DEF LeftQuiet
  <2>3. pc' \in OneCommand => tx' \in {<<>>, <<Command[pc']>>}
    BY DEF LeftQuiet
  <2>4. pc' \in Elsewhere => tx' = <<>>
    BY OneCommandIs DEF LeftQuiet
  <2>. QED  BY <1>1, <2>1, <2>2, <2>3, <2>4 DEF LineInv
<1>3. SessionInv'
  BY <1>1 DEF LeftQuiet, SessionInv, Reported
<1>4. TruthInv'
  BY <1>1 DEF LeftQuiet, TruthInv
<1>. QED  BY <1>2, <1>3, <1>4 DEF PunctualInv

(* Every answer is a text that was read. *)
LEMMA AnswersAreSaid == Answers # {} <=> \E text \in Awaited[pc] : Said(text)
  BY DEF Answers, Said, Says

LEMMA AwaitedIs ==
    /\ Awaited["attach"] = {"+CGATT: 1"} /\ Awaited["query"] = {"+SAPBR: 1,1"}
    /\ Awaited["data"] = {"DOWNLOAD"} /\ Awaited["read"] = {"+HTTPREAD"}
    /\ Awaited["action"] = {"OK"}
  BY DEF Awaited, Step, Command

(* A get_reply for a command on an empty line leaves nothing behind. *)
LEMMA StepOver ==
    ASSUME TypeInv, PunctualInv, NEW step \in OneCommand,
           Answered(step) \/ (TimedOut(step) /\ UNCHANGED faults)
    PROVE  /\ pc = step /\ tx = <<>>
           /\ Answered(step) => rx # <<>>
           /\ Answered(step) /\ step \notin {"attach", "query", "read"} => Unread = <<>>
<1>1. pc = step
  BY DEF Answered, TimedOut
<1>2. Answered(step) => rx # <<>>
  BY DEF Answered, Answers
<1>3. tx # <<>> => rx = <<>> /\ Awake
  BY <1>1 DEF PunctualInv, LineInv
<1>4. tx = <<>>
  <2>1. CASE Answered(step)
    BY <1>2, <1>3, <2>1
  <2>2. CASE TimedOut(step) /\ UNCHANGED faults
    <3>1. ~Late
      BY <2>2, PunctualTimeOut
    <3>. QED  BY <1>3, <3>1 DEF Late, Awake
  <2>. QED  BY <2>1, <2>2
<1>5. ASSUME Answered(step), step \notin {"attach", "query", "read"} PROVE Unread = <<>>
  <2>1. Len(rx) <= 1
    BY <1>1, <1>5 DEF PunctualInv, LineInv
  <2>2. Answers # {} /\ rx \in Seq(Reply)
    BY <1>5 DEF Answered, TypeInv, Lines
  <2>. QED  BY <2>1, <2>2, OneAnswer
<1>. QED  BY <1>1, <1>2, <1>4, <1>5

(* A step goes on with the next command. *)
LEMMA Goes ==
    ASSUME tx = <<>>, NEW next \in OneCommand, Go(next, <<>>), UNCHANGED module,
           Awake => http \notin {"data", "posting"},
           code' = COMM_OK => delivered' /\ next \in {"read", "term", "powd"},
           next \in {"init", "para", "data"} => bearer,
           next = "echo" => on,
           module_is_on' /\ next \notin {"powd", "check", "at"} => on
    PROVE  LeftQuiet
<1>1. /\ pc' = next /\ rx' = <<>>
      /\ tx' = IF Awake THEN <<Command[next]>> ELSE <<>>
      /\ Awake' = Awake
  BY SentAlone DEF Go, module, Awake
<1>2. next \notin {"started", "sendFailed", "press", "try", "idle"}
  BY OneCommandIs
<1>. QED  BY <1>1, <1>2 DEF LeftQuiet, module

(* No session is open and nothing is posted where the library is not about it. *)
LEMMA NoSession ==
    ASSUME PunctualInv, tx = <<>>, pc \in OneCommand \cup Elsewhere, pc # "started",
           pc = "data" => ~Said("DOWNLOAD")
    PROVE  Awake => http \notin {"data", "posting"}
<1>1. ~ReportComing /\ pc \notin {"action", "result"}
  BY OneCommandIs DEF ReportComing
<1>. QED  BY <1>1 DEF PunctualInv, SessionInv

LEMMA GoesOn ==
    ASSUME TypeInv, PunctualInv,
           NEW step \in OneCommand \ {"data"}, NEW next \in OneCommand,
           \/ GoOn(step, next, <<>>)
           \/ GoOn(step, next, Unread) /\ step \notin {"attach", "query", "read"}
           \/ GoOnLate(step, next) /\ UNCHANGED faults,
           step \in {"read", "term", "powd"} => next \in {"term", "powd"},
           next \in {"init", "para", "data"} => bearer,
           next = "echo" => on,
           step \in {"powd", "check", "at"} => next = "powd" \/ on
    PROVE  PunctualInv'
<1>1. /\ pc = step /\ tx = <<>> /\ Go(next, <<>>)
      /\ UNCHANGED <<module, code, delivered, module_is_on>>
  BY StepOver DEF GoOn, GoOnLate, kept
<1>2. Awake => http \notin {"data", "posting"}
  BY <1>1, NoSession, OneCommandIs
<1>3. code = COMM_OK => delivered /\ step \in {"read", "term", "powd"}
  BY <1>1, OneCommandIs DEF PunctualInv, TruthInv
<1>4. module_is_on /\ step \notin {"powd", "check", "at"} => on
  BY <1>1, OneCommandIs DEF PunctualInv, TruthInv
<1>5. LeftQuiet
  BY <1>1, <1>2, <1>3, <1>4, Goes
<1>. QED  BY <1>5, Quietly

LEMMA StepsOn ==
    ASSUME TypeInv, PunctualInv, UNCHANGED faults,
           AtOk \/ StepOk \/ QueryTimeout \/ ReadDone \/ TermDone \/ CheckOk
    PROVE  PunctualInv'
<1>. USE OneCommandIs
<1>1. CASE AtOk
  <2>1. on
    BY <1>1, StepOver DEF AtOk, GoOn, PunctualInv, TruthInv
  <2>. QED  BY <1>1, <2>1, GoesOn DEF AtOk
<1>2. CASE GoOn("attach", "conf", <<>>)
  BY <1>2, GoesOn
<1>3. CASE GoOn("conf", "query", Unread)
  BY <1>3, GoesOn
<1>4. CASE GoOn("query", "init", <<>>)
  <2>1. Said("+SAPBR: 1,1")
    BY <1>4, AnswersAreSaid, AwaitedIs DEF GoOn, Answered
  <2>2. bearer
    BY <2>1 DEF PunctualInv, TruthInv
  <2>. QED  BY <1>4, <2>2, GoesOn
<1>5. CASE GoOn("open", "init", <<>>)
  <2>1. bearer
    BY <1>5, StepOver DEF GoOn, PunctualInv, TruthInv
  <2>. QED  BY <1>5, <2>1, GoesOn
<1>6. CASE GoOn("init", "para", Unread)
  <2>1. bearer
    BY <1>6 DEF GoOn, Answered, PunctualInv, TruthInv
  <2>. QED  BY <1>6, <2>1, GoesOn
<1>7. CASE GoOn("para", "data", <<>>)
  <2>1. bearer
    BY <1>7 DEF GoOn, Answered, PunctualInv, TruthInv
  <2>. QED  BY <1>7, <2>1, GoesOn
<1>8. CASE QueryTimeout
  BY <1>8, GoesOn DEF QueryTimeout
<1>9. CASE ReadDone
  BY <1>9, GoesOn DEF ReadDone
<1>10. CASE TermDone
  BY <1>10, GoesOn DEF TermDone
<1>11. CASE CheckOk
  BY <1>11, GoesOn DEF CheckOk
<1>. QED  BY <1>1, <1>2, <1>3, <1>4, <1>5, <1>6, <1>7, <1>8, <1>9, <1>10, <1>11 DEF StepOk

(* The calls and steps that start on a quiet line. *)
LEMMA Starts ==
    ASSUME TypeInv, PunctualInv, UNCHANGED faults,
           Setup \/ StartReport \/ AtTry \/ Poll \/ PollsOver \/ Abort \/ PowerOnFails
    PROVE  PunctualInv'
<1>. USE OneCommandIs
<1>1. /\ pc \in {"setup", "idle", "startFailed", "sendFailed", "try", "poll"}
      /\ tx = <<>> /\ rx = <<>>
  BY DEF PunctualInv, LineInv, Setup, StartReport, AtTry, Poll, PollsOver, Abort, PowerOnFails
<1>2. Awake => http \notin {"data", "posting"}
  BY <1>1, NoSession
<1>3. code = COMM_OK => delivered /\ pc = "idle"
  BY <1>1 DEF PunctualInv, TruthInv
<1>4. module_is_on /\ pc \notin {"powd", "check", "press", "try", "at"} => on
  BY <1>1 DEF PunctualInv, TruthInv
<1>. USE DEF COMM_OK, COMM_ERR_RETRY, COMM_ERR_RETRY_LATER, kept, module
<1>5. CASE Setup \/ Abort
  <2>1. pc \in {"setup", "startFailed", "sendFailed"} /\ Go("check", <<>>)
    BY <1>1, <1>5 DEF Setup, Abort
  <2>2. UNCHANGED <<module, code, delivered, module_is_on>>
    BY <1>5 DEF Setup, Abort
  <2>. QED  BY <1>1, <1>2, <1>3, <1>4, <2>1, <2>2, Goes, Quietly
<1>6. CASE StartReport
  <2>1. /\ tx' = <<>> /\ rx' = <<>> /\ pc' \in {"poll", "press"} /\ code' # COMM_OK
        /\ pc \in {"idle", "startFailed"}
        /\ pc' = "poll" => module_is_on
        /\ UNCHANGED <<module_is_on, on, hung, http>>
    BY <1>1, <1>6 DEF StartReport
  <2>2. LeftQuiet
    BY <1>2, <1>4, <2>1 DEF LeftQuiet, Awake
  <2>. QED  BY <2>2, Quietly
<1>7. CASE AtTry \/ Poll
  <2>1. PICK next \in {"at", "attach"} :
           Go(next, <<>>) /\ (pc = IF next = "at" THEN "try" ELSE "poll")
    BY <1>7 DEF AtTry, Poll
  <2>2. UNCHANGED <<module, code, delivered, module_is_on>>
    BY <1>7 DEF AtTry, Poll
  <2>. QED  BY <1>1, <1>2, <1>3, <1>4, <2>1, <2>2, Goes, Quietly
<1>8. CASE PollsOver
  <2>1. Go("powd", <<>>) /\ code' # COMM_OK /\ UNCHANGED module
    BY <1>1, <1>8 DEF PollsOver
  <2>. QED  BY <1>1, <1>2, <2>1, Goes, Quietly
<1>9. CASE PowerOnFails
  <2>1. /\ rx' = <<>> /\ pc = "try" /\ module_is_on' = FALSE
        /\ pc' = (IF Starting THEN "startFailed" ELSE "powd")
        /\ tx' = IF Starting THEN tx ELSE Sent("CPOWD")
        /\ code' = (IF Starting THEN COMM_ERR_RETRY ELSE code)
        /\ UNCHANGED <<on, hung, http>>
    BY <1>1, <1>9 DEF PowerOnFails
  <2>2. CASE Starting
    BY <1>1, <1>2, <2>1, <2>2, Quietly DEF LeftQuiet, Awake
  <2>3. CASE ~Starting
    <3>1. tx' = IF Awake THEN <<Command["powd"]>> ELSE <<>>
      BY <1>1, <2>1, <2>3, SentAlone, CommandIs
    <3>. QED  BY <1>1, <1>2, <1>3, <2>1, <2>3, <3>1, Quietly DEF LeftQuiet, Awake
  <2>. QED  BY <2>2, <2>3
<1>. QED  BY <1>5, <1>6, <1>7, <1>8, <1>9

(* The power key, get_reply after it, and the reset. *)
LEMMA Powers ==
    ASSUME TypeInv, PunctualInv, UNCHANGED faults,
           PressKey \/ AtTimeout \/ EchoDone \/ CheckTimeout \/ PowdOk \/ PowdTimeout
    PROVE  PunctualInv'
<1>. USE OneCommandIs DEF kept, module
<1>1. code = COMM_OK /\ pc \in OneCommand \cup Elsewhere /\ pc # "started"
      => delivered /\ pc \in {"read", "term", "powd", "idle"}
  BY DEF PunctualInv, TruthInv
<1>2. CASE PressKey
  <2>1. pc = "press" /\ tx = <<>> /\ rx = <<>>
    BY <1>2 DEF PressKey, PunctualInv, LineInv
  <2>2. Awake => http \notin {"data", "posting"}
    BY <2>1, NoSession
  <2>3. /\ tx' = <<>> /\ rx' = <<>> /\ pc' = "try" /\ UNCHANGED code
        /\ http' = "none" \/ UNCHANGED <<on, hung, http>>
    BY <1>2, <2>1 DEF PressKey, Fresh
  <2>. QED  BY <1>1, <2>1, <2>2, <2>3, Quietly DEF LeftQuiet, Awake
<1>3. CASE AtTimeout
  <2>1. pc = "at" /\ tx = <<>>
    BY <1>3, StepOver DEF AtTimeout, NextTry
  <2>2. Awake => http \notin {"data", "posting"}
    BY <2>1, NoSession
  <2>3. tx' = <<>> /\ rx' = <<>> /\ pc' = "try" /\ UNCHANGED <<code, on, hung, http>>
    BY <1>3, <2>1 DEF AtTimeout, NextTry
  <2>. QED  BY <1>1, <2>1, <2>2, <2>3, Quietly DEF LeftQuiet, Awake
<1>4. CASE EchoDone
  <2>1. pc = "echo" /\ tx = <<>> /\ rx' = <<>>
    BY <1>4, StepOver DEF EchoDone
  <2>2. on /\ (Awake => http \notin {"data", "posting"})
    BY <2>1, NoSession DEF PunctualInv, TruthInv
  <2>3. /\ pc' = (IF Starting THEN "poll" ELSE "powd")
        /\ tx' = (IF Starting THEN tx ELSE Sent("CPOWD"))
        /\ UNCHANGED <<code, on, hung, http>>
    BY <1>4 DEF EchoDone
  <2>4. code # COMM_OK
    BY <1>1, <2>1
  <2>5. CASE Starting
    BY <2>1, <2>2, <2>3, <2>4, <2>5, Quietly DEF LeftQuiet, Awake
  <2>6. CASE ~Starting
    <3>1. tx' = IF Awake THEN <<Command["powd"]>> ELSE <<>>
      BY <2>1, <2>3, <2>6, SentAlone, CommandIs
    <3>. QED  BY <2>1, <2>2, <2>3, <2>4, <2>6, <3>1, Quietly DEF LeftQuiet, Awake
  <2>. QED  BY <2>5, <2>6
<1>5. CASE CheckTimeout
  <2>1. /\ pc = "check" /\ pc' = "press" /\ tx' = <<>> /\ rx' = <<>> /\ http' = "none"
        /\ UNCHANGED code
    BY <1>5 DEF CheckTimeout, TimedOut, Fresh
  <2>. QED  BY <1>1, <2>1, Quietly DEF LeftQuiet
<1>6. CASE PowdOk \/ PowdTimeout
  <2>1. pc = "powd" /\ tx = <<>>
    BY <1>6, StepOver DEF PowdOk, PowdTimeout
  <2>2. Awake => http \notin {"data", "posting"}
    BY <2>1, NoSession
  <2>3. /\ tx' = <<>> /\ rx' = <<>> /\ pc' = "idle" /\ module_is_on' = FALSE
        /\ UNCHANGED <<code, delivered, on, hung, http>>
    BY <1>6, <2>1 DEF PowdOk, PowdTimeout, PowerOff
  <2>. QED  BY <1>1, <2>1, <2>2, <2>3, Quietly DEF LeftQuiet, Awake
<1>. QED  BY <1>2, <1>3, <1>4, <1>5, <1>6

(* The connection fails. *)
LEMMA Fails ==
    ASSUME TypeInv, PunctualInv, UNCHANGED faults, AttachTimeout \/ StartFails
    PROVE  PunctualInv'
<1>. USE OneCommandIs DEF kept, module
<1>1. PICK step \in {"attach", "conf", "open", "init", "para", "data"} :
         /\ TimedOut(step) /\ rx' = <<>> /\ pc' \in {"poll", "startFailed"}
         /\ code' \in {code, COMM_ERR_RETRY}
         /\ UNCHANGED <<tx, on, hung, http, module_is_on>>
  BY DEF AttachTimeout, NextTry, StartFails, Return
<1>2. pc = step /\ tx = <<>>
  BY <1>1, StepOver
<1>3. step = "data" => ~Said("DOWNLOAD")
  BY <1>1, <1>2, AnswersAreSaid, AwaitedIs DEF TimedOut
<1>4. Awake => http \notin {"data", "posting"}
  BY <1>2, <1>3, NoSession
<1>5. code # COMM_OK
  BY <1>2 DEF PunctualInv, TruthInv
<1>6. module_is_on => on
  BY <1>2 DEF PunctualInv, TruthInv
<1>7. code' # COMM_OK
  BY <1>1, <1>5 DEF COMM_OK, COMM_ERR_RETRY
<1>. QED  BY <1>1, <1>2, <1>4, <1>6, <1>7, Quietly DEF LeftQuiet, Awake

(* An unread text was read before. *)
LEMMA UnreadSaid ==
    ASSUME rx \in Seq(Reply), Answers # {}, rx' = Unread, NEW text
    PROVE  Said(text)' => Said(text)
  BY UnreadIsUnread DEF Said, Says

(* The report and HTTPACTION on the line. *)
LEMMA ReportAhead ==
    /\ \A a, b : Append(<<a>>, b) = <<a, b>> /\ Append(<<>>, b) = <<b>>
    /\ \A a : <<a>> # <<>> /\ Head(<<a>>) = a /\ Tail(<<a>>) = <<>>
    /\ \A a, b : <<a, b>> # <<>> /\ Head(<<a, b>>) = a /\ Tail(<<a, b>>) = <<b>>
<1>1. ASSUME NEW a, NEW b PROVE Append(<<a>>, b) = <<a, b>>
  <2>1. <<a>> \in Seq({a, b}) /\ Len(<<a>>) = 1
    OBVIOUS
  <2>2. Append(<<a>>, b) = [k \in 1 .. 2 |-> IF k = 2 THEN b ELSE <<a>>[k]]
    BY <2>1
  <2>3. <<a, b>> = [k \in 1 .. 2 |-> IF k = 2 THEN b ELSE <<a>>[k]]
    OBVIOUS
  <2>. QED  BY <2>2, <2>3
<1>2. \A b : Append(<<>>, b) = <<b>>
  OBVIOUS
<1>3. \A a : <<a>> # <<>> /\ Head(<<a>>) = a
  OBVIOUS
<1>4. \A a : Tail(<<a>>) = <<>>
  OBVIOUS
<1>5. \A a, b : <<a, b>> # <<>> /\ Head(<<a, b>>) = a
  OBVIOUS
<1>6. \A a, b : Tail(<<a, b>>) = <<b>>
  OBVIOUS
<1>. QED  BY <1>1, <1>2, <1>3, <1>4, <1>5, <1>6

(* comm_start_report returns COMM_OK, and the report is sent. *)
LEMMA Session ==
    ASSUME TypeInv, PunctualInv, UNCHANGED faults, DataOk \/ FillReport \/ SendReport
    PROVE  PunctualInv'
<1>. USE OneCommandIs DEF kept, module
<1>0. pc \in {"data", "started", "filled", "sendFailed"}
  BY DEF DataOk, Answered, FillReport, SendReport
<1>1. module_is_on => on
  BY <1>0 DEF PunctualInv, TruthInv
<1>2. CASE DataOk
  <2>1. /\ pc = "data" /\ tx = <<>> /\ pc' = "started" /\ tx' = <<>> /\ rx' = <<>>
        /\ UNCHANGED <<on, hung, http, loaded, bearer, module_is_on>>
    BY <1>2, StepOver DEF DataOk, Return
  <2>2. Said("DOWNLOAD")
    BY <1>2, <2>1, AnswersAreSaid, AwaitedIs DEF DataOk, Answered
  <2>3. http = "data" /\ loaded = "nothing" /\ bearer
    BY <2>1, <2>2 DEF PunctualInv, SessionInv, TruthInv
  <2>4. \A text : ~Said(text)'
    BY <2>1, SaysWhat DEF Said
  <2>5. LineInv'
    BY <2>1 DEF LineInv
  <2>6. SessionInv'
    BY <2>1, <2>3, <2>4 DEF SessionInv, Awake, ReportComing, Reported
  <2>7. TruthInv'
    BY <1>1, <2>1, <2>3, <2>4 DEF TruthInv
  <2>. QED  BY <2>5, <2>6, <2>7 DEF PunctualInv
<1>3. CASE FillReport
  <2>1. /\ pc = "started" /\ tx = <<>> /\ rx = <<>> /\ pc' = "filled" /\ rx' = <<>>
        /\ tx' = IF Awake THEN <<"report">> ELSE <<>>
        /\ UNCHANGED <<on, hung, http, loaded, bearer, module_is_on>>
    BY <1>3, SentAlone DEF FillReport, PunctualInv, LineInv
  <2>2. http = "data" /\ loaded = "nothing"
    BY <2>1 DEF PunctualInv, SessionInv
  <2>3. \A text : ~Said(text)'
    BY <2>1, SaysWhat DEF Said
  <2>4. Awake' = Awake /\ ReportComing' = Awake
    BY <2>1, ReportAhead DEF Awake, ReportComing
  <2>5. LineInv'
    BY <2>1, <2>4 DEF LineInv
  <2>6. SessionInv'
    BY <2>1, <2>2, <2>3, <2>4 DEF SessionInv, Reported
  <2>7. TruthInv'
    BY <1>1, <2>1, <2>3 DEF TruthInv
  <2>. QED  BY <2>5, <2>6, <2>7 DEF PunctualInv
<1>4. CASE SendReport
  <2>1. /\ pc \in {"filled", "sendFailed"} /\ pc' = "action" /\ rx' = <<>>
        /\ tx' = (IF Awake THEN Append(tx, "HTTPACTION") ELSE tx)
        /\ code' = "sending"
        /\ UNCHANGED <<on, hung, http, loaded, bearer, module_is_on>>
    BY <1>4, CommandIs DEF SendReport, Go, Sent, Awake
  <2>2. tx \in {<<>>, <<"report">>} /\ (~Awake => tx = <<>>)
    BY <2>1 DEF PunctualInv, LineInv, SessionInv
  <2>3. \A text : ~Said(text)'
    BY <2>1, SaysWhat DEF Said
  <2>4. tx' = IF ~Awake THEN <<>> ELSE IF tx = <<>> THEN <<"HTTPACTION">>
                                   ELSE <<"report", "HTTPACTION">>
    BY <2>1, <2>2, ReportAhead, Zenon
  <2>5. Awake' = Awake /\ ReportComing' = ReportComing
    <3>1. Awake' = Awake
      BY <2>1 DEF Awake
    <3>2. ReportComing' <=> Awake /\ tx # <<>>
      BY <2>4, ReportAhead DEF ReportComing
    <3>3. ReportComing <=> tx # <<>>
      BY <2>2, ReportAhead DEF ReportComing
    <3>. QED  BY <2>2, <3>1, <3>2, <3>3
  <2>6. LineInv'
    BY <2>1, <2>4, <2>5, ReportAhead DEF LineInv
  <2>7. Awake => IF ReportComing THEN http = "data" /\ loaded = "nothing"
                                 ELSE http = "ready" /\ loaded = "report"
    <3>1. pc = "sendFailed" => ~Awake
      BY DEF PunctualInv, SessionInv
    <3>. QED  BY <2>1, <3>1 DEF PunctualInv, SessionInv
  <2>8. SessionInv'
    BY <2>1, <2>3, <2>5, <2>7 DEF SessionInv, Reported
  <2>9. TruthInv'
    BY <1>1, <2>1, <2>3 DEF TruthInv, COMM_OK
  <2>. QED  BY <2>6, <2>8, <2>9 DEF PunctualInv
<1>. QED  BY <1>2, <1>3, <1>4

(* comm_send_report, as far as its result. *)
LEMMA Results ==
    ASSUME TypeInv, PunctualInv, UNCHANGED faults,
           ActionOk \/ ActionTimeout \/ ResultOk \/ ResultTimeout
    PROVE  PunctualInv'
<1>. USE OneCommandIs DEF kept, module
<1>0. pc \in {"action", "result"} /\ rx \in Seq(Reply)
  BY DEF ActionOk, ActionTimeout, ResultOk, ResultTimeout, Answered, TimedOut, TypeInv, Lines
<1>1. module_is_on => on
  BY <1>0 DEF PunctualInv, TruthInv
<1>2. code # COMM_OK
  BY <1>0 DEF PunctualInv, TruthInv
<1>3. CASE ActionOk
  <2>1. /\ pc = "action" /\ pc' = "result" /\ Answers # {} /\ rx' = Unread
        /\ UNCHANGED <<tx, on, hung, http, loaded, bearer, module_is_on, code, delivered>>
    BY <1>3 DEF ActionOk, Answered
  <2>2. \A text : Said(text)' => Said(text)
    BY <1>0, <2>1, UnreadSaid
  <2>3. rx # <<>>
    BY <2>1 DEF Answers
  <2>4. tx \in {<<>>, <<"HTTPACTION">>}
    BY <2>1, <2>3, ReportAhead DEF PunctualInv, LineInv, ReportComing
  <2>5. LineInv'
    BY <2>1, <2>4 DEF PunctualInv, LineInv, Awake
  <2>6. ~ReportComing /\ Awake' = Awake /\ ReportComing' = ReportComing
        /\ (Reported' => Reported)
    BY <2>1, <2>2, <2>4, ReportAhead DEF ReportComing, Awake, Reported
  <2>7. SessionInv'
    BY <2>1, <2>2, <2>6 DEF PunctualInv, SessionInv
  <2>8. TruthInv'
    BY <1>1, <1>2, <2>1, <2>2 DEF PunctualInv, TruthInv
  <2>. QED  BY <2>5, <2>7, <2>8 DEF PunctualInv
<1>4. CASE ActionTimeout
  <2>1. /\ pc = "action" /\ Answers = {} /\ ~Late
        /\ pc' = "sendFailed" /\ rx' = <<>> /\ code' = COMM_ERR_RETRY
        /\ UNCHANGED <<tx, on, hung, http, loaded, bearer, module_is_on>>
    BY <1>4, PunctualTimeOut DEF ActionTimeout, TimedOut, Return
  <2>2. ~Said("OK")
    BY <2>1, AnswersAreSaid, AwaitedIs
  <2>3. ~Awake /\ tx = <<>>
    BY <2>1, <2>2 DEF PunctualInv, LineInv, Late, Awake
  <2>4. \A text : ~Said(text)'
    BY <2>1, SaysWhat DEF Said
  <2>5. LineInv'
    BY <2>1, <2>3 DEF LineInv
  <2>6. SessionInv'
    BY <2>1, <2>3, <2>4 DEF SessionInv, Awake, Reported
  <2>7. TruthInv'
    BY <1>1, <2>1, <2>4 DEF TruthInv, COMM_OK, COMM_ERR_RETRY
  <2>. QED  BY <2>5, <2>6, <2>7 DEF PunctualInv
<1>5. CASE ResultOk
  <2>1. /\ pc = "result" /\ Answers # {} /\ code' = ResultCode(rx[FirstAnswer])
        /\ Go("read", <<>>) /\ UNCHANGED <<module, delivered, module_is_on>>
    BY <1>5 DEF ResultOk, Answered
  <2>2. Reported
    BY <2>1, AnswersAreSaid DEF Reported
  <2>3. tx = <<>> /\ http = "ready"
    BY <2>2 DEF PunctualInv, SessionInv
  <2>4. code' = COMM_OK => Said("+HTTPACTION: 200")
    <3>1. FirstAnswer \in DOMAIN rx
      BY <1>0, <2>1, FirstAnswerIsAnswer DEF Answers
    <3>2. code' = COMM_OK => rx[FirstAnswer] = "+HTTPACTION: 200"
      BY <2>1 DEF ResultCode, COMM_OK, COMM_ERR_RETRY_LATER
    <3>. QED  BY <3>1, <3>2 DEF Said, Says
  <2>5. code' = COMM_OK => delivered'
    BY <2>1, <2>4 DEF PunctualInv, TruthInv
  <2>. QED  BY <1>1, <2>1, <2>3, <2>5, Goes, Quietly
<1>6. CASE ResultTimeout
  <2>1. /\ pc = "result" /\ ~Late /\ code' = COMM_ERR_RETRY_LATER
        /\ Go("check", <<>>) /\ UNCHANGED <<module, delivered, module_is_on>>
    BY <1>6, PunctualTimeOut DEF ResultTimeout, TimedOut
  <2>2. tx = <<>>
    BY <2>1 DEF PunctualInv, LineInv, Late, Awake
  <2>3. Awake => http \notin {"data", "posting"}
    BY <2>1 DEF PunctualInv, SessionInv, Late, Awake
  <2>. QED  BY <1>1, <2>1, <2>2, <2>3, Goes, Quietly DEF COMM_OK, COMM_ERR_RETRY_LATER
<1>. QED  BY <1>3, <1>4, <1>5, <1>6

LEMMA PunctualHost ==
    ASSUME TypeInv, PunctualInv, Host, UNCHANGED faults
    PROVE  PunctualInv'
  BY StepsOn, Starts, Powers, Fails, Session, Results DEF Host

(* What the module takes next, and where the library is then. *)
LEMMA NextTaken ==
    ASSUME TypeInv, PunctualInv, tx # <<>>
    PROVE  \/ /\ pc \in OneCommand /\ Head(tx) = Command[pc]
              /\ Tail(tx) = <<>> /\ rx = <<>>
              /\ Awake => http \notin {"data", "posting"}
           \/ /\ pc \in {"filled", "action"} /\ Head(tx) = "report"
              /\ IF pc = "filled" THEN Tail(tx) = <<>>
                                  ELSE Tail(tx) = <<"HTTPACTION">> /\ rx = <<>>
              /\ Awake => http = "data" /\ loaded = "nothing"
           \/ /\ pc \in {"action", "result"} /\ Head(tx) = "HTTPACTION" /\ Tail(tx) = <<>>
              /\ Awake => http = "ready" /\ loaded = "report"
<1>. USE OneCommandIs, ReportAhead
<1>1. pc \in OneCommand \cup Elsewhere \cup {"filled", "action", "result"}
  BY CommandOfStep DEF TypeInv, Control, Between, Step
<1>2. pc \notin Elsewhere
  BY DEF PunctualInv, LineInv
<1>3. Awake => http # "posting"
  BY DEF PunctualInv, SessionInv
<1>4. CASE pc \in OneCommand
  <2>1. tx = <<Command[pc]>> /\ rx = <<>>
    BY <1>4 DEF PunctualInv, LineInv
  <2>2. ~Said("DOWNLOAD")
    BY <2>1, SaysWhat DEF Said
  <2>3. Awake => http # "data"
    BY <1>4, <2>2 DEF PunctualInv, SessionInv
  <2>. QED  BY <1>3, <1>4, <2>1, <2>3
<1>5. CASE pc \in {"filled", "action", "result"}
  <2>1. tx \in {<<"report">>, <<"HTTPACTION">>, <<"report", "HTTPACTION">>}
    BY <1>5 DEF PunctualInv, LineInv
  <2>2. ReportComing => /\ pc \in {"filled", "action"}
                        /\ pc = "action" => tx = <<"report", "HTTPACTION">> /\ rx = <<>>
                        /\ pc = "filled" => tx = <<"report">>
    BY <1>5, <2>1 DEF PunctualInv, LineInv, ReportComing
  <2>3. Awake => IF ReportComing THEN http = "data" /\ loaded = "nothing"
                                 ELSE http = "ready" /\ loaded = "report"
    BY <1>3, <1>5 DEF PunctualInv, SessionInv
  <2>4. CASE ReportComing
    <3>1. Tail(<<"report">>) = <<>> /\ Tail(<<"report", "HTTPACTION">>) = <<"HTTPACTION">>
      BY ReportAhead, Zenon
    <3>2. CASE pc = "filled"
      BY <2>2, <2>3, <2>4, <3>1, <3>2 DEF ReportComing
    <3>3. CASE pc = "action"
      BY <2>2, <2>3, <2>4, <3>1, <3>3 DEF ReportComing
    <3>. QED  BY <2>2, <2>4, <3>2, <3>3
  <2>5. CASE ~ReportComing
    <3>1. tx = <<"HTTPACTION">>
      BY <2>1, <2>5 DEF ReportComing
    <3>2. pc # "filled"
      BY <3>1 DEF PunctualInv, LineInv
    <3>. QED  BY <1>5, <2>3, <2>5, <3>1, <3>2
  <2>. QED  BY <2>4, <2>5
<1>. QED  BY <1>1, <1>2, <1>4, <1>5

(* The module answers the one command there is. *)
LEMMA Replies ==
    ASSUME TypeInv, PunctualInv, pc \in OneCommand,
           NEW reply \in Seq(Reply), Take(reply),
           Len(reply) <= 1 \/ pc \in {"attach", "query", "read"},
           \A result \in Awaited["result"] : ~Says(reply, result),
           Says(reply, "DOWNLOAD") => pc = "data" /\ http' = "data" /\ loaded' = "nothing",
           Says(reply, "+SAPBR: 1,1") => pc = "query" /\ bearer,
           pc = "open" /\ reply # <<>> => bearer',
           bearer => bearer',
           http' # "posting",
           http' = "data" => Says(reply, "DOWNLOAD")
    PROVE  PunctualInv'
<1>. USE OneCommandIs, ReportAhead
<1>1. Tail(tx) = <<>> /\ rx = <<>>
  BY NextTaken DEF Take
<1>2. /\ tx' = <<>> /\ rx' = reply /\ on /\ on' /\ Awake'
      /\ UNCHANGED <<pc, code, module_is_on, delivered>>
  <2>1. <<>> \o reply = reply
    BY ConcatEmptySeq
  <2>. HIDE ReportAhead
  <2>2. tx' = Tail(tx) /\ rx' = rx \o reply
    BY DEF Take
  <2>. QED  BY <1>1, <2>1, <2>2 DEF Take, host, Awake
<1>3. \A text : Said(text)' <=> Says(reply, text)
  BY <1>2 DEF Said
<1>4. LineInv'
  BY <1>2 DEF LineInv
<1>5. ~Reported' /\ ~ReportComing'
  BY <1>2, <1>3 DEF Reported, ReportComing
<1>6. SessionInv'
  BY <1>2, <1>3, <1>5 DEF SessionInv
<1>7. ~Says(reply, "+HTTPACTION: 200")
  BY AwaitedAsResult
<1>8. pc \in {"init", "para", "data"} => bearer'
  BY DEF PunctualInv, TruthInv
<1>9. /\ code = COMM_OK => delivered /\ pc \in {"read", "term", "powd"}
      /\ module_is_on /\ pc \notin {"powd", "check", "press", "try", "at"} => on
  BY DEF PunctualInv, TruthInv
<1>10. TruthInv'
  BY <1>2, <1>3, <1>7, <1>8, <1>9 DEF TruthInv
<1>. QED  BY <1>4, <1>6, <1>10 DEF PunctualInv

(* What a step of the module that takes this command finds. *)
LEMMA Takes ==
    ASSUME TypeInv, PunctualInv, NEW command, Coming(command), Awake
    PROVE  \/ pc \in OneCommand /\ Command[pc] = command /\ http \notin {"data", "posting"}
           \/ /\ pc \in {"action", "result"} /\ command = "HTTPACTION"
              /\ http = "ready" /\ loaded = "report" /\ Tail(tx) = <<>>
  BY NextTaken DEF Coming

\* The module takes a command and says nothing that the library waits for by this name.
Plain(reply) ==
    /\ reply \in Seq(Reply) /\ Len(reply) <= 1
    /\ \A text : Says(reply, text) => text = "OK"

LEMMA PlainReplies == Plain(<<>>) /\ Plain(<<"OK">>)
<1>1. <<>> \in Seq(Reply) /\ Len(<<>>) = 0
  OBVIOUS
<1>2. "OK" \in Reply
  BY DEF Reply
<1>3. ASSUME NEW a \in Reply PROVE <<a>> \in Seq(Reply) /\ Len(<<a>>) = 1
  OBVIOUS
<1>. QED  BY <1>1, <1>2, <1>3, SaysWhat DEF Plain

LEMMA PlainStep ==
    ASSUME TypeInv, PunctualInv, pc \in OneCommand, NEW reply, Plain(reply), Take(reply),
           http' \notin {"data", "posting"},
           pc = "open" /\ reply # <<>> => bearer',
           bearer => bearer'
    PROVE  PunctualInv'
<1>1. /\ ~Says(reply, "DOWNLOAD") /\ ~Says(reply, "+SAPBR: 1,1")
      /\ \A result \in Awaited["result"] : ~Says(reply, result)
  BY AwaitedAsResult DEF Plain
<1>. QED  BY <1>1, Replies DEF Plain

\* The commands that are not about the report, and the steps that send them.
LEMMA TakenAt ==
    ASSUME NEW command, NEW step \in OneCommand, Command[step] = command
    PROVE  /\ command = "CGATT?" => step = "attach"
           /\ command = "SAPBR=2" => step = "query"
           /\ command = "SAPBR=1" => step = "open"
           /\ command = "HTTPDATA" => step = "data"
           /\ command = "HTTPREAD" => step = "read"
           /\ command = "CPOWD" => step = "powd"
           /\ command \notin {"report", "HTTPACTION"}
  BY CommandIs, OneCommandIs

(* Two texts: the module's answer and OK. *)
LEMMA AnswerAndOk ==
    ASSUME TypeInv, PunctualInv, NEW step \in {"attach", "query", "read"}, pc = step,
           NEW text \in {"+CGATT: 1", "+SAPBR: 1,1", "+HTTPREAD"}, Take(<<text, "OK">>),
           text = "+SAPBR: 1,1" => step = "query" /\ bearer,
           UNCHANGED bearer, http' \notin {"data", "posting"}
    PROVE  PunctualInv'
<1>1. <<text, "OK">> \in Seq(Reply)
  BY Texts, Zenon DEF OtherReplies
<1>2. \A other : Says(<<text, "OK">>, other) <=> other \in {text, "OK"}
  BY SaysWhat, Zenon
<1>. DEFINE reply == <<text, "OK">>
<1>3. pc \in OneCommand
  BY OneCommandIs
<1>4. Take(reply) /\ reply \in Seq(Reply)
  BY <1>1
<1>5. \A other : Says(reply, other) <=> other \in {text, "OK"}
  BY <1>2
<1>. HIDE DEF reply
<1>6. /\ ~Says(reply, "DOWNLOAD") /\ (Says(reply, "+SAPBR: 1,1") => pc = "query" /\ bearer)
      /\ \A result \in Awaited["result"] : ~Says(reply, result)
  <2>1. /\ "DOWNLOAD" \notin {text, "OK"}
        /\ "+SAPBR: 1,1" \in {text, "OK"} => text = "+SAPBR: 1,1"
        /\ \A result \in Awaited["result"] : result \notin {text, "OK"}
    BY AwaitedAsResult
  <2>. QED  BY <1>5, <2>1, Zenon
<1>. QED  BY <1>3, <1>4, <1>6, Replies, OneCommandIs

\* The commands before the HTTP service.
LEMMA TakesCommand ==
    ASSUME TypeInv, PunctualInv,
           \/ TakeAt("AT") \/ TakeAt("ATE0") \/ TakeAttach \/ TakeConf \/ TakeQuery
           \/ TakeOpen
    PROVE  PunctualInv'
<1>1. PICK command \in {"AT", "ATE0", "CGATT?", "SAPBR=3", "SAPBR=2", "SAPBR=1"} :
         Coming(command) /\ Awake
  BY DEF TakeAt, TakeAttach, TakeConf, TakeQuery, TakeOpen, Take, Awake
<1>2. pc \in OneCommand /\ Command[pc] = command /\ http \notin {"data", "posting"}
  BY <1>1, Takes
<1>3. UNCHANGED http
  BY DEF TakeAt, TakeAttach, TakeConf, TakeQuery, TakeOpen
<1>4. CASE TakeAt("AT") \/ TakeAt("ATE0") \/ TakeConf
  <2>1. \E reply \in {<<>>, <<"OK">>} : Take(reply) /\ UNCHANGED bearer
    BY <1>4 DEF TakeAt, TakeConf
  <2>2. pc # "open"
    <3>1. Head(tx) \in {"AT", "ATE0", "SAPBR=3"}
      BY <1>4 DEF TakeAt, TakeConf, Coming
    <3>2. Head(tx) = Command[pc]
      BY <1>1, <1>2 DEF Coming
    <3>. QED  BY <3>1, <3>2, CommandIs
  <2>. QED  BY <1>2, <1>3, <2>1, <2>2, PlainStep, PlainReplies
<1>5. CASE TakeAttach
  <2>1. pc = "attach"
    BY <1>1, <1>2, <1>5, TakenAt DEF TakeAttach, Coming
  <2>2. UNCHANGED bearer /\ (Take(<<"+CGATT: 1", "OK">>) \/ Take(<<"OK">>))
    BY <1>5 DEF TakeAttach
  <2>. QED  BY <1>2, <1>3, <2>1, <2>2, AnswerAndOk, PlainStep, PlainReplies
<1>6. CASE TakeQuery
  <2>1. pc = "query"
    BY <1>1, <1>2, <1>6, TakenAt DEF TakeQuery, Coming
  <2>2. UNCHANGED bearer /\ Take(IF bearer THEN <<"+SAPBR: 1,1", "OK">> ELSE <<"OK">>)
    BY <1>6 DEF TakeQuery
  <2>3. CASE bearer
    BY <1>2, <1>3, <2>1, <2>2, <2>3, AnswerAndOk
  <2>4. CASE ~bearer
    BY <1>2, <1>3, <2>1, <2>2, <2>4, PlainStep, PlainReplies
  <2>. QED  BY <2>3, <2>4
<1>7. CASE TakeOpen
  <2>1. (Take(<<"OK">>) /\ bearer' = TRUE) \/ (Take(<<>>) /\ UNCHANGED bearer)
    BY <1>7 DEF TakeOpen
  <2>. QED  BY <1>2, <1>3, <2>1, PlainStep, PlainReplies
<1>. QED  BY <1>4, <1>5, <1>6, <1>7

(* The module posts the report it was given. *)
LEMMA TakesAction ==
    ASSUME TypeInv, PunctualInv, Take(<<"OK">>), pc \in {"action", "result"},
           loaded = "report", Tail(tx) = <<>>, http' = "posting", UNCHANGED <<loaded, bearer>>
    PROVE  PunctualInv'
<1>. USE OneCommandIs
<1>1. /\ tx' = <<>> /\ Awake /\ Awake' /\ on'
      /\ UNCHANGED <<pc, code, module_is_on, delivered>>
  BY DEF Take, host, Awake
<1>2. ~ReportComing' /\ rx \in Seq(Reply) /\ <<"OK">> \in Seq(Reply)
  BY <1>1, Texts, Zenon DEF ReportComing, TypeInv, Lines, OtherReplies
<1>3. rx' = rx \o <<"OK">>
  BY DEF Take
<1>4. \A text : Said(text)' <=> Said(text) \/ text = "OK"
  BY <1>2, <1>3, SaidMore, SaysWhat
<1>5. ~Reported /\ ~Said("DOWNLOAD")
  BY DEF PunctualInv, SessionInv, Take
<1>6. ~Reported'
  BY <1>4, <1>5, AwaitedAsResult DEF Reported
<1>7. LineInv'
  BY <1>1, <1>2, <1>4 DEF LineInv
<1>8. SessionInv'
  BY <1>1, <1>2, <1>4, <1>5, <1>6 DEF SessionInv
<1>9. TruthInv'
  BY <1>1, <1>4 DEF PunctualInv, TruthInv
<1>. QED  BY <1>7, <1>8, <1>9 DEF PunctualInv

LEMMA TakesHttp ==
    ASSUME TypeInv, PunctualInv, TakeHttp
    PROVE  PunctualInv'
<1>1. PICK command \in DOMAIN Service :
         /\ Coming(command) /\ http = Service[command].from
         /\ Take(Service[command].reply) /\ http' = Service[command].to
         /\ loaded' = IF command = "HTTPDATA" THEN "nothing" ELSE loaded
         /\ UNCHANGED <<bearer, faults>>
  BY DEF TakeHttp
<1>2. Awake
  BY <1>1 DEF Take, Awake
<1>3. command \in {"HTTPINIT", "HTTPPARA", "HTTPDATA", "HTTPACTION", "HTTPREAD", "HTTPTERM"}
  BY DEF Service
<1>4. CASE command = "HTTPACTION"
  <2>1. Service[command].reply = <<"OK">> /\ Service[command].to = "posting"
    BY <1>4 DEF Service
  <2>2. pc \in {"action", "result"} /\ loaded = "report" /\ Tail(tx) = <<>>
    BY <1>1, <1>2, <1>4, Takes, TakenAt
  <2>. QED  BY <1>1, <1>4, <2>1, <2>2, TakesAction
<1>5. CASE command # "HTTPACTION"
  <2>1. pc \in OneCommand /\ Command[pc] = command
    BY <1>1, <1>2, <1>5, Takes
  <2>2. pc # "open"
    BY <1>3, <2>1, TakenAt, CommandIs
  <2>3. CASE command \in {"HTTPINIT", "HTTPPARA", "HTTPTERM"}
    <3>1. Service[command].reply = <<"OK">> /\ Service[command].to \in {"ready", "none"}
      BY <2>3 DEF Service
    <3>. QED  BY <1>1, <2>1, <2>2, <3>1, PlainStep, PlainReplies
  <2>4. CASE command = "HTTPREAD"
    <3>1. Service[command].reply = <<"+HTTPREAD", "OK">> /\ Service[command].to = "ready"
      BY <2>4 DEF Service
    <3>2. pc = "read"
      BY <2>1, <2>4, TakenAt
    <3>. QED  BY <1>1, <3>1, <3>2, AnswerAndOk
  <2>5. CASE command = "HTTPDATA"
    <3>1. Service[command].reply = <<"DOWNLOAD">> /\ Service[command].to = "data"
      BY <2>5 DEF Service
    <3>2. pc = "data" /\ loaded' = "nothing" /\ http' = "data" /\ UNCHANGED bearer
      BY <1>1, <2>1, <2>5, <3>1, TakenAt
    <3>3. <<"DOWNLOAD">> \in Seq(Reply)
      BY Texts, Zenon DEF OtherReplies
    <3>4. \A text : Says(<<"DOWNLOAD">>, text) <=> text = "DOWNLOAD"
      BY SaysWhat
    <3>5. \A result \in Awaited["result"] : result # "DOWNLOAD"
      BY AwaitedAsResult
    <3>6. Take(<<"DOWNLOAD">>)
      BY <1>1, <3>1
    <3>7. Len(<<"DOWNLOAD">>) = 1
      OBVIOUS
    <3>. DEFINE reply == <<"DOWNLOAD">>
    <3>8. /\ reply \in Seq(Reply) /\ Take(reply) /\ Len(reply) <= 1
          /\ Says(reply, "DOWNLOAD") /\ ~Says(reply, "+SAPBR: 1,1")
          /\ \A result \in Awaited["result"] : ~Says(reply, result)
      <4>1. Len(reply) <= 1
        BY <3>7
      <4>2. "+SAPBR: 1,1" # "DOWNLOAD"
        OBVIOUS
      <4>. QED  BY <3>3, <3>4, <3>5, <3>6, <4>1, <4>2, Zenon
    <3>. HIDE DEF reply
    <3>. QED  BY <2>1, <3>2, <3>8, Replies
  <2>. QED  BY <1>3, <1>5, <2>3, <2>4, <2>5
<1>. QED  BY <1>4, <1>5

(* The report comes in. *)
LEMMA TakesReport ==
    ASSUME TypeInv, PunctualInv, TakeReport
    PROVE  PunctualInv'
<1>. USE OneCommandIs
<1>1. /\ tx # <<>> /\ Head(tx) = "report" /\ Take(<<"OK">>) /\ http' = "ready"
      /\ loaded' = "report" /\ UNCHANGED bearer
  BY DEF TakeReport
<1>2. /\ pc \in {"filled", "action"}
      /\ IF pc = "filled" THEN Tail(tx) = <<>> ELSE Tail(tx) = <<"HTTPACTION">> /\ rx = <<>>
  <2>1. pc \in OneCommand => Command[pc] # "report"
    BY TakenAt
  <2>. QED  BY <1>1, <2>1, NextTaken
<1>3. /\ tx' = Tail(tx) /\ rx' = rx \o <<"OK">> /\ Awake /\ Awake'
      /\ UNCHANGED <<pc, code, module_is_on, delivered, on>>
  BY <1>1 DEF Take, host, Awake
<1>4. ~ReportComing'
  BY <1>2, <1>3, ReportAhead DEF ReportComing
<1>5. rx \in Seq(Reply) /\ <<"OK">> \in Seq(Reply)
  BY Texts, Zenon DEF TypeInv, Lines, OtherReplies
<1>6. \A text : Said(text)' <=> Said(text) \/ text = "OK"
  BY <1>3, <1>5, SaidMore, SaysWhat
<1>7. ~Reported /\ ~Said("DOWNLOAD")
  BY <1>1 DEF PunctualInv, SessionInv
<1>8. ~Reported'
  BY <1>6, <1>7, AwaitedAsResult DEF Reported
<1>9. LineInv'
  BY <1>2, <1>3, <1>4, <1>6 DEF LineInv
<1>10. SessionInv'
  BY <1>1, <1>2, <1>3, <1>4, <1>6, <1>7, <1>8 DEF SessionInv
<1>11. TruthInv'
  BY <1>1, <1>2, <1>3, <1>6 DEF PunctualInv, TruthInv
<1>. QED  BY <1>9, <1>10, <1>11 DEF PunctualInv

(* Nothing is sent into a data session but the report. *)
LEMMA NoSwallow == TypeInv /\ PunctualInv => ~(Swallow /\ Awake)
<1>. SUFFICES ASSUME TypeInv, PunctualInv, Swallow, Awake PROVE FALSE
  OBVIOUS
<1>1. http = "data" /\ tx # <<>> /\ (Head(tx) = "report" => loaded = "other")
  BY DEF Swallow
<1>. QED  BY <1>1, NextTaken

(* The data session does not end before the report comes. *)
LEMMA NoDataTimeout == PunctualInv => ~DataTimeout
<1>. SUFFICES ASSUME PunctualInv, DataTimeout PROVE FALSE
  OBVIOUS
<1>1. Awake /\ http = "data" /\ tx = <<>> /\ pc # "started" /\ ~Said("DOWNLOAD")
  BY DEF DataTimeout, Awake, Said, Says
<1>. QED  BY <1>1 DEF PunctualInv, SessionInv, ReportComing

(* The module refuses a bearer or an HTTP service, but not the report. *)
LEMMA Refuses ==
    ASSUME TypeInv, PunctualInv, Refuse
    PROVE  PunctualInv'
<1>1. Take(<<>>) /\ UNCHANGED <<bearer, http, loaded>> /\ Awake
  BY DEF Refuse, Take, Awake
<1>2. PICK command \in {"SAPBR=1", "report"} \cup DOMAIN Service :
         /\ Coming(command)
         /\ command \in DOMAIN Service => http # Service[command].from
  BY DEF Refuse, Service
<1>3. Service["HTTPACTION"].from = "ready" /\ "HTTPACTION" \in DOMAIN Service
  BY DEF Service
<1>4. pc \in OneCommand /\ http \notin {"data", "posting"}
  BY <1>1, <1>2, <1>3, Takes
<1>. QED  BY <1>1, <1>4, PlainStep, PlainReplies

(* The request ends. *)
LEMMA Posts ==
    ASSUME TypeInv, PunctualInv, NEW received \in BOOLEAN, NEW reply \in Awaited["result"],
           Posted(received, reply)
    PROVE  PunctualInv'
<1>. USE OneCommandIs
<1>1. /\ Awake /\ Awake' /\ http = "posting" /\ http' = "ready" /\ rx' = Append(rx, reply)
      /\ reply = "+HTTPACTION: 200" => received
      /\ delivered' = (delivered \/ (received /\ loaded = "report"))
      /\ UNCHANGED <<pc, code, module_is_on, tx, on, bearer, loaded>>
  BY DEF Posted, host, Awake
<1>2. pc \in {"action", "result"} /\ tx = <<>> /\ loaded = "report"
  BY <1>1 DEF PunctualInv, SessionInv
<1>3. /\ rx \in Seq(Reply) /\ <<reply>> \in Seq(Reply) /\ rx' = rx \o <<reply>>
  <2>1. rx \in Seq(Reply)
    BY DEF TypeInv, Lines
  <2>2. reply \in Reply
    BY AwaitedAsResult DEF Reply
  <2>3. \A other \in Reply : <<other>> \in Seq(Reply) /\ Append(rx, other) = rx \o <<other>>
    BY <2>1
  <2>. QED  BY <1>1, <2>1, <2>2, <2>3, Zenon
<1>4. \A text : Said(text)' <=> Said(text) \/ text = reply
  BY <1>3, SaidMore, SaysWhat
<1>5. reply \notin {"OK", "DOWNLOAD", "+SAPBR: 1,1"}
  BY AwaitedAsResult
<1>6. ~ReportComing'
  BY <1>1, <1>2 DEF ReportComing
<1>7. LineInv'
  BY <1>1, <1>2, <1>4, <1>6 DEF PunctualInv, LineInv
<1>8. SessionInv'
  BY <1>1, <1>2, <1>4, <1>5, <1>6 DEF PunctualInv, SessionInv
<1>9. Said("+HTTPACTION: 200")' => delivered'
  BY <1>1, <1>2, <1>4, Zenon DEF PunctualInv, TruthInv
<1>10. TruthInv'
  BY <1>1, <1>2, <1>4, <1>5, <1>9 DEF PunctualInv, TruthInv
<1>. QED  BY <1>7, <1>8, <1>10 DEF PunctualInv

(* The module goes off, at the command of power_off or by itself. *)
LEMMA GoesQuiet ==
    ASSUME TypeInv, PunctualInv, TakePowerDown \/ Hang
    PROVE  PunctualInv'
<1>. USE OneCommandIs
<1>1. CASE TakePowerDown
  <2>1. pc = "powd" /\ rx = <<>>
    <3>1. Coming("CPOWD") /\ Awake
      BY <1>1 DEF TakePowerDown, Awake
    <3>2. pc \in OneCommand /\ Command[pc] = "CPOWD"
      BY <3>1, Takes
    <3>. QED  BY <3>1, <3>2, TakenAt DEF Coming, PunctualInv, LineInv
  <2>2. /\ ~Awake' /\ tx' = <<>> /\ rx' = <<PowerDown>> /\ http' = "none"
        /\ UNCHANGED <<pc, code, module_is_on, delivered>>
    BY <1>1, <2>1, ReportAhead, Zenon DEF TakePowerDown, Fresh, host, Awake, PowerDown
  <2>3. \A text : Said(text)' <=> text = PowerDown
    BY <2>2, SaysWhat DEF Said
  <2>4. Len(rx') = 1
    BY <2>2
  <2>5. LineInv'
    BY <2>1, <2>2, <2>4 DEF LineInv
  <2>6. ~Reported'
    BY <2>3, AwaitedAsResult DEF Reported, PowerDown
  <2>7. SessionInv'
    BY <2>1, <2>2, <2>3, <2>6 DEF SessionInv, PowerDown
  <2>8. TruthInv'
    BY <2>1, <2>2, <2>3 DEF PunctualInv, TruthInv, PowerDown
  <2>. QED  BY <2>5, <2>7, <2>8 DEF PunctualInv
<1>2. CASE Hang
  <2>1. /\ ~Awake' /\ tx' = <<>>
        /\ UNCHANGED <<pc, rx, code, module_is_on, delivered, on, bearer, http, loaded>>
    BY <1>2 DEF Hang, host, Awake
  <2>2. \A text : Said(text)' = Said(text)
    BY <2>1 DEF Said
  <2>3. LineInv'
    BY <2>1 DEF PunctualInv, LineInv, ReportComing
  <2>4. SessionInv'
    BY <2>1, <2>2 DEF PunctualInv, SessionInv, Reported
  <2>5. TruthInv'
    BY <2>1, <2>2 DEF PunctualInv, TruthInv
  <2>. QED  BY <2>3, <2>4, <2>5 DEF PunctualInv
<1>. QED  BY <1>1, <1>2

LEMMA PunctualInit == Init => PunctualInv
<1>. SUFFICES ASSUME Init PROVE PunctualInv
  OBVIOUS
<1>. USE OneCommandIs
<1>1. /\ pc = "setup" /\ tx = <<>> /\ rx = <<>> /\ http = "none" /\ module_is_on = FALSE
      /\ code # COMM_OK
  BY DEF Init, COMM_OK, COMM_ERR_RETRY
<1>2. \A text : ~Said(text)
  BY <1>1, SaysWhat DEF Said
<1>3. LineInv
  BY <1>1 DEF LineInv
<1>4. SessionInv
  BY <1>1, <1>2 DEF SessionInv, Reported
<1>5. TruthInv
  BY <1>1, <1>2 DEF TruthInv
<1>. QED  BY <1>3, <1>4, <1>5 DEF PunctualInv

\* PunctualInv is inductive, relative to the types.
LEMMA PunctualStep == TypeInv /\ PunctualInv /\ [Next]_vars /\ [Punctual]_vars => PunctualInv'
<1>. SUFFICES ASSUME TypeInv, PunctualInv, [Next]_vars, [Punctual]_vars PROVE PunctualInv'
  OBVIOUS
<1>1. CASE UNCHANGED vars
  <2>1. UNCHANGED <<pc, tx, rx, code, module_is_on, delivered, on, hung, bearer, http, loaded>>
    BY <1>1 DEF vars, host, module
  <2>2. \A text : Said(text)' = Said(text)
    BY <2>1 DEF Said
  <2>3. Awake' = Awake /\ ReportComing' = ReportComing /\ (Reported' => Reported)
    BY <2>1, <2>2 DEF Awake, ReportComing, Reported
  <2>4. LineInv'
    BY <2>1, <2>2, <2>3 DEF PunctualInv, LineInv
  <2>5. SessionInv'
    BY <2>1, <2>2, <2>3 DEF PunctualInv, SessionInv
  <2>6. TruthInv'
    BY <2>1, <2>2 DEF PunctualInv, TruthInv
  <2>. QED  BY <2>4, <2>5, <2>6 DEF PunctualInv
<1>2. CASE Host /\ Punctual
  BY <1>2, PunctualHost DEF Punctual
<1>3. CASE Module
  <2>1. Swallow => Awake
    BY DEF Swallow, Take, Awake
  <2>. QED  BY <1>3, <2>1, TakesCommand, TakesHttp, TakesReport, NoSwallow, GoesQuiet, Refuses,
               Posts DEF Module
<1>4. CASE DataTimeout \/ Hang
  BY <1>4, NoDataTimeout, GoesQuiet
<1>. QED  BY <1>1, <1>2, <1>3, <1>4 DEF Next

\* comm_start_report returns COMM_OK with the GPRS bearer open.
Connected == pc = "started" => bearer

\* What PunctualInv says of the calls.
LEMMA PunctualCalls ==
    PunctualInv => StartOkMeansDownload /\ Connected /\ SendOkMeansDelivered /\ ModuleIsOn
<1>. SUFFICES ASSUME PunctualInv
              PROVE  StartOkMeansDownload /\ Connected /\ SendOkMeansDelivered /\ ModuleIsOn
  OBVIOUS
<1>1. StartOkMeansDownload
  BY DEF PunctualInv, SessionInv, StartOkMeansDownload
<1>2. Connected
  BY DEF PunctualInv, TruthInv, Connected
<1>3. SendOkMeansDelivered
  BY DEF PunctualInv, TruthInv, SendOkMeansDelivered
<1>4. ModuleIsOn
  BY DEF PunctualInv, TruthInv, ModuleIsOn, Between
<1>. QED  BY <1>1, <1>2, <1>3, <1>4

LEMMA PunctualAlways == Spec /\ [][Punctual]_vars => []PunctualInv
<1>1. Init => TypeInv /\ PunctualInv
  BY TypeInvInit, PunctualInit
<1>2. TypeInv /\ PunctualInv /\ [Next]_vars /\ [Punctual]_vars => (TypeInv /\ PunctualInv)'
  BY TypeInvStep, PunctualStep
<1>. QED  BY <1>1, <1>2, PTL DEF Spec

(* As long as no answer is late: comm_start_report returns COMM_OK only while the module
   waits for the report, however often commands were refused, the network was missing or
   the module hung before (gsm_communication.cpp:173-265). *)
THEOREM StartIsTrue == Spec /\ [][Punctual]_vars => []StartOkMeansDownload
  BY PunctualAlways, PunctualCalls, PTL

(* Then it also has its connection, as communication.h:25 promises: the two failures of
   ConnectedUnlessTwoFail are not any two, one of them is a late answer
   (gsm_communication.cpp:222-228). *)
THEOREM StartIsConnected == Spec /\ [][Punctual]_vars => []Connected
  BY PunctualAlways, PunctualCalls, PTL

(* And comm_send_report returns COMM_OK only for a report that the server has
   (gsm_communication.cpp:276-347). *)
THEOREM SendIsTrue == Spec /\ [][Punctual]_vars => []SendOkMeansDelivered
  BY PunctualAlways, PunctualCalls, PTL

(* And module_is_on is set between calls only for a module that has power
   (gsm_communication.cpp:135-171). *)
THEOREM ModuleIsOnIsTrue == Spec /\ [][Punctual]_vars => []ModuleIsOn
  BY PunctualAlways, PunctualCalls, PTL

----------------------------------------------------------------------------
(* One failure of any kind, a late answer among them. *)

\* Nothing behind a CGATT? ends the connection or opens a data session.
NothingBehind ==
    \A j, k \in DOMAIN tx :
        j < k /\ tx[j] = "CGATT?" => tx[k] \notin {"CPOWD", "HTTPDATA"}

\* No report is waited for, and no command on the line changes that.
Attached == on /\ http # "data" /\ ~Says(tx, "CPOWD") /\ ~Says(tx, "HTTPDATA")

\* The bearer is about to be opened: what is unread is no answer to that, nor will what
\* comes before be.
Opening ==
    /\ on /\ http # "data"
    /\ \/ pc = "open" /\ tx = <<"SAPBR=1">>
       \/ pc = "open" /\ tx = <<"SAPBR=2", "SAPBR=1">> /\ ~Said("OK")
       \/ pc = "init" /\ tx = <<"SAPBR=1", "HTTPINIT">> /\ ~Said("OK")

\* From the end of a call to the answer about the network.
BeforeNetwork == {"idle", "startFailed", "press", "try", "at", "echo", "poll", "attach"}

\* From the request for the bearer on.
FromOpen == {"open", "init", "para", "data", "started"}

\* After a late answer, as long as nothing else fails.
OneLate ==
    /\ ~hung /\ (~on => tx = <<>>)
    /\ pc \in BeforeNetwork => NothingBehind
    /\ pc = "attach" /\ Said("+CGATT: 1") => Attached
    /\ pc \in {"conf", "query"} => Attached /\ (Said("+SAPBR: 1,1") => bearer)
    /\ pc \in FromOpen => ~Says(tx, "CPOWD") /\ (bearer \/ Opening)

OneFaultInv ==
    /\ faults = 0 => PunctualInv /\ ~hung
    /\ faults = 1 => PunctualInv \/ OneLate

(* What a sequence says of texts when it loses its first or gets a last one. *)
LEMMA TailSays ==
    ASSUME NEW s \in Seq(Commands), s # <<>>, NEW text
    PROVE  /\ Says(Tail(s), text) => Says(s, text)
           /\ Says(s, Head(s))
           /\ Head(s) = s[1] /\ 1 \in DOMAIN s
           /\ \A k \in DOMAIN Tail(s) : k \in Nat /\ 1 < k + 1 /\ k + 1 \in DOMAIN s
                                       /\ Tail(s)[k] = s[k + 1]
<1>1. /\ DOMAIN Tail(s) = 1 .. Len(s) - 1 /\ Len(s) \in Nat /\ DOMAIN s = 1 .. Len(s)
      /\ \A k \in 1 .. Len(s) - 1 : Tail(s)[k] = s[k + 1]
      /\ Head(s) = s[1] /\ 1 \in DOMAIN s
  OBVIOUS
<1>2. ASSUME NEW k \in DOMAIN Tail(s), Tail(s)[k] = text PROVE Says(s, text)
  <2>1. k + 1 \in DOMAIN s /\ s[k + 1] = text
    BY <1>1, <1>2
  <2>. QED  BY <2>1 DEF Says
<1>3. Says(s, Head(s))
  BY <1>1 DEF Says
<1>4. Says(Tail(s), text) => Says(s, text)
  BY <1>2 DEF Says
<1>5. \A k \in DOMAIN Tail(s) : k \in Nat /\ 1 < k + 1 /\ k + 1 \in DOMAIN s
                                 /\ Tail(s)[k] = s[k + 1]
  BY <1>1
<1>. QED  BY <1>1, <1>3, <1>4, <1>5

LEMMA SentSays ==
    ASSUME Lines, NEW command \in Commands, tx' = Sent(command)
    PROVE  /\ \A text : Says(tx', text) => Says(tx, text) \/ text = command
           /\ NothingBehind /\ command \notin {"CPOWD", "HTTPDATA"} => NothingBehind'
<1>1. CASE tx' = tx
  BY <1>1 DEF NothingBehind
<1>2. CASE tx' = Append(tx, command)
  <2>1. /\ Len(tx) \in Nat /\ DOMAIN tx = 1 .. Len(tx) /\ DOMAIN tx' = 1 .. Len(tx) + 1
        /\ \A k \in 1 .. Len(tx) : tx'[k] = tx[k]
        /\ tx'[Len(tx) + 1] = command
    BY <1>2 DEF Lines
  <2>2. ASSUME NEW text, NEW k \in DOMAIN tx', tx'[k] = text
        PROVE  Says(tx, text) \/ text = command
    BY <2>1, <2>2 DEF Says
  <2>3. ASSUME NothingBehind, command \notin {"CPOWD", "HTTPDATA"},
               NEW j \in DOMAIN tx', NEW k \in DOMAIN tx', j < k, tx'[j] = "CGATT?"
        PROVE  tx'[k] \notin {"CPOWD", "HTTPDATA"}
    <3>1. CASE k \in DOMAIN tx
      BY <2>1, <2>3, <3>1 DEF NothingBehind
    <3>2. CASE k = Len(tx) + 1
      BY <2>1, <2>3, <3>2
    <3>. QED  BY <2>1, <3>1, <3>2
  <2>4. NothingBehind /\ command \notin {"CPOWD", "HTTPDATA"} => NothingBehind'
    BY <2>3 DEF NothingBehind
  <2>. QED  BY <2>2, <2>4 DEF Says
<1>. QED  BY <1>1, <1>2 DEF Sent

(* One command or none has nothing behind it. *)
LEMMA ShortLine ==
    /\ tx' = <<>> => NothingBehind' /\ \A text : ~Says(tx', text)
    /\ \A c : tx' = <<c>> => NothingBehind'
<1>1. tx' = <<>> => NothingBehind' /\ \A text : ~Says(tx', text)
  BY DEF NothingBehind, Says
<1>2. ASSUME NEW c, tx' = <<c>> PROVE NothingBehind'
  <2>1. DOMAIN tx' = {1}
    BY <1>2
  <2>. QED  BY <2>1 DEF NothingBehind
<1>. QED  BY <1>1, <1>2

(* The places that OneLate speaks of. *)
LEMMA Places ==
    /\ "SAPBR=1" # "CPOWD" /\ "SAPBR=2" # "CPOWD" /\ "HTTPINIT" # "CPOWD"
    /\ \A p \in BeforeNetwork : p \notin {"conf", "query"} /\ p \notin FromOpen
    /\ \A p \in {"conf", "query"} : p \notin BeforeNetwork /\ p \notin FromOpen
    /\ \A p \in FromOpen : p \notin {"conf", "query"} /\ p \notin BeforeNetwork
    /\ \A p \in {"setup", "filled", "action", "sendFailed", "result", "read", "term", "powd",
                 "check"} : p \notin {"conf", "query"} \cup BeforeNetwork \cup FromOpen
  BY DEF BeforeNetwork, FromOpen

(* Where the connection is not the matter, only the module's power is. *)
LEMMA OtherPlace ==
    ASSUME pc' \notin {"conf", "query"} \cup BeforeNetwork \cup FromOpen,
           ~hung', ~on' => tx' = <<>>
    PROVE  OneLate'
<1>1. pc' # "attach"
  BY DEF BeforeNetwork
<1>. QED  BY <1>1 DEF OneLate

LEMMA BeforePlace ==
    ASSUME pc' \in BeforeNetwork, pc' = "attach" => rx' = <<>>,
           ~hung', ~on' => tx' = <<>>, NothingBehind'
    PROVE  OneLate'
<1>1. pc' = "attach" => ~Said("+CGATT: 1")'
  <2>1. pc' = "attach" => \A text : ~Said(text)'
    BY SaysWhat DEF Said
  <2>. QED  BY <2>1
<1>2. pc' \notin {"conf", "query"} \cup FromOpen
  BY Places
<1>. QED  BY <1>1, <1>2 DEF OneLate

(* A call or a step of the library leaves the module's power as it is. *)
LEMMA PowerKept ==
    ASSUME OneLate, UNCHANGED <<on, hung>>, tx' = tx \/ \E command : tx' = Sent(command)
    PROVE  ~hung' /\ (~on' => tx' = <<>>)
  BY DEF OneLate, Sent

(* A get_reply that times out punctually leaves nothing for the module to take. *)
LEMMA NothingLeft ==
    ASSUME TypeInv, OneLate, NEW step, TimedOut(step), UNCHANGED faults
    PROVE  tx = <<>>
<1>1. ~Late
  BY PunctualTimeOut
<1>. QED  BY <1>1 DEF Late, OneLate

LEMMA LateElsewhere ==
    ASSUME TypeInv, OneLate, UNCHANGED faults,
           \/ Setup \/ PollsOver \/ FillReport \/ SendReport \/ ActionOk \/ ActionTimeout
           \/ ResultOk \/ ResultTimeout \/ ReadDone \/ TermDone \/ Abort \/ CheckOk
           \/ (EchoDone \/ PowerOnFails) /\ pc' = "powd"
    PROVE  OneLate'
<1>1. pc' \in {"filled", "action", "sendFailed", "result", "read", "term", "powd", "check"}
  BY DEF Setup, PollsOver, FillReport, SendReport, ActionOk, ActionTimeout, ResultOk,
         ResultTimeout, ReadDone, TermDone, Abort, CheckOk, GoOn, GoOnLate, Go, Return
<1>2. UNCHANGED <<on, hung>> /\ (tx' = tx \/ \E command : tx' = Sent(command))
  BY DEF Setup, PollsOver, FillReport, SendReport, ActionOk, ActionTimeout, ResultOk,
         ResultTimeout, ReadDone, TermDone, Abort, CheckOk, GoOn, GoOnLate, Go, Return,
         EchoDone, PowerOnFails, kept, module
<1>. QED  BY <1>1, <1>2, Places, PowerKept, OtherPlace

LEMMA LateBefore ==
    ASSUME TypeInv, OffInv, OneLate, UNCHANGED faults,
           \/ StartReport \/ PressKey \/ AtTry \/ AtOk \/ AtTimeout \/ Poll \/ AttachTimeout
           \/ StartFails \/ CheckTimeout \/ PowdOk \/ PowdTimeout
           \/ (EchoDone \/ PowerOnFails) /\ pc' # "powd"
    PROVE  OneLate'
<1>. USE DEF kept, module
<1>1. CASE tx' = <<>> /\ hung' = FALSE /\ pc' \in BeforeNetwork \ {"attach"}
  BY <1>1, ShortLine, BeforePlace
<1>2. ASSUME pc \in BeforeNetwork, pc' \in BeforeNetwork, pc' = "attach" => rx' = <<>>,
             UNCHANGED <<on, hung>>,
             tx' = tx \/ \E c \in {"AT", "ATE0", "CGATT?"} : tx' = Sent(c)
      PROVE  OneLate'
  <2>1. NothingBehind
    BY <1>2 DEF OneLate
  <2>2. {"AT", "ATE0", "CGATT?"} \subseteq Commands
    BY CommandIs, CommandOfStep
  <2>3. NothingBehind'
    <3>1. CASE tx' = tx
      BY <2>1, <3>1 DEF NothingBehind
    <3>2. CASE \E c \in {"AT", "ATE0", "CGATT?"} : tx' = Sent(c)
      BY <2>1, <2>2, <3>2, SentSays DEF TypeInv
    <3>. QED  BY <1>2, <3>1, <3>2
  <2>4. ~hung' /\ (~on' => tx' = <<>>)
    BY <1>2, PowerKept
  <2>. QED  BY <1>2, <2>3, <2>4, BeforePlace
<1>3. CASE StartReport \/ AtTimeout \/ AttachTimeout
  <2>1. /\ pc \in {"idle", "startFailed", "at", "attach"} /\ pc' \in {"poll", "press", "try"}
        /\ UNCHANGED <<tx, on, hung>>
    BY <1>3 DEF StartReport, AtTimeout, AttachTimeout, NextTry, TimedOut
  <2>. QED  BY <1>2, <2>1 DEF BeforeNetwork
<1>4. CASE PressKey
  <2>1. pc = "press" /\ pc' = "try"
    BY <1>4 DEF PressKey
  <2>2. (tx' = <<>> /\ hung' = FALSE) \/ UNCHANGED <<tx, on, hung>>
    BY <1>4 DEF PressKey, Fresh
  <2>. QED  BY <1>1, <1>2, <2>1, <2>2 DEF BeforeNetwork
<1>5. CASE AtTry \/ AtOk \/ Poll
  <2>1. /\ pc \in {"try", "at", "poll"} /\ pc' \in {"at", "echo", "attach"}
        /\ pc' = "attach" => rx' = <<>>
        /\ \E c \in {"AT", "ATE0", "CGATT?"} : tx' = Sent(c)
        /\ UNCHANGED <<on, hung>>
    BY <1>5, CommandIs DEF AtTry, AtOk, GoOn, Answered, Poll, Go
  <2>. QED  BY <1>2, <2>1 DEF BeforeNetwork
<1>6. CASE (EchoDone \/ PowerOnFails) /\ pc' # "powd"
  <2>1. /\ pc \in {"echo", "try"} /\ pc' \in {"poll", "startFailed"}
        /\ UNCHANGED <<tx, on, hung>>
    BY <1>6 DEF EchoDone, Answered, TimedOut, PowerOnFails
  <2>. QED  BY <1>2, <2>1 DEF BeforeNetwork
<1>7. CASE StartFails
  <2>1. PICK step : TimedOut(step) /\ pc' = "startFailed" /\ UNCHANGED <<tx, on, hung>>
    BY <1>7 DEF StartFails, Return
  <2>2. hung' = FALSE /\ tx' = <<>>
    BY <2>1, NothingLeft DEF OneLate, TypeInv, Flags
  <2>. QED  BY <1>1, <2>1, <2>2 DEF BeforeNetwork
<1>8. CASE CheckTimeout
  BY <1>1, <1>8 DEF CheckTimeout, Fresh, BeforeNetwork
<1>9. CASE PowdOk
  <2>1. pc = "powd" /\ Answers # {} /\ pc' = "idle" /\ UNCHANGED <<tx, on, hung>>
    BY <1>9 DEF PowdOk, PowerOff, Answered
  <2>2. PowerDownUnread
    BY <2>1, AwaitedByPowerOff DEF Answers, PowerDownUnread
  <2>3. ~on
    BY <2>1, <2>2 DEF OffInv
  <2>4. hung' = FALSE /\ tx' = <<>>
    BY <2>1, <2>3 DEF OneLate, TypeInv, Flags
  <2>. QED  BY <1>1, <2>1, <2>4 DEF BeforeNetwork
<1>10. CASE PowdTimeout
  <2>1. TimedOut("powd") /\ pc' = "idle" /\ UNCHANGED <<tx, on, hung>>
    BY <1>10 DEF PowdTimeout, PowerOff
  <2>2. hung' = FALSE /\ tx' = <<>>
    BY <2>1, NothingLeft DEF OneLate, TypeInv, Flags
  <2>. QED  BY <1>1, <2>1, <2>2 DEF BeforeNetwork
<1>. QED  BY <1>3, <1>4, <1>5, <1>6, <1>7, <1>8, <1>9, <1>10

(* The answer about the network comes from a module that will connect. *)
LEMMA LateConnects ==
    ASSUME TypeInv, OneLate, UNCHANGED faults,
           \/ GoOn("attach", "conf", <<>>) \/ GoOn("conf", "query", Unread)
           \/ GoOn("query", "init", <<>>) \/ QueryTimeout
    PROVE  OneLate'
<1>. USE DEF kept, module
<1>1. /\ UNCHANGED <<on, hung, bearer, http>> /\ pc \in {"attach", "conf", "query"}
      /\ pc' \in {"conf", "query", "init", "open"}
      /\ tx' = Sent(Command[pc'])
  BY DEF GoOn, GoOnLate, QueryTimeout, Answered, TimedOut, Go
<1>2. ~hung' /\ (~on' => tx' = <<>>)
  BY <1>1, PowerKept
<1>3. pc = "attach" => Said("+CGATT: 1")
  BY <1>1, AnswersAreSaid, AwaitedIs DEF GoOn, QueryTimeout, GoOnLate, TimedOut, Answered
<1>4. Attached
  BY <1>1, <1>3 DEF OneLate
<1>5. /\ Command[pc'] \in Commands /\ Command[pc'] \notin {"CPOWD", "HTTPDATA", "CGATT?"}
      /\ Command["open"] = "SAPBR=1"
  BY <1>1, CommandOfStep, CommandIs
<1>6. ~Says(tx', "CPOWD") /\ ~Says(tx', "HTTPDATA")
  BY <1>1, <1>4, <1>5, SentSays DEF Attached, TypeInv
<1>7. Attached'
  BY <1>1, <1>4, <1>6 DEF Attached
<1>8. CASE pc' \in {"conf", "query"}
  <2>1. rx' = <<>> \/ (pc = "conf" /\ Answers # {} /\ rx' = Unread)
    BY <1>8 DEF GoOn, GoOnLate, QueryTimeout, Answered, Go
  <2>2. \A text : Said(text)' => pc = "conf" /\ Said(text)
    <3>1. CASE rx' = <<>>
      BY <3>1, SaysWhat DEF Said
    <3>2. CASE pc = "conf" /\ Answers # {} /\ rx' = Unread
      BY <3>2, UnreadSaid DEF TypeInv, Lines
    <3>. QED  BY <2>1, <3>1, <3>2
  <2>3. Said("+SAPBR: 1,1")' => bearer'
    BY <1>1, <2>2 DEF OneLate
  <2>4. pc' \notin BeforeNetwork \cup FromOpen /\ pc' # "attach"
    BY <1>8, Places
  <2>. QED  BY <1>2, <1>7, <1>8, <2>3, <2>4 DEF OneLate
<1>9. CASE pc' = "init"
  <2>1. pc = "query" /\ Answers # {}
    BY <1>9 DEF GoOn, GoOnLate, QueryTimeout, Answered, Go
  <2>2. Said("+SAPBR: 1,1")
    BY <2>1, AnswersAreSaid, AwaitedIs
  <2>3. bearer'
    BY <1>1, <2>1, <2>2 DEF OneLate
  <2>4. pc' \notin BeforeNetwork /\ pc' \notin {"conf", "query", "attach"}
    BY <1>9, Places DEF FromOpen
  <2>. QED  BY <1>2, <1>6, <2>3, <2>4 DEF OneLate
<1>10. CASE pc' = "open"
  <2>1. TimedOut("query")
    BY <1>10 DEF GoOn, QueryTimeout, GoOnLate, Go
  <2>2. tx = <<>>
    BY <2>1, NothingLeft
  <2>3. on /\ ~hung /\ http # "data"
    BY <1>4 DEF Attached, OneLate
  <2>4. tx' = <<"SAPBR=1">>
    BY <1>1, <1>5, <1>10, <2>2, <2>3, ReportAhead, Zenon DEF Sent
  <2>5. Opening'
    BY <1>1, <1>10, <2>3, <2>4 DEF Opening
  <2>6. pc' \notin BeforeNetwork /\ pc' \notin {"conf", "query", "attach"}
    BY <1>10, Places DEF FromOpen
  <2>. QED  BY <1>2, <1>6, <2>5, <2>6 DEF OneLate
<1>. QED  BY <1>1, <1>8, <1>9, <1>10

(* With the bearer open, or an answer to come that says so, the session is prepared. *)
LEMMA LateSession ==
    ASSUME TypeInv, OneLate, UNCHANGED faults,
           \/ GoOn("open", "init", <<>>) \/ GoOn("init", "para", Unread)
           \/ GoOn("para", "data", <<>>) \/ DataOk
    PROVE  OneLate'
<1>. USE DEF kept, module
<1>1. /\ UNCHANGED <<on, hung, bearer, http>> /\ pc \in {"open", "init", "para", "data"}
      /\ pc' \in {"init", "para", "data", "started"} /\ Answers # {}
      /\ pc' # "started" => tx' = Sent(Command[pc'])
      /\ pc' = "started" => tx' = tx
      /\ pc = "open" <=> pc' = "init"
      /\ pc = "open" => rx' = <<>>
  BY DEF GoOn, DataOk, Answered, Go, Return
<1>2. ~hung' /\ (~on' => tx' = <<>>)
  BY <1>1, PowerKept
<1>3. pc \in FromOpen /\ pc' \in FromOpen
  BY <1>1 DEF FromOpen
<1>4. ~Says(tx', "CPOWD")
  <2>1. pc' # "started" => Command[pc'] \in Commands /\ Command[pc'] # "CPOWD"
    BY <1>1, CommandOfStep, CommandIs
  <2>2. ~Says(tx, "CPOWD")
    BY <1>3 DEF OneLate
  <2>. QED  BY <1>1, <2>1, <2>2, SentSays DEF TypeInv
<1>5. bearer' \/ Opening'
  <2>1. CASE bearer
    BY <1>1, <2>1
  <2>2. CASE ~bearer
    <3>1. Opening
      BY <1>3, <2>2 DEF OneLate
    <3>2. pc \in {"open", "init"} => Said("OK")
      <4>1. Awaited["open"] = {"OK"} /\ Awaited["init"] = {"OK"}
        BY DEF Awaited, Step, Command
      <4>. QED  BY <1>1, <4>1, AnswersAreSaid
    <3>3. pc = "open" /\ tx = <<"SAPBR=1">> /\ on /\ http # "data"
      BY <3>1, <3>2 DEF Opening
    <3>4. tx' = <<"SAPBR=1", "HTTPINIT">>
      <4>1. pc' = "init" /\ tx' = Append(tx, "HTTPINIT")
        BY <1>1, <3>3, CommandIs DEF OneLate, Sent
      <4>. QED  BY <3>3, <4>1, ReportAhead, Zenon
    <3>5. ~Said("OK")'
      BY <1>1, <3>3, SaysWhat DEF Said
    <3>. QED  BY <1>1, <3>3, <3>4, <3>5 DEF Opening
  <2>. QED  BY <2>1, <2>2
<1>6. pc' \notin BeforeNetwork /\ pc' \notin {"conf", "query", "attach"}
  BY <1>1, <1>3, Places
<1>. QED  BY <1>2, <1>4, <1>5, <1>6 DEF OneLate

LEMMA LateHost == TypeInv /\ OffInv /\ OneLate /\ Host /\ UNCHANGED faults => OneLate'
  BY LateElsewhere, LateBefore, LateConnects, LateSession DEF Host, StepOk

LEMMA OneFurther == \A m, n \in Nat : m < n => m + 1 < n + 1
  OBVIOUS

(* The module takes a command and answers it. *)
LEMMA LateTaking ==
    ASSUME TypeInv, OneLate, NEW reply \in Seq(Reply), Take(reply),
           bearer => bearer',
           http' = "data" => http = "data" \/ Head(tx) = "HTTPDATA",
           Says(reply, "+CGATT: 1") => Head(tx) = "CGATT?" /\ http # "data",
           Says(reply, "+SAPBR: 1,1") => bearer,
           Opening => bearer' \/ Opening'
    PROVE  OneLate'
<1>1. /\ tx # <<>> /\ tx' = Tail(tx) /\ rx' = rx \o reply /\ on' /\ ~hung'
      /\ UNCHANGED pc
  BY DEF Take, host
<1>2. tx \in Seq(Commands) /\ rx \in Seq(Reply)
  BY DEF TypeInv, Lines
<1>3. \A text : Says(tx', text) => Says(tx, text)
  BY <1>1, <1>2, TailSays
<1>4. Says(tx, Head(tx))
  BY <1>1, <1>2, TailSays
<1>5. NothingBehind => NothingBehind'
  <2>. SUFFICES ASSUME NothingBehind, NEW j \in DOMAIN tx', NEW k \in DOMAIN tx',
                       j < k, tx'[j] = "CGATT?"
                PROVE  tx'[k] \notin {"CPOWD", "HTTPDATA"}
    BY DEF NothingBehind
  <2>1. /\ j \in Nat /\ k \in Nat /\ j + 1 \in DOMAIN tx /\ k + 1 \in DOMAIN tx
        /\ tx'[j] = tx[j + 1] /\ tx'[k] = tx[k + 1]
    BY <1>1, <1>2, TailSays
  <2>2. j + 1 < k + 1
    BY <2>1, OneFurther, Zenon
  <2>3. tx[j + 1] = "CGATT?"
    BY <2>1
  <2>. QED  BY <2>1, <2>2, <2>3 DEF NothingBehind
<1>6. \A text : Said(text)' <=> Said(text) \/ Says(reply, text)
  BY <1>1, <1>2, SaidMore
<1>7. Attached => Attached'
  BY <1>1, <1>3, <1>4 DEF Attached
<1>8. ASSUME pc = "attach", Says(reply, "+CGATT: 1") PROVE Attached'
  <2>1. NothingBehind /\ Head(tx) = "CGATT?" /\ http' # "data"
    <3>1. "attach" \in BeforeNetwork
      BY DEF BeforeNetwork
    <3>. QED  BY <1>8, <3>1 DEF OneLate
  <2>2. /\ tx[1] = "CGATT?" /\ 1 \in DOMAIN tx
        /\ \A i \in DOMAIN tx' : 1 < i + 1 /\ i + 1 \in DOMAIN tx /\ tx'[i] = tx[i + 1]
    BY <1>1, <1>2, <2>1, TailSays
  <2>3. \A i \in DOMAIN tx' : tx'[i] \notin {"CPOWD", "HTTPDATA"}
    <3>. SUFFICES ASSUME NEW i \in DOMAIN tx' PROVE tx'[i] \notin {"CPOWD", "HTTPDATA"}
      OBVIOUS
    <3>1. i + 1 \in DOMAIN tx /\ 1 < i + 1 /\ tx'[i] = tx[i + 1]
      BY <2>2
    <3>. QED  BY <2>1, <2>2, <3>1 DEF NothingBehind
  <2>4. ~Says(tx', "CPOWD") /\ ~Says(tx', "HTTPDATA")
    BY <2>3 DEF Says
  <2>. QED  BY <1>1, <2>1, <2>4 DEF Attached
<1>9. pc' = "attach" /\ Said("+CGATT: 1")' => Attached'
  BY <1>1, <1>6, <1>7, <1>8 DEF OneLate
<1>10. pc' \in {"conf", "query"} => Attached' /\ (Said("+SAPBR: 1,1")' => bearer')
  BY <1>1, <1>6, <1>7 DEF OneLate
<1>11. pc' \in FromOpen => ~Says(tx', "CPOWD") /\ (bearer' \/ Opening')
  BY <1>1, <1>3 DEF OneLate
<1>12. pc' \in BeforeNetwork => NothingBehind'
  BY <1>1, <1>5 DEF OneLate
<1>. QED  BY <1>1, <1>9, <1>10, <1>11, <1>12 DEF OneLate

(* Nothing but the two commands about the bearer is taken while it is about to be opened. *)
LEMMA OpeningHead ==
    Opening => /\ tx # <<>> /\ http # "data"
               /\ Head(tx) = "SAPBR=1" \/ (Head(tx) = "SAPBR=2" /\ Tail(tx) = <<"SAPBR=1">>)
<1>1. /\ <<"SAPBR=1">> # <<>> /\ Head(<<"SAPBR=1">>) = "SAPBR=1"
      /\ <<"SAPBR=2", "SAPBR=1">> # <<>> /\ Head(<<"SAPBR=2", "SAPBR=1">>) = "SAPBR=2"
      /\ Tail(<<"SAPBR=2", "SAPBR=1">>) = <<"SAPBR=1">>
      /\ <<"SAPBR=1", "HTTPINIT">> # <<>> /\ Head(<<"SAPBR=1", "HTTPINIT">>) = "SAPBR=1"
  BY ReportAhead, Zenon
<1>. QED  BY <1>1, Zenon DEF Opening

LEMMA LateTakes ==
    ASSUME TypeInv, OneLate, UNCHANGED faults,
           \/ TakeAt("AT") \/ TakeAt("ATE0") \/ TakeAttach \/ TakeConf \/ TakeQuery \/ TakeOpen
           \/ TakeHttp \/ TakeReport \/ Swallow \/ Refuse
    PROVE  OneLate'
<1>1. ~Fault
  BY DEF TypeInv, Control, Fault
<1>2. \A text : ~Says(<<>>, text) /\ (Says(<<"OK">>, text) => text = "OK")
  BY SaysWhat
<1>3. /\ \A text : Says(<<"+CGATT: 1", "OK">>, text) => text \in {"+CGATT: 1", "OK"}
      /\ \A text : Says(<<"+SAPBR: 1,1", "OK">>, text) => text \in {"+SAPBR: 1,1", "OK"}
      /\ \A text : Says(<<"+HTTPREAD", "OK">>, text) => text \in {"+HTTPREAD", "OK"}
      /\ \A text : Says(<<"DOWNLOAD">>, text) => text = "DOWNLOAD"
  BY SaysWhat, Zenon
<1>4. \A reply \in OtherReplies : reply \in Seq(Reply)
  BY DEF OtherReplies
<1>5. CASE TakeAt("AT") \/ TakeAt("ATE0") \/ TakeConf
  <2>1. PICK reply \in {<<>>, <<"OK">>} : Take(reply)
    BY <1>5 DEF TakeAt, TakeConf
  <2>2. /\ reply \in Seq(Reply) /\ ~Says(reply, "+CGATT: 1") /\ ~Says(reply, "+SAPBR: 1,1")
        /\ UNCHANGED <<bearer, http>> /\ ~Opening
    <3>1. reply \in Seq(Reply)
      BY <1>4, <2>1, Texts
    <3>2. ~Says(reply, "+CGATT: 1") /\ ~Says(reply, "+SAPBR: 1,1")
      BY <1>2, <2>1
    <3>3. UNCHANGED <<bearer, http>> /\ ~Opening
      BY <1>5, OpeningHead DEF TakeAt, TakeConf, Coming
    <3>. QED  BY <3>1, <3>2, <3>3
  <2>. QED  BY <2>1, <2>2, LateTaking
<1>6. CASE TakeAttach
  <2>1. Take(<<"+CGATT: 1", "OK">>) /\ UNCHANGED <<bearer, http>> /\ ~Opening
        /\ Head(tx) = "CGATT?" /\ http # "data"
    BY <1>1, <1>6, OpeningHead DEF TakeAttach, Coming
  <2>2. <<"+CGATT: 1", "OK">> \in Seq(Reply) /\ ~Says(<<"+CGATT: 1", "OK">>, "+SAPBR: 1,1")
    <3>1. "+SAPBR: 1,1" \notin {"+CGATT: 1", "OK"}
      OBVIOUS
    <3>. QED  BY <1>3, <1>4, <3>1, Texts, Zenon
  <2>. QED  BY <2>1, <2>2, LateTaking
<1>7. CASE TakeQuery
  <2>1. /\ Take(IF bearer THEN <<"+SAPBR: 1,1", "OK">> ELSE <<"OK">>)
        /\ UNCHANGED <<bearer, http>> /\ Head(tx) = "SAPBR=2"
    BY <1>7 DEF TakeQuery, Coming
  <2>2. CASE bearer
    <3>1. <<"+SAPBR: 1,1", "OK">> \in Seq(Reply) /\ ~Says(<<"+SAPBR: 1,1", "OK">>, "+CGATT: 1")
      <4>1. "+CGATT: 1" \notin {"+SAPBR: 1,1", "OK"}
        OBVIOUS
      <4>. QED  BY <1>3, <1>4, <4>1, Texts, Zenon
    <3>2. Take(<<"+SAPBR: 1,1", "OK">>)
      BY <2>1, <2>2, Zenon
    <3>. QED  BY <2>1, <2>2, <3>1, <3>2, LateTaking
  <2>3. CASE ~bearer
    <3>1. Take(<<"OK">>) /\ <<"OK">> \in Seq(Reply)
      BY <1>4, <2>1, <2>3, Texts, Zenon
    <3>2. ~Says(<<"OK">>, "+CGATT: 1") /\ ~Says(<<"OK">>, "+SAPBR: 1,1")
      <4>1. "+CGATT: 1" # "OK" /\ "+SAPBR: 1,1" # "OK"
        OBVIOUS
      <4>. QED  BY <1>2, <4>1, Zenon
    <3>3. Opening => Opening'
      <4>. SUFFICES ASSUME Opening PROVE Opening'
        OBVIOUS
      <4>1. tx = <<"SAPBR=2", "SAPBR=1">> /\ pc = "open" /\ on /\ http # "data"
        <5>1. Head(<<"SAPBR=1">>) = "SAPBR=1" /\ Head(<<"SAPBR=1", "HTTPINIT">>) = "SAPBR=1"
          BY ReportAhead, Zenon
        <5>2. "SAPBR=1" # "SAPBR=2"
          OBVIOUS
        <5>. QED  BY <2>1, <5>1, <5>2, Zenon DEF Opening
      <4>2. Tail(tx) = <<"SAPBR=1">>
        BY <4>1, ReportAhead, Zenon
      <4>3. tx' = Tail(tx) /\ UNCHANGED <<pc, on>>
        BY <3>1 DEF Take, host
      <4>. QED  BY <2>1, <4>1, <4>2, <4>3 DEF Opening
    <3>. QED  BY <2>1, <3>1, <3>2, <3>3, LateTaking
  <2>. QED  BY <2>2, <2>3
<1>8. CASE TakeOpen
  <2>1. Take(<<"OK">>) /\ bearer' = TRUE /\ UNCHANGED http
    BY <1>1, <1>8 DEF TakeOpen
  <2>2. <<"OK">> \in Seq(Reply) /\ ~Says(<<"OK">>, "+CGATT: 1") /\ ~Says(<<"OK">>, "+SAPBR: 1,1")
    <3>1. "+CGATT: 1" # "OK" /\ "+SAPBR: 1,1" # "OK"
      OBVIOUS
    <3>. QED  BY <1>2, <1>4, <3>1, Texts, Zenon
  <2>. QED  BY <2>1, <2>2, LateTaking
<1>9. CASE TakeHttp
  <2>1. PICK command \in DOMAIN Service :
           /\ Coming(command) /\ Take(Service[command].reply)
           /\ http' = Service[command].to /\ UNCHANGED bearer
    BY <1>9 DEF TakeHttp
  <2>2. /\ Service[command].reply \in {<<"OK">>, <<"DOWNLOAD">>, <<"+HTTPREAD", "OK">>}
        /\ command # "HTTPDATA" => Service[command].to # "data"
        /\ command \notin {"SAPBR=1", "SAPBR=2"}
    BY DEF Service
  <2>. DEFINE reply == Service[command].reply
  <2>3. /\ reply \in Seq(Reply) /\ ~Says(reply, "+CGATT: 1") /\ ~Says(reply, "+SAPBR: 1,1")
    <3>1. reply \in Seq(Reply)
      BY <1>4, <2>2, Texts, Zenon
    <3>2. /\ "+CGATT: 1" \notin {"OK", "DOWNLOAD", "+HTTPREAD"}
          /\ "+SAPBR: 1,1" \notin {"OK", "DOWNLOAD", "+HTTPREAD"}
      OBVIOUS
    <3>3. \A text : Says(reply, text) => text \in {"OK", "DOWNLOAD", "+HTTPREAD"}
      BY <1>2, <1>3, <2>2, Zenon
    <3>. QED  BY <3>1, <3>2, <3>3
  <2>. HIDE DEF reply
  <2>4. Take(reply)
    BY <2>1 DEF reply
  <2>5. Head(tx) = command /\ ~Opening
    BY <2>1, <2>2, OpeningHead DEF Coming
  <2>. QED  BY <2>1, <2>2, <2>3, <2>4, <2>5, LateTaking
<1>10. CASE TakeReport \/ Swallow \/ Refuse
  <2>1. PICK reply \in {<<>>, <<"OK">>} : Take(reply)
    BY <1>10 DEF TakeReport, Swallow, Refuse
  <2>2. reply \in Seq(Reply) /\ ~Says(reply, "+CGATT: 1") /\ ~Says(reply, "+SAPBR: 1,1")
    <3>1. reply \in Seq(Reply)
      BY <1>4, <2>1, Texts
    <3>2. ~Says(reply, "+CGATT: 1") /\ ~Says(reply, "+SAPBR: 1,1")
      BY <1>2, <2>1
    <3>. QED  BY <3>1, <3>2
  <2>3. UNCHANGED bearer /\ (http' = "data" => http = "data")
    BY <1>10 DEF TakeReport, Swallow, Refuse
  <2>4. Opening => bearer'
    <3>1. \A command \in DOMAIN Service : command \notin {"SAPBR=1", "SAPBR=2"}
      BY DEF Service
    <3>. QED  BY <1>10, <2>3, <3>1, OpeningHead DEF TakeReport, Swallow, Refuse, Coming
  <2>. QED  BY <2>1, <2>2, <2>3, <2>4, LateTaking
<1>. QED  BY <1>5, <1>6, <1>7, <1>8, <1>9, <1>10

LEMMA AppendOne ==
    ASSUME NEW s \in Seq(Reply), NEW a \in Reply
    PROVE  <<a>> \in Seq(Reply) /\ Append(s, a) = s \o <<a>>
  OBVIOUS

(* Where the library is about to connect no power down is under way; elsewhere it is
   welcome. *)
LEMMA LatePowersDown ==
    ASSUME TypeInv, OneLate, TakePowerDown
    PROVE  OneLate'
<1>1. /\ on' = FALSE /\ hung' = FALSE /\ tx' = <<>> /\ rx' = Append(rx, PowerDown)
      /\ UNCHANGED pc /\ tx # <<>> /\ Head(tx) = "CPOWD"
  BY DEF TakePowerDown, Fresh, Coming, host, PowerDown
<1>2. tx \in Seq(Commands) /\ rx \in Seq(Reply)
  BY DEF TypeInv, Lines
<1>3. Says(tx, "CPOWD")
  BY <1>1, <1>2, TailSays
<1>4. ~Attached /\ pc \notin {"conf", "query"} \cup FromOpen
  BY <1>3 DEF Attached, OneLate
<1>5. Said("+CGATT: 1")' => Said("+CGATT: 1")
  <2>1. <<PowerDown>> \in Seq(Reply) /\ rx' = rx \o <<PowerDown>>
    <3>1. PowerDown \in Reply
      BY DEF Reply, PowerDown
    <3>. QED  BY <1>1, <1>2, <3>1, AppendOne, Zenon
  <2>2. \A text : Said(text)' <=> Said(text) \/ text = PowerDown
    BY <1>2, <2>1, SaidMore, SaysWhat
  <2>. QED  BY <2>2 DEF PowerDown
<1>6. NothingBehind'
  BY <1>1, ShortLine
<1>. QED  BY <1>1, <1>4, <1>5, <1>6 DEF OneLate

(* The result of a request, or the end of a data session, is unread. *)
LEMMA LateText ==
    ASSUME TypeInv, OneLate,
           DataTimeout \/ \E received \in BOOLEAN, reply \in Awaited["result"] :
                             Posted(received, reply)
    PROVE  OneLate'
<1>1. /\ UNCHANGED <<pc, tx, on, hung, bearer>> /\ http' = "ready"
      /\ \/ rx' = Append(rx, "OK") /\ http = "data"
         \/ \E reply \in Awaited["result"] : rx' = Append(rx, reply)
  BY DEF DataTimeout, Posted, host
<1>2. PICK reply \in {"OK", "+HTTPACTION: 200", "+HTTPACTION: other"} :
         rx' = Append(rx, reply) /\ (reply = "OK" => http = "data")
  BY <1>1, AwaitedAsResult
<1>3. \A text : Said(text)' <=> Said(text) \/ text = reply
  <2>1. reply \in Reply /\ rx \in Seq(Reply)
    BY DEF TypeInv, Lines, Reply
  <2>2. <<reply>> \in Seq(Reply) /\ rx' = rx \o <<reply>>
    BY <1>2, <2>1, AppendOne, Zenon
  <2>. QED  BY <2>1, <2>2, SaidMore, SaysWhat
<1>4. /\ Said("+CGATT: 1")' => Said("+CGATT: 1")
      /\ Said("+SAPBR: 1,1")' => Said("+SAPBR: 1,1")
      /\ http # "data" /\ Said("OK")' => Said("OK")
  <2>1. "+CGATT: 1" # reply /\ "+SAPBR: 1,1" # reply
    OBVIOUS
  <2>. QED  BY <1>2, <1>3, <2>1
<1>5. Attached => Attached'
  BY <1>1 DEF Attached
<1>6. Opening => Opening'
  BY <1>1, <1>4 DEF Opening
<1>7. NothingBehind => NothingBehind'
  BY <1>1 DEF NothingBehind
<1>. QED  BY <1>1, <1>4, <1>5, <1>6, <1>7 DEF OneLate

LEMMA LateModule ==
    TypeInv /\ OneLate /\ (Module \/ DataTimeout) /\ UNCHANGED faults => OneLate'
  BY LateTakes, LatePowersDown, LateText DEF Module

(* A step times out while the module is about to react: the line was empty before its
   command, or had the report on it. *)
LEMMA LateBegins ==
    ASSUME TypeInv, PunctualInv, ~hung, Host, faults' # faults
    PROVE  OneLate'
<1>. USE OneCommandIs DEF kept, module
<1>1. ASSUME NEW step, TimedOut(step) PROVE pc = step /\ on /\ ~hung
  BY <1>1 DEF TimedOut, Late
<1>2. ASSUME NEW step \in OneCommand, TimedOut(step)
      PROVE  pc = step /\ tx = <<Command[step]>> /\ http # "data"
  <2>1. pc = step /\ on /\ ~hung /\ Late
    BY <1>2 DEF TimedOut, Late
  <2>2. tx # <<>>
    BY <2>1, OneCommandIs DEF Late
  <2>. QED  BY <2>1, <2>2, NextTaken DEF PunctualInv, LineInv, Awake
<1>3. CASE ActionTimeout \/ ResultTimeout \/ ReadDone \/ TermDone \/ (EchoDone /\ pc' = "powd")
  <2>1. PICK step : TimedOut(step) /\ UNCHANGED <<on, hung>>
    BY <1>3 DEF ActionTimeout, Return, ResultTimeout, ReadDone, TermDone, GoOn, GoOnLate, EchoDone
  <2>2. pc' \in {"sendFailed", "check", "term", "powd"}
    BY <1>3 DEF ActionTimeout, Return, ResultTimeout, ReadDone, TermDone, GoOn, GoOnLate, Go
  <2>. QED  BY <1>1, <2>1, <2>2, Places, OtherPlace
<1>4. CASE AtTimeout \/ AttachTimeout \/ StartFails \/ PowdTimeout \/ (EchoDone /\ pc' # "powd")
  <2>1. PICK step \in OneCommand : TimedOut(step) /\ UNCHANGED <<tx, on, hung>>
    BY <1>4 DEF AtTimeout, AttachTimeout, NextTry, StartFails, Return, PowdTimeout, PowerOff,
                EchoDone
  <2>2. pc' \in BeforeNetwork /\ pc' # "attach"
    BY <1>4 DEF AtTimeout, AttachTimeout, NextTry, StartFails, Return, PowdTimeout, PowerOff,
                EchoDone, BeforeNetwork
  <2>3. NothingBehind'
    BY <1>2, <2>1, ShortLine
  <2>. QED  BY <1>1, <2>1, <2>2, <2>3, BeforePlace
<1>5. CASE CheckTimeout
  BY <1>5, ShortLine, BeforePlace DEF CheckTimeout, Fresh, BeforeNetwork
<1>6. CASE QueryTimeout
  <2>1. /\ TimedOut("query") /\ pc' = "open" /\ rx' = <<>> /\ tx' = Sent("SAPBR=1")
        /\ UNCHANGED <<on, hung, http>>
    BY <1>6, CommandIs DEF QueryTimeout, GoOnLate, Go
  <2>2. on /\ ~hung /\ tx = <<"SAPBR=2">> /\ http # "data"
    BY <1>1, <1>2, <2>1, CommandIs
  <2>3. tx' = <<"SAPBR=2", "SAPBR=1">>
    BY <2>1, <2>2, ReportAhead, Zenon DEF Sent
  <2>4. ~Said("OK")'
    <3>1. \A text : ~Said(text)'
      BY <2>1, SaysWhat DEF Said
    <3>. QED  BY <3>1
  <2>5. ~Says(tx', "CPOWD")
    <3>1. "CPOWD" \notin {"SAPBR=2", "SAPBR=1"}
      OBVIOUS
    <3>. QED  BY <2>3, <3>1, SaysWhat, Zenon
  <2>6. Opening'
    BY <2>1, <2>2, <2>3, <2>4 DEF Opening
  <2>7. pc' \in FromOpen /\ pc' \notin BeforeNetwork \cup {"conf", "query", "attach"}
    BY <2>1, Places DEF FromOpen
  <2>. QED  BY <2>1, <2>2, <2>5, <2>6, <2>7 DEF OneLate
<1>7. Host => \/ ActionTimeout \/ ResultTimeout \/ ReadDone \/ TermDone \/ EchoDone \/ AtTimeout
              \/ AttachTimeout \/ StartFails \/ PowdTimeout \/ CheckTimeout \/ QueryTimeout
  BY DEF Host, Setup, StartReport, PressKey, AtTry, AtOk, PowerOnFails, Poll, PollsOver,
         StepOk, DataOk, FillReport, SendReport, ActionOk, ResultOk, Abort, CheckOk, PowdOk, GoOn
<1>. QED  BY <1>3, <1>4, <1>5, <1>6, <1>7

(* A module hangs by a failure only. *)
LEMMA HungByFault == TypeInv /\ ~hung /\ [Next]_vars /\ UNCHANGED faults => ~hung'
<1>. SUFFICES ASSUME TypeInv, ~hung, [Next]_vars, UNCHANGED faults PROVE ~hung'
  OBVIOUS
<1>. USE DEF kept, module, host
<1>1. CASE UNCHANGED vars
  BY <1>1 DEF vars
<1>2. CASE Host
  BY <1>2 DEF Host, Setup, StartReport, PressKey, Fresh, AtTry, AtOk, GoOn, AtTimeout, NextTry,
       EchoDone, PowerOnFails, Poll, AttachTimeout, PollsOver, StepOk, QueryTimeout, GoOnLate,
       DataOk, Return, StartFails, FillReport, SendReport, ActionOk, ActionTimeout, ResultOk,
       ResultTimeout, ReadDone, TermDone, Abort, CheckOk, CheckTimeout, PowdOk, PowdTimeout,
       PowerOff
<1>3. CASE Module \/ DataTimeout
  BY <1>3 DEF Module, TakeAt, TakeAttach, TakeConf, TakeQuery, TakeOpen, TakeHttp, TakeReport,
       Swallow, TakePowerDown, Fresh, Refuse, Posted, DataTimeout, Take
<1>4. ~Hang
  BY DEF Hang, Fault, TypeInv, Control
<1>. QED  BY <1>1, <1>2, <1>3, <1>4 DEF Next

\* OneFaultInv is inductive, relative to the types and OffInv.
LEMMA OneFaultStep == TypeInv /\ OffInv /\ OneFaultInv /\ [Next]_vars => OneFaultInv'
<1>. SUFFICES ASSUME TypeInv, OffInv, OneFaultInv, [Next]_vars PROVE OneFaultInv'
  OBVIOUS
<1>0. faults \in Nat
  BY DEF TypeInv, Control
<1>1. UNCHANGED faults \/ faults' = faults + 1
  <2>2. CASE UNCHANGED vars
    BY <2>2 DEF vars
  <2>3. CASE Host
    BY <2>3 DEF Host, Setup, StartReport, PressKey, AtTry, AtOk, GoOn, AtTimeout, NextTry,
       EchoDone, PowerOnFails, Poll, AttachTimeout, PollsOver, StepOk, QueryTimeout, GoOnLate,
       DataOk, StartFails, FillReport, SendReport, ActionOk, ActionTimeout, ResultOk,
       ResultTimeout, ReadDone, TermDone, Abort, CheckOk, CheckTimeout, PowdOk, PowdTimeout,
       TimedOut, Fault, GoOnLate, Return, PowerOff, Fresh, kept, module
  <2>4. CASE Module \/ DataTimeout \/ Hang
    BY <2>4 DEF Module, TakeAt, TakeAttach, TakeConf, TakeQuery, TakeOpen, TakeHttp, TakeReport,
       Swallow, TakePowerDown, Refuse, Posted, DataTimeout, Hang, Fault, Take, Fresh, kept, host, module
  <2>. QED  BY <2>2, <2>3, <2>4 DEF Next
<1>2. CASE PunctualInv /\ Punctual
  <2>1. PunctualInv'
    BY <1>2, PunctualStep
  <2>2. faults' = 0 => faults = 0 /\ UNCHANGED faults
    BY <1>0, <1>1
  <2>. QED  BY <2>1, <2>2, HungByFault DEF OneFaultInv
<1>3. CASE PunctualInv /\ ~Punctual
  <2>1. Host /\ faults' = faults + 1
    BY <1>0, <1>1, <1>3 DEF Punctual
  <2>2. faults = 0 => OneLate'
    BY <1>3, <2>1, LateBegins DEF OneFaultInv
  <2>. QED  BY <1>0, <1>1, <2>1, <2>2 DEF OneFaultInv
<1>4. CASE ~PunctualInv
  <2>1. faults >= 1 /\ (faults = 1 => OneLate)
    BY <1>0, <1>1, <1>4 DEF OneFaultInv
  <2>2. CASE faults' = 1
    <3>1. faults = 1 /\ UNCHANGED faults /\ OneLate
      BY <1>0, <1>1, <2>1, <2>2
    <3>2. ~Hang
      BY <1>0, <1>1, <3>1 DEF Hang, Fault
    <3>3. CASE UNCHANGED vars
      <4>1. UNCHANGED <<pc, tx, rx, on, hung, bearer, http>>
        BY <3>3 DEF vars, host, module
      <4>2. /\ \A text : Said(text)' = Said(text) 
            /\ Attached' = Attached /\ NothingBehind' = NothingBehind
        BY <4>1 DEF Said, Attached, NothingBehind
      <4>3. Opening' = Opening
        BY <4>1, <4>2 DEF Opening
      <4>4. OneLate'
        BY <3>1, <4>1, <4>2, <4>3 DEF OneLate
      <4>. QED  BY <2>2, <4>4 DEF OneFaultInv
    <3>4. CASE Next
      <4>1. OneLate'
        BY <3>1, <3>2, <3>4, LateHost, LateModule DEF Next
      <4>. QED  BY <2>2, <4>1 DEF OneFaultInv
    <3>. QED  BY <3>3, <3>4
  <2>3. CASE faults' # 1
    BY <1>0, <1>1, <2>1, <2>3 DEF OneFaultInv
  <2>. QED  BY <2>2, <2>3
<1>. QED  BY <1>2, <1>3, <1>4

(* One failure alone never leaves a started report without its connection, in whichever
   way the module fails the library: when the answer to SAPBR=2 is late and taken for that
   to SAPBR=1, the bearer is opened before the next answer is read
   (gsm_communication.cpp:214-228). *)
THEOREM OneFailureConnects == Spec => []ConnectedUnlessTwoFail
<1>1. Init => TypeInv /\ OffInv /\ OneFaultInv
  BY TypeInvInit, OffInit, PunctualInit DEF Init, OneFaultInv
<1>2. TypeInv /\ OffInv /\ OneFaultInv /\ [Next]_vars => (TypeInv /\ OffInv /\ OneFaultInv)'
  BY TypeInvStep, OffStep, OneFaultStep
<1>3. TypeInv /\ OneFaultInv => ConnectedUnlessTwoFail
  <2>. SUFFICES ASSUME TypeInv, OneFaultInv, pc = "started", faults < 2 PROVE bearer
    BY DEF ConnectedUnlessTwoFail, TypeInv, Control
  <2>1. PunctualInv \/ OneLate
    BY DEF OneFaultInv, TypeInv, Control
  <2>2. PunctualInv => bearer
    BY DEF PunctualInv, TruthInv
  <2>3. OneLate => bearer
    BY DEF OneLate, FromOpen, Opening
  <2>. QED  BY <2>1, <2>2, <2>3
<1>. QED  BY <1>1, <1>2, <1>3, PTL DEF Spec
=============================================================================

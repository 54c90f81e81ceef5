---------------------------------- MODULE GsmModem ----------------------------------
(***************************************************************************)
(* The GSM communication library, src/GSMCommunication/                     *)
(* gsm_communication.cpp, talking AT commands to the SIM800 module over a   *)
(* serial line, called the way setup() and reporting_task call it.          *)
(*                                                                          *)
(* Everything the library knows of the module it reads from the line:       *)
(* get_reply sends a command and takes whatever comes in until it sees the  *)
(* text it waits for or runs out of time.  The module answers in order, but *)
(* an answer may come after its time is up, and is then read by a later     *)
(* get_reply or dropped by a flush_input.  A reply is a sequence of the     *)
(* texts some step waits for; what no step waits for (ERROR) is left out.   *)
(*                                                                          *)
(* The module itself is external: it does what the code relies on.  Every   *)
(* way in which it lets the code down counts as a fault, up to MAX_FAULTS:  *)
(* a late answer, a refused command, a missing network, or hanging itself   *)
(* up until the next hardware reset.                                        *)
(***************************************************************************)
EXTENDS Integers, Sequences

CONSTANTS
    MAX_AT_TRIES,            \* 10
    MAX_POLLS,               \* rounds of the loop on GPRS availability (60)
    START_COMM_MAX_RETRIES,  \* calls reporting_task makes of a failing function (5)
    MAX_FAULTS               \* bound: how often the module fails the code

ASSUME GsmAssumption ==
    /\ MAX_AT_TRIES \in Nat \ {0}
    /\ MAX_POLLS \in Nat
    /\ START_COMM_MAX_RETRIES \in Nat \ {0}
    /\ MAX_FAULTS \in Nat

VARIABLES
    pc,            \* the step the library is at, or between which calls
    tries,         \* of the loop it is in
    calls,         \* of the function reporting_task is retrying
    code,          \* what the call in progress, or the last one, returns
    module_is_on,
    shut,          \* the last power_off was answered
    tx, rx,        \* commands the module has yet to take, replies the library has
    on, hung,      \* the module has power; it does not react
    bearer,        \* its GPRS bearer is open
    http,          \* its HTTP service
    loaded,        \* the data it would post
    delivered,     \* the server has received the current report
    faults

host == <<pc, tries, calls, code, module_is_on, shut>>
module == <<on, hung, bearer, http, loaded>>
vars == <<host, tx, rx, module, delivered, faults>>

COMM_OK == "COMM_OK"
COMM_ERR_RETRY == "COMM_ERR_RETRY"
COMM_ERR_RETRY_LATER == "COMM_ERR_RETRY_LATER"

\* Between calls: before comm_setup, without a report, after comm_start_report
\* and comm_fill_report, and after either of start and send returned COMM_ERR_RETRY.
Between == {"setup", "idle", "started", "filled", "startFailed", "sendFailed"}

\* The steps: each sends a command (result only waits) and awaits a reply.
Command == [
    at |-> "AT", echo |-> "ATE0", attach |-> "CGATT?", conf |-> "SAPBR=3",
    query |-> "SAPBR=2", open |-> "SAPBR=1", init |-> "HTTPINIT", para |-> "HTTPPARA",
    data |-> "HTTPDATA", action |-> "HTTPACTION", read |-> "HTTPREAD",
    term |-> "HTTPTERM", powd |-> "CPOWD", check |-> "AT"]

Step == DOMAIN Command \cup {"result"}

Reply == {"OK", "+CGATT: 1", "+SAPBR: 1,1", "DOWNLOAD", "+HTTPACTION: 200",
          "+HTTPACTION: other", "+HTTPREAD", "NORMAL POWER DOWN"}

Awaited == [s \in Step |->
    CASE s = "attach" -> {"+CGATT: 1"}
      [] s = "query" -> {"+SAPBR: 1,1"}
      [] s = "data" -> {"DOWNLOAD"}
      [] s = "result" -> {"+HTTPACTION: 200", "+HTTPACTION: other"}
      [] s = "read" -> {"+HTTPREAD"}
      [] s = "powd" -> {"NORMAL POWER DOWN"}
      [] OTHER -> {"OK"}]

Http == {"none", "ready", "data", "posting"}

TypeOK ==
    /\ pc \in Between \cup Step \cup {"press", "try", "poll"}
    /\ tries \in 0 .. MAX_AT_TRIES + MAX_POLLS
    /\ calls \in 0 .. START_COMM_MAX_RETRIES
    /\ code \in {COMM_OK, COMM_ERR_RETRY, COMM_ERR_RETRY_LATER, "starting", "sending"}
    /\ module_is_on \in BOOLEAN
    /\ shut \in BOOLEAN
    /\ tx \in Seq({Command[s] : s \in DOMAIN Command} \cup {"report"})
    /\ rx \in Seq(Reply)
    /\ on \in BOOLEAN
    /\ hung \in BOOLEAN
    /\ bearer \in BOOLEAN
    /\ http \in Http
    /\ loaded \in {"nothing", "report", "other"}
    /\ delivered \in BOOLEAN
    /\ faults \in 0 .. MAX_FAULTS

Fault == faults < MAX_FAULTS /\ faults' = faults + 1

----------------------------------------------------------------------------
\* The serial line and get_reply.

\* A module that is off or hung does not take commands.
Sent(command) == IF on /\ ~hung THEN Append(tx, command) ELSE tx

\* The library goes to a step with these replies still unread.
Go(step, unread) ==
    /\ pc' = step
    /\ rx' = unread
    /\ tx' = Sent(Command[step])

Answers == {k \in DOMAIN rx : rx[k] \in Awaited[pc]}
FirstAnswer == CHOOSE k \in Answers : \A q \in Answers : k <= q

\* get_reply at this step returns COMM_OK, and what came after the answer is unread.
Answered(step) == pc = step /\ Answers # {}
Unread == SubSeq(rx, FirstAnswer + 1, Len(rx))

\* get_reply at this step returns COMM_ERR_RETRY, and has read everything. If the
\* module was still going to react, it was late.
Late == on /\ ~hung /\ (tx # <<>> \/ (http = "posting" /\ pc = "result"))
TimedOut(step) ==
    /\ pc = step
    /\ Answers = {}
    /\ IF Late THEN Fault ELSE UNCHANGED faults

----------------------------------------------------------------------------
\* The module.

\* The module restarts, or loses its power.
Fresh(power) ==
    /\ on' = power
    /\ hung' = FALSE
    /\ bearer' = FALSE
    /\ http' = "none"
    /\ loaded' = "nothing"
    /\ tx' = <<>>

Init ==
    /\ pc = "setup"
    /\ tries = 0 /\ calls = 0
    /\ code = COMM_ERR_RETRY
    /\ module_is_on = FALSE
    /\ shut = FALSE
    /\ tx = <<>> /\ rx = <<>>
    /\ on \in BOOLEAN /\ hung = FALSE
    /\ bearer = FALSE /\ http = "none" /\ loaded = "nothing"
    /\ delivered = FALSE
    /\ faults = 0

\* It takes the next command, and answers.
Take(reply) ==
    /\ on /\ ~hung /\ tx # <<>>
    /\ tx' = Tail(tx)
    /\ rx' = rx \o reply
    /\ UNCHANGED <<host, on, hung, delivered>>

\* In a data session what it gets is data, not commands.
Coming(command) == http # "data" /\ tx # <<>> /\ Head(tx) = command

TakeAt(command) ==
    /\ Coming(command) /\ Take(<<"OK">>)
    /\ UNCHANGED <<bearer, http, loaded, faults>>

TakeAttach ==
    /\ Coming("CGATT?")
    /\ \/ Take(<<"+CGATT: 1", "OK">>) /\ UNCHANGED faults
       \/ Take(<<"OK">>) /\ Fault
    /\ UNCHANGED <<bearer, http, loaded>>

TakeConf ==
    /\ Coming("SAPBR=3")
    /\ \/ Take(<<"OK">>) /\ UNCHANGED faults
       \/ Take(<<>>) /\ Fault
    /\ UNCHANGED <<bearer, http, loaded>>

TakeQuery ==
    /\ Coming("SAPBR=2") /\ Take(IF bearer THEN <<"+SAPBR: 1,1", "OK">> ELSE <<"OK">>)
    /\ UNCHANGED <<bearer, http, loaded, faults>>

TakeOpen ==
    /\ Coming("SAPBR=1") /\ ~bearer
    /\ \/ Take(<<"OK">>) /\ bearer' = TRUE /\ UNCHANGED faults
       \/ Take(<<>>) /\ Fault /\ UNCHANGED bearer
    /\ UNCHANGED <<http, loaded>>

\* The commands of the HTTP service: its state before, the reply, its state after.
Service == [
    HTTPINIT |-> [from |-> "none", reply |-> <<"OK">>, to |-> "ready"],
    HTTPPARA |-> [from |-> "ready", reply |-> <<"OK">>, to |-> "ready"],
    HTTPDATA |-> [from |-> "ready", reply |-> <<"DOWNLOAD">>, to |-> "data"],
    HTTPACTION |-> [from |-> "ready", reply |-> <<"OK">>, to |-> "posting"],
    HTTPREAD |-> [from |-> "ready", reply |-> <<"+HTTPREAD", "OK">>, to |-> "ready"],
    HTTPTERM |-> [from |-> "ready", reply |-> <<"OK">>, to |-> "none"]]

TakeHttp == \E command \in DOMAIN Service :
    /\ Coming(command) /\ http = Service[command].from
    /\ Take(Service[command].reply) /\ http' = Service[command].to
    /\ loaded' = IF command = "HTTPDATA" THEN "nothing" ELSE loaded
    /\ UNCHANGED <<bearer, faults>>

\* The announced number of bytes has come in.
TakeReport ==
    /\ http = "data" /\ loaded = "nothing" /\ tx # <<>> /\ Head(tx) = "report"
    /\ Take(<<"OK">>) /\ http' = "ready" /\ loaded' = "report"
    /\ UNCHANGED <<bearer, faults>>

\* Whatever else it gets as data may or may not be all that it waits for.
Swallow ==
    /\ http = "data" /\ tx # <<>> /\ (Head(tx) = "report" => loaded = "other")
    /\ \/ Take(<<>>) /\ UNCHANGED http
       \/ Take(<<"OK">>) /\ http' = "ready"
    /\ loaded' = "other"
    /\ UNCHANGED <<bearer, faults>>

\* The data session ends after a minute, which is long: not before DOWNLOAD is read
\* and the report is on its way.
DataTimeout ==
    /\ on /\ ~hung /\ http = "data" /\ tx = <<>>
    /\ pc # "started" /\ \A k \in DOMAIN rx : rx[k] # "DOWNLOAD"
    /\ http' = "ready"
    /\ rx' = Append(rx, "OK")
    /\ UNCHANGED <<host, tx, on, hung, bearer, loaded, delivered, faults>>

\* The request ends: the server received it or not, and it is answered or not.
Posted(received, reply) ==
    /\ on /\ ~hung /\ http = "posting"
    /\ received => bearer
    /\ reply = "+HTTPACTION: 200" => received
    /\ http' = "ready"
    /\ rx' = Append(rx, reply)
    /\ delivered' = (delivered \/ (received /\ loaded = "report"))
    /\ UNCHANGED <<host, tx, on, hung, bearer, loaded, faults>>

TakePowerDown ==
    /\ on /\ ~hung
    /\ Coming("CPOWD")
    /\ Fresh(FALSE)
    /\ rx' = Append(rx, "NORMAL POWER DOWN")
    /\ UNCHANGED <<host, delivered, faults>>

\* What does not fit its state it refuses: a bearer or an HTTP service that is there
\* is not opened again, and one that is not there does nothing.
Refuse ==
    /\ \/ Coming("SAPBR=1") /\ bearer
       \/ \E command \in DOMAIN Service : Coming(command) /\ http # Service[command].from
       \/ Coming("report")
    /\ Take(<<>>)
    /\ UNCHANGED <<bearer, http, loaded, faults>>

Hang ==
    /\ on /\ ~hung
    /\ Fault
    /\ hung' = TRUE
    /\ tx' = <<>>
    /\ UNCHANGED <<host, rx, on, bearer, http, loaded, delivered>>

Module ==
    \/ TakeAt("AT")
    \/ TakeAt("ATE0")
    \/ TakeAttach
    \/ TakeConf
    \/ TakeQuery
    \/ TakeOpen
    \/ TakeHttp
    \/ TakeReport
    \/ Swallow
    \/ TakePowerDown
    \/ Refuse
    \/ \E received \in BOOLEAN, reply \in Awaited["result"] : Posted(received, reply)

----------------------------------------------------------------------------
\* The library.

\* What most steps leave alone.
kept == <<calls, module_is_on, shut, module, delivered>>

\* A step is answered, or not in time, and another one follows; of unread replies
\* those go on that are not flushed.
GoOn(step, next, unread) ==
    Answered(step) /\ Go(next, unread) /\ UNCHANGED <<kept, tries, code, faults>>
GoOnLate(step, next) ==
    TimedOut(step) /\ Go(next, <<>>) /\ UNCHANGED <<kept, tries, code>>

\* A round of a loop is over.
NextTry(step, loop) ==
    /\ TimedOut(step)
    /\ pc' = loop /\ tries' = tries + 1 /\ rx' = <<>>
    /\ UNCHANGED <<kept, code, tx>>

\* A call returns.
Return(to, result, unread) ==
    /\ pc' = to /\ code' = result /\ rx' = unread
    /\ UNCHANGED <<kept, tries, tx>>

\* comm_setup aborts whatever the module was doing before the reset.
Setup == pc = "setup" /\ Go("check", <<>>) /\ UNCHANGED <<kept, tries, code, faults>>

\* comm_start_report, for a new report or again. What the module has loaded is not
\* the new report.
StartReport ==
    /\ \/ pc = "idle" /\ calls' = 1 /\ delivered' = FALSE
          /\ loaded' = IF loaded = "report" THEN "other" ELSE loaded
       \/ pc = "startFailed" /\ calls < START_COMM_MAX_RETRIES /\ calls' = calls + 1
          /\ UNCHANGED <<delivered, loaded>>
    /\ code' = "starting"
    /\ pc' = IF module_is_on THEN "poll" ELSE "press"
    /\ tries' = 0
    /\ UNCHANGED <<module_is_on, shut, tx, rx, on, hung, bearer, http, faults>>

\* power_on: the power key turns the module on, and may turn it off.
PressKey ==
    /\ pc = "press"
    /\ pc' = "try" /\ tries' = 0
    /\ \/ ~on /\ Fresh(TRUE)
       \/ on /\ Fresh(FALSE)
       \/ on /\ UNCHANGED <<module, tx>>
    /\ UNCHANGED <<calls, code, module_is_on, shut, rx, delivered, faults>>

AtTry ==
    /\ pc = "try" /\ tries < MAX_AT_TRIES
    /\ Go("at", <<>>)
    /\ UNCHANGED <<kept, tries, code, faults>>

AtOk == GoOn("at", "echo", Unread)

\* Mutation of AtTimeout: the try is not counted.
AtTimeoutUncounted ==
    /\ TimedOut("at")
    /\ pc' = "try" /\ rx' = <<>>
    /\ UNCHANGED <<kept, tries, code, tx>>

AtTimeout == NextTry("at", "try")

\* What comes after power_on: comm_start_report polls the network, comm_abort goes
\* on to power_off.
Starting == code = "starting"

EchoDone ==
    /\ \/ Answered("echo") /\ rx' = Unread /\ UNCHANGED faults
       \/ TimedOut("echo") /\ rx' = <<>>
    /\ module_is_on' = TRUE
    /\ pc' = IF Starting THEN "poll" ELSE "powd"
    /\ tx' = IF Starting THEN tx ELSE Sent("CPOWD")
    /\ tries' = 0
    /\ UNCHANGED <<calls, code, shut, module, delivered>>

PowerOnFails ==
    /\ pc = "try" /\ tries = MAX_AT_TRIES
    /\ module_is_on' = FALSE
    /\ pc' = IF Starting THEN "startFailed" ELSE "powd"
    /\ tx' = IF Starting THEN tx ELSE Sent("CPOWD")
    /\ code' = IF Starting THEN COMM_ERR_RETRY ELSE code
    /\ tries' = 0
    /\ UNCHANGED <<calls, shut, rx, module, delivered, faults>>

\* The loop on GPRS availability.
Poll ==
    /\ pc = "poll" /\ tries < MAX_POLLS
    /\ Go("attach", <<>>)
    /\ UNCHANGED <<kept, tries, code, faults>>

AttachTimeout == NextTry("attach", "poll")

PollsOver ==
    /\ pc = "poll" /\ tries = MAX_POLLS
    /\ code' = COMM_ERR_RETRY_LATER
    /\ Go("powd", rx)
    /\ UNCHANGED <<kept, tries, faults>>

\* The steps of comm_start_report that go on with the next one when they are
\* answered. Some flush the line first.
StepOk ==
    \/ GoOn("attach", "conf", <<>>)
    \/ GoOn("conf", "query", Unread)
    \/ GoOn("query", "init", <<>>)
    \/ GoOn("open", "init", <<>>)
    \/ GoOn("init", "para", Unread)
    \/ GoOn("para", "data", <<>>)

\* The bearer is not open yet.
QueryTimeout == GoOnLate("query", "open")

\* Mutation of DataOk: DOWNLOAD is awaited but not checked for.
DataUnchecked ==
    \/ Answered("data") /\ Return("started", COMM_OK, Unread) /\ UNCHANGED faults
    \/ TimedOut("data") /\ Return("started", COMM_OK, <<>>)

DataOk == Answered("data") /\ Return("started", COMM_OK, Unread) /\ UNCHANGED faults

\* Mutation of StartFails: opening the bearer is not checked, like the query before it.
StartFailsNotOpen ==
    \/ \E step \in {"conf", "init", "para", "data"} :
           TimedOut(step) /\ Return("startFailed", COMM_ERR_RETRY, <<>>)
    \/ GoOnLate("open", "init")

StartFails ==
    \E step \in {"conf", "open", "init", "para", "data"} :
        TimedOut(step) /\ Return("startFailed", COMM_ERR_RETRY, <<>>)

\* comm_fill_report, of the whole report.
FillReport ==
    /\ pc = "started"
    /\ pc' = "filled" /\ calls' = 0
    /\ tx' = Sent("report")
    /\ UNCHANGED <<tries, code, module_is_on, shut, rx, module, delivered, faults>>

\* comm_send_report, or again after COMM_ERR_RETRY.
SendReport ==
    /\ pc \in {"filled", "sendFailed"} /\ calls < START_COMM_MAX_RETRIES
    /\ calls' = calls + 1
    /\ code' = "sending"
    /\ Go("action", <<>>)
    /\ UNCHANGED <<tries, module_is_on, shut, module, delivered, faults>>

\* The result of the request is awaited without sending anything.
ActionOk ==
    /\ Answered("action")
    /\ pc' = "result" /\ rx' = Unread
    /\ UNCHANGED <<kept, tries, code, tx, faults>>

ActionTimeout == TimedOut("action") /\ Return("sendFailed", COMM_ERR_RETRY, <<>>)

\* Mutation of ResultCode: any status is a success.
AnyResultCode(reply) == IF reply \in Reply THEN COMM_OK ELSE COMM_ERR_RETRY_LATER

\* The HTTP status decides what is returned, whatever comes after.
ResultCode(reply) ==
    IF reply = "+HTTPACTION: 200" THEN COMM_OK ELSE COMM_ERR_RETRY_LATER

ResultOk ==
    /\ Answered("result")
    /\ code' = ResultCode(rx[FirstAnswer])
    /\ Go("read", <<>>)
    /\ UNCHANGED <<kept, tries, faults>>

\* The request is aborted.
ResultTimeout ==
    /\ TimedOut("result")
    /\ code' = COMM_ERR_RETRY_LATER
    /\ Go("check", <<>>)
    /\ UNCHANGED <<kept, tries>>

\* The answer of the server is read and flushed; neither it nor the end of the HTTP
\* session is checked.
ReadDone == GoOn("read", "term", <<>>) \/ GoOnLate("read", "term")
TermDone == GoOn("term", "powd", Unread) \/ GoOnLate("term", "powd")

\* comm_abort, called by reporting_task.
Abort ==
    /\ pc \in {"startFailed", "sendFailed"} /\ calls = START_COMM_MAX_RETRIES
    /\ Go("check", rx)
    /\ UNCHANGED <<kept, tries, code, faults>>

CheckOk == GoOn("check", "powd", Unread)

\* Mutation of CheckTimeout: the reset pin is not pulled.
CheckTimeoutNoReset ==
    /\ TimedOut("check")
    /\ pc' = "press" /\ rx' = <<>>
    /\ UNCHANGED <<kept, tries, code, tx>>

\* The module is stuck: reset it by its pin. It was on or off.
CheckTimeout ==
    /\ TimedOut("check")
    /\ pc' = "press" /\ rx' = <<>>
    /\ \E power \in BOOLEAN : Fresh(power)
    /\ UNCHANGED <<calls, module_is_on, shut, delivered, tries, code>>

\* power_off, the end of every call but a start that goes on or may be retried.
PowerOff(answered) ==
    /\ pc' = "idle" /\ rx' = <<>>
    /\ module_is_on' = FALSE /\ shut' = answered
    /\ UNCHANGED <<tries, calls, code, tx, module, delivered>>

\* Mutation of PowdOk: module_is_on is left set.
PowdOkStillOn ==
    /\ Answered("powd")
    /\ pc' = "idle" /\ rx' = <<>> /\ shut' = TRUE
    /\ UNCHANGED <<tries, calls, code, module_is_on, tx, module, delivered, faults>>

PowdOk == Answered("powd") /\ PowerOff(TRUE) /\ UNCHANGED faults

\* Mutation of PowdTimeout: power_off does not return what get_reply did.
PowdTimeoutOk == TimedOut("powd") /\ PowerOff(TRUE)

PowdTimeout == TimedOut("powd") /\ PowerOff(FALSE)

Host ==
    \/ Setup \/ StartReport \/ PressKey \/ AtTry \/ AtOk \/ AtTimeout \/ EchoDone
    \/ PowerOnFails \/ Poll \/ AttachTimeout \/ PollsOver \/ StepOk \/ QueryTimeout
    \/ DataOk \/ StartFails \/ FillReport \/ SendReport \/ ActionOk \/ ActionTimeout
    \/ ResultOk \/ ResultTimeout \/ ReadDone \/ TermDone \/ Abort \/ CheckOk
    \/ CheckTimeout \/ PowdOk \/ PowdTimeout

Next == Host \/ Module \/ DataTimeout \/ Hang

\* The library's loops run to their time-outs; the module reacts, its data session
\* ends; reporting_task is run again and again by the scheduler.
Fairness == WF_vars(Host) /\ WF_vars(Module) /\ WF_vars(DataTimeout)

Spec == Init /\ [][Next]_vars /\ Fairness

----------------------------------------------------------------------------
\* comm_start_report returns COMM_OK only while the module really waits for data:
\* no late answer of an earlier command, try or session is taken for DOWNLOAD.
StartOkMeansDownload == pc = "started" => http = "data"

\* And it returns COMM_OK without a connection, against communication.h:25, only when
\* two failures meet: the OK of SAPBR=2 comes late, as l.225 sends SAPBR=1 without a flush
\* and takes it for the answer, and the bearer is refused.
ConnectedUnlessTwoFail == pc = "started" /\ ~bearer => faults >= 2

\* comm_send_report returns COMM_OK only when the server has this report.
SendOkMeansDelivered ==
    (code = COMM_OK /\ pc \in {"read", "term", "powd", "idle"}) => delivered

\* module_is_on is all comm_start_report goes by: between calls, where it is set, the
\* module has power.
ModuleIsOn == (pc \in Between /\ module_is_on) => on

\* comm_abort and power_off return COMM_OK only when the module is off.
AbortOkMeansOff == (pc = "idle" /\ shut) => ~on

\* Every call of the library returns.
CallsReturn == pc \notin Between ~> pc \in Between

\* Whatever went wrong, data sessions are opened again, once the module does not
\* fail any more.
EventuallyStarts == []<>(pc = "started")

=============================================================================

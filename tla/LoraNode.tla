-------------------------------- MODULE LoraNode --------------------------------
(***************************************************************************)
(* The LoRa library, src/LORACommunication/lora_communication.cpp and       *)
(* lora_jobs.cpp, on the run loop of LMIC (external).  comm_setup and       *)
(* comm_send_report are started by jobs of the run loop and, while they     *)
(* wait, call os_runloop_once themselves: jobs and events may then run      *)
(* inside them.  The routines that wait are the frames of a stack; one      *)
(* step is one job or event, or one return.                                 *)
(*                                                                          *)
(* Each translation unit has its own copy of the static osjob_t's of        *)
(* lora_jobs.h; that of the sketch runs once, and the others are all those  *)
(* of lora_communication.cpp, so there is one of each here.  The blinking   *)
(* job and the received payload are left out.                               *)
(***************************************************************************)
EXTENDS Naturals, Sequences

CONSTANT
    MAX_DEPTH   \* bound: routines inside each other (the code has none)

ASSUME LoraAssumption == MAX_DEPTH \in Nat \ {0}

VARIABLES
    isJoined, isSent,
    lora_setup, lora_report,  \* the jobs: not queued, queued for later, or due
    radio,      \* LMIC: off, joining, or in a session
    packet,     \* the frame that queued the packet, or Orphan when it has returned
    busy,       \* OP_TXRXPEND: the packet is on the air
    stack,      \* the routines that wait, the innermost last
    last,       \* history: the fate of the packet of the last COMM_OK of
                \*   comm_send_report
    rejoined    \* history: comm_setup has run again after a join

vars == <<isJoined, isSent, lora_setup, lora_report, radio, packet, busy, stack, last, rejoined>>

Job == {"none", "timed", "due"}
NoPacket == 0
Orphan == MAX_DEPTH + 1

\* A frame: what waits, whether its time is known to be up, and what became of its packet.
Frame == [kind : {"setup", "send"}, expired : BOOLEAN, fate : {"open", "discarded", "sent"}]
Fresh(k) == [kind |-> k, expired |-> FALSE, fate |-> "open"]

Depth == Len(stack)
Top == stack[Depth]
In(k) == stack # <<>> /\ Top.kind = k

\* Mutation of Looping: comm_setup waits until its time is up.
LoopingOn ==
    stack # <<>> => ~Top.expired /\ (Top.kind = "send" => ~isSent)

\* os_runloop_once is called: by os_runloop, or by the loop of the innermost frame.
Looping ==
    stack # <<>> => ~Top.expired /\ ~(IF Top.kind = "setup" THEN isJoined ELSE isSent)

\* The packet of the radio meets its fate: it is discarded by LMIC_reset or by the next
\* one, or sent.
Packet(fate) ==
    [f \in DOMAIN stack |-> IF f = packet THEN [stack[f] EXCEPT !.fate = fate] ELSE stack[f]]
Discarded == Packet("discarded")

\* The innermost frame returns; its packet stays with the radio.
Pop(frames) ==
    /\ stack' = SubSeq(frames, 1, Depth - 1)
    /\ packet' = IF packet = Depth THEN Orphan ELSE packet

----------------------------------------------------------------------------
\* setup() of the sketch, up to os_runloop.
Init ==
    /\ isJoined = FALSE /\ isSent = FALSE
    /\ lora_setup = "due" /\ lora_report = "none"
    /\ radio = "off" /\ packet = NoPacket /\ busy = FALSE
    /\ stack = <<>>
    /\ last = "none" /\ rejoined = FALSE

\* Mutation of ResetAndJoin: the join is not started.
ResetOnly == radio' = "off" /\ packet' = NoPacket /\ busy' = FALSE

\* LMIC_reset, LMIC_startJoining.
ResetAndJoin == radio' = "joining" /\ packet' = NoPacket /\ busy' = FALSE

\* lora_init, and comm_setup up to its loop.
Setup ==
    /\ Looping
    /\ lora_setup = "due"
    /\ ~isJoined
    /\ Depth < MAX_DEPTH
    /\ lora_setup' = "none"
    /\ ResetAndJoin
    /\ stack' = Append(Discarded, Fresh("setup"))
    /\ UNCHANGED <<isJoined, isSent, lora_report, last, rejoined>>

\* Mutation of SetupAgain: the job is scheduled again at once.
SetupAgainAtOnce ==
    /\ Looping
    /\ lora_setup = "due"
    /\ isJoined
    /\ ResetAndJoin
    /\ stack' = Discarded
    /\ rejoined' = TRUE
    /\ UNCHANGED <<isJoined, isSent, lora_setup, lora_report, last>>

\* isJoined is never reset: comm_setup returns at once, with the session discarded.
SetupAgain ==
    /\ Looping
    /\ lora_setup = "due"
    /\ isJoined
    /\ lora_setup' = "none"
    /\ ResetAndJoin
    /\ stack' = Discarded
    /\ rejoined' = TRUE
    /\ UNCHANGED <<isJoined, isSent, lora_report, last>>

SetupDone ==
    /\ In("setup")
    /\ isJoined
    /\ Pop(stack)
    /\ UNCHANGED <<isJoined, isSent, lora_setup, lora_report, radio, busy, last, rejoined>>

\* Mutation of SetupTimeout: the next try is not scheduled.
SetupTimeoutGivesUp ==
    /\ In("setup")
    /\ ~isJoined
    /\ Pop(stack)
    /\ radio' = "off"
    /\ lora_setup' = "none"
    /\ UNCHANGED <<isJoined, isSent, lora_report, busy, last, rejoined>>

\* Mutation of SetupTimeout: isJoined is not looked at again.
SetupTimeoutAnyway ==
    /\ In("setup")
    /\ Pop(stack)
    /\ radio' = "off"
    /\ lora_setup' = "timed"
    /\ UNCHANGED <<isJoined, isSent, lora_report, busy, last, rejoined>>

\* JOIN_TIME has passed: LMIC_shutdown.
SetupTimeout ==
    /\ In("setup")
    /\ ~isJoined
    /\ Pop(stack)
    /\ radio' = "off"
    /\ lora_setup' = "timed"
    /\ UNCHANGED <<isJoined, isSent, lora_report, busy, last, rejoined>>

\* lora_send, and comm_send_report while the radio is at work, here on a packet or on
\* a join request. There is no report job before isJoined, so its test holds.
SendBusy ==
    /\ Looping
    /\ lora_report = "due"
    /\ busy \/ radio = "joining"
    /\ lora_report' = "timed"
    /\ UNCHANGED <<isJoined, isSent, lora_setup, radio, packet, busy, stack, last, rejoined>>

\* Mutation of Send: isSent is not reset.
SendStaleFlag ==
    /\ Looping
    /\ lora_report = "due"
    /\ ~busy
    /\ Depth < MAX_DEPTH
    /\ lora_report' = "none"
    /\ packet' = Depth + 1
    /\ stack' = Append(Discarded, Fresh("send"))
    /\ UNCHANGED <<isJoined, isSent, lora_setup, radio, busy, last, rejoined>>

\* comm_send_report up to its loop: LMIC_setTxData2 overwrites a packet that still waits.
Send ==
    /\ Looping
    /\ lora_report = "due"
    /\ ~busy
    /\ Depth < MAX_DEPTH
    /\ isSent' = FALSE
    /\ lora_report' = "none"
    /\ packet' = Depth + 1
    /\ stack' = Append(Discarded, Fresh("send"))
    /\ UNCHANGED <<isJoined, lora_setup, radio, busy, last, rejoined>>

SendOk ==
    /\ In("send")
    /\ isSent
    /\ Pop(stack)
    /\ lora_report' = "timed"
    /\ last' = Top.fate
    /\ UNCHANGED <<isJoined, isSent, lora_setup, radio, busy, rejoined>>

\* TX_TIME has passed, and more for the routines around this one.
SendTimeout ==
    /\ In("send")
    /\ ~isSent
    /\ Pop([f \in DOMAIN stack |-> [stack[f] EXCEPT !.expired = TRUE]])
    /\ lora_report' = "timed"
    /\ UNCHANGED <<isJoined, isSent, lora_setup, radio, busy, last, rejoined>>

----------------------------------------------------------------------------
\* The timed queue of LMIC. RETRY_JOIN is longer than JOIN_TIME: the job of
\* EV_JOIN_FAILED is not due within comm_setup.
SetupDue ==
    /\ lora_setup = "timed"
    /\ ~In("setup")
    /\ lora_setup' = "due"
    /\ UNCHANGED <<isJoined, isSent, lora_report, radio, packet, busy, stack, last, rejoined>>

ReportDue ==
    /\ lora_report = "timed"
    /\ lora_report' = "due"
    /\ UNCHANGED <<isJoined, isSent, lora_setup, radio, packet, busy, stack, last, rejoined>>

\* onEvent: EV_JOINED.
Joined ==
    /\ Looping
    /\ radio = "joining"
    /\ radio' = "joined"
    /\ isJoined' = TRUE
    /\ lora_report' = "due"
    /\ UNCHANGED <<isSent, lora_setup, packet, busy, stack, last, rejoined>>

\* EV_JOIN_FAILED; LMIC goes on joining.
JoinFailed ==
    /\ Looping
    /\ radio = "joining"
    /\ lora_setup' = "timed"
    /\ UNCHANGED <<isJoined, isSent, lora_report, radio, packet, busy, stack, last, rejoined>>

\* EV_TXCOMPLETE.
TxComplete ==
    /\ Looping
    /\ busy
    /\ busy' = FALSE
    /\ packet' = NoPacket
    /\ isSent' = TRUE
    /\ stack' = Packet("sent")
    /\ UNCHANGED <<isJoined, lora_setup, lora_report, radio, last, rejoined>>

\* The radio starts to transmit, when its duty cycle allows.
TxStart ==
    /\ radio = "joined"
    /\ packet # NoPacket
    /\ ~busy
    /\ busy' = TRUE
    /\ UNCHANGED <<isJoined, isSent, lora_setup, lora_report, radio, packet, stack, last, rejoined>>

Return == SetupDone \/ SetupTimeout \/ SendOk \/ SendTimeout
RunJob == Setup \/ SetupAgain \/ SendBusy \/ Send
Time == SetupDue \/ ReportDue
Event == Joined \/ JoinFailed \/ TxComplete

Next == Return \/ RunJob \/ Time \/ Event \/ TxStart

\* The loops go on and their time passes. A gateway that is asked for ever is there
\* now and then, and answers in time.
Spec ==
    /\ Init /\ [][Next]_vars
    /\ WF_vars(Return) /\ WF_vars(RunJob)
    /\ WF_vars(SetupDue) /\ WF_vars(ReportDue)
    /\ SF_vars(Joined) /\ SF_vars(TxStart) /\ SF_vars(TxComplete)

----------------------------------------------------------------------------
\* The flags.
Flags == isJoined \in BOOLEAN /\ isSent \in BOOLEAN /\ busy \in BOOLEAN /\ rejoined \in BOOLEAN

\* Type correctness.
TypeOK ==
    /\ Flags
    /\ lora_setup \in Job /\ lora_report \in Job
    /\ radio \in {"off", "joining", "joined"}
    /\ packet \in 0 .. MAX_DEPTH + 1
    /\ stack \in Seq(Frame) /\ Depth <= MAX_DEPTH
    /\ last \in {"none", "open", "discarded", "sent"}

\* When comm_send_report returns COMM_OK, its own packet was sent, or LMIC_reset has
\* discarded it: an EV_TXCOMPLETE that comes after the time-out is never taken for the
\* next packet's (l.164, 176, 196).
OkMeansOwn == last # "open"

\* The node never stops trying (l.84, 94, 150, 170, 208, 213): before the join there is
\* always a setup scheduled or running, and after it a transmission.
NeverGivesUp ==
    /\ ~isJoined => lora_setup # "none" \/ In("setup")
    /\ isJoined => lora_report # "none" \/ \E f \in DOMAIN stack : stack[f].kind = "send"

\* The send job of EV_JOINED (l.84) never runs inside the join loop; a routine runs
\* inside another only after a join was repeated.
NestedOnlyByRejoin == Depth > 1 => rejoined /\ \A f \in DOMAIN stack : stack[f].kind = "send"

\* LMIC_shutdown (l.148) never hits a node that has joined or has a send job, even if the
\* join completes as the time runs out.
OffOnlyUnjoined == radio = "off" => ~isJoined /\ lora_report = "none" /\ packet = NoPacket

\* Given a gateway that answers now and then, the node joins (l.79, 150),
EventuallyJoins == <>isJoined

\* and, once joins no longer fail, packets keep going out (l.208, 213). While they do,
\* the job of EV_JOIN_FAILED, which EV_JOINED does not clear, may discard each session.
KeepsSending == <>[][~JoinFailed]_vars => []<><<TxComplete>>_vars

=============================================================================

------------------------------- MODULE LoraProofs -------------------------------
(***************************************************************************)
(* The safety properties of LoraNode, for every depth of nesting.           *)
(*                                                                          *)
(* LInv says how the frames, the jobs and the packet belong together:       *)
(* comm_setup waits alone, and only before the join are there no            *)
(* transmissions; a transmission that was neither sent nor discarded is     *)
(* the one of the packet, so that a completion is about it; and until a     *)
(* join is repeated one transmission at a time waits, with no job.          *)
(***************************************************************************)
EXTENDS LoraNode, SequenceTheorems, TLAPS

Sends(s) == {f \in DOMAIN s : s[f].kind = "send"}

JobInv ==
    /\ \A f \in DOMAIN stack : stack[f].kind = "setup" => Depth = 1 /\ lora_setup # "due"
    /\ ~isJoined => /\ Sends(stack) = {} /\ lora_report = "none" /\ ~rejoined
                    /\ packet = NoPacket
                    /\ lora_setup # "none" \/ stack # <<>>
    /\ isJoined => radio # "off" /\ (lora_report # "none" \/ Sends(stack) # {})

NestInv ==
    /\ isJoined /\ ~rejoined => radio = "joined"
    /\ ~rejoined => Depth <= 1
    /\ ~rejoined /\ Sends(stack) # {} => lora_report = "none"

PacketInv ==
    /\ last # "open"
    /\ \A f \in Sends(stack) : stack[f].fate = "open" => ~isSent /\ packet = f

LInv == TypeOK /\ JobInv /\ NestInv /\ PacketInv

----------------------------------------------------------------------------
\* What a routine leaves behind when it returns.
LEMMA Popped ==
    ASSUME NEW s \in Seq(Frame), s # <<>>
    PROVE  LET t == SubSeq(s, 1, Len(s) - 1)
           IN /\ t \in Seq(Frame) /\ Len(t) = Len(s) - 1
              /\ DOMAIN t = 1 .. Len(s) - 1 /\ DOMAIN s = 1 .. Len(s)
              /\ Len(s) \in Nat \ {0}
              /\ \A f \in 1 .. Len(s) - 1 : t[f] = s[f]
  <1>1. Len(s) \in Nat \ {0} /\ DOMAIN s = 1 .. Len(s)
    BY EmptySeq
  <1>2. SubSeq(s, 1, Len(s) - 1) \in Seq(Frame)
    BY <1>1, SubSeqProperties
  <1>3. /\ Len(SubSeq(s, 1, Len(s) - 1)) = Len(s) - 1
        /\ \A f \in 1 .. Len(s) - 1 : SubSeq(s, 1, Len(s) - 1)[f] = s[f]
    BY <1>1, SubSeqProperties
  <1> QED
    BY <1>1, <1>2, <1>3

\* The stack with one more routine on it.
LEMMA Pushed ==
    ASSUME NEW s \in Seq(Frame), NEW x \in Frame
    PROVE  LET t == Append(s, x)
           IN /\ t \in Seq(Frame) /\ Len(t) = Len(s) + 1
              /\ DOMAIN t = 1 .. Len(s) + 1 /\ DOMAIN s = 1 .. Len(s)
              /\ t[Len(s) + 1] = x
              /\ \A f \in 1 .. Len(s) : t[f] = s[f]
  OBVIOUS

LEMMA FreshFrame == ASSUME NEW k \in {"setup", "send"} PROVE Fresh(k) \in Frame
  BY DEF Fresh, Frame

\* The fate of a packet changes nothing else of the frames.
LEMMA PacketFrames ==
    ASSUME stack \in Seq(Frame), NEW fate \in {"open", "discarded", "sent"}
    PROVE  LET t == Packet(fate)
           IN /\ t \in Seq(Frame) /\ Len(t) = Len(stack)
              /\ DOMAIN t = DOMAIN stack /\ DOMAIN stack = 1 .. Len(stack)
              /\ \A f \in DOMAIN stack :
                   /\ t[f].kind = stack[f].kind
                   /\ t[f].fate = IF f = packet THEN fate ELSE stack[f].fate
  <1>1. \A f \in DOMAIN stack : stack[f] \in Frame
    OBVIOUS
  <1>2. \A f \in DOMAIN stack : [stack[f] EXCEPT !.fate = fate] \in Frame
    BY <1>1 DEF Frame
  <1>3. Packet(fate) \in [1 .. Len(stack) -> Frame]
    BY <1>1, <1>2 DEF Packet
  <1>4. Packet(fate) \in Seq(Frame) /\ Len(Packet(fate)) = Len(stack)
    BY <1>3
  <1> QED
    BY <1>1, <1>2, <1>3, <1>4 DEF Packet, Frame

\* The flags stay flags.
LEMMA FlagsStep == ASSUME Flags, [Next]_vars PROVE Flags'
  <1>1. CASE SetupDone \/ SetupTimeout \/ SendOk \/ SendTimeout
    BY <1>1, Zenon DEF Flags, SetupDone, SetupTimeout, SendOk, SendTimeout
  <1>2. CASE Setup \/ SetupAgain
    BY <1>2, Zenon DEF Flags, Setup, SetupAgain, ResetAndJoin
  <1>3. CASE SendBusy \/ Send
    BY <1>3, Zenon DEF Flags, SendBusy, Send
  <1>4. CASE SetupDue \/ ReportDue \/ Joined \/ JoinFailed
    BY <1>4, Zenon DEF Flags, SetupDue, ReportDue, Joined, JoinFailed
  <1>5. CASE TxComplete \/ TxStart
    BY <1>5, Zenon DEF Flags, TxComplete, TxStart
  <1>6. CASE UNCHANGED vars
    BY <1>6, Zenon DEF Flags, vars
  <1> QED
    BY <1>1, <1>2, <1>3, <1>4, <1>5, <1>6 DEF Next, Return, RunJob, Time, Event

----------------------------------------------------------------------------
\* The initial state.
LEMMA LInit == LoraAssumption /\ Init => LInv
  <1> SUFFICES ASSUME LoraAssumption, Init PROVE LInv
    OBVIOUS
  <1>1. stack \in Seq(Frame) /\ Len(stack) = 0 /\ DOMAIN stack = {}
    BY EmptySeq DEF Init
  <1>2. Flags
    BY Zenon DEF Init, Flags
  <1>3. TypeOK
    BY <1>1, <1>2 DEF LoraAssumption, Init, TypeOK, Depth, Job, NoPacket
  <1>4. JobInv /\ NestInv /\ PacketInv
    BY <1>1 DEF Init, JobInv, NestInv, PacketInv, Sends, Depth
  <1> QED
    BY <1>3, <1>4 DEF LInv

\* What the innermost routine is.
LEMMA TopFrame ==
    ASSUME LInv
    PROVE  /\ Depth \in Nat /\ DOMAIN stack = 1 .. Depth
           /\ (stack = <<>>) = (Depth = 0)
           /\ \A f \in DOMAIN stack : stack[f] \in Frame
           /\ stack # <<>> => Top = stack[Depth] /\ Top \in Frame /\ Depth \in DOMAIN stack
  <1>1. stack \in Seq(Frame)
    BY DEF LInv, TypeOK
  <1>2. Depth \in Nat /\ DOMAIN stack = 1 .. Depth /\ (stack # <<>> => Depth \in Nat \ {0})
    BY <1>1, EmptySeq DEF Depth
  <1>3. stack = <<>> => Depth = 0
    BY EmptySeq DEF Depth
  <1> QED
    BY <1>1, <1>2, <1>3 DEF Top

\* A routine that may run a job does not wait in comm_setup after the join.
LEMMA LoopingAlone ==
    ASSUME LInv, Looping
    PROVE  /\ isJoined => \A f \in DOMAIN stack : stack[f].kind = "send"
           /\ ~isJoined /\ lora_setup = "due" => stack = <<>>
  <1>1. ASSUME isJoined, NEW f \in DOMAIN stack PROVE stack[f].kind = "send"
    BY <1>1, TopFrame DEF LInv, JobInv, Looping, Frame
  <1>2. ASSUME ~isJoined, lora_setup = "due", stack # <<>> PROVE FALSE
    <2>1. Top.kind = "setup"
      BY <1>2, TopFrame DEF LInv, JobInv, Sends, Frame
    <2> QED
      BY <1>2, <2>1, TopFrame DEF LInv, JobInv
  <1> QED
    BY <1>1, <1>2

\* The jobs and events that leave the stack alone.
LEMMA SameStack ==
    ASSUME LoraAssumption, LInv, SendBusy \/ Time \/ Joined \/ JoinFailed \/ TxStart
    PROVE  LInv'
  <1> USE DEF LInv
  <1>1. stack' = stack /\ Depth' = Depth /\ Top' = Top /\ Sends(stack)' = Sends(stack)
    BY DEF SendBusy, Time, SetupDue, ReportDue, Joined, JoinFailed, TxStart, Depth, Top, Sends
  <1>f. Flags'
    BY FlagsStep DEF TypeOK, Next, RunJob, Event
  <1>2. TypeOK'
    BY <1>1, <1>f DEF TypeOK, SendBusy, Time, SetupDue, ReportDue, Joined, JoinFailed, TxStart, Job
  <1>3. CASE SendBusy
    BY <1>1, <1>2, <1>3 DEF SendBusy, JobInv, NestInv, PacketInv
  <1>4. CASE SetupDue
    <2>1. \A f \in DOMAIN stack : stack[f].kind # "setup"
      BY <1>4, TopFrame DEF SetupDue, In, JobInv
    <2> QED
      BY <1>1, <1>2, <1>4, <2>1 DEF SetupDue, JobInv, NestInv, PacketInv
  <1>5. CASE ReportDue
    BY <1>1, <1>2, <1>5 DEF ReportDue, JobInv, NestInv, PacketInv
  <1>6. CASE Joined
    BY <1>1, <1>2, <1>6 DEF Joined, JobInv, NestInv, PacketInv
  <1>7. CASE JoinFailed
    BY <1>1, <1>2, <1>7 DEF JoinFailed, JobInv, NestInv, PacketInv
  <1>8. CASE TxStart
    BY <1>1, <1>2, <1>8 DEF TxStart, JobInv, NestInv, PacketInv, NoPacket
  <1> QED
    BY <1>3, <1>4, <1>5, <1>6, <1>7, <1>8 DEF Time

\* Those that decide on the packet.
LEMMA SameDepth ==
    ASSUME LoraAssumption, LInv, SetupAgain \/ TxComplete
    PROVE  LInv'
  <1> USE DEF LInv
  <1> DEFINE fate == IF SetupAgain THEN "discarded" ELSE "sent"
  <1>1. stack \in Seq(Frame)
    BY DEF TypeOK
  <1>2. stack' = Packet(fate)
    BY DEF SetupAgain, TxComplete, Discarded
  <1>3. /\ stack' \in Seq(Frame) /\ Depth' = Depth
        /\ DOMAIN stack' = DOMAIN stack /\ DOMAIN stack = 1 .. Depth
        /\ \A f \in DOMAIN stack :
             /\ stack'[f].kind = stack[f].kind
             /\ stack'[f].fate = IF f = packet THEN fate ELSE stack[f].fate
    BY <1>1, <1>2, PacketFrames DEF Depth
  <1>4. Sends(stack)' = Sends(stack)
    BY <1>3 DEF Sends
  <1>5. (stack' = <<>>) = (stack = <<>>)
    BY <1>1, <1>3, EmptySeq DEF Depth
  <1>6. \A f \in Sends(stack) : stack'[f].fate # "open"
    BY <1>3 DEF PacketInv, Sends
  <1>7. \A f \in DOMAIN stack : isJoined => stack[f].kind = "send"
    BY LoopingAlone DEF SetupAgain, TxComplete
  <1>f. Flags'
    BY FlagsStep DEF TypeOK, Next, RunJob, Event
  <1>8. CASE SetupAgain
    <2>1. TypeOK'
      BY <1>f, <1>3, <1>8 DEF TypeOK, SetupAgain, ResetAndJoin, Job, NoPacket, Depth
    <2> QED
      BY <1>3, <1>4, <1>5, <1>6, <1>7, <1>8, <2>1
         DEF SetupAgain, ResetAndJoin, JobInv, NestInv, PacketInv
  <1>9. CASE TxComplete
    <2>1. TypeOK'
      BY <1>f, <1>3, <1>9 DEF TypeOK, TxComplete, Job, NoPacket, Depth
    <2> QED
      BY <1>3, <1>4, <1>5, <1>6, <1>7, <1>9, <2>1 DEF TxComplete, JobInv, NestInv, PacketInv
  <1> QED
    BY <1>8, <1>9

\* comm_setup begins only when nothing waits.
LEMMA SetupStep == ASSUME LoraAssumption, LInv, Setup PROVE LInv'
  <1> USE DEF LInv
  <1>1. stack = <<>> /\ stack \in Seq(Frame) /\ Len(stack) = 0 /\ ~isJoined
    BY LoopingAlone, EmptySeq DEF Setup
  <1>2. Discarded \in Seq(Frame) /\ Len(Discarded) = 0
    BY <1>1, PacketFrames DEF Discarded
  <1>3. stack' = Append(Discarded, Fresh("setup")) /\ Fresh("setup") \in Frame
    BY FreshFrame DEF Setup
  <1>4. /\ stack' \in Seq(Frame) /\ Len(stack') = 1
        /\ DOMAIN stack' = 1 .. 1 /\ stack'[1] = Fresh("setup")
    BY <1>2, <1>3, Pushed
  <1>5. Depth' = 1 /\ stack' # <<>>
    BY <1>4, EmptySeq DEF Depth
  <1>6. Sends(stack)' = {}
    BY <1>4 DEF Sends, Fresh
  <1>7. Flags'
    BY FlagsStep DEF TypeOK, Next, RunJob
  <1>8. TypeOK'
    BY <1>4, <1>5, <1>7 DEF TypeOK, Setup, ResetAndJoin, NoPacket, LoraAssumption, Job
  <1> QED
    BY <1>1, <1>5, <1>6, <1>8 DEF Setup, ResetAndJoin, JobInv, NestInv, PacketInv

\* comm_send_report begins: whatever waits below it has lost its packet.
LEMMA SendStep == ASSUME LoraAssumption, LInv, Send PROVE LInv'
  <1> USE DEF LInv
  <1>1. stack \in Seq(Frame) /\ Depth \in Nat /\ DOMAIN stack = 1 .. Depth
    BY TopFrame DEF TypeOK
  <1>2. isJoined /\ \A f \in DOMAIN stack : stack[f].kind = "send"
    BY LoopingAlone DEF Send, JobInv
  <1>3. /\ Discarded \in Seq(Frame) /\ Len(Discarded) = Depth
        /\ \A f \in 1 .. Depth :
             /\ Discarded[f].kind = stack[f].kind
             /\ Discarded[f].fate = IF f = packet THEN "discarded" ELSE stack[f].fate
    BY <1>1, PacketFrames DEF Discarded, Depth
  <1>4. stack' = Append(Discarded, Fresh("send")) /\ Fresh("send") \in Frame
    BY FreshFrame DEF Send
  <1>5. /\ stack' \in Seq(Frame) /\ Len(stack') = Depth + 1
        /\ DOMAIN stack' = 1 .. Depth + 1
        /\ stack'[Depth + 1] = Fresh("send")
        /\ \A f \in 1 .. Depth : stack'[f] = Discarded[f]
    BY <1>3, <1>4, Pushed
  <1>6. Depth' = Depth + 1
    BY <1>5 DEF Depth
  <1>7. \A f \in DOMAIN stack' : stack'[f].kind = "send"
    BY <1>1, <1>2, <1>3, <1>5 DEF Fresh
  <1>8. Depth + 1 \in Sends(stack)'
    BY <1>1, <1>5, <1>7 DEF Sends
  <1>9. ~rejoined => Depth = 0
    <2>1. Depth # 0 => 1 \in Sends(stack)
      BY <1>1, <1>2 DEF Sends
    <2> QED
      BY <2>1 DEF Send, NestInv
  <1>10. \A f \in DOMAIN stack' : stack'[f].fate = "open" => f = Depth + 1
    BY <1>1, <1>2, <1>3, <1>5 DEF PacketInv, Sends
  <1>11. Flags'
    BY FlagsStep DEF TypeOK, Next, RunJob
  <1>12. TypeOK'
    BY <1>1, <1>5, <1>6, <1>11 DEF TypeOK, Send, LoraAssumption, Job
  <1>13. JobInv'
    BY <1>2, <1>7, <1>8 DEF Send, JobInv
  <1>14. NestInv'
    BY <1>1, <1>2, <1>6, <1>9 DEF Send, NestInv
  <1>15. PacketInv'
    BY <1>10 DEF Send, PacketInv, Sends
  <1> QED
    BY <1>12, <1>13, <1>14, <1>15

\* comm_setup returns.
LEMMA SetupReturn == ASSUME LoraAssumption, LInv, SetupDone \/ SetupTimeout PROVE LInv'
  <1> USE DEF LInv
  <1>1. /\ stack \in Seq(Frame) /\ stack # <<>> /\ Depth = 1 /\ DOMAIN stack = 1 .. 1
        /\ stack[1].kind = "setup"
    BY TopFrame DEF TypeOK, JobInv, SetupDone, SetupTimeout, In
  <1>2. stack' = SubSeq(stack, 1, Len(stack) - 1)
    BY DEF SetupDone, SetupTimeout, Pop, Depth
  <1>3. stack' \in Seq(Frame) /\ Len(stack') = 0 /\ DOMAIN stack' = {}
    BY <1>1, <1>2, Popped DEF Depth
  <1>4. Depth' = 0 /\ Sends(stack)' = {} /\ Sends(stack) = {}
    BY <1>1, <1>3 DEF Depth, Sends
  <1>5. packet' = packet \/ packet' = MAX_DEPTH + 1
    BY DEF SetupDone, SetupTimeout, Pop, Orphan
  <1>6. ~isJoined => packet' = packet
    BY <1>1 DEF JobInv, NoPacket, SetupDone, SetupTimeout, Pop
  <1>7. Flags'
    BY FlagsStep DEF TypeOK, Next, Return
  <1>8. TypeOK'
    BY <1>3, <1>4, <1>5, <1>7 DEF TypeOK, SetupDone, SetupTimeout, LoraAssumption, Job
  <1>9. CASE SetupDone
    BY <1>3, <1>4, <1>8, <1>9 DEF SetupDone, JobInv, NestInv, PacketInv
  <1>10. CASE SetupTimeout
    BY <1>3, <1>4, <1>6, <1>8, <1>10 DEF SetupTimeout, JobInv, NestInv, PacketInv
  <1> QED
    BY <1>9, <1>10

\* A time-out is remembered for every frame, which changes nothing else of them.
LEMMA ExpiredFrames ==
    ASSUME stack \in Seq(Frame)
    PROVE  LET t == [f \in DOMAIN stack |-> [stack[f] EXCEPT !.expired = TRUE]]
           IN /\ t \in Seq(Frame) /\ Len(t) = Len(stack)
              /\ \A f \in DOMAIN stack : t[f].kind = stack[f].kind /\ t[f].fate = stack[f].fate
  <1> DEFINE t == [f \in DOMAIN stack |-> [stack[f] EXCEPT !.expired = TRUE]]
  <1>1. \A f \in DOMAIN stack : stack[f] \in Frame
    OBVIOUS
  <1>2. \A f \in DOMAIN stack : [stack[f] EXCEPT !.expired = TRUE] \in Frame
    BY <1>1 DEF Frame
  <1>3. t \in [1 .. Len(stack) -> Frame]
    BY <1>2
  <1>4. t \in Seq(Frame) /\ Len(t) = Len(stack)
    BY <1>3
  <1> QED
    BY <1>1, <1>4 DEF Frame

\* comm_send_report returns.
LEMMA SendReturn == ASSUME LoraAssumption, LInv, SendOk \/ SendTimeout PROVE LInv'
  <1> USE DEF LInv
  <1> DEFINE frames == IF SendOk THEN stack
                       ELSE [f \in DOMAIN stack |-> [stack[f] EXCEPT !.expired = TRUE]]
  <1>1. /\ stack \in Seq(Frame) /\ stack # <<>> /\ Depth \in Nat /\ DOMAIN stack = 1 .. Depth
        /\ Depth \in DOMAIN stack /\ Top = stack[Depth] /\ Top \in Frame
        /\ Top.kind = "send"
    BY TopFrame DEF TypeOK, SendOk, SendTimeout, In
  <1>2. Depth \in Sends(stack)
    BY <1>1 DEF Sends
  <1>3. isJoined /\ \A f \in DOMAIN stack : stack[f].kind = "send"
    <2>1. isJoined
      BY <1>2 DEF JobInv
    <2>2. ASSUME NEW f \in DOMAIN stack, stack[f].kind # "send" PROVE FALSE
      BY <1>1, <2>2, TopFrame DEF JobInv, Frame
    <2> QED
      BY <2>1, <2>2
  <1>4. /\ frames \in Seq(Frame) /\ Len(frames) = Len(stack)
        /\ \A f \in DOMAIN stack : frames[f].kind = stack[f].kind /\ frames[f].fate = stack[f].fate
    BY <1>1, ExpiredFrames
  <1>5. Pop(frames)
    BY DEF SendOk, SendTimeout
  <1>6. frames # <<>>
    BY <1>1, <1>4, EmptySeq DEF Depth
  <1>7. /\ stack' \in Seq(Frame) /\ Len(stack') = Depth - 1
        /\ DOMAIN stack' = 1 .. Depth - 1
        /\ \A f \in 1 .. Depth - 1 : stack'[f] = frames[f]
    <2> HIDE DEF frames
    <2>1. stack' = SubSeq(frames, 1, Len(frames) - 1)
      BY <1>4, <1>5 DEF Pop, Depth
    <2> QED
      BY <1>4, <1>6, <2>1, Popped DEF Depth
  <1>8. \A f \in DOMAIN stack' : /\ f \in DOMAIN stack /\ f # Depth
                                 /\ stack'[f].kind = "send" /\ stack'[f].fate = stack[f].fate
    <2> HIDE DEF frames
    <2> QED  BY <1>1, <1>3, <1>4, <1>7
  <1>9. packet' = IF packet = Depth THEN MAX_DEPTH + 1 ELSE packet
    BY <1>5 DEF Pop, Orphan
  <1>10. Depth' = Depth - 1
    BY <1>7 DEF Depth
  <1>11. Flags'
    BY FlagsStep DEF TypeOK, Next, Return
  <1>12. last' # "open" /\ last' \in {"none", "open", "discarded", "sent"}
    BY <1>1, <1>2 DEF SendOk, SendTimeout, PacketInv, TypeOK, Frame
  <1>13. TypeOK'
    BY <1>1, <1>7, <1>9, <1>10, <1>11, <1>12 DEF TypeOK, SendOk, SendTimeout, LoraAssumption, Job
  <1>same. UNCHANGED <<isJoined, isSent, radio, rejoined>> /\ lora_report' = "timed"
    BY DEF SendOk, SendTimeout
  <1>14. JobInv'
    BY <1>3, <1>8 DEF SendOk, SendTimeout, JobInv
  <1>15. NestInv'
    <2>1. ~rejoined => Sends(stack)' = {}
      BY <1>1, <1>7 DEF NestInv, Sends
    <2> QED
      BY <1>1, <1>10, <1>same, <2>1 DEF NestInv
  <1>16. PacketInv'
    <2>1. \A f \in Sends(stack)' : f \in Sends(stack) /\ f # Depth /\ stack'[f].fate = stack[f].fate
      BY <1>3, <1>8 DEF Sends
    <2>2. ASSUME NEW f \in Sends(stack)', stack'[f].fate = "open" PROVE ~isSent' /\ packet' = f
      BY <1>9, <1>same, <2>1, <2>2 DEF PacketInv
    <2> QED
      BY <1>12, <2>2 DEF PacketInv
  <1> QED
    BY <1>13, <1>14, <1>15, <1>16

LEMMA LNext == LoraAssumption /\ LInv /\ [Next]_vars => LInv'
  <1> SUFFICES ASSUME LoraAssumption, LInv, [Next]_vars PROVE LInv'
    OBVIOUS
  <1>1. CASE UNCHANGED vars
    <2>1. Flags'
      BY FlagsStep DEF LInv, TypeOK
    <2>2. Depth' = Depth /\ Sends(stack)' = Sends(stack)
      BY <1>1 DEF vars, Depth, Sends
    <2>3. TypeOK'
      BY <1>1, <2>1, <2>2 DEF LInv, TypeOK, vars
    <2> QED
      BY <1>1, <2>2, <2>3 DEF vars, LInv, JobInv, NestInv, PacketInv
  <1>2. CASE Return
    BY <1>2, SetupReturn, SendReturn DEF Return
  <1>3. CASE RunJob
    BY <1>3, SetupStep, SendStep, SameStack, SameDepth DEF RunJob
  <1>4. CASE Time \/ Event \/ TxStart
    BY <1>4, SameStack, SameDepth DEF Event
  <1> QED
    BY <1>1, <1>2, <1>3, <1>4 DEF Next

LEMMA LAlways == Spec => []LInv
  <1>1. Init => LInv
    BY LoraAssumption, LInit
  <1>2. LInv /\ [Next]_vars => LInv'
    BY LoraAssumption, LNext
  <1> QED
    BY <1>1, <1>2, PTL DEF Spec

----------------------------------------------------------------------------
\* Type correctness.
THEOREM LoraTypeCorrect == Spec => []TypeOK
  <1>1. LInv => TypeOK
    BY DEF LInv
  <1> QED
    BY <1>1, LAlways, PTL

\* However deep the routines are nested, a completion is never credited to a packet that
\* still waits: COMM_OK of comm_send_report is about its own packet.
THEOREM OkIsOwn == Spec => []OkMeansOwn
  <1>1. LInv => OkMeansOwn
    BY DEF LInv, PacketInv, OkMeansOwn
  <1> QED
    BY <1>1, LAlways, PTL

\* No path through the jobs, the events and the time-outs leaves the node with nothing
\* to do.
THEOREM KeepsTrying == Spec => []NeverGivesUp
  <1>1. LInv => NeverGivesUp
    <2> SUFFICES ASSUME LInv PROVE NeverGivesUp
      OBVIOUS
    <2>1. ASSUME ~isJoined, stack # <<>> PROVE In("setup")
      BY <2>1, TopFrame DEF LInv, JobInv, Sends, Frame, In
    <2> QED
      BY <2>1 DEF LInv, JobInv, Sends, NeverGivesUp
  <1> QED
    BY <1>1, LAlways, PTL

\* The send job of EV_JOINED stays out of the join loop, and routines are nested only
\* after a join was repeated.
THEOREM NestingIsByRejoin == Spec => []NestedOnlyByRejoin
  <1>1. LInv => NestedOnlyByRejoin
    <2> SUFFICES ASSUME LInv, Depth > 1 PROVE rejoined /\ \A f \in DOMAIN stack : stack[f].kind = "send"
      BY DEF NestedOnlyByRejoin
    <2>1. rejoined
      BY TopFrame DEF LInv, NestInv
    <2> QED
      BY <2>1, TopFrame DEF LInv, JobInv, Frame
  <1> QED
    BY <1>1, LAlways, PTL

\* The time-out of the join never shuts down a node that has joined.
THEOREM ShutDownUnjoined == Spec => []OffOnlyUnjoined
  <1>1. LInv => OffOnlyUnjoined
    BY DEF LInv, JobInv, OffOnlyUnjoined
  <1> QED
    BY <1>1, LAlways, PTL

=============================================================================

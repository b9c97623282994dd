------------------------- MODULE PrintStream_proofs -------------------------
(***************************************************************************)
(* Proofs about PrintStream, for every file, window, ring size, and for    *)
(* every pattern of damaged lines, lost answers, failures and user         *)
(* commands: the types; the order in which the printer executes the lines  *)
(* (when its line counter starts at 0); the commands users send into the   *)
(* print; and the heaters the print leaves behind.                         *)
(***************************************************************************)
EXTENDS PrintStream, FiniteSetTheorems, SequenceTheorems, TLAPS

\* The FIFO holds at most the widest window, and one probe more.
FifoBound == Len(fifo) <= 6 \/ (Len(fifo) = 7 /\ HasPoll)

EngineInv == EngineTypeOK /\ FifoBound

TypeInv == MarlinTypeOK /\ EngineInv

-----------------------------------------------------------------------------
(* Positions in a FIFO this short have a first and a last element. *)

LEMMA MaxIn == ASSUME NEW S \in SUBSET (1..7), S # {} PROVE Max(S) \in S /\ \A y \in S : Max(S) >= y
<1>0. PICK k : k \in S
  OBVIOUS
<1>a. k = 1 \/ k = 2 \/ k = 3 \/ k = 4 \/ k = 5 \/ k = 6 \/ k = 7
  BY <1>0
<1>1. \E x \in S : \A y \in S : x >= y
  <2>1. CASE 7 \in S BY <2>1
  <2>2. CASE 6 \in S /\ 7 \notin S BY <2>2
  <2>3. CASE 5 \in S /\ 7 \notin S /\ 6 \notin S BY <2>3
  <2>4. CASE 4 \in S /\ 7 \notin S /\ 6 \notin S /\ 5 \notin S BY <2>4
  <2>5. CASE 3 \in S /\ 7 \notin S /\ 6 \notin S /\ 5 \notin S /\ 4 \notin S BY <2>5
  <2>6. CASE 2 \in S /\ 7 \notin S /\ 6 \notin S /\ 5 \notin S /\ 4 \notin S /\ 3 \notin S BY <2>6
  <2>7. CASE 1 \in S /\ 7 \notin S /\ 6 \notin S /\ 5 \notin S /\ 4 \notin S /\ 3 \notin S /\ 2 \notin S BY <2>7
  <2> QED BY <1>0, <1>a, <2>1, <2>2, <2>3, <2>4, <2>5, <2>6, <2>7
<1> QED BY <1>1 DEF Max

LEMMA MinIn == ASSUME NEW S \in SUBSET (1..7), S # {} PROVE Min(S) \in S /\ \A y \in S : Min(S) <= y
<1>0. PICK k : k \in S
  OBVIOUS
<1>a. k = 1 \/ k = 2 \/ k = 3 \/ k = 4 \/ k = 5 \/ k = 6 \/ k = 7
  BY <1>0
<1>1. \E x \in S : \A y \in S : x <= y
  <2>1. CASE 1 \in S BY <2>1
  <2>2. CASE 2 \in S /\ 1 \notin S BY <2>2
  <2>3. CASE 3 \in S /\ 1 \notin S /\ 2 \notin S BY <2>3
  <2>4. CASE 4 \in S /\ 1 \notin S /\ 2 \notin S /\ 3 \notin S BY <2>4
  <2>5. CASE 5 \in S /\ 1 \notin S /\ 2 \notin S /\ 3 \notin S /\ 4 \notin S BY <2>5
  <2>6. CASE 6 \in S /\ 1 \notin S /\ 2 \notin S /\ 3 \notin S /\ 4 \notin S /\ 5 \notin S BY <2>6
  <2>7. CASE 7 \in S /\ 1 \notin S /\ 2 \notin S /\ 3 \notin S /\ 4 \notin S /\ 5 \notin S /\ 6 \notin S BY <2>7
  <2> QED BY <1>0, <1>a, <2>1, <2>2, <2>3, <2>4, <2>5, <2>6, <2>7
<1> QED BY <1>1 DEF Min

LEMMA SmallCardinality == ASSUME NEW S \in SUBSET (1..7) PROVE Cardinality(S) \in Nat
<1>1. IsFiniteSet(1..7)
  <2>1. 1 \in Int /\ 7 \in Int
    OBVIOUS
  <2> QED BY ONLY <2>1, FS_Interval
<1>2. IsFiniteSet(S)
  BY <1>1, FS_Subset
<1> QED
  BY <1>2, FS_CardinalityType

LEMMA FifoAtMost7 == FifoBound => Len(fifo) = 7 \/ Len(fifo) <= 6
BY DEF FifoBound

LEMMA PositionsShort ==
    ASSUME EngineInv, NEW type
    PROVE  Positions(type) \in SUBSET (1..7) /\ Positions(type) \subseteq 1..Len(fifo)
BY DEF EngineInv, EngineTypeOK, FifoBound, Positions

LEMMA KeptLineIn ==
    ASSUME NEW n, Kept(n)
    PROVE  \E i \in DOMAIN hist : hist[i].n = n /\ KeptLine(n) = hist[i].line
BY DEF Kept, KeptLine

-----------------------------------------------------------------------------
(* Type correctness *)

USE MarlinAssumption, StreamAssumption

LEMMA InitTyped == Init => TypeInv
<1> SUFFICES ASSUME Init PROVE TypeInv
  OBVIOUS
<1>1. MarlinTypeOK
  BY DEF Init, MarlinTypeOK, Message, PrintMsg, Answer
<1>2. fifo \in Seq(Slot) /\ Len(fifo) = 1
  BY DEF Init, Slot, PrintSlot
<1>3. hist \in [0..(Hist - 1) -> [n: Nat, line: 0..FileLen]]
  BY DEF Init
<1>4. throttle \in 0..Throttle /\ gBytesDone \in 0..FileLen /\ start + lineNo <= FileLen
  BY DEF Init
<1>5. gState \in {"PRINTING", "PAUSED", "IDLE", "ERROR"} /\ answered \in [Manual -> {"new", "waiting", "ok", "error"}]
  BY DEF Init
<1>6. EngineTypeOK
  <2>1. gWindow \in Windows /\ start \in Starts /\ finishSent \in BOOLEAN /\ resync \in BOOLEAN
    BY DEF Init
  <2>2. lineNo \in Nat /\ resendFrom \in Nat /\ resendFrom <= lineNo /\ lastGood \in Nat
    BY DEF Init
  <2>3. Len(fifo) <= MaxW
    BY <1>2
  <2>4. man \in Manual \cup {NoCmd} /\ manSent \in BOOLEAN
    BY DEF Init
  <2> QED
    BY <1>2, <1>3, <1>4, <1>5, <2>1, <2>2, <2>3, <2>4 DEF EngineTypeOK
<1>7. FifoBound
  BY <1>2 DEF FifoBound
<1> QED
  BY <1>1, <1>6, <1>7 DEF TypeInv, EngineInv

LEMMA AnswersTyped ==
    /\ \A kind \in {"ok", "ok T", "error", "start", "fatal"} :
          Plain(kind) \in Answer /\ <<Plain(kind)>> \in Seq(Answer)
    /\ \A l, r \in Nat : Report(l, r) \in Answer /\ <<Report(l, r)>> \in Seq(Answer)
BY DEF Plain, Report, Answer

LEMMA ReplyTyped ==
    ASSUME MarlinTypeOK, wire # <<>>, NEW answers \in Seq(Answer), Reply(answers)
    PROVE  wire' \in Seq(Message) /\ rx' \in Seq(Answer)
BY HeadTailProperties, ConcatProperties DEF MarlinTypeOK, Reply

LEMMA ResendErrorTyped ==
    ASSUME MarlinTypeOK, wire # <<>>, ResendError
    PROVE  wire' \in Seq(Message) /\ rx' \in Seq(Answer)
<1>1. PICK withResend \in BOOLEAN, withOk \in BOOLEAN :
         Reply(<<Report(lastN, IF withResend THEN lastN + 1 ELSE 0)>>
               \o (IF withOk THEN <<Plain("ok")>> ELSE <<>>))
  BY DEF ResendError
<1> DEFINE report == <<Report(lastN, IF withResend THEN lastN + 1 ELSE 0)>>
           trail  == IF withOk THEN <<Plain("ok")>> ELSE <<>>
<1>2. report \in Seq(Answer)
  <2>1. lastN \in Nat /\ (IF withResend THEN lastN + 1 ELSE 0) \in Nat
    BY DEF MarlinTypeOK
  <2> QED BY <2>1, AnswersTyped
<1>3. trail \in Seq(Answer)
  BY AnswersTyped, EmptySeq
<1>4. report \o trail \in Seq(Answer)
  BY <1>2, <1>3, ConcatProperties
<1> QED
  BY <1>1, <1>4, ReplyTyped

\* The printer's own steps.
LEMMA MarlinStepTyped == ASSUME MarlinTypeOK, MarlinStep PROVE MarlinTypeOK'
<1>1. wire # <<>> /\ Head(wire) \in Message
  <2>1. wire # <<>>
    BY DEF MarlinStep, RejectDamaged, RejectOutOfSequence, ExecuteM110, ExecuteLine, ExecuteUnnumbered, Reading
  <2> QED BY <2>1, HeadTailProperties DEF MarlinTypeOK
<1>2. Head(wire).n \in Nat /\ Head(wire).line \in 0..FileLen /\ Head(wire).cmd \in Manual \cup {NoCmd}
  BY <1>1 DEF Message
<1>3. CASE RejectDamaged
  BY <1>1, <1>3, ResendErrorTyped DEF RejectDamaged, MarlinTypeOK
<1>4. CASE RejectOutOfSequence
  BY <1>1, <1>4, ResendErrorTyped DEF RejectOutOfSequence, MarlinTypeOK
<1>5. CASE ExecuteM110
  <2>1. wire' \in Seq(Message) /\ rx' \in Seq(Answer)
    BY <1>1, <1>5, ReplyTyped, AnswersTyped DEF ExecuteM110
  <2> QED BY <1>2, <1>5, <2>1 DEF ExecuteM110, MarlinTypeOK
<1>6. CASE ExecuteLine
  <2>1. wire' \in Seq(Message) /\ rx' \in Seq(Answer)
    BY <1>1, <1>6, ReplyTyped, AnswersTyped DEF ExecuteLine, AnswerOf
  <2>2. executed' \in Seq(1..FileLen)
    <3>1. Head(wire).line \in 1..FileLen
      BY <1>2, <1>6 DEF ExecuteLine
    <3> QED BY <1>6, <3>1, AppendProperties DEF ExecuteLine, MarlinTypeOK
  <2> QED BY <1>2, <1>6, <2>1, <2>2 DEF ExecuteLine, MarlinTypeOK
<1>7. CASE ExecuteUnnumbered
  <2>1. wire' \in Seq(Message) /\ rx' \in Seq(Answer)
    BY <1>1, <1>7, ReplyTyped, AnswersTyped DEF ExecuteUnnumbered
  <2>2. runs' \in [Manual -> Nat]
    <3>1. runs \in [Manual -> Nat]
      BY DEF MarlinTypeOK
    <3>2. runs' = runs \/ runs' = [runs EXCEPT ![Head(wire).cmd] = @ + 1]
      BY <1>7 DEF ExecuteUnnumbered
    <3>3. ASSUME NEW c PROVE [runs EXCEPT ![c] = @ + 1] \in [Manual -> Nat]
      <4>1. CASE c \in Manual BY <3>1, <4>1
      <4>2. CASE c \notin Manual BY <3>1, <4>2
      <4> QED BY <4>1, <4>2
    <3> QED BY <3>1, <3>2, <3>3
  <2>3. hot' = hot \/ hot' = FALSE
    BY <1>7 DEF ExecuteUnnumbered
  <2>4. hot' \in BOOLEAN
    BY <2>3 DEF MarlinTypeOK
  <2> QED BY <1>7, <2>1, <2>2, <2>4 DEF ExecuteUnnumbered, MarlinTypeOK
<1> QED
  BY <1>3, <1>4, <1>5, <1>6, <1>7 DEF MarlinStep

\* The engine's variables when only the printer, or only the wire, moves.
LEMMA EngineStays == EngineInv /\ UNCHANGED engineVars => EngineInv'
BY DEF EngineInv, EngineTypeOK, FifoBound, HasPoll, engineVars, lineVars, resyncVars, manVars

LEMMA WindowIn == EngineTypeOK => EffWindow <= 6
BY DEF EngineTypeOK, EffWindow

LEMMA SendTyped ==
    ASSUME TypeInv, NEW msg \in Message, NEW slot \in Slot, Send(msg, slot)
    PROVE  /\ MarlinTypeOK'
           /\ fifo' \in Seq(Slot)
           /\ Len(fifo') = Len(fifo) + 1
           /\ IsPoll(slot) => HasPoll'
<1>1. wire' \in Seq(Message)
  BY AppendProperties DEF TypeInv, MarlinTypeOK, Send
<1>2. MarlinTypeOK'
  BY <1>1 DEF TypeInv, MarlinTypeOK, Send
<1>3. fifo' \in Seq(Slot) /\ Len(fifo') = Len(fifo) + 1 /\ fifo'[Len(fifo) + 1] = slot
  BY AppendProperties DEF TypeInv, EngineInv, EngineTypeOK, Send
<1>4. IsPoll(slot) => HasPoll'
  <2>1. Len(fifo) + 1 \in 1..Len(fifo')
    BY <1>3, LenProperties DEF TypeInv, EngineInv, EngineTypeOK
  <2> QED BY <1>3, <2>1 DEF HasPoll
<1> QED
  BY <1>2, <1>3, <1>4

LEMMA SlotsTyped ==
    /\ PollMsg \in Message /\ FinishMsg \in Message /\ OffMsg \in Message
    /\ \A c \in Manual : ManualMsg(c) \in Message
    /\ PollSlot \in Slot /\ FinishSlot \in Slot /\ ManualSlot \in Slot
    /\ \A n \in Nat, k \in 0..FileLen : PrintMsg(n, k) \in Message /\ PrintSlot(n, k) \in Slot
    /\ IsPoll(PollSlot)
BY DEF PollMsg, FinishMsg, OffMsg, ManualMsg, PrintMsg, Message,
       PollSlot, FinishSlot, ManualSlot, PrintSlot, Slot, IsPoll

\* Sending inside the window.
LEMMA WindowedSendTyped ==
    ASSUME TypeInv, RoomToSend, NEW msg \in Message, NEW slot \in Slot, Send(msg, slot)
    PROVE  MarlinTypeOK' /\ fifo' \in Seq(Slot) /\ Len(fifo') <= 6
<1>1. Len(fifo) < EffWindow /\ EffWindow <= 6 /\ Len(fifo) \in Nat
  BY WindowIn, LenProperties DEF RoomToSend, TypeInv, EngineInv, EngineTypeOK
<1>2. EffWindow \in Nat
  BY DEF EffWindow, TypeInv, EngineInv, EngineTypeOK
<1> QED
  BY <1>1, <1>2, SendTyped

LEMMA ShutdownTyped ==
    ASSUME MarlinTypeOK, SafeShutdown, UNCHANGED <<lastN, executed, hot, runs, alive, damaged, lost>>
    PROVE  MarlinTypeOK'
<1>1. wire' \in Seq(Message) /\ rx' \in Seq(Answer)
  BY SlotsTyped, AppendProperties, EmptySeq DEF MarlinTypeOK, SafeShutdown
<1> QED
  BY <1>1 DEF MarlinTypeOK

LEMMA ReadTyped ==
    ASSUME MarlinTypeOK, rx # <<>>, rx' = Tail(rx), UNCHANGED <<wire, lastN, executed, hot, runs, alive, damaged, lost>>
    PROVE  MarlinTypeOK'
<1>1. rx' \in Seq(Answer)
  BY HeadTailProperties DEF MarlinTypeOK
<1> QED
  BY <1>1 DEF MarlinTypeOK

LEMMA PendingTyped ==
    ASSUME EngineTypeOK
    PROVE  AnswerPending \in [Manual -> {"new", "waiting", "ok", "error"}]
BY DEF EngineTypeOK, AnswerPending

LEMMA LeaveTyped ==
    ASSUME EngineInv, NEW state \in {"IDLE", "ERROR"}, NEW reason, Leave(state, reason),
           UNCHANGED <<gWindow, lineVars, fifo, finishSent, throttle, resyncVars, gBytesDone>>
    PROVE  EngineInv'
<1>1. answered' \in [Manual -> {"new", "waiting", "ok", "error"}]
  BY PendingTyped DEF EngineInv, Leave
<1> QED
  BY <1>1 DEF EngineInv, EngineTypeOK, FifoBound, HasPoll, Leave, lineVars, resyncVars

LEMMA AckTyped ==
    ASSUME EngineInv, NEW k \in 1..Len(fifo), AckSlots(k),
           UNCHANGED <<gWindow, lineVars, finishSent, resyncVars>>
    PROVE  EngineInv'
<1> USE DEF EngineInv, EngineTypeOK
<1> DEFINE lines == {i \in Positions("print") : i <= k}
<1>1. fifo' \in Seq(Slot) /\ Len(fifo') = Len(fifo) - k /\ Len(fifo) \in Nat
  <2>1. Len(fifo) \in Nat /\ \A i \in (k + 1)..Len(fifo) : fifo[i] \in Slot
    BY ElementOfSeq, LenProperties
  <2>2. fifo' = SubSeq(fifo, k + 1, Len(fifo))
    BY DEF AckSlots
  <2>3. k \in 1..Len(fifo)
    OBVIOUS
  <2> QED
    BY ONLY <2>1, <2>2, <2>3, SubSeqProperties
<1>2. Len(fifo') <= 6
  <2>1. FifoBound
    BY DEF EngineInv
  <2>2. Len(fifo) = 7 \/ Len(fifo) <= 6
    BY <2>1, FifoAtMost7
  <2>3. k \in Nat /\ k >= 1
    BY <1>1
  <2>4. ASSUME NEW a \in Nat, NEW b, b = a - k, a = 7 \/ a <= 6 PROVE b <= 6
    BY ONLY <2>3, <2>4
  <2> QED BY ONLY <1>1, <2>2, <2>4
<1>3. lines \in SUBSET (1..7) /\ lines \subseteq 1..Len(fifo)
  BY PositionsShort
<1>4. gBytesDone' \in 0..FileLen
  <2>1. lines # {} => fifo[Max(lines)].after \in 0..FileLen
    <3> SUFFICES ASSUME lines # {} PROVE fifo[Max(lines)].after \in 0..FileLen
      OBVIOUS
    <3>1. Max(lines) \in 1..Len(fifo)
      BY <1>3, MaxIn
    <3>2. fifo[Max(lines)] \in Slot
      BY <3>1, ElementOfSeq
    <3> QED
      BY <3>2 DEF Slot
  <2>2. gBytesDone' \in {FileLen, gBytesDone} \/ (lines # {} /\ gBytesDone' = fifo[Max(lines)].after)
    BY DEF AckSlots
  <2> QED
    BY <2>1, <2>2, MarlinAssumption
<1>5. throttle' \in 0..Throttle
  <2>1. Cardinality(lines) \in Nat
    BY <1>3, SmallCardinality
  <2>2. throttle' = IF Cardinality(lines) >= throttle THEN 0 ELSE throttle - Cardinality(lines)
    BY DEF AckSlots
  <2> QED
    BY <2>1, <2>2, StreamAssumption
<1>6. answered' \in [Manual -> {"new", "waiting", "ok", "error"}]
  <2> DEFINE done == \E i \in Positions("manual") : i <= k /\ \A j \in Positions("finish") : i < j
             ok   == [c \in Manual |-> IF done /\ c = man THEN "ok" ELSE answered[c]]
  <2>1. ok \in [Manual -> {"new", "waiting", "ok", "error"}]
    OBVIOUS
  <2>2. answered' \in {ok, AnswerPending}
    BY DEF AckSlots
  <2> QED
    BY <2>1, <2>2, PendingTyped
<1>7. gState' \in {"PRINTING", "PAUSED", "IDLE", "ERROR"}
  BY DEF AckSlots
<1>8. man' \in Manual \cup {NoCmd} /\ manSent' \in BOOLEAN
  BY DEF AckSlots
<1>9. EngineTypeOK'
  <2>1. fifo' \in Seq(Slot) /\ Len(fifo') <= MaxW
    BY <1>1, <1>2, StreamAssumption
  <2>2. UNCHANGED <<gWindow, start, lineNo, hist, finishSent, resync, resendFrom, lastGood>>
    BY DEF lineVars, resyncVars
  <2> QED
    BY <1>4, <1>5, <1>6, <1>7, <1>8, <2>1, <2>2
<1> QED
  BY <1>2, <1>9 DEF FifoBound

\* What the engine reads.
LEMMA ReceiveTyped == ASSUME TypeInv, Receive PROVE TypeInv'
<1> USE DEF TypeInv
<1>0. rx # <<>> /\ Head(rx) \in Answer
  <2>1. rx # <<>>
    BY DEF Receive, IgnoreOk, AckOldest, AckThroughPoll, ErrorReported, RestartReported, FatalReported, Received
  <2> QED BY <2>1, HeadTailProperties DEF MarlinTypeOK
<1>1. CASE IgnoreOk
  BY <1>0, <1>1, ReadTyped, EngineStays DEF IgnoreOk
<1>2. CASE AckOldest
  <2>1. 1 \in 1..Len(fifo)
    BY <1>2, LenProperties, EmptySeq DEF AckOldest, EngineInv, EngineTypeOK
  <2> QED
    BY <1>0, <1>2, <2>1, ReadTyped, AckTyped DEF AckOldest
<1>3. CASE AckThroughPoll
  <2>1. Positions("poll") # {}
    BY <1>3 DEF AckThroughPoll, HasPoll, IsPoll, Positions
  <2>2. Min(Positions("poll")) \in 1..Len(fifo)
    BY <2>1, PositionsShort, MinIn
  <2> QED
    BY <1>0, <1>3, <2>2, ReadTyped, AckTyped DEF AckThroughPoll
<1>4. CASE ErrorReported
  <2>1. MarlinTypeOK'
    BY <1>0, <1>4, ReadTyped DEF ErrorReported
  <2>2. Head(rx).last \in Nat /\ Head(rx).resend \in Nat
    BY <1>0 DEF Answer
  <2>3. EngineTypeOK'
    BY <1>4, <2>2 DEF ErrorReported, EngineInv, EngineTypeOK, lineVars, manVars
  <2> QED
    BY <1>4, <2>1, <2>3 DEF ErrorReported, EngineInv, FifoBound, HasPoll
<1>5. CASE RestartReported
  BY <1>5, ShutdownTyped, LeaveTyped DEF RestartReported
<1>6. CASE FatalReported
  BY <1>0, <1>6, ReadTyped, LeaveTyped DEF FatalReported
<1> QED
  BY <1>1, <1>2, <1>3, <1>4, <1>5, <1>6 DEF Receive

\* The line has gone quiet: the FIFO is emptied.
LEMMA ResynchroniseTyped == ASSUME TypeInv, Resynchronise PROVE TypeInv'
<1> USE DEF TypeInv
<1>1. MarlinTypeOK'
  <2>1. CASE SafeShutdown
    BY <2>1, ShutdownTyped DEF Resynchronise
  <2>2. CASE UNCHANGED <<wire, rx>>
    BY <2>2 DEF Resynchronise, MarlinTypeOK
  <2> QED
    BY <2>1, <2>2 DEF Resynchronise
<1>2. fifo' = <<>> /\ resync' = FALSE /\ lastGood' = 0 /\ finishSent' = FALSE /\ throttle' = Throttle
  BY DEF Resynchronise, FinishAfterResync
<1>3. UNCHANGED <<gWindow, start, lineNo, hist, gBytesDone>>
  BY DEF Resynchronise, lineVars
<1>4. answered' \in [Manual -> {"new", "waiting", "ok", "error"}] /\ man' \in Manual \cup {NoCmd} /\ manSent' = FALSE
  <2>1. answered' \in {answered, AnswerPending} /\ man' \in {man, NoCmd} /\ manSent' = FALSE
    BY DEF Resynchronise, ManualAfterResync, Leave
  <2> QED
    BY <2>1, PendingTyped DEF EngineInv, EngineTypeOK
<1>5. gState' \in {"PRINTING", "PAUSED", "IDLE", "ERROR"}
  BY DEF Resynchronise, Leave, EngineInv, EngineTypeOK
<1>6. resendFrom' \in Nat /\ resendFrom' <= lineNo
  <2> USE DEF EngineInv, EngineTypeOK
  <2>1. CASE resendFrom' = 0
    BY <2>1
  <2>2. CASE resendFrom' = RestartLine /\ RestartLine \in 1..lineNo
    BY <2>2
  <2>3. CASE UNCHANGED resendFrom /\ RestartLine \in 1..lineNo
    <3>1. resendFrom # 0 => RestartLine = resendFrom
      BY DEF RestartLine
    <3> QED
      BY <2>3, <3>1
  <2> QED
    BY <2>1, <2>2, <2>3 DEF Resynchronise
<1>7. fifo' \in Seq(Slot) /\ Len(fifo') = 0
  BY <1>2, EmptySeq
<1>8. EngineTypeOK'
  <2>1. Len(fifo') <= MaxW
    BY <1>7
  <2>2. /\ gWindow \in Windows /\ start \in Starts /\ lineNo \in Nat /\ start + lineNo <= FileLen
        /\ hist \in [0..(Hist - 1) -> [n: Nat, line: 0..FileLen]] /\ gBytesDone \in 0..FileLen
    BY DEF EngineInv, EngineTypeOK
  <2>3. throttle' \in 0..Throttle /\ lastGood' \in Nat
    BY <1>2
  <2> QED
    BY <1>2, <1>3, <1>4, <1>5, <1>6, <1>7, <2>1, <2>2, <2>3 DEF EngineTypeOK
<1>9. FifoBound'
  BY <1>7 DEF FifoBound
<1> QED
  BY <1>1, <1>8, <1>9 DEF EngineInv

\* What a step that sends inside the window leaves of the engine's variables.
SendingKeeps ==
    /\ UNCHANGED <<gState, gWindow, start, throttle, resync, lastGood, gBytesDone, man, answered>>
    /\ lineNo' \in Nat /\ start + lineNo' <= FileLen
    /\ hist' \in [0..(Hist - 1) -> [n: Nat, line: 0..FileLen]]
    /\ finishSent' \in BOOLEAN /\ manSent' \in BOOLEAN
    /\ resendFrom' \in Nat /\ resendFrom' <= lineNo'

LEMMA SentTyped ==
    ASSUME TypeInv, RoomToSend, NEW msg \in Message, NEW slot \in Slot, Send(msg, slot), SendingKeeps
    PROVE  TypeInv'
<1>1. MarlinTypeOK' /\ fifo' \in Seq(Slot) /\ Len(fifo') <= 6
  BY WindowedSendTyped
<1>2. Len(fifo') \in Nat
  BY <1>1, LenProperties
<1>3. Len(fifo') <= MaxW
  BY <1>1, <1>2
<1>4. EngineTypeOK'
  BY <1>1, <1>3 DEF TypeInv, EngineInv, EngineTypeOK, SendingKeeps
<1> QED
  BY <1>1, <1>4 DEF TypeInv, EngineInv, FifoBound

LEMMA SendingKeepsLines ==
    ASSUME TypeInv, RoomToSend,
           UNCHANGED <<gState, gWindow, start, lineNo, hist, throttle, resync, resendFrom, lastGood, gBytesDone, man, answered>>,
           finishSent' \in BOOLEAN, manSent' \in BOOLEAN
    PROVE  SendingKeeps
BY DEF TypeInv, EngineInv, EngineTypeOK, RoomToSend, SendingKeeps

LEMMA SendPollTyped == ASSUME TypeInv, SendPoll PROVE TypeInv'
<1>1. /\ UNCHANGED <<gState, gWindow, start, lineNo, hist, throttle, resync, resendFrom, lastGood, gBytesDone, man, answered>>
      /\ UNCHANGED finishSent /\ UNCHANGED manSent
  BY DEF SendPoll, lineVars, resyncVars, manVars
<1>2. finishSent' \in BOOLEAN /\ manSent' \in BOOLEAN
  BY <1>1 DEF TypeInv, EngineInv, EngineTypeOK
<1>3. RoomToSend /\ Send(PollMsg, PollSlot)
  BY DEF SendPoll
<1> QED
  BY <1>1, <1>2, <1>3, SlotsTyped, SendingKeepsLines, SentTyped

LEMMA SendManualTyped == ASSUME TypeInv, SendManual PROVE TypeInv'
<1>1. /\ UNCHANGED <<gState, gWindow, start, lineNo, hist, throttle, resync, resendFrom, lastGood, gBytesDone, man, answered>>
      /\ UNCHANGED finishSent /\ manSent' = TRUE
  BY DEF SendManual, lineVars, resyncVars
<1>2. finishSent' \in BOOLEAN /\ manSent' \in BOOLEAN
  BY <1>1 DEF TypeInv, EngineInv, EngineTypeOK
<1>3. RoomToSend /\ Send(ManualMsg(man), ManualSlot)
  BY DEF SendManual
<1>4. man \in Manual
  BY DEF SendManual, ManualWaiting, TypeInv, EngineInv, EngineTypeOK
<1> QED
  BY <1>1, <1>2, <1>3, <1>4, SlotsTyped, SendingKeepsLines, SentTyped

LEMMA SendFinishTyped == ASSUME TypeInv, SendFinish PROVE TypeInv'
<1>1. /\ UNCHANGED <<gState, gWindow, start, lineNo, hist, throttle, resync, resendFrom, lastGood, gBytesDone, man, answered>>
      /\ UNCHANGED manSent /\ finishSent' = TRUE
  BY DEF SendFinish, lineVars, resyncVars, manVars
<1>2. finishSent' \in BOOLEAN /\ manSent' \in BOOLEAN
  BY <1>1 DEF TypeInv, EngineInv, EngineTypeOK
<1>3. RoomToSend /\ Send(FinishMsg, FinishSlot)
  BY DEF SendFinish
<1> QED
  BY <1>1, <1>2, <1>3, SlotsTyped, SendingKeepsLines, SentTyped

LEMMA SendLineTyped == ASSUME TypeInv, SendLine PROVE TypeInv'
<1>1. UNCHANGED <<gState, gWindow, start, finishSent, throttle, resync, resendFrom, lastGood,
                  gBytesDone, man, manSent, answered>> /\ lineNo' = lineNo + 1
  BY DEF SendLine, resyncVars, manVars
<1>2. lineNo \in Nat /\ start \in 0..FileLen /\ start + lineNo < FileLen
  BY DEF SendLine, EndOfFile, TypeInv, EngineInv, EngineTypeOK
<1>3. NextLine \in 0..FileLen /\ lineNo + 1 \in Nat
  BY <1>2 DEF NextLine
<1>4. hist' \in [0..(Hist - 1) -> [n: Nat, line: 0..FileLen]]
  <2> DEFINE entry == [n |-> lineNo + 1, line |-> NextLine]
  <2>1. entry \in [n: Nat, line: 0..FileLen]
    BY <1>3
  <2>2. hist' = [hist EXCEPT ![HistSlot(lineNo + 1)] = entry]
    BY DEF SendLine
  <2> QED
    BY <2>1, <2>2 DEF TypeInv, EngineInv, EngineTypeOK
<1>5. PrintMsg(lineNo + 1, NextLine) \in Message /\ PrintSlot(lineNo + 1, NextLine) \in Slot
  BY <1>3, SlotsTyped
<1>6. Send(PrintMsg(lineNo + 1, NextLine), PrintSlot(lineNo + 1, NextLine)) /\ RoomToSend
  BY DEF SendLine
<1>7. resendFrom \in Nat /\ resendFrom <= lineNo /\ manSent \in BOOLEAN /\ finishSent \in BOOLEAN
  BY <1>6 DEF RoomToSend, TypeInv, EngineInv, EngineTypeOK
<1>8. SendingKeeps
  BY <1>1, <1>2, <1>4, <1>7 DEF SendingKeeps
<1> QED
  BY <1>5, <1>6, <1>8, SentTyped

LEMMA ResendLineTyped == ASSUME TypeInv, ResendLine PROVE TypeInv'
<1>0. UNCHANGED <<gWindow, start, lineNo, hist, finishSent, throttle, resync, lastGood, gBytesDone>>
  BY DEF ResendLine, lineVars
<1>1. CASE /\ Kept(resendFrom)
           /\ Send(PrintMsg(resendFrom, KeptLine(resendFrom)), PrintSlot(resendFrom, KeptLine(resendFrom)))
           /\ resendFrom' = IF resendFrom < lineNo THEN resendFrom + 1 ELSE 0
           /\ UNCHANGED <<gState, why, manVars>>
  <2>1. KeptLine(resendFrom) \in 0..FileLen
    <3>1. PICK i \in DOMAIN hist : KeptLine(resendFrom) = hist[i].line
      BY <1>1, KeptLineIn
    <3> QED
      BY <3>1 DEF TypeInv, EngineInv, EngineTypeOK
  <2>2. RoomToSend /\ ~resync
    BY DEF ResendLine, RoomToSend
  <2>3. resendFrom \in Nat /\ lineNo \in Nat /\ resendFrom' \in Nat /\ resendFrom' <= lineNo
    BY <1>1 DEF TypeInv, EngineInv, EngineTypeOK
  <2>4. /\ PrintMsg(resendFrom, KeptLine(resendFrom)) \in Message
        /\ PrintSlot(resendFrom, KeptLine(resendFrom)) \in Slot
    BY <2>1, <2>3, SlotsTyped
  <2>5. UNCHANGED <<man, manSent, answered>>
    BY <1>1 DEF manVars
  <2>6. SendingKeeps
    BY <1>0, <1>1, <2>3, <2>5 DEF SendingKeeps, TypeInv, EngineInv, EngineTypeOK
  <2> QED
    BY <1>1, <2>2, <2>4, <2>6, SentTyped
<1>2. CASE /\ SafeShutdown
           /\ Leave("ERROR", "line no longer kept")
           /\ UNCHANGED <<fifo, resendFrom, lastN, executed, hot, runs, alive, damaged, lost>>
  <2>1. UNCHANGED <<gWindow, lineVars, fifo, finishSent, throttle, resyncVars, gBytesDone>>
    BY <1>0, <1>2 DEF lineVars, resyncVars
  <2> QED
    BY <1>2, <2>1, ShutdownTyped, LeaveTyped DEF TypeInv
<1> QED
  BY <1>1, <1>2 DEF ResendLine

\* A probe may exceed the window by one, but only when no poll is in flight.
LEMMA ProbeTyped == ASSUME TypeInv, Probe PROVE TypeInv'
<1>1. MarlinTypeOK' /\ fifo' \in Seq(Slot) /\ Len(fifo') = Len(fifo) + 1 /\ HasPoll'
  BY SlotsTyped, SendTyped DEF Probe
<1>2. Len(fifo) \in Nat /\ Len(fifo) <= 6
  BY LenProperties DEF Probe, TypeInv, EngineInv, EngineTypeOK, FifoBound
<1>3. UNCHANGED <<gState, gWindow, start, lineNo, hist, finishSent, throttle, resync, resendFrom, lastGood,
                  gBytesDone, man, manSent, answered>>
  BY DEF Probe, lineVars, resyncVars, manVars
<1>4. EngineTypeOK'
  <2>1. Len(fifo') <= MaxW
    BY <1>1, <1>2
  <2> QED
    BY <1>1, <1>3, <2>1 DEF TypeInv, EngineInv, EngineTypeOK
<1>5. FifoBound'
  BY <1>1, <1>2 DEF FifoBound
<1> QED
  BY <1>1, <1>4, <1>5 DEF TypeInv, EngineInv

LEMMA UsersTyped == ASSUME TypeInv, Users PROVE TypeInv'
<1> USE DEF TypeInv
<1>1. CASE Stop
  BY <1>1, ShutdownTyped, LeaveTyped DEF Stop
<1>2. CASE Pause \/ Resume \/ ManualCommand \/ SetWindow
  <2>1. MarlinTypeOK'
    BY <1>2 DEF Pause, Resume, ManualCommand, SetWindow, marlinVars, MarlinTypeOK
  <2>2. FifoBound'
    BY <1>2 DEF Pause, Resume, ManualCommand, SetWindow, EngineInv, FifoBound, HasPoll
  <2>3. EngineTypeOK'
    <3>1. CASE Pause \/ Resume
      BY <3>1 DEF Pause, Resume, EngineInv, EngineTypeOK, lineVars, resyncVars, manVars
    <3>2. CASE ManualCommand
      BY <3>2 DEF ManualCommand, EngineInv, EngineTypeOK, lineVars, resyncVars
    <3>3. CASE SetWindow
      BY <3>3 DEF SetWindow, EngineInv, EngineTypeOK, lineVars, resyncVars, manVars
    <3> QED
      BY <1>2, <3>1, <3>2, <3>3
  <2> QED
    BY <2>1, <2>2, <2>3 DEF EngineInv
<1> QED
  BY <1>1, <1>2 DEF Users

LEMMA FaultsTyped == ASSUME TypeInv, Faults PROVE TypeInv'
<1> USE DEF TypeInv
<1>1. CASE LoseAnswer /\ UNCHANGED engineVars
  <2>1. rx' \in Seq(Answer)
    BY <1>1, HeadTailProperties DEF LoseAnswer, MarlinTypeOK
  <2> QED
    BY <1>1, <2>1, EngineStays DEF LoseAnswer, MarlinTypeOK
<1>2. CASE PrinterFails /\ UNCHANGED engineVars
  <2>1. /\ wire' = wire \/ wire' = <<>>
        /\ lastN' = lastN \/ lastN' = 0
        /\ hot' = hot \/ hot' = FALSE
        /\ rx' = rx \/ rx' = Append(rx, Plain("start")) \/ rx' = Append(rx, Plain("fatal"))
    BY <1>2 DEF PrinterFails
  <2>2. UNCHANGED <<executed, runs, damaged, lost>> /\ alive' = FALSE
    BY <1>2 DEF PrinterFails
  <2>3. Plain("start") \in Answer /\ Plain("fatal") \in Answer
    BY AnswersTyped
  <2>4. rx' \in Seq(Answer)
    <3>1. rx \in Seq(Answer)
      BY DEF MarlinTypeOK
    <3>2. Append(rx, Plain("start")) \in Seq(Answer) /\ Append(rx, Plain("fatal")) \in Seq(Answer)
      BY <2>3, <3>1, AppendProperties
    <3> QED
      BY <2>1, <3>1, <3>2
  <2>5. wire' \in Seq(Message)
    BY <2>1, EmptySeq DEF MarlinTypeOK
  <2>6. hot' \in BOOLEAN /\ lastN' \in Nat
    <3>1. lastN' = lastN \/ lastN' = 0
      BY <2>1
    <3>2. lastN' \in Nat
      BY <3>1 DEF MarlinTypeOK
    <3>3. hot' = hot \/ hot' = FALSE
      BY <1>2 DEF PrinterFails
    <3>4. hot' \in BOOLEAN
      BY <3>3 DEF MarlinTypeOK
    <3> QED
      BY <3>2, <3>4
  <2>7. MarlinTypeOK'
    BY <2>2, <2>4, <2>5, <2>6 DEF MarlinTypeOK
  <2> QED
    BY <1>2, <2>7, EngineStays
<1>3. CASE LinkLost
  <2>1. wire' \in Seq(Message)
    <3>1. PICK k \in 0..Len(wire) : wire' = SubSeq(wire, 1, k)
      BY <1>3 DEF LinkLost
    <3>2. \A i \in 1..k : wire[i] \in Message
      BY ElementOfSeq, LenProperties DEF MarlinTypeOK
    <3> QED
      BY <3>1, <3>2, SubSeqProperties
  <2>2. MarlinTypeOK'
    BY <1>3, <2>1, EmptySeq DEF LinkLost, MarlinTypeOK
  <2> QED
    BY <1>3, <2>2, LeaveTyped DEF LinkLost
<1>4. CASE WriteFails
  <2>1. MarlinTypeOK'
    <3>1. CASE SafeShutdown
      BY <1>4, <3>1, ShutdownTyped DEF WriteFails
    <3>2. CASE rx' = <<>> /\ UNCHANGED wire
      BY <1>4, <3>2, EmptySeq DEF WriteFails, MarlinTypeOK
    <3> QED
      BY <1>4, <3>1, <3>2 DEF WriteFails
  <2> QED
    BY <1>4, <2>1, LeaveTyped DEF WriteFails
<1> QED
  BY <1>1, <1>2, <1>3, <1>4 DEF Faults

LEMMA NextTyped == TypeInv /\ [Next]_vars => TypeInv'
<1> SUFFICES ASSUME TypeInv, [Next]_vars PROVE TypeInv'
  OBVIOUS
<1>1. CASE Printer
  BY <1>1, MarlinStepTyped, EngineStays DEF Printer, TypeInv
<1>2. CASE Receive
  BY <1>2, ReceiveTyped
<1>3. CASE Resynchronise
  BY <1>3, ResynchroniseTyped
<1>4. CASE SendPoll \/ Transmit
  <2>1. CASE LineTooLong
    BY <2>1, ShutdownTyped, LeaveTyped DEF LineTooLong, TypeInv
  <2> QED
    BY <1>4, <2>1, SendPollTyped, ResendLineTyped, SendManualTyped, SendLineTyped, SendFinishTyped DEF Transmit
<1>5. CASE DropAbandoned
  <2>1. UNCHANGED marlinVars /\ UNCHANGED <<gState, gWindow, start, lineNo, hist, fifo, finishSent, throttle, resync,
                                            resendFrom, lastGood, gBytesDone, manSent, answered>> /\ man' = NoCmd
    BY <1>5 DEF DropAbandoned, lineVars, resyncVars
  <2> QED
    BY <2>1 DEF TypeInv, MarlinTypeOK, marlinVars, EngineInv, EngineTypeOK, FifoBound, HasPoll
<1>6. CASE Probe
  BY <1>6, ProbeTyped
<1>7. CASE StoppedResponding
  BY <1>7, ShutdownTyped, LeaveTyped DEF StoppedResponding, TypeInv
<1>8. CASE Users
  BY <1>8, UsersTyped
<1>9. CASE Faults
  BY <1>9, FaultsTyped
<1>10. CASE UNCHANGED vars
  BY <1>10, EngineStays DEF vars, marlinVars, MarlinTypeOK, TypeInv
<1> QED
  BY <1>1, <1>2, <1>3, <1>4, <1>5, <1>6, <1>7, <1>8, <1>9, <1>10 DEF Next, Engine

\* Whatever happens, the state is typed, and the seven slots of the FIFO ring suffice:
\* fifoPush, which does not look, never overwrites the oldest command in flight.
THEOREM TypeCorrect == Spec => []TypeOK
<1>1. TypeInv => TypeOK
  BY DEF TypeInv, EngineInv, TypeOK
<1> QED
  BY <1>1, InitTyped, NextTyped, PTL DEF Spec

-----------------------------------------------------------------------------
(* The order of the lines *)

\* A numbered line carries the file line that belongs to its number.
NumberedAs(m) == m.type = "print" => m.n # 0 /\ m.line = start + m.n

IsM110(m) == m.type = "print" /\ m.n = 0 /\ m.line = 0

\* M110 travels alone, before anything is executed.
WireInOrder == \A i \in 1..Len(wire) :
    NumberedAs(wire[i]) \/ (i = 1 /\ IsM110(wire[i]) /\ executed = <<>>)

HistInOrder == \A i \in DOMAIN hist : hist[i].n = 0 \/ hist[i].line = start + hist[i].n

CountInOrder == alive => lastN = Len(executed)

OrderInv == WireInOrder /\ HistInOrder /\ CountInOrder /\ InOrder

-----------------------------------------------------------------------------
LEMMA InitInOrder == ASSUME LastN0 = {0}, Init PROVE OrderInv
<1>1. wire = <<PrintMsg(0, 0)>> /\ executed = <<>> /\ lastN = 0
  BY DEF Init
<1>2. WireInOrder
  BY <1>1 DEF WireInOrder, IsM110, PrintMsg
<1>3. HistInOrder
  BY DEF Init, HistInOrder
<1>4. CountInOrder /\ InOrder
  BY <1>1 DEF CountInOrder, InOrder
<1> QED
  BY <1>2, <1>3, <1>4 DEF OrderInv

\* A step of the wire that only removes lines, or adds lines that are in order.
LEMMA WireShrinks ==
    ASSUME TypeInv, WireInOrder, wire # <<>>, wire' = Tail(wire), UNCHANGED start
    PROVE  WireInOrder' /\ \A i \in 1..Len(wire') : NumberedAs(wire[i + 1])
<1>1. wire \in Seq(Message) /\ Len(wire) \in Nat
  BY LenProperties DEF TypeInv, MarlinTypeOK
<1>2. Len(wire') = Len(wire) - 1 /\ \A i \in 1..Len(wire') : wire'[i] = wire[i + 1]
  BY <1>1, HeadTailProperties
<1>3. ASSUME NEW i \in 1..Len(wire') PROVE NumberedAs(wire[i + 1])
  <2>1. i + 1 \in 1..Len(wire) /\ i + 1 # 1
    BY <1>1, <1>2
  <2> QED
    BY <2>1 DEF WireInOrder
<1>4. ASSUME NEW i \in 1..Len(wire') PROVE NumberedAs(wire[i])'
  BY <1>2, <1>3, <1>4 DEF NumberedAs
<1> QED
  BY <1>3, <1>4 DEF WireInOrder

LEMMA WireGrows ==
    ASSUME TypeInv, WireInOrder, NEW m \in Message, wire' = Append(wire, m), NumberedAs(m), UNCHANGED <<start, executed>>
    PROVE  WireInOrder'
<1>1. wire \in Seq(Message) /\ Len(wire) \in Nat
  BY LenProperties DEF TypeInv, MarlinTypeOK
<1>2. Len(wire') = Len(wire) + 1 /\ wire'[Len(wire) + 1] = m /\ \A i \in 1..Len(wire) : wire'[i] = wire[i]
  BY <1>1, AppendProperties
<1>3. ASSUME NEW i \in 1..Len(wire')
      PROVE  NumberedAs(wire[i])' \/ (i = 1 /\ IsM110(wire[i])' /\ executed' = <<>>)
  <2>1. CASE i = Len(wire) + 1
    BY <1>2, <2>1 DEF NumberedAs
  <2>2. CASE i # Len(wire) + 1
    <3>1. i \in 1..Len(wire)
      BY <1>1, <1>2, <2>2
    <3>2. wire'[i] = wire[i]
      BY <1>2, <3>1
    <3> QED
      BY <3>1, <3>2 DEF WireInOrder, NumberedAs, IsM110
  <2> QED
    BY <2>1, <2>2
<1> QED
  BY <1>3 DEF WireInOrder

LEMMA WireStays == WireInOrder /\ UNCHANGED <<wire, start, executed>> => WireInOrder'
BY DEF WireInOrder, NumberedAs, IsM110

LEMMA RestStays ==
    HistInOrder /\ CountInOrder /\ InOrder /\ UNCHANGED <<hist, start, alive, lastN, executed>>
    => HistInOrder' /\ CountInOrder' /\ InOrder'
BY DEF HistInOrder, CountInOrder, InOrder

\* The printer executes the successor of the last line, or M110 before any line.
LEMMA MarlinInOrder == ASSUME TypeInv, OrderInv, Printer PROVE OrderInv'
<1> USE DEF OrderInv
<1>0. wire # <<>> /\ alive /\ wire' = Tail(wire) /\ UNCHANGED <<start, hist>>
  BY DEF Printer, MarlinStep, RejectDamaged, RejectOutOfSequence, ExecuteM110, ExecuteLine, ExecuteUnnumbered,
         Reading, Reply, ResendError, engineVars, lineVars
<1>1. WireInOrder' /\ HistInOrder'
  BY <1>0, WireShrinks DEF HistInOrder
<1>2. Head(wire) = wire[1] /\ 1 \in 1..Len(wire) /\ Head(wire) \in Message
  <2>1. wire \in Seq(Message)
    BY DEF TypeInv, MarlinTypeOK
  <2> QED BY <1>0, <2>1, HeadTailProperties, LenProperties, EmptySeq
<1>3. CASE ExecuteLine
  <2>1. Head(wire).type = "print" /\ Head(wire).line # 0 /\ Head(wire).n = lastN + 1
    BY <1>3 DEF ExecuteLine, Reading, InSequence
  <2>2. Head(wire).line = start + Head(wire).n
    BY <1>2, <2>1 DEF WireInOrder, NumberedAs, IsM110
  <2>3. lastN = Len(executed) /\ Len(executed) \in Nat /\ executed \in Seq(1..FileLen)
    BY <1>0, LenProperties DEF CountInOrder, TypeInv, MarlinTypeOK
  <2>4. Head(wire).line \in 1..FileLen
    BY <1>2, <2>1, MarlinAssumption DEF Message
  <2>5. executed' = Append(executed, Head(wire).line) /\ lastN' = Head(wire).n
    BY <1>3 DEF ExecuteLine
  <2>6. /\ Len(executed') = Len(executed) + 1
        /\ executed'[Len(executed) + 1] = Head(wire).line
        /\ \A i \in 1..Len(executed) : executed'[i] = executed[i]
    BY <2>3, <2>4, <2>5, AppendProperties
  <2>7. CountInOrder'
    BY <2>1, <2>3, <2>5, <2>6 DEF CountInOrder
  <2>8. ASSUME NEW i \in 1..Len(executed') PROVE executed'[i] = start' + i
    <3>1. CASE i = Len(executed) + 1
      BY <1>0, <2>1, <2>2, <2>3, <2>6, <3>1
    <3>2. CASE i # Len(executed) + 1
      <4>1. i \in 1..Len(executed)
        BY <2>3, <2>6, <3>2
      <4> QED
        BY <1>0, <2>6, <4>1 DEF InOrder
    <3> QED
      BY <3>1, <3>2
  <2> QED
    BY <1>1, <2>7, <2>8 DEF InOrder
<1>4. CASE ExecuteM110
  <2>1. Head(wire).type = "print" /\ Head(wire).line = 0 /\ lastN' = Head(wire).n /\ UNCHANGED executed
    BY <1>4 DEF ExecuteM110, Reading
  <2>2. Head(wire).n \in Nat /\ start \in Nat
    BY <1>2 DEF Message, TypeInv, EngineInv, EngineTypeOK
  <2>3. ~NumberedAs(wire[1])
    BY <1>2, <2>1, <2>2 DEF NumberedAs
  <2>4. executed = <<>> /\ Head(wire).n = 0
    BY <1>2, <2>3 DEF WireInOrder, IsM110
  <2> QED
    BY <1>0, <1>1, <2>1, <2>4, EmptySeq DEF CountInOrder, InOrder
<1>5. CASE RejectDamaged \/ RejectOutOfSequence \/ ExecuteUnnumbered
  <2>1. UNCHANGED <<lastN, executed, alive>>
    BY <1>5 DEF RejectDamaged, RejectOutOfSequence, ExecuteUnnumbered
  <2> QED
    BY <1>0, <1>1, <2>1, RestStays
<1> QED
  BY <1>3, <1>4, <1>5 DEF Printer, MarlinStep

\* A line sent for the first time, or again, has the number of its place in the file.
LEMMA SendLineInOrder == ASSUME TypeInv, OrderInv, SendLine PROVE OrderInv'
<1> USE DEF OrderInv
<1>1. lineNo \in Nat /\ start \in Nat /\ NextLine \in 0..FileLen
  BY DEF SendLine, EndOfFile, NextLine, TypeInv, EngineInv, EngineTypeOK
<1>2. PrintMsg(lineNo + 1, NextLine) \in Message /\ NumberedAs(PrintMsg(lineNo + 1, NextLine))
  BY <1>1, SlotsTyped DEF PrintMsg, NumberedAs, NextLine
<1>3. wire' = Append(wire, PrintMsg(lineNo + 1, NextLine)) /\ UNCHANGED <<start, executed, alive, lastN>>
  BY DEF SendLine, Send
<1>4. WireInOrder'
  BY <1>2, <1>3, WireGrows
<1>5. HistInOrder'
  <2>0. NextLine = start + (lineNo + 1)
    BY <1>1 DEF NextLine
  <2>1. hist' = [hist EXCEPT ![HistSlot(lineNo + 1)] = [n |-> lineNo + 1, line |-> start + (lineNo + 1)]]
    BY <2>0 DEF SendLine
  <2> DEFINE s == HistSlot(lineNo + 1)
             entry == [n |-> lineNo + 1, line |-> start + (lineNo + 1)]
  <2>2. DOMAIN hist' = DOMAIN hist
    BY <2>1
  <2>3. ASSUME NEW i \in DOMAIN hist PROVE hist'[i] = hist[i] \/ hist'[i] = entry
    BY <2>1, <2>3
  <2>4. entry.line = start + entry.n
    OBVIOUS
  <2> HIDE DEF entry
  <2> QED
    BY <1>3, <2>2, <2>3, <2>4 DEF HistInOrder
<1>6. CountInOrder' /\ InOrder'
  BY <1>3 DEF CountInOrder, InOrder
<1> QED
  BY <1>4, <1>5, <1>6

LEMMA ShutdownInOrder ==
    ASSUME TypeInv, OrderInv, SafeShutdown, UNCHANGED <<start, hist, alive, lastN, executed>>
    PROVE  OrderInv'
<1>1. OffMsg \in Message /\ NumberedAs(OffMsg)
  BY SlotsTyped DEF OffMsg, NumberedAs
<1> QED
  BY <1>1, WireGrows, RestStays DEF OrderInv, SafeShutdown

LEMMA ResendLineInOrder == ASSUME TypeInv, OrderInv, ResendLine PROVE OrderInv'
<1> USE DEF OrderInv
<1>0. UNCHANGED <<start, hist, lineNo>>
  BY DEF ResendLine, lineVars
<1>1. CASE Kept(resendFrom) /\ Send(PrintMsg(resendFrom, KeptLine(resendFrom)), PrintSlot(resendFrom, KeptLine(resendFrom)))
  <2>1. PICK i \in DOMAIN hist : hist[i].n = resendFrom /\ KeptLine(resendFrom) = hist[i].line
    BY <1>1, KeptLineIn
  <2>2. resendFrom \in Nat /\ resendFrom # 0 /\ hist[i].line \in 0..FileLen
    BY DEF ResendLine, TypeInv, EngineInv, EngineTypeOK
  <2>3. KeptLine(resendFrom) = start + resendFrom
    BY <2>1, <2>2 DEF HistInOrder
  <2> DEFINE m == PrintMsg(resendFrom, KeptLine(resendFrom))
  <2>4. m \in Message
    BY <2>1, <2>2, SlotsTyped
  <2>5. NumberedAs(m)
    BY <2>2, <2>3 DEF PrintMsg, NumberedAs
  <2>6. wire' = Append(wire, m) /\ UNCHANGED <<executed, alive, lastN>>
    BY <1>1 DEF Send
  <2> HIDE DEF m
  <2> QED
    BY <1>0, <2>4, <2>5, <2>6, WireGrows, RestStays
<1>2. CASE SafeShutdown /\ UNCHANGED <<lastN, executed, alive>>
  BY <1>0, <1>2, ShutdownInOrder
<1> QED
  BY <1>1, <1>2 DEF ResendLine

LEMMA UnnumberedInOrder ==
    ASSUME TypeInv, OrderInv, NEW m \in Message, m.type # "print", NEW slot, Send(m, slot), UNCHANGED <<start, hist>>
    PROVE  OrderInv'
<1>1. NumberedAs(m)
  BY DEF NumberedAs
<1> QED
  BY <1>1, WireGrows, RestStays DEF OrderInv, Send

LEMMA NextInOrder == OrderInv /\ TypeInv /\ [Next]_vars => OrderInv'
<1> SUFFICES ASSUME OrderInv, TypeInv, [Next]_vars PROVE OrderInv'
  OBVIOUS
<1>1. CASE Printer
  BY <1>1, MarlinInOrder
<1>2. CASE SendLine \/ ResendLine
  BY <1>2, SendLineInOrder, ResendLineInOrder
<1>3. CASE SendPoll \/ Probe
  <2>1. PollMsg \in Message /\ PollMsg.type # "print"
    BY SlotsTyped DEF PollMsg
  <2>2. Send(PollMsg, PollSlot) /\ UNCHANGED <<start, hist>>
    BY <1>3 DEF SendPoll, Probe, lineVars
  <2> QED
    BY <2>1, <2>2, UnnumberedInOrder
<1>4. CASE SendFinish
  <2>1. FinishMsg \in Message /\ FinishMsg.type # "print"
    BY SlotsTyped DEF FinishMsg
  <2>2. Send(FinishMsg, FinishSlot) /\ UNCHANGED <<start, hist>>
    BY <1>4 DEF SendFinish, lineVars
  <2> QED
    BY <2>1, <2>2, UnnumberedInOrder
<1>5. CASE SendManual
  <2>1. man \in Manual
    BY <1>5 DEF SendManual, ManualWaiting, TypeInv, EngineInv, EngineTypeOK
  <2>2. ManualMsg(man) \in Message /\ ManualMsg(man).type # "print"
    BY <2>1, SlotsTyped DEF ManualMsg
  <2>3. Send(ManualMsg(man), ManualSlot) /\ UNCHANGED <<start, hist>>
    BY <1>5 DEF SendManual, lineVars
  <2> QED
    BY <2>2, <2>3, UnnumberedInOrder
<1>6. CASE Receive \/ Resynchronise \/ StoppedResponding \/ LineTooLong \/ Stop \/ WriteFails
  <2>1. UNCHANGED <<start, hist, alive, lastN, executed>>
    BY <1>6 DEF Receive, IgnoreOk, AckOldest, AckThroughPoll, ErrorReported, RestartReported, FatalReported,
                Resynchronise, StoppedResponding, LineTooLong, Stop, WriteFails, lineVars, engineVars
  <2>2. SafeShutdown \/ UNCHANGED wire
    BY <1>6 DEF Receive, IgnoreOk, AckOldest, AckThroughPoll, ErrorReported, RestartReported, FatalReported,
                Resynchronise, StoppedResponding, LineTooLong, Stop, WriteFails
  <2> QED
    BY <2>1, <2>2, ShutdownInOrder, WireStays, RestStays DEF OrderInv
<1>7. CASE DropAbandoned \/ Pause \/ Resume \/ ManualCommand \/ SetWindow \/ UNCHANGED vars
  <2>1. UNCHANGED <<wire, start, hist, alive, lastN, executed>>
    BY <1>7 DEF DropAbandoned, Pause, Resume, ManualCommand, SetWindow, vars, lineVars, engineVars, marlinVars
  <2> QED
    BY <2>1, WireStays, RestStays DEF OrderInv
<1>8. CASE LoseAnswer /\ UNCHANGED engineVars
  <2>1. UNCHANGED <<wire, start, hist, alive, lastN, executed>>
    BY <1>8 DEF LoseAnswer, lineVars, engineVars
  <2> QED
    BY <2>1, WireStays, RestStays DEF OrderInv
<1>9. CASE PrinterFails /\ UNCHANGED engineVars
  <2>1. UNCHANGED <<start, hist, executed>> /\ alive' = FALSE /\ (wire' = wire \/ wire' = <<>>)
    BY <1>9 DEF PrinterFails, lineVars, engineVars
  <2>2. WireInOrder'
    <3>1. CASE wire' = <<>>
      BY <3>1, EmptySeq DEF WireInOrder
    <3>2. CASE wire' = wire
      BY <2>1, <3>2, WireStays DEF OrderInv
    <3> QED
      BY <2>1, <3>1, <3>2
  <2> QED
    BY <2>1, <2>2 DEF OrderInv, HistInOrder, CountInOrder, InOrder
<1>10. CASE LinkLost
  <2>1. PICK k \in 0..Len(wire) : wire' = SubSeq(wire, 1, k)
    BY <1>10 DEF LinkLost
  <2>2. UNCHANGED <<start, hist, alive, lastN, executed>>
    BY <1>10 DEF LinkLost, lineVars
  <2>3. wire \in Seq(Message) /\ Len(wire) \in Nat /\ \A i \in 1..k : wire[i] \in Message
    BY LenProperties, ElementOfSeq DEF TypeInv, MarlinTypeOK
  <2>4. Len(wire') = k /\ \A i \in 1..k : wire'[i] = wire[i]
    BY <2>1, <2>3, SubSeqProperties
  <2>5. WireInOrder'
    BY <2>2, <2>3, <2>4 DEF OrderInv, WireInOrder, NumberedAs, IsM110
  <2> QED
    BY <2>2, <2>5, RestStays DEF OrderInv
<1> QED
  BY <1>1, <1>2, <1>3, <1>4, <1>5, <1>6, <1>7, <1>8, <1>9, <1>10
  DEF Next, Engine, Transmit, Users, Faults

\* Whatever is damaged, lost, asked for again, paused or stopped, no line of the file is
\* skipped and none is executed twice, provided the printer's line counter stood at 0 when
\* the print began (otherwise a damaged M110 is enough: see the README).
THEOREM InOrderCorrect == ASSUME LastN0 = {0} PROVE Spec => []InOrder
<1>1. Init => TypeInv /\ OrderInv
  BY InitTyped, InitInOrder
<1>2. TypeInv /\ OrderInv /\ [Next]_vars => (TypeInv /\ OrderInv)'
  BY NextTyped, NextInOrder
<1>3. OrderInv => InOrder
  BY DEF OrderInv
<1> QED
  BY <1>1, <1>2, <1>3, PTL DEF Spec

-----------------------------------------------------------------------------
(* Users' commands, and the heaters *)

\* Where on the wire the user command c is.
OnWire(c) == {i \in 1..Len(wire) : wire[i].type = "manual" /\ wire[i].cmd = c}

\* A command that must not be sent twice is on the wire once at most, and not any more once it
\* was executed; before it is sent it is neither there nor executed.
OneShotInv == \A c \in Manual \ Repeatable :
    /\ \A i, j \in OnWire(c) : i = j
    /\ OnWire(c) # {} => runs[c] = 0
    /\ runs[c] <= 1
    /\ answered[c] = "new" \/ (man = c /\ ~manSent) => OnWire(c) = {} /\ runs[c] = 0
    /\ man = c => answered[c] # "new"

Shutdowns == {"stopped", "line no longer kept", "line too long", "restarted"}

\* The order to switch off is the last thing the printer will ever read of this print.
ColdInv ==
    /\ why # "none" => ~Running
    /\ why \in Shutdowns => \/ wire = <<>> /\ ~hot
                            \/ wire # <<>> /\ wire[Len(wire)] = OffMsg

-----------------------------------------------------------------------------
(* Commands on the wire *)

LEMMA WireLen == ASSUME TypeInv PROVE wire \in Seq(Message) /\ Len(wire) \in Nat
BY LenProperties DEF TypeInv, MarlinTypeOK

LEMMA OnWireTail ==
    ASSUME TypeInv, wire # <<>>, wire' = Tail(wire), NEW c
    PROVE  /\ \A i \in OnWire(c)' : i + 1 \in OnWire(c) /\ i \in Nat
           /\ (\A i, j \in OnWire(c) : i = j) /\ 1 \in OnWire(c) => OnWire(c)' = {}
<1>1. Len(wire') = Len(wire) - 1 /\ \A i \in 1..Len(wire') : wire'[i] = wire[i + 1]
  BY WireLen, HeadTailProperties
<1>2. ASSUME NEW i \in OnWire(c)' PROVE i + 1 \in OnWire(c) /\ i \in Nat /\ i + 1 # 1
  <2>1. i \in 1..Len(wire') /\ wire'[i].type = "manual" /\ wire'[i].cmd = c
    BY <1>2 DEF OnWire
  <2>2. wire'[i] = wire[i + 1] /\ i + 1 \in 1..Len(wire) /\ i \in Nat /\ i + 1 # 1
    BY <1>1, <2>1, WireLen
  <2> QED
    BY <2>1, <2>2 DEF OnWire
<1> QED
  BY <1>2

LEMMA OnWireAppend ==
    ASSUME TypeInv, NEW m \in Message, wire' = Append(wire, m), NEW c
    PROVE  /\ OnWire(c)' \subseteq OnWire(c) \cup {Len(wire) + 1}
           /\ m.type # "manual" \/ m.cmd # c => OnWire(c)' \subseteq OnWire(c)
<1>1. Len(wire') = Len(wire) + 1 /\ wire'[Len(wire) + 1] = m /\ \A i \in 1..Len(wire) : wire'[i] = wire[i]
  BY WireLen, AppendProperties
<1>2. ASSUME NEW i \in OnWire(c)' PROVE i \in OnWire(c) \/ (i = Len(wire) + 1 /\ m.type = "manual" /\ m.cmd = c)
  <2>1. i \in 1..Len(wire') /\ wire'[i].type = "manual" /\ wire'[i].cmd = c
    BY <1>2 DEF OnWire
  <2>2. i \in 1..Len(wire) \/ i = Len(wire) + 1
    BY <1>1, <2>1, WireLen
  <2> QED
    BY <1>1, <2>1, <2>2 DEF OnWire
<1> QED
  BY <1>2

\* Removing commands from the wire, dropping the waiting one or answering it keeps the invariant.
LEMMA OneShotShrinks ==
    ASSUME OneShotInv,
           \A c \in Manual \ Repeatable : OnWire(c)' \subseteq OnWire(c),
           UNCHANGED runs,
           \A c \in Manual \ Repeatable : answered'[c] = "new" => answered[c] = "new",
           \A c \in Manual \ Repeatable : man' = c => man = c /\ (manSent => manSent')
    PROVE  OneShotInv'
BY DEF OneShotInv

LEMMA OnWireStays == ASSUME UNCHANGED wire, NEW c PROVE OnWire(c)' = OnWire(c)
BY DEF OnWire

LEMMA OneShotInit == Init => OneShotInv
<1> SUFFICES ASSUME Init PROVE OneShotInv
  OBVIOUS
<1>1. ASSUME NEW c PROVE OnWire(c) = {}
  BY DEF Init, OnWire, PrintMsg
<1> QED
  BY <1>1 DEF Init, OneShotInv

\* The printer executes the oldest command of the wire, which then is not there any more.
LEMMA OneShotPrinter == ASSUME TypeInv, OneShotInv, Printer PROVE OneShotInv'
<1>1. wire # <<>> /\ wire' = Tail(wire) /\ UNCHANGED <<man, manSent, answered>>
  BY DEF Printer, MarlinStep, RejectDamaged, RejectOutOfSequence, ExecuteM110, ExecuteLine, ExecuteUnnumbered,
         Reading, Reply, ResendError, engineVars, manVars
<1>2. CASE UNCHANGED runs
  <2> SUFFICES ASSUME NEW c \in Manual \ Repeatable
               PROVE /\ \A i, j \in OnWire(c)' : i = j
                     /\ OnWire(c)' # {} => OnWire(c) # {}
    BY <1>1, <1>2 DEF OneShotInv
  <2>1. \A i \in OnWire(c)' : i + 1 \in OnWire(c) /\ i \in Nat
    BY <1>1, OnWireTail
  <2>2. \A i, j \in OnWire(c) : i = j
    BY DEF OneShotInv
  <2> QED
    BY <2>1, <2>2
<1>3. CASE Head(wire).type = "manual" /\ runs' = [runs EXCEPT ![Head(wire).cmd] = @ + 1]
  <2> SUFFICES ASSUME NEW c \in Manual \ Repeatable
               PROVE /\ \A i, j \in OnWire(c)' : i = j
                     /\ OnWire(c)' # {} => runs'[c] = 0
                     /\ runs'[c] <= 1
                     /\ answered[c] = "new" \/ (man = c /\ ~manSent) => OnWire(c)' = {} /\ runs'[c] = 0
    BY <1>1 DEF OneShotInv
  <2>1. /\ \A i \in OnWire(c)' : i + 1 \in OnWire(c) /\ i \in Nat
        /\ (\A i, j \in OnWire(c) : i = j) /\ 1 \in OnWire(c) => OnWire(c)' = {}
    BY <1>1, OnWireTail
  <2>2. \A i, j \in OnWire(c) : i = j
    BY DEF OneShotInv
  <2>3. runs \in [Manual -> Nat]
    BY DEF TypeInv, MarlinTypeOK
  <2>4. CASE Head(wire).cmd = c
    <3>1. 1 \in OnWire(c)
      <4>1. Head(wire) = wire[1] /\ 1 \in 1..Len(wire)
        BY <1>1, WireLen, HeadTailProperties, EmptySeq
      <4> QED
        BY <1>3, <2>4, <4>1 DEF OnWire
    <3>2. OnWire(c)' = {} /\ runs[c] = 0
      BY <2>1, <2>2, <3>1 DEF OneShotInv
    <3>3. runs'[c] = 1
      BY <1>3, <2>3, <2>4, <3>2
    <3>4. ~(answered[c] = "new" \/ (man = c /\ ~manSent))
      BY <3>1 DEF OneShotInv
    <3> QED
      BY <3>2, <3>3, <3>4
  <2>5. CASE Head(wire).cmd # c
    <3>1. runs'[c] = runs[c]
      BY <1>3, <2>3, <2>5
    <3>2. OnWire(c)' # {} => OnWire(c) # {}
      BY <2>1
    <3> QED
      BY <2>1, <2>2, <3>1, <3>2 DEF OneShotInv
  <2> QED
    BY <2>4, <2>5
<1> QED
  BY <1>2, <1>3 DEF Printer, MarlinStep, RejectDamaged, RejectOutOfSequence, ExecuteM110, ExecuteLine,
                    ExecuteUnnumbered, Reading

\* The engine sends the waiting command once.
LEMMA OneShotSendManual == ASSUME TypeInv, OneShotInv, SendManual PROVE OneShotInv'
<1>1. man \in Manual /\ ~manSent /\ manSent' = TRUE /\ UNCHANGED <<man, answered, runs>>
  BY DEF SendManual, ManualWaiting, Send, TypeInv, EngineInv, EngineTypeOK
<1>2. wire' = Append(wire, ManualMsg(man)) /\ ManualMsg(man) \in Message
  BY <1>1, SlotsTyped DEF SendManual, Send
<1> SUFFICES ASSUME NEW c \in Manual \ Repeatable
             PROVE /\ \A i, j \in OnWire(c)' : i = j
                   /\ OnWire(c)' # {} => runs[c] = 0
                   /\ answered[c] = "new" => OnWire(c)' = {}
  BY <1>1 DEF OneShotInv
<1>3. CASE c = man
  <2>1. OnWire(c) = {} /\ runs[c] = 0 /\ answered[c] # "new"
    BY <1>1, <1>3 DEF OneShotInv
  <2>2. OnWire(c)' \subseteq OnWire(c) \cup {Len(wire) + 1}
    BY <1>2, OnWireAppend
  <2> QED
    BY <2>1, <2>2
<1>4. CASE c # man
  <2>1. ManualMsg(man).cmd # c
    BY <1>4 DEF ManualMsg
  <2>2. OnWire(c)' \subseteq OnWire(c)
    BY <1>2, <2>1, OnWireAppend
  <2> QED
    BY <2>2 DEF OneShotInv
<1> QED
  BY <1>3, <1>4

\* Any other line that goes out is not a user command.
LEMMA OthersNotOnWire ==
    ASSUME TypeInv, NEW m \in Message, m.type # "manual", wire' = Append(wire, m)
    PROVE  \A c \in Manual \ Repeatable : OnWire(c)' \subseteq OnWire(c)
BY OnWireAppend

LEMMA ShutdownNotOnWire ==
    ASSUME TypeInv, SafeShutdown
    PROVE  \A c \in Manual \ Repeatable : OnWire(c)' \subseteq OnWire(c)
<1>1. OffMsg \in Message /\ OffMsg.type # "manual"
  BY SlotsTyped DEF OffMsg
<1> QED
  BY <1>1, OthersNotOnWire DEF SafeShutdown

LEMMA PrefixNotOnWire ==
    ASSUME TypeInv, NEW k \in 0..Len(wire), wire' = SubSeq(wire, 1, k)
    PROVE  \A c \in Manual \ Repeatable : OnWire(c)' \subseteq OnWire(c)
<1>1. \A i \in 1..k : wire[i] \in Message
  BY WireLen, ElementOfSeq
<1>2. Len(wire') = k /\ \A i \in 1..k : wire'[i] = wire[i]
  BY <1>1, WireLen, SubSeqProperties
<1> QED
  BY <1>2, WireLen DEF OnWire

LEMMA EmptyNotOnWire ==
    ASSUME wire' = <<>>
    PROVE  \A c \in Manual \ Repeatable : OnWire(c)' \subseteq OnWire(c)
BY EmptySeq DEF OnWire

LEMMA OneShotLeave ==
    ASSUME TypeInv, OneShotInv, NEW state, NEW reason, Leave(state, reason), UNCHANGED runs,
           \A c \in Manual \ Repeatable : OnWire(c)' \subseteq OnWire(c)
    PROVE  OneShotInv'
<1>1. \A c \in Manual \ Repeatable : answered'[c] = "new" => answered[c] = "new"
  BY DEF Leave, AnswerPending
<1>2. \A c \in Manual \ Repeatable : man' # c
  BY DEF Leave
<1> QED
  BY <1>1, <1>2, OneShotShrinks

LEMMA OneShotAck ==
    ASSUME TypeInv, OneShotInv, NEW k, AckSlots(k), UNCHANGED <<runs, wire>>
    PROVE  OneShotInv'
<1> DEFINE done == \E i \in Positions("manual") : i <= k /\ \A j \in Positions("finish") : i < j
           completes == \E i \in Positions("finish") : i <= k
           ok == [c \in Manual |-> IF done /\ c = man THEN "ok" ELSE answered[c]]
<1>1. /\ answered' = AnswerPending \/ answered' = ok
      /\ man' = IF done \/ completes THEN NoCmd ELSE man
      /\ manSent' = (manSent /\ ~done /\ ~completes)
  BY DEF AckSlots
<1>2. \A c \in Manual \ Repeatable : answered'[c] = "new" => answered[c] = "new"
  BY <1>1 DEF AnswerPending
<1>3. \A c \in Manual \ Repeatable : man' = c => man = c /\ (manSent => manSent')
  <2> HIDE DEF done, completes, ok
  <2> QED
    BY <1>1
<1> QED
  BY <1>2, <1>3, OneShotShrinks, OnWireStays

LEMMA OneShotReceive == ASSUME TypeInv, OneShotInv, Receive PROVE OneShotInv'
<1>1. CASE AckOldest \/ AckThroughPoll
  BY <1>1, OneShotAck DEF AckOldest, AckThroughPoll
<1>2. CASE IgnoreOk \/ ErrorReported
  <2>1. UNCHANGED <<wire, runs, man, manSent, answered>>
    BY <1>2 DEF IgnoreOk, ErrorReported, engineVars, manVars
  <2> QED
    BY <2>1, OneShotShrinks, OnWireStays
<1>3. CASE RestartReported
  BY <1>3, ShutdownNotOnWire, OneShotLeave DEF RestartReported
<1>4. CASE FatalReported
  BY <1>4, OnWireStays, OneShotLeave DEF FatalReported
<1> QED
  BY <1>1, <1>2, <1>3, <1>4 DEF Receive

\* A command that was on the wire when the line was resynchronised is only sent again if it may be.
LEMMA OneShotResynchronise == ASSUME TypeInv, OneShotInv, Resynchronise PROVE OneShotInv'
<1>1. UNCHANGED runs
  BY DEF Resynchronise
<1>2. CASE SafeShutdown /\ Leave("ERROR", "line no longer kept")
  BY <1>1, <1>2, ShutdownNotOnWire, OneShotLeave
<1>3. CASE UNCHANGED wire /\ ManualAfterResync
  <2>1. \A c \in Manual \ Repeatable : answered'[c] = "new" => answered[c] = "new"
    BY <1>3 DEF ManualAfterResync, AnswerPending
  <2>2. \A c \in Manual \ Repeatable : man' = c => man = c /\ (manSent => manSent')
    BY <1>3 DEF ManualAfterResync
  <2> QED
    BY <1>1, <1>3, <2>1, <2>2, OneShotShrinks, OnWireStays
<1> QED
  BY <1>2, <1>3 DEF Resynchronise

LEMMA OneShotTransmit ==
    ASSUME TypeInv, OneShotInv, SendPoll \/ Probe \/ SendLine \/ SendFinish \/ ResendLine PROVE OneShotInv'
<1>1. CASE SafeShutdown /\ Leave("ERROR", "line no longer kept") /\ UNCHANGED runs
  BY <1>1, ShutdownNotOnWire, OneShotLeave
<1>2. CASE /\ \E m \in Message : m.type # "manual" /\ wire' = Append(wire, m)
           /\ UNCHANGED <<runs, man, manSent, answered>>
  BY <1>2, OthersNotOnWire, OneShotShrinks
<1>3. ASSUME SendPoll \/ Probe \/ SendFinish
      PROVE  /\ \E m \in Message : m.type # "manual" /\ wire' = Append(wire, m)
             /\ UNCHANGED <<runs, man, manSent, answered>>
  <2>1. PollMsg \in Message /\ FinishMsg \in Message /\ PollMsg.type # "manual" /\ FinishMsg.type # "manual"
    BY SlotsTyped DEF PollMsg, FinishMsg
  <2>2. wire' \in {Append(wire, PollMsg), Append(wire, FinishMsg)}
    BY <1>3 DEF SendPoll, Probe, SendFinish, Send
  <2>3. UNCHANGED <<runs, man, manSent, answered>>
    BY <1>3 DEF SendPoll, Probe, SendFinish, Send, manVars
  <2> QED
    BY <2>1, <2>2, <2>3
<1>4. ASSUME NEW n \in Nat, NEW l \in 0..FileLen, NEW slot, Send(PrintMsg(n, l), slot), UNCHANGED manVars
      PROVE  /\ \E m \in Message : m.type # "manual" /\ wire' = Append(wire, m)
             /\ UNCHANGED <<runs, man, manSent, answered>>
  <2>1. PrintMsg(n, l) \in Message /\ PrintMsg(n, l).type # "manual"
    BY SlotsTyped DEF PrintMsg
  <2> QED
    BY <1>4, <2>1 DEF Send, manVars
<1>5. CASE SendLine
  <2>1. lineNo + 1 \in Nat /\ NextLine \in 0..FileLen
    BY <1>5 DEF SendLine, EndOfFile, NextLine, TypeInv, EngineInv, EngineTypeOK
  <2>2. Send(PrintMsg(lineNo + 1, NextLine), PrintSlot(lineNo + 1, NextLine)) /\ UNCHANGED manVars
    BY <1>5 DEF SendLine
  <2> QED
    BY <1>2, <1>4, <2>1, <2>2
<1>6. CASE /\ Kept(resendFrom) /\ UNCHANGED manVars
           /\ Send(PrintMsg(resendFrom, KeptLine(resendFrom)), PrintSlot(resendFrom, KeptLine(resendFrom)))
  <2>1. PICK i \in DOMAIN hist : KeptLine(resendFrom) = hist[i].line
    BY <1>6, KeptLineIn
  <2>2. resendFrom \in Nat /\ KeptLine(resendFrom) \in 0..FileLen
    BY <2>1 DEF TypeInv, EngineInv, EngineTypeOK
  <2> QED
    BY <1>2, <1>4, <1>6, <2>2
<1> QED
  BY <1>1, <1>2, <1>3, <1>5, <1>6 DEF ResendLine

\* Users issue each command once.
LEMMA OneShotManualCommand == ASSUME TypeInv, OneShotInv, ManualCommand PROVE OneShotInv'
<1>1. PICK d \in Manual : answered[d] = "new" /\ man' = d /\ answered' = [answered EXCEPT ![d] = "waiting"]
  BY DEF ManualCommand
<1>2. UNCHANGED <<wire, runs>> /\ man = NoCmd /\ manSent' = FALSE
  BY DEF ManualCommand, marlinVars
<1>3. answered \in [Manual -> {"new", "waiting", "ok", "error"}]
  BY DEF TypeInv, EngineInv, EngineTypeOK
<1>4. ASSUME NEW c \in Manual PROVE answered'[c] = IF c = d THEN "waiting" ELSE answered[c]
  BY <1>1, <1>3
<1>5. \A c : OnWire(c)' = OnWire(c)
  BY <1>2, OnWireStays
<1> QED
  BY <1>1, <1>2, <1>4, <1>5 DEF OneShotInv

LEMMA OneShotNext == TypeInv /\ OneShotInv /\ [Next]_vars => OneShotInv'
<1> SUFFICES ASSUME TypeInv, OneShotInv, [Next]_vars PROVE OneShotInv'
  OBVIOUS
<1>1. CASE Printer
  BY <1>1, OneShotPrinter
<1>2. CASE Receive \/ Resynchronise
  BY <1>2, OneShotReceive, OneShotResynchronise
<1>3. CASE SendPoll \/ Probe \/ SendLine \/ SendFinish \/ ResendLine
  BY <1>3, OneShotTransmit
<1>4. CASE SendManual
  BY <1>4, OneShotSendManual
<1>5. CASE StoppedResponding \/ LineTooLong \/ Stop \/ WriteFails
  <2>1. UNCHANGED runs /\ \E state, reason : Leave(state, reason)
    BY <1>5 DEF StoppedResponding, LineTooLong, Stop, WriteFails
  <2>2. \A c \in Manual \ Repeatable : OnWire(c)' \subseteq OnWire(c)
    BY <1>5, ShutdownNotOnWire, OnWireStays DEF StoppedResponding, LineTooLong, Stop, WriteFails
  <2> QED
    BY <2>1, <2>2, OneShotLeave
<1>6. CASE LinkLost
  BY <1>6, PrefixNotOnWire, OneShotLeave DEF LinkLost
<1>7. CASE ManualCommand
  BY <1>7, OneShotManualCommand
<1>8. CASE DropAbandoned
  <2>1. UNCHANGED <<wire, runs, manSent, answered>> /\ man' = NoCmd
    BY <1>8 DEF DropAbandoned, marlinVars
  <2> QED
    BY <2>1, OneShotShrinks, OnWireStays
<1>9. CASE Pause \/ Resume \/ SetWindow \/ UNCHANGED vars \/ (LoseAnswer /\ UNCHANGED engineVars)
  <2>1. UNCHANGED <<wire, runs, man, manSent, answered>>
    BY <1>9 DEF Pause, Resume, SetWindow, LoseAnswer, vars, engineVars, manVars, marlinVars
  <2> QED
    BY <2>1, OneShotShrinks, OnWireStays
<1>10. CASE PrinterFails /\ UNCHANGED engineVars
  <2>1. UNCHANGED <<runs, man, manSent, answered>> /\ (wire' = wire \/ wire' = <<>>)
    BY <1>10 DEF PrinterFails, engineVars, manVars
  <2>2. \A c \in Manual \ Repeatable : OnWire(c)' \subseteq OnWire(c)
    BY <2>1, EmptyNotOnWire, OnWireStays
  <2> QED
    BY <2>1, <2>2, OneShotShrinks
<1> QED
  BY <1>1, <1>2, <1>3, <1>4, <1>5, <1>6, <1>7, <1>8, <1>9, <1>10 DEF Next, Engine, Transmit, Users, Faults

\* A babystep is applied at most once, whatever is resent, lost or resynchronised around it.
THEOREM OneShotCorrect == Spec => []OneShotAtMostOnce
<1>1. Init => TypeInv /\ OneShotInv
  BY InitTyped, OneShotInit
<1>2. TypeInv /\ OneShotInv /\ [Next]_vars => (TypeInv /\ OneShotInv)'
  BY NextTyped, OneShotNext
<1>3. OneShotInv => OneShotAtMostOnce
  BY DEF OneShotInv, OneShotAtMostOnce
<1> QED
  BY <1>1, <1>2, <1>3, PTL DEF Spec

-----------------------------------------------------------------------------
(* Heaters *)

LEMMA ColdShutdown ==
    ASSUME TypeInv, SafeShutdown, NEW state \in {"IDLE", "ERROR"}, NEW reason, Leave(state, reason)
    PROVE  ColdInv'
<1>1. wire' # <<>> /\ wire'[Len(wire')] = OffMsg
  BY WireLen, SlotsTyped, AppendProperties, EmptySeq DEF SafeShutdown
<1> QED
  BY <1>1 DEF Leave, ColdInv, Running

\* While the print goes on, or the wire and the heaters are left alone, nothing is at stake.
LEMMA ColdKeeps ==
    ASSUME ColdInv, why' = "none" \/ (why' \in {"fatal", "finished", "silent", "link lost", "write failed"} /\ ~Running')
           \/ (why' = why /\ gState' = gState /\ UNCHANGED <<wire, hot>>)
    PROVE  ColdInv'
<1>1. CASE why' = "none"
  BY <1>1 DEF ColdInv, Shutdowns
<1>2. CASE why' \in {"fatal", "finished", "silent", "link lost", "write failed"} /\ ~Running'
  BY <1>2 DEF ColdInv, Shutdowns
<1>3. CASE why' = why /\ gState' = gState /\ UNCHANGED <<wire, hot>>
  BY <1>3 DEF ColdInv, Running
<1> QED
  BY <1>1, <1>2, <1>3

\* The printer works off its input; the last order in it is to switch off.
LEMMA ColdPrinter == ASSUME TypeInv, ColdInv, Printer PROVE ColdInv'
<1>1. wire # <<>> /\ wire' = Tail(wire) /\ UNCHANGED <<why, gState>>
  BY DEF Printer, MarlinStep, RejectDamaged, RejectOutOfSequence, ExecuteM110, ExecuteLine, ExecuteUnnumbered,
         Reading, Reply, ResendError, engineVars
<1>2. Len(wire') = Len(wire) - 1 /\ wire' \in Seq(Message) /\ \A i \in 1..Len(wire') : wire'[i] = wire[i + 1]
  BY <1>1, WireLen, HeadTailProperties
<1>3. CASE why \in Shutdowns
  <2>1. wire[Len(wire)] = OffMsg
    BY <1>1, <1>3 DEF ColdInv
  <2>2. CASE Len(wire) = 1
    <3>1. Head(wire).type = "off"
      BY <1>1, <2>1, <2>2, WireLen, HeadTailProperties DEF OffMsg
    <3>2. hot' = FALSE
      BY <3>1 DEF Printer, MarlinStep, RejectDamaged, RejectOutOfSequence, ExecuteM110, ExecuteLine,
                  ExecuteUnnumbered, Reading
    <3>3. wire' = <<>>
      BY <1>2, <2>2, EmptySeq
    <3>4. (why # "none" => ~Running)'
      BY <1>1 DEF ColdInv, Running
    <3>5. wire' = <<>> /\ ~hot'
      BY <3>2, <3>3
    <3> QED
      BY <3>4, <3>5, Zenon DEF ColdInv
  <2>3. CASE Len(wire) # 1
    <3>1. Len(wire) > 1
      <4>1. Len(wire') \in Nat
        BY <1>2, LenProperties
      <4> QED
        BY <1>2, <2>3, <4>1, WireLen
    <3>2. Len(wire') \in 1..Len(wire') /\ wire' # <<>>
      BY <1>2, <3>1, WireLen, EmptySeq
    <3>3. wire'[Len(wire')] = OffMsg
      BY <1>2, <2>1, <3>2, WireLen
    <3> QED
      BY <1>1, <3>2, <3>3 DEF ColdInv, Running
  <2> QED
    BY <2>2, <2>3
<1>4. CASE why \notin Shutdowns
  BY <1>1, <1>4 DEF ColdInv, Running
<1> QED
  BY <1>3, <1>4

LEMMA ColdInit == Init => ColdInv
BY DEF Init, ColdInv, Shutdowns, Running

LEMMA ColdNext == TypeInv /\ ColdInv /\ [Next]_vars => ColdInv'
<1> SUFFICES ASSUME TypeInv, ColdInv, [Next]_vars PROVE ColdInv'
  OBVIOUS
<1>0. Running => why = "none"
  BY DEF ColdInv
<1>1. CASE Printer
  BY <1>1, ColdPrinter
<1>2. CASE RestartReported \/ StoppedResponding \/ LineTooLong \/ Stop
  BY <1>2, ColdShutdown DEF RestartReported, StoppedResponding, LineTooLong, Stop
<1>3. CASE FatalReported \/ LinkLost \/ WriteFails
  BY <1>3, ColdKeeps DEF FatalReported, LinkLost, WriteFails, Leave, Running
<1>4. CASE AckOldest \/ AckThroughPoll
  <2>1. why = "none"
    BY <1>0, <1>4 DEF AckOldest, AckThroughPoll, Received
  <2>2. why' = why \/ (why' = "finished" /\ gState' = "IDLE")
    BY <1>4 DEF AckOldest, AckThroughPoll, AckSlots
  <2> QED
    BY <2>1, <2>2, ColdKeeps DEF Running
<1>5. CASE Resynchronise
  <2>1. CASE SafeShutdown /\ Leave("ERROR", "line no longer kept")
    BY <2>1, ColdShutdown
  <2>2. CASE UNCHANGED <<gState, why, wire>>
    BY <1>0, <1>5, <2>2, ColdKeeps DEF Resynchronise
  <2> QED
    BY <1>5, <2>1, <2>2 DEF Resynchronise
<1>6. CASE ResendLine
  <2>1. CASE SafeShutdown /\ Leave("ERROR", "line no longer kept")
    BY <2>1, ColdShutdown
  <2>2. CASE UNCHANGED <<gState, why>>
    BY <1>0, <1>6, <2>2, ColdKeeps DEF ResendLine, RoomToSend
  <2> QED
    BY <1>6, <2>1, <2>2 DEF ResendLine
<1>7. CASE SendPoll \/ Probe \/ SendLine \/ SendFinish \/ SendManual
  <2>1. why = "none" /\ UNCHANGED why
    BY <1>0, <1>7 DEF SendPoll, Probe, SendLine, SendFinish, SendManual, RoomToSend
  <2> QED
    BY <2>1, ColdKeeps
<1>8. CASE DropAbandoned \/ ManualCommand \/ SetWindow \/ IgnoreOk \/ ErrorReported \/ UNCHANGED vars
           \/ (LoseAnswer /\ UNCHANGED engineVars)
  <2>1. UNCHANGED <<why, gState, wire, hot>>
    BY <1>8 DEF DropAbandoned, ManualCommand, SetWindow, IgnoreOk, ErrorReported, LoseAnswer, vars, engineVars, marlinVars
  <2> QED
    BY <2>1, ColdKeeps
<1>9. CASE Pause \/ Resume
  <2>1. why = "none" /\ UNCHANGED why
    BY <1>0, <1>9 DEF Pause, Resume, Running
  <2> QED
    BY <2>1, ColdKeeps
<1>10. CASE PrinterFails /\ UNCHANGED engineVars
  <2>1. UNCHANGED <<why, gState>>
    BY <1>10 DEF engineVars
  <2>2. UNCHANGED <<wire, hot>> \/ (wire' = <<>> /\ hot' = FALSE) \/ (UNCHANGED wire /\ hot' = FALSE)
    BY <1>10 DEF PrinterFails
  <2> QED
    BY <2>1, <2>2 DEF ColdInv, Running
<1> QED
  BY <1>1, <1>2, <1>3, <1>4, <1>5, <1>6, <1>7, <1>8, <1>9, <1>10
  DEF Next, Engine, Receive, Transmit, Users, Faults

\* A print that ends with safeShutdown leaves the heaters off once the printer has read its
\* input, whatever heating lines were still on the way.
THEOREM EndsColdCorrect == Spec => []EndsCold
<1>1. Init => TypeInv /\ ColdInv
  BY InitTyped, ColdInit
<1>2. TypeInv /\ ColdInv /\ [Next]_vars => (TypeInv /\ ColdInv)'
  BY NextTyped, ColdNext
<1>3. ColdInv => EndsCold
  BY DEF ColdInv, EndsCold, Shutdowns
<1> QED
  BY <1>1, <1>2, <1>3, PTL DEF Spec
=============================================================================

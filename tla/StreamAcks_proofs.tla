------------------------- MODULE StreamAcks_proofs -------------------------
(***************************************************************************)
(* What the answers of the printer are worth: every ok is credited to a    *)
(* command that was carried out, whatever is damaged, lost or asked for    *)
(* again. From that follow the offset the journal relies on, the answers   *)
(* users get, the end of the print, the lines kept for a resend, and that  *)
(* the streaming loop keeps the promise of OrderedPrint.                   *)
(***************************************************************************)
EXTENDS PrintStream_proofs

\* The printer's counter starts at 0; only an ok gets lost, never an error report; the printer
\* answers faster than the engine resynchronises; the window stays closed until the first ok.
\* Where the file asks for the temperature itself, it does so among its opening lines, which
\* go out one at a time: a temperature answers an M105 of the file only while no poll is out.
AckAssumption ==
    /\ LastN0 = {0}
    /\ Losable \subseteq {"ok", "ok T"}
    /\ SlowTypes = {}
    /\ Throttle >= 1
    /\ \A s \in Starts, t \in TempLines : t < s + Throttle

USE MarlinAssumption, StreamAssumption

-----------------------------------------------------------------------------
(* How the steps change the FIFO and the two wires *)

LEMMA FifoSeq == ASSUME TypeInv PROVE fifo \in Seq(Slot) /\ Len(fifo) \in Nat /\ \A i \in 1..Len(fifo) : fifo[i] \in Slot
BY LenProperties, ElementOfSeq DEF TypeInv, EngineInv, EngineTypeOK

LEMMA RxSeq == ASSUME TypeInv PROVE rx \in Seq(Answer) /\ Len(rx) \in Nat /\ \A i \in 1..Len(rx) : rx[i] \in Answer
BY LenProperties, ElementOfSeq DEF TypeInv, MarlinTypeOK

LEMMA WireSeq == ASSUME TypeInv PROVE wire \in Seq(Message) /\ Len(wire) \in Nat /\ \A i \in 1..Len(wire) : wire[i] \in Message
BY LenProperties, ElementOfSeq DEF TypeInv, MarlinTypeOK

LEMMA ExecutedSeq == ASSUME TypeInv PROVE executed \in Seq(1..FileLen) /\ Len(executed) \in Nat
BY LenProperties DEF TypeInv, MarlinTypeOK

\* The numbers of the engine.
LEMMA EngineNumbers ==
    ASSUME TypeInv
    PROVE  /\ lineNo \in Nat /\ start \in Nat /\ resendFrom \in Nat /\ lastGood \in Nat /\ throttle \in Nat
           /\ gBytesDone \in Nat /\ FileLen \in Nat
           /\ start + lineNo <= FileLen
           /\ ~resync => resendFrom <= lineNo
BY DEF TypeInv, EngineInv, EngineTypeOK

LEMMA SentShape ==
    ASSUME TypeInv, NEW msg, NEW slot, Send(msg, slot)
    PROVE  /\ Len(wire') = Len(wire) + 1 /\ wire'[Len(wire) + 1] = msg
           /\ \A i \in 1..Len(wire) : wire'[i] = wire[i]
           /\ Len(fifo') = Len(fifo) + 1 /\ fifo'[Len(fifo) + 1] = slot
           /\ \A i \in 1..Len(fifo) : fifo'[i] = fifo[i]
           /\ UNCHANGED <<rx, lastN, executed, runs, alive>>
<1>1. wire' = Append(wire, msg) /\ fifo' = Append(fifo, slot) /\ UNCHANGED <<rx, lastN, executed, runs, alive>>
  BY DEF Send
<1> QED
  BY <1>1, FifoSeq, WireSeq, AppendProperties

LEMMA AckedShape ==
    ASSUME TypeInv, NEW k \in 1..Len(fifo), AckSlots(k)
    PROVE  Len(fifo') = Len(fifo) - k /\ \A i \in 1..Len(fifo') : i + k \in 1..Len(fifo) /\ fifo'[i] = fifo[i + k]
<1>1. fifo' = SubSeq(fifo, k + 1, Len(fifo))
  BY DEF AckSlots
<1>2. \A i \in (k + 1)..Len(fifo) : fifo[i] \in Slot
  BY FifoSeq
<1>3. Len(fifo') = Len(fifo) - k /\ \A i \in 1..Len(fifo') : fifo'[i] = fifo[(k + 1) + i - 1]
  BY <1>1, <1>2, FifoSeq, SubSeqProperties
<1>4. ASSUME NEW i \in 1..Len(fifo') PROVE i + k \in 1..Len(fifo) /\ (k + 1) + i - 1 = i + k
  BY <1>3, FifoSeq
<1> QED
  BY <1>3, <1>4

LEMMA ReadShape ==
    ASSUME TypeInv, rx # <<>>, rx' = Tail(rx)
    PROVE  /\ Len(rx') = Len(rx) - 1 /\ 1 \in 1..Len(rx) /\ Head(rx) = rx[1]
           /\ \A i \in 1..Len(rx') : i + 1 \in 1..Len(rx) /\ rx'[i] = rx[i + 1]
BY RxSeq, HeadTailProperties, EmptySeq, LenProperties

LEMMA RingApart ==
    ASSUME NEW h \in Nat \ {0}, NEW a \in Nat, NEW b \in Nat, a < b, b < a + h
    PROVE  a % h # b % h /\ b % h \in 0..(h - 1)
<1>0. a = h * (a \div h) + (a % h) /\ b = h * (b \div h) + (b % h) /\ b % h \in 0..(h - 1)
      /\ a \div h \in Int /\ b \div h \in Int /\ a % h \in Int
  OBVIOUS
<1> SUFFICES ASSUME a % h = b % h PROVE FALSE
  BY <1>0
<1> DEFINE p == a \div h
           q == b \div h
<1>1. p \in Int /\ q \in Int /\ h * q - h * p = b - a
  BY <1>0
<1> HIDE DEF p, q
<1>2. h * (q - p) = h * q - h * p
  BY <1>1
<1>3. 0 < h * (q - p) /\ h * (q - p) < h
  BY <1>1, <1>2
<1>4. CASE q - p <= 0
  <2>1. h * (q - p) <= 0
    BY <1>1, <1>4
  <2> QED BY <1>3, <2>1, <1>1
<1>5. CASE q - p >= 1
  <2>1. h * (q - p) >= h
    BY <1>1, <1>5
  <2> QED BY <1>3, <2>1, <1>1
<1> QED
  BY <1>1, <1>4, <1>5

-----------------------------------------------------------------------------
(* The slots of the FIFO: which line each of them stands for *)

\* The number the next line goes out with.
NextNumber == IF resendFrom # 0 THEN resendFrom ELSE lineNo + 1

LineSlot(i) == fifo[i].type = "print" /\ fifo[i].n # 0

M110Slot(i) == fifo[i].type = "print" /\ fifo[i].n = 0

ManualAt(i) == fifo[i].type = "manual"

\* A slot stands for the line of its number, for M110 alone before any line, or for the user
\* command being carried out.
SlotsInv == \A i \in 1..Len(fifo) :
    /\ M110Slot(i) => i = 1 /\ fifo[i].after = 0 /\ lineNo = 0 /\ throttle = Throttle
    /\ LineSlot(i) => fifo[i].n <= lineNo /\ fifo[i].after = start + fifo[i].n
    /\ ManualAt(i) => manSent /\ man \in Manual /\ \A j \in 1..Len(fifo) : ManualAt(j) => i = j

\* The lines in flight have consecutive numbers, up to the one before the next.
OrderedInv == ~resync => \A i \in 1..Len(fifo) : LineSlot(i) =>
    /\ fifo[i].n < NextNumber
    /\ \A j \in 1..Len(fifo) : i < j /\ LineSlot(j) => fifo[i].n < fifo[j].n
    /\ \/ fifo[i].n + 1 = NextNumber
       \/ \E j \in 1..Len(fifo) : i < j /\ LineSlot(j) /\ fifo[j].n = fifo[i].n + 1
    /\ NextNumber <= fifo[i].n + (Len(fifo) - i) + 1

FifoInv == SlotsInv /\ OrderedInv

LEMMA FifoInvInit == ASSUME Init PROVE FifoInv
<1>1. Len(fifo) = 1 /\ fifo[1] = PrintSlot(0, 0) /\ lineNo = 0 /\ throttle = Throttle
  BY DEF Init
<1>2. PrintSlot(0, 0).type = "print" /\ PrintSlot(0, 0).n = 0 /\ PrintSlot(0, 0).after = 0
  BY DEF PrintSlot
<1>3. \A i \in 1..Len(fifo) : i = 1 /\ M110Slot(i) /\ fifo[i].after = 0
  BY <1>1, <1>2 DEF M110Slot
<1> QED
  BY <1>1, <1>3 DEF FifoInv, SlotsInv, OrderedInv, M110Slot, LineSlot, ManualAt

LEMMA FifoInvStays ==
    ASSUME FifoInv, UNCHANGED <<fifo, lineNo, throttle, start, man, manSent, resync, resendFrom>>
    PROVE  FifoInv'
BY DEF FifoInv, SlotsInv, OrderedInv, M110Slot, LineSlot, ManualAt, NextNumber

\* The user command changes only while none is in flight.
LEMMA FifoInvManual ==
    ASSUME FifoInv, UNCHANGED <<fifo, lineNo, throttle, start, resync, resendFrom>>, ~manSent \/ man \notin Manual
    PROVE  FifoInv'
<1>1. \A i \in 1..Len(fifo) : ~ManualAt(i)
  BY DEF FifoInv, SlotsInv
<1> QED
  BY <1>1 DEF FifoInv, SlotsInv, OrderedInv, M110Slot, LineSlot, ManualAt, NextNumber

LEMMA FifoInvError ==
    ASSUME FifoInv, ErrorReported
    PROVE  FifoInv'
<1>1. UNCHANGED <<fifo, lineNo, throttle, start, man, manSent>> /\ resync'
  BY DEF ErrorReported, lineVars, manVars
<1> QED
  BY <1>1 DEF FifoInv, SlotsInv, OrderedInv, M110Slot, LineSlot, ManualAt, NextNumber

LEMMA FifoInvEmpty == ASSUME fifo' = <<>> PROVE FifoInv'
<1>1. Len(fifo') = 0
  OBVIOUS
<1> QED
  BY <1>1 DEF FifoInv, SlotsInv, OrderedInv

\* Slots move up when the oldest are acknowledged; an acknowledged user command is over.
LEMMA FifoInvAck ==
    ASSUME TypeInv, FifoInv, NEW k \in 1..Len(fifo), AckSlots(k), Running',
           UNCHANGED <<gWindow, lineVars, finishSent, resyncVars>>
    PROVE  FifoInv'
<1> USE FifoSeq, EngineNumbers
<1>1. Len(fifo') = Len(fifo) - k /\ \A i \in 1..Len(fifo') : i + k \in 1..Len(fifo) /\ fifo'[i] = fifo[i + k]
  BY AckedShape
<1>2. UNCHANGED <<lineNo, start, resync, resendFrom>>
  BY DEF lineVars, resyncVars
<1>3. ~\E i \in Positions("finish") : i <= k
  BY DEF AckSlots, Running
<1>4. (\E i \in Positions("manual") : i <= k) => \E i \in Positions("manual") : i <= k /\ \A j \in Positions("finish") : i < j
  <2>1. \A j \in Positions("finish") : ~(j <= k) /\ j \in Nat
    BY <1>3 DEF Positions
  <2>2. \A i \in Positions("manual") : i \in Nat
    BY DEF Positions
  <2> QED BY <2>1, <2>2
<1>5. ASSUME ~\E i \in Positions("manual") : i <= k
      PROVE  UNCHANGED <<man, manSent>>
  <2>1. man' = man /\ manSent' = (manSent /\ TRUE /\ TRUE)
    BY <1>3, <1>5 DEF AckSlots
  <2> QED BY <2>1 DEF TypeInv, EngineInv, EngineTypeOK
<1>6. \A i \in 1..Len(fifo') : /\ M110Slot(i)' = M110Slot(i + k)
                               /\ LineSlot(i)' = LineSlot(i + k)
                               /\ ManualAt(i)' = ManualAt(i + k)
  BY <1>1 DEF M110Slot, LineSlot, ManualAt
<1>7. ASSUME NEW i \in 1..Len(fifo') PROVE ~M110Slot(i)'
  <2>1. SlotsInv
    BY DEF FifoInv
  <2>2. M110Slot(i)' => i + k = 1
    BY ONLY <1>1, <1>6, <2>1, i \in 1..Len(fifo') DEF SlotsInv, M110Slot
  <2> QED BY ONLY <2>2, i \in 1..Len(fifo'), k \in 1..Len(fifo)
<1>8. ASSUME NEW i \in 1..Len(fifo'), LineSlot(i)' PROVE fifo'[i].n <= lineNo' /\ fifo'[i].after = start' + fifo'[i].n
  <2>1. SlotsInv
    BY DEF FifoInv
  <2>2. i + k \in 1..Len(fifo) /\ LineSlot(i + k) /\ fifo'[i] = fifo[i + k]
    BY ONLY <1>1, <1>6, <1>8, i \in 1..Len(fifo')
  <2>3. fifo[i + k].n <= lineNo /\ fifo[i + k].after = start + fifo[i + k].n
    BY ONLY <2>1, <2>2 DEF SlotsInv
  <2> QED BY ONLY <1>2, <2>2, <2>3
<1>9. ASSUME NEW i \in 1..Len(fifo'), ManualAt(i)'
      PROVE  manSent' /\ man' \in Manual /\ \A j \in 1..Len(fifo') : ManualAt(j)' => i = j
  <2>1. i + k \in 1..Len(fifo) /\ ManualAt(i + k)
    BY <1>1, <1>6, <1>9
  <2>2. manSent /\ man \in Manual /\ \A j \in 1..Len(fifo) : ManualAt(j) => i + k = j
    BY <2>1 DEF FifoInv, SlotsInv
  <2>3. ~\E j \in Positions("manual") : j <= k
    BY <1>1, <2>1, <2>2 DEF Positions, ManualAt
  <2>4. UNCHANGED <<man, manSent>>
    BY <1>5, <2>3
  <2>5. ASSUME NEW j \in 1..Len(fifo'), ManualAt(j)' PROVE i = j
    <3>1. j + k \in 1..Len(fifo) /\ ManualAt(j + k)
      BY <1>1, <1>6, <2>5
    <3> QED BY <2>2, <3>1
  <2> QED BY <2>2, <2>4, <2>5
<1>10. SlotsInv'
  BY <1>7, <1>8, <1>9 DEF SlotsInv
<1>11. ASSUME ~resync, NEW i \in 1..Len(fifo'), LineSlot(i)'
       PROVE  /\ fifo'[i].n < NextNumber'
              /\ \A j \in 1..Len(fifo') : i < j /\ LineSlot(j)' => fifo'[i].n < fifo'[j].n
              /\ \/ fifo'[i].n + 1 = NextNumber'
                 \/ \E j \in 1..Len(fifo') : i < j /\ LineSlot(j)' /\ fifo'[j].n = fifo'[i].n + 1
              /\ NextNumber' <= fifo'[i].n + (Len(fifo') - i) + 1
  <2>1. NextNumber' = NextNumber
    BY <1>2 DEF NextNumber
  <2>2. i + k \in 1..Len(fifo) /\ LineSlot(i + k) /\ fifo'[i] = fifo[i + k]
    BY <1>1, <1>6, <1>11
  <2>3. /\ fifo[i + k].n < NextNumber
        /\ \A j \in 1..Len(fifo) : i + k < j /\ LineSlot(j) => fifo[i + k].n < fifo[j].n
        /\ \/ fifo[i + k].n + 1 = NextNumber
           \/ \E j \in 1..Len(fifo) : i + k < j /\ LineSlot(j) /\ fifo[j].n = fifo[i + k].n + 1
        /\ NextNumber <= fifo[i + k].n + (Len(fifo) - (i + k)) + 1
    BY <1>11, <2>2 DEF FifoInv, OrderedInv
  <2>4. ASSUME NEW j \in 1..Len(fifo'), i < j, LineSlot(j)' PROVE fifo'[i].n < fifo'[j].n
    <3>1. j + k \in 1..Len(fifo) /\ i + k < j + k /\ LineSlot(j + k) /\ fifo'[j] = fifo[j + k]
      <4>1. j \in Nat /\ i \in Nat /\ k \in Nat
        OBVIOUS
      <4>2. i + k < j + k
        BY <2>4, <4>1
      <4> QED BY <1>1, <1>6, <2>4, <4>2
    <3> QED BY <2>2, <2>3, <3>1
  <2>5. ASSUME NEW j \in 1..Len(fifo), i + k < j, LineSlot(j), fifo[j].n = fifo[i + k].n + 1
        PROVE  \E jj \in 1..Len(fifo') : i < jj /\ LineSlot(jj)' /\ fifo'[jj].n = fifo'[i].n + 1
    <3>1. j - k \in 1..Len(fifo') /\ i < j - k /\ (j - k) + k = j
      BY <1>1, <2>5
    <3>2. LineSlot(j - k)' /\ fifo'[j - k].n = fifo'[i].n + 1
      BY <1>1, <1>6, <2>2, <2>5, <3>1
    <3> QED BY <3>1, <3>2
  <2>6. NextNumber' <= fifo'[i].n + (Len(fifo') - i) + 1
    <3>1. Len(fifo) - (i + k) = Len(fifo') - i
      BY <1>1
    <3> QED BY <2>1, <2>2, <2>3, <3>1
  <2> QED BY <2>1, <2>2, <2>3, <2>4, <2>5, <2>6
<1>12. OrderedInv'
  BY <1>2, <1>11 DEF OrderedInv
<1> QED
  BY <1>10, <1>12 DEF FifoInv

\* A command that is not a line leaves the lines as they are.
LEMMA FifoInvSend ==
    ASSUME TypeInv, FifoInv, NEW msg, NEW slot, slot.type \in {"poll", "finish", "manual"}, Send(msg, slot),
           slot.type = "manual" => ~manSent /\ manSent' /\ man \in Manual,
           slot.type # "manual" => UNCHANGED manSent,
           UNCHANGED <<lineNo, throttle, start, man, resync, resendFrom>>
    PROVE  FifoInv'
<1>a. Len(fifo) \in Nat /\ \A i \in 1..Len(fifo) : fifo[i].n \in Nat
  BY FifoSeq DEF Slot
<1>b. lineNo \in Nat /\ start \in Nat /\ resendFrom \in Nat
  BY EngineNumbers
<1>c. PICK p \in Nat : p = Len(fifo) + 1
  BY <1>a
<1>1. /\ Len(fifo') = Len(fifo) + 1 /\ fifo'[p] = slot
      /\ \A i \in 1..Len(fifo) : fifo'[i] = fifo[i]
  BY <1>c, SentShape
<1>2. \A i \in 1..Len(fifo) : /\ M110Slot(i)' = M110Slot(i)
                             /\ LineSlot(i)' = LineSlot(i)
                             /\ ManualAt(i)' = ManualAt(i)
  BY <1>a, <1>c, <1>1 DEF M110Slot, LineSlot, ManualAt
<1>3. ~M110Slot(p)' /\ ~LineSlot(p)' /\ (ManualAt(p)' => slot.type = "manual")
  BY <1>a, <1>c, <1>1 DEF M110Slot, LineSlot, ManualAt
<1>4. \A i \in 1..Len(fifo') : i \in 1..Len(fifo) \/ i = p
  BY <1>a, <1>c, <1>1
<1>5. SlotsInv'
  <2>1. \A i \in 1..Len(fifo') : M110Slot(i)' => i = 1 /\ fifo'[i].after = 0 /\ lineNo' = 0 /\ throttle' = Throttle
    BY <1>a, <1>c, <1>1, <1>2, <1>3, <1>4 DEF FifoInv, SlotsInv
  <2>2. \A i \in 1..Len(fifo') : LineSlot(i)' => fifo'[i].n <= lineNo' /\ fifo'[i].after = start' + fifo'[i].n
    BY <1>a, <1>c, <1>1, <1>2, <1>3, <1>4 DEF FifoInv, SlotsInv
  <2>3. ASSUME NEW i \in 1..Len(fifo'), ManualAt(i)'
        PROVE  manSent' /\ man' \in Manual /\ \A j \in 1..Len(fifo') : ManualAt(j)' => i = j
    <3>1. CASE slot.type = "manual"
      <4>1. \A j \in 1..Len(fifo) : ~ManualAt(j)
        BY <3>1 DEF FifoInv, SlotsInv
      <4>2. \A j \in 1..Len(fifo') : ManualAt(j)' => j = p
        BY <1>2, <1>4, <4>1
      <4> QED BY <2>3, <3>1, <4>2
    <3>2. CASE slot.type # "manual"
      <4>1. \A j \in 1..Len(fifo') : ManualAt(j)' => j \in 1..Len(fifo) /\ ManualAt(j)
        BY <1>2, <1>3, <1>4, <3>2
      <4>2. manSent /\ man \in Manual /\ \A j \in 1..Len(fifo) : ManualAt(j) => i = j
        BY <2>3, <4>1 DEF FifoInv, SlotsInv
      <4> QED BY <3>2, <4>1, <4>2
    <3> QED BY <3>1, <3>2
  <2> QED BY <2>1, <2>2, <2>3 DEF SlotsInv
<1>6. OrderedInv'
  <2>1. SUFFICES ASSUME ~resync, NEW i \in 1..Len(fifo'), LineSlot(i)'
                 PROVE  /\ fifo'[i].n < NextNumber'
                        /\ \A j \in 1..Len(fifo') : i < j /\ LineSlot(j)' => fifo'[i].n < fifo'[j].n
                        /\ \/ fifo'[i].n + 1 = NextNumber'
                           \/ \E j \in 1..Len(fifo') : i < j /\ LineSlot(j)' /\ fifo'[j].n = fifo'[i].n + 1
                        /\ NextNumber' <= fifo'[i].n + (Len(fifo') - i) + 1
    BY DEF OrderedInv
  <2>2. i \in 1..Len(fifo) /\ LineSlot(i) /\ fifo'[i] = fifo[i] /\ fifo[i].n \in Nat
    BY <1>a, <1>c, <1>1, <1>2, <1>3, <1>4, <2>1 DEF Slot
  <2>3. /\ fifo[i].n < NextNumber
        /\ \A j \in 1..Len(fifo) : i < j /\ LineSlot(j) => fifo[i].n < fifo[j].n
        /\ \/ fifo[i].n + 1 = NextNumber
           \/ \E j \in 1..Len(fifo) : i < j /\ LineSlot(j) /\ fifo[j].n = fifo[i].n + 1
        /\ NextNumber <= fifo[i].n + (Len(fifo) - i) + 1
    BY <2>1, <2>2 DEF FifoInv, OrderedInv
  <2>4. NextNumber' = NextNumber /\ NextNumber \in Nat
    BY <1>b DEF NextNumber
  <2>5. \A j \in 1..Len(fifo') : i < j /\ LineSlot(j)' => fifo'[i].n < fifo'[j].n
    BY <1>a, <1>c, <1>1, <1>2, <1>3, <1>4, <2>2, <2>3
  <2>6. 1..Len(fifo) \subseteq 1..Len(fifo')
    BY <1>a, <1>c, <1>1
  <2>7. \A j \in 1..Len(fifo) : LineSlot(j) => LineSlot(j)' /\ fifo'[j] = fifo[j]
    BY <1>a, <1>c, <1>1, <1>2
  <2>8. \/ fifo'[i].n + 1 = NextNumber'
        \/ \E j \in 1..Len(fifo') : i < j /\ LineSlot(j)' /\ fifo'[j].n = fifo'[i].n + 1
    BY <2>2, <2>3, <2>4, <2>6, <2>7
  <2>9. NextNumber' <= fifo'[i].n + (Len(fifo') - i) + 1
    BY <1>a, <1>c, <1>1, <2>2, <2>3, <2>4
  <2> QED BY <2>2, <2>3, <2>4, <2>5, <2>8, <2>9
<1> QED
  BY <1>5, <1>6 DEF FifoInv

\* While M110 waits for its answer the window is one: no line goes out.
LEMMA NoM110WhenSending ==
    ASSUME AckAssumption, TypeInv, FifoInv, RoomToSend
    PROVE  \A i \in 1..Len(fifo) : ~M110Slot(i)
<1> SUFFICES ASSUME NEW i \in 1..Len(fifo), M110Slot(i) PROVE FALSE
  OBVIOUS
<1>1. throttle = Throttle
  BY DEF FifoInv, SlotsInv
<1>2. EffWindow = 1
  <2>1. throttle \in Nat /\ throttle >= 1
    BY <1>1, EngineNumbers DEF AckAssumption
  <2> QED BY <2>1 DEF EffWindow
<1> QED
  BY <1>2, FifoSeq DEF RoomToSend

\* The next line: its number is the successor of those in flight.
LEMMA FifoInvLine ==
    ASSUME AckAssumption, TypeInv, FifoInv, RoomToSend, NEW msg,
           NextNumber # 0, NextNumber \in Nat,
           Send(msg, PrintSlot(NextNumber, start + NextNumber)), NextNumber' = NextNumber + 1,
           lineNo' \in Nat, lineNo <= lineNo', NextNumber <= lineNo',
           UNCHANGED <<throttle, start, man, manSent, resync>>
    PROVE  FifoInv'
<1>a. Len(fifo) \in Nat /\ \A i \in 1..Len(fifo) : fifo[i].n \in Nat
  BY FifoSeq DEF Slot
<1>b. lineNo \in Nat /\ start \in Nat /\ resendFrom \in Nat
  BY EngineNumbers
<1> DEFINE slot == PrintSlot(NextNumber, start + NextNumber)
<1>0. slot.type = "print" /\ slot.n = NextNumber /\ slot.after = start + NextNumber
  BY DEF PrintSlot
<1>c. PICK p \in Nat : p = Len(fifo) + 1
  BY <1>a
<1>1. /\ Len(fifo') = Len(fifo) + 1 /\ fifo'[p] = slot
      /\ \A i \in 1..Len(fifo) : fifo'[i] = fifo[i]
  BY <1>c, SentShape
<1> HIDE DEF slot
<1>2. \A i \in 1..Len(fifo) : /\ M110Slot(i)' = M110Slot(i)
                             /\ LineSlot(i)' = LineSlot(i)
                             /\ ManualAt(i)' = ManualAt(i)
  BY <1>a, <1>c, <1>1 DEF M110Slot, LineSlot, ManualAt
<1>3. ~M110Slot(p)' /\ LineSlot(p)' /\ ~ManualAt(p)'
  BY <1>0, <1>a, <1>c, <1>1 DEF M110Slot, LineSlot, ManualAt
<1>4. \A i \in 1..Len(fifo') : i \in 1..Len(fifo) \/ i = p
  BY <1>a, <1>c, <1>1
<1>5. SlotsInv'
  <2>1. \A i \in 1..Len(fifo') : ~M110Slot(i)'
    BY <1>2, <1>3, <1>4, NoM110WhenSending
  <2>2. ASSUME NEW i \in 1..Len(fifo'), LineSlot(i)' PROVE fifo'[i].n <= lineNo' /\ fifo'[i].after = start' + fifo'[i].n
    <3>1. CASE i = p
      BY <1>0, <1>a, <1>c, <1>1, <3>1
    <3>2. CASE i \in 1..Len(fifo)
      <4>1. fifo[i].n <= lineNo /\ fifo[i].after = start + fifo[i].n /\ fifo[i].n \in Nat /\ fifo'[i] = fifo[i]
        BY <1>a, <1>c, <1>1, <1>2, <2>2, <3>2 DEF FifoInv, SlotsInv, Slot
      <4> QED BY <1>b, <4>1
    <3> QED BY <1>4, <3>1, <3>2
  <2>3. \A i \in 1..Len(fifo') : ManualAt(i)' =>
           manSent' /\ man' \in Manual /\ \A j \in 1..Len(fifo') : ManualAt(j)' => i = j
    BY <1>2, <1>3, <1>4 DEF FifoInv, SlotsInv
  <2> QED BY <2>1, <2>2, <2>3 DEF SlotsInv
<1>6. OrderedInv'
  <2>1. SUFFICES ASSUME ~resync, NEW i \in 1..Len(fifo'), LineSlot(i)'
                 PROVE  /\ fifo'[i].n < NextNumber'
                        /\ \A j \in 1..Len(fifo') : i < j /\ LineSlot(j)' => fifo'[i].n < fifo'[j].n
                        /\ \/ fifo'[i].n + 1 = NextNumber'
                           \/ \E j \in 1..Len(fifo') : i < j /\ LineSlot(j)' /\ fifo'[j].n = fifo'[i].n + 1
                        /\ NextNumber' <= fifo'[i].n + (Len(fifo') - i) + 1
    BY DEF OrderedInv
  <2>2. CASE i = p
    <3>1. fifo'[i].n = NextNumber
      BY <1>0, <1>a, <1>c, <1>1, <2>2
    <3>2. \A j \in 1..Len(fifo') : ~(i < j)
      BY <1>a, <1>c, <1>1, <2>2
    <3>3. Len(fifo') - i = 0
      BY <1>a, <1>c, <1>1, <2>2
    <3> QED BY <3>1, <3>2, <3>3
  <2>3. CASE i \in 1..Len(fifo)
    <3>1. LineSlot(i) /\ fifo'[i] = fifo[i] /\ fifo[i].n \in Nat
      BY <1>a, <1>c, <1>1, <1>2, <2>1, <2>3 DEF Slot
    <3>2. /\ fifo[i].n < NextNumber
          /\ \A j \in 1..Len(fifo) : i < j /\ LineSlot(j) => fifo[i].n < fifo[j].n
          /\ \/ fifo[i].n + 1 = NextNumber
             \/ \E j \in 1..Len(fifo) : i < j /\ LineSlot(j) /\ fifo[j].n = fifo[i].n + 1
          /\ NextNumber <= fifo[i].n + (Len(fifo) - i) + 1
      BY <2>1, <2>3, <3>1 DEF FifoInv, OrderedInv
    <3>3. fifo'[i].n < NextNumber'
      BY <3>1, <3>2
    <3>4. \A j \in 1..Len(fifo') : i < j /\ LineSlot(j)' => fifo'[i].n < fifo'[j].n
      BY <1>0, <1>a, <1>c, <1>1, <1>2, <1>4, <3>1, <3>2
    <3>5. \E j \in 1..Len(fifo') : i < j /\ LineSlot(j)' /\ fifo'[j].n = fifo'[i].n + 1
      <4>1. CASE fifo[i].n + 1 = NextNumber
        <5>1. p \in 1..Len(fifo') /\ i < p /\ fifo'[p].n = fifo'[i].n + 1
          BY <1>0, <1>a, <1>c, <1>1, <2>3, <3>1, <4>1
        <5> QED BY <1>3, <5>1
      <4>2. ASSUME NEW j \in 1..Len(fifo), i < j, LineSlot(j), fifo[j].n = fifo[i].n + 1
            PROVE  \E jj \in 1..Len(fifo') : i < jj /\ LineSlot(jj)' /\ fifo'[jj].n = fifo'[i].n + 1
        <5>1. j \in 1..Len(fifo') /\ LineSlot(j)' /\ fifo'[j] = fifo[j]
          BY <1>a, <1>c, <1>1, <1>2, <4>2
        <5> QED BY <3>1, <4>2, <5>1
      <4> QED BY <3>2, <4>1, <4>2
    <3>6. NextNumber' <= fifo'[i].n + (Len(fifo') - i) + 1
      <4>1. Len(fifo') - i = (Len(fifo) - i) + 1 /\ Len(fifo) - i \in Int
        BY <1>a, <1>1
      <4>2. NextNumber <= fifo[i].n + (Len(fifo) - i) + 1
        BY <3>2
      <4>3. fifo'[i].n = fifo[i].n /\ fifo[i].n \in Nat /\ NextNumber' = NextNumber + 1 /\ NextNumber \in Nat
        BY <3>1
      <4> QED BY ONLY <4>1, <4>2, <4>3
    <3> QED BY <3>3, <3>4, <3>5, <3>6
  <2> QED BY <1>4, <2>2, <2>3
<1> QED
  BY <1>5, <1>6 DEF FifoInv

\* What goes out with the next number is the line that belongs to it.
LEMMA NextLineSent ==
    ASSUME TypeInv, OrderInv, SendLine \/ (ResendLine /\ Running')
    PROVE  /\ RoomToSend /\ NextNumber # 0 /\ NextNumber \in Nat
           /\ Send(PrintMsg(NextNumber, start + NextNumber), PrintSlot(NextNumber, start + NextNumber))
           /\ NextNumber' = NextNumber + 1
           /\ lineNo' \in Nat /\ lineNo <= lineNo' /\ NextNumber <= lineNo'
           /\ resendFrom' = 0 => NextNumber = lineNo'
           /\ resendFrom' # 0 => resendFrom' = NextNumber + 1 /\ lineNo' = lineNo
           /\ start + NextNumber \in 0..FileLen
           /\ UNCHANGED <<throttle, start, man, manSent, resync, lastGood, answered, gBytesDone, gState, why, finishSent, gWindow>>
<1>0. lineNo \in Nat /\ start \in Nat /\ resendFrom \in Nat /\ FileLen \in Nat /\ start + lineNo <= FileLen
  BY EngineNumbers
<1>1. CASE SendLine
  <2>1. resendFrom = 0 /\ NextNumber = lineNo + 1 /\ NextLine = start + NextNumber /\ RoomToSend
    BY <1>0, <1>1 DEF SendLine, NothingBefore, NextNumber, NextLine
  <2>2. lineNo' = lineNo + 1 /\ UNCHANGED <<throttle, start, man, manSent, resync, resendFrom, lastGood, answered, gBytesDone,
                                              gState, why, finishSent, gWindow>>
    BY <1>1 DEF SendLine, resyncVars, manVars
  <2>3. Send(PrintMsg(NextNumber, start + NextNumber), PrintSlot(NextNumber, start + NextNumber))
    <3>1. Send(PrintMsg(lineNo + 1, NextLine), PrintSlot(lineNo + 1, NextLine))
      BY <1>1 DEF SendLine
    <3> QED BY <2>1, <3>1
  <2>4. NextNumber' = NextNumber + 1
    BY <1>0, <2>1, <2>2 DEF NextNumber
  <2>5. start + lineNo # FileLen
    BY <1>1 DEF SendLine, EndOfFile
  <2> QED BY <1>0, <2>1, <2>2, <2>3, <2>4, <2>5
<1>2. CASE ResendLine /\ Running'
  <2>1. /\ Kept(resendFrom)
        /\ Send(PrintMsg(resendFrom, KeptLine(resendFrom)), PrintSlot(resendFrom, KeptLine(resendFrom)))
        /\ resendFrom' = IF resendFrom < lineNo THEN resendFrom + 1 ELSE 0
        /\ UNCHANGED <<gState, why, manVars>>
    BY <1>2 DEF ResendLine, Leave, Running
  <2>2. resendFrom # 0 /\ RoomToSend /\ NextNumber = resendFrom /\ resendFrom <= lineNo
    BY <1>2, EngineNumbers DEF ResendLine, NextNumber, RoomToSend
  <2>3. UNCHANGED <<throttle, start, lineNo, man, manSent, answered, resync, lastGood, gBytesDone, gState, why, finishSent, gWindow>>
    BY <1>2, <2>1 DEF ResendLine, lineVars, manVars
  <2>4. KeptLine(resendFrom) = start + resendFrom
    <3>1. PICK i \in DOMAIN hist : hist[i].n = resendFrom /\ KeptLine(resendFrom) = hist[i].line
      BY <2>1, KeptLineIn
    <3> QED BY <2>2, <3>1 DEF OrderInv, HistInOrder
  <2>5. NextNumber' = NextNumber + 1
    BY <1>0, <2>1, <2>2, <2>3 DEF NextNumber
  <2>6. Send(PrintMsg(NextNumber, start + NextNumber), PrintSlot(NextNumber, start + NextNumber))
    BY <2>1, <2>2, <2>4
  <2>7. resendFrom' = 0 => NextNumber = lineNo'
    BY <1>0, <2>1, <2>2, <2>3
  <2> QED BY <1>0, <2>1, <2>2, <2>3, <2>5, <2>6, <2>7
<1> QED
  BY <1>1, <1>2

LEMMA StaysLeft == ASSUME [Next]_vars, Running' PROVE Running
<1>1. CASE Printer \/ Faults \/ UNCHANGED vars
  BY <1>1 DEF Printer, Faults, LinkLost, WriteFails, Leave, Running, vars, engineVars
<1>2. CASE Receive
  BY <1>2 DEF Receive, IgnoreOk, AckOldest, AckThroughPoll, ErrorReported, RestartReported, FatalReported, Received, engineVars, Running
<1>3. CASE Resynchronise \/ SendPoll \/ Transmit \/ DropAbandoned \/ Probe \/ StoppedResponding
  BY <1>3 DEF Resynchronise, SendPoll, Transmit, ResendLine, SendManual, SendLine, LineTooLong, SendFinish, DropAbandoned,
              Probe, StoppedResponding, RoomToSend
<1>4. CASE Users
  BY <1>4 DEF Users, Pause, Resume, Stop, ManualCommand, SetWindow, Running
<1> QED
  BY <1>1, <1>2, <1>3, <1>4 DEF Next, Engine

\* The steps after which the print still goes on, in the groups that the proofs below treat alike.
LostOrIgnored == (LoseAnswer /\ UNCHANGED engineVars) \/ IgnoreOk

Acknowledge == AckOldest \/ AckThroughPoll

NumberSent == SendLine \/ (ResendLine /\ Running')

PollSent == SendPoll \/ Probe

WindowOrPause == Pause \/ Resume \/ SetWindow \/ UNCHANGED vars

LEMMA RunningSteps ==
    ASSUME [Next]_vars, Running'
    PROVE  \/ Printer \/ LostOrIgnored \/ Acknowledge \/ ErrorReported \/ Resynchronise
           \/ NumberSent \/ PollSent \/ SendFinish \/ SendManual
           \/ DropAbandoned \/ ManualCommand \/ WindowOrPause \/ (PrinterFails /\ UNCHANGED engineVars)
<1>1. ~RestartReported /\ ~FatalReported /\ ~StoppedResponding /\ ~Stop /\ ~LinkLost /\ ~WriteFails /\ ~LineTooLong
  BY DEF RestartReported, FatalReported, StoppedResponding, Stop, LinkLost, WriteFails, LineTooLong, Leave, Running
<1> QED
  BY <1>1 DEF Next, Engine, Receive, Transmit, Users, Faults, LostOrIgnored, Acknowledge, NumberSent, PollSent, WindowOrPause

\* An ok is for the oldest slot; an ok with a temperature for those up to the oldest poll.
LEMMA AcknowledgedSlots ==
    ASSUME TypeInv, Acknowledge
    PROVE  /\ ~resync /\ rx # <<>> /\ rx' = Tail(rx)
           /\ UNCHANGED <<gWindow, lineVars, finishSent, resyncVars, wire, lastN, executed, runs, alive>>
           /\ \E k \in 1..Len(fifo) :
                 /\ AckSlots(k)
                 /\ \/ k = 1 /\ Head(rx).kind = "ok"
                    \/ Head(rx).kind = "ok T" /\ HasPoll /\ \A i \in 1..Len(fifo) : IsPoll(fifo[i]) => k <= i
<1>1. CASE AckOldest
  <2>1. 1 \in 1..Len(fifo)
    BY <1>1, FifoSeq, EmptySeq DEF AckOldest
  <2> QED BY <1>1, <2>1 DEF AckOldest, Received
<1>2. CASE AckThroughPoll
  <2>1. Positions("poll") # {} /\ Positions("poll") \in SUBSET (1..7) /\ Positions("poll") \subseteq 1..Len(fifo)
    BY <1>2, PositionsShort DEF AckThroughPoll, HasPoll, IsPoll, Positions, TypeInv
  <2>2. Min(Positions("poll")) \in Positions("poll") /\ \A i \in Positions("poll") : Min(Positions("poll")) <= i
    BY <2>1, MinIn
  <2>3. \A i \in 1..Len(fifo) : IsPoll(fifo[i]) => i \in Positions("poll")
    BY DEF IsPoll, Positions
  <2> QED BY <1>2, <2>1, <2>2, <2>3 DEF AckThroughPoll, Received
<1> QED
  BY <1>1, <1>2 DEF Acknowledge

LEMMA FifoInvNext ==
    ASSUME AckAssumption, TypeInv, OrderInv, FifoInv, [Next]_vars, Running'
    PROVE  FifoInv'
<1>1. CASE Printer \/ LostOrIgnored \/ WindowOrPause \/ (PrinterFails /\ UNCHANGED engineVars)
  <2>1. UNCHANGED <<fifo, lineNo, throttle, start, man, manSent, resync, resendFrom>>
    BY <1>1 DEF Printer, LostOrIgnored, IgnoreOk, WindowOrPause, Pause, Resume, SetWindow, vars, engineVars,
                lineVars, resyncVars, manVars
  <2> QED BY <2>1, FifoInvStays
<1>2. CASE Acknowledge
  BY <1>2, AcknowledgedSlots, FifoInvAck
<1>3. CASE ErrorReported
  BY <1>3, FifoInvError
<1>4. CASE Resynchronise
  BY <1>4, FifoInvEmpty DEF Resynchronise
<1>5. CASE NumberSent
  BY <1>5, NextLineSent, FifoInvLine DEF NumberSent
<1>6. CASE PollSent
  <2>1. Send(PollMsg, PollSlot) /\ UNCHANGED <<lineNo, throttle, start, man, manSent, resync, resendFrom>>
    BY <1>6 DEF PollSent, SendPoll, Probe, lineVars, resyncVars, manVars
  <2>2. PollSlot.type = "poll"
    BY DEF PollSlot
  <2> QED BY <2>1, <2>2, FifoInvSend
<1>7. CASE SendFinish
  <2>1. Send(FinishMsg, FinishSlot) /\ UNCHANGED <<lineNo, throttle, start, man, manSent, resync, resendFrom>>
    BY <1>7 DEF SendFinish, lineVars, resyncVars, manVars
  <2>2. FinishSlot.type = "finish"
    BY DEF FinishSlot
  <2> QED BY <2>1, <2>2, FifoInvSend
<1>8. CASE SendManual
  <2>1. Send(ManualMsg(man), ManualSlot) /\ UNCHANGED <<lineNo, throttle, start, man, resync, resendFrom>>
    BY <1>8 DEF SendManual, lineVars, resyncVars
  <2>2. ManualSlot.type = "manual"
    BY DEF ManualSlot
  <2>3. ~manSent /\ manSent' /\ man \in Manual
    BY <1>8 DEF SendManual, ManualWaiting, TypeInv, EngineInv, EngineTypeOK
  <2>4. /\ ManualSlot.type \in {"poll", "finish", "manual"}
        /\ (ManualSlot.type = "manual" => ~manSent /\ manSent' /\ man \in Manual)
        /\ (ManualSlot.type # "manual" => UNCHANGED manSent)
    BY <2>2, <2>3, Zenon
  <2> QED BY ONLY <2>1, <2>4, TypeInv, FifoInv, FifoInvSend
<1>9. CASE DropAbandoned \/ ManualCommand
  <2>1. UNCHANGED <<fifo, lineNo, throttle, start, resync, resendFrom>>
    BY <1>9 DEF DropAbandoned, ManualCommand, lineVars, resyncVars
  <2>2. ~manSent \/ man \notin Manual
    BY <1>9, StreamAssumption DEF DropAbandoned, ManualCommand, ManualWaiting
  <2> QED BY <2>1, <2>2, FifoInvManual
<1> QED
  BY <1>1, <1>2, <1>3, <1>4, <1>5, <1>6, <1>7, <1>8, <1>9, RunningSteps

-----------------------------------------------------------------------------
(* The window opens only when enough lines were acknowledged *)

PrintAt(i) == fifo[i].type = "print"

\* After a start or a resynchronisation one line is in flight at a time until Throttle of
\* them were acknowledged: until then the number of a line says how many still are to come.
WindowInv == ~resync =>
    /\ throttle > 0 => \A i, j \in 1..Len(fifo) : PrintAt(i) /\ PrintAt(j) => i = j
    /\ \A i \in 1..Len(fifo) : PrintAt(i) => Throttle <= throttle + fifo[i].n
    /\ throttle = 0 \/ (\A i \in 1..Len(fifo) : ~PrintAt(i)) => Throttle <= throttle + NextNumber

LEMMA WindowInit == ASSUME Init PROVE WindowInv
<1>1. Len(fifo) = 1 /\ fifo[1] = PrintSlot(0, 0) /\ throttle = Throttle
  BY DEF Init
<1>2. PrintSlot(0, 0).type = "print" /\ PrintSlot(0, 0).n = 0
  BY DEF PrintSlot
<1>3. \A i \in 1..Len(fifo) : i = 1
  BY <1>1
<1>4. resendFrom = 0 /\ lineNo = 0
  BY DEF Init
<1> QED
  BY <1>1, <1>2, <1>3, <1>4 DEF WindowInv, PrintAt, NextNumber

LEMMA WindowStays ==
    ASSUME WindowInv, UNCHANGED <<fifo, throttle, resync, lineNo, resendFrom>>
    PROVE  WindowInv'
BY DEF WindowInv, PrintAt, NextNumber

LEMMA WindowRestarts ==
    ASSUME TypeInv', fifo' = <<>>, throttle' = Throttle
    PROVE  WindowInv'
<1>1. lineNo' \in Nat /\ resendFrom' \in Nat
  BY DEF TypeInv, EngineInv, EngineTypeOK
<1>2. PICK n \in Nat : n = NextNumber'
  <2>1. \A r, l \in Nat : (IF r # 0 THEN r ELSE l + 1) \in Nat
    OBVIOUS
  <2>2. (IF resendFrom' # 0 THEN resendFrom' ELSE lineNo' + 1) \in Nat
    BY <1>1, <2>1, Zenon
  <2> QED BY <2>2, Zenon DEF NextNumber
<1>3. Throttle <= throttle' + NextNumber'
  <2>1. throttle' = Throttle /\ Throttle \in Nat
    BY StreamAssumption
  <2>2. Throttle <= throttle' + n
    BY ONLY <2>1, n \in Nat
  <2> QED BY <1>2, <2>2
<1>4. \A i \in 1..Len(fifo') : FALSE
  OBVIOUS
<1> QED
  BY <1>3, <1>4, Zenon DEF WindowInv

\* One acknowledged line is one line less to come; with the window open nothing changes.
LEMMA WindowAck ==
    ASSUME TypeInv, FifoInv, WindowInv, ~resync, NEW k \in 1..Len(fifo), AckSlots(k),
           UNCHANGED <<lineNo, resync, resendFrom>>
    PROVE  WindowInv'
<1>a. /\ Len(fifo) \in Nat /\ lineNo \in Nat /\ resendFrom \in Nat /\ throttle \in Nat /\ Throttle \in Nat
      /\ \A i \in 1..Len(fifo) : fifo[i].n \in Nat
  BY FifoSeq, EngineNumbers DEF Slot
<1>1. Len(fifo') = Len(fifo) - k /\ \A i \in 1..Len(fifo') : i + k \in 1..Len(fifo) /\ fifo'[i] = fifo[i + k]
  BY AckedShape
<1>2. \A i \in 1..Len(fifo') : PrintAt(i)' <=> PrintAt(i + k)
  BY ONLY <1>1 DEF PrintAt
<1>3. NextNumber' = NextNumber /\ NextNumber \in Nat
  BY <1>a DEF NextNumber
<1>4. /\ throttle > 0 => \A i, j \in 1..Len(fifo) : PrintAt(i) /\ PrintAt(j) => i = j
      /\ \A i \in 1..Len(fifo) : PrintAt(i) => Throttle <= throttle + fifo[i].n
      /\ throttle = 0 \/ (\A i \in 1..Len(fifo) : ~PrintAt(i)) => Throttle <= throttle + NextNumber
  BY DEF WindowInv
<1> DEFINE lines == {i \in Positions("print") : i <= k}
<1>5. throttle' = IF Cardinality(lines) >= throttle THEN 0 ELSE throttle - Cardinality(lines)
  BY DEF AckSlots
<1>6. \A i \in lines : i \in 1..Len(fifo) /\ PrintAt(i) /\ i <= k
  BY DEF Positions, PrintAt
<1>7. \A i \in 1..Len(fifo) : PrintAt(i) /\ i <= k => i \in lines
  BY DEF Positions, PrintAt
<1>8. Cardinality(lines) \in Nat
  <2>1. lines \subseteq 1..Len(fifo)
    BY <1>6
  <2>2. IsFiniteSet(1..Len(fifo))
    BY <1>a, FS_Interval
  <2> QED BY <2>1, <2>2, FS_Subset, FS_CardinalityType
<1> HIDE DEF lines
<1>9. CASE throttle = 0
  <2>1. throttle' = 0
    BY ONLY <1>5, <1>8, <1>9
  <2>2. \A i \in 1..Len(fifo') : PrintAt(i)' => Throttle <= throttle' + fifo'[i].n
    <3>1. SUFFICES ASSUME NEW i \in 1..Len(fifo'), PrintAt(i)' PROVE Throttle <= throttle' + fifo'[i].n
      OBVIOUS
    <3>2. PrintAt(i + k) /\ i + k \in 1..Len(fifo) /\ fifo'[i] = fifo[i + k]
      BY <1>1, <1>2, <3>1
    <3>3. Throttle <= throttle + fifo[i + k].n
      BY <1>4, <3>2
    <3> QED BY <1>9, <2>1, <3>2, <3>3
  <2>3. Throttle <= NextNumber
    BY ONLY <1>3, <1>4, <1>9, <1>a
  <2>4. Throttle <= throttle' + NextNumber'
    BY ONLY <1>3, <1>a, <2>1, <2>3
  <2> QED BY ONLY <2>1, <2>2, <2>4 DEF WindowInv
<1>10. CASE throttle > 0 /\ lines = {}
  <2>1. throttle' = throttle
    <3>1. Cardinality(lines) = 0
      BY <1>10, FS_EmptySet
    <3> QED BY ONLY <1>5, <1>10, <1>a, <3>1
  <2>2. \A i, j \in 1..Len(fifo') : PrintAt(i)' /\ PrintAt(j)' => i = j
    <3>1. SUFFICES ASSUME NEW i \in 1..Len(fifo'), NEW j \in 1..Len(fifo'), PrintAt(i)', PrintAt(j)' PROVE i = j
      OBVIOUS
    <3>2. i + k = j + k
      BY <1>1, <1>2, <1>4, <1>10, <3>1
    <3> QED BY ONLY <3>2, i \in 1..Len(fifo'), j \in 1..Len(fifo'), k \in 1..Len(fifo)
  <2>3. \A i \in 1..Len(fifo') : PrintAt(i)' => Throttle <= throttle' + fifo'[i].n
    BY <1>1, <1>2, <1>4, <2>1
  <2>4. ASSUME \A i \in 1..Len(fifo') : ~PrintAt(i)' PROVE \A i \in 1..Len(fifo) : ~PrintAt(i)
    <3>1. SUFFICES ASSUME NEW i \in 1..Len(fifo), PrintAt(i) PROVE FALSE
      OBVIOUS
    <3>2. i > k
      BY <1>7, <1>10, <3>1
    <3>3. i - k \in 1..Len(fifo') /\ (i - k) + k = i
      BY ONLY <1>1, <1>a, <3>2, i \in 1..Len(fifo), k \in 1..Len(fifo)
    <3> QED BY <1>2, <2>4, <3>1, <3>3
  <2> QED BY <1>3, <1>4, <1>10, <2>1, <2>2, <2>3, <2>4 DEF WindowInv
<1>11. CASE throttle > 0 /\ lines # {}
  <2>1. PICK l \in lines : TRUE
    BY <1>11
  <2>2. l \in 1..Len(fifo) /\ PrintAt(l) /\ l <= k /\ \A i \in 1..Len(fifo) : PrintAt(i) => i = l
    BY <1>4, <1>6, <1>11, <2>1
  <2>3. lines = {l}
    BY <1>6, <2>1, <2>2
  <2>4. throttle' = throttle - 1
    <3>1. Cardinality(lines) = 1
      BY <2>3, FS_Singleton
    <3> QED BY ONLY <1>5, <1>11, <1>a, <3>1
  <2>5. \A i \in 1..Len(fifo') : ~PrintAt(i)'
    <3>1. SUFFICES ASSUME NEW i \in 1..Len(fifo'), PrintAt(i)' PROVE FALSE
      OBVIOUS
    <3>2. i + k = l
      BY <1>1, <1>2, <2>2, <3>1
    <3> QED BY ONLY <2>2, <3>2, i \in 1..Len(fifo'), k \in 1..Len(fifo)
  <2>6. fifo[l].n < NextNumber
    <3>1. CASE fifo[l].n = 0
      BY ONLY <1>a, <3>1 DEF NextNumber
    <3>2. CASE fifo[l].n # 0
      BY <2>2, <3>2 DEF FifoInv, OrderedInv, LineSlot, PrintAt
    <3> QED BY <3>1, <3>2
  <2>7. Throttle <= throttle + fifo[l].n /\ fifo[l].n \in Nat
    BY <1>4, <1>a, <2>2
  <2>8. Throttle <= throttle' + NextNumber'
    BY ONLY <1>3, <1>11, <1>a, <2>4, <2>6, <2>7
  <2> QED BY <2>5, <2>8 DEF WindowInv
<1> QED
  BY <1>9, <1>10, <1>11, <1>a

\* A line that goes out while the window is one is alone.
LEMMA WindowLine ==
    ASSUME TypeInv, FifoInv, WindowInv, RoomToSend, NEW msg,
           NextNumber \in Nat, Send(msg, PrintSlot(NextNumber, start + NextNumber)), NextNumber' = NextNumber + 1,
           UNCHANGED <<throttle, resync>>
    PROVE  WindowInv'
<1>a. Len(fifo) \in Nat /\ throttle \in Nat /\ Throttle \in Nat /\ \A i \in 1..Len(fifo) : fifo[i].n \in Nat
  BY FifoSeq, EngineNumbers DEF Slot
<1> DEFINE slot == PrintSlot(NextNumber, start + NextNumber)
<1>0. slot.type = "print" /\ slot.n = NextNumber
  BY DEF PrintSlot
<1>1. Len(fifo') = Len(fifo) + 1 /\ fifo'[Len(fifo) + 1] = slot /\ \A i \in 1..Len(fifo) : fifo'[i] = fifo[i]
  BY SentShape
<1> HIDE DEF slot
<1>2. \A i \in 1..Len(fifo') : i \in 1..Len(fifo) \/ i = Len(fifo) + 1
  BY ONLY <1>1, <1>a
<1>3. throttle > 0 => Len(fifo) = 0
  BY <1>a DEF RoomToSend, EffWindow
<1>4. ~resync
  BY DEF RoomToSend
<1>5. Throttle <= throttle + NextNumber
  <2>1. throttle = 0 \/ \A i \in 1..Len(fifo) : ~PrintAt(i)
    BY ONLY <1>3, <1>a
  <2> QED BY <1>4, <2>1 DEF WindowInv
<1>6. throttle > 0 => \A i, j \in 1..Len(fifo') : i = j
  BY ONLY <1>1, <1>3, <1>a
<1>7. \A i \in 1..Len(fifo') : PrintAt(i)' => Throttle <= throttle + fifo'[i].n
  <2>1. SUFFICES ASSUME NEW i \in 1..Len(fifo'), PrintAt(i)' PROVE Throttle <= throttle + fifo'[i].n
    OBVIOUS
  <2>2. CASE i \in 1..Len(fifo)
    BY <1>1, <1>4, <2>1, <2>2 DEF WindowInv, PrintAt
  <2>3. CASE i = Len(fifo) + 1
    BY <1>0, <1>1, <1>5, <2>3
  <2> QED BY <1>2, <2>2, <2>3
<1>8. Throttle <= throttle + NextNumber'
  <2>1. NextNumber' = NextNumber + 1 /\ NextNumber \in Nat
    OBVIOUS
  <2> QED BY ONLY <1>5, <1>a, <2>1
<1> QED
  BY <1>6, <1>7, <1>8 DEF WindowInv

LEMMA WindowSend ==
    ASSUME TypeInv, WindowInv, NEW msg, NEW slot, slot.type # "print", Send(msg, slot),
           UNCHANGED <<throttle, resync, lineNo, resendFrom>>
    PROVE  WindowInv'
<1>a. Len(fifo) \in Nat
  BY FifoSeq
<1>1. Len(fifo') = Len(fifo) + 1 /\ fifo'[Len(fifo) + 1] = slot /\ \A i \in 1..Len(fifo) : fifo'[i] = fifo[i]
  BY SentShape
<1>2. \A i \in 1..Len(fifo') : i \in 1..Len(fifo) \/ i = Len(fifo) + 1
  BY ONLY <1>1, <1>a
<1>3. \A i \in 1..Len(fifo') : PrintAt(i)' => i \in 1..Len(fifo) /\ PrintAt(i) /\ fifo'[i] = fifo[i]
  BY <1>1, <1>2 DEF PrintAt
<1>4. 1..Len(fifo) \subseteq 1..Len(fifo') /\ \A i \in 1..Len(fifo) : PrintAt(i) => PrintAt(i)'
  BY ONLY <1>1, <1>a DEF PrintAt
<1>5. NextNumber' = NextNumber /\ throttle' = throttle /\ resync' = resync
  BY DEF NextNumber
<1> QED
  BY <1>3, <1>4, <1>5 DEF WindowInv

LEMMA WindowNext ==
    ASSUME AckAssumption, TypeInv, TypeInv', OrderInv, FifoInv, WindowInv, [Next]_vars, Running'
    PROVE  WindowInv'
<1>1. CASE Printer \/ LostOrIgnored \/ WindowOrPause \/ DropAbandoned \/ ManualCommand \/ (PrinterFails /\ UNCHANGED engineVars)
  <2>1. UNCHANGED <<fifo, throttle, resync, lineNo, resendFrom>>
    BY <1>1 DEF Printer, LostOrIgnored, IgnoreOk, WindowOrPause, Pause, Resume, SetWindow, DropAbandoned, ManualCommand,
                vars, engineVars, lineVars, resyncVars
  <2> QED BY <2>1, WindowStays
<1>2. CASE Acknowledge
  <2>1. ~resync /\ UNCHANGED <<lineNo, resync, resendFrom>> /\ \E k \in 1..Len(fifo) : AckSlots(k)
    BY <1>2, AcknowledgedSlots DEF lineVars, resyncVars
  <2> QED BY <2>1, WindowAck
<1>3. CASE ErrorReported
  BY <1>3 DEF ErrorReported, WindowInv
<1>4. CASE Resynchronise
  BY <1>4, WindowRestarts DEF Resynchronise
<1>5. CASE NumberSent
  BY <1>5, NextLineSent, WindowLine DEF NumberSent
<1>6. CASE PollSent
  <2>1. Send(PollMsg, PollSlot) /\ UNCHANGED <<throttle, resync, lineNo, resendFrom>> /\ PollSlot.type # "print"
    BY <1>6 DEF PollSent, SendPoll, Probe, lineVars, resyncVars, PollSlot
  <2> QED BY <2>1, WindowSend
<1>7. CASE SendFinish
  <2>1. Send(FinishMsg, FinishSlot) /\ UNCHANGED <<throttle, resync, lineNo, resendFrom>> /\ FinishSlot.type # "print"
    BY <1>7 DEF SendFinish, lineVars, resyncVars, FinishSlot
  <2> QED BY <2>1, WindowSend
<1>8. CASE SendManual
  <2>1. Send(ManualMsg(man), ManualSlot) /\ UNCHANGED <<throttle, resync, lineNo, resendFrom>> /\ ManualSlot.type # "print"
    BY <1>8 DEF SendManual, lineVars, resyncVars, ManualSlot
  <2> QED BY <2>1, WindowSend
<1> QED
  BY <1>1, <1>2, <1>3, <1>4, <1>5, <1>6, <1>7, <1>8, RunningSteps

-----------------------------------------------------------------------------
(* Answers and the slots they are credited to *)

\* The first j answers on the way are all oks.
Oks(j) == \A i \in 1..j : rx[i].kind \in {"ok", "ok T"}

ErrorComing == \E i \in 1..Len(rx) : rx[i].kind = "error"

\* The printer has carried out what slot i stands for.
SlotDone(i) ==
    /\ fifo[i].type = "print" => fifo[i].after <= start + Len(executed)
    /\ fifo[i].type = "finish" => start + Len(executed) = FileLen
    /\ fifo[i].type = "manual" => runs[man] > 0

\* The slot of a line that asks for the temperature.
TempSlot(i) == fifo[i].type = "print" /\ fifo[i].after \in TempLines

\* What a temperature may answer: a poll, or a line of the file while no poll is in flight.
PollOrTemp(i) == IsPoll(fifo[i]) \/ (TempSlot(i) /\ ~HasPoll)

\* d oks were lost. The j-th ok on the way is for the slot d further, a temperature for a poll
\* or, with no poll in flight, for a line that asked for it; everything up to that slot is done.
Credited(d) == \A j \in 0..Len(rx) : Oks(j) =>
    /\ d + j <= Len(fifo)
    /\ j > 0 /\ rx[j].kind = "ok T" => PollOrTemp(d + j)
    /\ \A i \in 1..(d + j) : SlotDone(i)

\* A line the printer threw away stays in the FIFO, behind everything that has an ok.
Blocked(d) == \E p \in 1..Len(fifo) : /\ fifo[p].type = "print"
                                     /\ \A j \in 0..Len(rx) : Oks(j) => d + j < p

\* The commands on the wire are the last ones of the FIFO.
Matches(i, k) ==
    /\ fifo[i].type = wire[k].type
    /\ fifo[i].n = wire[k].n
    /\ fifo[i].after = wire[k].line
    /\ wire[k].type = "manual" => wire[k].cmd = man
    /\ TempSlot(i) => ~HasPoll

Aligned(d) == /\ d + Len(rx) + Len(wire) = Len(fifo)
              /\ \A k \in 1..Len(wire) : Matches(d + Len(rx) + k, k)

CreditFor(d) == Credited(d) /\ (ErrorComing => Blocked(d)) /\ (alive /\ ~ErrorComing => Aligned(d))

CreditInv == ~resync => \E d \in Nat : CreditFor(d)

PendingInv == resync => \E p \in 1..Len(fifo) : fifo[p].type = "print"

-----------------------------------------------------------------------------
(* How the answers on the way change *)

LEMMA OneOnly == \A i \in 1..1 : i = 1
OBVIOUS

LEMMA OksRead ==
    ASSUME TypeInv, rx # <<>>, rx' = Tail(rx), Head(rx).kind \in {"ok", "ok T"}
    PROVE  /\ \A j \in 0..Len(rx') : j + 1 \in 1..Len(rx) /\ (Oks(j)' => Oks(j + 1)) /\ (Oks(j + 1) => Oks(j)')
           /\ Oks(1)
           /\ ErrorComing' <=> ErrorComing
<1>1. /\ Len(rx') = Len(rx) - 1 /\ 1 \in 1..Len(rx) /\ Head(rx) = rx[1] /\ Len(rx) \in Nat
      /\ \A i \in 1..Len(rx') : i + 1 \in 1..Len(rx) /\ rx'[i] = rx[i + 1]
  BY ReadShape, RxSeq
<1>0. Len(rx') = Len(rx) - 1 /\ Len(rx) \in Nat /\ Len(rx') \in Nat
  <2>1. Len(rx) \in Nat /\ Len(rx') = Len(rx) - 1 /\ 1 \in 1..Len(rx)
    BY <1>1
  <2> QED BY ONLY <2>1
<1>2. Oks(1)
  <2>1. \A i \in 1..1 : rx[i] = Head(rx)
    BY <1>1, OneOnly
  <2> QED BY <2>1 DEF Oks
<1>3. ASSUME NEW j \in 0..Len(rx') PROVE j + 1 \in 1..Len(rx) /\ (Oks(j)' => Oks(j + 1)) /\ (Oks(j + 1) => Oks(j)')
  <2>1. j + 1 \in 1..Len(rx)
    BY ONLY <1>0, j \in 0..Len(rx')
  <2>2. ASSUME Oks(j)', NEW i \in 1..(j + 1) PROVE rx[i].kind \in {"ok", "ok T"}
    <3>1. CASE i = 1 BY <1>1, <3>1
    <3>2. CASE i # 1
      <4>1. i - 1 \in 1..j /\ i - 1 \in 1..Len(rx') /\ (i - 1) + 1 = i
        BY ONLY <1>0, <3>2, i \in 1..(j + 1), j \in 0..Len(rx')
      <4> QED BY <1>1, <2>2, <4>1 DEF Oks
    <3> QED BY <3>1, <3>2
  <2>3. ASSUME Oks(j + 1), NEW i \in 1..j PROVE rx'[i].kind \in {"ok", "ok T"}
    <3>1. i + 1 \in 1..(j + 1) /\ i \in 1..Len(rx')
      BY ONLY <1>0, i \in 1..j, j \in 0..Len(rx')
    <3> QED BY <1>1, <2>3, <3>1 DEF Oks
  <2> QED BY <2>1, <2>2, <2>3 DEF Oks
<1>4. ErrorComing' => ErrorComing
  BY <1>1 DEF ErrorComing
<1>5. ErrorComing => ErrorComing'
  <2>1. SUFFICES ASSUME NEW i \in 1..Len(rx), rx[i].kind = "error" PROVE ErrorComing'
    BY DEF ErrorComing
  <2>2. i # 1
    BY <1>1, <2>1
  <2>3. i - 1 \in 1..Len(rx') /\ (i - 1) + 1 = i
    BY ONLY <1>0, <2>2, i \in 1..Len(rx)
  <2> QED BY <1>1, <2>1, <2>3 DEF ErrorComing
<1> QED
  BY <1>2, <1>3, <1>4, <1>5

LEMMA OksGrow ==
    ASSUME TypeInv, Len(rx') \in Nat, Len(rx) <= Len(rx'), \A i \in 1..Len(rx) : rx'[i] = rx[i]
    PROVE  /\ \A j \in 0..Len(rx) : Oks(j)' <=> Oks(j)
           /\ ErrorComing => ErrorComing'
           /\ ErrorComing => \A j \in 0..Len(rx') : Oks(j)' => j \in 0..Len(rx) /\ Oks(j)
<1>0. Len(rx) \in Nat
  BY RxSeq
<1>1. ASSUME NEW j \in 0..Len(rx) PROVE Oks(j)' <=> Oks(j)
  <2>1. \A i \in 1..j : rx'[i] = rx[i]
    BY <1>0
  <2> QED BY <2>1 DEF Oks
<1>2. ErrorComing => ErrorComing'
  BY <1>0 DEF ErrorComing
<1>3. ASSUME ErrorComing, NEW j \in 0..Len(rx'), Oks(j)' PROVE j \in 0..Len(rx) /\ Oks(j)
  <2>1. PICK i \in 1..Len(rx) : rx[i].kind = "error"
    BY <1>3 DEF ErrorComing
  <2>2. i \notin 1..j
    <3>1. ASSUME i \in 1..j PROVE FALSE
      <4>1. rx'[i].kind \in {"ok", "ok T"} /\ rx'[i] = rx[i]
        BY <1>3, <3>1 DEF Oks
      <4> QED BY <2>1, <4>1
    <3> QED BY <3>1
  <2>3. j \in 0..Len(rx)
    BY ONLY <1>0, <2>2, i \in 1..Len(rx), j \in 0..Len(rx'), Len(rx') \in Nat
  <2> QED BY <1>1, <1>3, <2>3
<1> QED
  BY <1>1, <1>2, <1>3

\* No line of the file is executed past its end.
LEMMA ExecutedBound == TypeInv /\ OrderInv => start + Len(executed) <= FileLen
<1> SUFFICES ASSUME TypeInv, OrderInv PROVE start + Len(executed) <= FileLen
  OBVIOUS
<1>1. Len(executed) \in Nat /\ start \in Nat /\ start <= FileLen /\ FileLen \in Nat
  BY ExecutedSeq, EngineNumbers
<1>2. CASE Len(executed) = 0
  BY <1>1, <1>2
<1>3. CASE Len(executed) # 0
  <2>1. Len(executed) \in 1..Len(executed)
    BY <1>1, <1>3
  <2>2. executed[Len(executed)] = start + Len(executed) /\ executed[Len(executed)] \in 1..FileLen
    BY <2>1, ExecutedSeq, ElementOfSeq DEF OrderInv, InOrder
  <2> QED BY <1>1, <2>2
<1> QED
  BY <1>2, <1>3

LEMMA ExecutedBoundNext == ASSUME TypeInv', OrderInv', UNCHANGED start PROVE start + Len(executed') <= FileLen
<1>1. executed' \in Seq(1..FileLen) /\ start' \in Starts /\ start' = start
  BY DEF TypeInv, MarlinTypeOK, EngineInv, EngineTypeOK
<1>2. Len(executed') \in Nat /\ start \in 0..FileLen /\ FileLen \in Nat
  BY <1>1, LenProperties
<1>3. \A i \in 1..Len(executed') : executed'[i] = start + i /\ executed'[i] \in 1..FileLen
  BY <1>1, ElementOfSeq DEF OrderInv, InOrder
<1>4. Len(executed') # 0 => Len(executed') \in 1..Len(executed')
  BY ONLY <1>2
<1>5. Len(executed') # 0 => start + Len(executed') \in 1..FileLen
  <2>1. Len(executed') # 0 => executed'[Len(executed')] = start + Len(executed') /\ executed'[Len(executed')] \in 1..FileLen
    BY <1>3, <1>4
  <2> QED BY <2>1
<1> QED
  BY ONLY <1>2, <1>5

\* What is done stays done.
LEMMA DoneStays ==
    ASSUME TypeInv, TypeInv', start + Len(executed') <= FileLen, UNCHANGED start, Len(executed) <= Len(executed'),
           NEW i, NEW j, fifo'[i] = fifo[j], SlotDone(j),
           fifo[j].after \in Nat,
           ManualAt(j) => man' = man /\ man \in Manual /\ runs[man] <= runs'[man]
    PROVE  SlotDone(i)'
<1>1. start \in Nat /\ Len(executed) \in Nat /\ Len(executed') \in Nat
  <2>1. executed' \in Seq(1..FileLen)
    BY DEF TypeInv, MarlinTypeOK
  <2> QED BY <2>1, ExecutedSeq, EngineNumbers, LenProperties
<1>2. start + Len(executed') <= FileLen /\ FileLen \in Nat
  BY EngineNumbers
<1>3. fifo[j].type = "print" => fifo[j].after <= start + Len(executed')
  BY <1>1 DEF SlotDone
<1>4. fifo[j].type = "finish" => start + Len(executed') = FileLen
  BY <1>1, <1>2 DEF SlotDone
<1>5. fifo[j].type = "manual" => runs'[man'] > 0
  <2>1. man \in Manual => runs[man] \in Nat /\ runs'[man] \in Nat
    BY DEF TypeInv, MarlinTypeOK
  <2> QED BY <2>1 DEF SlotDone, ManualAt
<1> QED
  BY <1>3, <1>4, <1>5 DEF SlotDone

\* An ok is read: it is credited to the slot after the lost ones, which leaves the FIFO with the
\* slots before it, or is lost itself.
LEMMA CreditRead ==
    ASSUME TypeInv, TypeInv', OrderInv, rx # <<>>, rx' = Tail(rx), Head(rx).kind \in {"ok", "ok T"},
           NEW d \in Nat, NEW k \in Nat, NEW e \in Nat, e + k = d + 1, CreditFor(d),
           Len(fifo') = Len(fifo) - k,
           \A i \in 1..Len(fifo') : i + k \in 1..Len(fifo) /\ fifo'[i] = fifo[i + k],
           UNCHANGED <<wire, executed, runs, start, alive>>,
           \A i \in 1..Len(fifo') : ManualAt(i + k) => man' = man /\ man \in Manual
    PROVE  CreditFor(e)'
<1>a. Len(fifo) \in Nat /\ Len(rx) \in Nat /\ Len(wire) \in Nat /\ Len(fifo') \in Nat /\ Len(rx') \in Nat /\ Len(rx') = Len(rx) - 1
  <2>1. fifo' \in Seq(Slot) /\ rx' \in Seq(Answer)
    BY DEF TypeInv, EngineInv, EngineTypeOK, MarlinTypeOK
  <2> QED BY <2>1, FifoSeq, RxSeq, WireSeq, ReadShape, LenProperties
<1>b. Len(fifo') = Len(fifo) - k
  OBVIOUS
<1>c. e + k = d + 1
  OBVIOUS
<1>1. /\ \A j \in 0..Len(rx') : j + 1 \in 1..Len(rx) /\ (Oks(j)' => Oks(j + 1)) /\ (Oks(j + 1) => Oks(j)')
      /\ Oks(1)
      /\ ErrorComing' <=> ErrorComing
  BY OksRead
<1>2. \A i \in 1..Len(rx') : i + 1 \in 1..Len(rx) /\ rx'[i] = rx[i + 1]
  BY ReadShape
<1>3. \A i \in 1..Len(fifo') : i + k \in 1..Len(fifo) /\ fifo'[i] = fifo[i + k]
  OBVIOUS
<1>4. /\ \A j \in 0..Len(rx) : Oks(j) =>
            /\ d + j <= Len(fifo)
            /\ j > 0 /\ rx[j].kind = "ok T" => PollOrTemp(d + j)
            /\ \A i \in 1..(d + j) : SlotDone(i)
      /\ ErrorComing => Blocked(d)
      /\ alive /\ ~ErrorComing => Aligned(d)
  BY DEF CreditFor, Credited
<1>p. HasPoll' => HasPoll
  BY ONLY <1>3 DEF HasPoll, IsPoll
<1>5. ASSUME NEW i \in 1..Len(fifo'), SlotDone(i + k) PROVE SlotDone(i)'
  <2>1. fifo'[i] = fifo[i + k] /\ i + k \in 1..Len(fifo)
    BY <1>3
  <2>2. fifo[i + k] \in Slot /\ FileLen \in Nat
    BY ONLY <2>1, FifoSeq, EngineNumbers, TypeInv
  <2>2a. fifo[i + k].after \in Nat
    BY ONLY <2>2 DEF Slot
  <2>3. start + Len(executed') <= FileLen /\ Len(executed) <= Len(executed')
    <3>1. executed' = executed /\ start + Len(executed) <= FileLen /\ Len(executed) \in Nat
      BY ExecutedBound, ExecutedSeq
    <3> QED BY ONLY <3>1
  <2>4. ManualAt(i + k) => man' = man /\ man \in Manual /\ runs[man] <= runs'[man]
    <3>1. runs \in [Manual -> Nat] /\ runs' = runs
      BY DEF TypeInv, MarlinTypeOK
    <3>2. man \in Manual => runs[man] <= runs'[man]
      BY ONLY <3>1
    <3>3. ManualAt(i + k) => man' = man /\ man \in Manual
      OBVIOUS
    <3> QED BY ONLY <3>2, <3>3
  <2> QED BY <1>5, <2>1, <2>2a, <2>3, <2>4, DoneStays
<1>6. Credited(e)'
  <2>1. SUFFICES ASSUME NEW j \in 0..Len(rx'), Oks(j)'
                 PROVE  /\ e + j <= Len(fifo')
                        /\ j > 0 /\ rx'[j].kind = "ok T" => PollOrTemp(e + j)'
                        /\ \A i \in 1..(e + j) : SlotDone(i)'
    BY Zenon DEF Credited
  <2>2. j + 1 \in 0..Len(rx) /\ Oks(j + 1) /\ j \in Nat
    <3>1. j + 1 \in 1..Len(rx) /\ Oks(j + 1)
      BY <1>1, <2>1
    <3>2. j + 1 \in 0..Len(rx) /\ j \in Nat
      BY ONLY <3>1, <1>a, j \in 0..Len(rx')
    <3> QED BY <3>1, <3>2
  <2>3. /\ d + (j + 1) <= Len(fifo)
        /\ j + 1 > 0 /\ rx[j + 1].kind = "ok T" => PollOrTemp(d + (j + 1))
        /\ \A i \in 1..(d + (j + 1)) : SlotDone(i)
    BY <1>4, <2>2
  <2>4. e + j <= Len(fifo') /\ e + j \in Nat /\ (e + j) + k = d + (j + 1) /\ (j > 0 => e + j \in 1..Len(fifo') /\ j \in 1..Len(rx')) /\ j + 1 > 0
    <3>0. d + (j + 1) <= Len(fifo)
      BY ONLY <2>3
    <3>1. j \in Nat /\ d + (j + 1) <= Len(fifo) /\ j <= Len(rx')
      BY ONLY <3>0, <1>a, j \in 0..Len(rx')
    <3>2. (e + j) + k = d + (j + 1) /\ e + j \in Nat /\ e + j <= Len(fifo') /\ j + 1 > 0
      BY ONLY <3>1, <1>a, <1>b, <1>c, d \in Nat, k \in Nat, e \in Nat
    <3> QED BY ONLY <3>1, <3>2, <1>a, e \in Nat
  <2>5. ASSUME j > 0, rx'[j].kind = "ok T" PROVE PollOrTemp(e + j)'
    <3>1. rx[j + 1].kind = "ok T" /\ fifo'[e + j] = fifo[d + (j + 1)]
      BY <1>2, <1>3, <2>4, <2>5
    <3>2. PollOrTemp(d + (j + 1))
      BY <2>3, <2>4, <3>1
    <3> QED BY ONLY <1>p, <3>1, <3>2 DEF PollOrTemp, TempSlot, IsPoll
  <2>6. ASSUME NEW i \in 1..(e + j) PROVE SlotDone(i)'
    <3>1. i \in 1..Len(fifo') /\ i + k \in 1..(d + (j + 1))
      BY ONLY <1>a, <2>4, i \in 1..(e + j), k \in Nat
    <3> QED BY <1>5, <2>3, <3>1
  <2> QED BY <2>4, <2>5, <2>6
<1>7. ASSUME ErrorComing' PROVE Blocked(e)'
  <2>1. PICK p \in 1..Len(fifo) : fifo[p].type = "print" /\ \A j \in 0..Len(rx) : Oks(j) => d + j < p
    BY <1>1, <1>4, <1>7 DEF Blocked
  <2>2. \A j \in 0..Len(rx') : Oks(j)' => d + (j + 1) < p
    <3>1. ASSUME NEW j \in 0..Len(rx'), Oks(j)' PROVE d + (j + 1) < p
      <4>1. j + 1 \in 1..Len(rx) /\ Oks(j + 1)
        BY <1>1, <3>1
      <4>2. j + 1 \in 0..Len(rx)
        BY ONLY <4>1, <1>a
      <4> QED BY <2>1, <4>1, <4>2
    <3> QED BY <3>1
  <2>3. d + 1 < p
    <3>1. Len(rx) >= 1 /\ 0 \in 0..Len(rx')
      BY ONLY <1>a
    <3>2. 1 \in 0..Len(rx)
      BY ONLY <3>1, <1>a
    <3> QED BY <1>1, <2>1, <3>2
  <2>4. p - k \in 1..Len(fifo') /\ (p - k) + k = p
    BY ONLY <2>3, <1>a, <1>b, <1>c, p \in 1..Len(fifo), d \in Nat, k \in Nat, e \in Nat
  <2>5. fifo'[p - k].type = "print"
    BY <1>3, <2>1, <2>4
  <2>6. ASSUME NEW j \in 0..Len(rx'), Oks(j)' PROVE e + j < p - k
    <3>1. d + (j + 1) < p
      BY <2>2, <2>6
    <3> QED BY ONLY <3>1, <1>a, <1>c, p \in 1..Len(fifo), d \in Nat, k \in Nat, e \in Nat, j \in 0..Len(rx')
  <2> QED BY <2>4, <2>5, <2>6, Zenon DEF Blocked
<1>8. ASSUME alive', ~ErrorComing' PROVE Aligned(e)'
  <2>1. /\ d + Len(rx) + Len(wire) = Len(fifo)
        /\ \A i \in 1..Len(wire) : Matches(d + Len(rx) + i, i)
    BY <1>1, <1>4, <1>8 DEF Aligned
  <2>2. e + Len(rx') + Len(wire') = Len(fifo')
    <3>1. Len(wire') = Len(wire)
      OBVIOUS
    <3> QED BY ONLY <3>1, <2>1, <1>a, <1>b, <1>c, d \in Nat, k \in Nat, e \in Nat
  <2>3. ASSUME NEW i \in 1..Len(wire) PROVE Matches(e + Len(rx) + i, i)'
    <3>0. e + Len(rx') + i \in Nat
      BY ONLY <1>a, e \in Nat, i \in 1..Len(wire)
    <3>1. PICK s \in Nat : s = e + Len(rx') + i
      BY <3>0
    <3>2. s \in 1..Len(fifo') /\ s + k = d + Len(rx) + i
      BY ONLY <3>1, <2>1, <1>a, <1>b, <1>c, d \in Nat, k \in Nat, e \in Nat, i \in 1..Len(wire)
    <3>3. Matches(s + k, i) /\ fifo'[s] = fifo[s + k] /\ (ManualAt(s + k) => man' = man)
      BY <1>3, <2>1, <3>2
    <3>4. wire' = wire
      OBVIOUS
    <3>5. Matches(s, i)'
      BY ONLY <1>p, <3>3, <3>4 DEF Matches, ManualAt, TempSlot
    <3> QED BY ONLY <3>1, <3>5 DEF Matches, TempSlot
  <2>4. \A i \in 1..Len(wire') : Matches(e + Len(rx) + i, i)'
    BY <2>3
  <2> QED BY ONLY <2>2, <2>4 DEF Aligned
<1> QED
  BY <1>6, <1>7, <1>8 DEF CreditFor

\* What the printer has done is still done when slots are added.
LEMMA StillDone ==
    ASSUME TypeInv, OrderInv, UNCHANGED <<start, executed, man, runs>>, NEW i \in 1..Len(fifo), fifo'[i] = fifo[i], SlotDone(i)
    PROVE  SlotDone(i)'
BY DEF SlotDone

\* No poll joins a line whose temperature may still come, and no such line joins a poll.
PollsApart(slot) ==
    /\ slot.type = "poll" => (rx = <<>> /\ (alive => wire = <<>>)) \/ \A i \in 1..Len(fifo) : ~TempSlot(i)
    /\ slot.type = "print" /\ slot.after \in TempLines => ~HasPoll

\* A command goes out, on the wire and in the FIFO.
LEMMA CreditSend ==
    ASSUME TypeInv, OrderInv, NEW msg, NEW slot, Send(msg, slot), PollsApart(slot),
           slot.type = msg.type, slot.n = msg.n, slot.after = msg.line, msg.type = "manual" => msg.cmd = man,
           UNCHANGED <<man, start>>, NEW d \in Nat, CreditFor(d)
    PROVE  CreditFor(d)'
<1>a. Len(fifo) \in Nat /\ Len(rx) \in Nat /\ Len(wire) \in Nat
  BY FifoSeq, RxSeq, WireSeq
<1>1. /\ Len(wire') = Len(wire) + 1 /\ wire'[Len(wire) + 1] = msg
      /\ \A i \in 1..Len(wire) : wire'[i] = wire[i]
      /\ Len(fifo') = Len(fifo) + 1 /\ fifo'[Len(fifo) + 1] = slot
      /\ \A i \in 1..Len(fifo) : fifo'[i] = fifo[i]
      /\ UNCHANGED <<rx, executed, runs, alive>>
  BY SentShape
<1>2. UNCHANGED <<man, start>>
  OBVIOUS
<1>p. HasPoll' => HasPoll \/ slot.type = "poll"
  <2>1. \A i \in 1..Len(fifo') : i \in 1..Len(fifo) \/ i = Len(fifo) + 1
    <3>1. Len(fifo') = Len(fifo) + 1
      BY <1>1
    <3> QED BY ONLY <1>a, <3>1
  <2> QED BY ONLY <1>1, <2>1 DEF HasPoll, IsPoll
<1>t. ASSUME NEW i \in 1..Len(fifo), TempSlot(i), slot.type = "poll" PROVE rx = <<>> /\ (alive => wire = <<>>)
  BY <1>t DEF PollsApart
<1>3. /\ \A j \in 0..Len(rx) : Oks(j) =>
            /\ d + j <= Len(fifo)
            /\ j > 0 /\ rx[j].kind = "ok T" => PollOrTemp(d + j)
            /\ \A i \in 1..(d + j) : SlotDone(i)
      /\ ErrorComing => Blocked(d)
      /\ alive /\ ~ErrorComing => Aligned(d)
  BY DEF CreditFor, Credited
<1>4. (ErrorComing' <=> ErrorComing) /\ \A j \in 0..Len(rx) : Oks(j)' <=> Oks(j)
  BY ONLY <1>1 DEF ErrorComing, Oks
<1>5. Credited(d)'
  <2>1. SUFFICES ASSUME NEW j \in 0..Len(rx), Oks(j)
                 PROVE  /\ d + j <= Len(fifo')
                        /\ j > 0 /\ rx[j].kind = "ok T" => PollOrTemp(d + j)'
                        /\ \A i \in 1..(d + j) : SlotDone(i)'
    <3>1. rx' = rx /\ \A j \in 0..Len(rx) : Oks(j)' <=> Oks(j)
      BY <1>1, <1>4
    <3> QED BY <2>1, <3>1, Zenon DEF Credited
  <2>2. /\ d + j <= Len(fifo)
        /\ j > 0 /\ rx[j].kind = "ok T" => PollOrTemp(d + j)
        /\ \A i \in 1..(d + j) : SlotDone(i)
    BY <1>3, <2>1
  <2>3. d + j <= Len(fifo') /\ (j > 0 => d + j \in 1..Len(fifo)) /\ \A i \in 1..(d + j) : i \in 1..Len(fifo)
    <3>1. Len(fifo') = Len(fifo) + 1 /\ d + j <= Len(fifo)
      BY <1>1, <2>2
    <3> QED BY ONLY <3>1, <1>a, j \in 0..Len(rx), d \in Nat
  <2>4. \A i \in 1..(d + j) : SlotDone(i)'
    BY <1>1, <1>2, <2>2, <2>3, StillDone
  <2>5. ASSUME j > 0, rx[j].kind = "ok T" PROVE PollOrTemp(d + j)'
    <3>1. PollOrTemp(d + j) /\ d + j \in 1..Len(fifo)
      BY <2>2, <2>3, <2>5
    <3>4. fifo'[d + j] = fifo[d + j]
      <4>1. \A i \in 1..Len(fifo) : fifo'[i] = fifo[i]
        BY <1>1
      <4> QED BY ONLY <3>1, <4>1
    <3>2. rx # <<>>
      <4>0. j > 0
        BY <2>5
      <4>1. Len(rx) # 0
        BY ONLY <1>a, <4>0, j \in 0..Len(rx)
      <4> QED BY <4>1
    <3>3. TempSlot(d + j) => slot.type # "poll"
      BY <1>t, <3>1, <3>2
    <3> QED BY ONLY <1>p, <3>1, <3>3, <3>4 DEF PollOrTemp, TempSlot, IsPoll
  <2> QED BY ONLY <1>1, <2>2, <2>3, <2>4, <2>5
<1>6. ErrorComing => Blocked(d)'
  <2>1. SUFFICES ASSUME ErrorComing PROVE Blocked(d)'
    OBVIOUS
  <2>2. PICK p \in 1..Len(fifo) : fifo[p].type = "print" /\ \A j \in 0..Len(rx) : Oks(j) => d + j < p
    BY <1>3, <2>1 DEF Blocked
  <2>3. p \in 1..Len(fifo')
    BY ONLY <1>1, <1>a, p \in 1..Len(fifo)
  <2> QED BY ONLY <1>1, <1>4, <2>2, <2>3 DEF Blocked
<1>7. ASSUME alive, ~ErrorComing PROVE Aligned(d)'
  <2>1. /\ d + Len(rx) + Len(wire) = Len(fifo)
        /\ \A i \in 1..Len(wire) : Matches(d + Len(rx) + i, i)
    BY <1>3, <1>7 DEF Aligned
  <2>2. d + Len(rx') + Len(wire') = Len(fifo')
    <3>1. Len(rx') = Len(rx) /\ Len(fifo') = Len(fifo) + 1 /\ Len(wire') = Len(wire) + 1
      BY <1>1
    <3> QED BY ONLY <3>1, <2>1, <1>a, d \in Nat
  <2>3. ASSUME NEW i \in 1..Len(wire) PROVE Matches(d + Len(rx) + i, i)'
    <3>1. Matches(d + Len(rx) + i, i) /\ d + Len(rx) + i \in 1..Len(fifo)
      <4>1. d + Len(rx) + i \in 1..Len(fifo)
        BY ONLY <2>1, <1>a, d \in Nat, i \in 1..Len(wire)
      <4> QED BY <2>1, <4>1
    <3>2. wire # <<>>
      <4>1. Len(wire) # 0
        BY ONLY <1>a, i \in 1..Len(wire)
      <4> QED BY <4>1
    <3>3. TempSlot(d + Len(rx) + i) => slot.type # "poll"
      BY <1>7, <1>t, <3>1, <3>2
    <3> QED BY ONLY <1>1, <1>2, <1>p, <3>1, <3>3 DEF Matches, TempSlot
  <2>4. ASSUME NEW i \in 1..Len(wire'), i \notin 1..Len(wire) PROVE Matches(d + Len(rx) + i, i)'
    <3>1. i = Len(wire) + 1 /\ d + Len(rx) + i = Len(fifo) + 1
      <4>1. Len(wire') = Len(wire) + 1 /\ i \notin 1..Len(wire)
        BY <1>1, <2>4
      <4>2. i = Len(wire) + 1
        BY ONLY <4>1, <1>a, i \in 1..Len(wire')
      <4> QED BY ONLY <4>2, <2>1, <1>a, d \in Nat
    <3>2. wire'[i] = msg /\ fifo'[d + Len(rx) + i] = slot /\ Len(rx') = Len(rx)
      BY ONLY <1>1, <3>1
    <3>3. slot.type = "print" /\ slot.after \in TempLines => ~HasPoll'
      BY <1>p DEF PollsApart
    <3> QED BY <1>2, <3>2, <3>3 DEF Matches, TempSlot
  <2> QED BY ONLY <2>2, <2>3, <2>4 DEF Aligned
<1> QED
  BY <1>1, <1>4, <1>5, <1>6, <1>7 DEF CreditFor

\* Nothing moves; the user command changes only while none is in flight.
LEMMA CreditStays ==
    ASSUME SlotsInv, UNCHANGED <<fifo, rx, wire, executed, runs, start, alive>>, UNCHANGED man \/ ~manSent \/ man \notin Manual,
           Len(fifo) \in Nat, Len(rx) \in Nat, Len(wire) \in Nat, NEW d \in Nat, CreditFor(d)
    PROVE  CreditFor(d)'
<1>1. \A i \in 1..Len(fifo) : ManualAt(i) => UNCHANGED man
  BY DEF SlotsInv
<1>2. UNCHANGED <<fifo, rx, wire, executed, runs, start, alive>>
  OBVIOUS
<1>3. /\ \A j \in 0..Len(rx) : Oks(j) =>
            /\ d + j <= Len(fifo)
            /\ j > 0 /\ rx[j].kind = "ok T" => PollOrTemp(d + j)
            /\ \A i \in 1..(d + j) : SlotDone(i)
      /\ ErrorComing => Blocked(d)
      /\ alive /\ ~ErrorComing => Aligned(d)
  BY DEF CreditFor, Credited
<1>4. (ErrorComing' <=> ErrorComing) /\ \A j \in 0..Len(rx) : Oks(j)' <=> Oks(j)
  BY ONLY <1>2 DEF ErrorComing, Oks
<1>p. (HasPoll' <=> HasPoll) /\ \A i : PollOrTemp(i)' <=> PollOrTemp(i)
  BY ONLY <1>2 DEF HasPoll, PollOrTemp, TempSlot
<1>5. \A i \in 1..Len(fifo) : SlotDone(i) => SlotDone(i)'
  BY ONLY <1>1, <1>2 DEF SlotDone, ManualAt
<1>6. ASSUME NEW j \in 0..Len(rx), d + j <= Len(fifo), NEW i \in 1..(d + j) PROVE i \in 1..Len(fifo)
  BY ONLY <1>6, d \in Nat, j \in 0..Len(rx), Len(rx) \in Nat, Len(fifo) \in Nat, i \in 1..(d + j)
<1>7. Credited(d)'
  BY ONLY <1>2, <1>3, <1>4, <1>5, <1>6, <1>p DEF Credited
<1>8. ErrorComing => Blocked(d)'
  BY ONLY <1>2, <1>3, <1>4 DEF Blocked
<1>9. ASSUME alive, ~ErrorComing PROVE Aligned(d)'
  <2>1. /\ d + Len(rx) + Len(wire) = Len(fifo)
        /\ \A i \in 1..Len(wire) : Matches(d + Len(rx) + i, i)
    BY <1>3, <1>9 DEF Aligned
  <2>2. \A i \in 1..Len(wire) : d + Len(rx) + i \in 1..Len(fifo)
    BY ONLY <2>1, d \in Nat, Len(rx) \in Nat, Len(wire) \in Nat, Len(fifo) \in Nat
  <2>3. ASSUME NEW i \in 1..Len(wire) PROVE Matches(d + Len(rx) + i, i)'
    <3>1. Matches(d + Len(rx) + i, i) /\ (ManualAt(d + Len(rx) + i) => UNCHANGED man)
      BY <1>1, <2>1, <2>2
    <3> QED BY ONLY <1>2, <1>p, <3>1 DEF Matches, ManualAt, TempSlot
  <2> QED BY ONLY <1>2, <2>1, <2>3 DEF Aligned
<1> QED
  BY <1>2, <1>4, <1>7, <1>8, <1>9 DEF CreditFor

\* What the printer does: it answers, and what it does not throw away it carries out.
LEMMA CreditGrow ==
    ASSUME TypeInv, TypeInv', start + Len(executed') <= FileLen, NEW d \in Nat, Credited(d),
           Len(rx) <= Len(rx'), \A i \in 1..Len(rx) : rx'[i] = rx[i],
           UNCHANGED <<fifo, start, man>>, Len(executed) <= Len(executed'), \A c \in Manual : runs[c] <= runs'[c],
           \A i \in 1..Len(fifo) : ManualAt(i) => man \in Manual,
           NEW s \in Nat,
           \A j \in 0..Len(rx') : Oks(j)' => j <= Len(rx) \/ (j = Len(rx) + 1 /\ s = d + j),
           s # 0 => /\ s <= Len(fifo) /\ SlotDone(s)'
                    /\ rx'[Len(rx) + 1].kind = "ok T" => PollOrTemp(s)
    PROVE  Credited(d)'
<1>a. Len(fifo) \in Nat /\ Len(rx) \in Nat /\ Len(rx') \in Nat
  <2>1. rx' \in Seq(Answer)
    BY DEF TypeInv, MarlinTypeOK
  <2> QED BY <2>1, FifoSeq, RxSeq, LenProperties
<1>1. \A j \in 0..Len(rx) : Oks(j) =>
            /\ d + j <= Len(fifo)
            /\ j > 0 /\ rx[j].kind = "ok T" => PollOrTemp(d + j)
            /\ \A i \in 1..(d + j) : SlotDone(i)
  BY DEF Credited
<1>2. ASSUME NEW i \in 1..Len(fifo), SlotDone(i) PROVE SlotDone(i)'
  <2>0. fifo[i] \in Slot /\ FileLen \in Nat
    BY FifoSeq, EngineNumbers
  <2>1. fifo' = fifo /\ start' = start /\ man' = man /\ fifo[i].after \in Nat
    <3>1. fifo[i].after \in Nat
      BY ONLY <2>0 DEF Slot
    <3> QED BY <3>1
  <2>2. start + Len(executed') <= FileLen
    OBVIOUS
  <2>3. ManualAt(i) => man' = man /\ man \in Manual /\ runs[man] <= runs'[man]
    BY <2>1
  <2>4. fifo'[i] = fifo[i]
    BY <2>1
  <2> QED BY <1>2, <2>1, <2>2, <2>3, <2>4, DoneStays
<1>3. SUFFICES ASSUME NEW j \in 0..Len(rx'), Oks(j)'
               PROVE  /\ d + j <= Len(fifo)
                      /\ j > 0 /\ rx'[j].kind = "ok T" => PollOrTemp(d + j)
                      /\ \A i \in 1..(d + j) : SlotDone(i)'
  <2>1. fifo' = fifo
    OBVIOUS
  <2>2. \A i : PollOrTemp(i)' <=> PollOrTemp(i)
    BY ONLY <2>1 DEF HasPoll, PollOrTemp, TempSlot
  <2> QED BY <1>3, <2>1, <2>2, Zenon DEF Credited
<1>4. CASE j <= Len(rx)
  <2>1. j \in 0..Len(rx) /\ (j > 0 => j \in 1..Len(rx))
    BY ONLY <1>a, <1>4, j \in 0..Len(rx')
  <2>2. Oks(j)
    <3>1. \A i \in 1..j : i \in 1..Len(rx)
      BY ONLY <1>a, <2>1
    <3> QED BY <1>3, <3>1 DEF Oks
  <2>3. /\ d + j <= Len(fifo)
        /\ j > 0 /\ rx[j].kind = "ok T" => PollOrTemp(d + j)
        /\ \A i \in 1..(d + j) : SlotDone(i)
    BY <1>1, <2>1, <2>2
  <2>4. \A i \in 1..(d + j) : i \in 1..Len(fifo)
    <3>1. d + j <= Len(fifo)
      BY <2>3
    <3> QED BY ONLY <3>1, <1>a, d \in Nat, j \in 0..Len(rx')
  <2> QED BY <1>2, <2>1, <2>3, <2>4
<1>5. CASE j > Len(rx)
  <2>1. j = Len(rx) + 1 /\ s = d + j /\ s # 0 /\ Len(rx) \in 0..Len(rx)
    <3>1. j <= Len(rx) \/ (j = Len(rx) + 1 /\ s = d + j)
      BY <1>3
    <3> QED BY ONLY <3>1, <1>5, <1>a, d \in Nat, j \in 0..Len(rx')
  <2>2. Oks(Len(rx))
    <3>1. \A i \in 1..Len(rx) : i \in 1..j
      BY ONLY <1>a, <2>1
    <3> QED BY <1>3, <3>1 DEF Oks
  <2>3. \A i \in 1..(d + Len(rx)) : SlotDone(i) /\ i \in 1..Len(fifo)
    <3>1. d + Len(rx) <= Len(fifo) /\ \A i \in 1..(d + Len(rx)) : SlotDone(i)
      BY <1>1, <2>1, <2>2
    <3> QED BY ONLY <3>1, <1>a, d \in Nat
  <2>4. s <= Len(fifo) /\ SlotDone(s)' /\ (rx'[Len(rx) + 1].kind = "ok T" => PollOrTemp(s))
    BY <2>1
  <2>5. ASSUME NEW i \in 1..(d + j) PROVE SlotDone(i)'
    <3>1. i \in 1..(d + Len(rx)) \/ i = s
      BY ONLY <1>a, <2>1, d \in Nat, i \in 1..(d + j)
    <3> QED BY <1>2, <2>3, <2>4, <3>1
  <2> QED BY <2>1, <2>4, <2>5
<1>6. j <= Len(rx) \/ j > Len(rx)
  BY ONLY <1>a, j \in 0..Len(rx')
<1> QED
  BY <1>4, <1>5, <1>6

\* The printer carries out the oldest command, or throws it away.
CarriedOut ==
    /\ Len(rx') = Len(rx) + 1
    /\ rx'[Len(rx) + 1].kind \in {"ok", "ok T"}
    /\ rx'[Len(rx) + 1].kind = "ok T" =>
         Head(wire).type = "poll" \/ (Head(wire).type = "print" /\ Head(wire).line \in TempLines)
    /\ IF Head(wire).type = "print" /\ Head(wire).line # 0
         THEN Head(wire).n = lastN + 1 /\ Len(executed') = Len(executed) + 1
         ELSE UNCHANGED executed
    /\ Head(wire).type = "manual" => runs' = [runs EXCEPT ![Head(wire).cmd] = @ + 1]
    /\ Head(wire).type # "manual" => UNCHANGED runs

ThrownAway ==
    /\ Head(wire).type = "print"
    /\ UNCHANGED <<executed, runs>>
    /\ Len(rx) < Len(rx')
    /\ rx'[Len(rx) + 1].kind = "error"
    /\ \A i \in 1..Len(rx') : i > Len(rx) /\ rx'[i].kind = "error" => rx'[i].last = lastN /\ rx'[i].resend \in {0, lastN + 1}

LEMMA Successor ==
    ASSUME NEW l \in Nat
    PROVE  /\ l + 1 \in 1..(l + 1) /\ ~(l + 1 <= l) /\ (l + 1) - l = 1 /\ l + 1 > l /\ l + 1 \in Nat /\ l <= l + 1
           /\ \A i \in 1..l : i \in 1..(l + 1) /\ i <= l
OBVIOUS

LEMMA AnswerOk ==
    ASSUME TypeInv, NEW kind \in {"ok", "ok T"}, wire # <<>>, Reply(<<Plain(kind)>>)
    PROVE  /\ Len(rx') = Len(rx) + 1 /\ rx'[Len(rx) + 1].kind = kind
           /\ \A i \in 1..Len(rx) : rx'[i] = rx[i]
<1>1. rx \in Seq(Answer) /\ Len(rx) \in Nat
  BY RxSeq
<1>2. Plain(kind) \in Answer /\ <<Plain(kind)>> \in Seq(Answer) /\ Len(<<Plain(kind)>>) = 1 /\ <<Plain(kind)>>[1] = Plain(kind)
  BY AnswersTyped
<1>4. Plain(kind).kind = kind
  BY DEF Plain
<1> DEFINE t == <<Plain(kind)>>
<1>3. rx' = rx \o t /\ t \in Seq(Answer) /\ Len(t) = 1 /\ t[1] = Plain(kind)
  BY <1>2 DEF Reply
<1> HIDE DEF t
<1>5. /\ Len(rx') = Len(rx) + 1
      /\ \A i \in 1..(Len(rx) + 1) : rx'[i] = IF i <= Len(rx) THEN rx[i] ELSE t[i - Len(rx)]
  <2>1. rx \in Seq(Answer) /\ t \in Seq(Answer)
    BY <1>1, <1>3
  <2>2. /\ Len(rx \o t) = Len(rx) + Len(t)
        /\ \A i \in 1..(Len(rx) + Len(t)) : (rx \o t)[i] = IF i <= Len(rx) THEN rx[i] ELSE t[i - Len(rx)]
    BY ONLY <2>1, ConcatProperties, Zenon
  <2> QED BY ONLY <1>3, <2>2, Zenon
<1>n. Len(rx) \in Nat
  BY <1>1
<1>6. /\ Len(rx) + 1 \in 1..(Len(rx) + 1) /\ ~(Len(rx) + 1 <= Len(rx)) /\ (Len(rx) + 1) - Len(rx) = 1
      /\ \A i \in 1..Len(rx) : i \in 1..(Len(rx) + 1) /\ i <= Len(rx)
  BY ONLY <1>n, Successor
<1>7. rx'[Len(rx) + 1] = Plain(kind)
  BY ONLY <1>3, <1>5, <1>6
<1> QED
  BY <1>4, <1>5, <1>6, <1>7

LEMMA AnswerError ==
    ASSUME TypeInv, wire # <<>>, ResendError
    PROVE  /\ Len(rx) < Len(rx') /\ Len(rx') \in Nat /\ rx'[Len(rx) + 1].kind = "error"
           /\ \A i \in 1..Len(rx) : rx'[i] = rx[i]
           /\ \A i \in 1..Len(rx') : i > Len(rx) /\ rx'[i].kind = "error" => rx'[i].last = lastN /\ rx'[i].resend \in {0, lastN + 1}
<1>1. PICK withResend \in BOOLEAN, withOk \in BOOLEAN :
         Reply(<<Report(lastN, IF withResend THEN lastN + 1 ELSE 0)>>
               \o (IF withOk THEN <<Plain("ok")>> ELSE <<>>))
  BY DEF ResendError
<1>2. PICK r \in {0, lastN + 1} : Reply(<<Report(lastN, r)>> \o (IF withOk THEN <<Plain("ok")>> ELSE <<>>))
  BY <1>1
<1>3. lastN \in Nat /\ r \in Nat /\ rx \in Seq(Answer) /\ Len(rx) \in Nat
  BY RxSeq DEF TypeInv, MarlinTypeOK
<1>4. /\ <<Report(lastN, r)>> \in Seq(Answer) /\ Len(<<Report(lastN, r)>>) = 1 /\ <<Report(lastN, r)>>[1] = Report(lastN, r)
      /\ <<Plain("ok")>> \in Seq(Answer) /\ Len(<<Plain("ok")>>) = 1 /\ <<Plain("ok")>>[1] = Plain("ok")
  BY <1>3, AnswersTyped
<1>5. PICK t \in Seq(Answer) : t \in {<<>>, <<Plain("ok")>>} /\ rx' = rx \o (<<Report(lastN, r)>> \o t)
  BY <1>2, <1>4, EmptySeq DEF Reply
<1>6. Len(t) \in {0, 1} /\ (Len(t) = 1 => t[1] = Plain("ok"))
  BY <1>4, <1>5
<1> DEFINE u == <<Report(lastN, r)>> \o t
<1>7. u \in Seq(Answer) /\ Len(u) = 1 + Len(t) /\ \A i \in 1..(1 + Len(t)) : u[i] = IF i <= 1 THEN <<Report(lastN, r)>>[i] ELSE t[i - 1]
  BY <1>4, <1>5, ConcatProperties
<1>8. u[1] = Report(lastN, r) /\ (Len(t) = 1 => u[2] = Plain("ok"))
  BY <1>4, <1>6, <1>7
<1>9. rx' = rx \o u
  BY <1>5
<1> HIDE DEF u
<1>10. /\ Len(rx') = Len(rx) + Len(u)
       /\ \A i \in 1..(Len(rx) + Len(u)) : rx'[i] = IF i <= Len(rx) THEN rx[i] ELSE u[i - Len(rx)]
  BY ONLY <1>3, <1>7, <1>9, ConcatProperties
<1>11. Len(u) \in {1, 2} /\ (Len(u) = 2 => u[2] = Plain("ok"))
  BY ONLY <1>6, <1>7, <1>8
<1>12. \A i \in 1..Len(rx) : rx'[i] = rx[i]
  <2>1. \A i \in 1..Len(rx) : i \in 1..(Len(rx) + Len(u)) /\ i <= Len(rx)
    BY ONLY <1>3, <1>11
  <2> QED BY ONLY <1>10, <2>1
<1>13. \A i \in 1..Len(rx') : i > Len(rx) => rx'[i] = u[i - Len(rx)] /\ i - Len(rx) \in {1, 2} /\ (i - Len(rx) = 2 => Len(u) = 2)
  BY ONLY <1>3, <1>10, <1>11
<1>14. Len(rx) < Len(rx') /\ Len(rx') \in Nat /\ Len(rx) + 1 \in 1..Len(rx') /\ (Len(rx) + 1) - Len(rx) = 1
  <2>1. Len(rx) \in Nat /\ Len(u) \in {1, 2} /\ Len(rx') = Len(rx) + Len(u)
    BY <1>3, <1>10, <1>11
  <2>2. \A l, v \in Nat : v \in {1, 2} => l < l + v /\ l + v \in Nat /\ l + 1 \in 1..(l + v) /\ (l + 1) - l = 1
    BY ONLY TRUE
  <2> QED BY ONLY <2>1, <2>2
<1>15. Report(lastN, r).kind = "error" /\ Report(lastN, r).last = lastN /\ Report(lastN, r).resend = r /\ Plain("ok").kind = "ok"
  BY DEF Report, Plain
<1>16. rx'[Len(rx) + 1] = u[1]
  <2>1. Len(rx) + 1 > Len(rx)
    BY ONLY <1>3
  <2> QED BY ONLY <1>13, <1>14, <2>1
<1>17. ASSUME NEW i \in 1..Len(rx'), i > Len(rx), rx'[i].kind = "error" PROVE rx'[i].last = lastN /\ rx'[i].resend \in {0, lastN + 1}
  BY <1>8, <1>11, <1>13, <1>15, <1>17
<1> QED
  BY <1>8, <1>12, <1>14, <1>15, <1>16, <1>17

LEMMA LineOfMessage ==
    ASSUME FileLen \in Nat, NEW m \in Message, m.line # 0
    PROVE  m.line \in 1..FileLen
BY DEF Message

LEMMA PrinterShape ==
    ASSUME TypeInv, Printer
    PROVE  /\ alive /\ wire # <<>> /\ wire' = Tail(wire) /\ UNCHANGED engineVars /\ UNCHANGED alive
           /\ Len(rx) <= Len(rx') /\ Len(rx') \in Nat /\ \A i \in 1..Len(rx) : rx'[i] = rx[i]
           /\ CarriedOut \/ ThrownAway
<1>0. alive /\ wire # <<>> /\ wire' = Tail(wire) /\ UNCHANGED engineVars /\ UNCHANGED alive
  BY DEF Printer, MarlinStep, RejectDamaged, RejectOutOfSequence, ExecuteM110, ExecuteLine, ExecuteUnnumbered,
         Reading, Reply, ResendError
<1>a. Len(rx) \in Nat /\ executed \in Seq(1..FileLen)
  BY RxSeq, ExecutedSeq
<1>1. CASE RejectDamaged \/ RejectOutOfSequence
  <2>1. ResendError /\ Head(wire).type = "print" /\ UNCHANGED <<executed, runs>>
    BY <1>1 DEF RejectDamaged, RejectOutOfSequence, Reading
  <2>2. /\ Len(rx) < Len(rx') /\ Len(rx') \in Nat /\ rx'[Len(rx) + 1].kind = "error"
        /\ \A i \in 1..Len(rx) : rx'[i] = rx[i]
        /\ \A i \in 1..Len(rx') : i > Len(rx) /\ rx'[i].kind = "error" => rx'[i].last = lastN /\ rx'[i].resend \in {0, lastN + 1}
    BY <1>0, <2>1, AnswerError
  <2>3. Len(rx) <= Len(rx')
    BY ONLY <2>2, <1>a
  <2> QED BY <1>0, <2>1, <2>2, <2>3 DEF ThrownAway
<1>2. CASE ExecuteM110 \/ ExecuteLine
  <2>1. Head(wire).type = "print" /\ UNCHANGED runs
    BY <1>2 DEF ExecuteM110, ExecuteLine, Reading
  <2>k. PICK kind \in {"ok", "ok T"} : Reply(<<Plain(kind)>>) /\ (kind = "ok T" => Head(wire).line \in TempLines)
    BY <1>2 DEF ExecuteM110, ExecuteLine, AnswerOf
  <2>2. IF Head(wire).line # 0 THEN Head(wire).n = lastN + 1 /\ Len(executed') = Len(executed) + 1 ELSE UNCHANGED executed
    <3>1. CASE ExecuteM110
      BY <3>1 DEF ExecuteM110
    <3>2. CASE ExecuteLine
      <4>1. Head(wire).line # 0 /\ Head(wire).n = lastN + 1 /\ executed' = Append(executed, Head(wire).line)
        BY <3>2 DEF ExecuteLine, InSequence
      <4>2. Len(executed') = Len(executed) + 1
        <5>0. FileLen \in Nat /\ wire \in Seq(Message) /\ wire # <<>>
          BY <1>0, WireSeq, EngineNumbers
        <5>1. Head(wire) \in Message /\ FileLen \in Nat
          BY ONLY <5>0, HeadTailProperties
        <5>2. Head(wire).line \in 1..FileLen
          BY <4>1, <5>1, LineOfMessage
        <5>3. executed \in Seq(1..FileLen)
          BY <1>a
        <5>4. Len(Append(executed, Head(wire).line)) = Len(executed) + 1
          BY ONLY <5>2, <5>3, AppendProperties
        <5> QED BY ONLY <4>1, <5>4
      <4> QED BY <4>1, <4>2
    <3> QED BY <1>2, <3>1, <3>2
  <2>3. Len(rx') = Len(rx) + 1 /\ rx'[Len(rx) + 1].kind = kind /\ \A i \in 1..Len(rx) : rx'[i] = rx[i]
    BY <1>0, <2>k, AnswerOk
  <2>4. Len(rx) <= Len(rx') /\ Len(rx') \in Nat
    <3>1. Len(rx) \in Nat /\ Len(rx') = Len(rx) + 1
      BY <1>a, <2>3
    <3> QED BY ONLY <3>1, Successor
  <2> QED BY <1>0, <2>1, <2>2, <2>3, <2>4, <2>k DEF CarriedOut
<1>3. CASE ExecuteUnnumbered
  <2>1. PICK kind \in {"ok", "ok T"} : Reply(<<Plain(kind)>>) /\ (kind = "ok T" => Head(wire).type = "poll")
    BY <1>3 DEF ExecuteUnnumbered, Reading
  <2>2. Head(wire).type # "print" /\ UNCHANGED executed
    BY <1>3 DEF ExecuteUnnumbered, Reading
  <2>3. /\ Head(wire).type = "manual" => runs' = [runs EXCEPT ![Head(wire).cmd] = @ + 1]
        /\ Head(wire).type # "manual" => UNCHANGED runs
    BY <1>3 DEF ExecuteUnnumbered, Reading
  <2>4. Len(rx') = Len(rx) + 1 /\ rx'[Len(rx) + 1].kind = kind /\ \A i \in 1..Len(rx) : rx'[i] = rx[i]
    BY <1>0, <2>1, AnswerOk
  <2>5. Len(rx) <= Len(rx') /\ Len(rx') \in Nat
    <3>1. Len(rx) \in Nat /\ Len(rx') = Len(rx) + 1
      BY <1>a, <2>4
    <3> QED BY ONLY <3>1, Successor
  <2> QED BY <1>0, <2>1, <2>2, <2>3, <2>4, <2>5 DEF CarriedOut
<1> QED
  BY <1>1, <1>2, <1>3 DEF Printer, MarlinStep

\* What the slot of the oldest command on the wire stands for is done once that command is.
LEMMA HeadDone ==
    ASSUME TypeInv, OrderInv, SlotsInv, alive, wire # <<>>, CarriedOut, UNCHANGED engineVars,
           NEW s \in 1..Len(fifo), Matches(s, 1),
           Head(wire).type = "finish" => start + Len(executed) = FileLen
    PROVE  SlotDone(s)' /\ (rx'[Len(rx) + 1].kind = "ok T" => PollOrTemp(s))
<1>1. Head(wire) = wire[1] /\ 1 \in 1..Len(wire)
  <2>1. wire \in Seq(Message)
    BY WireSeq
  <2> QED BY <2>1, HeadTailProperties, LenProperties, EmptySeq
<1>2. fifo[s].type = Head(wire).type /\ fifo[s].after = Head(wire).line /\ (Head(wire).type = "manual" => Head(wire).cmd = man)
  BY <1>1 DEF Matches
<1>3. fifo' = fifo /\ start' = start /\ man' = man
  BY DEF engineVars, lineVars, manVars
<1>n. start \in Nat /\ Len(executed) \in Nat
  BY EngineNumbers, ExecutedSeq
<1>4. ASSUME fifo[s].type = "print" PROVE fifo[s].after <= start + Len(executed')
  <2>1. CASE Head(wire).line = 0
    <3>1. UNCHANGED executed /\ fifo[s].after = 0
      BY <1>2, <2>1 DEF CarriedOut
    <3> QED BY <1>n, <3>1
  <2>2. CASE Head(wire).line # 0
    <3>1. Head(wire).n = lastN + 1 /\ Len(executed') = Len(executed) + 1
      BY <1>2, <1>4, <2>2 DEF CarriedOut
    <3>2. lastN = Len(executed)
      BY DEF OrderInv, CountInOrder
    <3>3. Head(wire).line = start + Head(wire).n
      BY <1>1, <1>2, <1>4, <2>2 DEF OrderInv, WireInOrder, NumberedAs, IsM110
    <3> QED BY ONLY <1>2, <1>n, <3>1, <3>2, <3>3
  <2> QED BY <2>1, <2>2
<1>5. ASSUME fifo[s].type = "finish" PROVE start + Len(executed') = FileLen
  <2>1. UNCHANGED executed
    BY <1>2, <1>5 DEF CarriedOut
  <2> QED BY <1>2, <1>5, <2>1
<1>6. ASSUME fifo[s].type = "manual" PROVE runs'[man] > 0
  <2>1. man \in Manual
    BY <1>6 DEF SlotsInv, ManualAt
  <2>2. runs' = [runs EXCEPT ![man] = @ + 1] /\ runs \in [Manual -> Nat]
    BY <1>2, <1>6 DEF CarriedOut, TypeInv, MarlinTypeOK
  <2> QED BY ONLY <2>1, <2>2
<1>7. SlotDone(s)'
  BY ONLY <1>3, <1>4, <1>5, <1>6 DEF SlotDone
<1>8. rx'[Len(rx) + 1].kind = "ok T" => PollOrTemp(s)
  <2>1. TempSlot(s) => ~HasPoll
    BY DEF Matches
  <2> QED BY <1>2, <2>1 DEF CarriedOut, PollOrTemp, TempSlot, IsPoll
<1> QED
  BY <1>7, <1>8

LEMMA RunsGrow ==
    ASSUME TypeInv, CarriedOut \/ ThrownAway
    PROVE  Len(executed) <= Len(executed') /\ \A c \in Manual : runs[c] <= runs'[c]
<1>1. Len(executed) \in Nat /\ runs \in [Manual -> Nat]
  BY ExecutedSeq DEF TypeInv, MarlinTypeOK
<1>2. Len(executed') = Len(executed) \/ Len(executed') = Len(executed) + 1
  BY DEF CarriedOut, ThrownAway
<1>3. Len(executed) <= Len(executed')
  BY <1>1, <1>2
<1>4. runs' = runs \/ runs' = [runs EXCEPT ![Head(wire).cmd] = @ + 1]
  BY DEF CarriedOut, ThrownAway
<1>5. \A c \in Manual : runs[c] <= runs'[c]
  BY ONLY <1>1, <1>4
<1> QED
  BY <1>3, <1>5

LEMMA PrinterCredit ==
    ASSUME TypeInv, TypeInv', OrderInv, OrderInv', SlotsInv, Printer, NEW d \in Nat, CreditFor(d),
           ~ErrorComing /\ Head(wire).type = "finish" => start + Len(executed) = FileLen
    PROVE  CreditFor(d)'
<1>1. /\ alive /\ wire # <<>> /\ wire' = Tail(wire) /\ UNCHANGED engineVars /\ UNCHANGED alive
      /\ Len(rx) <= Len(rx') /\ Len(rx') \in Nat /\ \A i \in 1..Len(rx) : rx'[i] = rx[i]
      /\ CarriedOut \/ ThrownAway
  BY PrinterShape
<1>2. UNCHANGED <<fifo, start, man>>
  BY <1>1 DEF engineVars, lineVars, manVars
<1>3. Len(executed) <= Len(executed') /\ (\A c \in Manual : runs[c] <= runs'[c]) /\ start + Len(executed') <= FileLen
  BY <1>1, <1>2, RunsGrow, ExecutedBoundNext
<1>4. \A i \in 1..Len(fifo) : ManualAt(i) => man \in Manual
  BY DEF SlotsInv
<1>5. /\ \A j \in 0..Len(rx) : Oks(j)' <=> Oks(j)
      /\ ErrorComing => ErrorComing'
      /\ ErrorComing => \A j \in 0..Len(rx') : Oks(j)' => j \in 0..Len(rx) /\ Oks(j)
  BY <1>1, OksGrow
<1>6. Credited(d) /\ (ErrorComing => Blocked(d)) /\ (~ErrorComing => Aligned(d))
  BY <1>1 DEF CreditFor
<1>n. Len(rx) \in Nat /\ Len(rx') \in Nat /\ Len(fifo) \in Nat /\ Len(wire) \in Nat
  BY <1>1, RxSeq, FifoSeq, WireSeq
<1>w. /\ Len(wire') = Len(wire) - 1 /\ 1 \in 1..Len(wire) /\ Head(wire) = wire[1]
      /\ \A i \in 1..Len(wire') : i + 1 \in 1..Len(wire) /\ wire'[i] = wire[i + 1]
  BY <1>1, WireSeq, HeadTailProperties, EmptySeq, LenProperties
<1>z. 0 \in Nat
  OBVIOUS
<1>7. ASSUME \A j \in 0..Len(rx') : Oks(j)' => j \in 0..Len(rx) /\ Oks(j)
      PROVE  Credited(d)'
  <2>1. \A j \in 0..Len(rx') : Oks(j)' => j <= Len(rx)
    BY <1>7, <1>n
  <2> QED BY <1>1, <1>2, <1>3, <1>4, <1>6, <2>1, <1>z, CreditGrow
<1>8. CASE ErrorComing
  <2>1. Credited(d)'
    BY <1>5, <1>7, <1>8
  <2>2. Blocked(d)'
    <3>1. PICK p \in 1..Len(fifo) : fifo[p].type = "print" /\ \A j \in 0..Len(rx) : Oks(j) => d + j < p
      BY <1>6, <1>8 DEF Blocked
    <3>2. fifo' = fifo /\ \A j \in 0..Len(rx') : Oks(j)' => d + j < p
      BY <1>2, <1>5, <1>8, <3>1
    <3> QED BY <3>1, <3>2, Zenon DEF Blocked
  <2> QED BY <1>5, <1>8, <2>1, <2>2 DEF CreditFor
<1>9. CASE ~ErrorComing
  <2>1. /\ d + Len(rx) + Len(wire) = Len(fifo)
        /\ \A k \in 1..Len(wire) : Matches(d + Len(rx) + k, k)
    BY <1>6, <1>9 DEF Aligned
  <2>0. d + Len(rx) + 1 \in 1..Len(fifo) /\ d + Len(rx) + 1 \in Nat
    <3>1. 1 \in 1..Len(wire) /\ d + Len(rx) + Len(wire) = Len(fifo)
      BY <1>w, <2>1
    <3> QED BY ONLY <1>n, <3>1, d \in Nat
  <2>2. PICK s \in 1..Len(fifo) : s = d + Len(rx) + 1
    BY <2>0
  <2>3. Matches(s, 1) /\ s \in Nat
    BY <1>w, <2>0, <2>1, <2>2
  <2>4. CASE CarriedOut
    <3>1. SlotDone(s)' /\ (rx'[Len(rx) + 1].kind = "ok T" => PollOrTemp(s))
      BY <1>1, <1>9, <2>3, <2>4, HeadDone
    <3>2. Len(rx') = Len(rx) + 1 /\ rx'[Len(rx) + 1].kind \in {"ok", "ok T"}
      BY <2>4 DEF CarriedOut
    <3>l. Len(rx') = Len(rx) + 1
      BY <3>2
    <3>3. \A j \in 0..Len(rx') : j <= Len(rx) \/ (j = Len(rx) + 1 /\ s = d + j)
      <4>1. \A j \in 0..Len(rx') : j <= Len(rx) \/ j = Len(rx) + 1
        BY ONLY <1>n, <3>l
      <4>2. d + (Len(rx) + 1) = s
        BY ONLY <1>n, <2>2, d \in Nat
      <4> QED BY ONLY <4>1, <4>2
    <3>4. s <= Len(fifo)
      BY ONLY <1>n, s \in 1..Len(fifo)
    <3>5. Credited(d)'
      BY <1>1, <1>2, <1>3, <1>4, <1>6, <2>3, <3>1, <3>3, <3>4, CreditGrow
    <3>6. ~ErrorComing'
      <4>1. \A i \in 1..Len(rx') : i \in 1..Len(rx) \/ i = Len(rx) + 1
        BY ONLY <1>n, <3>l
      <4>2. \A i \in 1..Len(rx) : rx'[i] = rx[i]
        BY <1>1
      <4> QED BY ONLY <1>9, <4>1, <4>2, <3>2 DEF ErrorComing
    <3>7. Aligned(d)'
      <4>1. d + Len(rx') + Len(wire') = Len(fifo')
        <5>1. Len(wire') = Len(wire) - 1 /\ Len(fifo') = Len(fifo) /\ Len(rx') = Len(rx) + 1
          BY <1>2, <1>w, <3>2
        <5> QED BY ONLY <1>n, <2>1, <5>1, d \in Nat
      <4>2. ASSUME NEW k \in 1..Len(wire') PROVE Matches(d + Len(rx) + k, k)'
        <5>1. k + 1 \in 1..Len(wire) /\ wire'[k] = wire[k + 1]
          BY <1>w
        <5>2. Matches(d + Len(rx) + (k + 1), k + 1)
          BY <2>1, <5>1
        <5>3. d + Len(rx) + (k + 1) = d + Len(rx') + k
          BY ONLY <1>n, <3>l, d \in Nat, k \in 1..Len(wire')
        <5> QED BY ONLY <1>2, <5>1, <5>2, <5>3 DEF Matches, TempSlot, HasPoll
      <4> QED BY ONLY <4>1, <4>2 DEF Aligned
    <3> QED BY ONLY <3>5, <3>6, <3>7 DEF CreditFor
  <2>5. CASE ThrownAway
    <3>1. Len(rx) < Len(rx') /\ rx'[Len(rx) + 1].kind = "error" /\ Head(wire).type = "print"
      BY <2>5 DEF ThrownAway
    <3>2. Len(rx) + 1 \in 1..Len(rx') /\ ErrorComing'
      <4>1. Len(rx) + 1 \in 1..Len(rx')
        BY ONLY <1>n, <3>1
      <4> QED BY ONLY <4>1, <3>1 DEF ErrorComing
    <3>3. ASSUME NEW j \in 0..Len(rx'), Oks(j)' PROVE j \in 0..Len(rx) /\ Oks(j)
      <4>1. Len(rx) + 1 \notin 1..j
        <5>1. "error" \notin {"ok", "ok T"}
          OBVIOUS
        <5> QED BY ONLY <3>1, <3>3, <5>1 DEF Oks
      <4>2. j \in 0..Len(rx)
        BY ONLY <1>n, <4>1, j \in 0..Len(rx')
      <4> QED BY <1>5, <3>3, <4>2
    <3>4. Credited(d)'
      BY <1>7, <3>3
    <3>5. Blocked(d)'
      <4>1. fifo'[s].type = "print" /\ s \in 1..Len(fifo')
        BY <1>2, <1>w, <2>3, <3>1 DEF Matches
      <4>2. ASSUME NEW j \in 0..Len(rx'), Oks(j)' PROVE d + j < s
        <5>1. j \in 0..Len(rx)
          BY <3>3, <4>2
        <5> QED BY ONLY <1>n, <2>2, <5>1, d \in Nat
      <4> QED BY <4>1, <4>2, Zenon DEF Blocked
    <3> QED BY ONLY <3>2, <3>4, <3>5 DEF CreditFor
  <2> QED BY <1>1, <2>4, <2>5
<1> QED
  BY <1>8, <1>9

-----------------------------------------------------------------------------
(* The numbers the engine and the printer are at *)

Numbered(k) == wire[k].type = "print" /\ wire[k].n # 0

\* A line was thrown away and the engine has not started again yet.
Bad == resync \/ ErrorComing

\* The printer is never ahead of the engine, and what it asks for is the line it wants next.
NumberInv ==
    /\ Len(executed) <= lineNo
    /\ resendFrom # 0 => resendFrom > Len(executed) /\ (resendFrom <= lineNo \/ resendFrom = Len(executed) + 1)
    /\ resync => lastGood = Len(executed)
    /\ \A i \in 1..Len(rx) : rx[i].kind = "error" => rx[i].last = Len(executed) /\ rx[i].resend \in {0, Len(executed) + 1}

\* Nothing on the wire is executed again, and after an error nothing is executed at all.
LinesAhead == \A k \in 1..Len(wire) : Numbered(k) =>
    wire[k].n > Len(executed) /\ (Bad => wire[k].n > Len(executed) + 1)

\* The last line is executed or on its way.
LastLine == ~Bad /\ resendFrom = 0 => lineNo = Len(executed) \/ \E k \in 1..Len(wire) : Numbered(k) /\ wire[k].n = lineNo

\* The end of the file is behind every line.
FinishLast == ~Bad => \A k \in 1..Len(wire) : wire[k].type = "finish" =>
    resendFrom = 0 /\ EndOfFile /\ \A j \in 1..Len(wire) : Numbered(j) => j < k

\* What the printer threw away is not what goes out next.
AskedAhead == ~resync /\ ErrorComing => NextNumber > Len(executed) + 1 \/ (1 \in 1..Len(fifo) /\ M110Slot(1))

WireInv == alive => LinesAhead /\ LastLine /\ FinishLast /\ AskedAhead

StreamInv == FifoInv /\ WindowInv /\ CreditInv /\ PendingInv /\ NumberInv /\ WireInv

LEMMA NumbersTyped ==
    ASSUME TypeInv
    PROVE  /\ Len(executed) \in Nat /\ lineNo \in Nat /\ resendFrom \in Nat /\ NextNumber \in Nat /\ Len(rx) \in Nat /\ Len(wire) \in Nat
           /\ \A k \in 1..Len(wire) : wire[k].n \in Nat
           /\ \A i \in 1..Len(fifo) : fifo[i].n \in Nat
<1>1. lineNo \in Nat /\ resendFrom \in Nat /\ Len(executed) \in Nat /\ Len(rx) \in Nat /\ Len(wire) \in Nat
  BY EngineNumbers, ExecutedSeq, RxSeq, WireSeq
<1>2. NextNumber \in Nat
  BY ONLY <1>1 DEF NextNumber
<1>3. \A k \in 1..Len(wire) : wire[k] \in Message
  BY WireSeq
<1>4. \A i \in 1..Len(fifo) : fifo[i] \in Slot
  BY FifoSeq
<1>5. (\A k \in 1..Len(wire) : wire[k].n \in Nat) /\ \A i \in 1..Len(fifo) : fifo[i].n \in Nat
  BY ONLY <1>3, <1>4 DEF Message, Slot
<1> QED
  BY <1>1, <1>2, <1>5

\* While no line was thrown away, the numbers on the wire grow towards the next one.
LEMMA WireLines ==
    ASSUME TypeInv, FifoInv, ~resync, NEW d \in Nat, Aligned(d), NEW k \in 1..Len(wire), wire[k].type = "print"
    PROVE  /\ wire[k].n = 0 => lineNo = 0 /\ 1 \in 1..Len(fifo) /\ M110Slot(1)
           /\ wire[k].n # 0 => wire[k].n <= lineNo /\ wire[k].n < NextNumber
                               /\ \A m \in 1..Len(wire) : k < m /\ Numbered(m) => wire[k].n < wire[m].n
<1>1. /\ d + Len(rx) + Len(wire) = Len(fifo)
      /\ \A m \in 1..Len(wire) : Matches(d + Len(rx) + m, m)
  BY DEF Aligned
<1>n. Len(rx) \in Nat /\ Len(wire) \in Nat /\ Len(fifo) \in Nat
  BY RxSeq, WireSeq, FifoSeq
<1>2. \A m \in 1..Len(wire) : d + Len(rx) + m \in 1..Len(fifo) /\ (k < m => d + Len(rx) + k < d + Len(rx) + m)
  BY ONLY <1>1, <1>n, d \in Nat, k \in 1..Len(wire)
<1>3. PICK s \in 1..Len(fifo) : s = d + Len(rx) + k
  BY <1>2
<1>4. fifo[s].type = "print" /\ fifo[s].n = wire[k].n
  BY <1>1, <1>3 DEF Matches
<1>5. ASSUME wire[k].n = 0 PROVE lineNo = 0 /\ 1 \in 1..Len(fifo) /\ M110Slot(1)
  <2>1. M110Slot(s)
    BY <1>4, <1>5 DEF M110Slot
  <2>2. s = 1 /\ lineNo = 0
    BY <2>1 DEF FifoInv, SlotsInv
  <2> QED BY <2>1, <2>2
<1>6. ASSUME wire[k].n # 0
      PROVE  /\ wire[k].n <= lineNo /\ wire[k].n < NextNumber
             /\ \A m \in 1..Len(wire) : k < m /\ Numbered(m) => wire[k].n < wire[m].n
  <2>1. LineSlot(s)
    BY <1>4, <1>6 DEF LineSlot
  <2>2. fifo[s].n <= lineNo /\ fifo[s].n < NextNumber /\ \A j \in 1..Len(fifo) : s < j /\ LineSlot(j) => fifo[s].n < fifo[j].n
    BY <2>1 DEF FifoInv, SlotsInv, OrderedInv
  <2>3. ASSUME NEW m \in 1..Len(wire), k < m, Numbered(m) PROVE wire[k].n < wire[m].n
    <3>1. PICK j \in 1..Len(fifo) : j = d + Len(rx) + m
      BY <1>2
    <3>2. LineSlot(j) /\ fifo[j].n = wire[m].n /\ s < j
      BY <1>1, <1>2, <1>3, <2>3, <3>1 DEF Matches, LineSlot, Numbered
    <3> QED BY <1>4, <2>2, <3>2
  <2> QED BY <1>4, <2>2, <2>3
<1> QED
  BY <1>5, <1>6

LEMMA PrinterNumbers ==
    ASSUME TypeInv, OrderInv, StreamInv, Printer
    PROVE  NumberInv' /\ WireInv'
<1>1. /\ alive /\ wire # <<>> /\ wire' = Tail(wire) /\ UNCHANGED engineVars /\ UNCHANGED alive
      /\ Len(rx) <= Len(rx') /\ Len(rx') \in Nat /\ \A i \in 1..Len(rx) : rx'[i] = rx[i]
      /\ CarriedOut \/ ThrownAway
  BY PrinterShape
<1>2. UNCHANGED <<fifo, start, lineNo, resync, resendFrom, lastGood>> /\ NextNumber' = NextNumber /\ EndOfFile' = EndOfFile
  BY <1>1 DEF engineVars, lineVars, resyncVars, NextNumber, EndOfFile
<1>n. /\ Len(executed) \in Nat /\ lineNo \in Nat /\ resendFrom \in Nat /\ NextNumber \in Nat /\ Len(rx) \in Nat
      /\ \A k \in 1..Len(wire) : wire[k].n \in Nat
  BY NumbersTyped
<1>w. /\ 1 \in 1..Len(wire) /\ Head(wire) = wire[1] /\ Len(wire) \in Nat
      /\ \A k \in 1..Len(wire') : k + 1 \in 1..Len(wire) /\ k + 1 > 1 /\ wire'[k] = wire[k + 1]
      /\ \A k \in 1..Len(wire) : k # 1 => k - 1 \in 1..Len(wire') /\ wire'[k - 1] = wire[k]
  <2>1. /\ Len(wire') = Len(wire) - 1 /\ 1 \in 1..Len(wire) /\ Head(wire) = wire[1] /\ Len(wire) \in Nat
        /\ \A i \in 1..Len(wire') : wire'[i] = wire[i + 1]
    BY <1>1, WireSeq, HeadTailProperties, EmptySeq, LenProperties
  <2>2. \A k \in 1..Len(wire') : k + 1 \in 1..Len(wire) /\ k + 1 > 1
    BY ONLY <2>1
  <2>3. \A k \in 1..Len(wire) : k # 1 => k - 1 \in 1..Len(wire') /\ (k - 1) + 1 = k
    BY ONLY <2>1
  <2> QED BY ONLY <2>1, <2>2, <2>3
<1>3. /\ LinesAhead /\ LastLine /\ FinishLast /\ AskedAhead
      /\ NumberInv /\ FifoInv
  BY <1>1 DEF StreamInv, WireInv
<1>4. \A k \in 1..Len(wire') : Numbered(k)' => Numbered(k + 1)
  BY <1>w DEF Numbered
<1>5. ErrorComing => ErrorComing'
  BY <1>1, OksGrow
<1>6. lastN = Len(executed)
  BY <1>1 DEF OrderInv, CountInOrder
<1>7. ~Bad => \E d \in Nat : Aligned(d)
  BY <1>1 DEF Bad, StreamInv, CreditInv, CreditFor
<1>8. CASE CarriedOut
  <2>1. \A i \in 1..Len(rx') : i \in 1..Len(rx) \/ rx'[i].kind \in {"ok", "ok T"}
    <3>1. Len(rx') = Len(rx) + 1
      BY <1>8 DEF CarriedOut
    <3>2. \A i \in 1..Len(rx') : i \in 1..Len(rx) \/ i = Len(rx) + 1
      BY ONLY <3>1, <1>n
    <3> QED BY <1>8, <3>2 DEF CarriedOut
  <2>2. ErrorComing' => ErrorComing
    <3>1. \A i \in 1..Len(rx) : rx'[i] = rx[i]
      BY <1>1
    <3>2. "error" \notin {"ok", "ok T"}
      OBVIOUS
    <3> QED BY ONLY <2>1, <3>1, <3>2 DEF ErrorComing
  <2>3. Bad' <=> Bad
    BY <1>2, <1>5, <2>2 DEF Bad
  <2>4. CASE Numbered(1)
    <3>1. Head(wire).type = "print" /\ Head(wire).line # 0
      <4>1. NumberedAs(wire[1])
        BY <1>w, <2>4 DEF OrderInv, WireInOrder, IsM110, Numbered
      <4>2. wire[1].line = start + wire[1].n /\ wire[1].n \in Nat /\ wire[1].n # 0 /\ start \in Nat
        BY <1>n, <1>w, <2>4, <4>1, EngineNumbers DEF Numbered, NumberedAs
      <4>3. wire[1].line # 0
        BY ONLY <4>2
      <4> QED BY <1>w, <2>4, <4>3 DEF Numbered
    <3>2. Head(wire).n = lastN + 1 /\ Len(executed') = Len(executed) + 1
      BY <1>8, <3>1 DEF CarriedOut
    <3>3. wire[1].n = Len(executed) + 1
      BY <1>6, <1>w, <3>2
    <3>4. ~Bad
      <4>1. Bad => wire[1].n > Len(executed) + 1
        BY <1>3, <1>w, <2>4 DEF LinesAhead
      <4> QED BY ONLY <3>3, <4>1, <1>n
    <3>5. PICK d \in Nat : Aligned(d)
      BY <1>7, <3>4
    <3>6. /\ wire[1].n <= lineNo /\ wire[1].n < NextNumber
          /\ \A m \in 1..Len(wire) : 1 < m /\ Numbered(m) => wire[1].n < wire[m].n
      BY <1>3, <1>w, <2>4, <3>4, <3>5, WireLines DEF Bad, Numbered
    <3>7. NumberInv'
      <4>1. Len(executed') <= lineNo'
        BY ONLY <1>2, <3>2, <3>3, <3>6
      <4>2. resendFrom' # 0 => resendFrom' > Len(executed') /\ resendFrom' <= lineNo'
        <5>1. resendFrom <= lineNo
          BY <3>4, EngineNumbers DEF Bad
        <5>2. resendFrom # 0 => NextNumber = resendFrom
          BY DEF NextNumber
        <5> QED BY ONLY <1>2, <1>n, <3>2, <3>3, <3>6, <5>1, <5>2
      <4>3. ~resync'
        BY <1>2, <3>4 DEF Bad
      <4>4. \A i \in 1..Len(rx') : rx'[i].kind # "error"
        BY <2>2, <3>4 DEF Bad, ErrorComing
      <4> QED BY ONLY <4>1, <4>2, <4>3, <4>4 DEF NumberInv
    <3>8. LinesAhead'
      <4>1. \A k \in 1..Len(wire') : Numbered(k)' => wire'[k].n > Len(executed) + 1
        BY <1>4, <1>w, <3>3, <3>6
      <4> QED BY ONLY <2>3, <3>2, <3>4, <4>1 DEF LinesAhead
    <3>9. LastLine'
      <4>1. ASSUME resendFrom = 0 PROVE lineNo = Len(executed') \/ \E k \in 1..Len(wire') : Numbered(k)' /\ wire'[k].n = lineNo
        <5>1. lineNo = Len(executed) \/ \E k \in 1..Len(wire) : Numbered(k) /\ wire[k].n = lineNo
          BY <1>3, <3>4, <4>1 DEF LastLine
        <5>2. lineNo # Len(executed)
          BY ONLY <1>n, <3>3, <3>6
        <5>3. PICK k \in 1..Len(wire) : Numbered(k) /\ wire[k].n = lineNo
          BY <5>1, <5>2
        <5>4. CASE k = 1
          BY <3>2, <3>3, <5>3, <5>4
        <5>5. CASE k # 1
          <6>1. k - 1 \in 1..Len(wire') /\ wire'[k - 1] = wire[k]
            BY <1>w, <5>5
          <6>2. PICK m \in 1..Len(wire') : wire'[m] = wire[k]
            BY <6>1
          <6> QED BY <5>3, <6>2 DEF Numbered
        <5> QED BY <5>4, <5>5
      <4> QED BY <1>2, <4>1 DEF LastLine
    <3>10. FinishLast'
      <4>1. \A k \in 1..Len(wire) : wire[k].type = "finish" => resendFrom = 0 /\ EndOfFile /\ \A j \in 1..Len(wire) : Numbered(j) => j < k
        BY <1>3, <3>4 DEF FinishLast
      <4>2. ASSUME NEW k \in 1..Len(wire'), wire'[k].type = "finish"
            PROVE  resendFrom' = 0 /\ EndOfFile' /\ \A j \in 1..Len(wire') : Numbered(j)' => j < k
        <5>1. wire[k + 1].type = "finish" /\ k + 1 \in 1..Len(wire)
          BY <1>w, <4>2
        <5>2. ASSUME NEW j \in 1..Len(wire'), Numbered(j)' PROVE j < k
          <6>1. j + 1 \in 1..Len(wire) /\ Numbered(j + 1)
            BY <1>4, <1>w, <5>2
          <6>2. j + 1 < k + 1
            BY <4>1, <5>1, <6>1
          <6> QED BY ONLY <6>2, j \in 1..Len(wire'), k \in 1..Len(wire')
        <5> QED BY <1>2, <4>1, <5>1, <5>2
      <4> QED BY <4>2 DEF FinishLast
    <3>11. AskedAhead'
      BY <2>2, <3>4 DEF AskedAhead, Bad
    <3> QED BY <3>7, <3>8, <3>9, <3>10, <3>11 DEF WireInv
  <2>5. CASE ~Numbered(1)
    <3>1. UNCHANGED executed
      <4>1. ~(Head(wire).type = "print" /\ Head(wire).line # 0)
        <5>1. wire[1].type = "print" => wire[1].n = 0
          BY <2>5 DEF Numbered
        <5>2. wire[1].type = "print" => wire[1].line = 0
          BY <1>w, <5>1 DEF OrderInv, WireInOrder, NumberedAs, IsM110
        <5> QED BY <1>w, <5>2
      <4> QED BY <1>8, <4>1 DEF CarriedOut
    <3>2. NumberInv'
      <4>1. \A i \in 1..Len(rx') : rx'[i].kind = "error" => i \in 1..Len(rx) /\ rx'[i] = rx[i]
        <5>1. "error" \notin {"ok", "ok T"} /\ \A i \in 1..Len(rx) : rx'[i] = rx[i]
          BY <1>1
        <5> QED BY ONLY <2>1, <5>1
      <4> QED BY <1>2, <1>3, <3>1, <4>1 DEF NumberInv
    <3>3. LinesAhead'
      BY <1>3, <1>4, <1>w, <2>3, <3>1 DEF LinesAhead
    <3>4. LastLine'
      <4>1. ASSUME NEW k \in 1..Len(wire), Numbered(k) PROVE \E m \in 1..Len(wire') : wire'[m] = wire[k]
        BY <1>w, <2>5, <4>1
      <4> QED BY <1>2, <1>3, <2>3, <3>1, <4>1 DEF LastLine, Numbered
    <3>5. FinishLast'
      <4>1. SUFFICES ASSUME ~Bad, NEW k \in 1..Len(wire'), wire'[k].type = "finish"
            PROVE  resendFrom' = 0 /\ EndOfFile' /\ \A j \in 1..Len(wire') : Numbered(j)' => j < k
        BY <2>3 DEF FinishLast
      <4>2. \A m \in 1..Len(wire) : wire[m].type = "finish" => resendFrom = 0 /\ EndOfFile /\ \A j \in 1..Len(wire) : Numbered(j) => j < m
        BY <1>3, <4>1 DEF FinishLast
      <4>3. wire[k + 1].type = "finish" /\ k + 1 \in 1..Len(wire)
        BY <1>w, <4>1
      <4>4. ASSUME NEW j \in 1..Len(wire'), Numbered(j)' PROVE j < k
        <5>1. j + 1 \in 1..Len(wire) /\ Numbered(j + 1)
          BY <1>4, <1>w, <4>4
        <5>2. j + 1 < k + 1
          BY <4>2, <4>3, <5>1
        <5> QED BY ONLY <5>2, j \in 1..Len(wire'), k \in 1..Len(wire')
      <4> QED BY <1>2, <4>2, <4>3, <4>4
    <3>6. AskedAhead'
      BY <1>2, <1>3, <2>2, <3>1 DEF AskedAhead, M110Slot
    <3> QED BY <3>2, <3>3, <3>4, <3>5, <3>6 DEF WireInv
  <2> QED BY <2>4, <2>5
<1>9. CASE ThrownAway
  <2>1. /\ Head(wire).type = "print" /\ UNCHANGED executed
        /\ Len(rx) < Len(rx') /\ rx'[Len(rx) + 1].kind = "error"
        /\ \A i \in 1..Len(rx') : i > Len(rx) /\ rx'[i].kind = "error" => rx'[i].last = lastN /\ rx'[i].resend \in {0, lastN + 1}
    BY <1>9 DEF ThrownAway
  <2>2. ErrorComing' /\ Bad'
    <3>1. Len(rx) + 1 \in 1..Len(rx')
      <4>1. Len(rx) < Len(rx') /\ Len(rx') \in Nat
        BY <1>1, <2>1
      <4> QED BY ONLY <1>n, <4>1
    <3> QED BY ONLY <2>1, <3>1 DEF ErrorComing, Bad
  <2>3. NumberInv'
    <3>1. \A i \in 1..Len(rx') : i \in 1..Len(rx) \/ i > Len(rx)
      <4>1. Len(rx') \in Nat
        BY <1>1
      <4> QED BY ONLY <1>n, <4>1
    <3>2. \A i \in 1..Len(rx') : rx'[i].kind = "error" => rx'[i].last = Len(executed) /\ rx'[i].resend \in {0, Len(executed) + 1}
      BY <1>1, <1>3, <1>6, <2>1, <3>1 DEF NumberInv
    <3> QED BY <1>2, <1>3, <2>1, <3>2 DEF NumberInv
  <2>4. LinesAhead' /\ AskedAhead'
    <3>1. CASE Bad
      <4>1. LinesAhead'
        BY <1>3, <1>4, <1>w, <2>1, <3>1 DEF LinesAhead
      <4>2. AskedAhead'
        BY <1>2, <1>3, <2>1, <3>1 DEF AskedAhead, M110Slot, Bad
      <4> QED BY <4>1, <4>2
    <3>2. CASE ~Bad
      <4>1. PICK d \in Nat : Aligned(d)
        BY <1>7, <3>2
      <4>2. \A k \in 1..Len(wire) : wire[k].type = "print" =>
               /\ wire[k].n = 0 => lineNo = 0 /\ 1 \in 1..Len(fifo) /\ M110Slot(1)
               /\ wire[k].n # 0 => wire[k].n <= lineNo /\ wire[k].n < NextNumber
                                   /\ \A m \in 1..Len(wire) : k < m /\ Numbered(m) => wire[k].n < wire[m].n
        BY <1>3, <3>2, <4>1, WireLines DEF Bad
      <4>3. wire[1].type = "print" /\ wire[1].n \in Nat
        BY <1>n, <1>w, <2>1
      <4>4. CASE wire[1].n = 0
        <5>1. \A k \in 1..Len(wire) : ~Numbered(k)
          BY <1>n, <1>w, <4>2, <4>3, <4>4 DEF Numbered
        <5>2. LinesAhead'
          BY <1>4, <1>w, <5>1 DEF LinesAhead
        <5>3. AskedAhead'
          BY <1>2, <1>w, <4>2, <4>3, <4>4 DEF AskedAhead, M110Slot
        <5> QED BY <5>2, <5>3
      <4>5. CASE wire[1].n # 0
        <5>1. wire[1].n > Len(executed)
          BY <1>3, <1>w, <4>3, <4>5 DEF LinesAhead, Numbered
        <5>2. wire[1].n < NextNumber /\ \A m \in 1..Len(wire) : 1 < m /\ Numbered(m) => wire[1].n < wire[m].n
          BY <1>w, <4>2, <4>3, <4>5
        <5>3. \A k \in 1..Len(wire') : Numbered(k)' => wire'[k].n > Len(executed) + 1
          <6>1. ASSUME NEW k \in 1..Len(wire'), Numbered(k)' PROVE wire'[k].n > Len(executed) + 1
            <7>1. wire[1].n < wire'[k].n /\ wire'[k].n \in Nat
              BY <1>4, <1>n, <1>w, <5>2, <6>1
            <7> QED BY ONLY <1>n, <4>3, <5>1, <7>1
          <6> QED BY <6>1
        <5>4. NextNumber > Len(executed) + 1
          BY ONLY <1>n, <4>3, <5>1, <5>2
        <5>5. LinesAhead'
          <6>1. \A k \in 1..Len(wire') : Numbered(k)' => wire'[k].n > Len(executed) /\ wire'[k].n > Len(executed) + 1
            <7>1. \A x \in Nat : x > Len(executed) + 1 => x > Len(executed)
              BY ONLY <1>n
            <7>2. \A k \in 1..Len(wire') : wire'[k].n \in Nat
              BY <1>n, <1>w
            <7> QED BY ONLY <5>3, <7>1, <7>2
          <6> QED BY ONLY <2>1, <6>1 DEF LinesAhead
        <5> QED BY <1>2, <2>1, <5>4, <5>5 DEF AskedAhead
      <4> QED BY <4>4, <4>5
    <3> QED BY <3>1, <3>2
  <2> QED BY <2>2, <2>3, <2>4 DEF WireInv, LastLine, FinishLast
<1> QED
  BY <1>1, <1>8, <1>9

\* An ok is read, or lost.
LEMMA ReadNumbers ==
    ASSUME TypeInv, StreamInv, rx # <<>>, rx' = Tail(rx), Head(rx).kind \in {"ok", "ok T"},
           UNCHANGED <<wire, executed, alive, start, lineNo, resync, resendFrom, lastGood>>,
           resync \/ (ErrorComing /\ M110Slot(1) /\ 1 \in 1..Len(fifo) => UNCHANGED fifo)
    PROVE  NumberInv' /\ WireInv'
<1>1. \A i \in 1..Len(rx') : i + 1 \in 1..Len(rx) /\ rx'[i] = rx[i + 1]
  BY ReadShape
<1>2. ErrorComing' <=> ErrorComing
  BY OksRead
<1>3. NextNumber' = NextNumber /\ EndOfFile' = EndOfFile /\ (Bad' <=> Bad)
  BY <1>2 DEF NextNumber, EndOfFile, Bad
<1>4. NumberInv'
  <2>1. NumberInv
    BY DEF StreamInv
  <2>2. \A i \in 1..Len(rx') : rx'[i].kind = "error" => rx'[i].last = Len(executed) /\ rx'[i].resend \in {0, Len(executed) + 1}
    BY <1>1, <2>1 DEF NumberInv
  <2> QED BY <2>1, <2>2 DEF NumberInv
<1>5. ASSUME alive PROVE LinesAhead' /\ LastLine' /\ FinishLast' /\ AskedAhead'
  <2>1. LinesAhead /\ LastLine /\ FinishLast /\ AskedAhead
    BY <1>5 DEF StreamInv, WireInv
  <2>2. LinesAhead' /\ LastLine' /\ FinishLast'
    BY <1>3, <2>1 DEF LinesAhead, LastLine, FinishLast, Numbered
  <2>3. AskedAhead'
    BY <1>2, <1>3, <2>1 DEF AskedAhead, M110Slot
  <2> QED BY <2>2, <2>3
<1> QED
  BY <1>4, <1>5 DEF WireInv

\* While the answer about M110 is coming, no ok is in front of it.
LEMMA NoOkBeforeM110 ==
    ASSUME TypeInv, StreamInv, ~resync, ErrorComing, 1 \in 1..Len(fifo), M110Slot(1), rx # <<>>, Head(rx).kind \in {"ok", "ok T"}
    PROVE  FALSE
<1>1. PICK d \in Nat : Blocked(d)
  BY DEF StreamInv, CreditInv, CreditFor
<1>2. PICK p \in 1..Len(fifo) : fifo[p].type = "print" /\ \A j \in 0..Len(rx) : Oks(j) => d + j < p
  BY <1>1 DEF Blocked
<1>3. 1 \in 0..Len(rx) /\ Oks(1)
  <2>1. rx \in Seq(Answer) /\ Len(rx) \in Nat /\ rx # <<>>
    BY RxSeq
  <2>2. Head(rx) = rx[1] /\ Len(rx) # 0
    <3>1. Head(rx) = rx[1]
      BY ONLY <2>1, HeadTailProperties
    <3>2. Len(rx) # 0
      BY ONLY <2>1, EmptySeq
    <3> QED BY <3>1, <3>2
  <2>3. Len(rx) \in Nat
    BY <2>1
  <2>4. 1 \in 0..Len(rx)
    BY ONLY <2>2, <2>3
  <2>5. \A i \in 1..1 : rx[i] = Head(rx)
    BY <2>2, OneOnly
  <2> QED BY <2>4, <2>5 DEF Oks
<1>4. d + 1 < p
  BY <1>2, <1>3
<1>5. p # 1
  BY ONLY <1>4, d \in Nat
<1>6. fifo[p].n \in Nat /\ lineNo = 0
  <2>1. fifo[p] \in Slot
    BY FifoSeq
  <2> QED BY <2>1 DEF StreamInv, FifoInv, SlotsInv, Slot
<1>7. CASE fifo[p].n = 0
  BY <1>2, <1>5, <1>7 DEF StreamInv, FifoInv, SlotsInv, M110Slot
<1>8. CASE fifo[p].n # 0
  <2>1. fifo[p].n <= lineNo
    BY <1>2, <1>8 DEF StreamInv, FifoInv, SlotsInv, LineSlot
  <2> QED BY ONLY <1>6, <1>8, <2>1
<1> QED
  BY <1>7, <1>8

LEMMA ErrorNumbers ==
    ASSUME TypeInv, StreamInv, ErrorReported
    PROVE  NumberInv' /\ WireInv'
<1>0. rx # <<>> /\ rx' = Tail(rx) /\ Head(rx).kind = "error" /\ Running
  BY DEF ErrorReported, Received
<1>1. /\ 1 \in 1..Len(rx) /\ Head(rx) = rx[1]
      /\ \A i \in 1..Len(rx') : i + 1 \in 1..Len(rx) /\ rx'[i] = rx[i + 1]
  BY <1>0, ReadShape
<1>2. /\ resync' /\ lastGood' = Head(rx).last
      /\ resendFrom' = IF Head(rx).resend > 0 THEN Head(rx).resend ELSE resendFrom
      /\ UNCHANGED <<lineNo, start, wire, executed, alive, fifo>>
  BY DEF ErrorReported, lineVars
<1>3. NumberInv /\ Head(rx).last = Len(executed) /\ Head(rx).resend \in {0, Len(executed) + 1} /\ ErrorComing
  BY <1>0, <1>1 DEF StreamInv, NumberInv, ErrorComing
<1>n. Len(executed) \in Nat /\ resendFrom \in Nat
  BY NumbersTyped
<1>4. NumberInv'
  <2>1. resendFrom' = resendFrom \/ resendFrom' = Len(executed) + 1
    BY <1>2, <1>3
  <2>2. \A i \in 1..Len(rx') : rx'[i].kind = "error" => rx'[i].last = Len(executed) /\ rx'[i].resend \in {0, Len(executed) + 1}
    BY <1>1, <1>3 DEF NumberInv
  <2>3. resendFrom' # 0 => resendFrom' > Len(executed) /\ (resendFrom' <= lineNo \/ resendFrom' = Len(executed) + 1)
    <3>1. Len(executed) + 1 > Len(executed)
      BY ONLY <1>n
    <3> QED BY <1>3, <2>1, <3>1 DEF NumberInv
  <2> QED BY <1>2, <1>3, <2>2, <2>3 DEF NumberInv
<1>5. ASSUME alive PROVE LinesAhead'
  <2>1. LinesAhead /\ Bad
    BY <1>3, <1>5 DEF StreamInv, WireInv, Bad
  <2> QED BY <1>2, <2>1 DEF LinesAhead, Numbered
<1>6. LastLine' /\ FinishLast' /\ AskedAhead'
  BY <1>2 DEF LastLine, FinishLast, AskedAhead, Bad
<1> QED
  BY <1>2, <1>4, <1>5, <1>6 DEF WireInv

\* The line the engine starts again from is one the printer has not executed.
LEMMA RestartAhead ==
    ASSUME TypeInv, StreamInv, resync
    PROVE  /\ RestartLine \in Nat
           /\ RestartLine = 0 => lineNo = Len(executed)
           /\ RestartLine # 0 => RestartLine > Len(executed) /\ (RestartLine <= lineNo \/ RestartLine = Len(executed) + 1)
<1>1. resync
  OBVIOUS
<1>n. Len(executed) \in Nat /\ lineNo \in Nat /\ resendFrom \in Nat /\ Len(executed) <= lineNo /\ lastGood = Len(executed)
  BY <1>1, NumbersTyped DEF StreamInv, NumberInv
<1>4. resendFrom # 0 => resendFrom > Len(executed) /\ (resendFrom <= lineNo \/ resendFrom = Len(executed) + 1)
  BY DEF StreamInv, NumberInv
<1>5. OldestPrintLine \in Nat /\ (OldestPrintLine = 0 => lineNo = 0)
  <2>1. \E p \in 1..Len(fifo) : fifo[p].type = "print"
    BY <1>1 DEF StreamInv, PendingInv
  <2>2. Positions("print") # {} /\ Positions("print") \in SUBSET (1..7) /\ Positions("print") \subseteq 1..Len(fifo)
    BY <2>1, PositionsShort DEF Positions, TypeInv
  <2>3. PICK p \in Positions("print") : p = Min(Positions("print"))
    BY <2>2, MinIn
  <2>4. p \in 1..Len(fifo) /\ fifo[p].type = "print" /\ OldestPrintLine = fifo[p].n
    BY <2>2, <2>3 DEF OldestPrintLine, Positions
  <2>5. fifo[p].n = 0 => lineNo = 0
    BY <2>4 DEF StreamInv, FifoInv, SlotsInv, M110Slot
  <2> QED BY <2>4, <2>5, NumbersTyped
<1>6. RestartLine = 0 => lineNo = Len(executed)
  BY ONLY <1>n, <1>5 DEF RestartLine
<1>7. RestartLine # 0 => RestartLine > Len(executed) /\ (RestartLine <= lineNo \/ RestartLine = Len(executed) + 1)
  <2>1. CASE resendFrom # 0
    BY <1>4, <2>1 DEF RestartLine
  <2>2. CASE resendFrom = 0 /\ lastGood # 0
    <3>1. RestartLine = Len(executed) + 1
      BY <1>n, <2>2 DEF RestartLine
    <3> QED BY ONLY <1>n, <3>1
  <2>3. CASE resendFrom = 0 /\ lastGood = 0
    <3>1. RestartLine = OldestPrintLine /\ Len(executed) = 0
      BY <1>n, <2>3 DEF RestartLine
    <3>2. OldestPrintLine <= lineNo
      <4>1. \A p \in 1..Len(fifo) : fifo[p].type = "print" => fifo[p].n <= lineNo
        <5>1. \A p \in 1..Len(fifo) : fifo[p].type = "print" /\ fifo[p].n # 0 => fifo[p].n <= lineNo
          BY DEF StreamInv, FifoInv, SlotsInv, LineSlot
        <5> QED BY ONLY <1>n, <5>1
      <4>2. OldestPrintLine = 0 \/ \E p \in 1..Len(fifo) : fifo[p].type = "print" /\ OldestPrintLine = fifo[p].n
        <5>1. ASSUME Positions("print") # {} PROVE \E p \in 1..Len(fifo) : fifo[p].type = "print" /\ OldestPrintLine = fifo[p].n
          <6>1. Positions("print") \in SUBSET (1..7) /\ Positions("print") \subseteq 1..Len(fifo)
            BY PositionsShort DEF Positions, TypeInv
          <6>2. PICK p \in Positions("print") : p = Min(Positions("print"))
            BY <5>1, <6>1, MinIn
          <6> QED BY <5>1, <6>1, <6>2 DEF OldestPrintLine, Positions
        <5> QED BY <5>1 DEF OldestPrintLine
      <4> QED BY ONLY <1>n, <4>1, <4>2
    <3> QED BY ONLY <1>n, <1>5, <3>1, <3>2
  <2> QED BY <2>1, <2>2, <2>3
<1>8. RestartLine \in Nat
  BY ONLY <1>n, <1>5 DEF RestartLine
<1> QED
  BY <1>6, <1>7, <1>8

\* The engine starts again where the printer is.
LEMMA RestartNumbers ==
    ASSUME AckAssumption, TypeInv, StreamInv, Resynchronise, Running'
    PROVE  /\ rx = <<>> /\ (alive => wire = <<>>) /\ UNCHANGED <<wire, rx, alive, executed, start, lineNo>> /\ fifo' = <<>> /\ ~resync'
           /\ resendFrom' # 0 => resendFrom' > Len(executed) /\ resendFrom' <= lineNo
           /\ resendFrom' = 0 => lineNo = Len(executed)
<1>1. resync /\ rx = <<>> /\ (alive => wire = <<>>)
  BY DEF Resynchronise, Quiet, AckAssumption
<1>2. UNCHANGED <<alive, executed, start, lineNo>> /\ fifo' = <<>> /\ ~resync'
  BY DEF Resynchronise, lineVars
<1>3. /\ UNCHANGED <<wire, rx>>
      /\ \/ (RestartLine = 0 \/ RestartLine > lineNo) /\ resendFrom' = 0
         \/ RestartLine \in 1..lineNo /\ resendFrom' = RestartLine
  BY DEF Resynchronise, Leave, Running
<1>n. Len(executed) \in Nat /\ lineNo \in Nat /\ Len(executed) <= lineNo
  BY NumbersTyped DEF StreamInv, NumberInv
<1>6. /\ RestartLine \in Nat
      /\ RestartLine = 0 => lineNo = Len(executed)
      /\ RestartLine # 0 => RestartLine > Len(executed) /\ (RestartLine <= lineNo \/ RestartLine = Len(executed) + 1)
  BY <1>1, RestartAhead
<1>8. RestartLine > lineNo => lineNo = Len(executed)
  BY ONLY <1>n, <1>6
<1>9. RestartLine \in 1..lineNo => RestartLine # 0 /\ RestartLine <= lineNo
  BY ONLY <1>n
<1> QED
  BY <1>1, <1>2, <1>3, <1>6, <1>8, <1>9

LEMMA ResyncNumbers ==
    ASSUME AckAssumption, TypeInv, StreamInv, Resynchronise, Running'
    PROVE  NumberInv' /\ WireInv'
<1>1. /\ rx = <<>> /\ (alive => wire = <<>>) /\ UNCHANGED <<wire, rx, alive, executed, start, lineNo>> /\ fifo' = <<>> /\ ~resync'
      /\ resendFrom' # 0 => resendFrom' > Len(executed) /\ resendFrom' <= lineNo
      /\ resendFrom' = 0 => lineNo = Len(executed)
  BY RestartNumbers
<1>2. Len(executed) <= lineNo /\ Len(rx') = 0
  BY <1>1 DEF StreamInv, NumberInv
<1>3. NumberInv' /\ ~ErrorComing'
  <2>1. \A i \in 1..Len(rx') : FALSE
    BY <1>2
  <2> QED BY <1>1, <1>2, <2>1 DEF NumberInv, ErrorComing
<1>4. ASSUME alive PROVE \A k \in 1..Len(wire') : FALSE
  <2>1. Len(wire') = 0
    BY <1>1, <1>4
  <2> QED BY <2>1
<1> QED
  BY <1>1, <1>3, <1>4 DEF WireInv, LinesAhead, LastLine, FinishLast, AskedAhead

\* A line goes out, the next one or one asked for again.
LEMMA LineNumbers ==
    ASSUME AckAssumption, TypeInv, OrderInv, StreamInv, NumberSent
    PROVE  NumberInv' /\ WireInv' /\ NextNumber > Len(executed)
<1>1. /\ RoomToSend /\ NextNumber # 0 /\ NextNumber \in Nat
      /\ Send(PrintMsg(NextNumber, start + NextNumber), PrintSlot(NextNumber, start + NextNumber))
      /\ NextNumber' = NextNumber + 1
      /\ lineNo' \in Nat /\ lineNo <= lineNo' /\ NextNumber <= lineNo'
      /\ resendFrom' = 0 => NextNumber = lineNo'
      /\ resendFrom' # 0 => resendFrom' = NextNumber + 1 /\ lineNo' = lineNo
      /\ UNCHANGED <<start, resync, lastGood>>
  BY NextLineSent DEF NumberSent
<1>2. /\ Len(wire') = Len(wire) + 1 /\ wire'[Len(wire) + 1] = PrintMsg(NextNumber, start + NextNumber)
      /\ \A i \in 1..Len(wire) : wire'[i] = wire[i]
      /\ Len(fifo') = Len(fifo) + 1
      /\ \A i \in 1..Len(fifo) : fifo'[i] = fifo[i]
      /\ UNCHANGED <<rx, executed, alive>>
  BY <1>1, SentShape
<1>n. Len(executed) \in Nat /\ lineNo \in Nat /\ resendFrom \in Nat /\ Len(wire) \in Nat
  BY NumbersTyped
<1>3. ~resync /\ NumberInv /\ FifoInv /\ (ErrorComing' <=> ErrorComing) /\ (Bad' <=> Bad)
  BY <1>1, <1>2 DEF RoomToSend, StreamInv, ErrorComing, Bad
<1>4. NextNumber > Len(executed) /\ (resendFrom # 0 => NextNumber = resendFrom)
  <2>1. Len(executed) <= lineNo /\ (resendFrom # 0 => resendFrom > Len(executed))
    BY <1>3 DEF NumberInv
  <2> QED BY ONLY <1>n, <2>1 DEF NextNumber
<1>5. NumberInv'
  <2>1. Len(executed) <= lineNo'
    <3>1. Len(executed) <= lineNo
      BY <1>3 DEF NumberInv
    <3> QED BY ONLY <1>1, <1>n, <3>1
  <2>2. resendFrom' # 0 => resendFrom' > Len(executed) /\ resendFrom' <= lineNo'
    <3>1. ASSUME resendFrom' # 0 PROVE resendFrom' > Len(executed) /\ resendFrom' <= lineNo'
      <4>1. resendFrom' = NextNumber + 1 /\ NextNumber' = resendFrom' /\ ResendLine
        <5>1. ~SendLine
          BY <3>1 DEF SendLine, NothingBefore, resyncVars
        <5> QED BY <1>1, <3>1, <5>1 DEF NumberSent, NextNumber
      <4>2. resendFrom' <= lineNo'
        <5>1. resendFrom # 0 /\ resendFrom \in Nat /\ resendFrom' \in {IF resendFrom < lineNo THEN resendFrom + 1 ELSE 0, resendFrom} /\ lineNo' = lineNo
          BY <1>1, <1>n, <3>1, <4>1 DEF ResendLine
        <5>2. resendFrom' # resendFrom
          BY ONLY <1>1, <1>4, <4>1, <5>1
        <5> QED BY ONLY <1>n, <3>1, <5>1, <5>2
      <4>3. resendFrom' > Len(executed)
        BY ONLY <1>1, <1>4, <1>n, <4>1
      <4> QED BY <4>2, <4>3
    <3> QED BY <3>1
  <2>3. \A i \in 1..Len(rx) : rx[i].kind = "error" => rx[i].last = Len(executed) /\ rx[i].resend \in {0, Len(executed) + 1}
    BY <1>3 DEF NumberInv
  <2> QED BY <1>1, <1>2, <1>3, <2>1, <2>2, <2>3 DEF NumberInv
<1>6. ASSUME alive PROVE LinesAhead' /\ LastLine' /\ FinishLast' /\ AskedAhead'
  <2>1. LinesAhead /\ LastLine /\ FinishLast /\ AskedAhead
    BY <1>6 DEF StreamInv, WireInv
  <2>2. ~(1 \in 1..Len(fifo) /\ M110Slot(1))
    BY <1>1, <1>3, NoM110WhenSending
  <2>3. Bad => NextNumber > Len(executed) + 1
    BY <1>3, <2>1, <2>2 DEF Bad, AskedAhead
  <2>p. PICK p \in Nat : p = Len(wire) + 1
    BY <1>n
  <2>4. \A k \in 1..Len(wire') : k \in 1..Len(wire) \/ k = p
    <3>1. Len(wire') = Len(wire) + 1
      BY <1>2
    <3> QED BY ONLY <1>n, <2>p, <3>1
  <2>5. wire'[p].type = "print" /\ wire'[p].n = NextNumber /\ p \in 1..Len(wire')
    <3>1. wire'[p] = PrintMsg(NextNumber, start + NextNumber)
      BY <1>2, <2>p
    <3>2. Len(wire') = Len(wire) + 1
      BY <1>2
    <3>3. p \in 1..Len(wire')
      BY ONLY <1>n, <2>p, <3>2
    <3> QED BY ONLY <3>1, <3>3 DEF PrintMsg
  <2>6. \A k \in 1..Len(wire) : wire'[k] = wire[k]
    BY <1>2
  <2>7. executed' = executed
    BY <1>2
  <2>8. LinesAhead'
    BY ONLY <1>3, <1>4, <2>1, <2>3, <2>4, <2>5, <2>6, <2>7 DEF LinesAhead, Numbered
  <2>9. LastLine'
    <3>1. resendFrom' = 0 => Numbered(p)' /\ wire'[p].n = lineNo'
      BY <1>1, <2>5 DEF Numbered
    <3> QED BY ONLY <2>5, <3>1 DEF LastLine
  <2>10. FinishLast'
    <3>1. ASSUME ~Bad, NEW k \in 1..Len(wire'), wire'[k].type = "finish" PROVE FALSE
      <4>1. k \in 1..Len(wire) /\ wire[k].type = "finish"
        BY <2>4, <2>5, <2>6, <3>1
      <4>2. resendFrom = 0 /\ EndOfFile
        BY <2>1, <3>1, <4>1 DEF FinishLast
      <4> QED BY <4>2 DEF NumberSent, SendLine, ResendLine
    <3> QED BY <1>3, <3>1 DEF FinishLast
  <2>11. AskedAhead'
    <3>1. Bad => NextNumber' > Len(executed') + 1
      <4>1. NextNumber' = NextNumber + 1 /\ NextNumber \in Nat
        BY <1>1
      <4>2. NextNumber > Len(executed) + 1 => NextNumber + 1 > Len(executed) + 1
        BY ONLY <1>n, <4>1
      <4> QED BY <2>3, <2>7, <4>1, <4>2
    <3> QED BY <1>3, <3>1 DEF AskedAhead, Bad
  <2> QED BY <2>8, <2>9, <2>10, <2>11
<1> QED
  BY <1>2, <1>4, <1>5, <1>6 DEF WireInv

\* A command that is not a line goes out; the end of the file only behind the last line.
LEMMA OtherNumbers ==
    ASSUME TypeInv, StreamInv, NEW msg, NEW slot, Send(msg, slot), msg.type # "print",
           UNCHANGED <<start, lineNo, resync, resendFrom, lastGood>>,
           msg.type = "finish" => resendFrom = 0 /\ EndOfFile
    PROVE  NumberInv' /\ WireInv'
<1>2. /\ Len(wire') = Len(wire) + 1 /\ wire'[Len(wire) + 1] = msg
      /\ \A i \in 1..Len(wire) : wire'[i] = wire[i]
      /\ Len(fifo') = Len(fifo) + 1
      /\ \A i \in 1..Len(fifo) : fifo'[i] = fifo[i]
      /\ UNCHANGED <<rx, executed, alive>>
  BY SentShape
<1>3. /\ (ErrorComing' <=> ErrorComing) /\ (Bad' <=> Bad) /\ NextNumber' = NextNumber /\ (EndOfFile' <=> EndOfFile)
      /\ UNCHANGED <<start, lineNo, resync, resendFrom, lastGood, rx, executed, alive>>
  BY <1>2 DEF ErrorComing, Bad, NextNumber, EndOfFile
<1>4. NumberInv'
  <2>1. NumberInv
    BY DEF StreamInv
  <2> QED BY ONLY <1>3, <2>1 DEF NumberInv
<1>n. Len(wire) \in Nat /\ Len(fifo) \in Nat
  BY WireSeq, FifoSeq
<1>6. ASSUME alive PROVE LinesAhead' /\ LastLine' /\ FinishLast' /\ AskedAhead'
  <2>1. LinesAhead /\ LastLine /\ FinishLast /\ AskedAhead
    BY <1>6 DEF StreamInv, WireInv
  <2>p. PICK p \in Nat : p = Len(wire) + 1
    BY <1>n
  <2>4. /\ \A k \in 1..Len(wire') : k \in 1..Len(wire) \/ k = p
        /\ \A k \in 1..Len(wire) : k \in 1..Len(wire') /\ k < p
    <3>1. Len(wire') = Len(wire) + 1
      BY <1>2
    <3> QED BY ONLY <1>n, <2>p, <3>1
  <2>5. wire'[p].type # "print" /\ wire'[p].type = msg.type
    BY <1>2, <2>p
  <2>6. \A k \in 1..Len(wire) : wire'[k] = wire[k]
    BY <1>2
  <2>7. /\ \A k \in 1..Len(wire) : (Numbered(k)' <=> Numbered(k))
        /\ \A k \in 1..Len(wire') : Numbered(k)' => k \in 1..Len(wire)
    BY ONLY <2>4, <2>5, <2>6 DEF Numbered
  <2>8. LinesAhead'
    BY ONLY <1>3, <2>1, <2>6, <2>7 DEF LinesAhead
  <2>9. LastLine'
    BY ONLY <1>3, <2>1, <2>4, <2>6, <2>7 DEF LastLine
  <2>10. FinishLast'
    <3>1. ASSUME ~Bad, NEW k \in 1..Len(wire'), wire'[k].type = "finish"
          PROVE  resendFrom = 0 /\ EndOfFile /\ \A j \in 1..Len(wire') : Numbered(j)' => j < k
      <4>1. CASE k = p
        <5>1. resendFrom = 0 /\ EndOfFile
          BY <2>5, <3>1, <4>1
        <5> QED BY <2>4, <2>7, <4>1, <5>1
      <4>2. CASE k # p
        <5>1. k \in 1..Len(wire) /\ wire[k].type = "finish"
          BY <2>4, <2>6, <3>1, <4>2
        <5> QED BY <2>1, <2>7, <3>1, <5>1 DEF FinishLast
      <4> QED BY <4>1, <4>2
    <3> QED BY <1>3, <3>1 DEF FinishLast
  <2>11. AskedAhead'
    <3>1. 1 \in 1..Len(fifo) => 1 \in 1..Len(fifo') /\ fifo'[1] = fifo[1]
      <4>1. Len(fifo') = Len(fifo) + 1
        BY <1>2
      <4>2. 1 \in 1..Len(fifo) => 1 \in 1..Len(fifo')
        BY ONLY <1>n, <4>1
      <4> QED BY <1>2, <4>2
    <3> QED BY ONLY <1>3, <2>1, <3>1 DEF AskedAhead, M110Slot
  <2> QED BY <2>8, <2>9, <2>10, <2>11
<1> QED
  BY <1>3, <1>4, <1>6 DEF WireInv

LEMMA StayNumbers ==
    ASSUME StreamInv, UNCHANGED <<start, lineNo, resync, resendFrom, lastGood, fifo, rx, wire, executed, alive>>
    PROVE  NumberInv' /\ WireInv'
BY DEF StreamInv, NumberInv, WireInv, LinesAhead, LastLine, FinishLast, AskedAhead, Bad, ErrorComing, NextNumber,
       EndOfFile, Numbered, M110Slot

\* A printer that fails says "start", or that it halts, or nothing.
LEMMA FailShape ==
    ASSUME TypeInv, PrinterFails
    PROVE  /\ ~alive' /\ UNCHANGED <<executed, runs>>
           /\ Len(rx) <= Len(rx') /\ Len(rx') \in Nat /\ \A i \in 1..Len(rx) : rx'[i] = rx[i]
           /\ \A i \in 1..Len(rx') : i \in 1..Len(rx) \/ rx'[i].kind \in {"start", "fatal"}
<1>0. ~alive' /\ UNCHANGED <<executed, runs>>
  BY DEF PrinterFails
<1>n. rx \in Seq(Answer) /\ Len(rx) \in Nat
  BY RxSeq
<1>1. CASE rx' = rx
  BY <1>0, <1>1, <1>n
<1>2. ASSUME NEW kind \in {"start", "fatal"}, rx' = Append(rx, Plain(kind))
      PROVE  /\ Len(rx) <= Len(rx') /\ Len(rx') \in Nat /\ \A i \in 1..Len(rx) : rx'[i] = rx[i]
             /\ \A i \in 1..Len(rx') : i \in 1..Len(rx) \/ rx'[i].kind \in {"start", "fatal"}
  <2>1. Plain(kind) \in Answer /\ Plain(kind).kind = kind
    BY AnswersTyped DEF Plain
  <2>2. Len(rx') = Len(rx) + 1 /\ rx'[Len(rx) + 1] = Plain(kind) /\ \A i \in 1..Len(rx) : rx'[i] = rx[i]
    BY <1>2, <1>n, <2>1, AppendProperties
  <2>3. Len(rx) \in Nat /\ Len(rx') = Len(rx) + 1
    BY <1>n, <2>2
  <2>4. Len(rx) <= Len(rx') /\ Len(rx') \in Nat
    BY ONLY <2>3, Successor
  <2>5. \A i \in 1..Len(rx') : i \in 1..Len(rx) \/ i = Len(rx) + 1
    <3>1. \A l \in Nat : \A i \in 1..(l + 1) : i \in 1..l \/ i = l + 1
      BY ONLY TRUE
    <3> QED BY ONLY <2>3, <3>1
  <2> QED BY <2>1, <2>2, <2>4, <2>5
<1>3. rx' = rx \/ \E kind \in {"start", "fatal"} : rx' = Append(rx, Plain(kind))
  BY DEF PrinterFails
<1> QED
  BY <1>0, <1>1, <1>2, <1>3

LEMMA FailNumbers ==
    ASSUME TypeInv, StreamInv, PrinterFails, UNCHANGED engineVars
    PROVE  NumberInv' /\ WireInv'
<1>1. /\ ~alive' /\ UNCHANGED <<executed, runs>>
      /\ \A i \in 1..Len(rx) : rx'[i] = rx[i]
      /\ \A i \in 1..Len(rx') : i \in 1..Len(rx) \/ rx'[i].kind \in {"start", "fatal"}
  BY FailShape
<1>2. UNCHANGED <<lineNo, resync, resendFrom, lastGood>>
  BY DEF engineVars, lineVars, resyncVars
<1>3. NumberInv
  BY DEF StreamInv
<1>4. \A i \in 1..Len(rx') : rx'[i].kind = "error" => i \in 1..Len(rx) /\ rx'[i] = rx[i]
  <2>1. "error" \notin {"start", "fatal"}
    OBVIOUS
  <2> QED BY ONLY <1>1, <2>1
<1> QED
  BY <1>1, <1>2, <1>3, <1>4 DEF NumberInv, WireInv

-----------------------------------------------------------------------------
(* Every step keeps the credit *)

LEMMA InitStream == ASSUME Init PROVE StreamInv
<1>1. /\ fifo = <<PrintSlot(0, 0)>> /\ wire = <<PrintMsg(0, 0)>> /\ rx = <<>> /\ executed = <<>>
      /\ ~resync /\ resendFrom = 0 /\ lineNo = 0
  BY DEF Init
<1>2. Len(fifo) = 1 /\ Len(wire) = 1 /\ Len(rx) = 0 /\ Len(executed) = 0 /\ fifo[1] = PrintSlot(0, 0) /\ wire[1] = PrintMsg(0, 0)
  BY <1>1
<1>3. \A k \in 1..Len(wire) : k = 1
  BY <1>2
<1>4. \A i \in 1..Len(rx) : FALSE
  BY <1>2
<1>5. ~ErrorComing /\ ~Bad
  BY <1>1, <1>4 DEF ErrorComing, Bad
<1>6. wire[1].type = "print" /\ wire[1].n = 0
  BY <1>2 DEF PrintMsg
<1>7. \A k \in 1..Len(wire) : ~Numbered(k) /\ wire[k].type # "finish"
  BY <1>3, <1>6 DEF Numbered
<1>8. NumberInv
  BY <1>1, <1>2, <1>4 DEF NumberInv
<1>9. WireInv
  BY <1>1, <1>2, <1>5, <1>7 DEF WireInv, LinesAhead, LastLine, FinishLast, AskedAhead
<1>10. Credited(0)
  <2>1. \A j \in 0..Len(rx) : j = 0
    BY <1>2
  <2>2. \A i \in 1..0 : FALSE
    OBVIOUS
  <2>3. SUFFICES ASSUME NEW j \in 0..Len(rx)
                 PROVE  /\ 0 + j <= Len(fifo)
                        /\ j > 0 /\ rx[j].kind = "ok T" => PollOrTemp(0 + j)
                        /\ \A i \in 1..(0 + j) : SlotDone(i)
    BY DEF Credited
  <2>4. j = 0 /\ 0 + j = 0
    BY <2>1
  <2> QED BY <1>2, <2>2, <2>4
<1>11. Aligned(0)
  <2>1. Matches(1, 1)
    <3>1. ~TempSlot(1)
      BY <1>2, MarlinAssumption DEF TempSlot, PrintSlot
    <3> QED BY <1>2, <3>1 DEF Matches, PrintMsg, PrintSlot
  <2>2. \A k \in 1..Len(wire) : 0 + Len(rx) + k = 1 /\ k = 1
    BY <1>2, <1>3
  <2>3. \A k \in 1..Len(wire) : Matches(0 + Len(rx) + k, k)
    BY <2>1, <2>2, Zenon
  <2> QED BY <1>2, <2>3 DEF Aligned
<1>12. CreditInv
  <2>1. CreditFor(0)
    BY <1>5, <1>10, <1>11 DEF CreditFor
  <2>2. 0 \in Nat
    OBVIOUS
  <2> QED BY <2>1, <2>2, Zenon DEF CreditInv
<1>13. PendingInv
  BY <1>1 DEF PendingInv
<1> QED
  BY <1>8, <1>9, <1>12, <1>13, FifoInvInit, WindowInit DEF StreamInv

\* The user command of the slots that stay is the one being carried out.
LEMMA AckManual ==
    ASSUME TypeInv, FifoInv, NEW k \in 1..Len(fifo), AckSlots(k), Running',
           UNCHANGED <<gWindow, lineVars, finishSent, resyncVars>>
    PROVE  \A i \in 1..Len(fifo') : ManualAt(i + k) => man' = man /\ man \in Manual
<1>1. FifoInv'
  BY FifoInvAck
<1>2. \A i \in 1..Len(fifo') : fifo'[i] = fifo[i + k]
  BY AckedShape
<1>3. man' = man \/ man' = NoCmd
  BY DEF AckSlots
<1>4. \A i \in 1..Len(fifo') : ManualAt(i + k) => man' \in Manual
  <2>1. \A i \in 1..Len(fifo') : fifo'[i].type = "manual" => man' \in Manual
    BY ONLY <1>1 DEF FifoInv, SlotsInv, ManualAt
  <2> QED BY ONLY <1>2, <2>1 DEF ManualAt
<1> QED
  BY <1>3, <1>4, StreamAssumption

\* No more slots are acknowledged than oks are owed.
LEMMA AckWithin ==
    ASSUME TypeInv, NEW d \in Nat, Credited(d), rx # <<>>, NEW k \in 1..Len(fifo),
           \/ k = 1 /\ Head(rx).kind = "ok"
           \/ Head(rx).kind = "ok T" /\ HasPoll /\ \A i \in 1..Len(fifo) : IsPoll(fifo[i]) => k <= i
    PROVE  k <= d + 1 /\ \A i \in 1..k : SlotDone(i)
<1>1. Len(rx) \in Nat /\ rx[1] = Head(rx) /\ Len(rx) # 0 /\ Len(fifo) \in Nat
  <2>1. rx \in Seq(Answer) /\ rx # <<>>
    BY RxSeq
  <2>2. Head(rx) = rx[1]
    BY ONLY <2>1, HeadTailProperties
  <2>3. Len(rx) # 0
    BY ONLY <2>1, EmptySeq
  <2> QED BY <2>2, <2>3, RxSeq, FifoSeq
<1>2. 1 \in 0..Len(rx)
  <2>1. Len(rx) \in Nat /\ Len(rx) # 0
    BY <1>1
  <2> QED BY ONLY <2>1
<1>3. Oks(1)
  <2>1. \A i \in 1..1 : rx[i] = Head(rx)
    BY <1>1, OneOnly
  <2> QED BY <2>1 DEF Oks
<1>4. /\ d + 1 <= Len(fifo)
      /\ rx[1].kind = "ok T" => PollOrTemp(d + 1)
      /\ \A i \in 1..(d + 1) : SlotDone(i)
  <2>1. PICK j \in 0..Len(rx) : j = 1
    BY <1>2
  <2>2. /\ d + j <= Len(fifo)
        /\ j > 0 /\ rx[j].kind = "ok T" => PollOrTemp(d + j)
        /\ \A i \in 1..(d + j) : SlotDone(i)
    BY <1>3, <2>1 DEF Credited
  <2>3. j > 0
    BY ONLY <2>1
  <2> QED BY <2>1, <2>2, <2>3
<1>5. k <= d + 1
  <2>1. d + 1 \in 1..Len(fifo) /\ 1 <= d + 1
    <3>1. Len(fifo) \in Nat /\ d + 1 <= Len(fifo)
      BY <1>1, <1>4
    <3> QED BY ONLY <3>1, d \in Nat
  <2>2. HasPoll /\ rx[1].kind = "ok T" => IsPoll(fifo[d + 1])
    BY <1>4 DEF PollOrTemp
  <2> QED BY <1>1, <2>1, <2>2
<1>6. \A i \in 1..k : i \in 1..(d + 1)
  BY ONLY <1>5, d \in Nat, k \in 1..Len(fifo)
<1> QED
  BY <1>4, <1>5, <1>6

LEMMA AcknowledgeKeeps ==
    ASSUME TypeInv, TypeInv', OrderInv, StreamInv, Acknowledge, Running'
    PROVE  CreditInv' /\ NumberInv' /\ WireInv'
<1>1. /\ ~resync /\ rx # <<>> /\ rx' = Tail(rx)
      /\ UNCHANGED <<gWindow, lineVars, finishSent, resyncVars>>
      /\ UNCHANGED <<wire, executed, runs, alive, start, lineNo, resync, resendFrom, lastGood>>
      /\ \E k \in 1..Len(fifo) :
            /\ AckSlots(k)
            /\ \/ k = 1 /\ Head(rx).kind = "ok"
               \/ Head(rx).kind = "ok T" /\ HasPoll /\ \A i \in 1..Len(fifo) : IsPoll(fifo[i]) => k <= i
  BY AcknowledgedSlots DEF lineVars, resyncVars
<1>2. PICK k \in 1..Len(fifo) :
         /\ AckSlots(k)
         /\ \/ k = 1 /\ Head(rx).kind = "ok"
            \/ Head(rx).kind = "ok T" /\ HasPoll /\ \A i \in 1..Len(fifo) : IsPoll(fifo[i]) => k <= i
  BY <1>1
<1>3. Head(rx).kind \in {"ok", "ok T"} /\ FifoInv
  BY <1>2 DEF StreamInv
<1>4. PICK d \in Nat : CreditFor(d)
  BY <1>1 DEF StreamInv, CreditInv
<1>5. k <= d + 1
  BY <1>1, <1>2, <1>4, AckWithin DEF CreditFor
<1>6. PICK e \in Nat : e + k = d + 1
  <2>1. d + 1 - k \in Nat /\ (d + 1 - k) + k = d + 1
    BY ONLY <1>5, d \in Nat, k \in 1..Len(fifo)
  <2> QED BY <2>1
<1>7. /\ k \in Nat /\ Len(fifo') = Len(fifo) - k
      /\ \A i \in 1..Len(fifo') : i + k \in 1..Len(fifo) /\ fifo'[i] = fifo[i + k]
      /\ \A i \in 1..Len(fifo') : ManualAt(i + k) => man' = man /\ man \in Manual
  <2>1. Len(fifo') = Len(fifo) - k /\ \A i \in 1..Len(fifo') : i + k \in 1..Len(fifo) /\ fifo'[i] = fifo[i + k]
    BY <1>2, AckedShape
  <2>2. \A i \in 1..Len(fifo') : ManualAt(i + k) => man' = man /\ man \in Manual
    BY <1>1, <1>2, <1>3, AckManual
  <2>3. k \in Nat
    BY ONLY k \in 1..Len(fifo)
  <2> QED BY <2>1, <2>2, <2>3
<1>8. CreditFor(e)'
  BY <1>1, <1>3, <1>4, <1>6, <1>7, CreditRead
<1>9. CreditInv'
  BY <1>8, Zenon DEF CreditInv
<1>10. NumberInv' /\ WireInv'
  <2>1. ~(ErrorComing /\ M110Slot(1) /\ 1 \in 1..Len(fifo))
    BY <1>1, <1>3, NoOkBeforeM110
  <2> QED BY <1>1, <1>3, <2>1, ReadNumbers
<1> QED
  BY <1>9, <1>10

LEMMA LostKeeps ==
    ASSUME AckAssumption, TypeInv, TypeInv', OrderInv, StreamInv, LostOrIgnored
    PROVE  CreditInv' /\ NumberInv' /\ WireInv'
<1>1. /\ rx # <<>> /\ rx' = Tail(rx) /\ Head(rx).kind \in {"ok", "ok T"}
      /\ UNCHANGED <<wire, executed, runs, alive, start, lineNo, resync, resendFrom, lastGood, fifo, man>>
  BY DEF LostOrIgnored, LoseAnswer, IgnoreOk, Received, engineVars, lineVars, resyncVars, manVars, AckAssumption
<1>2. NumberInv' /\ WireInv'
  BY <1>1, ReadNumbers
<1>3. ASSUME ~resync, NEW d \in Nat, CreditFor(d) PROVE \E e \in Nat : CreditFor(e)'
  <2>1. PICK e \in Nat : e = d + 1
    OBVIOUS
  <2>2. PICK k \in Nat : k = 0
    OBVIOUS
  <2>3. Len(fifo) \in Nat
    BY FifoSeq
  <2>4. e + k = d + 1 /\ Len(fifo) = Len(fifo) - k /\ \A i \in 1..Len(fifo) : i + k = i
    BY ONLY <2>1, <2>2, <2>3, d \in Nat
  <2>5. /\ Len(fifo') = Len(fifo) - k
        /\ \A i \in 1..Len(fifo') : i + k \in 1..Len(fifo) /\ fifo'[i] = fifo[i + k]
    BY <1>1, <2>4
  <2>6. \A i \in 1..Len(fifo) : ManualAt(i) => man \in Manual
    BY DEF StreamInv, FifoInv, SlotsInv
  <2>7. \A i \in 1..Len(fifo') : ManualAt(i + k) => man' = man /\ man \in Manual
    BY <1>1, <2>4, <2>6
  <2> QED BY <1>1, <1>3, <2>4, <2>5, <2>7, CreditRead
<1>4. CreditInv'
  <2>1. ~resync => \E d \in Nat : CreditFor(d)
    BY DEF StreamInv, CreditInv
  <2> QED BY <1>1, <1>3, <2>1, Zenon DEF CreditInv
<1> QED
  BY <1>2, <1>4

LEMMA PrinterKeeps ==
    ASSUME TypeInv, TypeInv', OrderInv, OrderInv', StreamInv, Printer
    PROVE  CreditInv' /\ NumberInv' /\ WireInv'
<1>1. alive /\ wire # <<>> /\ UNCHANGED resync
  BY PrinterShape DEF engineVars, resyncVars
<1>2. ASSUME ~resync, ~ErrorComing, Head(wire).type = "finish" PROVE start + Len(executed) = FileLen
  <2>1. LastLine /\ FinishLast /\ ~Bad
    BY <1>1, <1>2 DEF StreamInv, WireInv, Bad
  <2>2. 1 \in 1..Len(wire) /\ wire[1].type = "finish"
    BY <1>1, <1>2, WireSeq, HeadTailProperties, EmptySeq, LenProperties
  <2>3. resendFrom = 0 /\ EndOfFile /\ \A j \in 1..Len(wire) : Numbered(j) => j < 1
    BY <2>1, <2>2 DEF FinishLast
  <2>4. \A j \in 1..Len(wire) : ~Numbered(j)
    <3>1. \A j \in 1..Len(wire) : ~(j < 1)
      OBVIOUS
    <3> QED BY <2>3, <3>1
  <2>5. lineNo = Len(executed)
    BY <2>1, <2>3, <2>4 DEF LastLine
  <2> QED BY <2>3, <2>5 DEF EndOfFile
<1>3. CreditInv'
  <2>1. SlotsInv /\ (~resync => \E d \in Nat : CreditFor(d))
    BY DEF StreamInv, CreditInv, FifoInv
  <2>2. ASSUME ~resync, NEW d \in Nat, CreditFor(d) PROVE CreditFor(d)'
    BY <1>2, <2>1, <2>2, PrinterCredit
  <2> QED BY <1>1, <2>1, <2>2, Zenon DEF CreditInv
<1> QED
  BY <1>3, PrinterNumbers

LEMMA FailKeeps ==
    ASSUME TypeInv, TypeInv', OrderInv, OrderInv', StreamInv, PrinterFails, UNCHANGED engineVars
    PROVE  CreditInv' /\ NumberInv' /\ WireInv'
<1>1. /\ ~alive' /\ UNCHANGED <<executed, runs>>
      /\ Len(rx) <= Len(rx') /\ Len(rx') \in Nat /\ \A i \in 1..Len(rx) : rx'[i] = rx[i]
      /\ \A i \in 1..Len(rx') : i \in 1..Len(rx) \/ rx'[i].kind \in {"start", "fatal"}
  BY FailShape
<1>2. UNCHANGED <<fifo, start, man, resync>>
  BY DEF engineVars, lineVars, manVars, resyncVars
<1>3. /\ Len(executed) <= Len(executed') /\ (\A c \in Manual : runs[c] <= runs'[c]) /\ start + Len(executed') <= FileLen
  <2>1. start + Len(executed') <= FileLen
    BY <1>2, ExecutedBoundNext
  <2>2. Len(executed) \in Nat /\ runs \in [Manual -> Nat] /\ executed' = executed /\ runs' = runs
    BY <1>1, ExecutedSeq DEF TypeInv, MarlinTypeOK
  <2>3. Len(executed) <= Len(executed')
    <3>1. Len(executed) \in Nat /\ Len(executed') = Len(executed)
      BY <2>2
    <3> QED BY ONLY <3>1
  <2>4. \A c \in Manual : runs[c] <= runs'[c]
    BY ONLY <2>2
  <2> QED BY <2>1, <2>3, <2>4
<1>4. \A i \in 1..Len(fifo) : ManualAt(i) => man \in Manual
  BY DEF StreamInv, FifoInv, SlotsInv
<1>n. Len(rx) \in Nat
  BY RxSeq
<1>5. \A j \in 0..Len(rx') : Oks(j)' => j \in 0..Len(rx)
  <2>1. ASSUME NEW j \in 0..Len(rx'), Oks(j)' PROVE j \in 0..Len(rx)
    <3>1. \A i \in 1..j : i \in 1..Len(rx)
      <4>1. \A i \in 1..j : i \in 1..Len(rx')
        <5>1. Len(rx') \in Nat
          BY <1>1
        <5> QED BY ONLY <5>1, j \in 0..Len(rx')
      <4>2. "start" \notin {"ok", "ok T"} /\ "fatal" \notin {"ok", "ok T"}
        OBVIOUS
      <4>3. \A i \in 1..j : rx'[i].kind \in {"ok", "ok T"}
        BY <2>1 DEF Oks
      <4> QED BY <1>1, <4>1, <4>2, <4>3
    <3> QED BY ONLY <1>n, <3>1, j \in 0..Len(rx')
  <2> QED BY <2>1
<1>6. \A j \in 0..Len(rx) : Oks(j)' <=> Oks(j)
  BY <1>1, OksGrow
<1>7. ErrorComing' => ErrorComing
  <2>1. "error" \notin {"start", "fatal"}
    OBVIOUS
  <2> QED BY <1>1, <2>1 DEF ErrorComing
<1>8. ASSUME NEW d \in Nat, CreditFor(d) PROVE CreditFor(d)'
  <2>1. Credited(d) /\ (ErrorComing => Blocked(d))
    BY <1>8 DEF CreditFor
  <2>2. 0 \in Nat /\ \A j \in 0..Len(rx') : Oks(j)' => j <= Len(rx)
    BY <1>5, <1>n
  <2>3. Credited(d)'
    BY <1>1, <1>2, <1>3, <1>4, <2>1, <2>2, CreditGrow
  <2>4. ASSUME ErrorComing' PROVE Blocked(d)'
    <3>1. PICK p \in 1..Len(fifo) : fifo[p].type = "print" /\ \A j \in 0..Len(rx) : Oks(j) => d + j < p
      BY <1>7, <2>1, <2>4 DEF Blocked
    <3>2. fifo' = fifo /\ \A j \in 0..Len(rx') : Oks(j)' => d + j < p
      BY <1>2, <1>5, <1>6, <3>1
    <3> QED BY <3>1, <3>2, Zenon DEF Blocked
  <2> QED BY <1>1, <2>3, <2>4 DEF CreditFor
<1>9. CreditInv'
  <2>1. ~resync => \E d \in Nat : CreditFor(d)
    BY DEF StreamInv, CreditInv
  <2> QED BY <1>2, <1>8, <2>1, Zenon DEF CreditInv
<1> QED
  BY <1>9, FailNumbers

\* A line that asks for the temperature goes out while the window is one.
LEMMA TempThrottled ==
    ASSUME AckAssumption, TypeInv, NEW n \in Nat, start + n \in TempLines, Throttle <= throttle + n
    PROVE  throttle > 0
<1>1. start \in Starts /\ start \in Nat /\ throttle \in Nat /\ Throttle \in Nat
  BY EngineNumbers DEF TypeInv, EngineInv, EngineTypeOK
<1>2. start + n < start + Throttle
  BY <1>1 DEF AckAssumption
<1> QED
  BY <1>1, <1>2

LEMMA PollApart ==
    ASSUME AckAssumption, TypeInv, FifoInv, WindowInv, PollSent
    PROVE  PollsApart(PollSlot)
<1>1. PollSlot.type = "poll"
  BY DEF PollSlot
<1>2. CASE Probe
  BY <1>1, <1>2 DEF Probe, Silent, PollsApart
<1>3. CASE SendPoll
  <2>1. SUFFICES ASSUME NEW i \in 1..Len(fifo), TempSlot(i) PROVE FALSE
    BY <1>1 DEF PollsApart
  <2>2. Len(fifo) # 0
    <3>1. Len(fifo) \in Nat
      BY FifoSeq
    <3> QED BY <3>1
  <2>3. throttle = 0 /\ ~resync
    BY <1>3, <2>2 DEF SendPoll, RoomToSend
  <2>4. Throttle <= throttle + fifo[i].n /\ fifo[i].n \in Nat
    BY <2>1, <2>3, FifoSeq DEF WindowInv, TempSlot, PrintAt, Slot
  <2>5. fifo[i].n # 0
    <3>1. ASSUME fifo[i].n = 0 PROVE FALSE
      <4>1. fifo[i].after = 0
        BY <2>1, <3>1 DEF FifoInv, SlotsInv, M110Slot, TempSlot
      <4> QED BY <2>1, <4>1, MarlinAssumption DEF TempSlot
    <3> QED BY <3>1
  <2>6. fifo[i].after = start + fifo[i].n
    BY <2>1, <2>5 DEF FifoInv, SlotsInv, LineSlot, TempSlot
  <2>7. throttle > 0
    BY <2>1, <2>4, <2>6, TempThrottled DEF TempSlot
  <2> QED BY <2>3, <2>7
<1> QED
  BY <1>2, <1>3 DEF PollSent

LEMMA LineApart ==
    ASSUME AckAssumption, TypeInv, WindowInv, RoomToSend, NEW n \in Nat, n = NextNumber
    PROVE  PollsApart(PrintSlot(n, start + n))
<1>1. PrintSlot(n, start + n).type = "print" /\ PrintSlot(n, start + n).after = start + n
  BY DEF PrintSlot
<1>2. SUFFICES ASSUME start + n \in TempLines, HasPoll PROVE FALSE
  BY <1>1 DEF PollsApart
<1>3. Len(fifo) \in Nat /\ throttle \in Nat /\ Len(fifo) # 0
  BY <1>2, FifoSeq, EngineNumbers DEF HasPoll
<1>4. throttle = 0 /\ ~resync
  BY <1>3 DEF RoomToSend, EffWindow
<1>5. Throttle <= throttle + n
  BY <1>4 DEF WindowInv
<1> QED
  BY <1>2, <1>4, <1>5, TempThrottled

LEMMA SendKeepsCredit ==
    ASSUME TypeInv, OrderInv, StreamInv, ~resync, NEW msg, NEW slot, Send(msg, slot), PollsApart(slot),
           slot.type = msg.type, slot.n = msg.n, slot.after = msg.line, msg.type = "manual" => msg.cmd = man,
           UNCHANGED <<man, start, resync>>
    PROVE  CreditInv'
<1>1. PICK d \in Nat : CreditFor(d)
  BY DEF StreamInv, CreditInv
<1>2. CreditFor(d)'
  BY <1>1, CreditSend
<1> QED
  BY <1>2, Zenon DEF CreditInv

LEMMA LineKeeps ==
    ASSUME AckAssumption, TypeInv, OrderInv, StreamInv, NumberSent
    PROVE  CreditInv' /\ NumberInv' /\ WireInv'
<1>1. /\ RoomToSend /\ Send(PrintMsg(NextNumber, start + NextNumber), PrintSlot(NextNumber, start + NextNumber))
      /\ UNCHANGED <<man, start, resync>>
  BY NextLineSent DEF NumberSent
<1>2. ~resync
  BY <1>1 DEF RoomToSend
<1>3. PICK n \in Nat : n = NextNumber
  BY NumbersTyped
<1>4. Send(PrintMsg(n, start + n), PrintSlot(n, start + n))
  BY <1>1, <1>3
<1>5. LET m == PrintMsg(n, start + n)  s == PrintSlot(n, start + n)
      IN  s.type = m.type /\ s.n = m.n /\ s.after = m.line /\ m.type # "manual"
  BY DEF PrintMsg, PrintSlot
<1>6. CreditInv'
  <2>1. PollsApart(PrintSlot(n, start + n))
    BY <1>1, <1>3, LineApart DEF StreamInv
  <2> QED BY <1>1, <1>2, <1>4, <1>5, <2>1, SendKeepsCredit
<1> QED
  BY <1>6, LineNumbers

LEMMA OtherKeeps ==
    ASSUME AckAssumption, TypeInv, OrderInv, StreamInv, PollSent \/ SendFinish \/ SendManual
    PROVE  CreditInv' /\ NumberInv' /\ WireInv'
<1>1. CASE PollSent
  <2>1. ~resync /\ Send(PollMsg, PollSlot) /\ UNCHANGED <<start, lineNo, resync, resendFrom, lastGood, man>>
    BY <1>1 DEF PollSent, SendPoll, Probe, RoomToSend, lineVars, resyncVars, manVars
  <2>2. PollMsg.type = "poll" /\ PollSlot.type = PollMsg.type /\ PollSlot.n = PollMsg.n /\ PollSlot.after = PollMsg.line
    BY DEF PollMsg, PollSlot
  <2>3. PollsApart(PollSlot)
    BY <1>1, PollApart DEF StreamInv
  <2> QED BY <2>1, <2>2, <2>3, SendKeepsCredit, OtherNumbers
<1>2. CASE SendFinish
  <2>1. ~resync /\ Send(FinishMsg, FinishSlot) /\ UNCHANGED <<start, lineNo, resync, resendFrom, lastGood, man>> /\ resendFrom = 0 /\ EndOfFile
    BY <1>2 DEF SendFinish, NothingBefore, RoomToSend, lineVars, resyncVars, manVars
  <2>2. FinishMsg.type = "finish" /\ FinishSlot.type = FinishMsg.type /\ FinishSlot.n = FinishMsg.n /\ FinishSlot.after = FinishMsg.line
    BY DEF FinishMsg, FinishSlot
  <2>3. PollsApart(FinishSlot)
    BY DEF PollsApart, FinishSlot
  <2> QED BY <2>1, <2>2, <2>3, SendKeepsCredit, OtherNumbers
<1>3. CASE SendManual
  <2>1. ~resync /\ Send(ManualMsg(man), ManualSlot) /\ UNCHANGED <<start, lineNo, resync, resendFrom, lastGood, man>>
    BY <1>3 DEF SendManual, RoomToSend, lineVars, resyncVars
  <2>2. PICK c : c = man
    OBVIOUS
  <2>3. /\ ManualMsg(c).type = "manual" /\ ManualMsg(c).cmd = man
        /\ ManualSlot.type = ManualMsg(c).type /\ ManualSlot.n = ManualMsg(c).n /\ ManualSlot.after = ManualMsg(c).line
    BY <2>2 DEF ManualMsg, ManualSlot
  <2>4. Send(ManualMsg(c), ManualSlot)
    BY <2>1, <2>2
  <2>5. PollsApart(ManualSlot)
    BY DEF PollsApart, ManualSlot
  <2> QED BY <2>1, <2>3, <2>4, <2>5, SendKeepsCredit, OtherNumbers
<1> QED
  BY <1>1, <1>2, <1>3

LEMMA StayKeeps ==
    ASSUME TypeInv, StreamInv, DropAbandoned \/ ManualCommand \/ WindowOrPause
    PROVE  CreditInv' /\ NumberInv' /\ WireInv'
<1>1. /\ UNCHANGED <<start, lineNo, resync, resendFrom, lastGood, fifo, rx, wire, executed, alive, runs>>
      /\ UNCHANGED man \/ ~manSent \/ man \notin Manual
  BY StreamAssumption DEF DropAbandoned, ManualCommand, ManualWaiting, WindowOrPause, Pause, Resume, SetWindow, vars, engineVars,
         marlinVars, lineVars, resyncVars, manVars
<1>2. NumberInv' /\ WireInv'
  BY <1>1, StayNumbers
<1>3. SlotsInv /\ Len(fifo) \in Nat /\ Len(rx) \in Nat /\ Len(wire) \in Nat
  BY FifoSeq, RxSeq, WireSeq DEF StreamInv, FifoInv
<1>4. ASSUME NEW d \in Nat, CreditFor(d) PROVE CreditFor(d)'
  BY <1>1, <1>3, <1>4, CreditStays
<1>5. CreditInv'
  <2>1. ~resync => \E d \in Nat : CreditFor(d)
    BY DEF StreamInv, CreditInv
  <2> QED BY <1>1, <1>4, <2>1, Zenon DEF CreditInv
<1> QED
  BY <1>2, <1>5

LEMMA ResyncKeeps ==
    ASSUME AckAssumption, TypeInv, StreamInv, Resynchronise, Running'
    PROVE  CreditInv' /\ NumberInv' /\ WireInv'
<1>1. /\ rx = <<>> /\ (alive => wire = <<>>) /\ UNCHANGED <<wire, rx, alive>> /\ fifo' = <<>>
  BY RestartNumbers
<1>2. Len(rx') = 0 /\ Len(fifo') = 0 /\ (alive' => Len(wire') = 0)
  BY <1>1
<1>3. PICK d \in Nat : d = 0
  OBVIOUS
<1>4. Credited(d)'
  <2>1. \A j \in 0..Len(rx') : j = 0
    BY ONLY <1>2
  <2>2. \A i \in 1..0 : FALSE
    OBVIOUS
  <2>3. SUFFICES ASSUME NEW j \in 0..Len(rx')
                 PROVE  /\ d + j <= Len(fifo')
                        /\ j > 0 /\ rx'[j].kind = "ok T" => PollOrTemp(d + j)'
                        /\ \A i \in 1..(d + j) : SlotDone(i)'
    BY Zenon DEF Credited
  <2>4. j = 0
    BY <2>1
  <2>5. d + j = 0
    BY <1>3, <2>4
  <2> QED BY <1>2, <2>2, <2>4, <2>5
<1>5. ~ErrorComing'
  BY <1>2 DEF ErrorComing
<1>6. ASSUME alive' PROVE Aligned(d)'
  <2>1. \A k \in 1..Len(wire') : FALSE
    BY <1>2, <1>6
  <2>2. d + Len(rx') + Len(wire') = Len(fifo')
    BY ONLY <1>2, <1>3, <1>6
  <2> QED BY ONLY <2>1, <2>2 DEF Aligned
<1>7. CreditInv'
  <2>1. CreditFor(d)'
    BY <1>4, <1>5, <1>6 DEF CreditFor
  <2> QED BY <2>1, Zenon DEF CreditInv
<1> QED
  BY <1>7, ResyncNumbers

LEMMA ErrorKeeps ==
    ASSUME TypeInv, StreamInv, ErrorReported
    PROVE  CreditInv' /\ PendingInv' /\ NumberInv' /\ WireInv'
<1>1. resync' /\ fifo' = fifo /\ rx # <<>> /\ Head(rx).kind = "error" /\ rx' = Tail(rx)
  BY DEF ErrorReported, Received
<1>2. ErrorComing
  <2>1. 1 \in 1..Len(rx) /\ Head(rx) = rx[1]
    BY <1>1, ReadShape
  <2> QED BY <1>1, <2>1 DEF ErrorComing
<1>3. \E p \in 1..Len(fifo) : fifo[p].type = "print"
  <2>1. CASE resync
    BY <2>1 DEF StreamInv, PendingInv
  <2>2. CASE ~resync
    <3>1. PICK d \in Nat : Blocked(d)
      BY <1>2, <2>2 DEF StreamInv, CreditInv, CreditFor
    <3> QED BY <3>1 DEF Blocked
  <2> QED BY <2>1, <2>2
<1>4. CreditInv' /\ PendingInv'
  BY <1>1, <1>3 DEF CreditInv, PendingInv
<1> QED
  BY <1>4, ErrorNumbers

LEMMA PendingKeeps ==
    ASSUME TypeInv, StreamInv, [Next]_vars, Running', ~ErrorReported
    PROVE  PendingInv'
<1>1. SUFFICES ASSUME resync' PROVE PendingInv'
  BY DEF PendingInv
<1>2. CASE Printer \/ LostOrIgnored \/ DropAbandoned \/ ManualCommand \/ WindowOrPause \/ (PrinterFails /\ UNCHANGED engineVars)
  <2>1. UNCHANGED <<resync, fifo>>
    BY <1>2 DEF Printer, LostOrIgnored, IgnoreOk, DropAbandoned, ManualCommand, WindowOrPause, Pause, Resume, SetWindow,
           vars, engineVars, resyncVars
  <2> QED BY <2>1 DEF StreamInv, PendingInv
<1>3. CASE Acknowledge
  <2>1. ~resync /\ UNCHANGED resync
    BY <1>3, AcknowledgedSlots DEF resyncVars
  <2> QED BY <1>1, <2>1
<1>4. CASE Resynchronise
  BY <1>1, <1>4 DEF Resynchronise
<1>5. CASE NumberSent \/ PollSent \/ SendFinish \/ SendManual
  <2>1. ~resync /\ UNCHANGED resync
    BY <1>5 DEF NumberSent, SendLine, ResendLine, PollSent, SendPoll, Probe, SendFinish, SendManual, RoomToSend, resyncVars
  <2> QED BY <1>1, <2>1
<1> QED
  BY <1>2, <1>3, <1>4, <1>5, RunningSteps

LEMMA StreamInvNext ==
    ASSUME AckAssumption, TypeInv, TypeInv', OrderInv, OrderInv', StreamInv, [Next]_vars, Running'
    PROVE  StreamInv'
<1>1. FifoInv' /\ WindowInv'
  BY FifoInvNext, WindowNext DEF StreamInv
<1>2. PendingInv'
  BY ErrorKeeps, PendingKeeps
<1>3. CreditInv' /\ NumberInv' /\ WireInv'
  BY RunningSteps, PrinterKeeps, LostKeeps, AcknowledgeKeeps, ErrorKeeps, ResyncKeeps, LineKeeps, OtherKeeps, StayKeeps, FailKeeps
<1> QED
  BY <1>1, <1>2, <1>3 DEF StreamInv

-----------------------------------------------------------------------------
(* What follows for the journal, for users and for the end of the print *)

\* What was confirmed, answered and reported is done.
ResultInv ==
    /\ gBytesDone <= start + Len(executed)
    /\ \A c \in Manual : answered[c] = "ok" => runs[c] > 0
    /\ why = "finished" => start + Len(executed) = FileLen

LEMMA AckResult ==
    ASSUME TypeInv, OrderInv, StreamInv, ResultInv, Acknowledge
    PROVE  ResultInv'
<1>1. /\ ~resync /\ rx # <<>>
      /\ UNCHANGED <<start, executed, runs>>
      /\ \E k \in 1..Len(fifo) :
            /\ AckSlots(k)
            /\ \/ k = 1 /\ Head(rx).kind = "ok"
               \/ Head(rx).kind = "ok T" /\ HasPoll /\ \A i \in 1..Len(fifo) : IsPoll(fifo[i]) => k <= i
  BY AcknowledgedSlots DEF lineVars
<1>2. PICK k \in 1..Len(fifo) :
         /\ AckSlots(k)
         /\ \/ k = 1 /\ Head(rx).kind = "ok"
            \/ Head(rx).kind = "ok T" /\ HasPoll /\ \A i \in 1..Len(fifo) : IsPoll(fifo[i]) => k <= i
  BY <1>1
<1>3. PICK d \in Nat : CreditFor(d)
  BY <1>1 DEF StreamInv, CreditInv
<1>4. \A i \in 1..k : SlotDone(i)
  BY <1>1, <1>2, <1>3, AckWithin DEF CreditFor
<1>5. \A i \in 1..Len(fifo) : i <= k => i \in 1..k
  BY ONLY k \in 1..Len(fifo)
<1>6. \A i \in Positions("finish") : i <= k => start + Len(executed) = FileLen
  BY <1>4, <1>5 DEF Positions, SlotDone
<1>7. \A i \in Positions("print") : i <= k => fifo[i].after <= start + Len(executed)
  BY <1>4, <1>5 DEF Positions, SlotDone
<1>8. \A i \in Positions("manual") : i <= k => runs[man] > 0
  BY <1>4, <1>5 DEF Positions, SlotDone
<1>9. gBytesDone' <= start + Len(executed)
  <2>1. CASE \E i \in Positions("finish") : i <= k
    <3>1. gBytesDone' = FileLen /\ start + Len(executed) = FileLen
      BY <1>2, <1>6, <2>1 DEF AckSlots
    <3> QED BY <3>1, EngineNumbers
  <2>2. CASE ~(\E i \in Positions("finish") : i <= k) /\ {i \in Positions("print") : i <= k} # {}
    <3> DEFINE lines == {i \in Positions("print") : i <= k}
    <3>1. lines \in SUBSET (1..7) /\ lines # {}
      BY <2>2, PositionsShort DEF TypeInv
    <3>2. Max(lines) \in lines
      BY <3>1, MaxIn
    <3>3. gBytesDone' = fifo[Max(lines)].after
      BY <1>2, <2>2 DEF AckSlots
    <3> QED BY <1>7, <3>2, <3>3
  <2>3. CASE ~(\E i \in Positions("finish") : i <= k) /\ {i \in Positions("print") : i <= k} = {}
    <3>1. gBytesDone' = gBytesDone
      BY <1>2, <2>3 DEF AckSlots
    <3> QED BY <3>1 DEF ResultInv
  <2> QED BY <2>1, <2>2, <2>3
<1>10. ASSUME NEW c \in Manual, answered'[c] = "ok" PROVE runs[c] > 0
  <2>1. answered'[c] = "ok" => answered[c] = "ok" \/ (c = man /\ \E i \in Positions("manual") : i <= k)
    BY <1>2 DEF AckSlots, AnswerPending
  <2> QED BY <1>8, <1>10, <2>1 DEF ResultInv
<1>11. why' = "finished" => start + Len(executed) = FileLen
  <2>1. why' = "finished" => why = "finished" \/ \E i \in Positions("finish") : i <= k
    BY <1>2 DEF AckSlots
  <2> QED BY <1>6, <2>1 DEF ResultInv
<1> QED
  BY <1>1, <1>9, <1>10, <1>11 DEF ResultInv

\* Nothing but an acknowledgement confirms, answers "ok" or finishes.
LEMMA NothingElseConfirms ==
    ASSUME [Next]_vars, ~Acknowledge
    PROVE  /\ UNCHANGED <<gBytesDone, start>>
           /\ \A c \in Manual : answered'[c] = "ok" => answered[c] = "ok"
           /\ why' = "finished" => why = "finished"
<1>1. CASE Printer \/ ((LoseAnswer \/ PrinterFails) /\ UNCHANGED engineVars) \/ UNCHANGED vars \/ IgnoreOk
  BY <1>1 DEF Printer, vars, engineVars, lineVars, manVars, IgnoreOk
<1>2. CASE LinkLost \/ WriteFails \/ StoppedResponding \/ Stop \/ RestartReported \/ FatalReported \/ LineTooLong
  BY <1>2 DEF LinkLost, WriteFails, StoppedResponding, Stop, LineTooLong, RestartReported, FatalReported, Leave, AnswerPending, lineVars
<1>3. CASE ErrorReported \/ SendPoll \/ Probe \/ SendManual \/ SendLine \/ SendFinish \/ DropAbandoned \/ Pause \/ Resume \/ SetWindow
  BY <1>3 DEF ErrorReported, SendPoll, Probe, SendManual, SendLine, SendFinish, DropAbandoned, Pause, Resume, SetWindow, lineVars, manVars
<1>4. CASE Resynchronise
  BY <1>4 DEF Resynchronise, ManualAfterResync, Leave, AnswerPending, lineVars
<1>5. CASE ResendLine
  BY <1>5 DEF ResendLine, Leave, AnswerPending, lineVars, manVars
<1>6. CASE ManualCommand
  <2>1. PICK x \in Manual : answered' = [answered EXCEPT ![x] = "waiting"]
    BY <1>6 DEF ManualCommand
  <2>2. UNCHANGED <<gBytesDone, start, why>>
    BY <1>6 DEF ManualCommand, lineVars
  <2>3. \A c \in Manual : answered'[c] = "ok" => answered[c] = "ok"
    <3>1. "waiting" # "ok"
      OBVIOUS
    <3> QED BY ONLY <2>1, <3>1
  <2> QED BY <2>2, <2>3
<1> QED
  BY <1>1, <1>2, <1>3, <1>4, <1>5, <1>6 DEF Next, Engine, Receive, Transmit, Users, Faults, Acknowledge

LEMMA ResultInit == ASSUME Init PROVE ResultInv
<1>1. gBytesDone = start /\ executed = <<>> /\ why = "none" /\ start \in Starts /\ answered = [c \in Manual |-> "new"]
  BY DEF Init
<1>2. Len(executed) = 0 /\ start \in Nat
  BY <1>1
<1> QED
  BY <1>1, <1>2 DEF ResultInv

\* The printer only ever carries out more.
LEMMA CarriesOn ==
    ASSUME TypeInv, [Next]_vars
    PROVE  Len(executed) <= Len(executed') /\ \A c \in Manual : runs[c] <= runs'[c]
<1>1. CASE Printer
  BY <1>1, PrinterShape, RunsGrow
<1>2. CASE UNCHANGED <<executed, runs>>
  BY <1>2, ExecutedSeq DEF TypeInv, MarlinTypeOK
<1>3. CASE Receive \/ Resynchronise \/ Users \/ UNCHANGED vars
  <2>1. UNCHANGED <<executed, runs>>
    BY <1>3 DEF Receive, IgnoreOk, AckOldest, AckThroughPoll, ErrorReported, RestartReported, FatalReported, Resynchronise,
                Users, Pause, Resume, Stop, ManualCommand, SetWindow, vars, marlinVars
  <2> QED BY <1>2, <2>1
<1>4. CASE SendPoll \/ Transmit \/ DropAbandoned \/ Probe \/ StoppedResponding \/ Faults
  <2>1. UNCHANGED <<executed, runs>>
    BY <1>4 DEF SendPoll, Transmit, ResendLine, SendManual, SendLine, LineTooLong, SendFinish, Send, DropAbandoned, Probe, StoppedResponding,
                Faults, LoseAnswer, PrinterFails, LinkLost, WriteFails, marlinVars
  <2> QED BY <1>2, <2>1
<1> QED
  BY <1>1, <1>3, <1>4 DEF Next, Engine

LEMMA ResultNext ==
    ASSUME TypeInv, TypeInv', OrderInv, OrderInv', Running => StreamInv, ResultInv, [Next]_vars
    PROVE  ResultInv'
<1>1. CASE Acknowledge
  <2>1. Running
    BY <1>1 DEF Acknowledge, AckOldest, AckThroughPoll, Received
  <2> QED BY <1>1, <2>1, AckResult
<1>2. CASE ~Acknowledge
  <2>1. /\ UNCHANGED <<gBytesDone, start>>
        /\ \A c \in Manual : answered'[c] = "ok" => answered[c] = "ok"
        /\ why' = "finished" => why = "finished"
    BY <1>2, NothingElseConfirms
  <2>2. Len(executed) <= Len(executed') /\ \A c \in Manual : runs[c] <= runs'[c]
    BY CarriesOn
  <2>3. start + Len(executed') <= FileLen
    BY <2>1, ExecutedBoundNext
  <2>4. Len(executed) \in Nat /\ start \in Nat /\ gBytesDone \in Nat /\ FileLen \in Nat
    BY ExecutedSeq, EngineNumbers
  <2>5. Len(executed') \in Nat
    BY ExecutedBoundNext, LenProperties DEF TypeInv, MarlinTypeOK
  <2>6. gBytesDone' <= start' + Len(executed')
    <3>1. gBytesDone <= start + Len(executed) /\ gBytesDone' = gBytesDone /\ start' = start
      BY <2>1 DEF ResultInv
    <3> QED BY ONLY <2>2, <2>4, <2>5, <3>1
  <2>7. why' = "finished" => start' + Len(executed') = FileLen
    <3>1. why' = "finished" => start + Len(executed) = FileLen /\ start' = start
      BY <2>1 DEF ResultInv
    <3> QED BY ONLY <2>2, <2>3, <2>4, <2>5, <3>1
  <2>8. ASSUME NEW c \in Manual, answered'[c] = "ok" PROVE runs'[c] > 0
    <3>1. runs[c] > 0 /\ runs[c] <= runs'[c] /\ runs[c] \in Nat /\ runs'[c] \in Nat
      BY <2>1, <2>2, <2>8 DEF ResultInv, TypeInv, MarlinTypeOK
    <3> QED BY ONLY <3>1
  <2> QED BY <2>6, <2>7, <2>8 DEF ResultInv
<1> QED
  BY <1>1, <1>2

\* What is true of every state; the streams themselves only while the print goes on.
AckInv == TypeInv /\ OrderInv /\ ResultInv /\ (Running => StreamInv)

LEMMA AckInit == AckAssumption /\ Init => AckInv
BY InitTyped, InitInOrder, ResultInit, InitStream DEF AckInv, AckAssumption

LEMMA AckNext == AckAssumption /\ AckInv /\ [Next]_vars => AckInv'
<1> SUFFICES ASSUME AckAssumption, AckInv, [Next]_vars PROVE AckInv'
  OBVIOUS
<1>1. TypeInv' /\ OrderInv'
  BY NextTyped, NextInOrder DEF AckInv
<1>2. ResultInv'
  BY <1>1, ResultNext DEF AckInv
<1>3. Running' => StreamInv'
  BY <1>1, StaysLeft, StreamInvNext DEF AckInv
<1> QED
  BY <1>1, <1>2, <1>3 DEF AckInv

LEMMA AckAlways == ASSUME AckAssumption PROVE Spec => []AckInv
<1>1. Init => AckInv
  BY AckInit
<1>2. AckInv /\ [Next]_vars => AckInv'
  BY AckNext
<1> QED
  BY <1>1, <1>2, PTL DEF Spec

\* The offset the journal stores and a resume starts from (gBytesDone, journalFlush) never runs
\* ahead of the printer: every ok is credited to a line that was executed.
THEOREM AckedCorrect == ASSUME AckAssumption PROVE Spec => []AckedWasExecuted
<1>1. AckInv => AckedWasExecuted
  BY DEF AckInv, ResultInv, AckedWasExecuted
<1> QED
  BY <1>1, AckAlways, PTL

\* A user whose command was answered "ok" (finishManual) can rely on the printer having executed it.
THEOREM OkMeansExecutedCorrect == ASSUME AckAssumption PROVE Spec => []OkMeansExecuted
<1>1. AckInv => OkMeansExecuted
  BY DEF AckInv, ResultInv, OkMeansExecuted
<1> QED
  BY <1>1, AckAlways, PTL

\* The print is only reported as finished when the last line of the file was executed.
THEOREM FinishedCorrect == ASSUME AckAssumption PROVE Spec => []FinishedMeansPrinted
<1>1. AckInv => FinishedMeansPrinted
  BY DEF AckInv, ResultInv, FinishedMeansPrinted
<1> QED
  BY <1>1, AckAlways, PTL

-----------------------------------------------------------------------------
(* The lines kept for a resend *)

\* The ring keeps at least as many lines as may be in flight.
HistAssumption == \A w \in Windows : w <= Hist

\* The line the printer wants next is in flight, or the next one out, or already behind.
CoveredBy(i) == LineSlot(i) /\ fifo[i].n <= Len(executed) + 1

Covered == NextNumber <= Len(executed) + 1 \/ \E i \in 1..Len(fifo) : CoveredBy(i)

\* Otherwise a resend has begun, and until one of its lines is acknowledged there is one in flight at most.
GapInv == ~resync /\ ~Covered => /\ throttle = Throttle
                                 /\ resendFrom # 0 \/ \E i \in 1..Len(fifo) : fifo[i].type = "print"

\* Every line the printer may still ask for is in its slot of the ring.
RingInv == /\ lineNo <= Len(executed) + Hist
           /\ \A n \in 1..lineNo : n + Hist > lineNo => hist[HistSlot(n)].n = n

KeptInv == GapInv /\ RingInv

LEMMA KeptInit == ASSUME Init PROVE KeptInv
<1>1. lineNo = 0 /\ resendFrom = 0 /\ executed = <<>>
  BY DEF Init
<1>2. NextNumber = 1 /\ Len(executed) = 0
  BY <1>1 DEF NextNumber
<1> QED
  BY <1>1, <1>2 DEF KeptInv, GapInv, RingInv, Covered

LEMMA KeptAhead ==
    ASSUME TypeInv, RingInv, NEW n \in 1..lineNo, n > Len(executed)
    PROVE  Kept(n)
<1>1. lineNo \in Nat /\ Len(executed) \in Nat /\ Hist \in Nat \ {0} /\ lineNo <= Len(executed) + Hist
  BY NumbersTyped DEF RingInv
<1>2. n + Hist > lineNo
  BY ONLY <1>1, n \in 1..lineNo, n > Len(executed)
<1>3. hist[n % Hist].n = n
  BY <1>2 DEF RingInv, HistSlot
<1>4. n % Hist \in 0..(Hist - 1)
  BY ONLY <1>1, n \in 1..lineNo
<1>5. DOMAIN hist = 0..(Hist - 1)
  BY DEF TypeInv, EngineInv, EngineTypeOK
<1> QED
  BY <1>3, <1>4, <1>5 DEF Kept

\* Nothing that only lets the printer go on, or only adds commands, opens a gap.
LEMMA GapStays ==
    ASSUME TypeInv, GapInv, UNCHANGED <<lineNo, resendFrom, throttle, resync>>,
           Len(executed) <= Len(executed'), Len(executed') \in Nat,
           Len(fifo) <= Len(fifo'), Len(fifo') \in Nat, \A i \in 1..Len(fifo) : fifo'[i] = fifo[i]
    PROVE  GapInv'
<1>n. Len(fifo) \in Nat /\ Len(executed) \in Nat /\ NextNumber \in Nat /\ \A i \in 1..Len(fifo) : fifo[i].n \in Nat
  BY NumbersTyped, FifoSeq
<1>1. NextNumber' = NextNumber
  BY DEF NextNumber
<1>2. \A i \in 1..Len(fifo) : i \in 1..Len(fifo')
  BY ONLY <1>n, Len(fifo) <= Len(fifo'), Len(fifo') \in Nat
<1>3. Covered => Covered'
  <2>1. NextNumber <= Len(executed) + 1 => NextNumber' <= Len(executed') + 1
    BY ONLY <1>n, <1>1, Len(executed) <= Len(executed'), Len(executed') \in Nat
  <2>2. ASSUME NEW i \in 1..Len(fifo), LineSlot(i), fifo[i].n <= Len(executed) + 1
        PROVE  i \in 1..Len(fifo') /\ CoveredBy(i)'
    <3>1. i \in 1..Len(fifo') /\ fifo'[i] = fifo[i] /\ fifo[i].n \in Nat
      BY <1>n, <1>2
    <3>2. fifo[i].n <= Len(executed') + 1
      BY ONLY <1>n, <2>2, <3>1, Len(executed) <= Len(executed'), Len(executed') \in Nat
    <3> QED BY <2>2, <3>1, <3>2 DEF LineSlot, CoveredBy
  <2> QED BY <2>1, <2>2 DEF Covered, CoveredBy
<1> QED
  BY <1>2, <1>3 DEF GapInv

LEMMA RingStays ==
    ASSUME TypeInv, RingInv, UNCHANGED <<lineNo, hist>>, Len(executed) <= Len(executed'), Len(executed') \in Nat
    PROVE  RingInv'
<1>1. lineNo' <= Len(executed') + Hist
  <2>1. lineNo \in Nat /\ Len(executed) \in Nat /\ Hist \in Nat /\ lineNo <= Len(executed) + Hist /\ lineNo' = lineNo
    BY NumbersTyped DEF RingInv
  <2> QED BY ONLY <2>1, Len(executed) <= Len(executed'), Len(executed') \in Nat
<1> QED
  BY <1>1 DEF RingInv, HistSlot

\* A line goes out only where it leaves enough of its predecessors in the ring.
LEMMA WindowFits ==
    ASSUME AckAssumption, HistAssumption, TypeInv, StreamInv, KeptInv, SendLine
    PROVE  lineNo + 1 <= Len(executed) + Hist
<1>1. Len(fifo) < EffWindow /\ ~resync /\ resendFrom = 0
  BY DEF SendLine, RoomToSend, NothingBefore
<1>n. /\ Len(fifo) \in Nat /\ Len(executed) \in Nat /\ lineNo \in Nat /\ Hist \in Nat /\ Hist >= 1
      /\ gWindow \in Windows /\ gWindow \in Nat /\ gWindow <= Hist
  BY NumbersTyped, FifoSeq DEF HistAssumption, TypeInv, EngineInv, EngineTypeOK
<1>2. Len(fifo) + 1 <= Hist
  <2>1. EffWindow = 1 \/ EffWindow = gWindow
    BY DEF EffWindow
  <2> QED BY ONLY <1>n, <1>1, <2>1
<1>3. NextNumber = lineNo + 1
  BY <1>1 DEF NextNumber
<1>4. Covered
  <2>1. SUFFICES ASSUME ~Covered PROVE FALSE
    OBVIOUS
  <2>2. throttle = Throttle /\ \E i \in 1..Len(fifo) : fifo[i].type = "print"
    BY <1>1, <2>1 DEF KeptInv, GapInv
  <2>3. EffWindow = 1
    <3>1. Throttle >= 1 /\ Throttle \in Nat
      BY DEF AckAssumption, StreamAssumption
    <3> QED BY ONLY <2>2, <3>1 DEF EffWindow
  <2>4. Len(fifo) = 0
    BY ONLY <1>n, <1>1, <2>3
  <2> QED BY <2>2, <2>4
<1>5. CASE NextNumber <= Len(executed) + 1
  BY ONLY <1>n, <1>3, <1>5
<1>6. ASSUME NEW i \in 1..Len(fifo), LineSlot(i), fifo[i].n <= Len(executed) + 1
      PROVE  lineNo + 1 <= Len(executed) + Hist
  <2>1. NextNumber <= fifo[i].n + (Len(fifo) - i) + 1 /\ fifo[i].n \in Nat
    BY <1>1, <1>6, NumbersTyped DEF StreamInv, FifoInv, OrderedInv
  <2> QED BY ONLY <1>n, <1>2, <1>3, <1>6, <2>1
<1> QED
  BY <1>4, <1>5, <1>6 DEF Covered, CoveredBy

LEMMA RingSend ==
    ASSUME AckAssumption, HistAssumption, TypeInv, StreamInv, KeptInv, SendLine
    PROVE  RingInv'
<1>1. /\ lineNo' = lineNo + 1 /\ UNCHANGED executed
      /\ hist' = [hist EXCEPT ![HistSlot(lineNo + 1)] = [n |-> lineNo + 1, line |-> NextLine]]
  BY DEF SendLine, Send
<1>2. lineNo' <= Len(executed') + Hist
  BY <1>1, WindowFits
<1>n. lineNo \in Nat /\ Hist \in Nat \ {0} /\ DOMAIN hist = 0..(Hist - 1)
  BY NumbersTyped DEF TypeInv, EngineInv, EngineTypeOK
<1>3. ASSUME NEW n \in 1..lineNo', n + Hist > lineNo' PROVE hist'[HistSlot(n)].n = n
  <2>1. CASE n = lineNo + 1
    <3>1. (lineNo + 1) % Hist \in DOMAIN hist
      BY ONLY <1>n
    <3> QED BY <1>1, <2>1, <3>1 DEF HistSlot
  <2>2. CASE n # lineNo + 1
    <3>1. n \in 1..lineNo /\ n \in Nat /\ lineNo + 1 \in Nat /\ n < lineNo + 1 /\ lineNo + 1 < n + Hist /\ n + Hist > lineNo
      BY ONLY <1>1, <1>n, <1>3, <2>2
    <3>2. n % Hist # (lineNo + 1) % Hist
      BY ONLY <1>n, <3>1, RingApart
    <3>3. hist[HistSlot(n)].n = n
      BY <3>1 DEF KeptInv, RingInv
    <3>4. n % Hist \in DOMAIN hist
      BY ONLY <1>n, <3>1
    <3> QED BY <1>1, <3>2, <3>3, <3>4 DEF HistSlot
  <2> QED BY <2>1, <2>2
<1> QED
  BY <1>2, <1>3 DEF RingInv

LEMMA GapLine ==
    ASSUME AckAssumption, TypeInv, OrderInv, StreamInv, GapInv, NumberSent
    PROVE  GapInv'
<1>1. /\ NextNumber # 0 /\ NextNumber \in Nat /\ UNCHANGED <<throttle, resync>>
      /\ Send(PrintMsg(NextNumber, start + NextNumber), PrintSlot(NextNumber, start + NextNumber))
  BY NextLineSent DEF NumberSent
<1>2. /\ Len(fifo') = Len(fifo) + 1 /\ fifo'[Len(fifo) + 1] = PrintSlot(NextNumber, start + NextNumber)
      /\ \A i \in 1..Len(fifo) : fifo'[i] = fifo[i]
      /\ UNCHANGED executed
  BY <1>1, SentShape
<1>n. Len(fifo) \in Nat
  BY FifoSeq
<1>3. PICK p \in 1..Len(fifo') : p = Len(fifo) + 1
  <2>1. Len(fifo) + 1 \in 1..Len(fifo')
    BY ONLY <1>2, <1>n
  <2> QED BY <2>1
<1>4. fifo'[p].type = "print" /\ fifo'[p].n = NextNumber
  BY <1>2, <1>3 DEF PrintSlot
<1>5. \A i \in 1..Len(fifo) : i \in 1..Len(fifo')
  BY ONLY <1>2, <1>n
<1>6. Covered => Covered'
  <2>1. ASSUME NextNumber <= Len(executed) + 1 PROVE CoveredBy(p)'
    BY <1>1, <1>2, <1>4, <2>1 DEF LineSlot, CoveredBy
  <2>2. ASSUME NEW i \in 1..Len(fifo), LineSlot(i), fifo[i].n <= Len(executed) + 1
        PROVE  i \in 1..Len(fifo') /\ CoveredBy(i)'
    BY <1>2, <1>5, <2>2 DEF LineSlot, CoveredBy
  <2> QED BY <2>1, <2>2 DEF Covered, CoveredBy
<1> QED
  BY <1>1, <1>4, <1>6 DEF GapInv

LEMMA GapAck ==
    ASSUME AckAssumption, TypeInv, StreamInv, GapInv, Acknowledge
    PROVE  GapInv'
<1>1. PICK k \in 1..Len(fifo) : AckSlots(k) /\ (\A i \in 1..k : SlotDone(i))
  <2>1. PICK k \in 1..Len(fifo) :
           /\ AckSlots(k)
           /\ \/ k = 1 /\ Head(rx).kind = "ok"
              \/ Head(rx).kind = "ok T" /\ HasPoll /\ \A i \in 1..Len(fifo) : IsPoll(fifo[i]) => k <= i
    BY AcknowledgedSlots
  <2>2. ~resync /\ rx # <<>>
    BY AcknowledgedSlots
  <2>3. PICK d \in Nat : CreditFor(d)
    BY <2>2 DEF StreamInv, CreditInv
  <2> QED BY <2>1, <2>2, <2>3, AckWithin DEF CreditFor
<1>2. ~resync /\ UNCHANGED <<lineNo, start, resync, resendFrom, executed>>
  BY AcknowledgedSlots DEF lineVars, resyncVars
<1>n. /\ Len(fifo) \in Nat /\ k \in Nat /\ Len(executed) \in Nat /\ lineNo \in Nat /\ start \in Nat
      /\ throttle \in Nat /\ resendFrom \in Nat /\ resendFrom <= lineNo
  BY <1>2, FifoSeq, NumbersTyped, EngineNumbers
<1>3. Len(fifo') = Len(fifo) - k /\ \A i \in 1..Len(fifo') : i + k \in 1..Len(fifo) /\ fifo'[i] = fifo[i + k]
  BY <1>1, AckedShape
<1>4. NextNumber' = NextNumber
  BY <1>2 DEF NextNumber
<1>5. ASSUME NEW j \in 1..Len(fifo), j > k PROVE j - k \in 1..Len(fifo') /\ fifo'[j - k] = fifo[j]
  <2>1. j - k \in 1..Len(fifo') /\ (j - k) + k = j
    BY ONLY <1>n, <1>3, <1>5
  <2> QED BY <1>3, <2>1
<1>6. CASE lineNo = 0
  <2>1. NextNumber = 1
    BY <1>n, <1>6 DEF NextNumber
  <2>2. NextNumber' <= Len(executed') + 1
    BY <1>2, <1>4, <1>n, <2>1
  <2> QED BY <2>2 DEF GapInv, Covered
<1>7. CASE lineNo # 0 /\ {i \in Positions("print") : i <= k} # {}
  <2> DEFINE lines == {i \in Positions("print") : i <= k}
  <2>1. lines \in SUBSET (1..7) /\ lines # {}
    BY <1>7, PositionsShort DEF TypeInv
  <2>2. Max(lines) \in lines /\ \A y \in lines : Max(lines) >= y
    BY <2>1, MaxIn
  <2>3. PICK m \in 1..Len(fifo) : m <= k /\ fifo[m].type = "print" /\ \A y \in lines : m >= y
    BY <2>2 DEF Positions
  <2>4. LineSlot(m)
    BY <1>7, <2>3 DEF LineSlot, M110Slot, StreamInv, FifoInv, SlotsInv
  <2>5. m \in 1..k
    BY ONLY <2>3, <1>n
  <2>6. fifo[m].after <= start + Len(executed) /\ fifo[m].after = start + fifo[m].n /\ fifo[m].n \in Nat
    BY <1>1, <2>3, <2>4, <2>5, NumbersTyped DEF SlotDone, StreamInv, FifoInv, SlotsInv
  <2>7. fifo[m].n <= Len(executed)
    BY ONLY <1>n, <2>6
  <2>8. CASE fifo[m].n + 1 = NextNumber
    <3>1. NextNumber' <= Len(executed') + 1
      BY <1>2, <1>4, <1>n, <2>6, <2>7, <2>8
    <3> QED BY <3>1 DEF GapInv, Covered
  <2>9. ASSUME NEW j \in 1..Len(fifo), m < j, LineSlot(j), fifo[j].n = fifo[m].n + 1 PROVE GapInv'
    <3>1. j \notin lines
      BY ONLY <2>3, <2>9
    <3>2. j > k
      BY <1>n, <2>9, <3>1 DEF Positions, LineSlot
    <3>3. j - k \in 1..Len(fifo') /\ fifo'[j - k] = fifo[j]
      BY <1>5, <3>2
    <3>4. PICK p \in 1..Len(fifo') : p = j - k
      BY <3>3
    <3>5. CoveredBy(p)'
      <4>1. fifo[j].n <= Len(executed) + 1
        BY ONLY <1>n, <2>6, <2>7, <2>9
      <4>2. fifo'[p] = fifo[j] /\ executed' = executed
        BY <1>2, <3>3, <3>4
      <4> QED BY ONLY <2>9, <4>1, <4>2 DEF LineSlot, CoveredBy
    <3> QED BY <3>5 DEF GapInv, Covered
  <2>10. fifo[m].n + 1 = NextNumber \/ \E j \in 1..Len(fifo) : m < j /\ LineSlot(j) /\ fifo[j].n = fifo[m].n + 1
    BY <1>2, <2>4 DEF StreamInv, FifoInv, OrderedInv
  <2> QED BY <2>8, <2>9, <2>10
<1>8. CASE {i \in Positions("print") : i <= k} = {}
  <2>1. Cardinality({}) = 0
    BY FS_EmptySet
  <2>2. throttle' = IF 0 >= throttle THEN 0 ELSE throttle - 0
    BY <1>1, <1>8, <2>1 DEF AckSlots
  <2>3. throttle = Throttle => throttle' = Throttle
    <3>1. Throttle >= 1
      BY DEF AckAssumption
    <3> QED BY ONLY <1>n, <2>2, <3>1
  <2>4. \A j \in 1..Len(fifo) : fifo[j].type = "print" => j > k
    BY <1>8, <1>n DEF Positions
  <2>5. Covered => Covered'
    <3>1. ASSUME NEW i \in 1..Len(fifo), LineSlot(i), fifo[i].n <= Len(executed) + 1
          PROVE  \E p \in 1..Len(fifo') : CoveredBy(p)'
      <4>1. i - k \in 1..Len(fifo') /\ fifo'[i - k] = fifo[i]
        BY <1>5, <2>4, <3>1 DEF LineSlot
      <4>2. PICK p \in 1..Len(fifo') : p = i - k
        BY <4>1
      <4>3. CoveredBy(p)'
        BY <1>2, <3>1, <4>1, <4>2 DEF LineSlot, CoveredBy
      <4> QED BY <4>3
    <3> QED BY <1>2, <1>4, <3>1 DEF Covered, CoveredBy
  <2>6. (\E i \in 1..Len(fifo) : fifo[i].type = "print") => \E i \in 1..Len(fifo') : fifo'[i].type = "print"
    BY <1>5, <2>4
  <2> QED BY <1>2, <2>3, <2>5, <2>6 DEF GapInv
<1> QED
  BY <1>6, <1>7, <1>8

LEMMA KeptNext ==
    ASSUME AckAssumption, HistAssumption, TypeInv, TypeInv', OrderInv, StreamInv, KeptInv, [Next]_vars, Running'
    PROVE  KeptInv'
<1>n. Len(executed) <= Len(executed') /\ Len(executed') \in Nat /\ Len(fifo') \in Nat
  <2>1. executed' \in Seq(1..FileLen) /\ fifo' \in Seq(Slot)
    BY DEF TypeInv, MarlinTypeOK, EngineInv, EngineTypeOK
  <2> QED BY <2>1, CarriesOn, LenProperties
<1>f. Len(fifo) \in Nat
  BY FifoSeq
<1>1. CASE Printer \/ LostOrIgnored \/ DropAbandoned \/ ManualCommand \/ WindowOrPause \/ (PrinterFails /\ UNCHANGED engineVars)
  <2>1. UNCHANGED <<fifo, lineNo, hist, throttle, resync, resendFrom>>
    BY <1>1 DEF Printer, LostOrIgnored, IgnoreOk, DropAbandoned, ManualCommand, WindowOrPause, Pause, Resume, SetWindow,
                vars, engineVars, lineVars, resyncVars
  <2>2. Len(fifo) <= Len(fifo') /\ \A i \in 1..Len(fifo) : fifo'[i] = fifo[i]
    BY <1>f, <2>1
  <2> QED BY <1>n, <2>1, <2>2, GapStays, RingStays DEF KeptInv
<1>2. CASE Acknowledge
  <2>1. UNCHANGED <<lineNo, hist>>
    BY <1>2, AcknowledgedSlots DEF lineVars
  <2> QED BY <1>2, <1>n, <2>1, GapAck, RingStays DEF KeptInv
<1>3. CASE ErrorReported
  <2>1. resync' /\ UNCHANGED <<lineNo, hist>>
    BY <1>3 DEF ErrorReported, lineVars
  <2> QED BY <1>n, <2>1, RingStays DEF KeptInv, GapInv
<1>4. CASE Resynchronise
  <2>1. UNCHANGED <<lineNo, hist, executed>> /\ throttle' = Throttle
    BY <1>4 DEF Resynchronise, lineVars
  <2>2. resendFrom' = 0 => lineNo = Len(executed)
    BY <1>4, RestartNumbers
  <2>3. lineNo \in Nat
    BY NumbersTyped
  <2>4. resendFrom' = 0 => Covered'
    BY <2>1, <2>2, <2>3 DEF Covered, NextNumber
  <2> QED BY <1>n, <2>1, <2>4, RingStays DEF KeptInv, GapInv
<1>5. CASE NumberSent
  <2>1. RingInv'
    <3>1. CASE SendLine
      BY <3>1, RingSend
    <3>2. CASE ResendLine
      BY <1>n, <3>2, RingStays DEF ResendLine, lineVars, KeptInv
    <3> QED BY <1>5, <3>1, <3>2 DEF NumberSent
  <2> QED BY <1>5, <2>1, GapLine DEF KeptInv
<1>6. CASE PollSent \/ SendFinish \/ SendManual
  <2>1. UNCHANGED <<lineNo, hist, throttle, resync, resendFrom>>
    BY <1>6 DEF PollSent, SendPoll, Probe, SendFinish, SendManual, lineVars, resyncVars
  <2>2. \E msg, slot : Send(msg, slot)
    BY <1>6 DEF PollSent, SendPoll, Probe, SendFinish, SendManual
  <2>3. Len(fifo') = Len(fifo) + 1 /\ \A i \in 1..Len(fifo) : fifo'[i] = fifo[i]
    BY <2>2, SentShape
  <2>4. Len(fifo) <= Len(fifo')
    BY ONLY <1>f, <2>3
  <2> QED BY <1>n, <2>1, <2>3, <2>4, GapStays, RingStays DEF KeptInv
<1> QED
  BY <1>1, <1>2, <1>3, <1>4, <1>5, <1>6, RunningSteps

\* Only the two places that look for a line to send again can miss it.
LEMMA WhyNotKept ==
    ASSUME [Next]_vars, ~Resynchronise, ~ResendLine, why' = "line no longer kept"
    PROVE  why = "line no longer kept"
<1>1. CASE Printer \/ Faults \/ UNCHANGED vars
  BY <1>1 DEF Printer, Faults, LinkLost, WriteFails, Leave, vars, engineVars
<1>2. CASE Receive
  BY <1>2 DEF Receive, IgnoreOk, AckOldest, AckThroughPoll, AckSlots, ErrorReported, RestartReported, FatalReported, Leave, engineVars
<1>3. CASE SendPoll \/ SendManual \/ SendLine \/ LineTooLong \/ SendFinish \/ DropAbandoned \/ Probe \/ StoppedResponding
  BY <1>3 DEF SendPoll, SendManual, SendLine, LineTooLong, RoomToSend, SendFinish, DropAbandoned, Probe, StoppedResponding, Leave
<1>4. CASE Users
  BY <1>4 DEF Users, Pause, Resume, Stop, ManualCommand, SetWindow, Leave
<1> QED
  BY <1>1, <1>2, <1>3, <1>4 DEF Next, Engine, Transmit

\* The line that is looked for is one the printer has not executed, and those are kept.
LEMMA NeverMissed ==
    ASSUME TypeInv, StreamInv, KeptInv, Resynchronise \/ ResendLine, why # "line no longer kept"
    PROVE  why' # "line no longer kept"
<1>1. CASE Resynchronise
  <2>1. RestartLine \in 1..lineNo => RestartLine # 0 /\ RestartLine > Len(executed)
    <3>1. RestartLine \in 1..lineNo => RestartLine # 0
      BY ONLY TRUE
    <3> QED BY <1>1, <3>1, RestartAhead DEF Resynchronise
  <2>2. RestartLine \in 1..lineNo => Kept(RestartLine)
    BY <2>1, KeptAhead DEF KeptInv
  <2> QED BY <1>1, <2>2 DEF Resynchronise
<1>2. CASE ResendLine
  <2>1. resendFrom # 0 /\ ~resync
    BY <1>2 DEF ResendLine, RoomToSend
  <2>2. resendFrom > Len(executed) /\ resendFrom \in 1..lineNo
    <3>1. resendFrom > Len(executed) /\ resendFrom <= lineNo /\ resendFrom \in Nat /\ lineNo \in Nat
      BY <2>1, EngineNumbers DEF StreamInv, NumberInv
    <3> QED BY ONLY <2>1, <3>1
  <2>3. Kept(resendFrom)
    BY <2>2, KeptAhead DEF KeptInv
  <2> QED BY <1>2, <2>3 DEF ResendLine
<1> QED
  BY <1>1, <1>2

ResendInv == AckInv /\ ResendAvailable /\ (Running => KeptInv)

\* The ring of lines kept for a resend (PrintRun::hist) is long enough: the printer never asks
\* for a line that was overwritten, so no print ends because of it.
THEOREM ResendAvailableCorrect ==
    ASSUME AckAssumption, HistAssumption
    PROVE  Spec => []ResendAvailable
<1>1. Init => ResendInv
  BY AckInit, KeptInit DEF ResendInv, ResendAvailable, Init
<1>2. ResendInv /\ [Next]_vars => ResendInv'
  <2> SUFFICES ASSUME ResendInv, [Next]_vars PROVE ResendInv'
    OBVIOUS
  <2>1. AckInv'
    BY AckNext DEF ResendInv
  <2>2. ResendAvailable'
    <3>1. CASE Resynchronise \/ ResendLine
      <4>1. Running
        BY <3>1 DEF Resynchronise, ResendLine, RoomToSend
      <4> QED BY <3>1, <4>1, NeverMissed DEF ResendInv, AckInv, ResendAvailable
    <3>2. CASE ~Resynchronise /\ ~ResendLine
      BY <3>2, WhyNotKept DEF ResendInv, ResendAvailable
    <3> QED BY <3>1, <3>2
  <2>3. Running' => KeptInv'
    BY <2>1, StaysLeft, KeptNext DEF ResendInv, AckInv
  <2> QED BY <2>1, <2>2, <2>3 DEF ResendInv
<1>3. ResendInv => ResendAvailable
  BY DEF ResendInv
<1> QED
  BY <1>1, <1>2, <1>3, PTL DEF Spec

-----------------------------------------------------------------------------
(* The streaming loop keeps the promise of OrderedPrint *)

\* What is in flight is not behind what was confirmed.
BytesInv == \A i \in 1..Len(fifo) : fifo[i].type = "print" => gBytesDone <= fifo[i].after

LEMMA BytesInit == ASSUME Starts = {0}, Init PROVE BytesInv
<1>1. fifo = <<PrintSlot(0, 0)>> /\ gBytesDone = 0
  BY DEF Init
<1>2. \A i \in 1..Len(fifo) : fifo[i].after = 0
  BY <1>1 DEF PrintSlot
<1> QED
  BY <1>1, <1>2 DEF BytesInv

LEMMA BytesStay ==
    ASSUME BytesInv, UNCHANGED <<gBytesDone, fifo>>
    PROVE  BytesInv'
BY DEF BytesInv

LEMMA BytesSend ==
    ASSUME TypeInv, BytesInv, NEW msg, NEW slot, Send(msg, slot), UNCHANGED gBytesDone,
           slot.type = "print" => gBytesDone <= slot.after
    PROVE  BytesInv'
<1>1. /\ Len(fifo') = Len(fifo) + 1 /\ fifo'[Len(fifo) + 1] = slot
      /\ \A i \in 1..Len(fifo) : fifo'[i] = fifo[i]
  BY SentShape
<1>2. Len(fifo) \in Nat
  BY FifoSeq
<1>3. \A i \in 1..Len(fifo') : i \in 1..Len(fifo) \/ i = Len(fifo) + 1
  BY ONLY <1>1, <1>2
<1> QED
  BY <1>1, <1>3 DEF BytesInv

\* Confirming never goes back, and never past what is still in flight.
LEMMA BytesAck ==
    ASSUME Starts = {0}, TypeInv, StreamInv, ResultInv, BytesInv, Acknowledge
    PROVE  /\ gBytesDone <= gBytesDone'
           /\ Running' => BytesInv'
<1>1. ~resync /\ \E k \in 1..Len(fifo) : AckSlots(k)
  BY AcknowledgedSlots
<1>2. PICK k \in 1..Len(fifo) : AckSlots(k)
  BY <1>1
<1>n. /\ Len(fifo) \in Nat /\ k \in Nat /\ Len(executed) \in Nat /\ lineNo \in Nat /\ gBytesDone \in Nat /\ FileLen \in Nat
      /\ gBytesDone <= FileLen /\ start = 0
  BY FifoSeq, NumbersTyped, EngineNumbers DEF TypeInv, EngineInv, EngineTypeOK
<1>3. Len(fifo') = Len(fifo) - k /\ \A i \in 1..Len(fifo') : i + k \in 1..Len(fifo) /\ fifo'[i] = fifo[i + k]
  BY <1>2, AckedShape
<1>4. \A i \in 1..Len(fifo) : fifo[i].after \in Nat /\ fifo[i].n \in Nat
  BY FifoSeq DEF Slot
<1>5. CASE \E i \in Positions("finish") : i <= k
  <2>1. gBytesDone' = FileLen /\ ~Running'
    BY <1>2, <1>5 DEF AckSlots, Running
  <2> QED BY <1>n, <2>1
<1>6. CASE ~(\E i \in Positions("finish") : i <= k) /\ {i \in Positions("print") : i <= k} # {}
  <2> DEFINE lines == {i \in Positions("print") : i <= k}
  <2>1. lines \in SUBSET (1..7) /\ lines # {}
    BY <1>6, PositionsShort DEF TypeInv
  <2>2. Max(lines) \in lines
    BY <2>1, MaxIn
  <2>3. gBytesDone' = fifo[Max(lines)].after
    BY <1>2, <1>6 DEF AckSlots
  <2>4. PICK m \in 1..Len(fifo) : m <= k /\ fifo[m].type = "print" /\ gBytesDone' = fifo[m].after
    BY <2>2, <2>3 DEF Positions
  <2>5. gBytesDone <= gBytesDone'
    BY <2>4 DEF BytesInv
  <2>6. ASSUME NEW i \in 1..Len(fifo'), fifo'[i].type = "print" PROVE gBytesDone' <= fifo'[i].after
    <3>1. PICK j \in 1..Len(fifo) : j = i + k /\ fifo'[i] = fifo[j] /\ fifo[j].type = "print"
      BY <1>3, <2>6
    <3>2. m < j /\ j # 1
      BY ONLY <1>n, <2>4, <3>1, i \in 1..Len(fifo'), Len(fifo') \in Nat, m \in 1..Len(fifo)
    <3>3. LineSlot(j) /\ fifo[j].after = start + fifo[j].n
      BY <3>1, <3>2 DEF LineSlot, M110Slot, StreamInv, FifoInv, SlotsInv
    <3>4. CASE fifo[m].n = 0
      <4>1. fifo[m].after = 0
        BY <2>4, <3>4 DEF M110Slot, StreamInv, FifoInv, SlotsInv
      <4> QED BY <1>4, <2>4, <3>1, <4>1
    <3>5. CASE fifo[m].n # 0
      <4>1. LineSlot(m)
        BY <2>4, <3>5 DEF LineSlot
      <4>2. fifo[m].after = start + fifo[m].n /\ fifo[m].n < fifo[j].n
        BY <1>1, <3>2, <3>3, <4>1 DEF StreamInv, FifoInv, SlotsInv, OrderedInv
      <4>3. fifo[m].n \in Nat /\ fifo[j].n \in Nat
        BY <1>4
      <4> QED BY ONLY <1>n, <2>4, <3>1, <3>3, <4>2, <4>3
    <3> QED BY <3>4, <3>5
  <2> QED BY <2>5, <2>6 DEF BytesInv
<1>7. CASE ~(\E i \in Positions("finish") : i <= k) /\ {i \in Positions("print") : i <= k} = {}
  <2>1. gBytesDone' = gBytesDone
    BY <1>2, <1>7 DEF AckSlots
  <2>2. BytesInv'
    BY <1>3, <2>1 DEF BytesInv
  <2> QED BY <1>n, <2>1, <2>2
<1> QED
  BY <1>5, <1>6, <1>7

LEMMA BytesNext ==
    ASSUME AckAssumption, Starts = {0}, TypeInv, OrderInv, StreamInv, ResultInv, BytesInv, [Next]_vars, Running'
    PROVE  BytesInv'
<1>1. CASE Printer \/ LostOrIgnored \/ DropAbandoned \/ ManualCommand \/ WindowOrPause \/ ErrorReported
           \/ (PrinterFails /\ UNCHANGED engineVars)
  <2>1. UNCHANGED <<fifo, gBytesDone>>
    BY <1>1 DEF Printer, LostOrIgnored, IgnoreOk, DropAbandoned, ManualCommand, WindowOrPause, Pause, Resume, SetWindow,
                ErrorReported, vars, engineVars
  <2> QED BY <2>1, BytesStay
<1>2. CASE Acknowledge
  BY <1>2, BytesAck
<1>3. CASE Resynchronise
  <2>1. fifo' = <<>>
    BY <1>3 DEF Resynchronise
  <2> QED BY <2>1 DEF BytesInv
<1>4. CASE NumberSent
  <2>1. Send(PrintMsg(NextNumber, start + NextNumber), PrintSlot(NextNumber, start + NextNumber)) /\ UNCHANGED gBytesDone
    BY <1>4, NextLineSent DEF NumberSent
  <2>2. NextNumber > Len(executed) /\ gBytesDone <= start + Len(executed)
    BY <1>4, LineNumbers DEF ResultInv
  <2>3. gBytesDone \in Nat /\ start \in Nat /\ NextNumber \in Nat /\ Len(executed) \in Nat
    BY EngineNumbers, NumbersTyped
  <2>4. gBytesDone <= start + NextNumber
    BY ONLY <2>2, <2>3
  <2>5. gBytesDone <= PrintSlot(NextNumber, start + NextNumber).after
    BY <2>4 DEF PrintSlot
  <2> QED BY <2>1, <2>5, BytesSend
<1>5. CASE PollSent \/ SendFinish
  <2>1. (Send(PollMsg, PollSlot) \/ Send(FinishMsg, FinishSlot)) /\ UNCHANGED gBytesDone
    BY <1>5 DEF PollSent, SendPoll, Probe, SendFinish
  <2>2. PollSlot.type # "print" /\ FinishSlot.type # "print"
    BY DEF PollSlot, FinishSlot
  <2> QED BY <2>1, <2>2, BytesSend
<1>6. CASE SendManual
  <2>1. Send(ManualMsg(man), ManualSlot) /\ UNCHANGED gBytesDone
    BY <1>6 DEF SendManual
  <2>2. ManualSlot.type # "print"
    BY DEF ManualSlot
  <2> QED BY <2>1, <2>2, BytesSend
<1> QED
  BY <1>1, <1>2, <1>3, <1>4, <1>5, <1>6, RunningSteps

\* Every step but an answer leaves the print going on, or gives it up.
LEMMA WhyChanges ==
    ASSUME [Next]_vars, ~Acknowledge
    PROVE  UNCHANGED why \/ (Running /\ why' \notin {"none", "finished"})
<1>1. CASE Printer \/ Faults \/ UNCHANGED vars
  BY <1>1 DEF Printer, Faults, LinkLost, WriteFails, RoomToSend, Leave, vars, engineVars
<1>2. CASE IgnoreOk \/ ErrorReported \/ RestartReported \/ FatalReported
  BY <1>2 DEF IgnoreOk, ErrorReported, RestartReported, FatalReported, Received, Leave, engineVars
<1>3. CASE SendPoll \/ SendManual \/ SendLine \/ LineTooLong \/ SendFinish \/ DropAbandoned \/ Probe \/ StoppedResponding
  BY <1>3 DEF SendPoll, SendManual, SendLine, LineTooLong, RoomToSend, SendFinish, DropAbandoned, Probe, StoppedResponding, Leave
<1>4. CASE Resynchronise \/ ResendLine
  BY <1>4 DEF Resynchronise, ResendLine, RoomToSend, Leave
<1>5. CASE Users
  BY <1>5 DEF Users, Pause, Resume, Stop, ManualCommand, SetWindow, Leave
<1> QED
  BY <1>1, <1>2, <1>3, <1>4, <1>5 DEF Next, Engine, Receive, Transmit, Acknowledge

LEMMA OnlyThePrinterExecutes ==
    ASSUME [Next]_vars, ~Printer
    PROVE  UNCHANGED executed
<1>1. CASE Receive \/ Resynchronise \/ Users \/ UNCHANGED vars
  BY <1>1 DEF Receive, IgnoreOk, AckOldest, AckThroughPoll, ErrorReported, RestartReported, FatalReported, Resynchronise,
              Users, Pause, Resume, Stop, ManualCommand, SetWindow, vars, marlinVars
<1>2. CASE SendPoll \/ Transmit \/ DropAbandoned \/ Probe \/ StoppedResponding \/ Faults
  BY <1>2 DEF SendPoll, Transmit, ResendLine, SendManual, SendLine, LineTooLong, SendFinish, Send, DropAbandoned, Probe, StoppedResponding,
              Faults, LoseAnswer, PrinterFails, LinkLost, WriteFails, marlinVars
<1> QED
  BY <1>1, <1>2 DEF Next, Engine

LEMMA ExecutesOne ==
    ASSUME TypeInv, Printer
    PROVE  \/ UNCHANGED executed
           \/ \E line \in Nat : executed' = Append(executed, line)
<1>1. CASE ExecuteLine
  <2>1. wire # <<>> /\ executed' = Append(executed, Head(wire).line)
    BY <1>1 DEF ExecuteLine, Reading
  <2>2. Head(wire).line \in Nat
    <3>1. Head(wire) \in Message
      BY <2>1, WireSeq, HeadTailProperties
    <3> QED BY <3>1 DEF Message
  <2> QED BY <2>1, <2>2
<1>2. CASE ~ExecuteLine
  BY <1>2 DEF Printer, MarlinStep, RejectDamaged, RejectOutOfSequence, ExecuteM110, ExecuteUnnumbered
<1> QED
  BY <1>1, <1>2

PromiseInv == AckInv /\ ColdInv /\ (Running => BytesInv)

LEMMA PromiseInit == ASSUME AckAssumption, Starts = {0}, Init PROVE PromiseInv /\ Promise!Init
<1>1. PromiseInv
  BY AckInit, ColdInit, BytesInit DEF PromiseInv
<1>2. start \in Starts /\ executed = <<>> /\ gBytesDone = start /\ why = "none"
  BY DEF Init
<1> QED
  BY <1>1, <1>2 DEF Promise!Init

LEMMA PromiseInvNext == AckAssumption /\ Starts = {0} /\ PromiseInv /\ [Next]_vars => PromiseInv'
<1> SUFFICES ASSUME AckAssumption, Starts = {0}, PromiseInv, [Next]_vars PROVE PromiseInv'
  OBVIOUS
<1>1. AckInv' /\ ColdInv'
  BY AckNext, ColdNext DEF PromiseInv, AckInv
<1>2. Running' => BytesInv'
  BY StaysLeft, BytesNext DEF PromiseInv, AckInv
<1> QED
  BY <1>1, <1>2 DEF PromiseInv

\* Every step of the loop is one of a print, or none, through the mapping.
LEMMA PromiseStep ==
    ASSUME AckAssumption, Starts = {0}, PromiseInv, PromiseInv', [Next]_vars
    PROVE  [Promise!Next]_(Promise!printVars)
<1>0. /\ TypeInv /\ OrderInv /\ ResultInv /\ (Running => StreamInv /\ BytesInv /\ why = "none")
      /\ TypeInv' /\ OrderInv' /\ ResultInv' /\ (Running' => why' = "none")
  BY DEF PromiseInv, AckInv, ColdInv
<1>n. start \in Nat /\ Len(executed) \in Nat /\ gBytesDone \in Nat /\ gBytesDone' \in Nat /\ FileLen \in Nat
  BY <1>0, EngineNumbers, ExecutedSeq DEF TypeInv, EngineInv, EngineTypeOK
<1>1. CASE Printer
  <2>1. UNCHANGED <<start, gBytesDone, why>>
    BY <1>1 DEF Printer, engineVars, lineVars
  <2>2. CASE UNCHANGED executed
    BY <2>1, <2>2 DEF Promise!printVars
  <2>3. ASSUME NEW line \in Nat, executed' = Append(executed, line)
        PROVE  Promise!Execute
    <3>1. Len(executed') = Len(executed) + 1 /\ executed'[Len(executed) + 1] = line
      BY <1>0, <2>3, ExecutedSeq, AppendProperties
    <3>2. Len(executed) + 1 \in 1..Len(executed')
      BY ONLY <1>n, <3>1
    <3>3. line = start + (Len(executed) + 1)
      BY <1>0, <2>1, <3>1, <3>2 DEF OrderInv, InOrder
    <3>4. start + Len(executed') <= FileLen
      BY <1>0, <2>1, ExecutedBoundNext
    <3>5. start + Len(executed) < FileLen /\ line = start + Len(executed) + 1
      BY ONLY <1>n, <3>1, <3>3, <3>4
    <3>6. why # "finished"
      BY <1>0, <1>n, <3>5 DEF ResultInv
    <3> QED BY <2>1, <2>3, <3>5, <3>6 DEF Promise!Execute, Promise!Done
  <2> QED BY <1>0, <1>1, <2>2, <2>3, ExecutesOne DEF Promise!Next
<1>2. CASE Acknowledge
  <2>1. Running /\ why = "none" /\ UNCHANGED <<start, executed>>
    BY <1>0, <1>2, AcknowledgedSlots DEF Acknowledge, AckOldest, AckThroughPoll, Received, lineVars
  <2>2. PICK k \in 1..Len(fifo) : AckSlots(k)
    BY <1>0, <1>2, AcknowledgedSlots
  <2>3. CASE \E i \in Positions("finish") : i <= k
    <3>1. gBytesDone' = FileLen /\ why' = "finished"
      BY <2>2, <2>3 DEF AckSlots
    <3>2. start + Len(executed) = FileLen
      BY <1>0, <2>1, <3>1 DEF ResultInv
    <3> QED BY <2>1, <3>1, <3>2 DEF Promise!Next, Promise!Finish, Promise!Done
  <2>4. CASE ~\E i \in Positions("finish") : i <= k
    <3>1. why' = why
      BY <2>2, <2>4 DEF AckSlots
    <3>2. gBytesDone <= gBytesDone' /\ gBytesDone' <= start + Len(executed)
      BY <1>0, <1>2, <2>1, BytesAck DEF ResultInv
    <3>3. CASE gBytesDone' = gBytesDone
      BY <2>1, <3>1, <3>3 DEF Promise!printVars
    <3>4. CASE gBytesDone' # gBytesDone
      <4>1. gBytesDone' \in (gBytesDone + 1)..(start + Len(executed))
        BY ONLY <1>n, <3>2, <3>4
      <4> QED BY <2>1, <3>1, <4>1 DEF Promise!Next, Promise!Confirm, Promise!Done
    <3> QED BY <3>3, <3>4
  <2> QED BY <2>3, <2>4
<1>3. CASE ~Printer /\ ~Acknowledge
  <2>1. UNCHANGED <<executed, start, gBytesDone>>
    BY <1>3, OnlyThePrinterExecutes, NothingElseConfirms
  <2>2. CASE UNCHANGED why
    BY <2>1, <2>2 DEF Promise!printVars
  <2>3. CASE Running /\ why' \notin {"none", "finished"}
    BY <1>0, <2>1, <2>3 DEF Promise!Next, Promise!GiveUp
  <2> QED BY <1>3, <2>2, <2>3, WhyChanges
<1> QED
  BY <1>1, <1>2, <1>3

\* Seen from outside, the streaming loop does what OrderedPrint says a print does: the lines are
\* executed in order and once each, what is confirmed (gBytesDone) only grows and never runs
\* ahead of the printer, and the print ends as finished only when the whole file was executed.
THEOREM PromiseKept ==
    ASSUME AckAssumption, Starts = {0}
    PROVE  Spec => KeepsPromise
<1>1. Init => PromiseInv /\ Promise!Init
  BY PromiseInit
<1>2. PromiseInv /\ [Next]_vars => PromiseInv'
  BY PromiseInvNext
<1>3. PromiseInv /\ PromiseInv' /\ [Next]_vars => [Promise!Next]_(Promise!printVars)
  BY PromiseStep
<1>4. Spec => Promise!Init /\ [][Promise!Next]_(Promise!printVars)
  BY <1>1, <1>2, <1>3, PTL DEF Spec
<1> QED
  BY <1>4 DEF KeepsPromise, Promise!Spec
=============================================================================

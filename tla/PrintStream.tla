---------------------------- MODULE PrintStream ----------------------------
(***************************************************************************)
(* The print engine's streaming loop (runPrint in printer.cpp) talking to  *)
(* the printer of Marlin: a window of numbered lines in flight, answers    *)
(* matched against a FIFO of what was sent, resynchronisation after an     *)
(* error report, polls and probes, user commands, pause and stop.          *)
(*                                                                         *)
(* One behaviour is one print, from the moment M110 went out to the moment *)
(* the loop is left.  A line of the file is named by its position; the     *)
(* offset "just past line k" is k.                                         *)
(***************************************************************************)
EXTENDS Marlin, FiniteSetsExt

CONSTANTS
    Starts,       \* file offsets the print may start from (0, or a resume point)
    Windows,      \* values g_window may be set to (1..6)
    Hist,         \* PrintRun::HIST, lines kept for a resend
    MaxW,         \* slots of the FIFO ring
    Throttle,     \* acknowledged lines before the window opens
    LineBytes,    \* bytes of each file line on the wire
    LongLines,    \* file lines too long for the buffer a line is read into
    MaxInflight,  \* MAX_INFLIGHT_BYTES
    Repeatable,   \* user commands that may be sent twice (all but M290)
    SlowTypes     \* commands the printer may take longer over than the engine waits for quiet

ASSUME StreamAssumption ==
    /\ Starts \subseteq 0..FileLen
    /\ Windows \subseteq 1..6 /\ Windows # {}
    /\ Hist \in Nat \ {0}
    /\ MaxW \in Nat /\ MaxW >= 7
    /\ Throttle \in Nat
    /\ LineBytes \in [1..FileLen -> Nat]
    /\ LongLines \subseteq 1..FileLen
    /\ MaxInflight \in Nat
    /\ Repeatable \subseteq Manual
    /\ NoCmd \notin Manual

Slot == [type: {"print", "poll", "finish", "manual"}, n: Nat, after: 0..FileLen]

PrintSlot(n, after) == [type |-> "print", n |-> n, after |-> after]
PollSlot   == [type |-> "poll", n |-> 0, after |-> 0]
FinishSlot == [type |-> "finish", n |-> 0, after |-> 0]
ManualSlot == [type |-> "manual", n |-> 0, after |-> 0]

VARIABLES
    gState,      \* "PRINTING", "PAUSED", then "IDLE" or "ERROR"
    why,         \* how the print ended
    gWindow,     \* g_window
    start,       \* the offset this run started from
    lineNo, hist, fifo, finishSent,
    throttle, resync, resendFrom, lastGood,
    gBytesDone,
    man, manSent, \* the user command being carried out
    answered     \* what each user command was answered

lineVars   == <<start, lineNo, hist>>
resyncVars == <<resync, resendFrom, lastGood>>
manVars    == <<man, manSent, answered>>
engineVars == <<gState, why, gWindow, lineVars, fifo, finishSent, throttle, resyncVars, gBytesDone, manVars>>
vars       == <<engineVars, marlinVars>>

Running == gState \in {"PRINTING", "PAUSED"}

-----------------------------------------------------------------------------
(* The FIFO and the window *)

IsPoll(s)    == s.type = "poll"
Positions(type) == {i \in 1..Len(fifo) : fifo[i].type = type}

\* Only the oldest command in flight is looked at.
HasPollAtHead == fifo # <<>> /\ IsPoll(Head(fifo))

HasPoll == \E i \in 1..Len(fifo) : IsPoll(fifo[i])

EffWindow == IF throttle > 0 THEN 1 ELSE gWindow

InflightBytes == MapThenSumSet(LAMBDA i : IF fifo[i].n = 0 THEN 0 ELSE LineBytes[fifo[i].after],
                               Positions("print"))

\* The next line of the file, and whether the byte limit lets it out now.
NextLine   == start + lineNo + 1

\* The end of the file is seen one line early.
EndOfFileEarly == start + lineNo + 1 >= FileLen

EndOfFile == start + lineNo = FileLen

BytesAllow == fifo = <<>> \/ InflightBytes + LineBytes[NextLine] <= MaxInflight

\* The ring is one slot short.
HistSlotShort(n) == n % (Hist - 1)

HistSlot(n) == n % Hist

Kept(n) == \E i \in DOMAIN hist : hist[i].n = n

\* The text is taken from the slot after the line's.
KeptLineNext(n) == hist[(n + 1) % Hist].line

KeptLine(n) == (CHOOSE h \in {hist[i] : i \in DOMAIN hist} : h.n = n).line

\* Nothing has come from the printer for a quarter of a second. It answers faster than that,
\* unless it is dead or busy with a slow command.
Quiet == /\ rx = <<>>
         /\ (alive /\ wire # <<>>) => Head(wire).type \in SlowTypes

\* Nothing has come for seconds: a printer busy with a slow command says so in between.
Silent == /\ rx = <<>>
          /\ alive => wire = <<>>

-----------------------------------------------------------------------------
(* Leaving the loop *)

\* A user command still waiting is answered with an error.
AnswerPending == [c \in Manual |-> IF c = man THEN "error" ELSE answered[c]]

Leave(state, reason) ==
    /\ gState' = state
    /\ why' = reason
    /\ answered' = AnswerPending
    /\ man' = NoCmd
    /\ manSent' = FALSE

\* The heaters are forgotten.
SafeShutdownFlushOnly == UNCHANGED wire /\ rx' = <<>>

\* safeShutdown: heaters and fan off, pending answers discarded.
SafeShutdown == /\ wire' = Append(wire, OffMsg)
                /\ rx' = <<>>

-----------------------------------------------------------------------------
(* Receiving *)

\* ackHead for the first k slots: the last print line among them is what is done now;
\* the end-of-file marker completes the print.
AckSlots(k) ==
    LET lines == {i \in Positions("print") : i <= k}
        acked == Cardinality(lines)
        completes == \E i \in Positions("finish") : i <= k
    IN  /\ fifo' = SubSeq(fifo, k + 1, Len(fifo))
        /\ gBytesDone' = CASE completes   -> FileLen
                           [] lines # {} /\ ~completes -> fifo[Max(lines)].after
                           [] OTHER       -> gBytesDone
        /\ throttle' = IF acked >= throttle THEN 0 ELSE throttle - acked
        /\ LET done == \E i \in Positions("manual") :
                          i <= k /\ \A j \in Positions("finish") : i < j
               ok   == [c \in Manual |-> IF done /\ c = man THEN "ok" ELSE answered[c]]
           IN  /\ answered' = IF completes /\ ~done THEN AnswerPending ELSE ok
               /\ man' = IF done \/ completes THEN NoCmd ELSE man
               /\ manSent' = (manSent /\ ~done /\ ~completes)
        /\ gState' = IF completes THEN "IDLE" ELSE gState
        /\ why' = IF completes THEN "finished" ELSE why

Received(kind) == Running /\ rx # <<>> /\ Head(rx).kind = kind

\* An ok for a line that was thrown away, or that nothing waits for.
IgnoreOk ==
    /\ \/ Received("ok") /\ (resync \/ fifo = <<>>)
       \/ Received("ok T") /\ (resync \/ ~HasPoll)
    /\ rx' = Tail(rx)
    /\ UNCHANGED <<engineVars, wire, lastN, executed, hot, runs, alive, damaged, lost>>

\* Oks are taken at face value while resynchronising.
AckOldestInResync ==
    /\ Received("ok")
    /\ fifo # <<>>
    /\ AckSlots(1)
    /\ rx' = Tail(rx)
    /\ UNCHANGED <<gWindow, lineVars, finishSent, resyncVars,
                   wire, lastN, executed, hot, runs, alive, damaged, lost>>

AckOldest ==
    /\ Received("ok")
    /\ ~resync
    /\ fifo # <<>>
    /\ AckSlots(1)
    /\ rx' = Tail(rx)
    /\ UNCHANGED <<gWindow, lineVars, finishSent, resyncVars,
                   wire, lastN, executed, hot, runs, alive, damaged, lost>>

\* Everything in flight is taken for done, what was sent after the poll too.
AckThroughPollAll ==
    /\ Received("ok T")
    /\ ~resync
    /\ HasPoll
    /\ AckSlots(Len(fifo))
    /\ rx' = Tail(rx)
    /\ UNCHANGED <<gWindow, lineVars, finishSent, resyncVars,
                   wire, lastN, executed, hot, runs, alive, damaged, lost>>

\* A temperature answers our M105: the oks of everything in front of it were lost.
AckThroughPoll ==
    /\ Received("ok T")
    /\ ~resync
    /\ HasPoll
    /\ AckSlots(Min(Positions("poll")))
    /\ rx' = Tail(rx)
    /\ UNCHANGED <<gWindow, lineVars, finishSent, resyncVars,
                   wire, lastN, executed, hot, runs, alive, damaged, lost>>

ErrorReported ==
    /\ Received("error")
    /\ resync' = TRUE
    /\ resendFrom' = IF Head(rx).resend > 0 THEN Head(rx).resend ELSE resendFrom
    /\ lastGood' = Head(rx).last
    /\ rx' = Tail(rx)
    /\ UNCHANGED <<gState, why, gWindow, lineVars, fifo, finishSent, throttle, gBytesDone, manVars,
                   wire, lastN, executed, hot, runs, alive, damaged, lost>>

RestartReported ==
    /\ Received("start")
    /\ SafeShutdown
    /\ Leave("ERROR", "restarted")
    /\ UNCHANGED <<gWindow, lineVars, fifo, finishSent, throttle, resyncVars, gBytesDone,
                   lastN, executed, hot, runs, alive, damaged, lost>>

FatalReported ==
    /\ Received("fatal")
    /\ rx' = Tail(rx)
    /\ Leave("ERROR", "fatal")
    /\ UNCHANGED <<gWindow, lineVars, fifo, finishSent, throttle, resyncVars, gBytesDone,
                   wire, lastN, executed, hot, runs, alive, damaged, lost>>

-----------------------------------------------------------------------------
(* The line has gone quiet after an error *)

OldestPrintLine == LET lines == Positions("print")
                   IN  IF lines = {} THEN 0 ELSE fifo[Min(lines)].n

RestartLine == CASE resendFrom # 0                 -> resendFrom
                 [] resendFrom = 0 /\ lastGood # 0 -> lastGood + 1
                 [] OTHER                          -> OldestPrintLine

\* Every user command is sent again.
ManualAfterResyncAlways == manSent' = FALSE /\ UNCHANGED <<man, answered>>

\* A user command that was on the wire goes out again, or is given up if it must not be sent twice.
ManualAfterResync ==
    /\ manSent' = FALSE
    /\ IF manSent /\ man \notin Repeatable
         THEN man' = NoCmd /\ answered' = AnswerPending
         ELSE UNCHANGED <<man, answered>>

\* The M400 that was in flight is taken for still being tracked.
FinishAfterResyncKept == finishSent' = finishSent

FinishAfterResync == finishSent' = FALSE

Resynchronise ==
    /\ Running
    /\ resync
    /\ Quiet
    /\ fifo' = <<>>
    /\ resync' = FALSE
    /\ lastGood' = 0
    /\ FinishAfterResync
    /\ throttle' = Throttle
    /\ \/ /\ RestartLine = 0 \/ RestartLine > lineNo
          /\ resendFrom' = 0
          /\ ManualAfterResync
          /\ UNCHANGED <<gState, why, wire, rx>>
       \/ /\ RestartLine \in 1..lineNo
          /\ Kept(RestartLine)
          /\ resendFrom' = RestartLine
          /\ ManualAfterResync
          /\ UNCHANGED <<gState, why, wire, rx>>
       \/ /\ RestartLine \in 1..lineNo
          /\ ~Kept(RestartLine)
          /\ UNCHANGED resendFrom
          /\ SafeShutdown
          /\ Leave("ERROR", "line no longer kept")
    /\ UNCHANGED <<gWindow, lineVars, gBytesDone, lastN, executed, hot, runs, alive, damaged, lost>>

-----------------------------------------------------------------------------
(* Sending *)

RoomToSend == Running /\ ~resync /\ Len(fifo) < EffWindow

Send(msg, slot) == /\ wire' = Append(wire, msg)
                   /\ fifo' = Append(fifo, slot)
                   /\ UNCHANGED <<rx, lastN, executed, hot, runs, alive, damaged, lost>>

SendPoll ==
    /\ RoomToSend
    /\ fifo = <<>> \/ throttle = 0
    /\ Send(PollMsg, PollSlot)
    /\ UNCHANGED <<gState, why, gWindow, lineVars, finishSent, throttle, resyncVars, gBytesDone, manVars>>

\* Also while paused: the printer is waiting for these lines.
ResendLine ==
    /\ RoomToSend
    /\ resendFrom # 0
    /\ \/ /\ Kept(resendFrom)
          /\ Send(PrintMsg(resendFrom, KeptLine(resendFrom)), PrintSlot(resendFrom, KeptLine(resendFrom)))
          /\ resendFrom' = IF resendFrom < lineNo THEN resendFrom + 1 ELSE 0
          /\ UNCHANGED <<gState, why, manVars>>
       \/ /\ ~Kept(resendFrom)
          /\ SafeShutdown
          /\ Leave("ERROR", "line no longer kept")
          /\ UNCHANGED <<fifo, resendFrom, lastN, executed, hot, runs, alive, damaged, lost>>
    /\ UNCHANGED <<gWindow, lineVars, finishSent, throttle, resync, lastGood, gBytesDone>>

ManualWaiting == man # NoCmd /\ ~manSent

SendManual ==
    /\ RoomToSend
    /\ resendFrom = 0
    /\ ManualWaiting
    /\ Send(ManualMsg(man), ManualSlot)
    /\ manSent' = TRUE
    /\ UNCHANGED <<gState, why, gWindow, lineVars, finishSent, throttle, resyncVars, gBytesDone, man, answered>>

\* The client stopped waiting for its command before it was sent.
DropAbandoned ==
    /\ RoomToSend
    /\ resendFrom = 0
    /\ ManualWaiting
    /\ man' = NoCmd
    /\ UNCHANGED <<gState, why, gWindow, lineVars, fifo, finishSent, throttle, resyncVars, gBytesDone,
                   manSent, answered, marlinVars>>

NothingBefore == resendFrom = 0 /\ ~ManualWaiting /\ gState = "PRINTING"

SendLine ==
    /\ RoomToSend
    /\ NothingBefore
    /\ ~EndOfFile
    /\ NextLine \notin LongLines
    /\ BytesAllow
    /\ lineNo' = lineNo + 1
    /\ hist' = [hist EXCEPT ![HistSlot(lineNo + 1)] = [n |-> lineNo + 1, line |-> NextLine]]
    /\ Send(PrintMsg(lineNo + 1, NextLine), PrintSlot(lineNo + 1, NextLine))
    /\ UNCHANGED <<gState, why, gWindow, start, finishSent, throttle, resyncVars, gBytesDone, manVars>>

\* A line is read whole before the byte limit is looked at; one that does not fit ends the print.
LineTooLong ==
    /\ RoomToSend
    /\ NothingBefore
    /\ ~EndOfFile
    /\ NextLine \in LongLines
    /\ SafeShutdown
    /\ Leave("ERROR", "line too long")
    /\ UNCHANGED <<gWindow, lineVars, fifo, finishSent, throttle, resyncVars, gBytesDone,
                   lastN, executed, hot, runs, alive, damaged, lost>>

SendFinish ==
    /\ RoomToSend
    /\ NothingBefore
    /\ EndOfFile
    /\ ~finishSent
    /\ finishSent' = TRUE
    /\ Send(FinishMsg, FinishSlot)
    /\ UNCHANGED <<gState, why, gWindow, lineVars, throttle, resyncVars, gBytesDone, manVars>>

\* A command has been waiting for long and the printer is quiet: ask, whatever the window says.
Probe ==
    /\ Running
    /\ ~resync
    /\ fifo # <<>>
    /\ ~HasPoll
    /\ Silent
    /\ Send(PollMsg, PollSlot)
    /\ UNCHANGED <<gState, why, gWindow, lineVars, finishSent, throttle, resyncVars, gBytesDone, manVars>>

-----------------------------------------------------------------------------
(* Ends that the printer does not announce *)

\* A paused print is not watched.
StoppedRespondingUnpaused ==
    /\ gState = "PRINTING"
    /\ fifo # <<>>
    /\ Silent
    /\ alive => ~resync /\ HasPoll /\ Len(fifo) >= EffWindow
    /\ SafeShutdown
    /\ Leave("ERROR", "silent")
    /\ UNCHANGED <<gWindow, lineVars, fifo, finishSent, throttle, resyncVars, gBytesDone,
                   lastN, executed, hot, runs, alive, damaged, lost>>

\* Three minutes without a sign of life while something is in flight: the printer is dead, or
\* it owes nothing and the engine can ask nothing, because an unanswered poll in the FIFO
\* holds back the probe and a full window holds back the next poll.
StoppedResponding ==
    /\ Running
    /\ fifo # <<>>
    /\ Silent
    /\ alive => ~resync /\ HasPoll /\ Len(fifo) >= EffWindow
    /\ SafeShutdown
    /\ Leave("ERROR", "silent")
    /\ UNCHANGED <<gWindow, lineVars, fifo, finishSent, throttle, resyncVars, gBytesDone,
                   lastN, executed, hot, runs, alive, damaged, lost>>

LinkLost ==
    /\ Running
    /\ "unplug" \in Failures
    /\ \E k \in 0..Len(wire) : wire' = SubSeq(wire, 1, k)
    /\ rx' = <<>>
    /\ Leave("ERROR", "link lost")
    /\ UNCHANGED <<gWindow, lineVars, fifo, finishSent, throttle, resyncVars, gBytesDone,
                   lastN, executed, hot, runs, alive, damaged, lost>>

\* A write to the printer fails; the orders to switch off may not get through either.
WriteFails ==
    /\ RoomToSend
    /\ "write" \in Failures
    /\ \/ SafeShutdown
       \/ rx' = <<>> /\ UNCHANGED wire
    /\ Leave("ERROR", "write failed")
    /\ UNCHANGED <<gWindow, lineVars, fifo, finishSent, throttle, resyncVars, gBytesDone,
                   lastN, executed, hot, runs, alive, damaged, lost>>

-----------------------------------------------------------------------------
(* Commands from the network *)

Pause ==
    /\ gState = "PRINTING"
    /\ gState' = "PAUSED"
    /\ UNCHANGED <<why, gWindow, lineVars, fifo, finishSent, throttle, resyncVars, gBytesDone, manVars, marlinVars>>

Resume ==
    /\ gState = "PAUSED"
    /\ gState' = "PRINTING"
    /\ UNCHANGED <<why, gWindow, lineVars, fifo, finishSent, throttle, resyncVars, gBytesDone, manVars, marlinVars>>

Stop ==
    /\ Running
    /\ SafeShutdown
    /\ Leave("IDLE", "stopped")
    /\ UNCHANGED <<gWindow, lineVars, fifo, finishSent, throttle, resyncVars, gBytesDone,
                   lastN, executed, hot, runs, alive, damaged, lost>>

\* One user command at a time; each is issued once.
ManualCommand ==
    /\ Running
    /\ man = NoCmd
    /\ \E c \in Manual : answered[c] = "new" /\ man' = c /\ answered' = [answered EXCEPT ![c] = "waiting"]
    /\ manSent' = FALSE
    /\ UNCHANGED <<gState, why, gWindow, lineVars, fifo, finishSent, throttle, resyncVars, gBytesDone, marlinVars>>

SetWindow ==
    /\ Running
    /\ gWindow' \in Windows \ {gWindow}
    /\ UNCHANGED <<gState, why, lineVars, fifo, finishSent, throttle, resyncVars, gBytesDone, manVars, marlinVars>>

-----------------------------------------------------------------------------
\* The state in which the loop is entered: M110 has just been sent, alone.
Init ==
    /\ gState = "PRINTING"
    /\ why = "none"
    /\ gWindow \in Windows
    /\ start \in Starts
    /\ lineNo = 0
    /\ hist = [i \in 0..(Hist - 1) |-> [n |-> 0, line |-> 0]]
    /\ fifo = <<PrintSlot(0, 0)>>
    /\ finishSent = FALSE
    /\ throttle = Throttle
    /\ resync = FALSE
    /\ resendFrom = 0
    /\ lastGood = 0
    /\ gBytesDone = start
    /\ man = NoCmd
    /\ manSent = FALSE
    /\ answered = [c \in Manual |-> "new"]
    /\ wire = <<PrintMsg(0, 0)>>
    /\ rx = <<>>
    /\ lastN \in LastN0
    /\ executed = <<>>
    /\ hot = (start > 0)
    /\ runs = [c \in Manual |-> 0]
    /\ alive = TRUE
    /\ damaged = 0
    /\ lost = 0

Printer == MarlinStep /\ UNCHANGED engineVars

Receive == IgnoreOk \/ AckOldest \/ AckThroughPoll \/ ErrorReported \/ RestartReported \/ FatalReported

Transmit == ResendLine \/ SendManual \/ SendLine \/ LineTooLong \/ SendFinish

Engine == Receive \/ Resynchronise \/ SendPoll \/ Transmit \/ DropAbandoned \/ Probe \/ StoppedResponding

Users == Pause \/ Resume \/ Stop \/ ManualCommand \/ SetWindow

Faults == ((LoseAnswer \/ PrinterFails) /\ UNCHANGED engineVars) \/ LinkLost \/ WriteFails

Next == Printer \/ Engine \/ Users \/ Faults

Spec == Init /\ [][Next]_vars

-----------------------------------------------------------------------------
(* Safety *)

EngineTypeOK ==
    /\ gState \in {"PRINTING", "PAUSED", "IDLE", "ERROR"}
    /\ gWindow \in Windows
    /\ start \in Starts
    /\ lineNo \in Nat /\ start + lineNo <= FileLen
    /\ hist \in [0..(Hist - 1) -> [n: Nat, line: 0..FileLen]]
    /\ fifo \in Seq(Slot) /\ Len(fifo) <= MaxW
    /\ finishSent \in BOOLEAN
    /\ throttle \in 0..Throttle
    /\ resync \in BOOLEAN
    /\ resendFrom \in Nat /\ (~resync => resendFrom <= lineNo)
    /\ lastGood \in Nat
    /\ gBytesDone \in 0..FileLen
    /\ man \in Manual \cup {NoCmd}
    /\ manSent \in BOOLEAN
    /\ answered \in [Manual -> {"new", "waiting", "ok", "error"}]

\* Types; and the FIFO never needs more slots than its ring has, so no slot is overwritten.
TypeOK == MarlinTypeOK /\ EngineTypeOK

\* Whatever is damaged, lost, asked for again, paused or stopped, the printer executes the
\* lines of the file one after the other: none is skipped, none is executed twice.
InOrder == \A i \in 1..Len(executed) : executed[i] = start + i

\* The offset the journal and a resume rely on never runs ahead of the printer: every line
\* before it has been executed.  An ok credited to the wrong slot would break this.
AckedWasExecuted == gBytesDone <= start + Len(executed)

\* "finished" is only said of a print whose last line was executed.
FinishedMeansPrinted == why = "finished" => start + Len(executed) = FileLen

\* The lines kept for a resend are enough: the printer never asks for one that was overwritten.
ResendAvailable == why # "line no longer kept"

\* A babystep (M290 is relative) is applied at most once, whatever is resent.
OneShotAtMostOnce == \A c \in Manual \ Repeatable : runs[c] <= 1

\* A user command answered "ok" was executed by the printer.
OkMeansExecuted == \A c \in Manual : answered[c] = "ok" => runs[c] > 0

\* A print ended by Stop or by an error the printer can still hear of leaves its heaters off
\* once it has worked off its input, although heating lines may still have been in flight.
EndsCold == /\ why \in {"stopped", "line no longer kept", "line too long", "restarted"}
            /\ wire = <<>>
            => ~hot

\* The print keeps the promise of OrderedPrint.
Promise == INSTANCE OrderedPrint WITH
    out   <- executed,
    acked <- gBytesDone,
    end   <- IF why \in {"none", "finished"} THEN why ELSE "given up"

KeepsPromise == Promise!Spec

-----------------------------------------------------------------------------
(* Liveness *)

\* The engine's loop keeps turning and the printer reads on while it lives. Polls are a
\* second apart, far longer than a round trip, so they do not keep the engine from
\* transmitting for ever: strong fairness. Users owe nothing.
Fairness == /\ WF_vars(Printer)
            /\ WF_vars(Receive)
            /\ WF_vars(Resynchronise)
            /\ SF_vars(Transmit)
            /\ WF_vars(SendPoll)
            /\ WF_vars(Probe)
            /\ WF_vars(StoppedResponding)

LiveSpec == Spec /\ Fairness

\* Every print that users do not keep pausing comes to an end.
PrintEnds == <>[](gState # "PAUSED") => <>~Running

\* The engine does not give up on a printer that is alive.
SilentMeansDead == why = "silent" => ~alive

\* A printer that has stopped reading is noticed, also while the print is paused.
DeadPrinterNoticed == ~alive ~> ~Running
=============================================================================

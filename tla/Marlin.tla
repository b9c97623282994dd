------------------------------- MODULE Marlin -------------------------------
(***************************************************************************)
(* The printer at the other end of the wire, as the repository's own       *)
(* simulator plays it (link_sim.cpp): numbered lines are executed only in  *)
(* sequence, a damaged or out-of-sequence line is thrown away and asked    *)
(* for again, and every command is answered in the order it arrived.       *)
(*                                                                         *)
(* `wire' carries what the board has sent and the printer has not handled  *)
(* yet, `rx' what the printer has answered and the board has not read yet. *)
(***************************************************************************)
EXTENDS Naturals, Sequences

CONSTANTS
    FileLen,      \* lines of the gcode file
    HeatLines,    \* the lines of the file that set a heater target
    TempLines,    \* the lines of the file that ask for the temperature (M105)
    Manual,       \* the commands users send while the print runs
    LastN0,       \* line numbers the printer's counter may stand at before the print
    MaxDamaged,   \* bound: numbered lines damaged on the wire
    MaxLost,      \* bound: answers lost on the way back
    Losable,      \* the kinds of answer that may be lost
    Failures      \* what may happen to the printer ("hang", "restart", "kill") and to the
                  \* link ("unplug", "write")

ASSUME MarlinAssumption ==
    /\ FileLen \in Nat
    /\ HeatLines \subseteq 1..FileLen
    /\ TempLines \subseteq 1..FileLen
    /\ LastN0 \subseteq Nat
    /\ MaxDamaged \in Nat
    /\ MaxLost \in Nat

NoCmd == "no command"

\* A line on the wire: a numbered print line (n is its number, line the file
\* line whose text it carries, 0 for M110), or an unnumbered command. OffMsg stands for the
\* three orders that switch heaters and fan off.
PrintMsg(n, line) == [type |-> "print", n |-> n, line |-> line, cmd |-> NoCmd]
PollMsg           == [type |-> "poll", n |-> 0, line |-> 0, cmd |-> NoCmd]
FinishMsg         == [type |-> "finish", n |-> 0, line |-> 0, cmd |-> NoCmd]
ManualMsg(c)      == [type |-> "manual", n |-> 0, line |-> 0, cmd |-> c]
OffMsg            == [type |-> "off", n |-> 0, line |-> 0, cmd |-> NoCmd]

Message == [type: {"print", "poll", "finish", "manual", "off"},
            n: Nat, line: 0..FileLen, cmd: Manual \cup {NoCmd}]

\* An answer. An error report names the last good line ("Last Line: N") and,
\* when its Resend line is there, the line wanted next; 0 means no Resend line.
Plain(kind)           == [kind |-> kind, last |-> 0, resend |-> 0]
Report(last, resend)  == [kind |-> "error", last |-> last, resend |-> resend]

Answer == [kind: {"ok", "ok T", "error", "start", "fatal"}, last: Nat, resend: Nat]

VARIABLES
    wire,      \* board -> printer, oldest first
    rx,        \* printer -> board, oldest first
    lastN,     \* number of the last line accepted
    executed,  \* the file lines executed, in order
    hot,       \* a heater target is set
    runs,      \* how often each user command was executed
    alive,     \* the printer still reads its input
    damaged, lost

marlinVars == <<wire, rx, lastN, executed, hot, runs, alive, damaged, lost>>

-----------------------------------------------------------------------------
Reading(type) == alive /\ wire # <<>> /\ Head(wire).type = type

\* The printer consumes the oldest line and answers.
Reply(answers) == /\ wire' = Tail(wire)
                  /\ rx' = rx \o answers

\* A rejected line: the error report, with or without its Resend line, and (firmware
\* differs) an ok behind it.
ResendError == \E withResend, withOk \in BOOLEAN :
    Reply(<<Report(lastN, IF withResend THEN lastN + 1 ELSE 0)>>
          \o (IF withOk THEN <<Plain("ok")>> ELSE <<>>))

InSequence(m) == m.line = 0 \/ m.n = lastN + 1

\* The checksum does not match: the line, M110 too, is thrown away.
RejectDamaged ==
    /\ Reading("print")
    /\ damaged < MaxDamaged
    /\ damaged' = damaged + 1
    /\ ResendError
    /\ UNCHANGED <<lastN, executed, hot, runs, alive, lost>>

\* A numbered line that is not the successor of the last one is thrown away.
RejectOutOfSequence ==
    /\ Reading("print")
    /\ ~InSequence(Head(wire))
    /\ ResendError
    /\ UNCHANGED <<lastN, executed, hot, runs, alive, damaged, lost>>

\* M110: numbering starts again from this line's number.
ExecuteM110 ==
    /\ Reading("print")
    /\ Head(wire).line = 0
    /\ lastN' = Head(wire).n
    /\ Reply(<<Plain("ok")>>)
    /\ UNCHANGED <<executed, hot, runs, alive, damaged, lost>>

\* An M105 of the file is answered with a temperature, as one of the engine's polls is.
AnswerOf(line) == Plain(IF line \in TempLines THEN "ok T" ELSE "ok")

ExecuteLine ==
    /\ Reading("print")
    /\ Head(wire).line # 0
    /\ InSequence(Head(wire))
    /\ lastN' = Head(wire).n
    /\ executed' = Append(executed, Head(wire).line)
    /\ hot' = (hot \/ Head(wire).line \in HeatLines)
    /\ Reply(<<AnswerOf(Head(wire).line)>>)
    /\ UNCHANGED <<runs, alive, damaged, lost>>

ExecuteUnnumbered ==
    /\ \/ Reading("poll") /\ Reply(<<Plain("ok T")>>) /\ UNCHANGED <<runs, hot>>
       \/ Reading("finish") /\ Reply(<<Plain("ok")>>) /\ UNCHANGED <<runs, hot>>
       \/ /\ Reading("manual")
          /\ Reply(<<Plain("ok")>>)
          /\ runs' = [runs EXCEPT ![Head(wire).cmd] = @ + 1]
          /\ UNCHANGED hot
       \/ Reading("off") /\ Reply(<<Plain("ok")>>) /\ hot' = FALSE /\ UNCHANGED runs
    /\ UNCHANGED <<lastN, executed, alive, damaged, lost>>

MarlinStep == RejectDamaged \/ RejectOutOfSequence \/ ExecuteM110 \/ ExecuteLine \/ ExecuteUnnumbered

-----------------------------------------------------------------------------
\* An answer is lost between the printer and the board.
LoseAnswer ==
    /\ rx # <<>>
    /\ Head(rx).kind \in Losable
    /\ lost < MaxLost
    /\ lost' = lost + 1
    /\ rx' = Tail(rx)
    /\ UNCHANGED <<wire, lastN, executed, hot, runs, alive, damaged>>

\* The printer stops reading: it hangs as it is, reboots (and says "start"; until the board
\* has read that it is booting and hears nothing), or halts itself with a fatal error.
PrinterFails ==
    /\ alive
    /\ alive' = FALSE
    /\ \/ "hang" \in Failures /\ UNCHANGED <<wire, rx, lastN, hot>>
       \/ /\ "restart" \in Failures
          /\ wire' = <<>>
          /\ rx' = Append(rx, Plain("start"))
          /\ lastN' = 0
          /\ hot' = FALSE
       \/ /\ "kill" \in Failures
          /\ rx' = Append(rx, Plain("fatal"))
          /\ hot' = FALSE
          /\ UNCHANGED <<wire, lastN>>
    /\ UNCHANGED <<executed, runs, damaged, lost>>

MarlinTypeOK ==
    /\ wire \in Seq(Message)
    /\ rx \in Seq(Answer)
    /\ lastN \in Nat
    /\ executed \in Seq(1..FileLen)
    /\ hot \in BOOLEAN
    /\ runs \in [Manual -> Nat]
    /\ alive \in BOOLEAN
    /\ damaged \in 0..MaxDamaged
    /\ lost \in 0..MaxLost
=============================================================================

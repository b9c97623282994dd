------------------------------ MODULE Recovery ------------------------------
(***************************************************************************)
(* The life of a print across errors, restarts of the board and outages of *)
(* the printer: the engine task of printer.cpp with its journal on the SD  *)
(* card, the record of an interrupted print, the look at the printer after *)
(* a restart, the resume (by itself or by the user) and the connection.    *)
(*                                                                         *)
(* The streaming loop is seen from outside, as PrintStream shows it to be: *)
(* lines are executed in order and acknowledged after they are executed.   *)
(* A line of the file and the offset just past it are one number; the      *)
(* machine state after line k is named k, and 0 is the blank state.  A     *)
(* paused print counts as printing.                                        *)
(***************************************************************************)
EXTENDS Naturals, FiniteSetsExt

CONSTANTS
    FileLen,        \* lines of the file: line 1 homes and heats, the last switches the heaters off
    InFlight,       \* lines executed or on the wire but not acknowledged, at most
    AutoResumeMax,  \* AUTO_RESUME_MAX
    SdBusy,         \* accesses the busy SD card may refuse: "print", "first", "periodic", "last", "boot"
    Faults,         \* "off": the printer is switched off or unplugged; "restart": it restarts in a
                    \* print and the link stays; "silent": a command is not answered;
                    \* "slow move": the park's moves take longer than they are waited for
    UserGcode,      \* what commands of the user may do: "home", "heat"
    MaxCrashes,     \* bound: restarts of the board
    MaxOutages      \* bound: times the printer is switched off, unplugged or restarts

ASSUME RecoveryAssumption ==
    /\ FileLen \in Nat /\ FileLen > 1
    /\ InFlight \in Nat /\ AutoResumeMax \in Nat
    /\ MaxCrashes \in Nat /\ MaxOutages \in Nat

Offsets == 0..FileLen

\* Heater targets are set in the machine state after line k.
HotAt(k) == 0 < k /\ k < FileLen

VARIABLES
    \* the engine
    gState, open, userDisconnected, connectFailed,
    gInt,         \* the interrupted print
    gJobResumes, gBytesDone,
    gAckState,    \* the line whose machine state it holds
    run,          \* what the engine task is in the middle of
    base, cold,   \* the ResumeSpec of the print that runs
    lastJournal,  \* lastJournalBytes
    \* what survives a restart of the board
    job,          \* the journal record
    beatLong,     \* rtcBeat: the boot was alive for CRASH_LOOP_SEC
    \* the printer
    powered,      \* switched on and plugged in
    hotend, bed,  \* heater targets are set
    pos,          \* the file line executed last
    posKnown,     \* it has been homed and has not lost its position since
    \* bookkeeping of the properties and bounds
    live,         \* the print in the journal was started or resumed and has not come to its end
    closing,      \* the record that closes the journal of an ended print: "due", "refused" or "done"
    autos,        \* resumes by the board itself since a user last started or resumed the print
    bootLong,     \* this boot really lasted for CRASH_LOOP_SEC
    prevLong,     \* so did the one before, or it ended with a power loss
    crashes, outages

linkVars    == <<open, userDisconnected, connectFailed>>
progress    == <<gJobResumes, gBytesDone, gAckState, base, cold, lastJournal>>
uptimes     == <<beatLong, bootLong, prevLong>>
printerVars == <<powered, hotend, bed, pos, posKnown>>
bounds      == <<crashes, outages>>
history     == <<live, closing, autos>>
vars == <<gState, linkVars, gInt, progress, run, job, uptimes, printerVars, history, bounds>>

NoInt == [valid |-> FALSE, atBoot |-> FALSE, bytes |-> 0, resumes |-> 0, st |-> 0, haveState |-> FALSE,
          scanned |-> FALSE, checked |-> FALSE, printerKept |-> FALSE, parked |-> FALSE,
          bedOffDone |-> FALSE, autoTried |-> FALSE, crashLoop |-> FALSE]

Busy == run # "none"

\* The engine task is in the print, from its first record to the error, the stop or the last line.
Printing == run \in {"preamble", "placing", "M110", "printing"}

-----------------------------------------------------------------------------
(* The journal *)

Record(bytes, resumes, st) == [active |-> TRUE, bytes |-> bytes, resumes |-> resumes, st |-> st]

\* No print was running: nothing else is read from such a record.
Closed == [active |-> FALSE, bytes |-> 0, resumes |-> 0, st |-> 0]

\* One record, rewritten in place; nothing is written when the SD card cannot be had in time.
JournalWrite(record, access) == \/ job' = record
                                \/ access \in SdBusy /\ UNCHANGED job

\* The next line's end is journalled.
ActiveRecordAhead == Record(Min({gBytesDone + 1, FileLen}), gJobResumes, gAckState)

ActiveRecord == Record(gBytesDone, gJobResumes, gAckState)

\* About once a second, when there is something new to write.
JournalTick ==
    /\ run \in {"M110", "printing"}
    /\ gBytesDone # lastJournal
    /\ lastJournal' = gBytesDone
    /\ JournalWrite(ActiveRecord, "periodic")
    /\ UNCHANGED <<gState, linkVars, gInt, gJobResumes, gBytesDone, gAckState, base, cold, run,
                   uptimes, printerVars, history, bounds>>

-----------------------------------------------------------------------------
(* A print comes to its end. What the state says, the record of the interruption and the journal *)
(* follow each other, and the board may crash between any two of them.                          *)

\* For whoever waits for it the print has come to its end.
PrintOver == live' = FALSE /\ closing' = "due"

EndInError ==
    /\ gState' = "ERROR"
    /\ run' = "ending"

\* Resumable from the last acknowledged line.
ErrorRecord == [NoInt EXCEPT !.valid = TRUE, !.bytes = gBytesDone, !.checked = TRUE, !.printerKept = open,
                             !.st = gAckState, !.haveState = HotAt(gAckState)]

\* The file is closed, which waits for the SD card; then a print cut off by an error goes on record.
NoteEnd ==
    /\ run = "ending"
    /\ run' = "closing"
    /\ gInt' = IF gState = "ERROR" THEN ErrorRecord ELSE gInt
    /\ UNCHANGED <<gState, linkVars, progress, job, uptimes, printerVars, history, bounds>>

\* The record that says the print is over.
CloseRecord == \/ job' = Closed /\ closing' = "done"
               \/ "last" \in SdBusy /\ UNCHANGED job /\ closing' = "refused"

\* A print cut off by an error is journalled as over.
CloseJournalInactive ==
    /\ run = "closing"
    /\ run' = "none"
    /\ CloseRecord
    /\ UNCHANGED <<gState, linkVars, gInt, progress, uptimes, printerVars, live, autos, bounds>>

\* A print that is over stays active in the journal.
CloseJournalActive ==
    /\ run = "closing"
    /\ run' = "none"
    /\ JournalWrite(ActiveRecord, "last")
    /\ closing' = "done"
    /\ UNCHANGED <<gState, linkVars, gInt, progress, uptimes, printerVars, live, autos, bounds>>

\* A print cut off by an error stays active in the journal.
CloseJournal ==
    /\ run = "closing"
    /\ run' = "none"
    /\ IF gState = "ERROR" THEN JournalWrite(ActiveRecord, "last") /\ UNCHANGED closing
                           ELSE CloseRecord
    /\ UNCHANGED <<gState, linkVars, gInt, progress, uptimes, printerVars, live, autos, bounds>>

\* safeShutdown, as far as the printer can be reached.
SafeShutdown == /\ hotend' = (hotend /\ ~open)
                /\ bed' = (bed /\ ~open)

-----------------------------------------------------------------------------
(* The print runs *)

\* M110 is acknowledged as the offset 0 with a blank machine state.
AckM110 ==
    /\ run = "M110"
    /\ open
    /\ run' = "printing"
    /\ gBytesDone' = 0
    /\ gAckState' = 0
    /\ pos' = base
    /\ UNCHANGED <<gState, linkVars, gInt, gJobResumes, base, cold, lastJournal, job, uptimes,
                   powered, hotend, bed, posKnown, history, bounds>>

\* The printer executes a line that is on the wire.
ExecuteLine ==
    /\ run = "printing"
    /\ open
    /\ pos < FileLen
    /\ pos < Max({gBytesDone, base}) + InFlight
    /\ pos' = pos + 1
    /\ hotend' = HotAt(pos + 1)
    /\ bed' = HotAt(pos + 1)
    /\ posKnown' = (posKnown \/ pos = 0)
    /\ UNCHANGED <<gState, linkVars, gInt, progress, run, job, uptimes, powered, history, bounds>>

AckLine ==
    /\ run = "printing"
    /\ open
    /\ \E k \in (Max({gBytesDone, base}) + 1)..pos : gBytesDone' = k /\ gAckState' = k
    /\ UNCHANGED <<gState, linkVars, gInt, gJobResumes, base, cold, lastJournal, run, job, uptimes,
                   printerVars, history, bounds>>

Finish ==
    /\ run = "printing"
    /\ open
    /\ gBytesDone = FileLen
    /\ gState' = "IDLE"
    /\ run' = "ending"
    /\ PrintOver
    /\ UNCHANGED <<linkVars, gInt, progress, job, uptimes, printerVars, autos, bounds>>

\* STOP is answered, also while the resume preamble waits: for who sent it the print is over.
Stop ==
    /\ Printing
    /\ run' = "stopping"
    /\ PrintOver
    /\ UNCHANGED <<gState, linkVars, gInt, progress, job, uptimes, printerVars, autos, bounds>>

\* The print is over, its state is not.
StopShutsDownStillPrinting ==
    /\ run = "stopping"
    /\ SafeShutdown
    /\ run' = "ending"
    /\ UNCHANGED <<gState, linkVars, gInt, progress, job, uptimes, powered, pos, posKnown, history, bounds>>

StopShutsDown ==
    /\ run = "stopping"
    /\ SafeShutdown
    /\ gState' = "IDLE"
    /\ run' = "ending"
    /\ UNCHANGED <<linkVars, gInt, progress, job, uptimes, powered, pos, posKnown, history, bounds>>

\* The engine gives up: no answer, no resend possible, a command of the preamble fails.
GiveUp ==
    /\ Printing
    /\ open
    /\ SafeShutdown
    /\ EndInError
    /\ UNCHANGED <<linkVars, gInt, progress, job, uptimes, powered, pos, posKnown, history, bounds>>

LinkLost ==
    /\ Printing
    /\ ~open
    /\ EndInError
    /\ UNCHANGED <<linkVars, gInt, progress, job, uptimes, printerVars, history, bounds>>

\* The printer restarts, the serial adapter does not: the engine reads "start".
PrinterRestarts ==
    /\ run = "printing"
    /\ open
    /\ "restart" \in Faults
    /\ outages < MaxOutages
    /\ outages' = outages + 1
    /\ hotend' = FALSE /\ bed' = FALSE
    /\ posKnown' = FALSE
    /\ EndInError
    /\ UNCHANGED <<linkVars, gInt, progress, job, uptimes, powered, pos, history, crashes>>

-----------------------------------------------------------------------------
(* A print begins *)

\* The SD card does not answer: runPrint gives up before it has touched anything.
CannotOpen == /\ "print" \in SdBusy
              /\ gState' = "ERROR"
              /\ UNCHANGED <<gBytesDone, gAckState, base, cold, lastJournal, run, job, live, closing>>

PrintBegins == live' = TRUE /\ closing' = "done"

Start ==
    /\ ~Busy
    /\ gState = "IDLE"
    /\ open
    /\ \/ CannotOpen /\ UNCHANGED <<gInt, gJobResumes>>
       \/ /\ gState' = "PRINTING"
          /\ run' = "M110"
          /\ base' = 0 /\ cold' = FALSE
          /\ lastJournal' = FileLen + 1
          /\ gJobResumes' = 0 /\ gBytesDone' = 0 /\ gAckState' = 0
          /\ gInt' = NoInt
          /\ PrintBegins
          /\ JournalWrite(Record(0, 0, 0), "first")
    /\ autos' = 0
    /\ UNCHANGED <<linkVars, uptimes, powered, hotend, bed, pos, posKnown, bounds>>

\* runPrint with a ResumeSpec, up to the preamble. The journal is written before gAckState is
\* set. Offset 0 is taken for a failure to find the place in the file.
ResumePrint(isCold, resumes) ==
    LET st == IF gInt.haveState THEN gInt.st ELSE gInt.bytes
    IN  /\ gJobResumes' = resumes
        /\ cold' = isCold
        /\ base' = gInt.bytes
        /\ lastJournal' = FileLen + 1
        /\ gBytesDone' = gInt.bytes
        /\ gInt' = NoInt
        /\ PrintBegins
        /\ JournalWrite(Record(gInt.bytes, resumes, gAckState), "first")
        /\ \/ gInt.bytes = 0 /\ EndInError /\ UNCHANGED gAckState
           \/ /\ gInt.bytes > 0
              /\ gState' = "PRINTING"
              /\ run' = "preamble"
              /\ gAckState' = st

\* The resume preamble first sets the heater targets.
PreambleHeats ==
    /\ run = "preamble"
    /\ open
    /\ run' = "placing"
    /\ hotend' = (hotend \/ HotAt(gAckState)) /\ bed' = (bed \/ HotAt(gAckState))
    /\ UNCHANGED <<gState, linkVars, gInt, progress, job, uptimes, powered, pos, posKnown, history, bounds>>

\* Then it homes X and Y if the printer has lost its position, raises the nozzle, goes to the
\* place in the print and lowers the nozzle.
PreamblePlaces ==
    /\ run = "placing"
    /\ open
    /\ run' = "M110"
    /\ posKnown' = (posKnown \/ cold)
    /\ UNCHANGED <<gState, linkVars, gInt, progress, job, uptimes, powered, hotend, bed, pos, history, bounds>>

-----------------------------------------------------------------------------
(* After an interruption *)

\* An execGcode whose effect on the printer is e; it may go unanswered, done or not.
Exec(e) == \/ e
           \/ "silent" \in Faults /\ UNCHANGED <<hotend, bed>>

ScanFile ==
    /\ ~Busy
    /\ gInt.valid /\ ~gInt.scanned
    /\ ~gInt.atBoot \/ gInt.checked
    /\ \/ gInt' = [gInt EXCEPT !.scanned = TRUE, !.st = gInt.bytes, !.haveState = TRUE] /\ gInt.bytes > 0
       \/ gInt' = [gInt EXCEPT !.scanned = TRUE] /\ ("print" \in SdBusy \/ gInt.bytes = 0)
    /\ UNCHANGED <<gState, linkVars, progress, run, job, uptimes, printerVars, history, bounds>>

\* After a restart of the board: is the printer still heated? Then it sits on the part. M105 is
\* asked here, and in the same turn of the loop by idleTick; when neither is answered the
\* printer is taken for cold.
LookAtPrinter ==
    /\ ~Busy
    /\ gInt.valid /\ gInt.atBoot /\ ~gInt.checked
    /\ gState = "IDLE"
    /\ open
    /\ \E kept \in {hotend \/ bed} \cup (IF "silent" \in Faults THEN {FALSE} ELSE {}) :
          /\ gInt' = [gInt EXCEPT !.checked = TRUE, !.printerKept = kept]
          /\ run' = IF kept THEN "park" ELSE "none"
    /\ UNCHANGED <<gState, linkVars, progress, job, uptimes, printerVars, history, bounds>>

RaiseNozzle ==
    /\ run = "park"
    /\ \/ open /\ run' = "parked"
       \/ ~open /\ run' = "not parked"
       \/ "slow move" \in Faults /\ run' = "not parked"
    /\ UNCHANGED <<gState, linkVars, gInt, progress, job, uptimes, printerVars, history, bounds>>

WillAuto(ok) == /\ ok
                /\ ~gInt.crashLoop
                /\ gInt.resumes < AutoResumeMax
                /\ ~gInt.haveState \/ HotAt(gInt.st)

\* When the nozzle could not be raised the heaters are left alone.
SwitchOffIfRaised ==
    /\ run \in {"parked", "not parked"}
    /\ LET ok == run = "parked" IN
       /\ Exec(/\ hotend' = (hotend /\ (WillAuto(ok) \/ ~ok \/ ~open))
               /\ bed' = (bed /\ (~gInt.crashLoop \/ ~open)))
       /\ gInt' = [gInt EXCEPT !.parked = ok, !.bedOffDone = @ \/ gInt.crashLoop]
    /\ run' = "none"
    /\ UNCHANGED <<gState, linkVars, progress, job, uptimes, powered, pos, posKnown, history, bounds>>

\* Switch the hotend off, unless the print is going to continue; after a crash loop the bed too.
SwitchOffParked ==
    /\ run \in {"parked", "not parked"}
    /\ LET ok == run = "parked" IN
       /\ Exec(/\ hotend' = (hotend /\ (WillAuto(ok) \/ ~open))
               /\ bed' = (bed /\ (~gInt.crashLoop \/ ~open)))
       /\ gInt' = [gInt EXCEPT !.parked = ok, !.bedOffDone = @ \/ gInt.crashLoop]
    /\ run' = "none"
    /\ UNCHANGED <<gState, linkVars, progress, job, uptimes, powered, pos, posKnown, history, bounds>>

MayTryAuto == /\ ~Busy
              /\ gInt.valid /\ gInt.atBoot /\ gInt.parked /\ gInt.printerKept /\ gInt.scanned /\ ~gInt.autoTried
              /\ gState = "IDLE"
              /\ open

AutoRuledOut == gInt.crashLoop \/ gInt.resumes >= AutoResumeMax \/ ~HotAt(gInt.st)

DeclineAuto ==
    /\ MayTryAuto
    /\ AutoRuledOut
    /\ gInt' = [gInt EXCEPT !.autoTried = TRUE]
    /\ Exec(hotend' = FALSE /\ UNCHANGED bed)
    /\ UNCHANGED <<gState, linkVars, progress, run, job, uptimes, powered, pos, posKnown, history, bounds>>

\* The count of resumes stays where it was.
AutoResumeUncounted ==
    /\ MayTryAuto
    /\ ~AutoRuledOut
    /\ autos' = autos + 1
    /\ ResumePrint(FALSE, gInt.resumes)
    /\ UNCHANGED <<linkVars, uptimes, printerVars, bounds>>

\* The board continues the print by itself.
AutoResume ==
    /\ MayTryAuto
    /\ ~AutoRuledOut
    /\ \/ autos' = autos + 1 /\ ResumePrint(FALSE, gInt.resumes + 1)
       \/ /\ CannotOpen
          /\ gInt' = [gInt EXCEPT !.autoTried = TRUE]
          /\ gJobResumes' = gInt.resumes + 1
          /\ UNCHANGED autos
    /\ UNCHANGED <<linkVars, uptimes, printerVars, bounds>>

\* Nobody resumed for half an hour.
BedOff ==
    /\ ~Busy
    /\ gInt.valid /\ gInt.parked /\ ~gInt.bedOffDone
    /\ gState = "IDLE"
    /\ open
    /\ Exec(bed' = FALSE /\ UNCHANGED hotend)
    /\ gInt' = [gInt EXCEPT !.bedOffDone = TRUE]
    /\ UNCHANGED <<gState, linkVars, progress, run, job, uptimes, powered, pos, posKnown, history, bounds>>

MayRecover == /\ ~Busy
              /\ gState = "IDLE"
              /\ open
              /\ gInt.valid

RecoverAs(isCold) ==
    /\ autos' = 0
    /\ \/ ResumePrint(isCold, gInt.resumes + 1)
       \/ CannotOpen /\ gJobResumes' = gInt.resumes + 1 /\ UNCHANGED gInt
    /\ UNCHANGED <<linkVars, uptimes, printerVars, bounds>>

\* The user resumes and gives the height of the nozzle, because the record says the printer has
\* lost it or because the user says so.
RecoverAtHeight ==
    /\ MayRecover
    /\ RecoverAs(TRUE)

\* The user resumes. If X and Y must be homed first, the height of the nozzle is what it was
\* when the board raised it.
Recover ==
    /\ MayRecover
    /\ gInt.printerKept \/ (gInt.parked /\ gInt.scanned)
    /\ RecoverAs(~gInt.printerKept)

\* The user does not want the print any more: the record goes, the journal is written next.
Discard ==
    /\ ~Busy
    /\ gInt.valid
    /\ gInt' = NoInt
    /\ PrintOver
    /\ run' = IF gInt.parked /\ ~gInt.bedOffDone THEN "discarding parked" ELSE "discarding"
    /\ UNCHANGED <<gState, linkVars, progress, job, uptimes, printerVars, autos, bounds>>

CloseDiscarded ==
    /\ run \in {"discarding", "discarding parked"}
    /\ CloseRecord
    /\ run' = IF run = "discarding parked" /\ open THEN "bed off" ELSE "none"
    /\ UNCHANGED <<gState, linkVars, gInt, progress, uptimes, printerVars, live, autos, bounds>>

\* Nobody will resume what was parked on the bed.
DiscardedBedOff ==
    /\ run = "bed off"
    /\ Exec(bed' = (bed /\ ~open) /\ UNCHANGED hotend)
    /\ run' = "none"
    /\ UNCHANGED <<gState, linkVars, gInt, progress, job, uptimes, powered, pos, posKnown, history, bounds>>

\* A command of the user while nothing is printed.
Gcode ==
    /\ ~Busy
    /\ gState \in {"IDLE", "ERROR"}
    /\ open
    /\ \/ "home" \in UserGcode /\ posKnown' = TRUE /\ UNCHANGED <<hotend, bed>>
       \/ "heat" \in UserGcode /\ hotend' = TRUE /\ UNCHANGED <<bed, posKnown>>
    /\ UNCHANGED <<gState, linkVars, gInt, progress, run, job, uptimes, powered, pos, history, bounds>>

-----------------------------------------------------------------------------
(* The connection *)

\* autoConnectTick: the printer was switched off or unplugged while connected.
Gone ==
    /\ ~Busy
    /\ gState = "IDLE" /\ ~open
    /\ gState' = "DISCONNECTED"
    /\ gInt' = [gInt EXCEPT !.printerKept = FALSE]
    /\ UNCHANGED <<linkVars, progress, run, job, uptimes, printerVars, history, bounds>>

AutoConnect ==
    /\ ~Busy
    /\ ~userDisconnected
    /\ gState = "DISCONNECTED" \/ (gState = "ERROR" /\ connectFailed)
    /\ powered
    /\ open' = TRUE
    /\ gState' = "IDLE"
    /\ connectFailed' = FALSE
    /\ UNCHANGED <<userDisconnected, gInt, progress, run, job, uptimes, printerVars, history, bounds>>

Connect ==
    /\ ~Busy
    /\ userDisconnected' = FALSE
    /\ open' = (open \/ powered)
    /\ connectFailed' = ~open'
    /\ gState' = IF open' THEN "IDLE" ELSE "ERROR"
    /\ UNCHANGED <<gInt, progress, run, job, uptimes, printerVars, history, bounds>>

Disconnect ==
    /\ ~Busy
    /\ userDisconnected' = (userDisconnected \/ (open /\ gState = "IDLE"))
    /\ open' = FALSE
    /\ gState' = "DISCONNECTED"
    /\ UNCHANGED <<connectFailed, gInt, progress, run, job, uptimes, printerVars, history, bounds>>

SelectLink ==
    /\ ~Busy
    /\ userDisconnected' = FALSE
    /\ open' = FALSE
    /\ gState' = "DISCONNECTED"
    /\ UNCHANGED <<connectFailed, gInt, progress, run, job, uptimes, printerVars, history, bounds>>

-----------------------------------------------------------------------------
(* Restarts and outages *)

TimePasses ==
    /\ ~bootLong
    /\ bootLong' = TRUE
    /\ UNCHANGED <<gState, linkVars, gInt, progress, run, job, beatLong, prevLong, printerVars, history, bounds>>

\* Not called while a command of the preamble or of the park is waited for.
Beat ==
    /\ run \in {"none", "M110", "printing"}
    /\ beatLong' = bootLong
    /\ UNCHANGED <<gState, linkVars, gInt, progress, run, job, bootLong, prevLong, printerVars, history, bounds>>

\* The uptime of the boot before is left standing.
FreshBeatKept == beatLong' = beatLong

FreshBeat == beatLong' = FALSE

BootRecord(loop) == [NoInt EXCEPT !.valid = TRUE, !.atBoot = TRUE, !.bytes = job.bytes, !.resumes = job.resumes,
                                  !.st = job.st, !.haveState = TRUE, !.scanned = TRUE, !.crashLoop = loop]

\* The board crashes or loses its power and starts again. What was on the wire is executed.
Crash ==
    /\ crashes < MaxCrashes
    /\ crashes' = crashes + 1
    /\ \E powerLoss \in BOOLEAN :
          /\ gInt' \in (IF job.active THEN {BootRecord(~powerLoss /\ ~beatLong)} ELSE {NoInt})
                       \cup (IF "boot" \in SdBusy THEN {NoInt} ELSE {})
          /\ prevLong' = (bootLong \/ powerLoss)
    /\ FreshBeat
    /\ bootLong' = FALSE
    /\ gState' = "DISCONNECTED"
    /\ open' = FALSE /\ userDisconnected' = FALSE /\ connectFailed' = FALSE
    /\ run' = "none"
    /\ gJobResumes' = 0 /\ gBytesDone' = 0 /\ gAckState' = 0
    /\ base' = 0 /\ cold' = FALSE /\ lastJournal' = 0
    /\ IF run = "printing" /\ open
         THEN \E k \in pos..Max({pos, Min({FileLen, Max({gBytesDone, base}) + InFlight})}) :
                /\ pos' = k
                /\ hotend' = IF k = pos THEN hotend ELSE HotAt(k)
                /\ bed' = IF k = pos THEN bed ELSE HotAt(k)
                /\ posKnown' = (posKnown \/ (pos = 0 /\ k > 0))
         ELSE UNCHANGED <<pos, hotend, bed, posKnown>>
    /\ UNCHANGED <<job, powered, history, outages>>

\* The printer is switched off.
PowerOff ==
    /\ powered
    /\ "off" \in Faults
    /\ outages < MaxOutages
    /\ outages' = outages + 1
    /\ powered' = FALSE
    /\ open' = FALSE
    /\ hotend' = FALSE /\ bed' = FALSE
    /\ posKnown' = FALSE
    /\ UNCHANGED <<gState, userDisconnected, connectFailed, gInt, progress, run, job, uptimes, pos,
                   history, crashes>>

PowerOn ==
    /\ ~powered
    /\ powered' = TRUE
    /\ UNCHANGED <<gState, linkVars, gInt, progress, run, job, uptimes, hotend, bed, pos, posKnown,
                   history, bounds>>

-----------------------------------------------------------------------------
Init ==
    /\ gState = "DISCONNECTED"
    /\ open = FALSE /\ userDisconnected = FALSE /\ connectFailed = FALSE
    /\ gInt = NoInt
    /\ gJobResumes = 0 /\ gBytesDone = 0 /\ gAckState = 0
    /\ base = 0 /\ cold = FALSE /\ lastJournal = 0
    /\ run = "none"
    /\ job = Closed
    /\ beatLong = FALSE /\ bootLong = FALSE /\ prevLong = FALSE
    /\ powered \in BOOLEAN
    /\ hotend = FALSE /\ bed = FALSE
    /\ pos = 0
    /\ posKnown = FALSE
    /\ live = FALSE
    /\ closing = "done"
    /\ autos = 0
    /\ crashes = 0 /\ outages = 0

PrintRuns == AckM110 \/ ExecuteLine \/ AckLine \/ Finish \/ GiveUp \/ LinkLost \/ PreambleHeats \/ PreamblePlaces
             \/ JournalTick \/ StopShutsDown \/ NoteEnd \/ CloseJournal \/ CloseDiscarded \/ DiscardedBedOff

Ticks == ScanFile \/ LookAtPrinter \/ RaiseNozzle \/ SwitchOffParked \/ DeclineAuto \/ AutoResume \/ BedOff
         \/ Gone \/ AutoConnect \/ Beat

Users == Start \/ Stop \/ Recover \/ RecoverAtHeight \/ Discard \/ Gcode \/ Connect \/ Disconnect \/ SelectLink

Outside == TimePasses \/ Crash \/ PowerOff \/ PowerOn \/ PrinterRestarts

Next == PrintRuns \/ Ticks \/ Users \/ Outside

Spec == Init /\ [][Next]_vars

-----------------------------------------------------------------------------
(* Safety *)

Interrupted == [valid: BOOLEAN, atBoot: BOOLEAN, bytes: Offsets, resumes: Nat, st: Offsets, haveState: BOOLEAN,
                scanned: BOOLEAN, checked: BOOLEAN, printerKept: BOOLEAN, parked: BOOLEAN,
                bedOffDone: BOOLEAN, autoTried: BOOLEAN, crashLoop: BOOLEAN]

JobRecord == [active: BOOLEAN, bytes: Offsets, resumes: Nat, st: Offsets]

EngineTypeOK ==
    /\ gState \in {"DISCONNECTED", "IDLE", "PRINTING", "ERROR"}
    /\ run \in {"none", "preamble", "placing", "M110", "printing", "stopping", "ending", "closing", "park", "parked",
               "not parked", "discarding", "discarding parked", "bed off"}
    /\ gState = "PRINTING" <=> Printing \/ run = "stopping"
    /\ closing \in {"due", "refused", "done"}

FlagTypeOK ==
    /\ open \in BOOLEAN /\ userDisconnected \in BOOLEAN /\ connectFailed \in BOOLEAN
    /\ cold \in BOOLEAN /\ live \in BOOLEAN
    /\ beatLong \in BOOLEAN /\ bootLong \in BOOLEAN /\ prevLong \in BOOLEAN
    /\ powered \in BOOLEAN /\ hotend \in BOOLEAN /\ bed \in BOOLEAN /\ posKnown \in BOOLEAN

RecordTypeOK ==
    /\ gInt \in Interrupted
    /\ gJobResumes \in Nat /\ gBytesDone \in Offsets /\ gAckState \in Offsets
    /\ base \in Offsets /\ lastJournal \in 0..(FileLen + 1)
    /\ job \in JobRecord

CountTypeOK == /\ pos \in Offsets /\ autos \in Nat
               /\ crashes \in 0..MaxCrashes /\ outages \in 0..MaxOutages

\* Types; a print in progress and the state reported for it go together.
TypeOK == EngineTypeOK /\ FlagTypeOK /\ RecordTypeOK /\ CountTypeOK

\* A print never continues past a line that was not executed, whatever crashed between the
\* acknowledgement, the journal's write and the boot that reads it.
NothingSkipped == run \in {"preamble", "placing", "M110"} => base <= pos \/ base = 0

\* A print that was started and did not come to its end is never forgotten: it runs, the engine
\* task is about to put its error on record, or it is offered for a resume.
NeverForgotten == live => Printing \/ (run = "ending" /\ gState = "ERROR") \/ gInt.valid

\* A print that finished, was stopped or was discarded is not found interrupted by any later
\* boot, once the record that closes its journal was written.
EndedNotRevived == gInt.valid => live \/ closing # "done"

\* Nor is a print whose closing record the busy SD card refused: journalWrite counts on a later
\* write to catch up.
RefusedNotRevived == gInt.valid => live \/ closing # "refused"

\* journalWrite: the journal holds the offset and the machine state of one and the same line.
JournalStateTrue == job.active => job.st = job.bytes

\* The board alone does not continue a print more than AUTO_RESUME_MAX times in a row.
AutoBounded == autos <= AutoResumeMax

\* The board continues a print by itself only after a boot that lasted, or a power loss.
AutoAfterLongBoot == [][AutoResume => prevLong]_vars

\* interruptedTick: the board continues a print by itself only on a printer that still knows where it is.
AutoKnowsPosition == [][AutoResume => posKnown]_vars

\* What the record says of the printer is true: if it "kept", so that a resume does not home X
\* and Y, it still knows where it is (line 1 has homed it).
KeptMeansKept == gInt.valid /\ gInt.printerKept /\ gInt.bytes > 0 /\ open => posKnown

-----------------------------------------------------------------------------
(* Liveness *)

\* The engine task keeps turning: every step of it that stays enabled is taken.
Fairness == /\ WF_vars(LookAtPrinter) /\ WF_vars(RaiseNozzle) /\ WF_vars(SwitchOffParked)
            /\ WF_vars(DeclineAuto) /\ WF_vars(AutoResume) /\ WF_vars(BedOff)

LiveSpec == Spec /\ Fairness

\* An interrupted print was found at boot, and the printer can be reached.
Unresolved == gInt.valid /\ gInt.atBoot /\ open

\* A hotend that is hot when the board comes back does not stay hot over an interrupted print:
\* interruptedTick switches it off or continues the print, as long as the record and the link
\* are there.
HotendNotLeftOn == Unresolved /\ hotend ~> ~hotend \/ gState = "PRINTING" \/ ~Unresolved

\* Neither does the bed: it is switched off when nobody resumes the print for half an hour.
BedNotLeftOn == Unresolved /\ bed ~> ~bed \/ gState = "PRINTING" \/ ~Unresolved
=============================================================================

-------------------------- MODULE Recovery_proofs ---------------------------
(***************************************************************************)
(* Proofs about Recovery, for every file, window, number of crashes and    *)
(* outages, and every pattern of refused SD accesses that the theorems     *)
(* name: first the types, then what is never lost, never revived and       *)
(* never skipped.                                                          *)
(*                                                                         *)
(* For the second part the actions are sorted into thirteen kinds of step, *)
(* by what they do to the few fields the invariants read; each invariant   *)
(* is then proved once for every kind.                                     *)
(***************************************************************************)
EXTENDS Recovery, TLAPS

LEMMA MaxOfTwo == ASSUME NEW a \in Nat, NEW b \in Nat
                  PROVE /\ Max({a, b}) \in {a, b}
                        /\ Max({a, b}) >= a
                        /\ Max({a, b}) >= b
<1>1. \E x \in {a, b} : \A y \in {a, b} : x >= y
  <2>1. CASE a >= b BY <2>1
  <2>2. CASE b >= a BY <2>2
  <2> QED BY <2>1, <2>2
<1>2. Max({a, b}) \in {a, b} /\ \A y \in {a, b} : Max({a, b}) >= y
  BY <1>1 DEF Max
<1> QED BY <1>2

LEMMA MinOfTwo == ASSUME NEW a \in Nat, NEW b \in Nat
                  PROVE /\ Min({a, b}) \in {a, b}
                        /\ Min({a, b}) <= a
                        /\ Min({a, b}) <= b
<1>1. \E x \in {a, b} : \A y \in {a, b} : x <= y
  <2>1. CASE a <= b BY <2>1
  <2>2. CASE b <= a BY <2>2
  <2> QED BY <2>1, <2>2
<1>2. Min({a, b}) \in {a, b} /\ \A y \in {a, b} : Min({a, b}) <= y
  BY <1>1 DEF Min
<1> QED BY <1>2

-----------------------------------------------------------------------------
(* Types *)

LEMMA OffsetFacts == /\ Offsets \subseteq Nat
                     /\ 0 \in Offsets /\ FileLen \in Offsets
                     /\ Offsets \subseteq 0..(FileLen + 1) /\ FileLen + 1 \in 0..(FileLen + 1)
                     /\ \A k \in Offsets : k <= FileLen
                     /\ \A k \in Nat : k <= FileLen => k \in Offsets
  BY RecoveryAssumption DEF Offsets

LEMMA RecordTyped == /\ \A b \in Offsets, n \in Nat, s \in Offsets : Record(b, n, s) \in JobRecord
                     /\ Closed \in JobRecord
  BY OffsetFacts DEF Record, Closed, JobRecord

LEMMA RecordFields == ASSUME NEW i \in Interrupted
                      PROVE /\ i.bytes \in Offsets /\ i.st \in Offsets /\ i.resumes \in Nat
                            /\ i.crashLoop \in BOOLEAN /\ i.parked \in BOOLEAN /\ i.bedOffDone \in BOOLEAN
  BY DEF Interrupted

LEMMA BlankRecordTyped == NoInt \in Interrupted
  BY OffsetFacts DEF NoInt, Interrupted

\* The record of a print cut off by an error.
LEMMA ErrorRecordTyped == ASSUME FlagTypeOK, RecordTypeOK PROVE ErrorRecord \in Interrupted
<1>1. HotAt(gAckState) \in BOOLEAN /\ open \in BOOLEAN
  BY DEF HotAt, FlagTypeOK
<1>2. gBytesDone \in Offsets /\ gAckState \in Offsets
  BY DEF RecordTypeOK
<1> QED
  BY <1>1, <1>2, BlankRecordTyped DEF ErrorRecord, Interrupted

\* The record of a print found at boot.
LEMMA BootRecordTyped ==
  ASSUME NEW l \in BOOLEAN, job \in JobRecord
  PROVE  BootRecord(l) \in Interrupted
  BY BlankRecordTyped DEF BootRecord, Interrupted, JobRecord

\* A resume keeps the types; it leaves the engine printing or in error.
LEMMA ResumeTyped ==
  ASSUME FlagTypeOK, RecordTypeOK, NEW c \in BOOLEAN, NEW n \in Nat, ResumePrint(c, n)
  PROVE  /\ gState' \in {"ERROR", "PRINTING"}
         /\ run' \in {"ending", "preamble"}
         /\ gState' = "PRINTING" <=> run' = "preamble"
         /\ cold' = c /\ live' /\ live' \in BOOLEAN /\ closing' = "done"
         /\ RecordTypeOK'
<1>0. /\ gInt \in Interrupted /\ gInt.bytes \in Offsets /\ gInt.st \in Offsets /\ gInt.bytes \in Nat
      /\ gAckState \in Offsets /\ job \in JobRecord
  BY RecordFields, OffsetFacts DEF RecordTypeOK
<1>1. /\ gJobResumes' = n /\ base' = gInt.bytes /\ lastJournal' = FileLen + 1 /\ cold' = c
      /\ gBytesDone' = gInt.bytes /\ gInt' = NoInt
      /\ live' = TRUE /\ closing' = "done"
      /\ job' = Record(gInt.bytes, n, gAckState) \/ job' = job
  BY DEF ResumePrint, PrintBegins, JournalWrite
<1>2. \/ gState' = "ERROR" /\ run' = "ending" /\ gAckState' = gAckState
      \/ gState' = "PRINTING" /\ run' = "preamble" /\ gAckState' = IF gInt.haveState THEN gInt.st ELSE gInt.bytes
  BY Zenon DEF ResumePrint, EndInError
<1>3. gAckState' \in Offsets
  BY <1>0, <1>2
<1>4. job' \in JobRecord
  BY <1>0, <1>1, RecordTyped
<1>5. RecordTypeOK'
  BY <1>0, <1>1, <1>3, <1>4, BlankRecordTyped, OffsetFacts DEF RecordTypeOK
<1> QED BY <1>1, <1>2, <1>5

\* What the three ways to resume have in common: a resume, or a card that cannot be read.
LEMMA ResumeOrNot ==
  ASSUME AutoResume \/ Recover \/ RecoverAtHeight
  PROVE  /\ UNCHANGED <<linkVars, uptimes, printerVars, bounds>>
         /\ ~Busy
         /\ autos' = 0 \/ autos' = autos + 1 \/ autos' = autos
         /\ \/ \E c \in BOOLEAN : ResumePrint(c, gInt.resumes + 1)
            \/ /\ CannotOpen
               /\ gJobResumes' = gInt.resumes + 1
               /\ gInt' = gInt \/ gInt' = [gInt EXCEPT !.autoTried = TRUE]
<1>1. CASE AutoResume
  BY <1>1, Zenon DEF AutoResume, MayTryAuto
<1>2. ASSUME NEW c \in BOOLEAN, RecoverAs(c), ~Busy
      PROVE  /\ UNCHANGED <<linkVars, uptimes, printerVars, bounds>>
             /\ autos' = 0
             /\ \/ \E d \in BOOLEAN : ResumePrint(d, gInt.resumes + 1)
                \/ CannotOpen /\ gJobResumes' = gInt.resumes + 1 /\ gInt' = gInt
  BY <1>2, Zenon DEF RecoverAs
<1>3. CASE Recover
  <2>1. RecoverAs(~gInt.printerKept) /\ ~Busy
    BY <1>3, Zenon DEF Recover, MayRecover
  <2>2. (~gInt.printerKept) \in BOOLEAN
    OBVIOUS
  <2> QED BY <1>2, <2>1, <2>2, Zenon
<1>4. CASE RecoverAtHeight
  <2>1. RecoverAs(TRUE) /\ ~Busy
    BY <1>4, Zenon DEF RecoverAtHeight, MayRecover
  <2> QED BY <1>2, <2>1, Zenon
<1> QED BY <1>1, <1>3, <1>4

LEMMA ResumeStepTyped ==
  ASSUME EngineTypeOK, FlagTypeOK, RecordTypeOK, CountTypeOK, AutoResume \/ Recover \/ RecoverAtHeight
  PROVE  EngineTypeOK' /\ FlagTypeOK' /\ RecordTypeOK' /\ CountTypeOK'
<1> USE DEF linkVars, uptimes, printerVars, bounds
<1>0. gInt.resumes + 1 \in Nat /\ gInt \in Interrupted
  BY RecordFields DEF RecordTypeOK
<1>1. CountTypeOK'
  <2>1. autos' \in Nat
    BY ResumeOrNot DEF CountTypeOK
  <2>2. pos' = pos /\ crashes' = crashes /\ outages' = outages
    BY ResumeOrNot
  <2> QED BY <2>1, <2>2 DEF CountTypeOK
<1>2. CASE \E c \in BOOLEAN : ResumePrint(c, gInt.resumes + 1)
  <2>1. PICK c \in BOOLEAN : ResumePrint(c, gInt.resumes + 1)
    BY <1>2
  <2>2. /\ gState' \in {"ERROR", "PRINTING"} /\ run' \in {"ending", "preamble"}
        /\ gState' = "PRINTING" <=> run' = "preamble"
        /\ cold' = c /\ live' \in BOOLEAN /\ closing' = "done"
        /\ RecordTypeOK'
    BY <2>1, <1>0, ResumeTyped
  <2>3. EngineTypeOK'
    BY <2>2 DEF EngineTypeOK, Printing
  <2>4. FlagTypeOK'
    BY <2>2, ResumeOrNot DEF FlagTypeOK
  <2> QED BY <1>1, <2>2, <2>3, <2>4
<1>3. CASE /\ CannotOpen
           /\ gJobResumes' = gInt.resumes + 1
           /\ gInt' = gInt \/ gInt' = [gInt EXCEPT !.autoTried = TRUE]
  <2>0. ~Busy /\ gState' = "ERROR" /\ run' = run /\ closing' = closing
    BY <1>3, ResumeOrNot DEF CannotOpen
  <2>1. EngineTypeOK'
    BY <2>0 DEF EngineTypeOK, Busy, Printing
  <2>2. FlagTypeOK'
    BY <1>3, ResumeOrNot DEF FlagTypeOK, CannotOpen
  <2>3. gInt' \in Interrupted
    BY <1>0, <1>3 DEF Interrupted
  <2>4. RecordTypeOK'
    BY <1>0, <1>3, <2>3 DEF RecordTypeOK, CannotOpen
  <2> QED BY <1>1, <2>1, <2>2, <2>4
<1> QED BY <1>2, <1>3, ResumeOrNot

LEMMA InitTyped == Init => TypeOK
<1> SUFFICES ASSUME Init PROVE TypeOK
  OBVIOUS
<1>1. EngineTypeOK
  BY DEF Init, EngineTypeOK, Printing
<1>2. FlagTypeOK
  BY DEF Init, FlagTypeOK
<1>3. RecordTypeOK
  BY BlankRecordTyped, RecordTyped, OffsetFacts, RecoveryAssumption DEF Init, RecordTypeOK
<1>4. CountTypeOK
  BY RecoveryAssumption, OffsetFacts DEF Init, CountTypeOK
<1> QED BY <1>1, <1>2, <1>3, <1>4 DEF TypeOK

LEMMA StepTyped == TypeOK /\ [Next]_vars => TypeOK'
<1> SUFFICES ASSUME EngineTypeOK, FlagTypeOK, RecordTypeOK, CountTypeOK, [Next]_vars
             PROVE  EngineTypeOK' /\ FlagTypeOK' /\ RecordTypeOK' /\ CountTypeOK'
  BY DEF TypeOK
<1> USE DEF linkVars, progress, uptimes, printerVars, bounds, history
<1>0. CASE UNCHANGED vars
  <2>1. EngineTypeOK'
    BY <1>0 DEF vars, EngineTypeOK, Printing
  <2>2. FlagTypeOK'
    BY <1>0 DEF vars, FlagTypeOK
  <2>3. RecordTypeOK' /\ CountTypeOK'
    BY <1>0 DEF vars, RecordTypeOK, CountTypeOK
  <2> QED BY <2>1, <2>2, <2>3
<1>1. CASE AckM110
  <2>1. EngineTypeOK'
    BY <1>1 DEF AckM110, EngineTypeOK, Printing
  <2>2. FlagTypeOK'
    BY <1>1 DEF AckM110, FlagTypeOK
  <2>3. RecordTypeOK'
    BY <1>1, OffsetFacts DEF AckM110, RecordTypeOK
  <2>4. CountTypeOK'
    BY <1>1, OffsetFacts DEF AckM110, CountTypeOK, RecordTypeOK
  <2> QED BY <2>1, <2>2, <2>3, <2>4
<1>2. CASE ExecuteLine
  <2>1. EngineTypeOK'
    BY <1>2 DEF ExecuteLine, EngineTypeOK, Printing
  <2>2. FlagTypeOK'
    BY <1>2 DEF ExecuteLine, FlagTypeOK, HotAt
  <2>3. RecordTypeOK'
    BY <1>2, OffsetFacts DEF ExecuteLine, RecordTypeOK, HotAt
  <2>4. CountTypeOK'
    BY <1>2, OffsetFacts DEF ExecuteLine, CountTypeOK, RecordTypeOK
  <2> QED BY <2>1, <2>2, <2>3, <2>4
<1>3. CASE AckLine
  <2>1. EngineTypeOK'
    BY <1>3 DEF AckLine, EngineTypeOK, Printing
  <2>2. FlagTypeOK'
    BY <1>3 DEF AckLine, FlagTypeOK
  <2>3. RecordTypeOK'
    BY <1>3, OffsetFacts, MaxOfTwo DEF AckLine, RecordTypeOK, Offsets, CountTypeOK
  <2>4. CountTypeOK'
    BY <1>3 DEF AckLine, CountTypeOK
  <2> QED BY <2>1, <2>2, <2>3, <2>4
<1>4. CASE Finish
  <2>1. EngineTypeOK'
    BY <1>4 DEF Finish, EngineTypeOK, Printing, PrintOver
  <2>2. FlagTypeOK'
    BY <1>4 DEF Finish, FlagTypeOK, PrintOver
  <2>3. RecordTypeOK'
    BY <1>4 DEF Finish, RecordTypeOK, PrintOver
  <2>4. CountTypeOK'
    BY <1>4 DEF Finish, CountTypeOK, PrintOver
  <2> QED BY <2>1, <2>2, <2>3, <2>4
<1>5. CASE GiveUp
  <2>1. EngineTypeOK'
    BY <1>5 DEF GiveUp, EngineTypeOK, Printing, EndInError, SafeShutdown
  <2>2. FlagTypeOK'
    BY <1>5 DEF GiveUp, FlagTypeOK, EndInError, SafeShutdown
  <2>3. RecordTypeOK'
    BY <1>5 DEF GiveUp, RecordTypeOK, EndInError, SafeShutdown
  <2>4. CountTypeOK'
    BY <1>5 DEF GiveUp, CountTypeOK, EndInError, SafeShutdown
  <2> QED BY <2>1, <2>2, <2>3, <2>4
<1>6. CASE LinkLost
  <2>1. EngineTypeOK'
    BY <1>6 DEF LinkLost, EngineTypeOK, Printing, EndInError
  <2>2. FlagTypeOK'
    BY <1>6 DEF LinkLost, FlagTypeOK, EndInError
  <2>3. RecordTypeOK'
    BY <1>6 DEF LinkLost, RecordTypeOK, EndInError
  <2>4. CountTypeOK'
    BY <1>6 DEF LinkLost, CountTypeOK, EndInError
  <2> QED BY <2>1, <2>2, <2>3, <2>4
<1>7. CASE PreambleHeats
  <2>1. EngineTypeOK'
    BY <1>7 DEF PreambleHeats, EngineTypeOK, Printing
  <2>2. FlagTypeOK'
    BY <1>7 DEF PreambleHeats, FlagTypeOK, HotAt
  <2>3. RecordTypeOK'
    BY <1>7, OffsetFacts DEF PreambleHeats, RecordTypeOK, HotAt
  <2>4. CountTypeOK'
    BY <1>7 DEF PreambleHeats, CountTypeOK
  <2> QED BY <2>1, <2>2, <2>3, <2>4
<1>8. CASE PreamblePlaces
  <2>1. EngineTypeOK'
    BY <1>8 DEF PreamblePlaces, EngineTypeOK, Printing
  <2>2. FlagTypeOK'
    BY <1>8 DEF PreamblePlaces, FlagTypeOK
  <2>3. RecordTypeOK'
    BY <1>8, OffsetFacts DEF PreamblePlaces, RecordTypeOK
  <2>4. CountTypeOK'
    BY <1>8 DEF PreamblePlaces, CountTypeOK
  <2> QED BY <2>1, <2>2, <2>3, <2>4
<1>9. CASE JournalTick
  <2>1. EngineTypeOK'
    BY <1>9 DEF JournalTick, EngineTypeOK, Printing, JournalWrite, ActiveRecord
  <2>2. FlagTypeOK'
    BY <1>9 DEF JournalTick, FlagTypeOK, JournalWrite, ActiveRecord, Record
  <2>3. RecordTypeOK'
    BY <1>9, OffsetFacts, RecordTyped DEF JournalTick, RecordTypeOK, JournalWrite, ActiveRecord
  <2>4. CountTypeOK'
    BY <1>9 DEF JournalTick, CountTypeOK, JournalWrite, ActiveRecord
  <2> QED BY <2>1, <2>2, <2>3, <2>4
<1>10. CASE ScanFile
  <2>1. EngineTypeOK'
    BY <1>10 DEF ScanFile, EngineTypeOK, Printing, Busy
  <2>2. FlagTypeOK'
    BY <1>10 DEF ScanFile, FlagTypeOK, Busy
  <2>3. RecordTypeOK'
    BY <1>10, OffsetFacts DEF ScanFile, RecordTypeOK, Interrupted, FlagTypeOK, Busy
  <2>4. CountTypeOK'
    BY <1>10 DEF ScanFile, CountTypeOK, Busy
  <2> QED BY <2>1, <2>2, <2>3, <2>4
<1>11. CASE LookAtPrinter
  <2>1. EngineTypeOK'
    BY <1>11 DEF LookAtPrinter, EngineTypeOK, Printing, Busy
  <2>2. FlagTypeOK'
    BY <1>11 DEF LookAtPrinter, FlagTypeOK, Busy
  <2>3. RecordTypeOK'
    BY <1>11, OffsetFacts DEF LookAtPrinter, RecordTypeOK, Interrupted, FlagTypeOK, Busy
  <2>4. CountTypeOK'
    BY <1>11 DEF LookAtPrinter, CountTypeOK, Busy
  <2> QED BY <2>1, <2>2, <2>3, <2>4
<1>12. CASE RaiseNozzle
  <2>1. EngineTypeOK'
    BY <1>12 DEF RaiseNozzle, EngineTypeOK, Printing
  <2>2. FlagTypeOK'
    BY <1>12 DEF RaiseNozzle, FlagTypeOK
  <2>3. RecordTypeOK'
    BY <1>12 DEF RaiseNozzle, RecordTypeOK
  <2>4. CountTypeOK'
    BY <1>12 DEF RaiseNozzle, CountTypeOK
  <2> QED BY <2>1, <2>2, <2>3, <2>4
<1>13. CASE SwitchOffParked
  <2>1. EngineTypeOK'
    BY <1>13 DEF SwitchOffParked, EngineTypeOK, Printing, Exec, WillAuto
  <2>2. FlagTypeOK'
    BY <1>13 DEF SwitchOffParked, FlagTypeOK, Exec, WillAuto, HotAt
  <2>3. RecordTypeOK'
    BY <1>13, OffsetFacts DEF SwitchOffParked, RecordTypeOK, Interrupted, FlagTypeOK, Exec, WillAuto, HotAt
  <2>4. CountTypeOK'
    BY <1>13 DEF SwitchOffParked, CountTypeOK, Exec, WillAuto
  <2> QED BY <2>1, <2>2, <2>3, <2>4
<1>14. CASE DeclineAuto
  <2>1. EngineTypeOK'
    BY <1>14 DEF DeclineAuto, EngineTypeOK, Printing, MayTryAuto, Busy, Exec
  <2>2. FlagTypeOK'
    BY <1>14 DEF DeclineAuto, FlagTypeOK, MayTryAuto, Busy, Exec
  <2>3. RecordTypeOK'
    BY <1>14, OffsetFacts DEF DeclineAuto, RecordTypeOK, Interrupted, FlagTypeOK, MayTryAuto, Busy, Exec
  <2>4. CountTypeOK'
    BY <1>14 DEF DeclineAuto, CountTypeOK, MayTryAuto, Busy, Exec
  <2> QED BY <2>1, <2>2, <2>3, <2>4
<1>15. CASE AutoResume
  BY <1>15, ResumeStepTyped
<1>16. CASE BedOff
  <2>1. EngineTypeOK'
    BY <1>16 DEF BedOff, EngineTypeOK, Printing, Busy, Exec
  <2>2. FlagTypeOK'
    BY <1>16 DEF BedOff, FlagTypeOK, Busy, Exec
  <2>3. RecordTypeOK'
    BY <1>16, OffsetFacts DEF BedOff, RecordTypeOK, Interrupted, FlagTypeOK, Busy, Exec
  <2>4. CountTypeOK'
    BY <1>16 DEF BedOff, CountTypeOK, Busy, Exec
  <2> QED BY <2>1, <2>2, <2>3, <2>4
<1>17. CASE Gone
  <2>1. EngineTypeOK'
    BY <1>17 DEF Gone, EngineTypeOK, Printing, Busy
  <2>2. FlagTypeOK'
    BY <1>17 DEF Gone, FlagTypeOK, Busy
  <2>3. RecordTypeOK'
    BY <1>17, OffsetFacts DEF Gone, RecordTypeOK, Interrupted, FlagTypeOK, Busy
  <2>4. CountTypeOK'
    BY <1>17 DEF Gone, CountTypeOK, Busy
  <2> QED BY <2>1, <2>2, <2>3, <2>4
<1>18. CASE AutoConnect
  <2>1. EngineTypeOK'
    BY <1>18 DEF AutoConnect, EngineTypeOK, Printing, Busy
  <2>2. FlagTypeOK'
    BY <1>18 DEF AutoConnect, FlagTypeOK, Busy
  <2>3. RecordTypeOK'
    BY <1>18, OffsetFacts DEF AutoConnect, RecordTypeOK, Busy
  <2>4. CountTypeOK'
    BY <1>18 DEF AutoConnect, CountTypeOK, Busy
  <2> QED BY <2>1, <2>2, <2>3, <2>4
<1>19. CASE Beat
  <2>1. EngineTypeOK'
    BY <1>19 DEF Beat, EngineTypeOK, Printing
  <2>2. FlagTypeOK'
    BY <1>19 DEF Beat, FlagTypeOK
  <2>3. RecordTypeOK'
    BY <1>19, OffsetFacts DEF Beat, RecordTypeOK
  <2>4. CountTypeOK'
    BY <1>19 DEF Beat, CountTypeOK
  <2> QED BY <2>1, <2>2, <2>3, <2>4
<1>20. CASE Start
  <2>1. EngineTypeOK'
    BY <1>20 DEF Start, EngineTypeOK, Printing, Busy, CannotOpen, JournalWrite, PrintBegins
  <2>2. FlagTypeOK'
    BY <1>20 DEF Start, FlagTypeOK, Busy, CannotOpen, NoInt, JournalWrite, PrintBegins
  <2>3. RecordTypeOK'
    BY <1>20, OffsetFacts, BlankRecordTyped, RecordTyped, RecordFields DEF Start, RecordTypeOK, Busy,
       CannotOpen, JournalWrite
  <2>4. CountTypeOK'
    BY <1>20, OffsetFacts DEF Start, CountTypeOK, RecordTypeOK, Busy, CannotOpen, JournalWrite
  <2> QED BY <2>1, <2>2, <2>3, <2>4
<1>21. CASE Stop
  <2>1. EngineTypeOK'
    BY <1>21 DEF Stop, EngineTypeOK, Printing, PrintOver
  <2>2. FlagTypeOK'
    BY <1>21 DEF Stop, FlagTypeOK, PrintOver
  <2>3. RecordTypeOK'
    BY <1>21 DEF Stop, RecordTypeOK, PrintOver
  <2>4. CountTypeOK'
    BY <1>21 DEF Stop, CountTypeOK, PrintOver
  <2> QED BY <2>1, <2>2, <2>3, <2>4
<1>22. CASE Recover
  BY <1>22, ResumeStepTyped
<1>23. CASE RecoverAtHeight
  BY <1>23, ResumeStepTyped
<1>24. CASE Discard
  <2>1. EngineTypeOK'
    BY <1>24 DEF Discard, EngineTypeOK, Printing, Busy, PrintOver
  <2>2. FlagTypeOK'
    BY <1>24 DEF Discard, FlagTypeOK, Busy, PrintOver
  <2>3. RecordTypeOK'
    BY <1>24, BlankRecordTyped DEF Discard, RecordTypeOK, Busy
  <2>4. CountTypeOK'
    BY <1>24 DEF Discard, CountTypeOK, Busy, PrintOver
  <2> QED BY <2>1, <2>2, <2>3, <2>4
<1>25. CASE Gcode
  <2>1. EngineTypeOK'
    BY <1>25 DEF Gcode, EngineTypeOK, Printing, Busy
  <2>2. FlagTypeOK'
    BY <1>25 DEF Gcode, FlagTypeOK, Busy
  <2>3. RecordTypeOK'
    BY <1>25, OffsetFacts DEF Gcode, RecordTypeOK, Busy
  <2>4. CountTypeOK'
    BY <1>25 DEF Gcode, CountTypeOK, Busy
  <2> QED BY <2>1, <2>2, <2>3, <2>4
<1>26. CASE Connect
  <2>1. EngineTypeOK'
    BY <1>26 DEF Connect, EngineTypeOK, Printing, Busy
  <2>2. FlagTypeOK'
    BY <1>26 DEF Connect, FlagTypeOK, Busy
  <2>3. RecordTypeOK'
    BY <1>26, OffsetFacts DEF Connect, RecordTypeOK, Busy
  <2>4. CountTypeOK'
    BY <1>26 DEF Connect, CountTypeOK, Busy
  <2> QED BY <2>1, <2>2, <2>3, <2>4
<1>27. CASE Disconnect
  <2>1. EngineTypeOK'
    BY <1>27 DEF Disconnect, EngineTypeOK, Printing, Busy
  <2>2. FlagTypeOK'
    BY <1>27 DEF Disconnect, FlagTypeOK, Busy
  <2>3. RecordTypeOK'
    BY <1>27, OffsetFacts DEF Disconnect, RecordTypeOK, Busy
  <2>4. CountTypeOK'
    BY <1>27 DEF Disconnect, CountTypeOK, Busy
  <2> QED BY <2>1, <2>2, <2>3, <2>4
<1>28. CASE SelectLink
  <2>1. EngineTypeOK'
    BY <1>28 DEF SelectLink, EngineTypeOK, Printing, Busy
  <2>2. FlagTypeOK'
    BY <1>28 DEF SelectLink, FlagTypeOK, Busy
  <2>3. RecordTypeOK'
    BY <1>28, OffsetFacts DEF SelectLink, RecordTypeOK, Busy
  <2>4. CountTypeOK'
    BY <1>28 DEF SelectLink, CountTypeOK, Busy
  <2> QED BY <2>1, <2>2, <2>3, <2>4
<1>29. CASE TimePasses
  <2>1. EngineTypeOK'
    BY <1>29 DEF TimePasses, EngineTypeOK, Printing
  <2>2. FlagTypeOK'
    BY <1>29 DEF TimePasses, FlagTypeOK
  <2>3. RecordTypeOK'
    BY <1>29, OffsetFacts DEF TimePasses, RecordTypeOK
  <2>4. CountTypeOK'
    BY <1>29 DEF TimePasses, CountTypeOK
  <2> QED BY <2>1, <2>2, <2>3, <2>4
<1>30. CASE Crash
  <2>1. EngineTypeOK'
    BY <1>30 DEF Crash, EngineTypeOK, Printing, FreshBeat
  <2>2. FlagTypeOK'
    BY <1>30 DEF Crash, FlagTypeOK, FreshBeat, BootRecord, NoInt, HotAt
  <2>3. RecordTypeOK'
    BY <1>30, OffsetFacts, BlankRecordTyped, BootRecordTyped DEF Crash, RecordTypeOK, FlagTypeOK, FreshBeat
  <2>4. CountTypeOK'
    <3>1. CASE UNCHANGED pos
      BY <1>30, <3>1, RecoveryAssumption DEF Crash, CountTypeOK
    <3>2. CASE \E k \in pos..Max({pos, Min({FileLen, Max({gBytesDone, base}) + InFlight})}) : pos' = k
      <4> DEFINE wire == Max({gBytesDone, base}) + InFlight
                 far == Min({FileLen, wire})
      <4>1. wire \in Nat
        BY MaxOfTwo, OffsetFacts, RecoveryAssumption DEF RecordTypeOK
      <4>2. far \in Nat /\ far <= FileLen
        BY <4>1, MinOfTwo, RecoveryAssumption
      <4>3. Max({pos, far}) \in Nat /\ Max({pos, far}) <= FileLen
        BY <4>2, MaxOfTwo, OffsetFacts DEF CountTypeOK
      <4>4. pos' \in Offsets
        BY <3>2, <4>3, OffsetFacts DEF CountTypeOK
      <4> QED BY <1>30, <4>4, RecoveryAssumption DEF Crash, CountTypeOK
    <3> QED BY <1>30, <3>1, <3>2, Zenon DEF Crash
  <2> QED BY <2>1, <2>2, <2>3, <2>4
<1>31. CASE PowerOff
  <2>1. EngineTypeOK'
    BY <1>31 DEF PowerOff, EngineTypeOK, Printing
  <2>2. FlagTypeOK'
    BY <1>31 DEF PowerOff, FlagTypeOK
  <2>3. RecordTypeOK'
    BY <1>31, OffsetFacts DEF PowerOff, RecordTypeOK
  <2>4. CountTypeOK'
    BY <1>31, RecoveryAssumption DEF PowerOff, CountTypeOK
  <2> QED BY <2>1, <2>2, <2>3, <2>4
<1>32. CASE PowerOn
  <2>1. EngineTypeOK'
    BY <1>32 DEF PowerOn, EngineTypeOK, Printing
  <2>2. FlagTypeOK'
    BY <1>32 DEF PowerOn, FlagTypeOK
  <2>3. RecordTypeOK'
    BY <1>32, OffsetFacts DEF PowerOn, RecordTypeOK
  <2>4. CountTypeOK'
    BY <1>32 DEF PowerOn, CountTypeOK
  <2> QED BY <2>1, <2>2, <2>3, <2>4
<1>33. CASE PrinterRestarts
  <2>1. EngineTypeOK'
    BY <1>33 DEF PrinterRestarts, EngineTypeOK, Printing, EndInError
  <2>2. FlagTypeOK'
    BY <1>33 DEF PrinterRestarts, FlagTypeOK, EndInError
  <2>3. RecordTypeOK'
    BY <1>33 DEF PrinterRestarts, RecordTypeOK, EndInError
  <2>4. CountTypeOK'
    BY <1>33, RecoveryAssumption DEF PrinterRestarts, CountTypeOK, EndInError
  <2> QED BY <2>1, <2>2, <2>3, <2>4
<1>34. CASE StopShutsDown
  <2>1. EngineTypeOK'
    BY <1>34 DEF StopShutsDown, EngineTypeOK, Printing, SafeShutdown
  <2>2. FlagTypeOK'
    BY <1>34 DEF StopShutsDown, FlagTypeOK, SafeShutdown
  <2>3. RecordTypeOK'
    BY <1>34 DEF StopShutsDown, RecordTypeOK, SafeShutdown
  <2>4. CountTypeOK'
    BY <1>34 DEF StopShutsDown, CountTypeOK, SafeShutdown
  <2> QED BY <2>1, <2>2, <2>3, <2>4
<1>35. CASE NoteEnd
  <2>1. EngineTypeOK'
    BY <1>35 DEF NoteEnd, EngineTypeOK, Printing
  <2>2. FlagTypeOK'
    BY <1>35 DEF NoteEnd, FlagTypeOK
  <2>3. RecordTypeOK'
    <3>1. gInt' \in Interrupted
      BY <1>35, ErrorRecordTyped, Zenon DEF NoteEnd, RecordTypeOK
    <3> QED BY <1>35, <3>1 DEF NoteEnd, RecordTypeOK
  <2>4. CountTypeOK'
    BY <1>35 DEF NoteEnd, CountTypeOK
  <2> QED BY <2>1, <2>2, <2>3, <2>4
<1>36. CASE CloseJournal
  <2>1. EngineTypeOK'
    BY <1>36 DEF CloseJournal, EngineTypeOK, Printing, JournalWrite, CloseRecord
  <2>2. FlagTypeOK'
    BY <1>36 DEF CloseJournal, FlagTypeOK, JournalWrite, CloseRecord
  <2>3. RecordTypeOK'
    <3>1. job' = job \/ job' = Closed \/ job' = Record(gBytesDone, gJobResumes, gAckState)
      BY <1>36, Zenon DEF CloseJournal, CloseRecord, JournalWrite, ActiveRecord
    <3>2. job' \in JobRecord
      BY <3>1, RecordTyped DEF RecordTypeOK
    <3> QED BY <1>36, <3>2 DEF CloseJournal, RecordTypeOK
  <2>4. CountTypeOK'
    BY <1>36 DEF CloseJournal, CountTypeOK, JournalWrite, CloseRecord
  <2> QED BY <2>1, <2>2, <2>3, <2>4
<1>37. CASE CloseDiscarded
  <2>1. EngineTypeOK'
    BY <1>37 DEF CloseDiscarded, EngineTypeOK, Printing, CloseRecord
  <2>2. FlagTypeOK'
    BY <1>37 DEF CloseDiscarded, FlagTypeOK, CloseRecord
  <2>3. RecordTypeOK'
    <3>1. job' \in JobRecord
      BY <1>37, RecordTyped DEF CloseDiscarded, CloseRecord, RecordTypeOK
    <3> QED BY <1>37, <3>1 DEF CloseDiscarded, RecordTypeOK
  <2>4. CountTypeOK'
    BY <1>37 DEF CloseDiscarded, CountTypeOK, CloseRecord
  <2> QED BY <2>1, <2>2, <2>3, <2>4
<1>38. CASE DiscardedBedOff
  <2>1. EngineTypeOK'
    BY <1>38 DEF DiscardedBedOff, EngineTypeOK, Printing, Exec
  <2>2. FlagTypeOK'
    BY <1>38 DEF DiscardedBedOff, FlagTypeOK, Exec
  <2>3. RecordTypeOK'
    BY <1>38 DEF DiscardedBedOff, RecordTypeOK, Exec
  <2>4. CountTypeOK'
    BY <1>38 DEF DiscardedBedOff, CountTypeOK, Exec
  <2> QED BY <2>1, <2>2, <2>3, <2>4
<1> QED
  BY <1>0, <1>1, <1>2, <1>3, <1>4, <1>5, <1>6, <1>7, <1>8, <1>9, <1>10, <1>11, <1>12, <1>13, <1>14,
     <1>15, <1>16, <1>17, <1>18, <1>19, <1>20, <1>21, <1>22, <1>23, <1>24, <1>25, <1>26, <1>27, <1>28,
     <1>29, <1>30, <1>31, <1>32, <1>33, <1>34, <1>35, <1>36, <1>37, <1>38 DEF Next, PrintRuns, Ticks, Users, Outside

\* The state is typed, and a print runs exactly when PRINTING is reported.
THEOREM TypeCorrect == Spec => []TypeOK
<1>1. Init => TypeOK
  BY InitTyped
<1>2. TypeOK /\ [Next]_vars => TypeOK'
  BY StepTyped
<1> QED
  BY <1>1, <1>2, PTL DEF Spec

-----------------------------------------------------------------------------
(* What is never lost, never revived and never skipped *)

Resuming == run \in {"preamble", "placing", "M110"}

\* The print was cut off by an error; Failing, its record is still to be made.
Failed == gState = "ERROR" /\ run \in {"ending", "closing"}

Failing == gState = "ERROR" /\ run = "ending"

\* The print came to its end, its closing record is still to be written.
Over == \/ gState # "ERROR" /\ run \in {"ending", "closing"}
        \/ run \in {"stopping", "discarding", "discarding parked"}

\* The journal is written, closed or left as it was.
JobIs(b, n) == job'.active /\ job'.bytes = b /\ job'.resumes = n

JobOver == ~job'.active

JobKept == (job'.active <=> job.active) /\ job'.bytes = job.bytes /\ job'.resumes = job.resumes

\* The record of the interrupted print is left as it was, as far as the invariants read it.
IntKept == /\ gInt'.valid <=> gInt.valid
           /\ gInt'.atBoot <=> gInt.atBoot
           /\ gInt'.bytes = gInt.bytes /\ gInt'.resumes = gInt.resumes

PlaceKept == pos' = pos /\ base' = base /\ gBytesDone' = gBytesDone

LiveKept == (live' <=> live) /\ closing' = closing

CountsKept == LiveKept /\ autos' = autos /\ gJobResumes' = gJobResumes

\* The engine task stays where it is, as far as the invariants read it.
StageKept == /\ Printing' <=> Printing
             /\ Resuming' <=> Resuming
             /\ run' = "printing" <=> run = "printing"
             /\ Failed' <=> Failed
             /\ Failing' <=> Failing
             /\ Over' <=> Over

\* It is in no part of a print or of its end.
Idle == ~Printing /\ ~Resuming /\ run # "printing" /\ ~Failed /\ ~Failing /\ ~Over

Streaming == Printing /\ ~Resuming /\ run = "printing" /\ ~Failed /\ ~Failing /\ ~Over

Preparing == Printing /\ Resuming /\ run # "printing" /\ ~Failed /\ ~Failing /\ ~Over

InError == ~Printing /\ ~Resuming /\ run # "printing" /\ Failed /\ Failing /\ ~Over

Noted == ~Printing /\ ~Resuming /\ run # "printing" /\ Failed /\ ~Failing /\ ~Over

AtEnd == ~Printing /\ ~Resuming /\ run # "printing" /\ ~Failed /\ ~Failing /\ Over

\* The kinds of step.
QuietStep == JobKept /\ IntKept /\ PlaceKept /\ CountsKept /\ StageKept

AckM110Step == /\ Preparing /\ Streaming'
               /\ JobKept /\ IntKept /\ CountsKept
               /\ gBytesDone' = 0 /\ pos' = base /\ base' = base

ForwardStep == /\ Streaming /\ Streaming'
               /\ JobKept /\ IntKept /\ CountsKept
               /\ base' = base
               /\ \/ pos' = pos + 1 /\ gBytesDone' = gBytesDone
                  \/ pos' = pos /\ gBytesDone' <= pos

ErrorStep == /\ Preparing \/ Streaming
             /\ InError'
             /\ JobKept /\ IntKept /\ PlaceKept /\ CountsKept

\* The interruption goes on record.
NoteStep == /\ InError /\ Noted'
            /\ JobKept /\ PlaceKept /\ CountsKept
            /\ gInt'.valid /\ ~gInt'.atBoot /\ gInt'.bytes = gBytesDone

CloseErrorStep == /\ Noted /\ Idle'
                  /\ IntKept /\ PlaceKept /\ CountsKept
                  /\ JobIs(gBytesDone, gJobResumes) \/ JobKept

\* The print ends or is discarded.
OverStep == /\ AtEnd'
            /\ JobKept /\ PlaceKept
            /\ ((Preparing \/ Streaming) /\ IntKept) \/ (Idle /\ ~gInt'.valid)
            /\ ~live' /\ closing' = "due" /\ autos' = autos

CloseStep == /\ AtEnd /\ Idle'
             /\ IntKept /\ PlaceKept
             /\ (live' <=> live) /\ autos' = autos /\ gJobResumes' = gJobResumes
             /\ JobOver \/ (JobKept /\ closing' # "done")

StartStep == /\ Idle /\ Preparing'
             /\ autos' = 0 /\ pos' = pos
             /\ ~gInt'.valid /\ live' /\ closing' = "done"
             /\ gJobResumes' = 0 /\ base' = 0 /\ gBytesDone' = 0
             /\ JobIs(0, 0) \/ ("first" \in SdBusy /\ JobKept)

\* The SD card could not be read for a print.
UnreadStep == /\ Idle /\ Idle'
              /\ JobKept /\ IntKept /\ PlaceKept /\ LiveKept
              /\ autos' = 0 \/ autos' = autos

ResumeStep == /\ Idle
              /\ gInt.valid /\ live' /\ closing' = "done" /\ pos' = pos
              /\ autos' = 0 \/ (autos' = autos + 1 /\ gInt.atBoot /\ gInt.resumes < AutoResumeMax)
              /\ gJobResumes' = gInt.resumes + 1
              /\ base' = gInt.bytes /\ gBytesDone' = gInt.bytes
              /\ JobIs(gInt.bytes, gInt.resumes + 1) \/ ("first" \in SdBusy /\ JobKept)
              /\ ~gInt'.valid
              /\ Preparing' \/ (InError' /\ gInt.bytes = 0)

TickStep == /\ Preparing \/ Streaming
            /\ StageKept
            /\ IntKept /\ PlaceKept /\ CountsKept
            /\ JobIs(gBytesDone, gJobResumes) \/ JobKept

BootStep == /\ Idle'
            /\ JobKept /\ LiveKept /\ autos' = autos
            /\ pos' >= pos
            /\ \/ ~gInt'.valid /\ (job.active => "boot" \in SdBusy)
               \/ job.active /\ gInt'.valid /\ gInt'.bytes = job.bytes /\ gInt'.resumes = job.resumes

-----------------------------------------------------------------------------
(* Every action is a step of one of these kinds. *)

LEMMA SameJob == job' = job => JobKept
  BY DEF JobKept

LEMMA SameInt == gInt' = gInt => IntKept
  BY DEF IntKept

LEMMA RecordParts ==
  /\ \A b, n, s : job' = Record(b, n, s) => JobIs(b, n)
  /\ job' = Closed => JobOver
  BY DEF Record, Closed, JobIs, JobOver

LEMMA ErrorRecordParts == gInt' = ErrorRecord => gInt'.valid /\ ~gInt'.atBoot /\ gInt'.bytes = gBytesDone
  BY DEF ErrorRecord, NoInt

LEMMA BlankParts == gInt' = NoInt => ~gInt'.valid
  BY DEF NoInt

\* Where the engine task stands.
LEMMA Stages ==
  ASSUME EngineTypeOK
  PROVE  /\ run = "none" \/ run \in {"park", "parked", "not parked", "bed off"} => Idle
         /\ run = "printing" => Streaming
         /\ run \in {"preamble", "placing", "M110"} => Preparing
         /\ run = "ending" /\ gState = "ERROR" => InError
         /\ run = "closing" /\ gState = "ERROR" => Noted
         /\ run \in {"ending", "closing"} /\ gState # "ERROR" => AtEnd
         /\ run \in {"stopping", "discarding", "discarding parked"} => AtEnd
         /\ Printing => Preparing \/ Streaming
  BY DEF EngineTypeOK, Printing, Idle, Streaming, Preparing, InError, Noted, AtEnd, Resuming, Failed, Failing, Over

LEMMA NextStages ==
  /\ run' = "none" \/ run' \in {"park", "parked", "not parked", "bed off"} => Idle'
  /\ run' = "printing" => Streaming'
  /\ run' \in {"preamble", "placing", "M110"} => Preparing'
  /\ run' = "ending" /\ gState' = "ERROR" => InError'
  /\ run' = "closing" /\ gState' = "ERROR" => Noted'
  /\ run' \in {"ending", "closing"} /\ gState' # "ERROR" => AtEnd'
  /\ run' \in {"stopping", "discarding", "discarding parked"} => AtEnd'
  BY DEF Printing, Idle, Streaming, Preparing, InError, Noted, AtEnd, Resuming, Failed, Failing, Over

LEMMA SameStage ==
  /\ run' = run /\ gState' = gState => StageKept
  /\ Idle /\ Idle' => StageKept
  /\ Preparing /\ Preparing' => StageKept
  /\ Streaming /\ Streaming' => StageKept
  /\ AtEnd /\ AtEnd' => StageKept
  BY DEF StageKept, Printing, Idle, Streaming, Preparing, AtEnd, Resuming, Failed, Failing, Over

LEMMA UpdatedParts ==
  ASSUME RecordTypeOK, ScanFile \/ LookAtPrinter \/ SwitchOffParked \/ DeclineAuto \/ BedOff \/ Gone
  PROVE  IntKept
<1>0. gInt \in Interrupted
  BY DEF RecordTypeOK
<1>1. CASE ScanFile
  BY <1>0, <1>1 DEF ScanFile, Interrupted, IntKept
<1>2. CASE LookAtPrinter
  BY <1>0, <1>2 DEF LookAtPrinter, Interrupted, IntKept
<1>3. CASE SwitchOffParked
  BY <1>0, <1>3 DEF SwitchOffParked, Interrupted, IntKept
<1>4. CASE DeclineAuto
  BY <1>0, <1>4 DEF DeclineAuto, Interrupted, IntKept
<1>5. CASE BedOff
  BY <1>0, <1>5 DEF BedOff, Interrupted, IntKept
<1>6. CASE Gone
  BY <1>0, <1>6 DEF Gone, Interrupted, IntKept
<1> QED BY <1>1, <1>2, <1>3, <1>4, <1>5, <1>6

Quiet == \/ PreambleHeats
         \/ PreamblePlaces
         \/ ScanFile
         \/ LookAtPrinter
         \/ RaiseNozzle
         \/ SwitchOffParked
         \/ DeclineAuto
         \/ BedOff
         \/ Gone
         \/ AutoConnect
         \/ Beat
         \/ Gcode
         \/ Connect
         \/ Disconnect
         \/ SelectLink
         \/ TimePasses
         \/ PowerOff
         \/ PowerOn
         \/ StopShutsDown
         \/ DiscardedBedOff

LEMMA QuietOutcome == ASSUME TypeOK, Quiet PROVE QuietStep
<1>t. EngineTypeOK /\ RecordTypeOK
  BY DEF TypeOK
<1> USE DEF linkVars, progress, uptimes, printerVars, bounds, history
<1>1. job' = job /\ PlaceKept /\ CountsKept
  <2>1. CASE PreambleHeats
    BY <2>1 DEF PreambleHeats, PlaceKept, CountsKept, LiveKept
  <2>2. CASE PreamblePlaces
    BY <2>2 DEF PreamblePlaces, PlaceKept, CountsKept, LiveKept
  <2>3. CASE ScanFile
    BY <2>3 DEF ScanFile, PlaceKept, CountsKept, LiveKept
  <2>4. CASE LookAtPrinter
    BY <2>4 DEF LookAtPrinter, PlaceKept, CountsKept, LiveKept
  <2>5. CASE RaiseNozzle
    BY <2>5 DEF RaiseNozzle, PlaceKept, CountsKept, LiveKept
  <2>6. CASE SwitchOffParked
    BY <2>6 DEF SwitchOffParked, PlaceKept, CountsKept, LiveKept
  <2>7. CASE DeclineAuto
    BY <2>7 DEF DeclineAuto, PlaceKept, CountsKept, LiveKept
  <2>8. CASE BedOff
    BY <2>8 DEF BedOff, PlaceKept, CountsKept, LiveKept
  <2>9. CASE Gone
    BY <2>9 DEF Gone, PlaceKept, CountsKept, LiveKept
  <2>10. CASE AutoConnect
    BY <2>10 DEF AutoConnect, PlaceKept, CountsKept, LiveKept
  <2>11. CASE Beat
    BY <2>11 DEF Beat, PlaceKept, CountsKept, LiveKept
  <2>12. CASE Gcode
    BY <2>12 DEF Gcode, PlaceKept, CountsKept, LiveKept
  <2>13. CASE Connect
    BY <2>13 DEF Connect, PlaceKept, CountsKept, LiveKept
  <2>14. CASE Disconnect
    BY <2>14 DEF Disconnect, PlaceKept, CountsKept, LiveKept
  <2>15. CASE SelectLink
    BY <2>15 DEF SelectLink, PlaceKept, CountsKept, LiveKept
  <2>16. CASE TimePasses
    BY <2>16 DEF TimePasses, PlaceKept, CountsKept, LiveKept
  <2>17. CASE PowerOff
    BY <2>17 DEF PowerOff, PlaceKept, CountsKept, LiveKept
  <2>18. CASE PowerOn
    BY <2>18 DEF PowerOn, PlaceKept, CountsKept, LiveKept
  <2>19. CASE StopShutsDown
    BY <2>19 DEF StopShutsDown, PlaceKept, CountsKept, LiveKept
  <2>20. CASE DiscardedBedOff
    BY <2>20 DEF DiscardedBedOff, PlaceKept, CountsKept, LiveKept
    <2> QED BY <2>1, <2>2, <2>3, <2>4, <2>5, <2>6, <2>7, <2>8, <2>9, <2>10, <2>11, <2>12, <2>13,
     <2>14, <2>15, <2>16, <2>17, <2>18, <2>19, <2>20 DEF Quiet
<1>2. IntKept
  <2>1. CASE PreambleHeats
    BY <2>1, SameInt DEF PreambleHeats
  <2>2. CASE PreamblePlaces
    BY <2>2, SameInt DEF PreamblePlaces
  <2>3. CASE ScanFile
    BY <1>t, <2>3, UpdatedParts
  <2>4. CASE LookAtPrinter
    BY <1>t, <2>4, UpdatedParts
  <2>5. CASE RaiseNozzle
    BY <2>5, SameInt DEF RaiseNozzle
  <2>6. CASE SwitchOffParked
    BY <1>t, <2>6, UpdatedParts
  <2>7. CASE DeclineAuto
    BY <1>t, <2>7, UpdatedParts
  <2>8. CASE BedOff
    BY <1>t, <2>8, UpdatedParts
  <2>9. CASE Gone
    BY <1>t, <2>9, UpdatedParts
  <2>10. CASE AutoConnect
    BY <2>10, SameInt DEF AutoConnect
  <2>11. CASE Beat
    BY <2>11, SameInt DEF Beat
  <2>12. CASE Gcode
    BY <2>12, SameInt DEF Gcode
  <2>13. CASE Connect
    BY <2>13, SameInt DEF Connect
  <2>14. CASE Disconnect
    BY <2>14, SameInt DEF Disconnect
  <2>15. CASE SelectLink
    BY <2>15, SameInt DEF SelectLink
  <2>16. CASE TimePasses
    BY <2>16, SameInt DEF TimePasses
  <2>17. CASE PowerOff
    BY <2>17, SameInt DEF PowerOff
  <2>18. CASE PowerOn
    BY <2>18, SameInt DEF PowerOn
  <2>19. CASE StopShutsDown
    BY <2>19, SameInt DEF StopShutsDown
  <2>20. CASE DiscardedBedOff
    BY <2>20, SameInt DEF DiscardedBedOff
    <2> QED BY <2>1, <2>2, <2>3, <2>4, <2>5, <2>6, <2>7, <2>8, <2>9, <2>10, <2>11, <2>12, <2>13,
     <2>14, <2>15, <2>16, <2>17, <2>18, <2>19, <2>20 DEF Quiet
<1>3. StageKept
  <2>1. CASE PreambleHeats
    BY <1>t, <2>1, Stages, NextStages, SameStage DEF PreambleHeats, Busy
  <2>2. CASE PreamblePlaces
    BY <1>t, <2>2, Stages, NextStages, SameStage DEF PreamblePlaces, Busy
  <2>3. CASE ScanFile
    BY <1>t, <2>3, Stages, NextStages, SameStage DEF ScanFile, Busy
  <2>4. CASE LookAtPrinter
    BY <1>t, <2>4, Stages, NextStages, SameStage DEF LookAtPrinter, Busy
  <2>5. CASE RaiseNozzle
    BY <1>t, <2>5, Stages, NextStages, SameStage DEF RaiseNozzle, Busy
  <2>6. CASE SwitchOffParked
    BY <1>t, <2>6, Stages, NextStages, SameStage DEF SwitchOffParked, Busy
  <2>7. CASE DeclineAuto
    BY <1>t, <2>7, Stages, NextStages, SameStage DEF DeclineAuto, Busy, MayTryAuto
  <2>8. CASE BedOff
    BY <1>t, <2>8, Stages, NextStages, SameStage DEF BedOff, Busy
  <2>9. CASE Gone
    BY <1>t, <2>9, Stages, NextStages, SameStage DEF Gone, Busy
  <2>10. CASE AutoConnect
    BY <1>t, <2>10, Stages, NextStages, SameStage DEF AutoConnect, Busy
  <2>11. CASE Beat
    BY <2>11, SameStage DEF Beat
  <2>12. CASE Gcode
    BY <1>t, <2>12, Stages, NextStages, SameStage DEF Gcode, Busy
  <2>13. CASE Connect
    BY <1>t, <2>13, Stages, NextStages, SameStage DEF Connect, Busy
  <2>14. CASE Disconnect
    BY <1>t, <2>14, Stages, NextStages, SameStage DEF Disconnect, Busy
  <2>15. CASE SelectLink
    BY <1>t, <2>15, Stages, NextStages, SameStage DEF SelectLink, Busy
  <2>16. CASE TimePasses
    BY <2>16, SameStage DEF TimePasses
  <2>17. CASE PowerOff
    BY <2>17, SameStage DEF PowerOff
  <2>18. CASE PowerOn
    BY <2>18, SameStage DEF PowerOn
  <2>19. CASE StopShutsDown
    BY <1>t, <2>19, Stages, NextStages, SameStage DEF StopShutsDown, Busy
  <2>20. CASE DiscardedBedOff
    BY <1>t, <2>20, Stages, NextStages, SameStage DEF DiscardedBedOff, Busy
    <2> QED BY <2>1, <2>2, <2>3, <2>4, <2>5, <2>6, <2>7, <2>8, <2>9, <2>10, <2>11, <2>12, <2>13,
     <2>14, <2>15, <2>16, <2>17, <2>18, <2>19, <2>20 DEF Quiet
<1> QED BY <1>1, <1>2, <1>3, SameJob DEF QuietStep

\* The end of a print without an error is only noted.
LEMMA NoteOutcome == ASSUME TypeOK, NoteEnd PROVE NoteStep \/ QuietStep
<1>t. EngineTypeOK
  BY DEF TypeOK
<1>1. /\ run = "ending" /\ run' = "closing" /\ gState' = gState /\ job' = job /\ PlaceKept /\ CountsKept
      /\ gInt' = IF gState = "ERROR" THEN ErrorRecord ELSE gInt
  BY DEF NoteEnd, PlaceKept, CountsKept, LiveKept, progress, printerVars, history
<1>2. CASE gState = "ERROR"
  <2>1. InError /\ Noted'
    BY <1>t, <1>1, <1>2, Stages, NextStages
  <2> QED BY <1>1, <1>2, <2>1, ErrorRecordParts, SameJob DEF NoteStep
<1>3. CASE gState # "ERROR"
  <2>1. StageKept
    BY <1>t, <1>1, <1>3, Stages, NextStages, SameStage
  <2> QED BY <1>1, <1>3, <2>1, SameInt, SameJob DEF QuietStep
<1> QED BY <1>2, <1>3

LEMMA CloseOutcome == ASSUME TypeOK, CloseJournal \/ CloseDiscarded PROVE CloseStep \/ CloseErrorStep
<1>t. EngineTypeOK
  BY DEF TypeOK
<1>1. /\ gInt' = gInt /\ PlaceKept /\ autos' = autos /\ gJobResumes' = gJobResumes /\ (live' <=> live)
      /\ run' \in {"none", "bed off"}
  <2>1. CASE CloseJournal
    BY <2>1 DEF CloseJournal, PlaceKept, progress, printerVars
  <2>2. CASE CloseDiscarded
    BY <2>2 DEF CloseDiscarded, PlaceKept, progress, printerVars
  <2> QED BY <2>1, <2>2
<1>2. \/ run \in {"discarding", "discarding parked"} /\ CloseRecord
      \/ run = "closing" /\ gState # "ERROR" /\ CloseRecord
      \/ /\ run = "closing" /\ gState = "ERROR" /\ closing' = closing
         /\ job' = Record(gBytesDone, gJobResumes, gAckState) \/ job' = job
  BY Zenon DEF CloseJournal, CloseDiscarded, JournalWrite, ActiveRecord
<1>3. Idle'
  BY <1>1, NextStages
<1>4. CASE CloseRecord /\ (run \in {"discarding", "discarding parked"} \/ (run = "closing" /\ gState # "ERROR"))
  <2>1. AtEnd
    BY <1>t, <1>4, Stages
  <2>2. JobOver \/ (JobKept /\ closing' # "done")
    BY <1>4, RecordParts, SameJob DEF CloseRecord
  <2> QED BY <1>1, <1>3, <2>1, <2>2, SameInt DEF CloseStep
<1>5. CASE /\ run = "closing" /\ gState = "ERROR" /\ closing' = closing
           /\ job' = Record(gBytesDone, gJobResumes, gAckState) \/ job' = job
  <2>1. Noted
    BY <1>t, <1>5, Stages
  <2>2. JobIs(gBytesDone, gJobResumes) \/ JobKept
    BY <1>5, RecordParts, SameJob
  <2> QED BY <1>1, <1>3, <1>5, <2>1, <2>2, SameInt DEF CloseErrorStep, CountsKept, LiveKept
<1> QED BY <1>2, <1>4, <1>5

LEMMA AckM110Outcome == ASSUME TypeOK, AckM110 PROVE AckM110Step
<1>1. /\ job' = job /\ gInt' = gInt /\ CountsKept
      /\ run = "M110" /\ run' = "printing" /\ gBytesDone' = 0 /\ pos' = base /\ base' = base
  BY DEF AckM110, CountsKept, LiveKept, history
<1>2. Preparing /\ Streaming'
  BY <1>1, Stages, NextStages DEF TypeOK
<1> QED BY <1>1, <1>2, SameJob, SameInt DEF AckM110Step

LEMMA ForwardOutcome == ASSUME TypeOK, ExecuteLine \/ AckLine PROVE ForwardStep
<1>1. /\ job' = job /\ gInt' = gInt /\ CountsKept
      /\ run = "printing" /\ run' = "printing" /\ base' = base
  BY DEF ExecuteLine, AckLine, CountsKept, LiveKept, history, progress
<1>2. Streaming /\ Streaming'
  BY <1>1, Stages, NextStages DEF TypeOK
<1>3. \/ pos' = pos + 1 /\ gBytesDone' = gBytesDone
      \/ pos' = pos /\ gBytesDone' <= pos
  <2>1. CASE ExecuteLine
    BY <2>1 DEF ExecuteLine, progress
  <2>2. CASE AckLine
    <3>1. Max({gBytesDone, base}) \in Nat /\ pos \in Nat
      BY MaxOfTwo, OffsetFacts DEF TypeOK, RecordTypeOK, CountTypeOK
    <3>2. PICK k \in (Max({gBytesDone, base}) + 1)..pos : gBytesDone' = k
      BY <2>2 DEF AckLine
    <3>3. k <= pos
      BY <3>1, <3>2
    <3>4. pos' = pos
      BY <2>2 DEF AckLine, printerVars
    <3> QED BY <3>2, <3>3, <3>4
  <2> QED BY <2>1, <2>2
<1> QED BY <1>1, <1>2, <1>3, SameJob, SameInt DEF ForwardStep

LEMMA ErrorOutcome == ASSUME TypeOK, GiveUp \/ LinkLost \/ PrinterRestarts PROVE ErrorStep
<1>1. /\ Printing \/ run = "printing"
      /\ PlaceKept /\ CountsKept /\ EndInError /\ job' = job /\ gInt' = gInt
  BY DEF GiveUp, LinkLost, PrinterRestarts, PlaceKept, CountsKept, LiveKept, progress, printerVars, history
<1>2. (Preparing \/ Streaming) /\ InError'
  BY <1>1, Stages, NextStages DEF TypeOK, EndInError
<1> QED BY <1>1, <1>2, SameInt, SameJob DEF ErrorStep

LEMMA OverOutcome == ASSUME TypeOK, Finish \/ Stop \/ Discard PROVE OverStep
<1>t. EngineTypeOK
  BY DEF TypeOK
<1>1. PlaceKept /\ autos' = autos /\ job' = job /\ ~live' /\ closing' = "due"
  BY DEF Finish, Stop, Discard, PrintOver, PlaceKept, progress, printerVars
<1>2. \/ run = "printing" /\ run' = "ending" /\ gState' = "IDLE" /\ gInt' = gInt
      \/ Printing /\ run' = "stopping" /\ gInt' = gInt
      \/ run = "none" /\ run' \in {"discarding", "discarding parked"} /\ gInt' = NoInt
  BY DEF Finish, Stop, Discard, Busy
<1>3. AtEnd'
  BY <1>2, NextStages
<1>4. ((Preparing \/ Streaming) /\ IntKept) \/ (Idle /\ ~gInt'.valid)
  BY <1>t, <1>2, Stages, SameInt, BlankParts
<1> QED BY <1>1, <1>3, <1>4, SameJob DEF OverStep

LEMMA StartOutcome == ASSUME TypeOK, Start PROVE StartStep \/ UnreadStep
<1>t. EngineTypeOK
  BY DEF TypeOK
<1>1. run = "none" /\ pos' = pos /\ autos' = 0 /\ Idle
  BY <1>t, Stages DEF Start, Busy
<1>2. \/ CannotOpen /\ gInt' = gInt
      \/ /\ run' = "M110" /\ gInt' = NoInt /\ PrintBegins
         /\ gJobResumes' = 0 /\ base' = 0 /\ gBytesDone' = 0
         /\ job' = Record(0, 0, 0) \/ ("first" \in SdBusy /\ job' = job)
  BY DEF Start, JournalWrite
<1>3. CASE CannotOpen /\ gInt' = gInt
  <2>1. Idle' /\ job' = job /\ PlaceKept /\ LiveKept
    BY <1>1, <1>3, NextStages DEF CannotOpen, PlaceKept, LiveKept
  <2> QED BY <1>1, <1>3, <2>1, SameJob, SameInt DEF UnreadStep
<1>4. CASE /\ run' = "M110" /\ gInt' = NoInt /\ PrintBegins
           /\ gJobResumes' = 0 /\ base' = 0 /\ gBytesDone' = 0
           /\ job' = Record(0, 0, 0) \/ ("first" \in SdBusy /\ job' = job)
  <2>1. Preparing'
    BY <1>4, NextStages
  <2>2. JobIs(0, 0) \/ ("first" \in SdBusy /\ JobKept)
    BY <1>4, RecordParts, SameJob
  <2> QED BY <1>1, <1>4, <2>1, <2>2, BlankParts DEF StartStep, PrintBegins
<1> QED BY <1>2, <1>3, <1>4

\* A resume that gets as far as the journal.
LEMMA ResumePrinted ==
  ASSUME RecordTypeOK, NEW c, ResumePrint(c, gInt.resumes + 1)
  PROVE  /\ gJobResumes' = gInt.resumes + 1
         /\ base' = gInt.bytes /\ gBytesDone' = gInt.bytes
         /\ JobIs(gInt.bytes, gInt.resumes + 1) \/ ("first" \in SdBusy /\ JobKept)
         /\ ~gInt'.valid /\ live' /\ closing' = "done"
         /\ Preparing' \/ (InError' /\ gInt.bytes = 0)
<1>1. /\ gJobResumes' = gInt.resumes + 1 /\ base' = gInt.bytes
      /\ gBytesDone' = gInt.bytes /\ gInt' = NoInt /\ live' /\ closing' = "done"
  BY DEF ResumePrint, PrintBegins
<1>2. \/ job' = Record(gInt.bytes, gInt.resumes + 1, gAckState)
      \/ "first" \in SdBusy /\ job' = job
  BY DEF ResumePrint, JournalWrite
<1>3. JobIs(gInt.bytes, gInt.resumes + 1) \/ ("first" \in SdBusy /\ JobKept)
  BY <1>2, RecordParts, SameJob
<1>4. run' = "preamble" \/ (gInt.bytes = 0 /\ run' = "ending" /\ gState' = "ERROR")
  BY Zenon DEF ResumePrint, EndInError
<1>5. Preparing' \/ (InError' /\ gInt.bytes = 0)
  BY <1>4, NextStages
<1> QED BY <1>1, <1>3, <1>5, BlankParts

\* A resume for which the card cannot be read.
LEMMA NotOpened ==
  ASSUME RecordTypeOK, run = "none", CannotOpen,
         gInt' = gInt \/ gInt' = [gInt EXCEPT !.autoTried = TRUE]
  PROVE  /\ Idle' /\ JobKept /\ IntKept /\ LiveKept
         /\ base' = base /\ gBytesDone' = gBytesDone
<1>1. run' = "none" /\ job' = job /\ base' = base /\ gBytesDone' = gBytesDone /\ LiveKept
  BY DEF CannotOpen, LiveKept
<1>3. gInt \in Interrupted
  BY DEF RecordTypeOK
<1>4. IntKept
  BY <1>3 DEF Interrupted, IntKept
<1> QED BY <1>1, <1>4, SameJob, NextStages

LEMMA ResumeOutcome ==
  ASSUME TypeOK, AutoResume \/ Recover \/ RecoverAtHeight
  PROVE  ResumeStep \/ UnreadStep
<1>t. EngineTypeOK /\ RecordTypeOK /\ gInt.resumes \in Nat
  BY RecordFields DEF TypeOK, RecordTypeOK
<1>0. gInt.valid /\ ~Busy
  BY Zenon DEF AutoResume, MayTryAuto, Recover, RecoverAtHeight, MayRecover
<1>1. pos' = pos
  BY ResumeOrNot DEF printerVars
<1>2. run = "none" /\ Idle
  BY <1>t, <1>0, Stages DEF Busy
<1>3. \/ /\ \E c : ResumePrint(c, gInt.resumes + 1)
         /\ autos' = 0 \/ (autos' = autos + 1 /\ gInt.atBoot /\ ~AutoRuledOut)
      \/ /\ CannotOpen /\ (gInt' = gInt \/ gInt' = [gInt EXCEPT !.autoTried = TRUE])
         /\ autos' = 0 \/ autos' = autos
  BY Zenon DEF AutoResume, MayTryAuto, Recover, RecoverAtHeight, RecoverAs
<1>4. ~AutoRuledOut => gInt.resumes < AutoResumeMax
  BY <1>t, RecoveryAssumption DEF AutoRuledOut
<1>5. CASE /\ \E c : ResumePrint(c, gInt.resumes + 1)
           /\ autos' = 0 \/ (autos' = autos + 1 /\ gInt.atBoot /\ ~AutoRuledOut)
  <2>1. autos' = 0 \/ (autos' = autos + 1 /\ gInt.atBoot /\ gInt.resumes < AutoResumeMax)
    BY <1>4, <1>5
  <2>2. PICK c : ResumePrint(c, gInt.resumes + 1)
    BY <1>5
  <2>3. ResumeStep
    BY <1>t, <1>0, <1>1, <1>2, <2>1, <2>2, ResumePrinted, Zenon DEF ResumeStep
  <2> QED BY <2>3
<1>6. CASE /\ CannotOpen /\ (gInt' = gInt \/ gInt' = [gInt EXCEPT !.autoTried = TRUE])
           /\ autos' = 0 \/ autos' = autos
  <2>1. UnreadStep
    BY <1>t, <1>1, <1>2, <1>6, NotOpened, Zenon DEF UnreadStep, PlaceKept
  <2> QED BY <2>1
<1> QED BY <1>3, <1>5, <1>6

LEMMA TickOutcome == ASSUME TypeOK, JournalTick PROVE TickStep
<1>1. /\ run \in {"M110", "printing"} /\ run' = run /\ gState' = gState /\ gInt' = gInt
      /\ PlaceKept /\ CountsKept
      /\ \/ job' = Record(gBytesDone, gJobResumes, gAckState)
         \/ job' = job
  BY DEF JournalTick, JournalWrite, ActiveRecord, PlaceKept, CountsKept, LiveKept, printerVars, history
<1>2. (Preparing \/ Streaming) /\ StageKept
  BY <1>1, Stages, SameStage DEF TypeOK
<1>3. JobIs(gBytesDone, gJobResumes) \/ JobKept
  BY <1>1, RecordParts, SameJob
<1> QED BY <1>1, <1>2, <1>3, SameInt DEF TickStep

LEMMA BootOutcome == ASSUME TypeOK, Crash PROVE BootStep
<1>t. RecordTypeOK /\ CountTypeOK
  BY DEF TypeOK
<1>1. /\ run' = "none" /\ job' = job
      /\ LiveKept /\ autos' = autos
      /\ \/ gInt' = NoInt /\ (~job.active \/ "boot" \in SdBusy)
         \/ job.active /\ \E loop \in BOOLEAN : gInt' = BootRecord(loop)
  BY DEF Crash, history, LiveKept
<1>2. Idle'
  BY <1>1, NextStages
<1>3. pos' >= pos
  <2>1. CASE pos' = pos
    BY <1>t, <2>1, OffsetFacts DEF CountTypeOK
  <2>2. CASE \E k \in pos..Max({pos, Min({FileLen, Max({gBytesDone, base}) + InFlight})}) : pos' = k
    <3> DEFINE far == Min({FileLen, Max({gBytesDone, base}) + InFlight})
    <3>1. Max({gBytesDone, base}) + InFlight \in Nat
      BY <1>t, MaxOfTwo, OffsetFacts, RecoveryAssumption DEF RecordTypeOK
    <3>2. far \in Nat
      BY <3>1, MinOfTwo, RecoveryAssumption
    <3>3. pos \in Nat /\ Max({pos, far}) \in Nat
      BY <1>t, <3>2, MaxOfTwo, OffsetFacts DEF CountTypeOK
    <3>4. PICK k \in pos..Max({pos, far}) : pos' = k
      BY <2>2
    <3> QED BY <3>3, <3>4
  <2>3. \/ pos' = pos
        \/ \E k \in pos..Max({pos, Min({FileLen, Max({gBytesDone, base}) + InFlight})}) : pos' = k
    BY Zenon DEF Crash
  <2> QED BY <2>1, <2>2, <2>3
<1>4. \/ ~gInt'.valid /\ (job.active => "boot" \in SdBusy)
      \/ job.active /\ gInt'.valid /\ gInt'.bytes = job.bytes /\ gInt'.resumes = job.resumes
  <2>1. CASE gInt' = NoInt /\ (~job.active \/ "boot" \in SdBusy)
    BY <2>1, BlankParts
  <2>2. CASE job.active /\ \E loop \in BOOLEAN : gInt' = BootRecord(loop)
    BY <2>2 DEF BootRecord, NoInt
  <2> QED BY <1>1, <2>1, <2>2
<1> QED BY <1>1, <1>2, <1>3, <1>4, SameJob DEF BootStep

LEMMA StutterOutcome == ASSUME TypeOK, UNCHANGED vars PROVE QuietStep
<1>1. /\ job' = job /\ gInt' = gInt /\ gState' = gState /\ run' = run
      /\ PlaceKept /\ CountsKept
  BY DEF vars, linkVars, progress, uptimes, printerVars, bounds, history, PlaceKept, CountsKept, LiveKept
<1> QED BY <1>1, SameJob, SameInt, SameStage DEF QuietStep

AnyStep == \/ QuietStep \/ AckM110Step \/ ForwardStep \/ ErrorStep \/ NoteStep \/ CloseErrorStep \/ OverStep
           \/ CloseStep \/ StartStep \/ UnreadStep \/ ResumeStep \/ TickStep \/ BootStep

LEMMA StepKinds == TypeOK /\ [Next]_vars => AnyStep
<1> SUFFICES ASSUME TypeOK, [Next]_vars PROVE AnyStep
  OBVIOUS
<1>1. CASE Quiet
  BY <1>1, QuietOutcome DEF AnyStep
<1>2. CASE AckM110
  BY <1>2, AckM110Outcome DEF AnyStep
<1>3. CASE ExecuteLine \/ AckLine
  BY <1>3, ForwardOutcome DEF AnyStep
<1>4. CASE GiveUp \/ LinkLost \/ PrinterRestarts
  BY <1>4, ErrorOutcome DEF AnyStep
<1>5. CASE Finish \/ Stop \/ Discard
  BY <1>5, OverOutcome DEF AnyStep
<1>6. CASE Start
  BY <1>6, StartOutcome DEF AnyStep
<1>7. CASE AutoResume \/ Recover \/ RecoverAtHeight
  BY <1>7, ResumeOutcome DEF AnyStep
<1>8. CASE NoteEnd
  BY <1>8, NoteOutcome DEF AnyStep
<1>9. CASE JournalTick
  BY <1>9, TickOutcome DEF AnyStep
<1>10. CASE Crash
  BY <1>10, BootOutcome DEF AnyStep
<1>11. CASE UNCHANGED vars
  BY <1>11, StutterOutcome DEF AnyStep
<1>12. CASE CloseJournal \/ CloseDiscarded
  BY <1>12, CloseOutcome DEF AnyStep
<1> QED
  BY <1>1, <1>2, <1>3, <1>4, <1>5, <1>6, <1>7, <1>8, <1>9, <1>10, <1>11, <1>12, Zenon
  DEF Next, PrintRuns, Ticks, Users, Outside, Quiet

\* What the types say of the numbers the invariants compare.
LEMMA NumberFacts ==
  TypeOK => /\ pos \in Nat /\ base \in Nat /\ gBytesDone \in Nat /\ autos \in Nat /\ gJobResumes \in Nat
            /\ job.bytes \in Nat /\ job.resumes \in Nat /\ gInt.bytes \in Nat /\ gInt.resumes \in Nat
  BY RecordFields, OffsetFacts DEF TypeOK, RecordTypeOK, CountTypeOK, JobRecord

LEMMA NextPlace == TypeOK' => pos' \in Nat
  BY OffsetFacts DEF TypeOK, CountTypeOK

-----------------------------------------------------------------------------

\* While a print runs, fails or ends there is no record of an interrupted one; at its end it is over
\* and its record due.
BlankWhileBusy == Printing \/ Failing \/ Over => ~gInt.valid

DueAtEnd == Over => ~live /\ closing = "due"

StageInv == BlankWhileBusy /\ DueAtEnd

LEMMA StageInvKept ==
  ASSUME TypeOK, TypeOK', StageInv, AnyStep
  PROVE  StageInv'
<1> USE DEF StageInv, BlankWhileBusy, DueAtEnd,
     JobIs, JobOver, JobKept, IntKept, PlaceKept, LiveKept, CountsKept, StageKept, Idle, Streaming, Preparing,
     InError, Noted, AtEnd
<1>1. CASE QuietStep
  BY <1>1, Zenon DEF QuietStep
<1>2. CASE AckM110Step
  BY <1>2, Zenon DEF AckM110Step
<1>3. CASE ForwardStep
  BY <1>3, Zenon DEF ForwardStep
<1>4. CASE ErrorStep
  BY <1>4, Zenon DEF ErrorStep
<1>5. CASE NoteStep
  BY <1>5, Zenon DEF NoteStep
<1>6. CASE CloseErrorStep
  BY <1>6, Zenon DEF CloseErrorStep
<1>7. CASE OverStep
  BY <1>7, Zenon DEF OverStep
<1>8. CASE CloseStep
  BY <1>8, Zenon DEF CloseStep
<1>9. CASE StartStep
  BY <1>9, Zenon DEF StartStep
<1>10. CASE UnreadStep
  BY <1>10, Zenon DEF UnreadStep
<1>11. CASE ResumeStep
  BY <1>11, Zenon DEF ResumeStep
<1>12. CASE TickStep
  BY <1>12, Zenon DEF TickStep
<1>13. CASE BootStep
  BY <1>13, Zenon DEF BootStep
<1> QED
  BY <1>1, <1>2, <1>3, <1>4, <1>5, <1>6, <1>7, <1>8, <1>9, <1>10, <1>11, <1>12, <1>13, Zenon DEF AnyStep

LEMMA StageCorrect == /\ Init => StageInv
                      /\ TypeOK /\ StageInv /\ [Next]_vars => StageInv'
<1>1. Init => StageInv
  BY DEF Init, StageInv, BlankWhileBusy, DueAtEnd, Printing, Failing, Over, NoInt
<1>2. TypeOK /\ StageInv /\ [Next]_vars => StageInv'
  BY StepTyped, StepKinds, StageInvKept
<1> QED BY <1>1, <1>2

\* A print that is not over is in the journal; it is printing, about to go on record or on record
\* as interrupted.
KeepInv == live => job.active /\ (Printing \/ Failing \/ gInt.valid)

LEMMA KeepInvKept ==
  ASSUME "first" \notin SdBusy, "boot" \notin SdBusy, StageInv, KeepInv, AnyStep
  PROVE  KeepInv'
<1> USE DEF KeepInv, StageInv, DueAtEnd,
     JobIs, JobOver, JobKept, IntKept, PlaceKept, LiveKept, CountsKept, StageKept, Idle, Streaming, Preparing,
     InError, Noted, AtEnd
<1>1. CASE QuietStep
  BY <1>1, Zenon DEF QuietStep
<1>2. CASE AckM110Step
  BY <1>2, Zenon DEF AckM110Step
<1>3. CASE ForwardStep
  BY <1>3, Zenon DEF ForwardStep
<1>4. CASE ErrorStep
  BY <1>4, Zenon DEF ErrorStep
<1>5. CASE NoteStep
  BY <1>5, Zenon DEF NoteStep
<1>6. CASE CloseErrorStep
  BY <1>6, Zenon DEF CloseErrorStep
<1>7. CASE OverStep
  BY <1>7, Zenon DEF OverStep
<1>8. CASE CloseStep
  BY <1>8, Zenon DEF CloseStep
<1>9. CASE StartStep
  BY <1>9, Zenon DEF StartStep
<1>10. CASE UnreadStep
  BY <1>10, Zenon DEF UnreadStep
<1>11. CASE ResumeStep
  BY <1>11, Zenon DEF ResumeStep
<1>12. CASE TickStep
  BY <1>12, Zenon DEF TickStep
<1>13. CASE BootStep
  BY <1>13, Zenon DEF BootStep
<1> QED
  BY <1>1, <1>2, <1>3, <1>4, <1>5, <1>6, <1>7, <1>8, <1>9, <1>10, <1>11, <1>12, <1>13, Zenon DEF AnyStep

\* A print that did not come to its end is never forgotten, however often the board restarts, if
\* the journal's first record is written and the journal can be read at boot.
THEOREM NeverForgottenCorrect ==
  ASSUME "first" \notin SdBusy, "boot" \notin SdBusy
  PROVE  Spec => []NeverForgotten
<1>1. Init => TypeOK /\ StageInv /\ KeepInv
  BY InitTyped, StageCorrect DEF Init, KeepInv
<1>2. TypeOK /\ StageInv /\ KeepInv /\ [Next]_vars => TypeOK' /\ StageInv' /\ KeepInv'
  BY StepTyped, StepKinds, StageCorrect, KeepInvKept
<1>3. KeepInv => NeverForgotten
  BY DEF KeepInv, NeverForgotten, Failing
<1> QED
  BY <1>1, <1>2, <1>3, PTL DEF Spec

\* The journal, the engine and the record of an interruption only name prints that are not over,
\* as long as no closing record is due or was refused.
OpenJob == job.active => live \/ closing # "done"

PrintingLive == Printing \/ Failed => live \/ closing # "done"

RecordLive == gInt.valid => live \/ closing # "done"

EndInv == OpenJob /\ PrintingLive /\ RecordLive

LEMMA EndInvKept ==
  ASSUME StageInv, EndInv, AnyStep
  PROVE  EndInv'
<1> USE DEF EndInv, OpenJob, PrintingLive, RecordLive, StageInv, BlankWhileBusy, DueAtEnd,
     JobIs, JobOver, JobKept, IntKept, PlaceKept, LiveKept, CountsKept, StageKept, Idle, Streaming, Preparing,
     InError, Noted, AtEnd
<1>1. CASE QuietStep
  BY <1>1, Zenon DEF QuietStep
<1>2. CASE AckM110Step
  BY <1>2, Zenon DEF AckM110Step
<1>3. CASE ForwardStep
  BY <1>3, Zenon DEF ForwardStep
<1>4. CASE ErrorStep
  BY <1>4, Zenon DEF ErrorStep
<1>5. CASE NoteStep
  BY <1>5, Zenon DEF NoteStep
<1>6. CASE CloseErrorStep
  BY <1>6, Zenon DEF CloseErrorStep
<1>7. CASE OverStep
  BY <1>7, Zenon DEF OverStep
<1>8. CASE CloseStep
  BY <1>8, Zenon DEF CloseStep
<1>9. CASE StartStep
  BY <1>9, Zenon DEF StartStep
<1>10. CASE UnreadStep
  BY <1>10, Zenon DEF UnreadStep
<1>11. CASE ResumeStep
  BY <1>11, Zenon DEF ResumeStep
<1>12. CASE TickStep
  BY <1>12, Zenon DEF TickStep
<1>13. CASE BootStep
  BY <1>13, Zenon DEF BootStep
<1> QED
  BY <1>1, <1>2, <1>3, <1>4, <1>5, <1>6, <1>7, <1>8, <1>9, <1>10, <1>11, <1>12, <1>13, Zenon DEF AnyStep

\* A print that came to its end is never found interrupted again, once its closing record was
\* written, whatever else the card refused and wherever the board crashed.
THEOREM EndedNotRevivedCorrect == Spec => []EndedNotRevived
<1>1. Init => TypeOK /\ StageInv /\ EndInv
  BY InitTyped, StageCorrect
  DEF Init, EndInv, OpenJob, PrintingLive, RecordLive, Printing, Failed, Closed, NoInt
<1>2. TypeOK /\ StageInv /\ EndInv /\ [Next]_vars => TypeOK' /\ StageInv' /\ EndInv'
  BY StepTyped, StepKinds, StageCorrect, EndInvKept
<1>3. EndInv => EndedNotRevived
  BY DEF EndInv, RecordLive, EndedNotRevived
<1> QED
  BY <1>1, <1>2, <1>3, PTL DEF Spec

\* Each place the number of resumes is carried through holds at least the resumes the board has
\* made by itself.
JournalCounts == job.active => autos <= job.resumes

EngineCounts == Printing \/ Failed => autos <= gJobResumes

BootCounts == gInt.valid /\ gInt.atBoot => autos <= gInt.resumes

Limited == autos <= AutoResumeMax

CountInv == JournalCounts /\ EngineCounts /\ BootCounts /\ Limited

LEMMA CountInvKept ==
  ASSUME "first" \notin SdBusy, TypeOK, TypeOK', StageInv, CountInv, AnyStep
  PROVE  CountInv'
<1> USE DEF CountInv, JournalCounts, EngineCounts, BootCounts, Limited, StageInv, BlankWhileBusy,
     JobIs, JobOver, JobKept, IntKept, PlaceKept, LiveKept, CountsKept, StageKept, Idle, Streaming, Preparing,
     InError, Noted, AtEnd
<1>1. CASE QuietStep
  BY <1>1, NumberFacts, NextPlace, RecoveryAssumption DEF QuietStep
<1>2. CASE AckM110Step
  BY <1>2, NumberFacts, NextPlace, RecoveryAssumption DEF AckM110Step
<1>3. CASE ForwardStep
  BY <1>3, NumberFacts, NextPlace, RecoveryAssumption DEF ForwardStep
<1>4. CASE ErrorStep
  BY <1>4, NumberFacts, NextPlace, RecoveryAssumption DEF ErrorStep
<1>5. CASE NoteStep
  BY <1>5, NumberFacts, NextPlace, RecoveryAssumption DEF NoteStep
<1>6. CASE CloseErrorStep
  BY <1>6, NumberFacts, NextPlace, RecoveryAssumption DEF CloseErrorStep
<1>7. CASE OverStep
  BY <1>7, NumberFacts, NextPlace, RecoveryAssumption DEF OverStep
<1>8. CASE CloseStep
  BY <1>8, NumberFacts, NextPlace, RecoveryAssumption DEF CloseStep
<1>9. CASE StartStep
  BY <1>9, NumberFacts, NextPlace, RecoveryAssumption DEF StartStep
<1>10. CASE UnreadStep
  BY <1>10, NumberFacts, NextPlace, RecoveryAssumption DEF UnreadStep
<1>11. CASE ResumeStep
  BY <1>11, NumberFacts, NextPlace, RecoveryAssumption DEF ResumeStep
<1>12. CASE TickStep
  BY <1>12, NumberFacts, NextPlace, RecoveryAssumption DEF TickStep
<1>13. CASE BootStep
  BY <1>13, NumberFacts, NextPlace, RecoveryAssumption DEF BootStep
<1> QED
  BY <1>1, <1>2, <1>3, <1>4, <1>5, <1>6, <1>7, <1>8, <1>9, <1>10, <1>11, <1>12, <1>13, Zenon DEF AnyStep

\* The board never continues a print by itself more than AUTO_RESUME_MAX times in a row, across
\* any number of restarts, if the journal's first record is written.
THEOREM AutoBoundedCorrect ==
  ASSUME "first" \notin SdBusy
  PROVE  Spec => []AutoBounded
<1>1. Init => TypeOK /\ StageInv /\ CountInv
  BY InitTyped, StageCorrect, RecoveryAssumption
  DEF Init, CountInv, JournalCounts, EngineCounts, BootCounts, Limited, Printing, Failed, Closed, NoInt
<1>2. TypeOK /\ StageInv /\ CountInv /\ [Next]_vars => TypeOK' /\ StageInv' /\ CountInv'
  BY StepTyped, StepKinds, StageCorrect, CountInvKept
<1>3. CountInv => AutoBounded
  BY DEF CountInv, Limited, AutoBounded
<1> QED
  BY <1>1, <1>2, <1>3, PTL DEF Spec

\* Every offset a print may be continued from lies behind the printer's place in the file.
JournalBehind == job.active => job.bytes <= pos

JournalAtBase == Resuming /\ job.active => job.bytes <= base

RecordBehind == gInt.valid => gInt.bytes <= pos

ResumesBehind == Resuming => (base <= pos \/ base = 0) /\ gBytesDone <= base

AckBehind == run = "printing" \/ Failed => gBytesDone <= pos

PlaceInv == JournalBehind /\ JournalAtBase /\ RecordBehind /\ ResumesBehind /\ AckBehind

LEMMA PlaceInvKept ==
  ASSUME "first" \notin SdBusy, TypeOK, TypeOK', StageInv, PlaceInv, AnyStep
  PROVE  PlaceInv'
<1> USE DEF PlaceInv, JournalBehind, JournalAtBase, RecordBehind, ResumesBehind, AckBehind,
     StageInv, BlankWhileBusy, JobIs, JobOver, JobKept, IntKept, PlaceKept, LiveKept, CountsKept, StageKept, Idle, Streaming, Preparing,
     InError, Noted, AtEnd
<1>1. CASE QuietStep
  <2>1. JobKept /\ IntKept /\ PlaceKept
    BY <1>1 DEF QuietStep
  <2>2. (Resuming' <=> Resuming) /\ (run' = "printing" <=> run = "printing") /\ (Failed' <=> Failed)
    BY <1>1 DEF QuietStep
  <2>3. JournalBehind' /\ RecordBehind'
    BY <2>1, Zenon
  <2>4. JournalAtBase' /\ ResumesBehind'
    BY <2>1, <2>2, Zenon
  <2>5. AckBehind'
    BY <2>1, <2>2, Zenon
  <2> QED BY <2>3, <2>4, <2>5, Zenon
<1>2. CASE AckM110Step
  BY <1>2, NumberFacts, NextPlace, RecoveryAssumption DEF AckM110Step
<1>3. CASE ForwardStep
  BY <1>3, NumberFacts, NextPlace, RecoveryAssumption DEF ForwardStep
<1>4. CASE ErrorStep
  BY <1>4, NumberFacts, NextPlace, RecoveryAssumption DEF ErrorStep
<1>5. CASE NoteStep
  BY <1>5, NumberFacts, NextPlace, RecoveryAssumption DEF NoteStep
<1>6. CASE CloseErrorStep
  BY <1>6, NumberFacts, NextPlace, RecoveryAssumption DEF CloseErrorStep
<1>7. CASE OverStep
  BY <1>7, NumberFacts, NextPlace, RecoveryAssumption DEF OverStep
<1>8. CASE CloseStep
  BY <1>8, NumberFacts, NextPlace, RecoveryAssumption DEF CloseStep
<1>9. CASE StartStep
  BY <1>9, NumberFacts, NextPlace, RecoveryAssumption DEF StartStep
<1>10. CASE UnreadStep
  BY <1>10, NumberFacts, NextPlace, RecoveryAssumption DEF UnreadStep
<1>11. CASE ResumeStep
  BY <1>11, NumberFacts, NextPlace, RecoveryAssumption DEF ResumeStep
<1>12. CASE TickStep
  BY <1>12, NumberFacts, NextPlace, RecoveryAssumption DEF TickStep
<1>13. CASE BootStep
  BY <1>13, NumberFacts, NextPlace, RecoveryAssumption DEF BootStep
<1> QED
  BY <1>1, <1>2, <1>3, <1>4, <1>5, <1>6, <1>7, <1>8, <1>9, <1>10, <1>11, <1>12, <1>13, Zenon DEF AnyStep

\* A print is never continued past a line the printer has not executed, whatever crashed between
\* the acknowledgement, the journal's write and the boot that reads it, if the journal's first
\* record is written.
THEOREM NothingSkippedCorrect ==
  ASSUME "first" \notin SdBusy
  PROVE  Spec => []NothingSkipped
<1>1. Init => TypeOK /\ StageInv /\ PlaceInv
  BY InitTyped, StageCorrect, RecoveryAssumption DEF Init, PlaceInv, JournalBehind, JournalAtBase, RecordBehind,
     ResumesBehind, AckBehind, Resuming, Failed, Closed, NoInt
<1>2. TypeOK /\ StageInv /\ PlaceInv /\ [Next]_vars => TypeOK' /\ StageInv' /\ PlaceInv'
  BY StepTyped, StepKinds, StageCorrect, PlaceInvKept
<1>3. PlaceInv => NothingSkipped
  BY DEF PlaceInv, ResumesBehind, NothingSkipped, Resuming
<1> QED
  BY <1>1, <1>2, <1>3, PTL DEF Spec

-----------------------------------------------------------------------------
(* Where a record found at boot comes from *)

\* The uptime that survives a restart is never more than what the boot lasted.
BeatTrue == beatLong => bootLong

\* A record that is not a crash loop's was made at the end of a boot that lasted, or by a power loss.
OriginTrue == gInt.valid /\ gInt.atBoot /\ ~gInt.crashLoop => prevLong

OriginInv == BeatTrue /\ OriginTrue

\* No record is made into one that was found at boot.
OriginKept == gInt'.valid /\ gInt'.atBoot => gInt.valid /\ gInt.atBoot /\ (gInt'.crashLoop <=> gInt.crashLoop)

UptimesKept == (prevLong' <=> prevLong) /\ (beatLong' <=> beatLong) /\ (bootLong' <=> bootLong)

LEMMA SameOrigin == gInt' = gInt => OriginKept
  BY DEF OriginKept

LEMMA BlankOrigin == gInt' = NoInt => OriginKept
  BY DEF OriginKept, NoInt

LEMMA ErrorOrigin == gInt' = ErrorRecord => OriginKept
  BY DEF OriginKept, ErrorRecord, NoInt

LEMMA UpdatedOrigin ==
  ASSUME RecordTypeOK, ScanFile \/ LookAtPrinter \/ SwitchOffParked \/ DeclineAuto \/ BedOff \/ Gone
  PROVE  OriginKept
<1>0. gInt \in Interrupted
  BY DEF RecordTypeOK
<1>1. CASE ScanFile
  BY <1>0, <1>1 DEF ScanFile, Interrupted, OriginKept
<1>2. CASE LookAtPrinter
  BY <1>0, <1>2 DEF LookAtPrinter, Interrupted, OriginKept
<1>3. CASE SwitchOffParked
  BY <1>0, <1>3 DEF SwitchOffParked, Interrupted, OriginKept
<1>4. CASE DeclineAuto
  BY <1>0, <1>4 DEF DeclineAuto, Interrupted, OriginKept
<1>5. CASE BedOff
  BY <1>0, <1>5 DEF BedOff, Interrupted, OriginKept
<1>6. CASE Gone
  BY <1>0, <1>6 DEF Gone, Interrupted, OriginKept
<1> QED BY <1>1, <1>2, <1>3, <1>4, <1>5, <1>6

\* Only a restart of the board makes such a record; only time and the heartbeat change the uptimes.
LEMMA OriginOutcome ==
  ASSUME TypeOK, [Next]_vars, ~Crash
  PROVE  OriginKept /\ (UptimesKept \/ TimePasses \/ Beat)
<1>t. RecordTypeOK /\ gInt \in Interrupted
  BY DEF TypeOK, RecordTypeOK
<1> USE DEF linkVars, progress, uptimes, printerVars, bounds, history
<1>1. CASE AckM110
  BY <1>1, SameOrigin DEF AckM110, UptimesKept
<1>2. CASE ExecuteLine
  BY <1>2, SameOrigin DEF ExecuteLine, UptimesKept
<1>3. CASE AckLine
  BY <1>3, SameOrigin DEF AckLine, UptimesKept
<1>4. CASE Finish
  BY <1>4, SameOrigin DEF Finish, UptimesKept
<1>5. CASE PreambleHeats
  BY <1>5, SameOrigin DEF PreambleHeats, UptimesKept
<1>6. CASE PreamblePlaces
  BY <1>6, SameOrigin DEF PreamblePlaces, UptimesKept
<1>7. CASE JournalTick
  BY <1>7, SameOrigin DEF JournalTick, UptimesKept
<1>8. CASE RaiseNozzle
  BY <1>8, SameOrigin DEF RaiseNozzle, UptimesKept
<1>9. CASE AutoConnect
  BY <1>9, SameOrigin DEF AutoConnect, UptimesKept
<1>10. CASE Stop
  BY <1>10, SameOrigin DEF Stop, UptimesKept
<1>11. CASE Gcode
  BY <1>11, SameOrigin DEF Gcode, UptimesKept
<1>12. CASE Connect
  BY <1>12, SameOrigin DEF Connect, UptimesKept
<1>13. CASE Disconnect
  BY <1>13, SameOrigin DEF Disconnect, UptimesKept
<1>14. CASE SelectLink
  BY <1>14, SameOrigin DEF SelectLink, UptimesKept
<1>15. CASE PowerOff
  BY <1>15, SameOrigin DEF PowerOff, UptimesKept
<1>16. CASE PowerOn
  BY <1>16, SameOrigin DEF PowerOn, UptimesKept
<1>17. CASE TimePasses
  BY <1>17, SameOrigin DEF TimePasses
<1>18. CASE Beat
  BY <1>18, SameOrigin DEF Beat
<1>19. CASE ScanFile
  BY <1>19, <1>t, UpdatedOrigin DEF ScanFile, UptimesKept
<1>20. CASE LookAtPrinter
  BY <1>20, <1>t, UpdatedOrigin DEF LookAtPrinter, UptimesKept
<1>21. CASE SwitchOffParked
  BY <1>21, <1>t, UpdatedOrigin DEF SwitchOffParked, UptimesKept
<1>22. CASE DeclineAuto
  BY <1>22, <1>t, UpdatedOrigin DEF DeclineAuto, UptimesKept
<1>23. CASE BedOff
  BY <1>23, <1>t, UpdatedOrigin DEF BedOff, UptimesKept
<1>24. CASE Gone
  BY <1>24, <1>t, UpdatedOrigin DEF Gone, UptimesKept
<1>25. CASE GiveUp
  BY <1>25, SameOrigin DEF GiveUp, UptimesKept
<1>26. CASE LinkLost
  BY <1>26, SameOrigin DEF LinkLost, UptimesKept
<1>27. CASE PrinterRestarts
  BY <1>27, SameOrigin DEF PrinterRestarts, UptimesKept
<1>28. CASE Start
  BY <1>28, SameOrigin, BlankOrigin DEF Start, UptimesKept
<1>29. CASE Discard
  BY <1>29, BlankOrigin DEF Discard, UptimesKept
<1>30. CASE AutoResume
  <2>1. UptimesKept
    BY <1>30 DEF AutoResume, UptimesKept
  <2>2. ASSUME ResumePrint(FALSE, gInt.resumes + 1) PROVE OriginKept
    BY <2>2, BlankOrigin, Zenon DEF ResumePrint
  <2>3. ASSUME gInt' = [gInt EXCEPT !.autoTried = TRUE] PROVE OriginKept
    BY <1>t, <2>3 DEF Interrupted, OriginKept
  <2> QED BY <1>30, <2>1, <2>2, <2>3, Zenon DEF AutoResume
<1>31. CASE Recover
  <2>1. UptimesKept
    BY <1>31 DEF Recover, RecoverAs, UptimesKept
  <2>2. ASSUME ResumePrint(~gInt.printerKept, gInt.resumes + 1) PROVE OriginKept
    BY <2>2, BlankOrigin, Zenon DEF ResumePrint
  <2>3. ASSUME gInt' = gInt PROVE OriginKept
    BY <2>3, SameOrigin
  <2> QED BY <1>31, <2>1, <2>2, <2>3, Zenon DEF Recover, RecoverAs
<1>32. CASE RecoverAtHeight
  <2>1. UptimesKept
    BY <1>32 DEF RecoverAtHeight, RecoverAs, UptimesKept
  <2>2. ASSUME ResumePrint(TRUE, gInt.resumes + 1) PROVE OriginKept
    BY <2>2, BlankOrigin, Zenon DEF ResumePrint
  <2>3. ASSUME gInt' = gInt PROVE OriginKept
    BY <2>3, SameOrigin
  <2> QED BY <1>32, <2>1, <2>2, <2>3, Zenon DEF RecoverAtHeight, RecoverAs
<1>33. CASE UNCHANGED vars
  BY <1>33, SameOrigin DEF vars, UptimesKept
<1>34. CASE NoteEnd
  BY <1>34, SameOrigin, ErrorOrigin DEF NoteEnd, UptimesKept
<1>35. CASE CloseJournal
  BY <1>35, SameOrigin DEF CloseJournal, UptimesKept
<1>36. CASE CloseDiscarded
  BY <1>36, SameOrigin DEF CloseDiscarded, UptimesKept
<1>37. CASE StopShutsDown
  BY <1>37, SameOrigin DEF StopShutsDown, UptimesKept
<1>38. CASE DiscardedBedOff
  BY <1>38, SameOrigin DEF DiscardedBedOff, UptimesKept
<1> QED
  BY <1>1, <1>2, <1>3, <1>4, <1>5, <1>6, <1>7, <1>8, <1>9, <1>10, <1>11, <1>12, <1>13, <1>14, <1>15, <1>16,
     <1>17, <1>18, <1>19, <1>20, <1>21, <1>22, <1>23, <1>24, <1>25, <1>26, <1>27, <1>28, <1>29, <1>30, <1>31,
     <1>32, <1>33, <1>34, <1>35, <1>36, <1>37, <1>38,
     Zenon DEF Next, PrintRuns, Ticks, Users, Outside

LEMMA OriginInvKept == TypeOK /\ OriginInv /\ [Next]_vars => OriginInv'
<1> SUFFICES ASSUME TypeOK, OriginInv, [Next]_vars PROVE OriginInv'
  OBVIOUS
<1>1. CASE Crash
  <2>1. PICK powerLoss \in BOOLEAN :
          /\ gInt' = BootRecord(~powerLoss /\ ~beatLong) \/ gInt' = NoInt
          /\ prevLong' = (bootLong \/ powerLoss)
    BY <1>1 DEF Crash
  <2>2. BeatTrue'
    BY <1>1 DEF Crash, FreshBeat, BeatTrue
  <2>3. gInt' = NoInt => OriginTrue'
    BY DEF NoInt, OriginTrue
  <2>4. ASSUME gInt' = BootRecord(~powerLoss /\ ~beatLong) PROVE OriginTrue'
    <3>1. gInt'.crashLoop = (~powerLoss /\ ~beatLong)
      BY <2>4 DEF BootRecord, NoInt
    <3> QED BY <2>1, <3>1 DEF OriginTrue, OriginInv, BeatTrue
  <2> QED BY <2>1, <2>2, <2>3, <2>4 DEF OriginInv
<1>2. CASE ~Crash
  <2>1. OriginKept /\ (UptimesKept \/ TimePasses \/ Beat)
    BY <1>2, OriginOutcome
  <2>2. (prevLong' <=> prevLong) /\ BeatTrue'
    BY <2>1 DEF UptimesKept, TimePasses, Beat, OriginInv, BeatTrue
  <2> QED BY <2>1, <2>2, Zenon DEF OriginKept, OriginInv, OriginTrue
<1> QED BY <1>1, <1>2

\* interruptedTick lets the board continue a print by itself only after a boot that lasted for
\* CRASH_LOOP_SEC or a power loss: a board that keeps crashing over a print leaves it alone.
THEOREM AutoAfterLongBootCorrect == Spec => AutoAfterLongBoot
<1>1. Init => TypeOK /\ OriginInv
  BY InitTyped DEF Init, OriginInv, BeatTrue, OriginTrue, NoInt
<1>2. TypeOK /\ OriginInv /\ [Next]_vars => TypeOK' /\ OriginInv'
  BY StepTyped, OriginInvKept
<1>3. OriginInv => [AutoResume => prevLong]_vars
  BY DEF AutoResume, MayTryAuto, AutoRuledOut, OriginInv, OriginTrue
<1> QED
  BY <1>1, <1>2, <1>3, PTL DEF Spec, AutoAfterLongBoot
=============================================================================

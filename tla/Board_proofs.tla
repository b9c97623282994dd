---------------------------- MODULE Board_proofs ----------------------------
(***************************************************************************)
(* Proofs about the board's two tasks.  First every step keeps the types,  *)
(* taken in six parts that are shown apart, provided that there is a       *)
(* number left for the command that is posted.  Then who has a command in  *)
(* hand, who frees it, and the slot of asynchronous commands: for this     *)
(* the 56 actions are sorted by what they do to the commands; most leave   *)
(* them where they are (Aside, HttpWorks, EngineKeeps), few change hands.  *)
(***************************************************************************)
EXTENDS Board, FiniteSetTheorems, SequenceTheorems, TLAPS

CmdObject == [type : Types \cup {"none", "GCODE"}, name : Names \cup {None}, async : 0..MaxPosts,
              mem : {"none", "live", "freed"}, abandoned : {"no", "yes", "too late"}, done : BOOLEAN, ok : BOOLEAN]
TmpObject == [name : Names \cup {None}, ver : 0..Half, whole : BOOLEAN]
IntObject == [name : Names \cup {None}, ver : 0..Half, auto : BOOLEAN]
JobObject == [id : 0..MaxPosts, seq : 0..MaxPosts, done : BOOLEAN, ok : BOOLEAN]
\* Where the web server has a file in hand.
WithFile == {"receives", "writes", "received", "checked", "failed", "replaces", "discards", "renames", "deletes",
             "removes"}
HttpObject == [at : {"idle", "waits", "gives up", "async"} \cup WithFile, c : 0..MaxPosts, file : Files]
Stations == {"loop", "answers", "gives", "executes", "looks", "claims", "opens", "begins", "prints", "stops",
             "closing", "recording", "journals", "discards"}
Afters == {"loop", "opens", "prints", "stops", "closing"}
EngObject == [at : Stations, c : 0..MaxPosts, then : Afters, file : Files, man : 0..MaxPosts, sent : BOOLEAN]
ReadObject == [next : 1..(Cells + 1), buf : 0..BufCells, from : 1..(Cells + 1), fed : 0..Cells, eof : BOOLEAN]

CardTypeOK == /\ sd \in {"free", "http", "log"} /\ files \in [Names -> 0..Half]
              /\ tmp \in TmpObject /\ journal \in Files
HistTypeOK == /\ holes \subseteq {"late", "gap", "stale"} /\ stored \subseteq Names
              /\ uploads \in 0..MaxUploads /\ crashes \in 0..MaxCrashes
MailTypeOK == cmdQ \in Seq(1..MaxPosts) /\ Len(cmdQ) <= QueueLen /\ cmd \in [1..MaxPosts -> CmdObject]
\* Only a print with a file is resumed by the board.
JobTypeOK  == /\ gState \in {"DISCONNECTED", "IDLE", "PRINTING", "PAUSED", "ERROR"} /\ gFile \in Names \cup {None}
              /\ gInt \in IntObject /\ gJob \in JobObject
              /\ gInt.auto => gInt.name \in Names
HttpTypeOK == http \in HttpObject /\ (http.at \in WithFile => http.file.name \in Names)
\* A print that is looked for or opened has a file.
Opening == \/ eng.at \in {"looks", "claims", "opens"}
           \/ eng.at \in {"answers", "gives"} /\ eng.then = "opens"
\* The engine has a command in hand.
HasCmd == {"answers", "gives", "executes", "looks", "claims", "discards"}
EngTypeOK  == eng \in EngObject /\ (Opening => eng.file.name \in Names) /\ (eng.at \in HasCmd <=> eng.c # 0)
\* What was read and is not used yet lies in the file.
ReadTypeOK == rd \in ReadObject /\ rd.buf + rd.next <= Cells + 1

TypeInv == CardTypeOK /\ HistTypeOK /\ MailTypeOK /\ JobTypeOK /\ HttpTypeOK /\ EngTypeOK /\ ReadTypeOK

\* There is a number left for the command about to be posted.
NumberLeft == /\ NextCmd \in Nat \ {0}
              /\ http.at = "async" => NextCmd <= MaxPosts

\* The parts are the whole of TypeOK, and a little more.
LEMMA TypeParts == TypeInv => TypeOK
  BY DEF TypeInv, TypeOK, CardTypeOK, HistTypeOK, MailTypeOK, JobTypeOK, HttpTypeOK, EngTypeOK, ReadTypeOK,
     CmdObject, TmpObject, IntObject, JobObject, WithFile, HttpObject, Stations, Afters, EngObject, ReadObject

\* The constants are numbers.
LEMMA Numbers == MaxPosts \in Nat /\ MaxUploads \in Nat /\ MaxCrashes \in Nat /\ Cells \in Nat /\ BufCells \in Nat
                 /\ QueueLen \in Nat /\ Half \in Nat /\ Cells >= 1 /\ None \notin Names
  BY BoardAssumption DEF Half

\* What the objects are before they are used is typed.
LEMMA Blank == /\ NoFile \in Files /\ NoTmp \in TmpObject /\ NoInt \in IntObject /\ ~NoInt.auto /\ NoJob \in JobObject
               /\ NoCmd \in CmdObject /\ NoRead \in ReadObject /\ NoRead.buf + NoRead.next <= Cells + 1
<1>1. NoFile \in Files /\ NoTmp \in TmpObject /\ NoInt \in IntObject /\ ~NoInt.auto
  BY Numbers DEF NoFile, Files, NoTmp, TmpObject, NoInt, IntObject
<1>2. NoJob \in JobObject /\ NoCmd \in CmdObject
  BY Numbers DEF NoJob, JobObject, NoCmd, CmdObject
<1>3. NoRead \in ReadObject /\ NoRead.buf + NoRead.next <= Cells + 1
  BY Numbers DEF NoRead, ReadObject
<1> QED
  BY <1>1, <1>2, <1>3

\* Nobody at work is typed.
LEMMA AtRest == /\ Idle \in HttpObject /\ Idle.at = "idle" /\ Idle.c = 0
                /\ Waiting \in EngObject /\ Waiting.at = "loop" /\ Waiting.c = 0 /\ Waiting.man = 0
<1>1. Idle \in HttpObject /\ Idle.at = "idle" /\ Idle.c = 0
  BY Blank, Numbers DEF Idle, HttpObject
<1>2. Waiting \in EngObject /\ Waiting.at = "loop" /\ Waiting.c = 0 /\ Waiting.man = 0
  BY Blank, Numbers DEF Waiting, EngObject, Stations, Afters
<1> QED
  BY <1>1, <1>2

\* The command at the head of the queue is a command, and the rest is a queue.
LEMMA Heads ==
  ASSUME MailTypeOK, cmdQ # <<>>
  PROVE  Head(cmdQ) \in 1..MaxPosts /\ Tail(cmdQ) \in Seq(1..MaxPosts) /\ Len(Tail(cmdQ)) <= QueueLen
  BY Numbers DEF MailTypeOK

\* A file written or removed leaves the card typed.
LEMMA FileTyped ==
  ASSUME CardTypeOK, NEW n, NEW v \in 0..Half
  PROVE  [files EXCEPT ![n] = v] \in [Names -> 0..Half]
  BY DEF CardTypeOK

\* Who gives the card leaves it typed.
LEMMA CardGiven == CardTypeOK => GiveCard \in {"free", "http", "log"}
  BY DEF CardTypeOK, GiveCard

\* The ways around the protection of a file in use are these three.
LEMMA HolesTyped ==
  ASSUME HistTypeOK, \/ UNCHANGED holes
                     \/ \E h \in {"late", "gap", "stale"} : holes' = holes \cup {h}
  PROVE  holes' \subseteq {"late", "gap", "stale"}
  BY DEF HistTypeOK

\* Writing the journal, and the last look at a file, note such a way or none.
LEMMA JournalHoles == \A f : JournalWrite(f) => \/ UNCHANGED holes
                                               \/ \E h \in {"late", "gap", "stale"} : holes' = holes \cup {h}
  BY DEF JournalWrite

\* So does the last look.
LEMMA LookHoles == \A n : LastLook(n) => \/ UNCHANGED holes
                                        \/ \E h \in {"late", "gap", "stale"} : holes' = holes \cup {h}
  BY DEF LastLook

\* A command that is taken out of the queue leaves it typed.
LEMMA TakenTyped ==
  ASSUME MailTypeOK, NEW type, Command(type)
  PROVE  Head(cmdQ) \in 1..MaxPosts /\ cmdQ' \in Seq(1..MaxPosts) /\ Len(cmdQ') <= QueueLen
  BY Heads DEF Command

\* A new command is typed.
LEMMA NewTyped ==
  ASSUME NEW type \in Types \cup {"GCODE"}, NEW n \in Names \cup {None}, NEW a \in 0..MaxPosts
  PROVE  NewCmd(type, n, a) \in CmdObject
  BY Blank DEF NewCmd, CmdObject

\* A command that gets its result, its answer, is freed or abandoned, stays a command.
LEMMA ResultTyped ==
  ASSUME MailTypeOK, NEW c, NEW ok \in BOOLEAN
  PROVE  [cmd EXCEPT ![c].ok = ok] \in [1..MaxPosts -> CmdObject]
  BY DEF MailTypeOK, CmdObject

LEMMA DoneTyped ==
  ASSUME MailTypeOK, NEW c
  PROVE  [cmd EXCEPT ![c].done = TRUE] \in [1..MaxPosts -> CmdObject]
  BY DEF MailTypeOK, CmdObject

LEMMA FreedTyped ==
  ASSUME MailTypeOK, NEW c
  PROVE  [cmd EXCEPT ![c].mem = "freed"] \in [1..MaxPosts -> CmdObject]
  BY DEF MailTypeOK, CmdObject

LEMMA AbandonedTyped ==
  ASSUME MailTypeOK, NEW c, NEW a \in {"yes", "too late"}
  PROVE  [cmd EXCEPT ![c].abandoned = a] \in [1..MaxPosts -> CmdObject]
  BY DEF MailTypeOK, CmdObject

\* Whatever changes of the engine's task, it stays typed.
LEMMA EngineGoes ==
  ASSUME NEW e \in EngObject, NEW at \in Stations, NEW c \in 0..MaxPosts, NEW then \in Afters
  PROVE  [e EXCEPT !.at = at, !.c = c, !.then = then] \in EngObject
  BY DEF EngObject

\* The same when it takes up a file.
LEMMA OnItsWay ==
  ASSUME NEW e \in EngObject, NEW at \in Stations, NEW c \in 0..MaxPosts, NEW f \in Files
  PROVE  [e EXCEPT !.at = at, !.c = c, !.file = f] \in EngObject
  BY DEF EngObject

\* The engine that has a result for a command leaves the commands typed, and is typed itself.
LEMMA AnsweringTyped ==
  ASSUME MailTypeOK, NEW c, NEW ok \in BOOLEAN, NEW then, Answering(c, ok, then)
  PROVE  cmd' \in [1..MaxPosts -> CmdObject]
  BY ResultTyped DEF Answering

LEMMA AnsweringEngine ==
  ASSUME EngTypeOK, NEW c \in 1..MaxPosts, NEW ok, NEW then \in {"loop", "opens", "prints", "stops", "closing"},
         Answering(c, ok, then), then = "opens" => eng.file.name \in Names
  PROVE  EngTypeOK'
<1>1. "answers" \in Stations /\ then \in Afters
  BY DEF Stations, Afters
<1>2. eng' = [eng EXCEPT !.at = "answers", !.c = c, !.then = then]
  BY DEF Answering
<1>3. c \in 0..MaxPosts
  OBVIOUS
<1>4. eng' \in EngObject
  BY <1>1, <1>2, <1>3, EngineGoes DEF EngTypeOK
<1> QED
  BY <1>2, <1>4 DEF Answering, EngTypeOK, EngObject, Opening, HasCmd, Stations, Afters

\* Every step keeps the card typed.
LEMMA CardTyped ==
  ASSUME TypeInv, [Next]_vars
  PROVE  CardTypeOK'
<1>1. ASSUME NEW n \in Names, UploadBegin(n)
      PROVE  CardTypeOK'
  <2>1. uploads + 2 \in 0..Half
    BY <1>1, Numbers DEF UploadBegin, TypeInv, HistTypeOK, Half
  <2>2. [name |-> n, ver |-> uploads + 2, whole |-> FALSE] \in TmpObject
    BY <2>1 DEF TmpObject
  <2> QED
    BY <1>1, <2>2 DEF UploadBegin, TypeInv, CardTypeOK
<1>2. ASSUME NEW n \in Names, DeleteLocks(n)
      PROVE  CardTypeOK'
  BY <1>2, Numbers, Blank DEF DeleteLocks, Idle, TypeInv, CardTypeOK, HttpTypeOK, EngTypeOK, WithFile, HttpObject,
     EngObject, TmpObject, Files
<1>3. CASE UploadWrite
  BY <1>3, Numbers, Blank DEF UploadWrite, TypeInv, CardTypeOK, HttpTypeOK, EngTypeOK, WithFile, HttpObject,
     EngObject, TmpObject, Files
<1>4. CASE UploadWritten
  BY <1>4, Numbers, Blank DEF UploadWritten, GiveCard, TypeInv, CardTypeOK, HttpTypeOK, EngTypeOK, WithFile,
     HttpObject, EngObject, TmpObject, Files
<1>5. CASE UploadLocks
  BY <1>5, Numbers, Blank DEF UploadLocks, Taken, TypeInv, CardTypeOK, HttpTypeOK, EngTypeOK, WithFile, HttpObject,
     EngObject, TmpObject, Files
<1>6. CASE UploadRemoves
  BY <1>6, FileTyped, Numbers DEF UploadRemoves, TypeInv, CardTypeOK
<1>7. CASE UploadRenames
  <2>1. tmp.ver \in 0..Half /\ Half \in 0..Half
    BY Numbers DEF TypeInv, CardTypeOK, TmpObject
  <2>2. files' \in [Names -> 0..Half]
    <3>1. CASE UNCHANGED files
      BY <3>1 DEF TypeInv, CardTypeOK
    <3>2. CASE files' = [files EXCEPT ![http.file.name] = IF tmp.whole THEN tmp.ver ELSE Half]
      BY <2>1, <3>2, FileTyped DEF TypeInv
    <3> QED
      BY <1>7, <3>1, <3>2 DEF UploadRenames
  <2> QED
    BY <1>7, <2>2, Blank, CardGiven DEF UploadRenames, TypeInv, CardTypeOK
<1>8. CASE UploadDiscards
  BY <1>8, Numbers, Blank DEF UploadDiscards, NoTmp, Idle, GiveCard, TypeInv, CardTypeOK, HttpTypeOK, EngTypeOK,
     WithFile, HttpObject, EngObject, TmpObject, Files
<1>9. CASE DeleteChecked
  BY <1>9, Numbers, Blank DEF DeleteChecked, Idle, FileInUse, GiveCard, LastLook, TypeInv, CardTypeOK, HttpTypeOK,
     EngTypeOK, WithFile, HttpObject, EngObject, TmpObject, Files
<1>10. CASE DeleteRemoves
  BY <1>10, FileTyped, CardGiven, Numbers DEF DeleteRemoves, TypeInv, CardTypeOK
<1>11. CASE Discarded
  BY <1>11, Numbers, Blank DEF Discarded, NoFile, Answering, JournalWrite, TypeInv, CardTypeOK, HttpTypeOK,
     EngTypeOK, WithFile, HttpObject, EngObject, TmpObject, Files
<1>12. CASE Begins
  BY <1>12, Numbers, Blank DEF Begins, JournalWrite, TypeInv, CardTypeOK, HttpTypeOK, EngTypeOK, WithFile,
     HttpObject, EngObject, TmpObject, Files
<1>13. CASE JournalEnd
  BY <1>13, Numbers, Blank DEF JournalEnd, NoFile, Waiting, NoRead, JournalWrite, TypeInv, CardTypeOK, HttpTypeOK,
     EngTypeOK, WithFile, HttpObject, EngObject, TmpObject, Files
<1>14. CASE JournalTick
  BY <1>14, Numbers, Blank DEF JournalTick, TypeInv, CardTypeOK, HttpTypeOK, EngTypeOK, WithFile, HttpObject,
     EngObject, TmpObject, Files
<1>15. CASE LogGivesCard
  BY <1>15, Numbers, Blank DEF LogGivesCard, TypeInv, CardTypeOK, HttpTypeOK, EngTypeOK, WithFile, HttpObject,
     EngObject, TmpObject, Files
<1>16. CASE UploadFails
  BY <1>16, Numbers, Blank DEF UploadFails, GiveCard, TypeInv, CardTypeOK, HttpTypeOK, EngTypeOK, WithFile,
     HttpObject, EngObject, TmpObject, Files
<1>17. CASE LogTakesCard
  BY <1>17, Numbers, Blank DEF LogTakesCard, TypeInv, CardTypeOK, HttpTypeOK, EngTypeOK, WithFile, HttpObject,
     EngObject, TmpObject, Files
<1>18. CASE Restart
  BY <1>18, Numbers, Blank DEF Restart, NoJob, NoCmd, Idle, Waiting, NoRead, TypeInv, CardTypeOK, HttpTypeOK,
     EngTypeOK, WithFile, HttpObject, EngObject, TmpObject, Files
<1>19. ASSUME NEW type \in Types, NEW n \in Names \cup {None}, Post(type, n)
      PROVE  CardTypeOK'
  BY <1>19 DEF Post, cardVars, jobVars, bounds, TypeInv, CardTypeOK, HttpTypeOK, EngTypeOK, WithFile, HttpObject,
     EngObject, TmpObject, Files
<1>20. CASE TakeSlot \/ PostAsync \/ AsyncRefused \/ Answered \/ Abandon \/ UploadChecked \/ AnswerAsync \/
            AnswerLooks \/ AnswerGives \/ Connect \/ Disconnect \/ Gcode \/ Executed \/ Discard \/ NoPrint \/ Start
            \/ LookForFile \/ Claim \/ OpenFails \/ Open \/ PauseOrResume \/ Stop \/ Stopped \/ PrintGcode \/
            BusyPrinting \/ SendManual \/ ManualAcked \/ Fill \/ NextCell \/ Finished \/ ManualEnds \/ CloseFile \/
            RecordEnd \/ AutoConnectTick \/ AutoResume \/ TimedOut \/ PrintFails \/ FillBusy \/ UNCHANGED vars
  BY <1>20 DEF TakeSlot, PostAsync, AsyncRefused, Answered, Abandon, UploadChecked, AnswerAsync, AnswerLooks,
     AnswerGives, Connect, Disconnect, Gcode, Executed, Discard, NoPrint, Start, LookForFile, Claim, OpenFails,
     Open, PauseOrResume, Stop, Stopped, PrintGcode, BusyPrinting, SendManual, ManualAcked, Fill, NextCell,
     Finished, ManualEnds, CloseFile, RecordEnd, AutoConnectTick, AutoResume, TimedOut, PrintFails, FillBusy, vars,
     cardVars, jobVars, bounds, TypeInv, CardTypeOK, HttpTypeOK, EngTypeOK, WithFile, HttpObject, EngObject,
     TmpObject, Files
<1> QED
  BY <1>1, <1>2, <1>3, <1>4, <1>5, <1>6, <1>7, <1>8, <1>9, <1>10, <1>11, <1>12, <1>13, <1>14, <1>15, <1>16, <1>17,
     <1>18, <1>19, <1>20 DEF Next, Clients, Server, Engine, Faulty

\* Every step keeps the history typed.
LEMMA HistTyped ==
  ASSUME TypeInv, [Next]_vars
  PROVE  HistTypeOK'
<1>1. ASSUME NEW n \in Names, UploadBegin(n)
      PROVE  HistTypeOK'
  BY <1>1, Numbers DEF UploadBegin, Idle, FileInUse, TypeInv, HistTypeOK, HttpTypeOK, WithFile
<1>2. CASE UploadChecked
  <2>1. \/ UNCHANGED holes
        \/ \E h \in {"late", "gap", "stale"} : holes' = holes \cup {h}
    BY <1>2, LookHoles DEF UploadChecked
  <2> QED
    BY <1>2, <2>1, HolesTyped DEF UploadChecked, TypeInv, HistTypeOK, bounds
<1>3. CASE UploadRenames
  <2>1. stored' \subseteq Names
    BY <1>3 DEF UploadRenames, TypeInv, HistTypeOK, HttpTypeOK, WithFile
  <2> QED
    BY <1>3, <2>1 DEF UploadRenames, TypeInv, HistTypeOK, bounds
<1>4. CASE DeleteChecked
  <2>1. \/ UNCHANGED holes
        \/ \E h \in {"late", "gap", "stale"} : holes' = holes \cup {h}
    BY <1>4, LookHoles DEF DeleteChecked
  <2> QED
    BY <1>4, <2>1, HolesTyped DEF DeleteChecked, TypeInv, HistTypeOK, bounds
<1>5. CASE DeleteRemoves
  <2>1. stored' \subseteq Names
    BY <1>5 DEF DeleteRemoves, TypeInv, HistTypeOK, HttpTypeOK, WithFile
  <2> QED
    BY <1>5, <2>1 DEF DeleteRemoves, TypeInv, HistTypeOK, bounds
<1>6. CASE Discarded
  <2>1. \/ UNCHANGED holes
        \/ \E h \in {"late", "gap", "stale"} : holes' = holes \cup {h}
    BY <1>6, JournalHoles DEF Discarded
  <2> QED
    BY <1>6, <2>1, HolesTyped DEF Discarded, TypeInv, HistTypeOK, bounds
<1>7. CASE Claim
  <2>1. UNCHANGED holes \/ holes' = holes \cup {"late"}
    BY <1>7 DEF Claim
  <2> QED
    BY <1>7, <2>1, HolesTyped DEF Claim, TypeInv, HistTypeOK, bounds
<1>8. CASE Begins
  <2>1. \/ UNCHANGED holes
        \/ \E h \in {"late", "gap", "stale"} : holes' = holes \cup {h}
    BY <1>8, JournalHoles DEF Begins
  <2> QED
    BY <1>8, <2>1, HolesTyped DEF Begins, TypeInv, HistTypeOK, bounds
<1>9. CASE JournalEnd
  <2>1. \/ UNCHANGED holes
        \/ \E h \in {"late", "gap", "stale"} : holes' = holes \cup {h}
    BY <1>9, JournalHoles DEF JournalEnd
  <2> QED
    BY <1>9, <2>1, HolesTyped DEF JournalEnd, TypeInv, HistTypeOK, bounds
<1>10. CASE Restart
  BY <1>10, Numbers DEF Restart, NoJob, NoCmd, Idle, Waiting, NoRead, TypeInv, HistTypeOK, HttpTypeOK, WithFile
<1>11. ASSUME NEW type \in Types, NEW n \in Names \cup {None}, Post(type, n)
      PROVE  HistTypeOK'
  BY <1>11 DEF Post, cardVars, jobVars, bounds, TypeInv, HistTypeOK, HttpTypeOK, WithFile
<1>12. ASSUME NEW n \in Names, DeleteLocks(n)
      PROVE  HistTypeOK'
  BY <1>12 DEF DeleteLocks, jobVars, bounds, TypeInv, HistTypeOK, HttpTypeOK, WithFile
<1>13. CASE TakeSlot \/ PostAsync \/ AsyncRefused \/ Answered \/ Abandon \/ UploadWrite \/ UploadWritten \/
            UploadLocks \/ UploadRemoves \/ UploadDiscards \/ AnswerAsync \/ AnswerLooks \/ AnswerGives \/ Connect
            \/ Disconnect \/ Gcode \/ Executed \/ Discard \/ NoPrint \/ Start \/ LookForFile \/ OpenFails \/ Open \/
            PauseOrResume \/ Stop \/ Stopped \/ PrintGcode \/ BusyPrinting \/ SendManual \/ ManualAcked \/ Fill \/
            NextCell \/ Finished \/ ManualEnds \/ CloseFile \/ RecordEnd \/ AutoConnectTick \/ AutoResume \/
            JournalTick \/ LogGivesCard \/ TimedOut \/ UploadFails \/ PrintFails \/ FillBusy \/ LogTakesCard \/
            UNCHANGED vars
  BY <1>13 DEF TakeSlot, PostAsync, AsyncRefused, Answered, Abandon, UploadWrite, UploadWritten, UploadLocks,
     UploadRemoves, UploadDiscards, AnswerAsync, AnswerLooks, AnswerGives, Connect, Disconnect, Gcode, Executed,
     Discard, NoPrint, Start, LookForFile, OpenFails, Open, PauseOrResume, Stop, Stopped, PrintGcode, BusyPrinting,
     SendManual, ManualAcked, Fill, NextCell, Finished, ManualEnds, CloseFile, RecordEnd, AutoConnectTick,
     AutoResume, JournalTick, LogGivesCard, TimedOut, UploadFails, PrintFails, FillBusy, LogTakesCard, vars,
     cardVars, jobVars, bounds, TypeInv, HistTypeOK, HttpTypeOK, WithFile
<1> QED
  BY <1>1, <1>2, <1>3, <1>4, <1>5, <1>6, <1>7, <1>8, <1>9, <1>10, <1>11, <1>12, <1>13 DEF Next, Clients, Server,
     Engine, Faulty

\* Every step keeps the queue and the commands typed.
LEMMA MailTyped ==
  ASSUME TypeInv, NumberLeft, [Next]_vars
  PROVE  MailTypeOK'
<1>1. ASSUME NEW type \in Types, NEW n \in Names \cup {None}, Post(type, n)
      PROVE  MailTypeOK'
  <2>1. NextCmd \in 1..MaxPosts
    BY <1>1, Numbers DEF Post, NumberLeft
  <2>2. NewCmd(type, n, 0) \in CmdObject
    BY Numbers, NewTyped
  <2>3. cmd' \in [1..MaxPosts -> CmdObject]
    BY <1>1, <2>2 DEF Post, TypeInv, MailTypeOK
  <2>4. cmdQ' \in Seq(1..MaxPosts) /\ Len(cmdQ') <= QueueLen
    BY <1>1, <2>1, Numbers DEF Post, TypeInv, MailTypeOK
  <2> QED
    BY <2>3, <2>4 DEF MailTypeOK
<1>2. CASE PostAsync
  <2>1. NextCmd \in 1..MaxPosts
    BY <1>2, Numbers DEF PostAsync, NumberLeft
  <2>2. NewCmd("GCODE", None, gJob.id) \in CmdObject
    BY Numbers DEF NewCmd, NoCmd, CmdObject, TypeInv, JobTypeOK, JobObject
  <2>3. cmd' \in [1..MaxPosts -> CmdObject]
    BY <1>2, <2>2 DEF PostAsync, TypeInv, MailTypeOK
  <2>4. cmdQ' \in Seq(1..MaxPosts) /\ Len(cmdQ') <= QueueLen
    BY <1>2, <2>1, Numbers DEF PostAsync, TypeInv, MailTypeOK
  <2> QED
    BY <2>3, <2>4 DEF MailTypeOK
<1>3. CASE Answered
  BY <1>3, FreedTyped DEF Answered, TypeInv, MailTypeOK
<1>4. CASE Abandon
  <2>1. (IF cmd[http.c].done \/ Giving(http.c) THEN "too late" ELSE "yes") \in {"yes", "too late"}
    OBVIOUS
  <2> QED
    BY <1>4, <2>1, AbandonedTyped DEF Abandon, TypeInv, MailTypeOK
<1>5. CASE AnswerAsync
  BY <1>5, FreedTyped DEF AnswerAsync, TypeInv, MailTypeOK
<1>6. CASE AnswerLooks
  BY <1>6, FreedTyped DEF AnswerLooks, TypeInv, MailTypeOK
<1>7. CASE AnswerGives
  BY <1>7, DoneTyped DEF AnswerGives, TypeInv, MailTypeOK
<1>8. CASE Connect
  BY <1>8, AnsweringTyped, TakenTyped DEF Connect, TypeInv, MailTypeOK
<1>9. CASE Disconnect
  BY <1>9, AnsweringTyped, TakenTyped DEF Disconnect, TypeInv, MailTypeOK
<1>10. CASE Gcode
  BY <1>10, AnsweringTyped, TakenTyped DEF Gcode, TypeInv, MailTypeOK
<1>11. CASE Executed
  BY <1>11, AnsweringTyped DEF Executed, TypeInv, MailTypeOK
<1>12. CASE Discard
  BY <1>12, TakenTyped DEF Discard, TypeInv, MailTypeOK
<1>13. CASE Discarded
  BY <1>13, AnsweringTyped DEF Discarded, TypeInv, MailTypeOK
<1>14. CASE NoPrint
  BY <1>14, AnsweringTyped, TakenTyped DEF NoPrint, TypeInv, MailTypeOK
<1>15. CASE Start
  BY <1>15, AnsweringTyped, TakenTyped DEF Start, TypeInv, MailTypeOK
<1>16. CASE LookForFile
  BY <1>16, AnsweringTyped DEF LookForFile, TypeInv, MailTypeOK
<1>17. CASE Claim
  BY <1>17, AnsweringTyped DEF Claim, TypeInv, MailTypeOK
<1>18. CASE PauseOrResume
  BY <1>18, AnsweringTyped, TakenTyped DEF PauseOrResume, TypeInv, MailTypeOK
<1>19. CASE Stop
  BY <1>19, AnsweringTyped, TakenTyped DEF Stop, TypeInv, MailTypeOK
<1>20. CASE PrintGcode
  BY <1>20, AnsweringTyped, TakenTyped DEF PrintGcode, TypeInv, MailTypeOK
<1>21. CASE BusyPrinting
  BY <1>21, AnsweringTyped, TakenTyped DEF BusyPrinting, TypeInv, MailTypeOK
<1>22. CASE SendManual
  BY <1>22, FreedTyped DEF SendManual, TypeInv, MailTypeOK
<1>23. CASE ManualAcked
  BY <1>23, ResultTyped DEF ManualAcked, TypeInv, MailTypeOK
<1>24. CASE ManualEnds
  BY <1>24, ResultTyped DEF ManualEnds, TypeInv, MailTypeOK
<1>25. CASE Restart
  BY <1>25, Blank, Numbers DEF Restart, MailTypeOK
<1>26. ASSUME NEW n \in Names, UploadBegin(n)
      PROVE  MailTypeOK'
  BY <1>26 DEF UploadBegin, jobVars, TypeInv, MailTypeOK
<1>27. ASSUME NEW n \in Names, DeleteLocks(n)
      PROVE  MailTypeOK'
  BY <1>27 DEF DeleteLocks, jobVars, bounds, TypeInv, MailTypeOK
<1>28. CASE TakeSlot \/ AsyncRefused \/ UploadWrite \/ UploadWritten \/ UploadChecked \/ UploadLocks \/
            UploadRemoves \/ UploadRenames \/ UploadDiscards \/ DeleteChecked \/ DeleteRemoves \/ OpenFails \/ Open
            \/ Begins \/ Stopped \/ Fill \/ NextCell \/ Finished \/ CloseFile \/ RecordEnd \/ JournalEnd \/
            AutoConnectTick \/ AutoResume \/ JournalTick \/ LogGivesCard \/ TimedOut \/ UploadFails \/ PrintFails \/
            FillBusy \/ LogTakesCard \/ UNCHANGED vars
  BY <1>28 DEF TakeSlot, AsyncRefused, UploadWrite, UploadWritten, UploadChecked, UploadLocks, UploadRemoves,
     UploadRenames, UploadDiscards, DeleteChecked, DeleteRemoves, OpenFails, Open, Begins, Stopped, Fill, NextCell,
     Finished, CloseFile, RecordEnd, JournalEnd, AutoConnectTick, AutoResume, JournalTick, LogGivesCard, TimedOut,
     UploadFails, PrintFails, FillBusy, LogTakesCard, vars, cardVars, jobVars, bounds, TypeInv, MailTypeOK
<1> QED
  BY <1>1, <1>2, <1>3, <1>4, <1>5, <1>6, <1>7, <1>8, <1>9, <1>10, <1>11, <1>12, <1>13, <1>14, <1>15, <1>16, <1>17,
     <1>18, <1>19, <1>20, <1>21, <1>22, <1>23, <1>24, <1>25, <1>26, <1>27, <1>28 DEF Next, Clients, Server, Engine,
     Faulty

\* Every step keeps what the engine says of the print typed.
LEMMA JobTyped ==
  ASSUME TypeInv, [Next]_vars
  PROVE  JobTypeOK'
<1>1. CASE TakeSlot
  <2>1. [id |-> gJob.seq + 1, seq |-> gJob.seq + 1, done |-> FALSE, ok |-> FALSE] \in JobObject
    BY <1>1, Numbers DEF TakeSlot, TypeInv, JobTypeOK, JobObject
  <2> QED
    BY <1>1, <2>1 DEF TakeSlot, TypeInv, JobTypeOK, jobVars
<1>2. CASE AsyncRefused
  <2>1. [gJob EXCEPT !.done = TRUE] \in JobObject
    BY DEF TypeInv, JobTypeOK, JobObject
  <2> QED
    BY <1>2, <2>1 DEF AsyncRefused, TypeInv, JobTypeOK, jobVars
<1>3. CASE AnswerAsync
  <2>1. PICK ok \in BOOLEAN : gJob' = [gJob EXCEPT !.done = TRUE, !.ok = ok]
    <3>1. eng.c \in 1..MaxPosts => cmd[eng.c].ok \in BOOLEAN
      BY DEF TypeInv, MailTypeOK, CmdObject
    <3>2. eng.c # 0
      BY <1>3 DEF AnswerAsync, TypeInv, EngTypeOK, HasCmd
    <3>3. cmd[eng.c].ok \in BOOLEAN
      BY <3>1, <3>2 DEF TypeInv, EngTypeOK, EngObject
    <3>4. gJob' = [gJob EXCEPT !.done = TRUE, !.ok = cmd[eng.c].ok]
      BY <1>3 DEF AnswerAsync
    <3> QED
      BY <3>3, <3>4
  <2>2. gJob' \in JobObject
    BY <2>1 DEF TypeInv, JobTypeOK, JobObject
  <2> QED
    BY <1>3, <2>2 DEF AnswerAsync, TypeInv, JobTypeOK, jobVars
<1>4. CASE Connect
  BY <1>4, Numbers, Blank DEF Connect, Answering, Command, TypeInv, JobTypeOK, JobObject, IntObject, EngTypeOK,
     EngObject, Opening, HasCmd, Stations, Afters, Files, MailTypeOK, CmdObject, CardTypeOK
<1>5. CASE Disconnect
  BY <1>5, Numbers, Blank DEF Disconnect, Answering, Command, TypeInv, JobTypeOK, JobObject, IntObject, EngTypeOK,
     EngObject, Opening, HasCmd, Stations, Afters, Files, MailTypeOK, CmdObject, CardTypeOK
<1>6. CASE Discard
  BY <1>6, Numbers, Blank DEF Discard, NoInt, Command, TypeInv, JobTypeOK, JobObject, IntObject, EngTypeOK,
     EngObject, Opening, HasCmd, Stations, Afters, Files, MailTypeOK, CmdObject, CardTypeOK
<1>7. CASE Claim
  BY <1>7, Numbers, Blank DEF Claim, Answering, TypeInv, JobTypeOK, JobObject, IntObject, EngTypeOK, EngObject,
     Opening, HasCmd, Stations, Afters, Files, MailTypeOK, CmdObject, CardTypeOK
<1>8. CASE OpenFails
  BY <1>8, Numbers, Blank DEF OpenFails, Waiting, Taken, SetError, TypeInv, JobTypeOK, JobObject, IntObject,
     EngTypeOK, EngObject, Opening, HasCmd, Stations, Afters, Files, MailTypeOK, CmdObject, CardTypeOK
<1>9. CASE Open
  BY <1>9, Numbers, Blank DEF Open, NoInt, NoRead, TypeInv, JobTypeOK, JobObject, IntObject, EngTypeOK, EngObject,
     Opening, HasCmd, Stations, Afters, Files, MailTypeOK, CmdObject, CardTypeOK
<1>10. CASE PauseOrResume
  BY <1>10, Numbers, Blank DEF PauseOrResume, Answering, Command, TypeInv, JobTypeOK, JobObject, IntObject,
     EngTypeOK, EngObject, Opening, HasCmd, Stations, Afters, Files, MailTypeOK, CmdObject, CardTypeOK
<1>11. CASE Stopped
  BY <1>11, Numbers, Blank DEF Stopped, TypeInv, JobTypeOK, JobObject, IntObject, EngTypeOK, EngObject, Opening,
     HasCmd, Stations, Afters, Files, MailTypeOK, CmdObject, CardTypeOK
<1>12. CASE Finished
  BY <1>12, Numbers, Blank DEF Finished, TypeInv, JobTypeOK, JobObject, IntObject, EngTypeOK, EngObject, Opening,
     HasCmd, Stations, Afters, Files, MailTypeOK, CmdObject, CardTypeOK
<1>13. CASE RecordEnd
  BY <1>13, Numbers, Blank DEF RecordEnd, TypeInv, JobTypeOK, JobObject, IntObject, EngTypeOK, EngObject, Opening,
     HasCmd, Stations, Afters, Files, MailTypeOK, CmdObject, CardTypeOK
<1>14. CASE AutoConnectTick
  BY <1>14, Numbers, Blank DEF AutoConnectTick, TypeInv, JobTypeOK, JobObject, IntObject, EngTypeOK, EngObject,
     Opening, HasCmd, Stations, Afters, Files, MailTypeOK, CmdObject, CardTypeOK
<1>15. CASE AutoResume
  BY <1>15, Numbers, Blank DEF AutoResume, TypeInv, JobTypeOK, JobObject, IntObject, EngTypeOK, EngObject, Opening,
     HasCmd, Stations, Afters, Files, MailTypeOK, CmdObject, CardTypeOK
<1>16. CASE PrintFails
  BY <1>16, Numbers, Blank DEF PrintFails, SetError, TypeInv, JobTypeOK, JobObject, IntObject, EngTypeOK, EngObject,
     Opening, HasCmd, Stations, Afters, Files, MailTypeOK, CmdObject, CardTypeOK
<1>17. CASE Restart
  BY <1>17, Numbers, Blank DEF Restart, NoJob, NoCmd, Idle, Waiting, NoRead, TypeInv, JobTypeOK, JobObject,
     IntObject, EngTypeOK, EngObject, Opening, HasCmd, Stations, Afters, Files, MailTypeOK, CmdObject, CardTypeOK
<1>18. ASSUME NEW type \in Types, NEW n \in Names \cup {None}, Post(type, n)
      PROVE  JobTypeOK'
  BY <1>18 DEF Post, cardVars, jobVars, bounds, TypeInv, JobTypeOK, JobObject, IntObject, EngTypeOK, EngObject,
     Opening, HasCmd, Stations, Afters, Files, MailTypeOK, CmdObject, CardTypeOK
<1>19. ASSUME NEW n \in Names, UploadBegin(n)
      PROVE  JobTypeOK'
  BY <1>19 DEF UploadBegin, jobVars, TypeInv, JobTypeOK, JobObject, IntObject, EngTypeOK, EngObject, Opening,
     HasCmd, Stations, Afters, Files, MailTypeOK, CmdObject, CardTypeOK
<1>20. ASSUME NEW n \in Names, DeleteLocks(n)
      PROVE  JobTypeOK'
  BY <1>20 DEF DeleteLocks, jobVars, bounds, TypeInv, JobTypeOK, JobObject, IntObject, EngTypeOK, EngObject,
     Opening, HasCmd, Stations, Afters, Files, MailTypeOK, CmdObject, CardTypeOK
<1>21. CASE PostAsync \/ Answered \/ Abandon \/ UploadWrite \/ UploadWritten \/ UploadChecked \/ UploadLocks \/
            UploadRemoves \/ UploadRenames \/ UploadDiscards \/ DeleteChecked \/ DeleteRemoves \/ AnswerLooks \/
            AnswerGives \/ Gcode \/ Executed \/ Discarded \/ NoPrint \/ Start \/ LookForFile \/ Begins \/ Stop \/
            PrintGcode \/ BusyPrinting \/ SendManual \/ ManualAcked \/ Fill \/ NextCell \/ ManualEnds \/ CloseFile
            \/ JournalEnd \/ JournalTick \/ LogGivesCard \/ TimedOut \/ UploadFails \/ FillBusy \/ LogTakesCard \/
            UNCHANGED vars
  BY <1>21 DEF PostAsync, Answered, Abandon, UploadWrite, UploadWritten, UploadChecked, UploadLocks, UploadRemoves,
     UploadRenames, UploadDiscards, DeleteChecked, DeleteRemoves, AnswerLooks, AnswerGives, Gcode, Executed,
     Discarded, NoPrint, Start, LookForFile, Begins, Stop, PrintGcode, BusyPrinting, SendManual, ManualAcked, Fill,
     NextCell, ManualEnds, CloseFile, JournalEnd, JournalTick, LogGivesCard, TimedOut, UploadFails, FillBusy,
     LogTakesCard, vars, cardVars, jobVars, bounds, TypeInv, JobTypeOK, JobObject, IntObject, EngTypeOK, EngObject,
     Opening, HasCmd, Stations, Afters, Files, MailTypeOK, CmdObject, CardTypeOK
<1> QED
  BY <1>1, <1>2, <1>3, <1>4, <1>5, <1>6, <1>7, <1>8, <1>9, <1>10, <1>11, <1>12, <1>13, <1>14, <1>15, <1>16, <1>17,
     <1>18, <1>19, <1>20, <1>21 DEF Next, Clients, Server, Engine, Faulty

\* Every step keeps the web server's task typed.
LEMMA HttpTyped ==
  ASSUME TypeInv, NumberLeft, [Next]_vars
  PROVE  HttpTypeOK'
<1>1. ASSUME NEW type \in Types, NEW n \in Names \cup {None}, Post(type, n)
      PROVE  HttpTypeOK'
  <2>1. NextCmd \in 0..MaxPosts
    BY <1>1, Numbers DEF Post, NumberLeft
  <2>2. [Idle EXCEPT !.at = "waits", !.c = NextCmd] \in HttpObject
    BY <2>1, AtRest DEF HttpObject
  <2> QED
    BY <1>1, <2>2, AtRest DEF Post, HttpTypeOK, HttpObject, WithFile
<1>2. CASE TakeSlot
  BY <1>2, Numbers, AtRest DEF TakeSlot, Idle, NextCmd, TypeInv, HttpTypeOK, HttpObject, WithFile, NumberLeft,
     Files, HistTypeOK
<1>3. ASSUME NEW n \in Names, UploadBegin(n)
      PROVE  HttpTypeOK'
  <2>1. [name |-> n, ver |-> uploads + 2] \in Files
    BY <1>3, Numbers DEF UploadBegin, TypeInv, HistTypeOK, Half, Files
  <2>2. http' \in HttpObject
    BY <1>3, <2>1, AtRest DEF UploadBegin, HttpObject, WithFile
  <2>3. http'.file.name = n
    BY <1>3, AtRest DEF UploadBegin, HttpObject
  <2> QED
    BY <2>2, <2>3 DEF HttpTypeOK
<1>4. ASSUME NEW n \in Names, DeleteLocks(n)
      PROVE  HttpTypeOK'
  <2>1. [name |-> n, ver |-> 0] \in Files
    BY Numbers DEF Files
  <2>2. http' \in HttpObject
    BY <1>4, <2>1, AtRest DEF DeleteLocks, HttpObject, WithFile
  <2>3. http'.file.name = n
    BY <1>4, AtRest DEF DeleteLocks, HttpObject
  <2> QED
    BY <2>2, <2>3 DEF HttpTypeOK
<1>5. CASE PostAsync
  BY <1>5, Numbers, AtRest DEF PostAsync, Idle, NewCmd, NextCmd, TypeInv, HttpTypeOK, HttpObject, WithFile,
     NumberLeft, Files, HistTypeOK
<1>6. CASE AsyncRefused
  BY <1>6, Numbers, AtRest DEF AsyncRefused, Idle, TypeInv, HttpTypeOK, HttpObject, WithFile, NumberLeft, Files,
     HistTypeOK
<1>7. CASE Answered
  BY <1>7, Numbers, AtRest DEF Answered, Idle, TypeInv, HttpTypeOK, HttpObject, WithFile, NumberLeft, Files,
     HistTypeOK
<1>8. CASE Abandon
  BY <1>8, Numbers, AtRest DEF Abandon, Idle, Giving, TypeInv, HttpTypeOK, HttpObject, WithFile, NumberLeft, Files,
     HistTypeOK
<1>9. CASE UploadWrite
  BY <1>9, Numbers, AtRest DEF UploadWrite, TypeInv, HttpTypeOK, HttpObject, WithFile, NumberLeft, Files, HistTypeOK
<1>10. CASE UploadWritten
  BY <1>10, Numbers, AtRest DEF UploadWritten, GiveCard, TypeInv, HttpTypeOK, HttpObject, WithFile, NumberLeft,
     Files, HistTypeOK
<1>11. CASE UploadChecked
  BY <1>11, Numbers, AtRest DEF UploadChecked, FileInUse, LastLook, TypeInv, HttpTypeOK, HttpObject, WithFile,
     NumberLeft, Files, HistTypeOK
<1>12. CASE UploadLocks
  BY <1>12, Numbers, AtRest DEF UploadLocks, Taken, TypeInv, HttpTypeOK, HttpObject, WithFile, NumberLeft, Files,
     HistTypeOK
<1>13. CASE UploadRemoves
  BY <1>13, Numbers, AtRest DEF UploadRemoves, TypeInv, HttpTypeOK, HttpObject, WithFile, NumberLeft, Files,
     HistTypeOK
<1>14. CASE UploadRenames
  BY <1>14, Numbers, AtRest DEF UploadRenames, Half, NoTmp, Idle, GiveCard, TypeInv, HttpTypeOK, HttpObject,
     WithFile, NumberLeft, Files, HistTypeOK
<1>15. CASE UploadDiscards
  BY <1>15, Numbers, AtRest DEF UploadDiscards, NoTmp, Idle, GiveCard, TypeInv, HttpTypeOK, HttpObject, WithFile,
     NumberLeft, Files, HistTypeOK
<1>16. CASE DeleteChecked
  BY <1>16, Numbers, AtRest DEF DeleteChecked, Idle, FileInUse, GiveCard, LastLook, TypeInv, HttpTypeOK, HttpObject,
     WithFile, NumberLeft, Files, HistTypeOK
<1>17. CASE DeleteRemoves
  BY <1>17, Numbers, AtRest DEF DeleteRemoves, Idle, GiveCard, TypeInv, HttpTypeOK, HttpObject, WithFile,
     NumberLeft, Files, HistTypeOK
<1>18. CASE TimedOut
  BY <1>18, Numbers, AtRest DEF TimedOut, TypeInv, HttpTypeOK, HttpObject, WithFile, NumberLeft, Files, HistTypeOK
<1>19. CASE UploadFails
  BY <1>19, Numbers, AtRest DEF UploadFails, GiveCard, TypeInv, HttpTypeOK, HttpObject, WithFile, NumberLeft, Files,
     HistTypeOK
<1>20. CASE Restart
  BY <1>20, Numbers, AtRest DEF Restart, NoJob, NoCmd, Idle, Waiting, NoRead, TypeInv, HttpTypeOK, HttpObject,
     WithFile, NumberLeft, Files, HistTypeOK
<1>21. CASE AnswerAsync \/ AnswerLooks \/ AnswerGives \/ Connect \/ Disconnect \/ Gcode \/ Executed \/ Discard \/
            Discarded \/ NoPrint \/ Start \/ LookForFile \/ Claim \/ OpenFails \/ Open \/ Begins \/ PauseOrResume \/
            Stop \/ Stopped \/ PrintGcode \/ BusyPrinting \/ SendManual \/ ManualAcked \/ Fill \/ NextCell \/
            Finished \/ ManualEnds \/ CloseFile \/ RecordEnd \/ JournalEnd \/ AutoConnectTick \/ AutoResume \/
            JournalTick \/ LogGivesCard \/ PrintFails \/ FillBusy \/ LogTakesCard \/ UNCHANGED vars
  BY <1>21 DEF AnswerAsync, AnswerLooks, AnswerGives, Connect, Disconnect, Gcode, Executed, Discard, Discarded,
     NoPrint, Start, LookForFile, Claim, OpenFails, Open, Begins, PauseOrResume, Stop, Stopped, PrintGcode,
     BusyPrinting, SendManual, ManualAcked, Fill, NextCell, Finished, ManualEnds, CloseFile, RecordEnd, JournalEnd,
     AutoConnectTick, AutoResume, JournalTick, LogGivesCard, PrintFails, FillBusy, LogTakesCard, vars, cardVars,
     jobVars, bounds, TypeInv, HttpTypeOK, HttpObject, WithFile, NumberLeft, Files, HistTypeOK
<1> QED
  BY <1>1, <1>2, <1>3, <1>4, <1>5, <1>6, <1>7, <1>8, <1>9, <1>10, <1>11, <1>12, <1>13, <1>14, <1>15, <1>16, <1>17,
     <1>18, <1>19, <1>20, <1>21 DEF Next, Clients, Server, Engine, Faulty

\* Every step keeps the engine's task typed.
LEMMA EngTyped ==
  ASSUME TypeInv, [Next]_vars
  PROVE  EngTypeOK'
<1>1. CASE AnswerAsync
  BY <1>1, Numbers, AtRest, Heads DEF AnswerAsync, TypeInv, EngTypeOK, EngObject, Opening, HasCmd, Stations, Afters,
     Files, MailTypeOK, CmdObject, JobTypeOK, IntObject, CardTypeOK
<1>2. CASE AnswerLooks
  <2>1. eng' \in EngObject
    <3>1. CASE eng' = [eng EXCEPT !.at = "gives"]
      BY <3>1 DEF TypeInv, EngTypeOK, EngObject, Stations
    <3>2. CASE eng' = [eng EXCEPT !.at = eng.then, !.c = 0]
      <4>1. eng \in EngObject /\ eng.then \in Stations /\ 0 \in 0..MaxPosts
        BY Numbers DEF TypeInv, EngTypeOK, EngObject, Stations, Afters
      <4> QED
        BY <3>2, <4>1 DEF EngObject
    <3> QED
      BY <1>2, <3>1, <3>2 DEF AnswerLooks
  <2>2. eng'.at \in {"gives", eng.then} /\ eng'.then = eng.then /\ eng'.file = eng.file
    BY <1>2 DEF AnswerLooks, TypeInv, EngTypeOK, EngObject
  <2> QED
    BY <1>2, <2>1, <2>2 DEF AnswerLooks, TypeInv, EngTypeOK, EngObject, Opening, HasCmd, Stations, Afters
<1>3. CASE AnswerGives
  BY <1>3, Numbers, AtRest, Heads DEF AnswerGives, TypeInv, EngTypeOK, EngObject, Opening, HasCmd, Stations, Afters,
     Files, MailTypeOK, CmdObject, JobTypeOK, IntObject, CardTypeOK
<1>4. CASE Connect
  BY <1>4, AnsweringEngine, TakenTyped DEF Connect, TypeInv
<1>5. CASE Disconnect
  BY <1>5, AnsweringEngine, TakenTyped DEF Disconnect, TypeInv
<1>6. CASE Gcode
  <2>1. CASE eng' = [eng EXCEPT !.at = "executes", !.c = Head(cmdQ)]
    <3>1. Head(cmdQ) \in 0..MaxPosts
      BY <1>6, TakenTyped DEF Gcode, TypeInv
    <3>2. eng' \in EngObject /\ eng'.at = "executes" /\ eng'.c = Head(cmdQ)
      BY <2>1, <3>1 DEF TypeInv, EngTypeOK, EngObject, Stations
    <3> QED
      BY <1>6, <3>2, TakenTyped DEF Gcode, TypeInv, EngTypeOK, Opening, HasCmd
  <2>2. CASE Answering(Head(cmdQ), FALSE, "loop")
    BY <1>6, <2>2, AnsweringEngine, TakenTyped DEF Gcode, TypeInv
  <2> QED
    BY <1>6, <2>1, <2>2 DEF Gcode
<1>7. CASE Executed
  BY <1>7, Numbers, AtRest, Heads DEF Executed, Answering, TypeInv, EngTypeOK, EngObject, Opening, HasCmd, Stations,
     Afters, Files, MailTypeOK, CmdObject, JobTypeOK, IntObject, CardTypeOK
<1>8. CASE Discard
  <2>1. Head(cmdQ) \in 0..MaxPosts /\ Head(cmdQ) # 0
    BY <1>8, TakenTyped DEF Discard, TypeInv
  <2>2. [name |-> gInt.name, ver |-> gInt.ver] \in Files
    BY DEF TypeInv, JobTypeOK, IntObject, Files
  <2>3. "discards" \in Stations
    BY DEF Stations
  <2>4. eng' \in EngObject
    BY <1>8, <2>1, <2>2, <2>3, OnItsWay DEF Discard, TypeInv, EngTypeOK
  <2>5. eng'.at = "discards" /\ eng'.c # 0
    BY <1>8, <2>1 DEF Discard, TypeInv, EngTypeOK, EngObject
  <2> QED
    BY <2>4, <2>5 DEF EngTypeOK, Opening, HasCmd
<1>9. CASE Discarded
  BY <1>9, Numbers, AtRest, Heads DEF Discarded, NoFile, Answering, JournalWrite, TypeInv, EngTypeOK, EngObject,
     Opening, HasCmd, Stations, Afters, Files, MailTypeOK, CmdObject, JobTypeOK, IntObject, CardTypeOK
<1>10. CASE NoPrint
  BY <1>10, AnsweringEngine, TakenTyped DEF NoPrint, TypeInv
<1>11. CASE Start
  <2>1. Head(cmdQ) \in 1..MaxPosts
    BY <1>11, TakenTyped DEF Start, TypeInv
  <2>2. CASE Answering(Head(cmdQ), FALSE, "loop")
    BY <2>1, <2>2, AnsweringEngine DEF TypeInv
  <2>3. ASSUME NEW name \in Names,
               eng' = [eng EXCEPT !.at = "looks", !.c = Head(cmdQ), !.file = [name |-> name, ver |-> 0]]
        PROVE  EngTypeOK'
    <3>1. [name |-> name, ver |-> 0] \in Files
      BY Numbers DEF Files
    <3>2. "looks" \in Stations /\ Head(cmdQ) \in 0..MaxPosts
      BY <2>1 DEF Stations
    <3>3. eng' \in EngObject
      BY <2>3, <3>1, <3>2, OnItsWay DEF TypeInv, EngTypeOK
    <3>4. eng'.file = [name |-> name, ver |-> 0] /\ eng'.at = "looks" /\ eng'.c # 0
      BY <2>1, <2>3 DEF TypeInv, EngTypeOK, EngObject
    <3> QED
      BY <3>3, <3>4 DEF EngTypeOK, HasCmd
  <2>4. cmd[Head(cmdQ)].name \in Names \cup {None} /\ gInt.name \in Names \cup {None}
    BY <2>1 DEF TypeInv, MailTypeOK, CmdObject, JobTypeOK, IntObject
  <2> QED
    BY <1>11, <2>2, <2>3, <2>4 DEF Start
<1>12. CASE LookForFile
  BY <1>12, Numbers, AtRest, Heads DEF LookForFile, Taken, Answering, TypeInv, EngTypeOK, EngObject, Opening,
     HasCmd, Stations, Afters, Files, MailTypeOK, CmdObject, JobTypeOK, IntObject, CardTypeOK
<1>13. CASE Claim
  BY <1>13, Numbers, AtRest, Heads DEF Claim, Answering, TypeInv, EngTypeOK, EngObject, Opening, HasCmd, Stations,
     Afters, Files, MailTypeOK, CmdObject, JobTypeOK, IntObject, CardTypeOK
<1>14. CASE OpenFails
  BY <1>14, Numbers, AtRest, Heads DEF OpenFails, Waiting, Taken, SetError, TypeInv, EngTypeOK, EngObject, Opening,
     HasCmd, Stations, Afters, Files, MailTypeOK, CmdObject, JobTypeOK, IntObject, CardTypeOK
<1>15. CASE Open
  BY <1>15, Numbers, AtRest, Heads DEF Open, NoInt, NoRead, TypeInv, EngTypeOK, EngObject, Opening, HasCmd,
     Stations, Afters, Files, MailTypeOK, CmdObject, JobTypeOK, IntObject, CardTypeOK
<1>16. CASE Begins
  BY <1>16, Numbers, AtRest, Heads DEF Begins, JournalWrite, TypeInv, EngTypeOK, EngObject, Opening, HasCmd,
     Stations, Afters, Files, MailTypeOK, CmdObject, JobTypeOK, IntObject, CardTypeOK
<1>17. CASE PauseOrResume
  BY <1>17, AnsweringEngine, TakenTyped DEF PauseOrResume, TypeInv
<1>18. CASE Stop
  BY <1>18, AnsweringEngine, TakenTyped DEF Stop, TypeInv
<1>19. CASE Stopped
  BY <1>19, Numbers, AtRest, Heads DEF Stopped, TypeInv, EngTypeOK, EngObject, Opening, HasCmd, Stations, Afters,
     Files, MailTypeOK, CmdObject, JobTypeOK, IntObject, CardTypeOK
<1>20. CASE PrintGcode
  <2>1. CASE eng' = [eng EXCEPT !.man = Head(cmdQ), !.sent = FALSE]
    <3>1. Head(cmdQ) \in 0..MaxPosts
      BY <1>20, TakenTyped DEF PrintGcode, TypeInv
    <3> QED
      BY <1>20, <2>1, <3>1 DEF PrintGcode, TypeInv, EngTypeOK, EngObject, Opening, HasCmd, Stations, Afters
  <2>2. CASE Answering(Head(cmdQ), FALSE, "prints")
    BY <1>20, <2>2, AnsweringEngine, TakenTyped DEF PrintGcode, TypeInv
  <2> QED
    BY <1>20, <2>1, <2>2 DEF PrintGcode
<1>21. CASE BusyPrinting
  BY <1>21, AnsweringEngine, TakenTyped DEF BusyPrinting, TypeInv
<1>22. CASE SendManual
  <2>1. eng' \in EngObject
    <3>1. CASE eng' = [eng EXCEPT !.man = 0]
      BY <3>1, Numbers DEF TypeInv, EngTypeOK, EngObject
    <3>2. CASE eng' = [eng EXCEPT !.sent = TRUE]
      BY <3>2 DEF TypeInv, EngTypeOK, EngObject
    <3> QED
      BY <1>22, <3>1, <3>2 DEF SendManual
  <2>2. eng'.at = "prints" /\ eng'.c = eng.c /\ eng.at = "prints"
    BY <1>22 DEF SendManual, TypeInv, EngTypeOK, EngObject
  <2> QED
    BY <2>1, <2>2 DEF TypeInv, EngTypeOK, Opening, HasCmd
<1>23. CASE ManualAcked
  BY <1>23, Numbers, AtRest, Heads DEF ManualAcked, TypeInv, EngTypeOK, EngObject, Opening, HasCmd, Stations,
     Afters, Files, MailTypeOK, CmdObject, JobTypeOK, IntObject, CardTypeOK
<1>24. CASE Finished
  BY <1>24, Numbers, AtRest, Heads DEF Finished, TypeInv, EngTypeOK, EngObject, Opening, HasCmd, Stations, Afters,
     Files, MailTypeOK, CmdObject, JobTypeOK, IntObject, CardTypeOK
<1>25. CASE ManualEnds
  BY <1>25, Numbers, AtRest, Heads DEF ManualEnds, TypeInv, EngTypeOK, EngObject, Opening, HasCmd, Stations, Afters,
     Files, MailTypeOK, CmdObject, JobTypeOK, IntObject, CardTypeOK
<1>26. CASE CloseFile
  BY <1>26, Numbers, AtRest, Heads DEF CloseFile, Taken, TypeInv, EngTypeOK, EngObject, Opening, HasCmd, Stations,
     Afters, Files, MailTypeOK, CmdObject, JobTypeOK, IntObject, CardTypeOK
<1>27. CASE RecordEnd
  BY <1>27, Numbers, AtRest, Heads DEF RecordEnd, TypeInv, EngTypeOK, EngObject, Opening, HasCmd, Stations, Afters,
     Files, MailTypeOK, CmdObject, JobTypeOK, IntObject, CardTypeOK
<1>28. CASE JournalEnd
  BY <1>28, Numbers, AtRest, Heads DEF JournalEnd, NoFile, Waiting, NoRead, JournalWrite, TypeInv, EngTypeOK,
     EngObject, Opening, HasCmd, Stations, Afters, Files, MailTypeOK, CmdObject, JobTypeOK, IntObject, CardTypeOK
<1>29. CASE AutoResume
  <2>1. gInt.name \in Names
    BY <1>29 DEF AutoResume, TypeInv, JobTypeOK
  <2>2. [name |-> gInt.name, ver |-> 0] \in Files
    BY <2>1, Numbers DEF Files
  <2>3. eng' \in EngObject /\ eng'.file = [name |-> gInt.name, ver |-> 0]
    BY <1>29, <2>2 DEF AutoResume, TypeInv, EngTypeOK, EngObject, Stations
  <2> QED
    BY <1>29, <2>1, <2>3 DEF AutoResume, TypeInv, EngTypeOK, HasCmd
<1>30. CASE PrintFails
  BY <1>30, Numbers, AtRest, Heads DEF PrintFails, SetError, TypeInv, EngTypeOK, EngObject, Opening, HasCmd,
     Stations, Afters, Files, MailTypeOK, CmdObject, JobTypeOK, IntObject, CardTypeOK
<1>31. CASE Restart
  BY <1>31, Numbers, AtRest, Heads DEF Restart, NoJob, NoCmd, Idle, Waiting, NoRead, TypeInv, EngTypeOK, EngObject,
     Opening, HasCmd, Stations, Afters, Files, MailTypeOK, CmdObject, JobTypeOK, IntObject, CardTypeOK
<1>32. ASSUME NEW type \in Types, NEW n \in Names \cup {None}, Post(type, n)
      PROVE  EngTypeOK'
  BY <1>32 DEF Post, cardVars, jobVars, bounds, TypeInv, EngTypeOK, EngObject, Opening, HasCmd, Stations, Afters,
     Files, MailTypeOK, CmdObject, JobTypeOK, IntObject, CardTypeOK
<1>33. ASSUME NEW n \in Names, UploadBegin(n)
      PROVE  EngTypeOK'
  BY <1>33 DEF UploadBegin, jobVars, TypeInv, EngTypeOK, EngObject, Opening, HasCmd, Stations, Afters, Files,
     MailTypeOK, CmdObject, JobTypeOK, IntObject, CardTypeOK
<1>34. ASSUME NEW n \in Names, DeleteLocks(n)
      PROVE  EngTypeOK'
  BY <1>34 DEF DeleteLocks, jobVars, bounds, TypeInv, EngTypeOK, EngObject, Opening, HasCmd, Stations, Afters,
     Files, MailTypeOK, CmdObject, JobTypeOK, IntObject, CardTypeOK
<1>35. CASE TakeSlot \/ PostAsync \/ AsyncRefused \/ Answered \/ Abandon \/ UploadWrite \/ UploadWritten \/
            UploadChecked \/ UploadLocks \/ UploadRemoves \/ UploadRenames \/ UploadDiscards \/ DeleteChecked \/
            DeleteRemoves \/ Fill \/ NextCell \/ AutoConnectTick \/ JournalTick \/ LogGivesCard \/ TimedOut \/
            UploadFails \/ FillBusy \/ LogTakesCard \/ UNCHANGED vars
  BY <1>35 DEF TakeSlot, PostAsync, AsyncRefused, Answered, Abandon, UploadWrite, UploadWritten, UploadChecked,
     UploadLocks, UploadRemoves, UploadRenames, UploadDiscards, DeleteChecked, DeleteRemoves, Fill, NextCell,
     AutoConnectTick, JournalTick, LogGivesCard, TimedOut, UploadFails, FillBusy, LogTakesCard, vars, cardVars,
     jobVars, bounds, TypeInv, EngTypeOK, EngObject, Opening, HasCmd, Stations, Afters, Files, MailTypeOK,
     CmdObject, JobTypeOK, IntObject, CardTypeOK
<1> QED
  BY <1>1, <1>2, <1>3, <1>4, <1>5, <1>6, <1>7, <1>8, <1>9, <1>10, <1>11, <1>12, <1>13, <1>14, <1>15, <1>16, <1>17,
     <1>18, <1>19, <1>20, <1>21, <1>22, <1>23, <1>24, <1>25, <1>26, <1>27, <1>28, <1>29, <1>30, <1>31, <1>32, <1>33,
     <1>34, <1>35 DEF Next, Clients, Server, Engine, Faulty

\* Every step keeps the reader typed.
LEMMA ReadTyped ==
  ASSUME TypeInv, [Next]_vars
  PROVE  ReadTypeOK'
<1>1. CASE Open
  BY <1>1, Numbers, Blank DEF Open, NoInt, NoRead, TypeInv, ReadTypeOK, ReadObject
<1>2. CASE Fill
  <2>1. rd.next \in 1..(Cells + 1)
    BY DEF TypeInv, ReadTypeOK, ReadObject
  <2>2. CASE rd.next > Cells
    <3>1. rd' = [rd EXCEPT !.eof = TRUE, !.fed = Cells, !.from = rd.next]
      BY <1>2, <2>2 DEF Fill
    <3>2. Cells \in 0..Cells /\ rd.next \in 1..(Cells + 1)
      BY <2>1, Numbers
    <3>3. rd' \in ReadObject
      BY <3>1, <3>2 DEF TypeInv, ReadTypeOK, ReadObject
    <3>4. rd'.buf = rd.buf /\ rd'.next = rd.next
      BY <3>1 DEF TypeInv, ReadTypeOK, ReadObject
    <3> QED
      BY <3>3, <3>4 DEF TypeInv, ReadTypeOK
  <2>3. CASE ~(rd.next > Cells)
    <3>1. PICK n \in 0..BufCells : n + rd.next <= Cells + 1 /\ rd' = [rd EXCEPT !.buf = n]
      <4>1. Min2(BufCells, Cells - rd.next + 1) \in 0..BufCells
            /\ Min2(BufCells, Cells - rd.next + 1) + rd.next <= Cells + 1
        BY <2>1, <2>3, Numbers DEF Min2
      <4>2. rd' = [rd EXCEPT !.buf = Min2(BufCells, Cells - rd.next + 1)]
        BY <1>2, <2>3 DEF Fill
      <4> QED
        BY <4>1, <4>2
    <3> QED
      BY <3>1 DEF TypeInv, ReadTypeOK, ReadObject
  <2> QED
    BY <2>2, <2>3
<1>3. CASE NextCell
  <2>1. rd.next \in 1..(Cells + 1) /\ rd.buf \in 0..BufCells /\ rd.buf > 0 /\ rd.buf + rd.next <= Cells + 1
    BY <1>3 DEF NextCell, TypeInv, ReadTypeOK, ReadObject
  <2>2. rd.next + 1 \in 1..(Cells + 1) /\ rd.next \in 0..Cells /\ rd.buf - 1 \in 0..BufCells
        /\ (rd.buf - 1) + (rd.next + 1) <= Cells + 1
    BY <2>1, Numbers
  <2>3. PICK fed \in 0..Cells, from \in 1..(Cells + 1) :
               rd' = [rd EXCEPT !.next = rd.next + 1, !.buf = rd.buf - 1, !.fed = fed, !.from = from]
    BY <1>3, <2>2 DEF NextCell, TypeInv, ReadTypeOK, ReadObject
  <2> QED
    BY <2>2, <2>3 DEF TypeInv, ReadTypeOK, ReadObject
<1>4. CASE JournalEnd
  BY <1>4, Numbers, Blank DEF JournalEnd, NoFile, Waiting, NoRead, JournalWrite, TypeInv, ReadTypeOK, ReadObject
<1>5. CASE FillBusy
  BY <1>5, Numbers, Blank DEF FillBusy, Taken, TypeInv, ReadTypeOK, ReadObject
<1>6. CASE Restart
  BY <1>6, Numbers, Blank DEF Restart, NoJob, NoCmd, Idle, Waiting, NoRead, TypeInv, ReadTypeOK, ReadObject
<1>7. ASSUME NEW type \in Types, NEW n \in Names \cup {None}, Post(type, n)
      PROVE  ReadTypeOK'
  BY <1>7 DEF Post, cardVars, jobVars, bounds, TypeInv, ReadTypeOK, ReadObject
<1>8. ASSUME NEW n \in Names, UploadBegin(n)
      PROVE  ReadTypeOK'
  BY <1>8 DEF UploadBegin, jobVars, TypeInv, ReadTypeOK, ReadObject
<1>9. ASSUME NEW n \in Names, DeleteLocks(n)
      PROVE  ReadTypeOK'
  BY <1>9 DEF DeleteLocks, jobVars, bounds, TypeInv, ReadTypeOK, ReadObject
<1>10. CASE TakeSlot \/ PostAsync \/ AsyncRefused \/ Answered \/ Abandon \/ UploadWrite \/ UploadWritten \/
            UploadChecked \/ UploadLocks \/ UploadRemoves \/ UploadRenames \/ UploadDiscards \/ DeleteChecked \/
            DeleteRemoves \/ AnswerAsync \/ AnswerLooks \/ AnswerGives \/ Connect \/ Disconnect \/ Gcode \/ Executed
            \/ Discard \/ Discarded \/ NoPrint \/ Start \/ LookForFile \/ Claim \/ OpenFails \/ Begins \/
            PauseOrResume \/ Stop \/ Stopped \/ PrintGcode \/ BusyPrinting \/ SendManual \/ ManualAcked \/ Finished
            \/ ManualEnds \/ CloseFile \/ RecordEnd \/ AutoConnectTick \/ AutoResume \/ JournalTick \/ LogGivesCard
            \/ TimedOut \/ UploadFails \/ PrintFails \/ LogTakesCard \/ UNCHANGED vars
  BY <1>10 DEF TakeSlot, PostAsync, AsyncRefused, Answered, Abandon, UploadWrite, UploadWritten, UploadChecked,
     UploadLocks, UploadRemoves, UploadRenames, UploadDiscards, DeleteChecked, DeleteRemoves, AnswerAsync,
     AnswerLooks, AnswerGives, Connect, Disconnect, Gcode, Executed, Discard, Discarded, NoPrint, Start,
     LookForFile, Claim, OpenFails, Begins, PauseOrResume, Stop, Stopped, PrintGcode, BusyPrinting, SendManual,
     ManualAcked, Finished, ManualEnds, CloseFile, RecordEnd, AutoConnectTick, AutoResume, JournalTick,
     LogGivesCard, TimedOut, UploadFails, PrintFails, LogTakesCard, vars, cardVars, jobVars, bounds, TypeInv,
     ReadTypeOK, ReadObject
<1> QED
  BY <1>1, <1>2, <1>3, <1>4, <1>5, <1>6, <1>7, <1>8, <1>9, <1>10 DEF Next, Clients, Server, Engine, Faulty

\* Every step keeps all of the types.
LEMMA TypesKept ==
  ASSUME TypeInv, NumberLeft, [Next]_vars
  PROVE  TypeInv'
  BY CardTyped, HistTyped, MailTyped, JobTyped, HttpTyped, EngTyped, ReadTyped DEF TypeInv

\* The board starts typed.
LEMMA TypesBegin == Init => TypeInv
<1> SUFFICES ASSUME Init PROVE TypeInv
  OBVIOUS
<1>1. CardTypeOK /\ HistTypeOK
  BY Blank, Numbers DEF Init, CardTypeOK, HistTypeOK, Half
<1>2. MailTypeOK
  BY Blank, Numbers DEF Init, MailTypeOK
<1>3. JobTypeOK
  BY Blank DEF Init, JobTypeOK
<1>4. HttpTypeOK
  BY AtRest DEF Init, HttpTypeOK, WithFile
<1>5. EngTypeOK
  BY AtRest DEF Init, EngTypeOK, Opening, HasCmd
<1>6. ReadTypeOK
  BY Blank DEF Init, ReadTypeOK
<1> QED
  BY <1>1, <1>2, <1>3, <1>4, <1>5, <1>6 DEF TypeInv

-----------------------------------------------------------------------------
(* The invariant *)

Queued == {cmdQ[i] : i \in 1..Len(cmdQ)}

\* The commands the engine has: queued, in work, or waiting for the printer.
Hands == Queued \cup ({eng.c, eng.man} \ {0})

\* Each of them in one place.
NoTwice == \A i, j \in 1..Len(cmdQ) : cmdQ[i] = cmdQ[j] => i = j
Parted  == NoTwice /\ eng.c \notin Queued /\ eng.man \notin Queued /\ (eng.c # 0 => eng.c # eng.man)

\* A command waits for the printer only during a print, or while one is answered in the course of it.
Loops == {"prints", "stops", "closing"}
ManualPlace == eng.man # 0 => \/ eng.at \in Loops
                              \/ eng.at \in {"answers", "gives"} /\ eng.then \in Loops

\* The client has a command in hand exactly while it waits or is about to give up.
Waits == {"waits", "gives up"}
ClientPlace == http.c # 0 <=> http.at \in Waits

\* What the engine has is alive and not answered; it has a client, or is asynchronous, or was given up, and given up
\* too late only while the engine answers it.
EngineHas(c) ==
    c \in Hands => /\ cmd[c].mem = "live" /\ ~cmd[c].done
                   /\ cmd[c].async = 0 /\ cmd[c].abandoned = "no" => http.c = c
                   /\ cmd[c].abandoned = "too late" => eng.at = "gives" /\ eng.c = c

\* What a client waits for is alive, and answered or on its way to be.
ClientHas(c) ==
    http.c = c => /\ cmd[c].mem = "live" /\ cmd[c].abandoned = "no" /\ cmd[c].async = 0
                  /\ cmd[c].done \/ c \in Hands

\* What nobody has is freed, or was given up too late.
NobodyHas(c) == cmd[c].mem = "live" /\ c \notin Hands /\ http.c # c => cmd[c].abandoned = "too late"

\* Nobody gives up an asynchronous command.
AsyncKept(c) == cmd[c].async # 0 => cmd[c].abandoned = "no"

CmdInv == \A c \in 1..MaxPosts : EngineHas(c) /\ ClientHas(c) /\ NobodyHas(c) /\ AsyncKept(c)

\* The engine gives only what it found not abandoned.
GivenUp == eng.at = "gives" => cmd[eng.c].abandoned # "yes" /\ cmd[eng.c].async = 0

\* The slot is taken from before its command is posted until the command is answered.
Free(c) == c \in Hands => cmd[c].async = 0
JobInv ==
    /\ http.at = "async" => ~gJob.done
    /\ ~gJob.done => gJob.id # 0
    /\ gJob.done \/ http.at = "async" => \A c \in 1..MaxPosts : Free(c)
    /\ ~gJob.done /\ http.at # "async" =>
          \E c \in 1..MaxPosts : /\ c \in Hands /\ cmd[c].async = gJob.id
                                 /\ \A d \in 1..MaxPosts : d # c => Free(d)

\* The commands posted are the first ones, and there is a number left for one whose slot is taken.
Numbered == Posted = 1..(NextCmd - 1) /\ NumberLeft

MailInv  == Parted /\ ManualPlace /\ ClientPlace /\ CmdInv /\ GivenUp /\ JobInv /\ Numbered
BoardInv == TypeInv /\ MailInv

-----------------------------------------------------------------------------
(* The kinds of step *)

\* What the two sides decide by stays as it is.
SameCmds == \A c \in 1..MaxPosts : /\ cmd'[c].mem = cmd[c].mem /\ cmd'[c].async = cmd[c].async
                                   /\ cmd'[c].abandoned = cmd[c].abandoned /\ cmd'[c].done = cmd[c].done

\* Neither task touches a command.
Aside == UNCHANGED <<cmdQ, cmd, gJob, http, eng>>
HttpWorks ==
    /\ UNCHANGED <<cmdQ, cmd, gJob, eng>>
    /\ http.at \notin Waits \cup {"async"} /\ http'.at \notin Waits \cup {"async"} /\ http'.c = http.c

\* The engine has what it had, in another place perhaps, and with another result.
EngineKeeps ==
    /\ Hands' = Hands /\ SameCmds /\ UNCHANGED <<http, gJob>>
    /\ eng.at # "gives" /\ eng'.at # "gives"

\* It finds the command not abandoned, ...
EngineLooks ==
    /\ Hands' = Hands /\ UNCHANGED <<cmd, http, gJob>>
    /\ eng.at # "gives" /\ eng.c # 0 /\ cmd[eng.c].abandoned = "no" /\ cmd[eng.c].async = 0 /\ eng'.c = eng.c

\* ... answers it, ...
EngineGives ==
    /\ eng.at = "gives" /\ eng'.at # "gives" /\ eng.c \in Hands
    /\ Hands' = Hands \ {eng.c} /\ UNCHANGED <<http, gJob>>
    /\ cmd' = [cmd EXCEPT ![eng.c].done = TRUE]

\* ... or frees it: abandoned, or asynchronous and done.
EngineFrees(c) ==
    /\ eng.at # "gives" /\ eng'.at # "gives" /\ c \in Hands
    /\ Hands' = Hands \ {c} /\ UNCHANGED http
    /\ cmd' = [cmd EXCEPT ![c].mem = "freed"]
    /\ \/ cmd[c].async = 0 /\ cmd[c].abandoned # "no" /\ UNCHANGED gJob
       \/ cmd[c].async # 0 /\ gJob'.done

EngineStep == EngineKeeps \/ EngineLooks \/ EngineGives \/ \E c \in 1..MaxPosts : EngineFrees(c)

-----------------------------------------------------------------------------
(* The queue and the engine's hands *)

\* What is posted is queued.
LEMMA QueuedMore ==
  ASSUME NEW c, cmdQ \in Seq(1..MaxPosts), cmdQ' = Append(cmdQ, c), c \in 1..MaxPosts
  PROVE  /\ Queued' = Queued \cup {c}
         /\ NoTwice /\ c \notin Queued => NoTwice'
<1>1. Len(cmdQ') = Len(cmdQ) + 1 /\ Len(cmdQ) \in Nat /\ cmdQ'[Len(cmdQ) + 1] = c
  OBVIOUS
<1>2. \A i \in 1..Len(cmdQ) : cmdQ'[i] = cmdQ[i]
  OBVIOUS
<1>3. Queued' = Queued \cup {c}
  BY <1>1, <1>2 DEF Queued
<1>4. ASSUME NoTwice, c \notin Queued
      PROVE  NoTwice'
  BY <1>1, <1>2, <1>4 DEF NoTwice, Queued
<1> QED
  BY <1>3, <1>4

\* What is taken out was queued, in one place.
LEMMA QueuedLess ==
  ASSUME cmdQ \in Seq(1..MaxPosts), cmdQ # <<>>, cmdQ' = Tail(cmdQ), NoTwice
  PROVE  Head(cmdQ) \in Queued /\ Queued' = Queued \ {Head(cmdQ)} /\ NoTwice'
<1>1. Len(cmdQ') = Len(cmdQ) - 1 /\ Len(cmdQ) \in Nat /\ Len(cmdQ) >= 1 /\ Head(cmdQ) = cmdQ[1]
  OBVIOUS
<1>2. \A i \in 1..(Len(cmdQ) - 1) : cmdQ'[i] = cmdQ[i + 1]
  OBVIOUS
<1>3. Head(cmdQ) \in Queued
  BY <1>1 DEF Queued
<1>4. NoTwice'
  BY <1>1, <1>2 DEF NoTwice
<1>5. ASSUME NEW x \in Queued', x # Head(cmdQ) \/ TRUE
      PROVE  x \in Queued /\ x # Head(cmdQ)
  <2>1. PICK i \in 1..(Len(cmdQ) - 1) : x = cmdQ[i + 1]
    BY <1>1, <1>2, <1>5 DEF Queued
  <2>2. i + 1 \in 1..Len(cmdQ) /\ 1 \in 1..Len(cmdQ) /\ i + 1 # 1
    BY <1>1
  <2> QED
    BY <1>1, <2>1, <2>2 DEF Queued, NoTwice
<1>6. ASSUME NEW x \in Queued, x # Head(cmdQ)
      PROVE  x \in Queued'
  <2>1. PICK i \in 1..Len(cmdQ) : x = cmdQ[i]
    BY DEF Queued
  <2>2. i # 1 /\ i - 1 \in 1..(Len(cmdQ) - 1) /\ (i - 1) + 1 = i
    BY <1>1, <1>6, <2>1
  <2> QED
    BY <1>1, <1>2, <2>1, <2>2 DEF Queued
<1> QED
  BY <1>3, <1>4, <1>5, <1>6

\* A command taken out of the queue and taken up, or kept for the printer, stays in the engine's hands.
LEMMA TakesUp ==
  ASSUME TypeInv, Parted, NEW type, Command(type),
         \/ eng.c = 0 /\ eng'.c = Head(cmdQ) /\ eng'.man = eng.man
         \/ eng.man = 0 /\ eng'.man = Head(cmdQ) /\ eng'.c = eng.c
  PROVE  Hands' = Hands /\ Parted'
<1>1. cmdQ \in Seq(1..MaxPosts) /\ cmdQ # <<>> /\ cmdQ' = Tail(cmdQ) /\ Head(cmdQ) \in 1..MaxPosts /\ Head(cmdQ) # 0
  BY TakenTyped DEF TypeInv, MailTypeOK, Command
<1>2. Head(cmdQ) \in Queued /\ Queued' = Queued \ {Head(cmdQ)} /\ NoTwice'
  BY <1>1, QueuedLess DEF Parted
<1> QED
  BY <1>1, <1>2 DEF Hands, Parted

\* The command that waited for the printer is taken up.
LEMMA HandsOver ==
  ASSUME Parted, eng.man # 0, eng.c = 0, eng'.c = eng.man, eng'.man = 0, UNCHANGED cmdQ
  PROVE  Hands' = Hands /\ (0 \notin Queued => Parted')
  BY DEF Hands, Parted, Queued, NoTwice

\* Nothing changes hands.
LEMMA Holds ==
  ASSUME Parted, eng'.c = eng.c, eng'.man = eng.man, UNCHANGED cmdQ
  PROVE  Hands' = Hands /\ Parted'
  BY DEF Hands, Parted, Queued, NoTwice

\* A command leaves the engine's hands.
LEMMA LetsGo ==
  ASSUME Parted, 0 \notin Queued, UNCHANGED cmdQ,
         NEW c, c # 0, \/ c = eng.c /\ eng'.c = 0 /\ eng'.man = eng.man
                       \/ c = eng.man /\ eng'.man = 0 /\ eng'.c = eng.c
  PROVE  c \in Hands /\ Hands' = Hands \ {c} /\ Parted'
<1>1. Queued' = Queued /\ (NoTwice => NoTwice')
  BY DEF Queued, NoTwice
<1> QED
  BY <1>1 DEF Hands, Parted

\* What the engine has are commands.
LEMMA HandsTyped == TypeInv => Hands \subseteq 1..MaxPosts /\ 0 \notin Queued
<1> SUFFICES ASSUME TypeInv PROVE Hands \subseteq 1..MaxPosts /\ 0 \notin Queued
  OBVIOUS
<1>1. Queued \subseteq 1..MaxPosts
  <2>1. cmdQ \in Seq(1..MaxPosts)
    BY DEF TypeInv, MailTypeOK
  <2>2. \A i \in 1..Len(cmdQ) : cmdQ[i] \in 1..MaxPosts
    BY <2>1, ElementOfSeq
  <2> QED
    BY <2>2 DEF Queued
<1>2. eng.c \in 0..MaxPosts /\ eng.man \in 0..MaxPosts
  BY DEF TypeInv, EngTypeOK, EngObject
<1>3. 0 \notin 1..MaxPosts /\ \A c \in 0..MaxPosts : c # 0 => c \in 1..MaxPosts
  BY Numbers
<1> QED
  BY <1>1, <1>2, <1>3 DEF Hands

\* A new result leaves a command as it was.
LEMMA ResultSame ==
  ASSUME TypeInv, NEW c, NEW ok, cmd' = [cmd EXCEPT ![c].ok = ok]
  PROVE  SameCmds
  BY DEF TypeInv, MailTypeOK, CmdObject, SameCmds

\* The engine has a result for a command it took out of the queue, or has in work, ...
LEMMA AnsweringTaken ==
  ASSUME TypeInv, Parted, NEW type, Command(type), NEW ok, NEW then, Answering(Head(cmdQ), ok, then),
         eng.c = 0, eng.at # "gives", UNCHANGED <<http, gJob>>
  PROVE  EngineKeeps /\ Parted'
<1>1. eng'.c = Head(cmdQ) /\ eng'.man = eng.man /\ eng'.at = "answers"
  BY DEF Answering, TypeInv, EngTypeOK, EngObject
<1> QED
  BY <1>1, TakesUp, ResultSame DEF EngineKeeps, Answering

\* ... and keeps it.
LEMMA AnsweringInWork ==
  ASSUME TypeInv, Parted, NEW ok, NEW then, Answering(eng.c, ok, then),
         eng.at # "gives", UNCHANGED <<cmdQ, http, gJob>>
  PROVE  EngineKeeps /\ Parted'
<1>1. eng'.c = eng.c /\ eng'.man = eng.man /\ eng'.at = "answers"
  BY DEF Answering, TypeInv, EngTypeOK, EngObject
<1> QED
  BY <1>1, Holds, ResultSame DEF EngineKeeps, Answering

-----------------------------------------------------------------------------
(* Every action is of a kind *)

\* A step of the engine that touches no command.
LEMMA EngineStill ==
  ASSUME TypeInv, Parted, eng.at # "gives", eng'.at # "gives", eng'.c = eng.c, eng'.man = eng.man,
         UNCHANGED <<cmdQ, cmd, http, gJob>>
  PROVE  EngineKeeps /\ Parted'
  BY Holds DEF EngineKeeps, SameCmds

\* The engine's steps are of a kind, and leave each command in one place.
LEMMA EngineKinds ==
  ASSUME TypeInv, Parted, ManualPlace, \A c \in 1..MaxPosts : AsyncKept(c), Engine \/ PrintFails \/ AutoResume
  PROVE  (Aside \/ EngineStep) /\ Parted'
<1>0. eng \in EngObject /\ (eng.at \in HasCmd <=> eng.c # 0) /\ eng.c \in 0..MaxPosts /\ eng.man \in 0..MaxPosts
      /\ 0 \notin Queued
  BY HandsTyped DEF TypeInv, EngTypeOK, EngObject
<1>1. CASE AnswerAsync
  <2>1. eng.c \in 1..MaxPosts /\ eng.at # "gives"
    BY <1>0, <1>1 DEF AnswerAsync, HasCmd
  <2>2. eng'.at # "gives" /\ eng'.c = 0 /\ eng'.man = eng.man
    BY <1>0, <1>1 DEF AnswerAsync, EngObject, Stations, Afters
  <2>3. eng.c \in Hands /\ Hands' = Hands \ {eng.c} /\ Parted'
    BY <1>0, <1>1, <2>1, <2>2, LetsGo DEF AnswerAsync
  <2>4. gJob'.done
    BY <1>1 DEF AnswerAsync, TypeInv, JobTypeOK, JobObject
  <2>5. EngineFrees(eng.c)
    BY <1>1, <2>1, <2>2, <2>3, <2>4 DEF AnswerAsync, EngineFrees
  <2> QED
    BY <2>1, <2>3, <2>5 DEF EngineStep
<1>2. CASE AnswerLooks
  <2>1. eng.c \in 1..MaxPosts /\ eng.at # "gives"
    BY <1>0, <1>2 DEF AnswerLooks, HasCmd
  <2>2. CASE cmd[eng.c].abandoned = "no"
    <3>1. eng'.c = eng.c /\ eng'.man = eng.man /\ UNCHANGED <<cmdQ, cmd, http, gJob>>
      BY <1>0, <1>2, <2>2 DEF AnswerLooks, EngObject
    <3> QED
      BY <1>2, <2>1, <2>2, <3>1, Holds DEF AnswerLooks, EngineLooks, EngineStep
  <2>3. CASE cmd[eng.c].abandoned # "no"
    <3>1. eng'.at # "gives" /\ eng'.c = 0 /\ eng'.man = eng.man
      BY <1>0, <1>2, <2>3 DEF AnswerLooks, EngObject, Afters
    <3>2. eng.c \in Hands /\ Hands' = Hands \ {eng.c} /\ Parted'
      BY <1>0, <1>2, <2>1, <3>1, LetsGo DEF AnswerLooks
    <3>3. EngineFrees(eng.c)
      BY <1>2, <2>1, <2>3, <3>1, <3>2 DEF AnswerLooks, EngineFrees
    <3> QED
      BY <2>1, <3>2, <3>3 DEF EngineStep
  <2> QED
    BY <2>2, <2>3
<1>3. CASE AnswerGives
  <2>1. eng.c # 0 /\ eng.at = "gives"
    BY <1>0, <1>3 DEF AnswerGives, HasCmd
  <2>2. eng'.at # "gives" /\ eng'.c = 0 /\ eng'.man = eng.man
    BY <1>0, <1>3 DEF AnswerGives, EngObject, Afters
  <2>3. eng.c \in Hands /\ Hands' = Hands \ {eng.c} /\ Parted'
    BY <1>0, <1>3, <2>1, <2>2, LetsGo DEF AnswerGives
  <2> QED
    BY <1>3, <2>1, <2>2, <2>3 DEF AnswerGives, EngineGives, EngineStep
<1>4. CASE Connect
  <2>1. eng.c = 0 /\ eng.at # "gives" /\ UNCHANGED <<http, gJob>>
    BY <1>0, <1>4 DEF Connect, HasCmd
  <2> QED
    BY <1>4, <2>1, AnsweringTaken DEF Connect, EngineStep
<1>5. CASE Disconnect
  <2>1. eng.c = 0 /\ eng.at # "gives" /\ UNCHANGED <<http, gJob>>
    BY <1>0, <1>5 DEF Disconnect, HasCmd
  <2> QED
    BY <1>5, <2>1, AnsweringTaken DEF Disconnect, EngineStep
<1>6. CASE NoPrint
  <2>1. eng.c = 0 /\ eng.at # "gives" /\ UNCHANGED <<http, gJob>>
    BY <1>0, <1>6 DEF NoPrint, HasCmd
  <2> QED
    BY <1>6, <2>1, AnsweringTaken DEF NoPrint, EngineStep
<1>7. CASE PauseOrResume
  <2>1. eng.c = 0 /\ eng.at # "gives" /\ UNCHANGED <<http, gJob>>
    BY <1>0, <1>7 DEF PauseOrResume, HasCmd
  <2> QED
    BY <1>7, <2>1, AnsweringTaken DEF PauseOrResume, EngineStep
<1>8. CASE Stop
  <2>1. eng.c = 0 /\ eng.at # "gives" /\ UNCHANGED <<http, gJob>>
    BY <1>0, <1>8 DEF Stop, HasCmd
  <2> QED
    BY <1>8, <2>1, AnsweringTaken DEF Stop, EngineStep
<1>9. CASE BusyPrinting
  <2>1. eng.c = 0 /\ eng.at # "gives" /\ UNCHANGED <<http, gJob>>
    BY <1>0, <1>9 DEF BusyPrinting, HasCmd
  <2> QED
    BY <1>9, <2>1, AnsweringTaken DEF BusyPrinting, EngineStep
<1>10. CASE Gcode
  <2>1. eng.c = 0 /\ eng.at # "gives" /\ UNCHANGED <<http, gJob>>
    BY <1>0, <1>10 DEF Gcode, HasCmd
  <2>2. CASE eng' = [eng EXCEPT !.at = "executes", !.c = Head(cmdQ)] /\ UNCHANGED cmd
    <3>1. eng'.c = Head(cmdQ) /\ eng'.man = eng.man /\ eng'.at # "gives"
      BY <1>0, <2>2 DEF EngObject
    <3>2. Hands' = Hands /\ Parted'
      BY <1>10, <2>1, <3>1, TakesUp DEF Gcode
    <3> QED
      BY <2>1, <2>2, <3>1, <3>2 DEF EngineKeeps, SameCmds, EngineStep
  <2>3. CASE Answering(Head(cmdQ), FALSE, "loop")
    BY <1>10, <2>1, <2>3, AnsweringTaken DEF Gcode, EngineStep
  <2> QED
    BY <1>10, <2>2, <2>3 DEF Gcode
<1>11. CASE Start
  <2>1. eng.c = 0 /\ eng.at # "gives" /\ UNCHANGED <<http, gJob>>
    BY <1>0, <1>11 DEF Start, HasCmd
  <2>2. ASSUME NEW f, eng' = [eng EXCEPT !.at = "looks", !.c = Head(cmdQ), !.file = f], UNCHANGED cmd
        PROVE  EngineKeeps /\ Parted'
    <3>1. eng'.c = Head(cmdQ) /\ eng'.man = eng.man /\ eng'.at # "gives"
      BY <1>0, <2>2 DEF EngObject
    <3>2. Hands' = Hands /\ Parted'
      BY <1>11, <2>1, <3>1, TakesUp DEF Start
    <3> QED
      BY <2>1, <2>2, <3>1, <3>2 DEF EngineKeeps, SameCmds
  <2>3. CASE Answering(Head(cmdQ), FALSE, "loop")
    BY <1>11, <2>1, <2>3, AnsweringTaken DEF Start, EngineStep
  <2> QED
    BY <1>11, <2>2, <2>3 DEF Start, EngineStep
<1>12. CASE Discard
  <2>1. eng.c = 0 /\ eng.at # "gives" /\ UNCHANGED <<cmd, http, gJob>>
    BY <1>0, <1>12 DEF Discard, HasCmd
  <2>2. eng'.c = Head(cmdQ) /\ eng'.man = eng.man /\ eng'.at # "gives"
    BY <1>0, <1>12 DEF Discard, EngObject
  <2>3. Hands' = Hands /\ Parted'
    BY <1>12, <2>1, <2>2, TakesUp DEF Discard
  <2> QED
    BY <2>1, <2>2, <2>3 DEF EngineKeeps, SameCmds, EngineStep
<1>13. CASE PrintGcode
  <2>1. eng.c = 0 /\ eng.at = "prints" /\ UNCHANGED <<http, gJob>>
    BY <1>0, <1>13 DEF PrintGcode, HasCmd
  <2>2. CASE eng.man = 0 /\ eng' = [eng EXCEPT !.man = Head(cmdQ), !.sent = FALSE] /\ UNCHANGED cmd
    <3>1. eng'.man = Head(cmdQ) /\ eng'.c = eng.c /\ eng'.at = "prints"
      BY <1>0, <2>1, <2>2 DEF EngObject
    <3>2. Hands' = Hands /\ Parted'
      BY <1>13, <2>2, <3>1, TakesUp DEF PrintGcode
    <3> QED
      BY <2>1, <2>2, <3>1, <3>2 DEF EngineKeeps, SameCmds, EngineStep
  <2>3. CASE Answering(Head(cmdQ), FALSE, "prints")
    BY <1>13, <2>1, <2>3, AnsweringTaken DEF PrintGcode, EngineStep
  <2> QED
    BY <1>13, <2>2, <2>3 DEF PrintGcode
<1>14. CASE Executed
  BY <1>14, AnsweringInWork DEF Executed, EngineStep
<1>15. CASE Discarded
  BY <1>15, AnsweringInWork DEF Discarded, EngineStep
<1>16. CASE Claim
  BY <1>16, AnsweringInWork DEF Claim, EngineStep
<1>17. CASE LookForFile
  <2>1. eng.at # "gives" /\ UNCHANGED <<cmdQ, http, gJob>>
    BY <1>17 DEF LookForFile
  <2>2. CASE eng' = [eng EXCEPT !.at = "claims"] /\ UNCHANGED cmd
    <3>1. eng'.c = eng.c /\ eng'.man = eng.man /\ eng'.at # "gives"
      BY <1>0, <2>2 DEF EngObject
    <3> QED
      BY <2>1, <2>2, <3>1, EngineStill DEF EngineStep
  <2>3. CASE Answering(eng.c, FALSE, "loop")
    BY <2>1, <2>3, AnsweringInWork DEF EngineStep
  <2> QED
    BY <1>17, <2>2, <2>3 DEF LookForFile
<1>18. CASE SendManual
  <2>1. eng.c = 0 /\ eng.man \in 1..MaxPosts /\ eng.at = "prints" /\ UNCHANGED <<cmdQ, http, gJob>>
    BY <1>0, <1>18 DEF SendManual, HasCmd
  <2>2. CASE cmd[eng.man].abandoned # "no"
    <3>1. eng'.at # "gives" /\ eng'.c = eng.c /\ eng'.man = 0 /\ cmd' = [cmd EXCEPT ![eng.man].mem = "freed"]
      BY <1>0, <1>18, <2>1, <2>2 DEF SendManual, EngObject
    <3>2. eng.man \in Hands /\ Hands' = Hands \ {eng.man} /\ Parted'
      BY <1>0, <2>1, <3>1, LetsGo
    <3>3. cmd[eng.man].async = 0
      BY <2>1, <2>2, <3>2 DEF AsyncKept
    <3>4. EngineFrees(eng.man)
      BY <2>1, <2>2, <3>1, <3>2, <3>3 DEF EngineFrees
    <3> QED
      BY <2>1, <3>2, <3>4 DEF EngineStep
  <2>3. CASE cmd[eng.man].abandoned = "no"
    <3>1. eng'.c = eng.c /\ eng'.man = eng.man /\ eng'.at = "prints" /\ UNCHANGED cmd
      BY <1>0, <1>18, <2>1, <2>3 DEF SendManual, EngObject
    <3> QED
      BY <2>1, <3>1, EngineStill DEF EngineStep
  <2> QED
    BY <2>2, <2>3
<1>19. CASE ManualAcked
  <2>1. eng.c = 0 /\ eng.man # 0 /\ eng.at # "gives" /\ UNCHANGED <<cmdQ, http, gJob>>
    BY <1>0, <1>19 DEF ManualAcked, HasCmd
  <2>2. eng'.c = eng.man /\ eng'.man = 0 /\ eng'.at = "answers"
    BY <1>0, <1>19 DEF ManualAcked, EngObject
  <2>3. SameCmds
    BY <1>19, ResultSame DEF ManualAcked
  <2> QED
    BY <1>0, <2>1, <2>2, <2>3, HandsOver DEF EngineKeeps, EngineStep
<1>20. CASE ManualEnds
  <2>1. eng.c = 0 /\ eng.man # 0 /\ eng.at # "gives" /\ UNCHANGED <<cmdQ, http, gJob>>
    BY <1>0, <1>20 DEF ManualEnds, HasCmd
  <2>2. eng'.c = eng.man /\ eng'.man = 0 /\ eng'.at = "answers"
    BY <1>0, <1>20 DEF ManualEnds, EngObject
  <2>3. SameCmds
    BY <1>20, ResultSame DEF ManualEnds
  <2> QED
    BY <1>0, <2>1, <2>2, <2>3, HandsOver DEF EngineKeeps, EngineStep
<1>21. CASE Open
  <2>1. eng.at # "gives" /\ eng'.at # "gives" /\ eng'.c = eng.c /\ eng'.man = eng.man
    BY <1>0, <1>21 DEF Open, EngObject
  <2> QED
    BY <1>21, <2>1, EngineStill DEF Open, EngineStep
<1>22. CASE Begins
  <2>1. eng.at # "gives" /\ eng'.at # "gives" /\ eng'.c = eng.c /\ eng'.man = eng.man
    BY <1>0, <1>22 DEF Begins, EngObject
  <2> QED
    BY <1>22, <2>1, EngineStill DEF Begins, EngineStep
<1>23. CASE Stopped
  <2>1. eng.at # "gives" /\ eng'.at # "gives" /\ eng'.c = eng.c /\ eng'.man = eng.man
    BY <1>0, <1>23 DEF Stopped, EngObject
  <2> QED
    BY <1>23, <2>1, EngineStill DEF Stopped, EngineStep
<1>24. CASE Finished
  <2>1. eng.at # "gives" /\ eng'.at # "gives" /\ eng'.c = eng.c /\ eng'.man = eng.man
    BY <1>0, <1>24 DEF Finished, EngObject
  <2> QED
    BY <1>24, <2>1, EngineStill DEF Finished, EngineStep
<1>25. CASE CloseFile
  <2>1. eng.at # "gives" /\ eng'.at # "gives" /\ eng'.c = eng.c /\ eng'.man = eng.man
    BY <1>0, <1>25 DEF CloseFile, EngObject
  <2> QED
    BY <1>25, <2>1, EngineStill DEF CloseFile, EngineStep
<1>26. CASE RecordEnd
  <2>1. eng.at # "gives" /\ eng'.at # "gives" /\ eng'.c = eng.c /\ eng'.man = eng.man
    BY <1>0, <1>26 DEF RecordEnd, EngObject
  <2> QED
    BY <1>26, <2>1, EngineStill DEF RecordEnd, EngineStep
<1>27. CASE PrintFails
  <2>1. eng.at # "gives" /\ eng'.at # "gives" /\ eng'.c = eng.c /\ eng'.man = eng.man
    BY <1>0, <1>27 DEF PrintFails, EngObject
  <2> QED
    BY <1>27, <2>1, EngineStill DEF PrintFails, EngineStep
<1>28. CASE AutoResume
  <2>1. eng.at # "gives" /\ eng'.at # "gives" /\ eng'.c = eng.c /\ eng'.man = eng.man
    BY <1>0, <1>28 DEF AutoResume, EngObject
  <2> QED
    BY <1>28, <2>1, EngineStill DEF AutoResume, EngineStep
<1>29. CASE OpenFails
  <2>1. eng.at # "gives" /\ eng.c = 0 /\ eng.man = 0
    BY <1>0, <1>29 DEF OpenFails, HasCmd, ManualPlace, Loops
  <2>2. eng'.at # "gives" /\ eng'.c = 0 /\ eng'.man = 0
    BY <1>29, AtRest DEF OpenFails
  <2> QED
    BY <1>29, <2>1, <2>2, EngineStill DEF OpenFails, EngineStep
<1>30. CASE JournalEnd
  <2>1. eng.at # "gives" /\ eng.c = 0 /\ eng.man = 0
    BY <1>0, <1>30 DEF JournalEnd, HasCmd, ManualPlace, Loops
  <2>2. eng'.at # "gives" /\ eng'.c = 0 /\ eng'.man = 0
    BY <1>30, AtRest DEF JournalEnd
  <2> QED
    BY <1>30, <2>1, <2>2, EngineStill DEF JournalEnd, EngineStep
<1>31. CASE Fill
  <2>1. Aside
    BY <1>31 DEF Fill, Aside
  <2> QED
    BY <2>1, Holds DEF Aside
<1>32. CASE NextCell
  <2>1. Aside
    BY <1>32 DEF NextCell, Aside
  <2> QED
    BY <2>1, Holds DEF Aside
<1> QED
  BY <1>1, <1>2, <1>3, <1>4, <1>5, <1>6, <1>7, <1>8, <1>9, <1>10, <1>11, <1>12, <1>13, <1>14, <1>15, <1>16, <1>17,
     <1>18, <1>19, <1>20, <1>21, <1>22, <1>23, <1>24, <1>25, <1>26, <1>27, <1>28, <1>29, <1>30, <1>31, <1>32 DEF
     Engine

\* A command waits for the printer only while a print lasts.
LEMMA ManualKept ==
  ASSUME TypeInv, ManualPlace, [Next]_vars
  PROVE  ManualPlace'
<1>0. eng \in EngObject /\ (eng.at \in HasCmd <=> eng.c # 0)
  BY DEF TypeInv, EngTypeOK
<1>1. CASE AnswerAsync
  BY <1>0, <1>1 DEF AnswerAsync, ManualPlace, Loops, EngObject
<1>2. CASE AnswerLooks
  BY <1>0, <1>2 DEF AnswerLooks, ManualPlace, Loops, EngObject
<1>3. CASE AnswerGives
  BY <1>0, <1>3 DEF AnswerGives, ManualPlace, Loops, EngObject
<1>4. CASE Connect
  BY <1>0, <1>4 DEF Connect, Answering, ManualPlace, Loops, EngObject
<1>5. CASE Disconnect
  BY <1>0, <1>5 DEF Disconnect, Answering, ManualPlace, Loops, EngObject
<1>6. CASE Gcode
  BY <1>0, <1>6 DEF Gcode, Answering, ManualPlace, Loops, EngObject
<1>7. CASE Executed
  BY <1>0, <1>7 DEF Executed, Answering, ManualPlace, Loops, EngObject
<1>8. CASE Discard
  BY <1>0, <1>8 DEF Discard, ManualPlace, Loops, EngObject
<1>9. CASE Discarded
  BY <1>0, <1>9 DEF Discarded, Answering, ManualPlace, Loops, EngObject
<1>10. CASE NoPrint
  BY <1>0, <1>10 DEF NoPrint, Answering, ManualPlace, Loops, EngObject
<1>11. CASE Start
  BY <1>0, <1>11 DEF Start, Answering, ManualPlace, Loops, EngObject
<1>12. CASE LookForFile
  BY <1>0, <1>12 DEF LookForFile, Answering, ManualPlace, Loops, EngObject
<1>13. CASE Claim
  BY <1>0, <1>13 DEF Claim, Answering, ManualPlace, Loops, EngObject
<1>14. CASE OpenFails
  BY <1>14, AtRest DEF OpenFails, ManualPlace
<1>15. CASE Open
  BY <1>0, <1>15 DEF Open, ManualPlace, Loops, EngObject
<1>16. CASE Begins
  BY <1>0, <1>16 DEF Begins, ManualPlace, Loops, EngObject
<1>17. CASE PauseOrResume
  BY <1>0, <1>17 DEF PauseOrResume, Answering, ManualPlace, Loops, EngObject
<1>18. CASE Stop
  BY <1>0, <1>18 DEF Stop, Answering, ManualPlace, Loops, EngObject
<1>19. CASE Stopped
  BY <1>0, <1>19 DEF Stopped, ManualPlace, Loops, EngObject
<1>20. CASE PrintGcode
  BY <1>0, <1>20 DEF PrintGcode, Answering, ManualPlace, Loops, EngObject
<1>21. CASE BusyPrinting
  BY <1>0, <1>21 DEF BusyPrinting, Answering, ManualPlace, Loops, EngObject
<1>22. CASE SendManual
  BY <1>0, <1>22 DEF SendManual, ManualPlace, Loops, EngObject
<1>23. CASE ManualAcked
  BY <1>0, <1>23 DEF ManualAcked, ManualPlace, Loops, EngObject
<1>24. CASE Finished
  BY <1>0, <1>24 DEF Finished, ManualPlace, Loops, EngObject
<1>25. CASE ManualEnds
  BY <1>0, <1>25 DEF ManualEnds, ManualPlace, Loops, EngObject
<1>26. CASE CloseFile
  BY <1>0, <1>26 DEF CloseFile, ManualPlace, Loops, EngObject
<1>27. CASE RecordEnd
  BY <1>0, <1>27 DEF RecordEnd, ManualPlace, Loops, EngObject
<1>28. CASE JournalEnd
  BY <1>28, AtRest DEF JournalEnd, ManualPlace
<1>29. CASE AutoResume
  BY <1>0, <1>29 DEF AutoResume, ManualPlace, Loops, EngObject
<1>30. CASE PrintFails
  BY <1>0, <1>30 DEF PrintFails, ManualPlace, Loops, EngObject
<1>31. CASE Restart
  BY <1>31, AtRest DEF Restart, ManualPlace
<1>32. CASE UNCHANGED eng
  BY <1>32 DEF ManualPlace
<1>33. CASE TakeSlot \/ PostAsync \/ AsyncRefused \/ Answered \/ Abandon \/ UploadWrite \/ UploadWritten \/
            UploadChecked \/ UploadLocks \/ UploadRemoves \/ UploadRenames \/ UploadDiscards \/ DeleteChecked \/
            DeleteRemoves \/ Fill \/ NextCell \/ AutoConnectTick \/ JournalTick \/ LogGivesCard \/ TimedOut \/
            UploadFails \/ FillBusy \/ LogTakesCard \/ UNCHANGED vars
  BY <1>33, <1>32 DEF TakeSlot, PostAsync, AsyncRefused, Answered, Abandon, UploadWrite, UploadWritten,
     UploadChecked, UploadLocks, UploadRemoves, UploadRenames, UploadDiscards, DeleteChecked, DeleteRemoves, Fill,
     NextCell, AutoConnectTick, JournalTick, LogGivesCard, TimedOut, UploadFails, FillBusy, LogTakesCard, vars
<1>34. ASSUME NEW type, NEW n, Post(type, n) \/ UploadBegin(n) \/ DeleteLocks(n)
      PROVE  ManualPlace'
  BY <1>34, <1>32 DEF Post, UploadBegin, DeleteLocks
<1> QED
  BY <1>1, <1>2, <1>3, <1>4, <1>5, <1>6, <1>7, <1>8, <1>9, <1>10, <1>11, <1>12, <1>13, <1>14, <1>15, <1>16, <1>17,
     <1>18, <1>19, <1>20, <1>21, <1>22, <1>23, <1>24, <1>25, <1>26, <1>27, <1>28, <1>29, <1>30, <1>31, <1>32, <1>33,
     <1>34 DEF Next, Clients, Server, Engine, Faulty

\* Handling files, the web server's task has no command in hand.
LEMMA HttpKinds ==
  ASSUME TypeInv, ClientPlace,
         \/ UploadWrite \/ UploadWritten \/ UploadChecked \/ UploadLocks \/ UploadRemoves \/ UploadRenames
         \/ UploadDiscards \/ DeleteChecked \/ DeleteRemoves \/ UploadFails
         \/ \E n \in Names : UploadBegin(n) \/ DeleteLocks(n)
  PROVE  HttpWorks
<1>0. http \in HttpObject /\ (http.at \notin Waits => http.c = 0)
  BY DEF TypeInv, HttpTypeOK, ClientPlace
<1>1. CASE UploadWrite
  BY <1>0, <1>1, AtRest DEF UploadWrite, HttpWorks, Waits, HttpObject
<1>2. CASE UploadWritten
  BY <1>0, <1>2, AtRest DEF UploadWritten, HttpWorks, Waits, HttpObject
<1>3. CASE UploadChecked
  BY <1>0, <1>3, AtRest DEF UploadChecked, HttpWorks, Waits, HttpObject
<1>4. CASE UploadLocks
  BY <1>0, <1>4, AtRest DEF UploadLocks, HttpWorks, Waits, HttpObject
<1>5. CASE UploadRemoves
  BY <1>0, <1>5, AtRest DEF UploadRemoves, HttpWorks, Waits, HttpObject
<1>6. CASE UploadRenames
  BY <1>0, <1>6, AtRest DEF UploadRenames, HttpWorks, Waits, HttpObject
<1>7. CASE UploadDiscards
  BY <1>0, <1>7, AtRest DEF UploadDiscards, HttpWorks, Waits, HttpObject
<1>8. CASE DeleteChecked
  BY <1>0, <1>8, AtRest DEF DeleteChecked, HttpWorks, Waits, HttpObject
<1>9. CASE DeleteRemoves
  BY <1>0, <1>9, AtRest DEF DeleteRemoves, HttpWorks, Waits, HttpObject
<1>10. CASE UploadFails
  BY <1>0, <1>10, AtRest DEF UploadFails, HttpWorks, Waits, HttpObject
<1>11. ASSUME NEW n \in Names, UploadBegin(n)
      PROVE  HttpWorks
  <2>1. http'.at \notin Waits \cup {"async"} /\ http'.c = 0
    BY <1>11, AtRest DEF UploadBegin, HttpObject, Waits
  <2> QED
    BY <1>0, <1>11, <2>1 DEF UploadBegin, HttpWorks, Waits
<1>12. ASSUME NEW n \in Names, DeleteLocks(n)
      PROVE  HttpWorks
  <2>1. http'.at \notin Waits \cup {"async"} /\ http'.c = 0
    BY <1>12, AtRest DEF DeleteLocks, HttpObject, Waits
  <2> QED
    BY <1>0, <1>12, <2>1 DEF DeleteLocks, HttpWorks, Waits
<1> QED
  BY <1>1, <1>2, <1>3, <1>4, <1>5, <1>6, <1>7, <1>8, <1>9, <1>10, <1>11, <1>12

\* Aside: no command and neither task.
LEMMA AsideKinds ==
  ASSUME \/ AutoConnectTick \/ JournalTick \/ LogGivesCard \/ LogTakesCard \/ FillBusy \/ UNCHANGED vars
  PROVE  Aside
  BY DEF AutoConnectTick, JournalTick, LogGivesCard, LogTakesCard, FillBusy, vars, Aside

\* What the client does with commands, in a step of its own each.
HttpStep == \/ TakeSlot \/ PostAsync \/ AsyncRefused \/ Answered \/ Abandon \/ TimedOut
            \/ \E type \in Types : \E n \in Names \cup {None} : Post(type, n)

\* Every step is of a kind.
LEMMA Kinds ==
  ASSUME TypeInv, MailInv, [Next]_vars
  PROVE  Restart \/ HttpStep \/ HttpWorks \/ Aside \/ (EngineStep /\ Parted')
  BY EngineKinds, HttpKinds, AsideKinds DEF Next, Clients, Server, Engine, Faulty, MailInv, CmdInv, HttpStep

-----------------------------------------------------------------------------
(* Each part of the invariant survives each kind *)

\* A new number is no command yet.
LEMMA Fresh ==
  ASSUME TypeInv, MailInv, NextCmd <= MaxPosts
  PROVE  NextCmd \in 1..MaxPosts /\ cmd[NextCmd].mem = "none" /\ NextCmd \notin Hands /\ http.c # NextCmd
<1>1. NextCmd \in 1..MaxPosts
  BY Numbers DEF MailInv, Numbered, NumberLeft
<1>2. NextCmd \notin 1..(NextCmd - 1)
  BY <1>1
<1>3. cmd[NextCmd].mem = "none"
  BY <1>1, <1>2 DEF MailInv, Numbered, Posted
<1> QED
  BY <1>1, <1>3 DEF MailInv, CmdInv, EngineHas, ClientHas

\* A command about to be posted, and how it is posted.
Posts(async) ==
    /\ NextCmd <= MaxPosts /\ http.at \notin Waits
    /\ Hands' = Hands \cup {NextCmd} /\ UNCHANGED eng
    /\ cmd'[NextCmd].mem = "live" /\ ~cmd'[NextCmd].done /\ cmd'[NextCmd].abandoned = "no"
    /\ cmd'[NextCmd].async = async
    /\ \A c \in 1..MaxPosts : c # NextCmd => cmd'[c] = cmd[c]

\* Both ways of posting are such.
LEMMA PostPosts ==
  ASSUME TypeInv, MailInv, NEW type, NEW n, Post(type, n)
  PROVE  Posts(0) /\ Parted' /\ http'.at = "waits" /\ http'.c = NextCmd
<1>1. NextCmd \in 1..MaxPosts /\ NextCmd \notin Hands
  BY Fresh DEF Post
<1>2. Queued' = Queued \cup {NextCmd} /\ NoTwice'
  BY <1>1, QueuedMore DEF Post, TypeInv, MailTypeOK, MailInv, Parted, Hands
<1>3. Hands' = Hands \cup {NextCmd} /\ Parted'
  BY <1>1, <1>2, Numbers DEF Post, MailInv, Parted, Hands
<1>4. cmd'[NextCmd] = NewCmd(type, n, 0) /\ \A c \in 1..MaxPosts : c # NextCmd => cmd'[c] = cmd[c]
  BY <1>1 DEF Post, TypeInv, MailTypeOK
<1>5. http'.at = "waits" /\ http'.c = NextCmd
  BY AtRest DEF Post, HttpObject
<1>6. NewCmd(type, n, 0).mem = "live" /\ ~NewCmd(type, n, 0).done /\ NewCmd(type, n, 0).abandoned = "no"
      /\ NewCmd(type, n, 0).async = 0
  BY DEF NewCmd, NoCmd
<1> QED
  BY <1>3, <1>4, <1>5, <1>6 DEF Post, Posts, Waits

\* The same for an asynchronous one.
LEMMA PostAsyncPosts ==
  ASSUME TypeInv, MailInv, PostAsync
  PROVE  Posts(gJob.id) /\ Parted' /\ http'.at = "idle" /\ http'.c = 0
<1>0. NextCmd <= MaxPosts
  BY DEF PostAsync, MailInv, Numbered, NumberLeft
<1>1. NextCmd \in 1..MaxPosts /\ NextCmd \notin Hands
  BY <1>0, Fresh
<1>2. Queued' = Queued \cup {NextCmd} /\ NoTwice'
  BY <1>1, QueuedMore DEF PostAsync, TypeInv, MailTypeOK, MailInv, Parted, Hands
<1>3. Hands' = Hands \cup {NextCmd} /\ Parted'
  BY <1>1, <1>2, Numbers DEF PostAsync, MailInv, Parted, Hands
<1>4. cmd'[NextCmd] = NewCmd("GCODE", None, gJob.id) /\ \A c \in 1..MaxPosts : c # NextCmd => cmd'[c] = cmd[c]
  BY <1>1 DEF PostAsync, TypeInv, MailTypeOK
<1>5. http'.at = "idle" /\ http'.c = 0
  BY AtRest DEF PostAsync
<1>6. NewCmd("GCODE", None, gJob.id).mem = "live" /\ ~NewCmd("GCODE", None, gJob.id).done
      /\ NewCmd("GCODE", None, gJob.id).abandoned = "no" /\ NewCmd("GCODE", None, gJob.id).async = gJob.id
  BY DEF NewCmd, NoCmd
<1> QED
  BY <1>0, <1>3, <1>4, <1>5, <1>6 DEF PostAsync, Posts, Waits

\* The board restarts: nobody has anything.
LEMMA Restarted ==
  ASSUME Restart
  PROVE  /\ Hands' = {} /\ Parted' /\ http'.c = 0 /\ http'.at = "idle" /\ eng'.at = "loop" /\ gJob'.done
         /\ \A c \in 1..MaxPosts : /\ cmd'[c].mem = "none" /\ cmd'[c].async = 0
                                   /\ cmd'[c].abandoned = "no" /\ ~cmd'[c].done
<1>1. cmdQ' = <<>> /\ eng'.c = 0 /\ eng'.man = 0 /\ eng'.at = "loop"
  BY AtRest DEF Restart
<1>2. Queued' = {}
  BY <1>1 DEF Queued
<1>3. NoTwice'
  BY <1>1 DEF NoTwice
<1>4. http'.c = 0 /\ http'.at = "idle"
  BY AtRest DEF Restart
<1>5. gJob'.done
  BY DEF Restart, NoJob
<1>6. \A c \in 1..MaxPosts : /\ cmd'[c].mem = "none" /\ cmd'[c].async = 0
                             /\ cmd'[c].abandoned = "no" /\ ~cmd'[c].done
  BY DEF Restart, NoCmd
<1> QED
  BY <1>1, <1>2, <1>3, <1>4, <1>5, <1>6 DEF Hands, Parted

\* Each command stays in one place.
LEMMA PartedKept ==
  ASSUME TypeInv, MailInv, [Next]_vars
  PROVE  Parted'
<1>1. CASE Restart
  BY <1>1, Restarted
<1>2. CASE HttpStep
  <2>1. CASE PostAsync \/ \E type \in Types : \E n \in Names \cup {None} : Post(type, n)
    BY <2>1, PostPosts, PostAsyncPosts
  <2>2. CASE TakeSlot \/ AsyncRefused \/ Answered \/ Abandon \/ TimedOut
    BY <2>2, Holds DEF TakeSlot, AsyncRefused, Answered, Abandon, TimedOut, MailInv
  <2> QED
    BY <1>2, <2>1, <2>2 DEF HttpStep
<1>3. CASE HttpWorks \/ Aside
  BY <1>3, Holds DEF HttpWorks, Aside, MailInv
<1> QED
  BY <1>1, <1>2, <1>3, Kinds

\* A client that waits has a command in hand.
LEMMA ClientPlaceKept ==
  ASSUME TypeInv, MailInv, [Next]_vars
  PROVE  ClientPlace'
<1>0. http \in HttpObject /\ ClientPlace
  BY DEF TypeInv, HttpTypeOK, MailInv
<1>1. CASE Restart
  BY <1>1, Restarted DEF ClientPlace, Waits
<1>2. CASE HttpStep
  <2>1. CASE \E type \in Types : \E n \in Names \cup {None} : Post(type, n)
    <3>1. NextCmd # 0 /\ http'.at = "waits" /\ http'.c = NextCmd
      BY <2>1, PostPosts DEF MailInv, Numbered, NumberLeft
    <3> QED
      BY <3>1 DEF ClientPlace, Waits
  <2>2. CASE TakeSlot \/ PostAsync \/ AsyncRefused \/ Answered \/ Abandon
    <3>1. http'.c = 0 /\ http'.at \notin Waits
      BY <2>2, AtRest DEF TakeSlot, PostAsync, AsyncRefused, Answered, Abandon, HttpObject, Waits
    <3> QED
      BY <3>1 DEF ClientPlace
  <2>3. CASE TimedOut
    BY <1>0, <2>3 DEF TimedOut, ClientPlace, Waits, HttpObject
  <2> QED
    BY <1>2, <2>1, <2>2, <2>3 DEF HttpStep
<1>3. CASE HttpWorks
  BY <1>0, <1>3 DEF HttpWorks, ClientPlace
<1>4. CASE Aside \/ EngineStep
  BY <1>0, <1>4 DEF Aside, EngineStep, EngineKeeps, EngineLooks, EngineGives, EngineFrees, ClientPlace
<1> QED
  BY <1>1, <1>2, <1>3, <1>4, Kinds

\* Giving up changes nothing else of a command.
LEMMA AbandonSame ==
  ASSUME TypeInv, Abandon
  PROVE  \A c \in 1..MaxPosts : /\ cmd'[c].async = cmd[c].async /\ cmd'[c].done = cmd[c].done
                                /\ cmd'[c].mem = cmd[c].mem
<1>1. PICK a : cmd' = [cmd EXCEPT ![http.c].abandoned = a]
  BY DEF Abandon
<1> QED
  BY <1>1 DEF TypeInv, MailTypeOK, CmdObject

\* What is said of the commands stays true.
LEMMA CmdKept ==
  ASSUME TypeInv, MailInv, [Next]_vars
  PROVE  CmdInv'
<1> SUFFICES ASSUME NEW c \in 1..MaxPosts
             PROVE  (EngineHas(c) /\ ClientHas(c) /\ NobodyHas(c) /\ AsyncKept(c))'
  BY DEF CmdInv
<1>0. EngineHas(c) /\ ClientHas(c) /\ NobodyHas(c) /\ AsyncKept(c) /\ GivenUp
  BY DEF MailInv, CmdInv
<1>1. CASE Restart
  <2>1. c # 0
    BY Numbers
  <2> QED
    BY <1>1, <2>1, Restarted DEF EngineHas, ClientHas, NobodyHas, AsyncKept
<1>2. CASE \E type \in Types : \E n \in Names \cup {None} : Post(type, n)
  <2>1. Posts(0) /\ http'.c = NextCmd
    BY <1>2, PostPosts
  <2>2. NextCmd \in 1..MaxPosts /\ NextCmd \notin Hands
    BY <2>1, Fresh DEF Posts
  <2>3. http.c = 0 /\ c # 0
    BY <2>1, Numbers DEF Posts, MailInv, ClientPlace
  <2> QED
    BY <1>0, <2>1, <2>2, <2>3 DEF Posts, EngineHas, ClientHas, NobodyHas, AsyncKept
<1>3. CASE PostAsync
  <2>1. Posts(gJob.id) /\ http'.c = 0
    BY <1>3, PostAsyncPosts
  <2>2. NextCmd \in 1..MaxPosts /\ NextCmd \notin Hands
    BY <2>1, Fresh DEF Posts
  <2>3. http.c = 0 /\ c # 0
    BY <2>1, Numbers DEF Posts, MailInv, ClientPlace
  <2>4. gJob.id # 0
    BY <1>3 DEF PostAsync, MailInv, JobInv
  <2> QED
    BY <1>0, <2>1, <2>2, <2>3, <2>4 DEF Posts, EngineHas, ClientHas, NobodyHas, AsyncKept
<1>4. CASE Answered \/ Abandon
  <2>1. http.c \in 1..MaxPosts /\ c # 0 /\ http'.c = 0 /\ UNCHANGED <<cmdQ, eng>>
    <3>1. http.at \in Waits /\ http'.c = 0 /\ UNCHANGED <<cmdQ, eng>>
      BY <1>4, AtRest DEF Answered, Abandon, Waits
    <3>2. http.c # 0 /\ http.c \in 0..MaxPosts
      BY <3>1 DEF MailInv, ClientPlace, TypeInv, HttpTypeOK, HttpObject
    <3> QED
      BY <3>1, <3>2, Numbers
  <2>2. Hands' = Hands
    BY <2>1, Holds DEF MailInv
  <2>3. CASE c # http.c
    <3>1. cmd'[c] = cmd[c]
      BY <1>4, <2>3 DEF Answered, Abandon, TypeInv, MailTypeOK
    <3> QED
      BY <1>0, <2>1, <2>2, <2>3, <3>1 DEF EngineHas, ClientHas, NobodyHas, AsyncKept
  <2>4. CASE c = http.c /\ Answered
    <3>1. cmd[c].done /\ cmd'[c].mem = "freed" /\ cmd'[c].async = cmd[c].async /\ cmd'[c].abandoned = cmd[c].abandoned
      BY <2>4 DEF Answered, TypeInv, MailTypeOK, CmdObject
    <3> QED
      BY <1>0, <2>1, <2>2, <2>4, <3>1 DEF EngineHas, ClientHas, NobodyHas, AsyncKept
  <2>5. CASE c = http.c /\ Abandon
    <3>1. PICK a : /\ a = IF cmd[c].done \/ Giving(c) THEN "too late" ELSE "yes"
                   /\ cmd' = [cmd EXCEPT ![c].abandoned = a]
      BY <2>5 DEF Abandon
    <3>2. cmd'[c].mem = cmd[c].mem /\ cmd'[c].async = cmd[c].async /\ cmd'[c].done = cmd[c].done
          /\ cmd'[c].abandoned = a
      BY <3>1 DEF TypeInv, MailTypeOK, CmdObject
    <3>3. a # "no" /\ (a # "too late" => ~cmd[c].done /\ ~Giving(c)) /\ (a = "too late" => cmd[c].done \/ Giving(c))
      BY <3>1
    <3>4. http.c = c /\ (cmd[c].done \/ c \in Hands) /\ (c \in Hands => ~cmd[c].done) /\ cmd[c].async = 0
      BY <1>0, <2>5 DEF EngineHas, ClientHas
    <3> QED
      BY <1>0, <2>1, <2>2, <3>2, <3>3, <3>4 DEF EngineHas, ClientHas, NobodyHas, AsyncKept, Giving
  <2> QED
    BY <1>4, <2>3, <2>4, <2>5
<1>5. CASE TakeSlot \/ AsyncRefused \/ TimedOut \/ HttpWorks \/ Aside
  <2>1. UNCHANGED <<cmdQ, cmd, eng>>
    BY <1>5 DEF TakeSlot, AsyncRefused, TimedOut, HttpWorks, Aside
  <2>2. Hands' = Hands
    BY <2>1, Holds DEF MailInv
  <2>3. http'.c = http.c
    BY <1>5, AtRest DEF TakeSlot, AsyncRefused, TimedOut, HttpWorks, Aside, HttpObject, TypeInv, HttpTypeOK, MailInv,
       ClientPlace, Waits
  <2> QED
    BY <1>0, <2>1, <2>2, <2>3 DEF EngineHas, ClientHas, NobodyHas, AsyncKept
<1>6. CASE EngineKeeps
  BY <1>0, <1>6 DEF EngineKeeps, SameCmds, EngineHas, ClientHas, NobodyHas, AsyncKept
<1>7. CASE EngineLooks
  BY <1>0, <1>7 DEF EngineLooks, EngineHas, ClientHas, NobodyHas, AsyncKept
<1>8. CASE EngineGives
  <2>1. CASE c # eng.c
    <3>1. cmd'[c] = cmd[c]
      BY <1>8, <2>1 DEF EngineGives, TypeInv, MailTypeOK
    <3> QED
      BY <1>0, <1>8, <2>1, <3>1 DEF EngineGives, EngineHas, ClientHas, NobodyHas, AsyncKept
  <2>2. CASE c = eng.c
    <3>1. cmd'[c].mem = cmd[c].mem /\ cmd'[c].async = cmd[c].async /\ cmd'[c].done
          /\ cmd'[c].abandoned = cmd[c].abandoned /\ cmd[c].abandoned \in {"no", "yes", "too late"}
      BY <1>8, <2>2 DEF EngineGives, TypeInv, MailTypeOK, CmdObject
    <3> QED
      BY <1>0, <1>8, <2>2, <3>1 DEF EngineGives, EngineHas, ClientHas, NobodyHas, AsyncKept, GivenUp
  <2> QED
    BY <2>1, <2>2
<1>9. ASSUME NEW d \in 1..MaxPosts, EngineFrees(d)
      PROVE  (EngineHas(c) /\ ClientHas(c) /\ NobodyHas(c) /\ AsyncKept(c))'
  <2>1. CASE c # d
    <3>1. cmd'[c] = cmd[c]
      BY <1>9, <2>1 DEF EngineFrees, TypeInv, MailTypeOK
    <3> QED
      BY <1>0, <1>9, <2>1, <3>1 DEF EngineFrees, EngineHas, ClientHas, NobodyHas, AsyncKept
  <2>2. CASE c = d
    <3>1. cmd'[c].mem = "freed" /\ cmd'[c].async = cmd[c].async /\ cmd'[c].abandoned = cmd[c].abandoned
      BY <1>9, <2>2 DEF EngineFrees, TypeInv, MailTypeOK, CmdObject
    <3> QED
      BY <1>0, <1>9, <2>2, <3>1 DEF EngineFrees, EngineHas, ClientHas, NobodyHas, AsyncKept
  <2> QED
    BY <2>1, <2>2
<1> QED
  BY <1>1, <1>2, <1>3, <1>4, <1>5, <1>6, <1>7, <1>8, <1>9, Kinds DEF HttpStep, EngineStep

\* The engine gives only what it found not abandoned.
LEMMA GivenUpKept ==
  ASSUME TypeInv, MailInv, [Next]_vars
  PROVE  GivenUp'
<1>0. /\ GivenUp /\ eng \in EngObject /\ (eng.at \in HasCmd <=> eng.c # 0)
      /\ (eng.at = "gives" => eng.c \in 1..MaxPosts /\ eng.c \in Hands)
  BY Numbers DEF MailInv, TypeInv, EngTypeOK, EngObject, HasCmd, Hands
<1>1. CASE Restart
  BY <1>1, Restarted DEF GivenUp
<1>2. CASE PostAsync \/ \E type \in Types : \E n \in Names \cup {None} : Post(type, n)
  <2>1. Posts(0) \/ Posts(gJob.id)
    BY <1>2, PostPosts, PostAsyncPosts
  <2>2. NextCmd \notin Hands
    BY <2>1, Fresh DEF Posts
  <2> QED
    BY <1>0, <2>1, <2>2 DEF Posts, GivenUp
<1>3. CASE Answered
  <2>1. eng.at = "gives" => cmd'[eng.c].abandoned = cmd[eng.c].abandoned /\ cmd'[eng.c].async = cmd[eng.c].async
    BY <1>0, <1>3 DEF Answered, TypeInv, MailTypeOK, CmdObject
  <2> QED
    BY <1>0, <1>3, <2>1 DEF Answered, GivenUp
<1>4. CASE Abandon
  <2>1. PICK a : a = (IF cmd[http.c].done \/ Giving(http.c) THEN "too late" ELSE "yes")
                 /\ cmd' = [cmd EXCEPT ![http.c].abandoned = a]
    BY <1>4 DEF Abandon
  <2>2. eng.at = "gives" => /\ cmd'[eng.c].async = cmd[eng.c].async
                            /\ cmd'[eng.c].abandoned = IF eng.c = http.c THEN a ELSE cmd[eng.c].abandoned
    BY <1>0, <2>1 DEF TypeInv, MailTypeOK, CmdObject
  <2> QED
    BY <1>0, <1>4, <2>1, <2>2 DEF Abandon, GivenUp, Giving
<1>5. CASE TakeSlot \/ AsyncRefused \/ TimedOut \/ HttpWorks \/ Aside
  BY <1>0, <1>5 DEF TakeSlot, AsyncRefused, TimedOut, HttpWorks, Aside, GivenUp
<1>6. CASE EngineStep
  BY <1>0, <1>6 DEF EngineStep, EngineKeeps, EngineLooks, EngineGives, EngineFrees, GivenUp
<1> QED
  BY <1>1, <1>2, <1>3, <1>4, <1>5, <1>6, Kinds DEF HttpStep

\* The slot of asynchronous commands has its command.
LEMMA JobKept ==
  ASSUME TypeInv, MailInv, [Next]_vars
  PROVE  JobInv'
<1>0. /\ JobInv /\ http \in HttpObject /\ ClientPlace
      /\ \A c \in 1..MaxPosts : ClientHas(c)
  BY DEF MailInv, CmdInv, TypeInv, HttpTypeOK
<1>1. CASE Restart
  BY <1>1, Restarted DEF JobInv, Free
<1>2. CASE \E type \in Types : \E n \in Names \cup {None} : Post(type, n)
  <2>1. Posts(0) /\ http'.at = "waits" /\ http.at = "idle" /\ gJob' = gJob
    BY <1>2, PostPosts DEF Post
  <2>2. NextCmd \in 1..MaxPosts /\ NextCmd \notin Hands
    BY <2>1, Fresh DEF Posts
  <2>3. \A c \in 1..MaxPosts : /\ Free(c) => Free(c)'
                               /\ c \in Hands => c \in Hands' /\ cmd'[c].async = cmd[c].async
    BY <2>1, <2>2 DEF Posts, Free
  <2> QED
    BY <1>0, <2>1, <2>3 DEF JobInv
<1>3. CASE PostAsync
  <2>1. Posts(gJob.id) /\ http'.at = "idle" /\ http.at = "async" /\ gJob' = gJob
    BY <1>3, PostAsyncPosts DEF PostAsync
  <2>2. NextCmd \in 1..MaxPosts
    BY <2>1, Fresh DEF Posts
  <2>3. \A d \in 1..MaxPosts : d # NextCmd => Free(d)'
    BY <1>0, <2>1 DEF Posts, JobInv, Free
  <2> QED
    BY <1>0, <2>1, <2>2, <2>3 DEF Posts, JobInv
<1>4. CASE TakeSlot
  <2>1. gJob.done /\ http'.at = "async" /\ ~gJob'.done /\ gJob'.id # 0 /\ UNCHANGED <<cmdQ, cmd, eng>>
    <3>1. gJob.seq + 1 # 0
      BY DEF TypeInv, JobTypeOK, JobObject
    <3> QED
      BY <1>4, <3>1, AtRest DEF TakeSlot, HttpObject
  <2>2. Hands' = Hands
    BY <2>1, Holds DEF MailInv
  <2> QED
    BY <1>0, <2>1, <2>2 DEF JobInv, Free
<1>5. CASE AsyncRefused
  <2>1. http.at = "async" /\ http'.at = "idle" /\ gJob'.done /\ UNCHANGED <<cmdQ, cmd, eng>>
    BY <1>5, AtRest DEF AsyncRefused, TypeInv, JobTypeOK, JobObject
  <2>2. Hands' = Hands
    BY <2>1, Holds DEF MailInv
  <2> QED
    BY <1>0, <2>1, <2>2 DEF JobInv, Free
<1>6. CASE Answered \/ Abandon \/ TimedOut \/ HttpWorks \/ Aside
  <2>1. UNCHANGED <<cmdQ, eng, gJob>> /\ (http'.at = "async" <=> http.at = "async")
    BY <1>0, <1>6, AtRest DEF Answered, Abandon, TimedOut, HttpWorks, Aside, HttpObject
  <2>2. Hands' = Hands
    BY <2>1, Holds DEF MailInv
  <2>3. \A c \in 1..MaxPosts : cmd'[c].async = cmd[c].async
    <3>1. CASE Answered
      BY <3>1 DEF Answered, TypeInv, MailTypeOK, CmdObject
    <3>2. CASE Abandon
      BY <3>2, AbandonSame
    <3>3. CASE UNCHANGED cmd
      BY <3>3
    <3> QED
      BY <1>6, <3>1, <3>2, <3>3 DEF TimedOut, HttpWorks, Aside
  <2> QED
    BY <1>0, <2>1, <2>2, <2>3 DEF JobInv, Free
<1>7. CASE EngineKeeps \/ EngineLooks
  BY <1>0, <1>7 DEF EngineKeeps, EngineLooks, SameCmds, JobInv, Free
<1>8. CASE EngineGives
  <2>1. \A c \in 1..MaxPosts : cmd'[c].async = cmd[c].async
    BY <1>8 DEF EngineGives, TypeInv, MailTypeOK, CmdObject
  <2>2. cmd[eng.c].async = 0
    BY <1>8 DEF EngineGives, MailInv, GivenUp
  <2> QED
    BY <1>0, <1>8, <2>1, <2>2 DEF EngineGives, JobInv, Free
<1>9. ASSUME NEW d \in 1..MaxPosts, EngineFrees(d)
      PROVE  JobInv'
  <2>1. \A c \in 1..MaxPosts : cmd'[c].async = cmd[c].async
    BY <1>9 DEF EngineFrees, TypeInv, MailTypeOK, CmdObject
  <2>2. CASE cmd[d].async = 0
    BY <1>0, <1>9, <2>1, <2>2 DEF EngineFrees, JobInv, Free
  <2>3. CASE cmd[d].async # 0
    <3>1. ~gJob.done /\ http.at # "async"
      BY <1>0, <1>9, <2>3 DEF EngineFrees, JobInv, Free
    <3>2. \A c \in 1..MaxPosts : c # d => Free(c)
      BY <1>0, <1>9, <2>3, <3>1 DEF EngineFrees, JobInv, Free
    <3> QED
      BY <1>9, <2>1, <2>3, <3>1, <3>2 DEF EngineFrees, JobInv, Free
  <2> QED
    BY <2>2, <2>3
<1> QED
  BY <1>1, <1>2, <1>3, <1>4, <1>5, <1>6, <1>7, <1>8, <1>9, Kinds DEF HttpStep, EngineStep

\* So many commands are posted as the number of the next one says.
LEMMA CountPosted ==
  ASSUME NEW k \in Nat, Posted = 1..k
  PROVE  NextCmd = k + 1
<1>1. Cardinality(1..k) = k
  BY FS_Interval
<1> QED
  BY <1>1 DEF NextCmd

\* Commands are posted one after the other.
LEMMA NumberedKept ==
  ASSUME TypeInv, MailInv, [Next]_vars
  PROVE  Numbered'
<1>0. Posted = 1..(NextCmd - 1) /\ NumberLeft /\ NextCmd \in Nat \ {0} /\ http \in HttpObject
  BY DEF MailInv, Numbered, NumberLeft, TypeInv, HttpTypeOK
<1>1. CASE Restart
  <2>1. Posted' = 1..0
    BY <1>1, Restarted DEF Posted
  <2>2. NextCmd' = 1
    BY <2>1, FS_Interval DEF NextCmd
  <2> QED
    BY <1>1, <2>1, <2>2, Restarted DEF Numbered, NumberLeft
<1>2. CASE PostAsync \/ \E type \in Types : \E n \in Names \cup {None} : Post(type, n)
  <2>1. (Posts(0) \/ Posts(gJob.id)) /\ http'.at # "async"
    BY <1>2, PostPosts, PostAsyncPosts
  <2>2. NextCmd \in 1..MaxPosts
    BY <2>1, Fresh DEF Posts
  <2>3. Posted' = Posted \cup {NextCmd}
    BY <2>1, <2>2 DEF Posts, Posted
  <2>4. Posted' = 1..NextCmd
    BY <1>0, <2>3
  <2>5. NextCmd' = NextCmd + 1
    BY <1>0, <2>4, FS_Interval DEF NextCmd
  <2> QED
    BY <1>0, <2>1, <2>4, <2>5 DEF Numbered, NumberLeft
<1>3. ASSUME Posted' = Posted, http'.at = "async" => NextCmd <= MaxPosts
      PROVE  Numbered'
  BY <1>0, <1>3 DEF Numbered, NumberLeft, NextCmd
<1>4. CASE TakeSlot \/ AsyncRefused \/ TimedOut \/ HttpWorks \/ Aside
  <2>1. Posted' = Posted
    BY <1>4 DEF TakeSlot, AsyncRefused, TimedOut, HttpWorks, Aside, Posted
  <2>2. http'.at = "async" => NextCmd <= MaxPosts
    BY <1>0, <1>4, AtRest DEF TakeSlot, AsyncRefused, TimedOut, HttpWorks, Aside, HttpObject, NumberLeft
  <2> QED
    BY <1>3, <2>1, <2>2
<1>5. CASE Answered \/ Abandon
  <2>1. http.at \in Waits /\ http'.at = "idle"
    BY <1>5, AtRest DEF Answered, Abandon, Waits
  <2>2. http.c \in 1..MaxPosts
    <3>1. http.c # 0 /\ http.c \in 0..MaxPosts
      BY <2>1 DEF MailInv, ClientPlace, TypeInv, HttpTypeOK, HttpObject
    <3> QED
      BY <3>1, Numbers
  <2>3. cmd[http.c].mem = "live"
    BY <2>2 DEF MailInv, CmdInv, ClientHas
  <2>4. \A c \in 1..MaxPosts : cmd'[c].mem = "none" <=> cmd[c].mem = "none"
    <3>1. CASE Answered
      BY <2>2, <2>3, <3>1 DEF Answered, TypeInv, MailTypeOK, CmdObject
    <3>2. CASE Abandon
      BY <3>2, AbandonSame
    <3> QED
      BY <1>5, <3>1, <3>2
  <2> QED
    BY <1>3, <2>1, <2>4 DEF Posted
<1>6. CASE EngineStep
  <2>1. http' = http
    BY <1>6 DEF EngineStep, EngineKeeps, EngineLooks, EngineGives, EngineFrees
  <2>2. \A c \in 1..MaxPosts : cmd'[c].mem = "none" <=> cmd[c].mem = "none"
    <3>1. CASE EngineKeeps \/ EngineLooks
      BY <3>1 DEF EngineKeeps, EngineLooks, SameCmds
    <3>2. CASE EngineGives
      BY <3>2 DEF EngineGives, TypeInv, MailTypeOK, CmdObject
    <3>3. ASSUME NEW d \in 1..MaxPosts, EngineFrees(d)
          PROVE  \A c \in 1..MaxPosts : cmd'[c].mem = "none" <=> cmd[c].mem = "none"
      <4>1. cmd[d].mem = "live"
        BY <3>3 DEF EngineFrees, MailInv, CmdInv, EngineHas
      <4> QED
        BY <3>3, <4>1 DEF EngineFrees, TypeInv, MailTypeOK, CmdObject
    <3> QED
      BY <1>6, <3>1, <3>2, <3>3 DEF EngineStep
  <2> QED
    BY <1>0, <1>3, <2>1, <2>2 DEF Posted, NumberLeft
<1> QED
  BY <1>1, <1>2, <1>4, <1>5, <1>6, Kinds DEF HttpStep

-----------------------------------------------------------------------------
(* The theorems *)

\* The invariant holds at the start and is kept by every step.
LEMMA BoardBegins == Init => BoardInv
<1> SUFFICES ASSUME Init PROVE BoardInv
  OBVIOUS
<1>1. cmdQ = <<>> /\ eng.c = 0 /\ eng.man = 0 /\ eng.at = "loop" /\ http.c = 0 /\ http.at = "idle"
  BY AtRest DEF Init
<1>2. Queued = {} /\ Hands = {} /\ NoTwice
  BY <1>1 DEF Queued, Hands, NoTwice
<1>3. \A c \in 1..MaxPosts : cmd[c].mem = "none" /\ cmd[c].async = 0 /\ c # 0
  BY Numbers DEF Init, NoCmd
<1>4. Posted = 1..0
  BY <1>3 DEF Posted
<1>5. NextCmd = 1
  BY <1>4, FS_Interval DEF NextCmd
<1>6. gJob.done
  BY DEF Init, NoJob
<1>7. Parted /\ ManualPlace /\ ClientPlace /\ GivenUp
  BY <1>1, <1>2 DEF Parted, ManualPlace, ClientPlace, GivenUp, Waits
<1>8. CmdInv /\ JobInv
  BY <1>1, <1>2, <1>3, <1>6 DEF CmdInv, EngineHas, ClientHas, NobodyHas, AsyncKept, JobInv, Free
<1>9. Numbered
  BY <1>1, <1>4, <1>5 DEF Numbered, NumberLeft
<1> QED
  BY <1>7, <1>8, <1>9, TypesBegin DEF BoardInv, MailInv

\* ... and stays so.
LEMMA BoardKept == BoardInv /\ [Next]_vars => BoardInv'
<1> SUFFICES ASSUME BoardInv, [Next]_vars PROVE BoardInv'
  OBVIOUS
<1>1. TypeInv'
  BY TypesKept DEF BoardInv, MailInv, Numbered
<1> QED
  BY <1>1, PartedKept, ManualKept, ClientPlaceKept, CmdKept, GivenUpKept, JobKept, NumberedKept DEF BoardInv, MailInv

\* The invariant holds throughout.
THEOREM BoardCorrect == Spec => []BoardInv
  BY BoardBegins, BoardKept, PTL DEF Spec

\* The types; the queue, the number of commands, and what is read of a file stay within their bounds.
THEOREM TypeCorrect == Spec => []TypeOK
<1>1. BoardInv => TypeOK
  BY TypeParts DEF BoardInv
<1> QED
  BY <1>1, BoardCorrect, PTL

\* Neither side uses a command that the other side has freed, however late the answer and however early the client.
THEOREM NoUseAfterFreeCorrect == Spec => []NoUseAfterFree
<1>1. BoardInv => NoUseAfterFree
  <2> SUFFICES ASSUME BoardInv, NEW c \in Held PROVE cmd[c].mem = "live"
    BY DEF NoUseAfterFree
  <2>1. c \in Hands \/ (c = http.c /\ c # 0)
    BY DEF Held, Hands, Queued
  <2>2. c \in 1..MaxPosts
    <3>1. Hands \subseteq 1..MaxPosts /\ http.c \in 0..MaxPosts
      BY HandsTyped DEF BoardInv, TypeInv, HttpTypeOK, HttpObject
    <3>2. \A d \in 0..MaxPosts : d # 0 => d \in 1..MaxPosts
      BY Numbers
    <3> QED
      BY <2>1, <3>1, <3>2
  <2> QED
    BY <2>1, <2>2 DEF BoardInv, MailInv, CmdInv, EngineHas, ClientHas
<1> QED
  BY <1>1, BoardCorrect, PTL

\* Every command is freed that nobody has in hand any more, but for one given up while the engine answered it.
THEOREM OnlyTheEdgeLeaksCorrect == Spec => []OnlyTheEdgeLeaks
<1>1. BoardInv => OnlyTheEdgeLeaks
  <2> SUFFICES ASSUME BoardInv, NEW c \in Posted, cmd[c].mem = "live", c \notin Held
               PROVE  cmd[c].abandoned = "too late"
    BY DEF OnlyTheEdgeLeaks
  <2>1. c \in 1..MaxPosts /\ c # 0
    BY Numbers DEF Posted
  <2>2. c \notin Hands /\ http.c # c
    BY <2>1 DEF Held, Hands, Queued
  <2> QED
    BY <2>1, <2>2 DEF BoardInv, MailInv, CmdInv, NobodyHas
<1> QED
  BY <1>1, BoardCorrect, PTL

\* The slot of asynchronous commands is taken exactly while its command, and no other, is on its way.
THEOREM JobHasItsCommandCorrect == Spec => []JobHasItsCommand
<1>1. BoardInv => JobHasItsCommand
  <2> SUFFICES ASSUME BoardInv PROVE JobHasItsCommand
    OBVIOUS
  <2>1. Hands \subseteq 1..MaxPosts /\ http.c \in 0..MaxPosts
    BY HandsTyped DEF BoardInv, TypeInv, HttpTypeOK, HttpObject
  <2>2. \A c \in Held : cmd[c].async # 0 <=> c \in Hands /\ cmd[c].async # 0
    BY <2>1, Numbers DEF Held, Hands, Queued, BoardInv, MailInv, CmdInv, ClientHas
  <2>3. {c \in Held : cmd[c].async # 0} = {c \in Hands : cmd[c].async # 0}
    BY <2>2 DEF Held, Hands, Queued
  <2>4. JobInv
    BY DEF BoardInv, MailInv
  <2>5. CASE gJob.done
    BY <2>1, <2>3, <2>4, <2>5 DEF JobInv, Free, JobHasItsCommand
  <2>6. CASE ~gJob.done /\ http.at = "async"
    BY <2>1, <2>3, <2>4, <2>6 DEF JobInv, Free, JobHasItsCommand
  <2>7. CASE ~gJob.done /\ http.at # "async"
    <3>1. PICK c \in 1..MaxPosts : /\ c \in Hands /\ cmd[c].async = gJob.id
                                  /\ \A d \in 1..MaxPosts : d # c => Free(d)
      BY <2>4, <2>7 DEF JobInv
    <3>2. cmd[c].async # 0
      BY <2>4, <2>7, <3>1 DEF JobInv
    <3>3. {d \in Held : cmd[d].async # 0} = {c}
      BY <2>1, <2>3, <3>1, <3>2 DEF Free
    <3> QED
      BY <2>7, <3>1, <3>3 DEF JobHasItsCommand
  <2> QED
    BY <2>5, <2>6, <2>7
<1> QED
  BY <1>1, BoardCorrect, PTL

\* The card's lock is given back only by the task that took it: when the engine goes without it, because it waited too
\* long, it gives nothing back.
THEOREM LockGivenByHolderCorrect == Spec => LockGivenByHolder
<1> DEFINE Mine == /\ sd = "http" /\ sd' # "http" => http' # http
                   /\ sd = "log" /\ sd' # "log" => UNCHANGED <<http, eng>>
<1>1. TypeInv /\ [Next]_vars => (crashes' = crashes => Mine)
  <2> SUFFICES ASSUME TypeInv, [Next]_vars, crashes' = crashes
               PROVE  Mine
    OBVIOUS
  <2>0. http \in HttpObject
    BY DEF TypeInv, HttpTypeOK
  <2>1. ~Restart
    BY DEF Restart, TypeInv, HistTypeOK
  <2>2. CASE UploadWrite
    BY <2>0, <2>2, AtRest DEF UploadWrite, HttpObject
  <2>3. CASE UploadWritten
    BY <2>0, <2>3, AtRest DEF UploadWritten, GiveCard, HttpObject
  <2>4. CASE UploadLocks
    BY <2>0, <2>4, AtRest DEF UploadLocks, HttpObject
  <2>5. CASE UploadRenames
    BY <2>0, <2>5, AtRest DEF UploadRenames, GiveCard, HttpObject
  <2>6. CASE UploadDiscards
    BY <2>0, <2>6, AtRest DEF UploadDiscards, GiveCard, HttpObject
  <2>7. CASE DeleteChecked
    BY <2>0, <2>7, AtRest DEF DeleteChecked, GiveCard, HttpObject
  <2>8. CASE DeleteRemoves
    BY <2>0, <2>8, AtRest DEF DeleteRemoves, GiveCard, HttpObject
  <2>9. CASE LogGivesCard
    BY <2>0, <2>9, AtRest DEF LogGivesCard, HttpObject
  <2>10. CASE UploadFails
    BY <2>0, <2>10, AtRest DEF UploadFails, GiveCard, HttpObject
  <2>11. CASE LogTakesCard
    BY <2>0, <2>11, AtRest DEF LogTakesCard, HttpObject
  <2>12. ASSUME NEW type, NEW m, Post(type, m) \/ UploadBegin(m) \/ DeleteLocks(m)
        PROVE  Mine
    BY <2>12 DEF Post, UploadBegin, DeleteLocks, cardVars
  <2>13. CASE UNCHANGED sd
    BY <2>13
  <2>14. CASE TakeSlot \/ PostAsync \/ AsyncRefused \/ Answered \/ Abandon \/ UploadChecked \/ UploadRemoves \/
              AnswerAsync \/ AnswerLooks \/ AnswerGives \/ Connect \/ Disconnect \/ Gcode \/ Executed \/ Discard \/
              Discarded \/ NoPrint \/ Start \/ LookForFile \/ Claim \/ OpenFails \/ Open \/ Begins \/ PauseOrResume
              \/ Stop \/ Stopped \/ PrintGcode \/ BusyPrinting \/ SendManual \/ ManualAcked \/ Fill \/ NextCell \/
              Finished \/ ManualEnds \/ CloseFile \/ RecordEnd \/ JournalEnd \/ AutoConnectTick \/ AutoResume \/
              JournalTick \/ TimedOut \/ PrintFails \/ FillBusy \/ UNCHANGED vars
    BY <2>14, <2>13 DEF TakeSlot, PostAsync, AsyncRefused, Answered, Abandon, UploadChecked, UploadRemoves,
       AnswerAsync, AnswerLooks, AnswerGives, Connect, Disconnect, Gcode, Executed, Discard, Discarded, NoPrint,
       Start, LookForFile, Claim, OpenFails, Open, Begins, PauseOrResume, Stop, Stopped, PrintGcode, BusyPrinting,
       SendManual, ManualAcked, Fill, NextCell, Finished, ManualEnds, CloseFile, RecordEnd, JournalEnd,
       AutoConnectTick, AutoResume, JournalTick, TimedOut, PrintFails, FillBusy, vars, cardVars
  <2> QED
    BY <2>1, <2>2, <2>3, <2>4, <2>5, <2>6, <2>7, <2>8, <2>9, <2>10, <2>11, <2>12, <2>13, <2>14 DEF Next, Clients,
       Server, Engine, Faulty
<1>2. BoardInv => TypeInv
  BY DEF BoardInv
<1>3. BoardInv /\ [Next]_vars
        => (crashes' = crashes => /\ sd = "http" /\ sd' # "http" => http' # http
                                  /\ sd = "log" /\ sd' # "log" => <<http, eng>>' = <<http, eng>>)
  BY <1>1, <1>2
<1> QED
  BY <1>3, BoardCorrect, PTL DEF Spec, LockGivenByHolder
=============================================================================

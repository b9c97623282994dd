-------------------------- MODULE BoardFiles_proofs --------------------------
(***************************************************************************)
(* Proofs about the board's two tasks, third part: the files.  What is     *)
(* printed, and what an interrupted print will go on with, is not touched; *)
(* an upload is whole or nothing.                                          *)
(***************************************************************************)
EXTENDS Board_proofs

-----------------------------------------------------------------------------
(* The invariant *)

\* What the engine is doing, an answer in between left aside.
Doing == IF eng.at \in {"answers", "gives"} THEN eng.then ELSE eng.at

Elsewhere == {"loop", "executes", "looks", "claims"}
Running   == {"opens", "begins", "prints", "stops"}
\* The journal names the print the engine is busy with.
Journaled == {"prints", "stops", "closing", "recording", "journals"}

\* A handler has had its last look at the file and is about to remove or replace it.
Risky      == {"checked", "replaces", "renames", "removes"}
Touches(n) == http.at \in Risky /\ http.file.name = n

\* printerFileInUse knows of a print from its claim to its end.
Owned == Doing \in Running => /\ gState \in {"PRINTING", "PAUSED"}
                              /\ gFile = eng.file.name /\ eng.file.name \in Names

\* Nobody is about to touch its file, nor one the board will go on with by itself.
Safe     == Doing \in Running /\ "late" \notin holes => ~Touches(eng.file.name)
AutoSafe == gInt.auto => ~Touches(gInt.name)

\* The file is the one that was opened.
SameFile == Doing \in (Running \ {"opens"}) /\ "late" \notin holes => files[eng.file.name] = eng.file.ver

\* The interrupted print is the one of the journal, except where one of the two is already ahead.
IntIs(f) == gInt.name = f.name /\ (f.name # None => gInt.ver = f.ver)
JournalAt ==
    /\ Doing \in Journaled => journal = eng.file
    /\ Doing \in (Journaled \ {"journals"}) \cup {"begins", "discards"} => gInt.name = None
    /\ Doing = "journals" => IF gState = "ERROR" THEN IntIs(eng.file) ELSE gInt.name = None
    /\ Doing = "discards" /\ journal.name # None => journal = eng.file
    /\ Doing \in Elsewhere \cup {"opens"} => IntIs(journal)

\* Its file is as it was, and nobody is about to touch it.
JournalKept == journal.name # None => files[journal.name] = journal.ver /\ ~Touches(journal.name)

Recorded == holes = {} => JournalAt /\ JournalKept

UseInv == Owned /\ Safe /\ AutoSafe /\ SameFile /\ Recorded

-----------------------------------------------------------------------------
(* The kinds of step *)

Places == Elsewhere \cup Running \cup Journaled \cup {"discards"}

\* The engine goes on with the same file, or with none.
EngineAside ==
    /\ UNCHANGED <<files, http, gInt, journal, holes>>
    /\ \/ Doing \in Elsewhere /\ Doing' \in Elsewhere
       \/ /\ Doing' = Doing \/ (Doing = "closing" /\ Doing' = "recording")
          /\ eng'.file = eng.file /\ gFile' = gFile
          /\ gState' = gState \/ (Doing = "prints" /\ gState' \in {"PRINTING", "PAUSED"})

Unheeded == UNCHANGED <<eng, gState, gFile, gInt, journal>>

\* The web server touches no file, or goes on with the one it is about to touch, or touches it, ...
HttpAside ==
    /\ Unheeded /\ UNCHANGED holes
    /\ \/ http'.at \notin Risky
       \/ http.at \in Risky /\ http'.at \in Risky /\ http'.file = http.file
    /\ UNCHANGED files \/ \E v : http.at \in Risky /\ files' = [files EXCEPT ![http.file.name] = v]

\* ... or looks at one for the last time.
HttpLooks ==
    /\ Unheeded /\ UNCHANGED files
    /\ http'.file = http.file /\ http'.at \in Risky
    /\ ~FileInUse(http.file.name) /\ LastLook(http.file.name)

WebStep == HttpAside \/ HttpLooks

\* The engine's steps: from where to where, and what becomes of its file.
Goes(from, to) == Doing \in from /\ Doing' = to /\ UNCHANGED <<files, http>>
Stays == eng'.file = eng.file

Claims == /\ Goes({"claims"}, "opens") /\ Stays /\ UNCHANGED <<gInt, journal>> /\ eng.file.name \in Names
          /\ gFile' = eng.file.name /\ gState' = "PRINTING"
          /\ holes' = IF Touches(eng.file.name) THEN holes \cup {"late"} ELSE holes
Resumes == /\ Goes({"loop"}, "opens") /\ UNCHANGED <<journal, holes>>
           /\ gInt.auto /\ gInt'.name = gInt.name /\ gInt'.ver = gInt.ver /\ ~gInt'.auto
           /\ gFile' = gInt.name /\ gState' = "PRINTING" /\ eng'.file.name = gInt.name /\ gInt.name \in Names
GivesUp == Goes({"opens"}, "loop") /\ UNCHANGED <<gInt, journal, holes>>
Opens  == /\ Goes({"opens"}, "begins") /\ UNCHANGED <<gState, gFile, journal, holes>>
          /\ gInt' = NoInt
          /\ eng'.file.name = eng.file.name /\ eng'.file.ver = files[eng.file.name]
BeginsIt == Goes({"begins"}, "prints") /\ Stays /\ JournalWrite(eng.file) /\ UNCHANGED <<gState, gFile, gInt>>
Ticks  == Doing = "prints" /\ journal' = eng.file /\ UNCHANGED <<eng, files, http, gState, gFile, gInt, holes>>
StopsIt == Goes({"prints"}, "stops") /\ Stays /\ UNCHANGED <<gState, gFile, gInt, journal, holes>>
EndsIt == Goes({"prints", "stops"}, "closing") /\ Stays /\ UNCHANGED <<gInt, journal, holes>>
Records == /\ Goes({"recording"}, "journals") /\ Stays /\ UNCHANGED <<gState, journal, holes>>
           /\ gState = "ERROR" => gInt' = [name |-> eng.file.name, ver |-> eng.file.ver, auto |-> FALSE]
           /\ gState # "ERROR" => gInt' = gInt
Journals == /\ Goes({"journals"}, "loop") /\ UNCHANGED <<gInt>>
            /\ JournalWrite(IF gState = "ERROR" THEN eng.file ELSE NoFile)
Forgets == /\ Goes({"loop"}, "discards") /\ UNCHANGED <<journal, holes>>
           /\ gInt' = NoInt /\ eng'.file = [name |-> gInt.name, ver |-> gInt.ver]
Forgotten == /\ Goes({"discards"}, "loop") /\ UNCHANGED <<gInt>>
             /\ IF eng.file.name = None THEN UNCHANGED <<journal, holes>> ELSE JournalWrite(NoFile)
Boots == /\ Doing' = "loop" /\ http'.at = "idle" /\ UNCHANGED <<files, journal, holes>>
         /\ gInt'.name = journal.name /\ gInt'.ver = journal.ver

UseStep == \/ EngineAside \/ WebStep \/ Claims \/ Resumes \/ GivesUp \/ Opens \/ BeginsIt \/ Ticks
           \/ StopsIt \/ EndsIt \/ Records \/ Journals \/ Forgets \/ Forgotten \/ Boots

-----------------------------------------------------------------------------
(* Every action is of a kind *)

\* An action of the engine that goes on as before.
LEMMA EngineAsides ==
  ASSUME TypeInv, AnswerAsync \/ AnswerLooks \/ AnswerGives \/ Connect \/ Disconnect \/ Gcode \/ Executed \/ NoPrint
         \/ Start \/ LookForFile \/ PauseOrResume \/ PrintGcode \/ BusyPrinting \/ SendManual \/
         ManualAcked \/ ManualEnds \/ CloseFile \/ AutoConnectTick
  PROVE  EngineAside
<1>0. eng \in EngObject
  BY DEF TypeInv, EngTypeOK
<1>1. CASE AnswerAsync
  BY <1>0, <1>1 DEF AnswerAsync, EngineAside, Doing, EngObject, Stations, Afters, Elsewhere, cardVars, jobVars
<1>2. CASE AnswerLooks
  BY <1>0, <1>2 DEF AnswerLooks, EngineAside, Doing, EngObject, Stations, Afters, Elsewhere, cardVars, jobVars
<1>3. CASE AnswerGives
  BY <1>0, <1>3 DEF AnswerGives, EngineAside, Doing, EngObject, Stations, Afters, Elsewhere, cardVars, jobVars
<1>4. CASE Connect
  BY <1>0, <1>4 DEF Connect, Answering, EngineAside, Doing, EngObject, Stations, Afters, Elsewhere, cardVars
<1>5. CASE Disconnect
  BY <1>0, <1>5 DEF Disconnect, Answering, EngineAside, Doing, EngObject, Stations, Afters, Elsewhere, cardVars
<1>6. CASE Gcode
  BY <1>0, <1>6 DEF Gcode, Answering, EngineAside, Doing, EngObject, Stations, Afters, Elsewhere, cardVars, jobVars
<1>7. CASE Executed
  BY <1>0, <1>7 DEF Executed, Answering, EngineAside, Doing, EngObject, Stations, Afters, Elsewhere, cardVars,
     jobVars
<1>8. CASE NoPrint
  BY <1>0, <1>8 DEF NoPrint, Answering, EngineAside, Doing, EngObject, Stations, Afters, Elsewhere, cardVars,
     jobVars
<1>9. CASE Start
  BY <1>0, <1>9 DEF Start, Answering, EngineAside, Doing, EngObject, Stations, Afters, Elsewhere, cardVars, jobVars
<1>10. CASE LookForFile
  BY <1>0, <1>10 DEF LookForFile, Answering, EngineAside, Doing, EngObject, Stations, Afters, Elsewhere, cardVars,
     jobVars
<1>11. CASE PauseOrResume
  BY <1>0, <1>11 DEF PauseOrResume, Answering, EngineAside, Doing, EngObject, Stations, Afters, Elsewhere, cardVars
<1>12. CASE PrintGcode
  BY <1>0, <1>12 DEF PrintGcode, Answering, EngineAside, Doing, EngObject, Stations, Afters, Elsewhere, cardVars,
     jobVars
<1>13. CASE BusyPrinting
  BY <1>0, <1>13 DEF BusyPrinting, Answering, EngineAside, Doing, EngObject, Stations, Afters, Elsewhere, cardVars,
     jobVars
<1>14. CASE SendManual
  BY <1>0, <1>14 DEF SendManual, EngineAside, Doing, EngObject, Stations, Afters, Elsewhere, cardVars, jobVars
<1>15. CASE ManualAcked
  BY <1>0, <1>15 DEF ManualAcked, EngineAside, Doing, EngObject, Stations, Afters, Elsewhere, cardVars, jobVars
<1>16. CASE ManualEnds
  BY <1>0, <1>16 DEF ManualEnds, EngineAside, Doing, EngObject, Stations, Afters, Elsewhere, cardVars, jobVars
<1>17. CASE CloseFile
  BY <1>0, <1>17 DEF CloseFile, EngineAside, Doing, EngObject, Stations, Afters, Elsewhere, cardVars, jobVars
<1>18. CASE AutoConnectTick
  BY <1>0, <1>18 DEF AutoConnectTick, EngineAside, Doing, EngObject, Stations, Afters, Elsewhere, cardVars
<1> QED
  BY <1>1, <1>2, <1>3, <1>4, <1>5, <1>6, <1>7, <1>8, <1>9, <1>10, <1>11, <1>12, <1>13, <1>14, <1>15, <1>16, <1>17,
     <1>18

\* An action of the web server.
LEMMA WebSteps ==
  ASSUME TypeInv, Clients \/ Server \/ TimedOut \/ UploadFails
  PROVE  WebStep
<1>0. http \in HttpObject
  BY DEF TypeInv, HttpTypeOK
<1>1. ASSUME NEW type \in Types, NEW n \in Names \cup {None}, Post(type, n)
      PROVE  HttpAside
  BY <1>0, <1>1, AtRest DEF Post, HttpAside, Unheeded, Risky, HttpObject, cardVars, jobVars
<1>2. ASSUME TakeSlot PROVE HttpAside
  BY <1>0, <1>2, AtRest DEF TakeSlot, HttpAside, Unheeded, Risky, HttpObject, cardVars, jobVars
<1>3. ASSUME NEW n \in Names, UploadBegin(n)
      PROVE  HttpAside
  BY <1>0, <1>3, AtRest DEF UploadBegin, HttpAside, Unheeded, Risky, HttpObject, jobVars
<1>4. ASSUME NEW n \in Names, DeleteLocks(n)
      PROVE  HttpAside
  BY <1>0, <1>4, AtRest DEF DeleteLocks, HttpAside, Unheeded, Risky, HttpObject, jobVars
<1>5. ASSUME PostAsync PROVE HttpAside
  BY <1>0, <1>5, AtRest DEF PostAsync, HttpAside, Unheeded, Risky, HttpObject, cardVars, jobVars
<1>6. ASSUME AsyncRefused PROVE HttpAside
  BY <1>0, <1>6, AtRest DEF AsyncRefused, HttpAside, Unheeded, Risky, HttpObject, cardVars, jobVars
<1>7. ASSUME Answered PROVE HttpAside
  BY <1>0, <1>7, AtRest DEF Answered, HttpAside, Unheeded, Risky, HttpObject, cardVars, jobVars
<1>8. ASSUME Abandon PROVE HttpAside
  BY <1>0, <1>8, AtRest DEF Abandon, HttpAside, Unheeded, Risky, HttpObject, cardVars, jobVars
<1>9. ASSUME UploadWrite PROVE HttpAside
  BY <1>0, <1>9, AtRest DEF UploadWrite, HttpAside, Unheeded, Risky, HttpObject, jobVars
<1>10. ASSUME UploadWritten PROVE HttpAside
  BY <1>0, <1>10, AtRest DEF UploadWritten, HttpAside, Unheeded, Risky, HttpObject, jobVars
<1>11. CASE UploadChecked
  BY <1>0, <1>11, AtRest DEF UploadChecked, HttpAside, HttpLooks, WebStep, Unheeded, Risky, HttpObject, cardVars,
     jobVars
<1>12. ASSUME UploadLocks PROVE HttpAside
  BY <1>0, <1>12, AtRest DEF UploadLocks, HttpAside, Unheeded, Risky, HttpObject, jobVars
<1>13. ASSUME UploadRemoves PROVE HttpAside
  <2>1. http.at \in Risky /\ UNCHANGED holes /\ Unheeded
    BY <1>13 DEF UploadRemoves, Unheeded, Risky, jobVars
  <2>2. UNCHANGED files \/ \E v : files' = [files EXCEPT ![http.file.name] = v]
    BY <1>13 DEF UploadRemoves
  <2>3. http'.at \notin Risky \/ (http'.at \in Risky /\ http'.file = http.file)
    BY <1>0, <1>13, AtRest DEF UploadRemoves, Risky, HttpObject
  <2> QED
    BY <2>1, <2>2, <2>3 DEF HttpAside
<1>14. ASSUME UploadRenames PROVE HttpAside
  <2>1. http.at \in Risky /\ UNCHANGED holes /\ Unheeded
    BY <1>14 DEF UploadRenames, Unheeded, Risky, jobVars
  <2>2. UNCHANGED files \/ \E v : files' = [files EXCEPT ![http.file.name] = v]
    BY <1>14 DEF UploadRenames
  <2>3. http'.at \notin Risky \/ (http'.at \in Risky /\ http'.file = http.file)
    BY <1>0, <1>14, AtRest DEF UploadRenames, Risky, HttpObject
  <2> QED
    BY <2>1, <2>2, <2>3 DEF HttpAside
<1>15. ASSUME UploadDiscards PROVE HttpAside
  BY <1>0, <1>15, AtRest DEF UploadDiscards, HttpAside, Unheeded, Risky, HttpObject, jobVars
<1>16. CASE DeleteChecked
  BY <1>0, <1>16, AtRest DEF DeleteChecked, HttpAside, HttpLooks, WebStep, Unheeded, Risky, HttpObject, jobVars
<1>17. ASSUME DeleteRemoves PROVE HttpAside
  <2>1. http.at \in Risky /\ UNCHANGED holes /\ Unheeded
    BY <1>17 DEF DeleteRemoves, Unheeded, Risky, jobVars
  <2>2. UNCHANGED files \/ \E v : files' = [files EXCEPT ![http.file.name] = v]
    BY <1>17 DEF DeleteRemoves
  <2>3. http'.at \notin Risky \/ (http'.at \in Risky /\ http'.file = http.file)
    BY <1>0, <1>17, AtRest DEF DeleteRemoves, Risky, HttpObject
  <2> QED
    BY <2>1, <2>2, <2>3 DEF HttpAside
<1>18. ASSUME TimedOut PROVE HttpAside
  BY <1>0, <1>18, AtRest DEF TimedOut, HttpAside, Unheeded, Risky, HttpObject, cardVars, jobVars
<1>19. ASSUME UploadFails PROVE HttpAside
  BY <1>0, <1>19, AtRest DEF UploadFails, HttpAside, Unheeded, Risky, HttpObject, jobVars
<1>20. WebStep
  BY <1>1, <1>2, <1>3, <1>4, <1>5, <1>6, <1>7, <1>8, <1>9, <1>10, <1>11, <1>12, <1>13, <1>14, <1>15, <1>16, <1>17,
     <1>18, <1>19 DEF Clients, Server, WebStep
<1> QED
  BY <1>20

\* Every step is of a kind.
LEMMA UseKinds ==
  ASSUME TypeInv, [Next]_vars
  PROVE  UseStep
<1>0. eng \in EngObject /\ gInt \in IntObject /\ http \in HttpObject
  BY DEF TypeInv, EngTypeOK, JobTypeOK, HttpTypeOK
<1>1. ASSUME Claim PROVE Claims
  BY <1>0, <1>1 DEF Claim, Claims, Answering, Goes, Stays, Touches, Risky, Doing, EngObject, IntObject, cardVars,
     TypeInv, EngTypeOK, Opening
<1>2. ASSUME AutoResume PROVE Resumes
  BY <1>0, <1>2 DEF AutoResume, Resumes, Goes, Doing, EngObject, IntObject, cardVars, TypeInv, JobTypeOK
<1>3. ASSUME OpenFails PROVE GivesUp
  BY <1>0, <1>3, AtRest, Blank DEF OpenFails, GivesUp, Goes, Doing, EngObject, IntObject, cardVars
<1>4. ASSUME Open PROVE Opens
  BY <1>0, <1>4, AtRest, Blank DEF Open, Opens, Goes, Doing, EngObject, IntObject, cardVars, Files
<1>5. ASSUME Begins PROVE BeginsIt
  BY <1>0, <1>5 DEF Begins, BeginsIt, Goes, Stays, Doing, EngObject, IntObject, jobVars
<1>6. ASSUME JournalTick PROVE Ticks
  BY <1>0, <1>6 DEF JournalTick, Ticks, Doing, EngObject, IntObject, jobVars
<1>7. ASSUME Stop PROVE StopsIt
  BY <1>0, <1>7 DEF Stop, StopsIt, Answering, Goes, Stays, Doing, EngObject, IntObject, cardVars, jobVars
<1>8. ASSUME Stopped PROVE EndsIt
  BY <1>0, <1>8 DEF Stopped, EndsIt, Goes, Stays, Doing, EngObject, IntObject, cardVars
<1>9. ASSUME Finished PROVE EndsIt
  BY <1>0, <1>9 DEF Finished, EndsIt, Goes, Stays, Doing, EngObject, IntObject, cardVars
<1>10. ASSUME PrintFails PROVE EndsIt
  BY <1>0, <1>10 DEF PrintFails, EndsIt, Goes, Stays, Doing, EngObject, IntObject, cardVars, SetError
<1>11. ASSUME RecordEnd PROVE Records
  BY <1>0, <1>11 DEF RecordEnd, Records, Goes, Stays, Doing, EngObject, IntObject, cardVars
<1>12. ASSUME JournalEnd PROVE Journals
  BY <1>0, <1>12, AtRest, Blank DEF JournalEnd, Journals, Goes, Doing, EngObject, IntObject, jobVars
<1>13. ASSUME Discard PROVE Forgets
  BY <1>0, <1>13, AtRest, Blank DEF Discard, Forgets, Goes, Doing, EngObject, IntObject, cardVars
<1>14. ASSUME Discarded PROVE Forgotten
  BY <1>0, <1>14 DEF Discarded, Forgotten, Answering, Goes, Doing, EngObject, IntObject, jobVars
<1>15. ASSUME Restart PROVE Boots
  BY <1>0, <1>15, AtRest, Blank DEF Restart, Boots, Doing, EngObject, IntObject
<1>16. CASE Fill \/ NextCell \/ LogGivesCard \/ FillBusy \/ LogTakesCard \/ UNCHANGED vars
  <2>1. UNCHANGED <<files, http, gInt, journal, holes, eng, gState, gFile>>
    BY <1>16 DEF Fill, NextCell, LogGivesCard, FillBusy, LogTakesCard, vars, cardVars, jobVars
  <2> QED
    BY <2>1 DEF EngineAside, Doing, UseStep
<1>17. UseStep
  BY <1>1, <1>2, <1>3, <1>4, <1>5, <1>6, <1>7, <1>8, <1>9, <1>10, <1>11, <1>12, <1>13, <1>14, <1>15, <1>16,
     EngineAsides, WebSteps DEF Next, Clients, Server, Engine, Faulty, UseStep
<1> QED
  BY <1>17

-----------------------------------------------------------------------------
(* Every kind of step keeps the invariant *)

\* printerFileInUse knows of the print.
LEMMA OwnedKept ==
  ASSUME TypeInv, UseInv, UseStep
  PROVE  Owned'
<1>0. Owned
  BY DEF UseInv
<1>b. gInt \in IntObject /\ files \in [Names -> 0..Half] /\ journal \in Files
  BY DEF TypeInv, JobTypeOK, CardTypeOK
<1>1. CASE EngineAside
  BY <1>0, <1>b, <1>1 DEF EngineAside, Owned, Running, Elsewhere
<1>2. CASE HttpAside
  BY <1>0, <1>b, <1>2 DEF HttpAside, Owned, Running, Risky, Unheeded, Doing
<1>3. CASE HttpLooks
  BY <1>0, <1>b, <1>3 DEF HttpLooks, Owned, Running, Risky, Unheeded, Doing, FileInUse, LastLook, InGap
<1>4. CASE Claims
  BY <1>0, <1>b, <1>4 DEF Claims, Owned, Running, Risky, Touches, Goes, Stays
<1>5. CASE Resumes
  BY <1>0, <1>b, <1>5 DEF Resumes, Owned, Running, Goes
<1>6. CASE GivesUp
  BY <1>0, <1>b, <1>6 DEF GivesUp, Owned, Running, Goes
<1>7. CASE Opens
  BY <1>0, <1>b, <1>7 DEF Opens, Owned, Running, Goes, NoInt
<1>8. CASE BeginsIt
  BY <1>0, <1>b, <1>8 DEF BeginsIt, Owned, Running, Goes, Stays, JournalWrite
<1>9. CASE Ticks
  BY <1>0, <1>b, <1>9 DEF Ticks, Owned, Running, Doing
<1>10. CASE StopsIt
  BY <1>0, <1>b, <1>10 DEF StopsIt, Owned, Running, Goes, Stays
<1>11. CASE EndsIt
  BY <1>0, <1>b, <1>11 DEF EndsIt, Owned, Running, Goes, Stays
<1>12. CASE Records
  BY <1>0, <1>b, <1>12 DEF Records, Owned, Running, Goes, Stays
<1>13. CASE Journals
  BY <1>0, <1>b, <1>13 DEF Journals, Owned, Running, Goes, JournalWrite, NoFile
<1>14. CASE Forgets
  BY <1>0, <1>b, <1>14 DEF Forgets, Owned, Running, Goes, Files, NoInt
<1>15. CASE Forgotten
  BY <1>0, <1>b, <1>15 DEF Forgotten, Owned, Running, Goes, JournalWrite, NoFile
<1>16. CASE Boots
  BY <1>0, <1>b, <1>16 DEF Boots, Owned, Running
<1> QED
  BY <1>1, <1>2, <1>3, <1>4, <1>5, <1>6, <1>7, <1>8, <1>9, <1>10, <1>11, <1>12, <1>13, <1>14, <1>15, <1>16 DEF
     UseStep, WebStep

\* Nobody is about to touch the file of the print.
LEMMA SafeKept ==
  ASSUME TypeInv, UseInv, UseStep
  PROVE  Safe'
<1>0. Safe /\ Owned /\ AutoSafe
  BY DEF UseInv
<1>b. gInt \in IntObject /\ files \in [Names -> 0..Half] /\ journal \in Files
  BY DEF TypeInv, JobTypeOK, CardTypeOK
<1>1. CASE EngineAside
  BY <1>0, <1>b, <1>1 DEF EngineAside, AutoSafe, Owned, Safe, Running, Elsewhere, Risky, Touches
<1>2. CASE HttpAside
  BY <1>0, <1>b, <1>2 DEF HttpAside, AutoSafe, Owned, Safe, Running, Risky, Touches, Unheeded, Doing
<1>3. CASE HttpLooks
  BY <1>0, <1>b, <1>3 DEF HttpLooks, AutoSafe, Owned, Safe, Running, Risky, Touches, Unheeded, Doing, FileInUse,
     LastLook, InGap
<1>4. CASE Claims
  BY <1>0, <1>b, <1>4 DEF Claims, AutoSafe, Owned, Safe, Running, Risky, Touches, Goes, Stays
<1>5. CASE Resumes
  BY <1>0, <1>b, <1>5 DEF Resumes, AutoSafe, Owned, Safe, Running, Risky, Touches, Goes
<1>6. CASE GivesUp
  BY <1>0, <1>b, <1>6 DEF GivesUp, AutoSafe, Owned, Safe, Running, Risky, Touches, Goes
<1>7. CASE Opens
  BY <1>0, <1>b, <1>7 DEF Opens, AutoSafe, Owned, Safe, Running, Risky, Touches, Goes, NoInt
<1>8. CASE BeginsIt
  BY <1>0, <1>b, <1>8 DEF BeginsIt, AutoSafe, Owned, Safe, Running, Risky, Touches, Goes, Stays, JournalWrite
<1>9. CASE Ticks
  BY <1>0, <1>b, <1>9 DEF Ticks, AutoSafe, Owned, Safe, Running, Risky, Touches, Doing
<1>10. CASE StopsIt
  BY <1>0, <1>b, <1>10 DEF StopsIt, AutoSafe, Owned, Safe, Running, Risky, Touches, Goes, Stays
<1>11. CASE EndsIt
  BY <1>0, <1>b, <1>11 DEF EndsIt, AutoSafe, Owned, Safe, Running, Risky, Touches, Goes, Stays
<1>12. CASE Records
  BY <1>0, <1>b, <1>12 DEF Records, AutoSafe, Owned, Safe, Running, Risky, Touches, Goes, Stays
<1>13. CASE Journals
  BY <1>0, <1>b, <1>13 DEF Journals, AutoSafe, Owned, Safe, Running, Risky, Touches, Goes, JournalWrite, NoFile
<1>14. CASE Forgets
  BY <1>0, <1>b, <1>14 DEF Forgets, AutoSafe, Owned, Safe, Running, Risky, Touches, Goes, Files, NoInt
<1>15. CASE Forgotten
  BY <1>0, <1>b, <1>15 DEF Forgotten, AutoSafe, Owned, Safe, Running, Risky, Touches, Goes, JournalWrite, NoFile
<1>16. CASE Boots
  BY <1>0, <1>b, <1>16 DEF Boots, AutoSafe, Owned, Safe, Running, Risky, Touches
<1> QED
  BY <1>1, <1>2, <1>3, <1>4, <1>5, <1>6, <1>7, <1>8, <1>9, <1>10, <1>11, <1>12, <1>13, <1>14, <1>15, <1>16 DEF
     UseStep, WebStep

\* Nobody is about to touch a file the board will go on with.
LEMMA AutoSafeKept ==
  ASSUME TypeInv, UseInv, UseStep
  PROVE  AutoSafe'
<1>0. AutoSafe
  BY DEF UseInv
<1>b. gInt \in IntObject /\ files \in [Names -> 0..Half] /\ journal \in Files
  BY DEF TypeInv, JobTypeOK, CardTypeOK
<1>1. CASE EngineAside
  BY <1>0, <1>b, <1>1 DEF EngineAside, AutoSafe, Elsewhere, Risky, Touches, IntObject
<1>2. CASE HttpAside
  BY <1>0, <1>b, <1>2 DEF HttpAside, AutoSafe, Risky, Touches, Unheeded, IntObject
<1>3. CASE HttpLooks
  BY <1>0, <1>b, <1>3 DEF HttpLooks, AutoSafe, Risky, Touches, Unheeded, FileInUse, LastLook, InGap, IntObject
<1>4. CASE Claims
  BY <1>0, <1>b, <1>4 DEF Claims, AutoSafe, Risky, Touches, Goes, Stays, IntObject
<1>5. CASE Resumes
  BY <1>0, <1>b, <1>5 DEF Resumes, AutoSafe, Risky, Touches, Goes, IntObject
<1>6. CASE GivesUp
  BY <1>0, <1>b, <1>6 DEF GivesUp, AutoSafe, Risky, Touches, Goes, IntObject
<1>7. CASE Opens
  BY <1>0, <1>b, <1>7 DEF Opens, AutoSafe, Risky, Touches, Goes, NoInt, IntObject
<1>8. CASE BeginsIt
  BY <1>0, <1>b, <1>8 DEF BeginsIt, AutoSafe, Risky, Touches, Goes, Stays, JournalWrite, IntObject
<1>9. CASE Ticks
  BY <1>0, <1>b, <1>9 DEF Ticks, AutoSafe, Risky, Touches, Doing, IntObject
<1>10. CASE StopsIt
  BY <1>0, <1>b, <1>10 DEF StopsIt, AutoSafe, Risky, Touches, Goes, Stays, IntObject
<1>11. CASE EndsIt
  BY <1>0, <1>b, <1>11 DEF EndsIt, AutoSafe, Risky, Touches, Goes, Stays, IntObject
<1>12. CASE Records
  BY <1>0, <1>b, <1>12 DEF Records, AutoSafe, Risky, Touches, Goes, Stays, IntObject
<1>13. CASE Journals
  BY <1>0, <1>b, <1>13 DEF Journals, AutoSafe, Risky, Touches, Goes, JournalWrite, NoFile, IntObject
<1>14. CASE Forgets
  BY <1>0, <1>b, <1>14 DEF Forgets, AutoSafe, Risky, Touches, Goes, Files, NoInt, IntObject
<1>15. CASE Forgotten
  BY <1>0, <1>b, <1>15 DEF Forgotten, AutoSafe, Risky, Touches, Goes, JournalWrite, NoFile, IntObject
<1>16. CASE Boots
  BY <1>0, <1>b, <1>16 DEF Boots, AutoSafe, Risky, Touches, IntObject
<1> QED
  BY <1>1, <1>2, <1>3, <1>4, <1>5, <1>6, <1>7, <1>8, <1>9, <1>10, <1>11, <1>12, <1>13, <1>14, <1>15, <1>16 DEF
     UseStep, WebStep

\* The file of the print is the one opened.
LEMMA SameFileKept ==
  ASSUME TypeInv, UseInv, UseStep
  PROVE  SameFile'
<1>0. SameFile /\ Safe /\ Owned
  BY DEF UseInv
<1>b. gInt \in IntObject /\ files \in [Names -> 0..Half] /\ journal \in Files
  BY DEF TypeInv, JobTypeOK, CardTypeOK
<1>1. CASE EngineAside
  BY <1>0, <1>b, <1>1 DEF EngineAside, Owned, Safe, SameFile, Running, Elsewhere, Risky, Touches
<1>2. CASE HttpAside
  <2>1. ASSUME NEW n \in Names, ~Touches(n)
        PROVE  files'[n] = files[n] /\ ~Touches(n)'
    BY <1>b, <1>2, <2>1 DEF HttpAside, Touches
  <2> QED
    BY <1>0, <1>2, <2>1 DEF HttpAside, Unheeded, SameFile, Safe, Owned, Running, Doing
<1>3. CASE HttpLooks
  BY <1>0, <1>b, <1>3 DEF HttpLooks, Owned, Safe, SameFile, Running, Risky, Touches, Unheeded, Doing, FileInUse,
     LastLook, InGap
<1>4. CASE Claims
  BY <1>0, <1>b, <1>4 DEF Claims, Owned, Safe, SameFile, Running, Risky, Touches, Goes, Stays
<1>5. CASE Resumes
  BY <1>0, <1>b, <1>5 DEF Resumes, Owned, Safe, SameFile, Running, Risky, Touches, Goes
<1>6. CASE GivesUp
  BY <1>0, <1>b, <1>6 DEF GivesUp, Owned, Safe, SameFile, Running, Risky, Touches, Goes
<1>7. CASE Opens
  BY <1>0, <1>b, <1>7 DEF Opens, Owned, Safe, SameFile, Running, Risky, Touches, Goes, NoInt
<1>8. CASE BeginsIt
  BY <1>0, <1>b, <1>8 DEF BeginsIt, Owned, Safe, SameFile, Running, Risky, Touches, Goes, Stays, JournalWrite
<1>9. CASE Ticks
  BY <1>0, <1>b, <1>9 DEF Ticks, Owned, Safe, SameFile, Running, Risky, Touches, Doing
<1>10. CASE StopsIt
  BY <1>0, <1>b, <1>10 DEF StopsIt, Owned, Safe, SameFile, Running, Risky, Touches, Goes, Stays
<1>11. CASE EndsIt
  BY <1>0, <1>b, <1>11 DEF EndsIt, Owned, Safe, SameFile, Running, Risky, Touches, Goes, Stays
<1>12. CASE Records
  BY <1>0, <1>b, <1>12 DEF Records, Owned, Safe, SameFile, Running, Risky, Touches, Goes, Stays
<1>13. CASE Journals
  BY <1>0, <1>b, <1>13 DEF Journals, Owned, Safe, SameFile, Running, Risky, Touches, Goes, JournalWrite, NoFile
<1>14. CASE Forgets
  BY <1>0, <1>b, <1>14 DEF Forgets, Owned, Safe, SameFile, Running, Risky, Touches, Goes, Files, NoInt
<1>15. CASE Forgotten
  BY <1>0, <1>b, <1>15 DEF Forgotten, Owned, Safe, SameFile, Running, Risky, Touches, Goes, JournalWrite, NoFile
<1>16. CASE Boots
  BY <1>0, <1>b, <1>16 DEF Boots, Owned, Safe, SameFile, Running, Risky, Touches
<1> QED
  BY <1>1, <1>2, <1>3, <1>4, <1>5, <1>6, <1>7, <1>8, <1>9, <1>10, <1>11, <1>12, <1>13, <1>14, <1>15, <1>16 DEF
     UseStep, WebStep

\* A way around the protection once taken is remembered.
LEMMA Monotone ==
  ASSUME UseStep, holes' = {}
  PROVE  holes = {}
  BY DEF UseStep, WebStep, EngineAside, HttpAside, HttpLooks, LastLook, Claims, Resumes, GivesUp, Opens, BeginsIt,
     Ticks, StopsIt, EndsIt, Records, Journals, Forgets, Forgotten, Boots, JournalWrite

\* A journal that could not be written is remembered too.
LEMMA JournalSays ==
  ASSUME NEW f, JournalWrite(f), holes' = {}
  PROVE  journal' = f
  BY DEF JournalWrite

\* The journal and the interrupted print agree.
LEMMA JournalAtKept ==
  ASSUME TypeInv, UseInv, UseStep, holes' = {}
  PROVE  JournalAt'
<1>0. Owned /\ Safe /\ SameFile
  BY DEF UseInv
<1>a. holes = {} /\ JournalAt /\ JournalKept
  BY Monotone DEF UseInv, Recorded
<1>b. gInt \in IntObject /\ files \in [Names -> 0..Half] /\ journal \in Files
  BY DEF TypeInv, JobTypeOK, CardTypeOK
<1>1. CASE EngineAside
  BY <1>0, <1>a, <1>b, <1>1 DEF EngineAside, JournalAt, Elsewhere, Journaled, IntIs
<1>2. CASE HttpAside
  BY <1>0, <1>a, <1>b, <1>2 DEF HttpAside, JournalAt, Elsewhere, Journaled, Risky, Unheeded, Doing, IntIs
<1>3. CASE HttpLooks
  BY <1>0, <1>a, <1>b, <1>3 DEF HttpLooks, JournalAt, Elsewhere, Journaled, Risky, Unheeded, Doing, FileInUse,
     LastLook, InGap, IntIs
<1>4. CASE Claims
  BY <1>0, <1>a, <1>b, <1>4 DEF Claims, JournalAt, Elsewhere, Journaled, Risky, Touches, Goes, Stays, IntIs
<1>5. CASE Resumes
  BY <1>0, <1>a, <1>b, <1>5 DEF Resumes, JournalAt, Elsewhere, Journaled, Goes, IntIs
<1>6. CASE GivesUp
  BY <1>0, <1>a, <1>b, <1>6 DEF GivesUp, JournalAt, Elsewhere, Journaled, Goes, IntIs
<1>7. CASE Opens
  BY <1>0, <1>a, <1>b, <1>7 DEF Opens, JournalAt, Elsewhere, Journaled, Goes, NoInt, IntIs
<1>8. CASE BeginsIt
  BY <1>0, <1>a, <1>b, <1>8, JournalSays DEF BeginsIt, JournalAt, Elsewhere, Journaled, Goes, Stays, IntIs
<1>9. CASE Ticks
  BY <1>0, <1>a, <1>b, <1>9 DEF Ticks, JournalAt, Elsewhere, Journaled, Doing, IntIs
<1>10. CASE StopsIt
  BY <1>0, <1>a, <1>b, <1>10 DEF StopsIt, JournalAt, Elsewhere, Journaled, Goes, Stays, IntIs
<1>11. CASE EndsIt
  BY <1>0, <1>a, <1>b, <1>11 DEF EndsIt, JournalAt, Elsewhere, Journaled, Goes, Stays, IntIs
<1>12. CASE Records
  BY <1>0, <1>a, <1>b, <1>12 DEF Records, JournalAt, Elsewhere, Journaled, Goes, Stays, IntIs
<1>13. CASE Journals
  BY <1>0, <1>a, <1>b, <1>13, JournalSays DEF Journals, JournalAt, Elsewhere, Journaled, Goes, NoFile, IntIs
<1>14. CASE Forgets
  <2>1. IntIs(journal) /\ gInt'.name = None /\ Doing' = "discards"
        /\ eng'.file = [name |-> gInt.name, ver |-> gInt.ver] /\ journal' = journal
    BY <1>a, <1>14 DEF Forgets, Goes, JournalAt, Elsewhere, NoInt
  <2>2. journal.name # None => journal = [name |-> gInt.name, ver |-> gInt.ver]
    BY <1>b, <2>1 DEF IntIs, Files
  <2> QED
    BY <2>1, <2>2 DEF JournalAt, Journaled, Elsewhere
<1>15. CASE Forgotten
  BY <1>0, <1>a, <1>b, <1>15, JournalSays DEF Forgotten, JournalAt, Elsewhere, Journaled, Goes, NoFile, IntIs
<1>16. CASE Boots
  BY <1>0, <1>a, <1>b, <1>16 DEF Boots, JournalAt, Elsewhere, Journaled, IntIs
<1> QED
  BY <1>1, <1>2, <1>3, <1>4, <1>5, <1>6, <1>7, <1>8, <1>9, <1>10, <1>11, <1>12, <1>13, <1>14, <1>15, <1>16 DEF
     UseStep, WebStep

\* The file the journal names is as it was.
LEMMA JournalKeptKept ==
  ASSUME TypeInv, UseInv, UseStep, holes' = {}
  PROVE  JournalKept'
<1>0. Owned /\ Safe /\ SameFile
  BY DEF UseInv
<1>a. holes = {} /\ JournalAt /\ JournalKept
  BY Monotone DEF UseInv, Recorded
<1>b. gInt \in IntObject /\ files \in [Names -> 0..Half] /\ journal \in Files
  BY DEF TypeInv, JobTypeOK, CardTypeOK
<1>c. eng \in EngObject
  BY DEF TypeInv, EngTypeOK
<1>1. CASE EngineAside
  BY <1>0, <1>a, <1>b, <1>1 DEF EngineAside, JournalAt, JournalKept, Owned, Safe, SameFile, Running, Elsewhere,
     Journaled, Risky, Touches, IntIs
<1>2. CASE HttpAside
  <2>1. ASSUME NEW n \in Names, ~Touches(n)
        PROVE  files'[n] = files[n] /\ ~Touches(n)'
    BY <1>b, <1>2, <2>1 DEF HttpAside, Touches
  <2> QED
    <3>1. journal' = journal
      BY <1>2 DEF HttpAside, Unheeded
    <3>2. journal.name # None => journal.name \in Names
      BY <1>b DEF Files
    <3>3. CASE journal.name = None
      BY <3>1, <3>3 DEF JournalKept
    <3>4. CASE journal.name # None
      BY <1>a, <2>1, <3>1, <3>2, <3>4 DEF JournalKept, Touches
    <3> QED
      BY <3>3, <3>4
<1>3. CASE HttpLooks
  <2>1. ~InGap(http.file.name) /\ ~FileInUse(http.file.name)
    BY <1>3 DEF HttpLooks, LastLook
  <2>2. ASSUME journal.name = http.file.name, journal.name # None
        PROVE  FALSE
    <3>1. CASE Doing \in {"prints", "stops"}
      BY <1>0, <1>a, <2>1, <2>2, <3>1 DEF JournalAt, Owned, Journaled, Running, FileInUse
    <3>2. CASE Doing \in {"closing", "recording", "journals"}
      BY <1>a, <1>c, <2>1, <2>2, <3>2 DEF JournalAt, Journaled, Doing, InGap, EngObject, Afters
    <3>3. CASE Doing \in {"begins", "discards"}
      BY <1>a, <1>c, <2>1, <2>2, <3>3 DEF JournalAt, Doing, InGap, EngObject, Afters
    <3>4. CASE Doing \in Elsewhere \cup {"opens"}
      BY <1>a, <2>1, <2>2, <3>4 DEF JournalAt, IntIs, FileInUse
    <3>5. Doing \in Elsewhere \cup Journaled \cup {"opens", "begins", "discards"}
      BY <1>c DEF Doing, EngObject, Stations, Afters, Elsewhere, Journaled
    <3> QED
      BY <3>1, <3>2, <3>3, <3>4, <3>5 DEF Journaled
  <2> QED
    BY <1>a, <1>3, <2>2 DEF HttpLooks, Unheeded, JournalKept, Touches
<1>4. CASE Claims
  BY <1>0, <1>a, <1>b, <1>4 DEF Claims, JournalAt, JournalKept, Owned, Safe, SameFile, Running, Elsewhere,
     Journaled, Risky, Touches, Goes, Stays, IntIs
<1>5. CASE Resumes
  BY <1>0, <1>a, <1>b, <1>5 DEF Resumes, JournalAt, JournalKept, Owned, Safe, SameFile, Running, Elsewhere,
     Journaled, Risky, Touches, Goes, IntIs
<1>6. CASE GivesUp
  BY <1>0, <1>a, <1>b, <1>6 DEF GivesUp, JournalAt, JournalKept, Owned, Safe, SameFile, Running, Elsewhere,
     Journaled, Risky, Touches, Goes, IntIs
<1>7. CASE Opens
  BY <1>0, <1>a, <1>b, <1>7 DEF Opens, JournalAt, JournalKept, Owned, Safe, SameFile, Running, Elsewhere, Journaled,
     Risky, Touches, Goes, NoInt, IntIs
<1>8. CASE BeginsIt
  BY <1>0, <1>a, <1>b, <1>8, JournalSays DEF BeginsIt, JournalAt, JournalKept, Owned, Safe, SameFile, Running,
     Elsewhere, Journaled, Risky, Touches, Goes, Stays, IntIs
<1>9. CASE Ticks
  BY <1>0, <1>a, <1>b, <1>9 DEF Ticks, JournalAt, JournalKept, Owned, Safe, SameFile, Running, Elsewhere, Journaled,
     Risky, Touches, Doing, IntIs
<1>10. CASE StopsIt
  BY <1>0, <1>a, <1>b, <1>10 DEF StopsIt, JournalAt, JournalKept, Owned, Safe, SameFile, Running, Elsewhere,
     Journaled, Risky, Touches, Goes, Stays, IntIs
<1>11. CASE EndsIt
  BY <1>0, <1>a, <1>b, <1>11 DEF EndsIt, JournalAt, JournalKept, Owned, Safe, SameFile, Running, Elsewhere,
     Journaled, Risky, Touches, Goes, Stays, IntIs
<1>12. CASE Records
  BY <1>0, <1>a, <1>b, <1>12 DEF Records, JournalAt, JournalKept, Owned, Safe, SameFile, Running, Elsewhere,
     Journaled, Risky, Touches, Goes, Stays, IntIs
<1>13. CASE Journals
  BY <1>0, <1>a, <1>b, <1>13, JournalSays DEF Journals, JournalAt, JournalKept, Owned, Safe, SameFile, Running,
     Elsewhere, Journaled, Risky, Touches, Goes, NoFile, IntIs
<1>14. CASE Forgets
  BY <1>0, <1>a, <1>b, <1>14 DEF Forgets, JournalAt, JournalKept, Owned, Safe, SameFile, Running, Elsewhere,
     Journaled, Risky, Touches, Goes, Files, NoInt, IntIs
<1>15. CASE Forgotten
  BY <1>0, <1>a, <1>b, <1>15, JournalSays DEF Forgotten, JournalAt, JournalKept, Owned, Safe, SameFile, Running,
     Elsewhere, Journaled, Risky, Touches, Goes, NoFile, IntIs
<1>16. CASE Boots
  BY <1>0, <1>a, <1>b, <1>16 DEF Boots, JournalAt, JournalKept, Owned, Safe, SameFile, Running, Elsewhere,
     Journaled, Risky, Touches, IntIs
<1> QED
  BY <1>1, <1>2, <1>3, <1>4, <1>5, <1>6, <1>7, <1>8, <1>9, <1>10, <1>11, <1>12, <1>13, <1>14, <1>15, <1>16 DEF
     UseStep, WebStep

\* At first nothing is printed and nothing is interrupted.
LEMMA UseBegins == Init => UseInv
<1> SUFFICES ASSUME Init PROVE UseInv
  OBVIOUS
<1>1. Doing = "loop" /\ http.at = "idle" /\ gInt = NoInt /\ journal = NoFile
  BY AtRest DEF Init, Doing
<1>2. Owned /\ Safe /\ SameFile
  BY <1>1 DEF Owned, Safe, SameFile, Running
<1>3. AutoSafe
  BY <1>1, Blank DEF AutoSafe
<1>4. JournalAt
  BY <1>1 DEF JournalAt, IntIs, Journaled, Elsewhere, NoInt, NoFile
<1>5. JournalKept
  BY <1>1 DEF JournalKept, NoFile
<1> QED
  BY <1>2, <1>3, <1>4, <1>5 DEF UseInv, Recorded

\* Every step keeps what is said of the files in use.
LEMMA UseKept == TypeInv /\ UseInv /\ [Next]_vars => UseInv'
<1> SUFFICES ASSUME TypeInv, UseInv, [Next]_vars PROVE UseInv'
  OBVIOUS
<1>1. UseStep
  BY UseKinds
<1>2. Owned' /\ Safe' /\ AutoSafe' /\ SameFile'
  BY <1>1, OwnedKept, SafeKept, AutoSafeKept, SameFileKept
<1>3. Recorded'
  BY <1>1, JournalAtKept, JournalKeptKept DEF Recorded
<1> QED
  BY <1>2, <1>3 DEF UseInv

\* Both invariants at once.
LEMMA FilesInUse == Spec => [](TypeInv /\ UseInv)
<1>1. BoardInv => TypeInv
  BY DEF BoardInv
<1> QED
  BY <1>1, BoardCorrect, UseBegins, UseKept, PTL DEF Spec

\* The file the engine reads is the one it opened, whoever uploads and deletes, and however long the card is taken;
\* printerFileInUse is enough for it, but for a START that comes after the last look.
THEOREM PrintedFileIntactCorrect == Spec => []PrintedFileIntact
<1>1. UseInv => PrintedFileIntact
  BY DEF UseInv, SameFile, PrintedFileIntact, Reads, Doing, Running
<1> QED
  BY <1>1, FilesInUse, PTL

\* The file of an interrupted print is the one that was printed, through restarts too, but for the gaps between what
\* printerFileInUse goes by and the journal, and a journal the card had no time for.
THEOREM InterruptedFileKeptCorrect == Spec => []InterruptedFileKept
<1>1. TypeInv /\ UseInv => InterruptedFileKept
  <2> SUFFICES ASSUME TypeInv, UseInv, holes = {}, gInt.name # None
               PROVE  files[gInt.name] = gInt.ver
    BY DEF InterruptedFileKept
  <2>1. JournalAt /\ JournalKept
    BY DEF UseInv, Recorded
  <2>2. Doing \in Elsewhere \cup Journaled \cup {"opens", "begins", "discards"}
    BY DEF TypeInv, EngTypeOK, EngObject, Doing, Stations, Afters, Elsewhere, Journaled
  <2>3. journal.name = gInt.name /\ journal.ver = gInt.ver
    BY <2>1, <2>2 DEF JournalAt, IntIs, Journaled
  <2> QED
    BY <2>1, <2>3 DEF JournalKept
<1> QED
  BY <1>1, FilesInUse, PTL

-----------------------------------------------------------------------------
(* Uploads *)

\* upload.tmp is the file on its way, whole when all of it was received.
Receives == {"receives", "writes"}
Received == {"received", "checked", "replaces", "renames"}
TmpInv ==
    /\ http.at \in Receives => ~tmp.whole
    /\ http.at \in Received => tmp.whole /\ tmp.name = http.file.name
    /\ http.at \in Receives => tmp.name = http.file.name /\ tmp.ver # 0
    /\ tmp.whole => tmp.ver # 0
    /\ tmp.ver # Half
    /\ \A n \in Names : files[n] # Half

\* What is stored is there under its name; upload.tmp stands in for it only between two requests and in the renaming.
AtHome == Receives \cup {"received", "failed", "discards", "checked", "replaces"}
StoredInv ==
    \A n \in stored : files[n] # 0 \/ (http.at \notin AtHome /\ tmp.name = n /\ tmp.whole)

UploadInv == TmpInv /\ StoredInv

\* No version number is that of a file cut short.
LEMMA HalfApart == /\ Half # 0
                   /\ \A u \in 0..MaxUploads : u < MaxUploads => u + 2 # Half /\ u + 2 # 0
  BY BoardAssumption DEF Half

\* Every step keeps what is said of upload.tmp.
LEMMA TmpInvKept ==
  ASSUME TypeInv, UploadInv, [Next]_vars
  PROVE  TmpInv'
<1>0. /\ TmpInv /\ StoredInv /\ http \in HttpObject /\ tmp \in TmpObject /\ files \in [Names -> 0..Half]
      /\ stored \subseteq Names /\ (http.at \in WithFile => http.file.name \in Names)
  BY DEF UploadInv, TypeInv, HttpTypeOK, CardTypeOK, HistTypeOK
<1>1. ASSUME NEW type \in Types, NEW n \in Names \cup {None}, Post(type, n)
      PROVE  TmpInv'
  BY <1>0, <1>1, AtRest, HalfApart DEF Post, TmpInv, Receives, Received, HttpObject, TmpObject, WithFile, cardVars,
     bounds
<1>2. CASE TakeSlot
  BY <1>0, <1>2, AtRest, HalfApart DEF TakeSlot, TmpInv, Receives, Received, HttpObject, TmpObject, WithFile,
     cardVars, bounds
<1>3. ASSUME NEW n \in Names, UploadBegin(n)
      PROVE  TmpInv'
  <2>1. tmp' = [name |-> n, ver |-> uploads + 2, whole |-> FALSE] /\ UNCHANGED files
    BY <1>3 DEF UploadBegin
  <2>2. uploads + 2 # Half /\ uploads + 2 # 0
    BY <1>3, HalfApart DEF UploadBegin, TypeInv, HistTypeOK
  <2>3. http'.at = "receives" /\ http'.file.name = n
    BY <1>3, AtRest DEF UploadBegin, HttpObject
  <2> QED
    BY <1>0, <2>1, <2>2, <2>3 DEF TmpInv, Receives, Received
<1>4. ASSUME NEW n \in Names, DeleteLocks(n)
      PROVE  TmpInv'
  BY <1>0, <1>4, AtRest, HalfApart DEF DeleteLocks, TmpInv, Receives, Received, HttpObject, TmpObject, WithFile,
     bounds
<1>5. CASE PostAsync
  BY <1>0, <1>5, AtRest, HalfApart DEF PostAsync, TmpInv, Receives, Received, HttpObject, TmpObject, WithFile,
     cardVars, bounds
<1>6. CASE AsyncRefused
  BY <1>0, <1>6, AtRest, HalfApart DEF AsyncRefused, TmpInv, Receives, Received, HttpObject, TmpObject, WithFile,
     cardVars, bounds
<1>7. CASE Answered
  BY <1>0, <1>7, AtRest, HalfApart DEF Answered, TmpInv, Receives, Received, HttpObject, TmpObject, WithFile,
     cardVars, bounds
<1>8. CASE Abandon
  BY <1>0, <1>8, AtRest, HalfApart DEF Abandon, TmpInv, Receives, Received, HttpObject, TmpObject, WithFile,
     cardVars, bounds
<1>9. CASE UploadWrite
  BY <1>0, <1>9, AtRest, HalfApart DEF UploadWrite, TmpInv, Receives, Received, HttpObject, TmpObject, WithFile,
     bounds
<1>10. CASE UploadWritten
  <2>1. PICK last \in BOOLEAN : /\ tmp' = [tmp EXCEPT !.whole = last]
                                /\ http' = [http EXCEPT !.at = IF last THEN "received" ELSE "receives"]
    BY <1>10 DEF UploadWritten
  <2>2. tmp'.whole = last /\ tmp'.name = tmp.name /\ tmp'.ver = tmp.ver /\ http'.file = http.file /\ UNCHANGED files
    BY <1>0, <1>10, <2>1 DEF UploadWritten, TmpObject, HttpObject
  <2>3. last => http'.at = "received"
    BY <1>0, <2>1 DEF HttpObject
  <2>4. ~last => http'.at = "receives"
    BY <1>0, <2>1 DEF HttpObject
  <2>5. tmp.ver # 0
    BY <1>0, <1>10 DEF UploadWritten, TmpInv, Receives
  <2> QED
    BY <1>0, <1>10, <2>2, <2>3, <2>4, <2>5 DEF UploadWritten, TmpInv, Receives, Received
<1>11. CASE UploadChecked
  BY <1>0, <1>11, AtRest, HalfApart DEF UploadChecked, TmpInv, Receives, Received, HttpObject, TmpObject, WithFile,
     cardVars, bounds
<1>12. CASE UploadLocks
  BY <1>0, <1>12, AtRest, HalfApart DEF UploadLocks, TmpInv, Receives, Received, HttpObject, TmpObject, WithFile,
     bounds
<1>13. CASE UploadRemoves
  BY <1>0, <1>13, AtRest, HalfApart DEF UploadRemoves, TmpInv, Receives, Received, HttpObject, TmpObject, WithFile,
     bounds
<1>14. CASE UploadRenames
  BY <1>0, <1>14, AtRest, HalfApart, Blank DEF UploadRenames, TmpInv, Receives, Received, HttpObject, TmpObject,
     WithFile, bounds, NoTmp
<1>15. CASE UploadDiscards
  BY <1>0, <1>15, AtRest, HalfApart, Blank DEF UploadDiscards, TmpInv, Receives, Received, HttpObject, TmpObject,
     WithFile, bounds, NoTmp
<1>16. CASE DeleteChecked
  BY <1>0, <1>16, AtRest, HalfApart DEF DeleteChecked, TmpInv, Receives, Received, HttpObject, TmpObject, WithFile,
     bounds
<1>17. CASE DeleteRemoves
  BY <1>0, <1>17, AtRest, HalfApart DEF DeleteRemoves, TmpInv, Receives, Received, HttpObject, TmpObject, WithFile,
     bounds
<1>18. CASE TimedOut
  BY <1>0, <1>18, AtRest, HalfApart DEF TimedOut, TmpInv, Receives, Received, HttpObject, TmpObject, WithFile,
     cardVars, bounds
<1>19. CASE UploadFails
  BY <1>0, <1>19, AtRest, HalfApart DEF UploadFails, TmpInv, Receives, Received, HttpObject, TmpObject, WithFile,
     bounds
<1>20. CASE Restart
  BY <1>0, <1>20, AtRest, HalfApart, Blank DEF Restart, TmpInv, Receives, Received, HttpObject, TmpObject, WithFile,
     NoTmp
<1>21. CASE AnswerAsync \/ AnswerLooks \/ AnswerGives \/ Connect \/ Disconnect \/ Gcode \/ Executed \/ Discard \/
            Discarded \/ NoPrint \/ Start \/ LookForFile \/ Claim \/ OpenFails \/ Open \/ Begins \/ PauseOrResume \/
            Stop \/ Stopped \/ PrintGcode \/ BusyPrinting \/ SendManual \/ ManualAcked \/ Fill \/ NextCell \/
            Finished \/ ManualEnds \/ CloseFile \/ RecordEnd \/ JournalEnd \/ AutoConnectTick \/ AutoResume \/
            JournalTick \/ LogGivesCard \/ PrintFails \/ FillBusy \/ LogTakesCard \/ UNCHANGED vars
  <2>1. UNCHANGED <<files, tmp, http, stored>>
    BY <1>21 DEF AnswerAsync, AnswerLooks, AnswerGives, Connect, Disconnect, Gcode, Executed, Discard, Discarded,
       NoPrint, Start, LookForFile, Claim, OpenFails, Open, Begins, PauseOrResume, Stop, Stopped, PrintGcode,
       BusyPrinting, SendManual, ManualAcked, Fill, NextCell, Finished, ManualEnds, CloseFile, RecordEnd,
       JournalEnd, AutoConnectTick, AutoResume, JournalTick, LogGivesCard, PrintFails, FillBusy, LogTakesCard, vars,
       cardVars
  <2> QED
    BY <1>0, <2>1 DEF TmpInv, Receives, Received
<1> QED
  BY <1>1, <1>2, <1>3, <1>4, <1>5, <1>6, <1>7, <1>8, <1>9, <1>10, <1>11, <1>12, <1>13, <1>14, <1>15, <1>16, <1>17,
     <1>18, <1>19, <1>20, <1>21 DEF Next, Clients, Server, Engine, Faulty

\* Every step keeps what was stored.
LEMMA StoredInvKept ==
  ASSUME TypeInv, UploadInv, [Next]_vars
  PROVE  StoredInv'
<1>0. /\ TmpInv /\ StoredInv /\ http \in HttpObject /\ tmp \in TmpObject /\ files \in [Names -> 0..Half]
      /\ stored \subseteq Names /\ (http.at \in WithFile => http.file.name \in Names)
  BY DEF UploadInv, TypeInv, HttpTypeOK, CardTypeOK, HistTypeOK
<1>1. ASSUME NEW type \in Types, NEW n \in Names \cup {None}, Post(type, n)
      PROVE  StoredInv'
  BY <1>0, <1>1, AtRest, HalfApart DEF Post, TmpInv, Receives, Received, HttpObject, StoredInv, AtHome, TmpObject,
     WithFile, cardVars, bounds
<1>2. CASE TakeSlot
  BY <1>0, <1>2, AtRest, HalfApart DEF TakeSlot, TmpInv, Receives, Received, HttpObject, StoredInv, AtHome,
     TmpObject, WithFile, cardVars, bounds
<1>3. ASSUME NEW n \in Names, UploadBegin(n)
      PROVE  StoredInv'
  <2>1. /\ http.at = "idle" /\ UNCHANGED files
        /\ stored' = IF tmp.name # None /\ files[tmp.name] = 0 THEN stored \ {tmp.name} ELSE stored
    BY <1>3 DEF UploadBegin
  <2>2. ASSUME NEW m \in stored' PROVE files[m] # 0
    <3>1. m \in stored /\ m \in Names /\ m # None
      BY <1>0, <2>1, Numbers
    <3>2. CASE tmp.name = m /\ files[m] = 0
      BY <2>1, <3>1, <3>2
    <3> QED
      BY <1>0, <3>1, <3>2 DEF StoredInv
  <2> QED
    BY <2>1, <2>2 DEF StoredInv
<1>4. ASSUME NEW n \in Names, DeleteLocks(n)
      PROVE  StoredInv'
  BY <1>0, <1>4, AtRest, HalfApart DEF DeleteLocks, TmpInv, Receives, Received, HttpObject, StoredInv, AtHome,
     TmpObject, WithFile, bounds
<1>5. CASE PostAsync
  BY <1>0, <1>5, AtRest, HalfApart DEF PostAsync, TmpInv, Receives, Received, HttpObject, StoredInv, AtHome,
     TmpObject, WithFile, cardVars, bounds
<1>6. CASE AsyncRefused
  BY <1>0, <1>6, AtRest, HalfApart DEF AsyncRefused, TmpInv, Receives, Received, HttpObject, StoredInv, AtHome,
     TmpObject, WithFile, cardVars, bounds
<1>7. CASE Answered
  BY <1>0, <1>7, AtRest, HalfApart DEF Answered, TmpInv, Receives, Received, HttpObject, StoredInv, AtHome,
     TmpObject, WithFile, cardVars, bounds
<1>8. CASE Abandon
  BY <1>0, <1>8, AtRest, HalfApart DEF Abandon, TmpInv, Receives, Received, HttpObject, StoredInv, AtHome,
     TmpObject, WithFile, cardVars, bounds
<1>9. CASE UploadWrite
  BY <1>0, <1>9, AtRest, HalfApart DEF UploadWrite, TmpInv, Receives, Received, HttpObject, StoredInv, AtHome,
     TmpObject, WithFile, bounds
<1>10. CASE UploadWritten
  BY <1>0, <1>10, AtRest, HalfApart DEF UploadWritten, TmpInv, Receives, Received, HttpObject, StoredInv, AtHome,
     TmpObject, WithFile, bounds
<1>11. CASE UploadChecked
  BY <1>0, <1>11, AtRest, HalfApart DEF UploadChecked, TmpInv, Receives, Received, HttpObject, StoredInv, AtHome,
     TmpObject, WithFile, cardVars, bounds
<1>12. CASE UploadLocks
  BY <1>0, <1>12, AtRest, HalfApart DEF UploadLocks, TmpInv, Receives, Received, HttpObject, StoredInv, AtHome,
     TmpObject, WithFile, bounds
<1>13. CASE UploadRemoves
  BY <1>0, <1>13, AtRest, HalfApart DEF UploadRemoves, TmpInv, Receives, Received, HttpObject, StoredInv, AtHome,
     TmpObject, WithFile, bounds
<1>14. CASE UploadRenames
  <2>1. http.at = "renames" /\ http'.at = "idle" /\ http.file.name \in Names
    BY <1>0, <1>14, AtRest DEF UploadRenames, WithFile
  <2>2. tmp.whole /\ tmp.name = http.file.name /\ tmp.ver # 0
    BY <1>0, <2>1 DEF TmpInv, Received
  <2>3. \A m \in stored : m # http.file.name => files[m] # 0
    BY <1>0, <2>2 DEF StoredInv
  <2>4. CASE /\ files' = [files EXCEPT ![http.file.name] = IF tmp.whole THEN tmp.ver ELSE Half]
             /\ stored' = stored \cup {http.file.name}
    BY <1>0, <2>1, <2>2, <2>3, <2>4 DEF StoredInv
  <2>5. CASE stored' = stored \ {http.file.name} /\ UNCHANGED files
    BY <2>3, <2>5 DEF StoredInv
  <2> QED
    BY <1>14, <2>4, <2>5 DEF UploadRenames
<1>15. CASE UploadDiscards
  BY <1>0, <1>15, AtRest, HalfApart, Blank DEF UploadDiscards, TmpInv, Receives, Received, HttpObject, StoredInv,
     AtHome, TmpObject, WithFile, bounds, NoTmp
<1>16. CASE DeleteChecked
  BY <1>0, <1>16, AtRest, HalfApart DEF DeleteChecked, TmpInv, Receives, Received, HttpObject, StoredInv, AtHome,
     TmpObject, WithFile, bounds
<1>17. CASE DeleteRemoves
  BY <1>0, <1>17, AtRest, HalfApart DEF DeleteRemoves, TmpInv, Receives, Received, HttpObject, StoredInv, AtHome,
     TmpObject, WithFile, bounds
<1>18. CASE TimedOut
  BY <1>0, <1>18, AtRest, HalfApart DEF TimedOut, TmpInv, Receives, Received, HttpObject, StoredInv, AtHome,
     TmpObject, WithFile, cardVars, bounds
<1>19. CASE UploadFails
  BY <1>0, <1>19, AtRest, HalfApart DEF UploadFails, TmpInv, Receives, Received, HttpObject, StoredInv, AtHome,
     TmpObject, WithFile, bounds
<1>20. CASE Restart
  BY <1>0, <1>20, AtRest, HalfApart, Blank DEF Restart, TmpInv, Receives, Received, HttpObject, StoredInv, AtHome,
     TmpObject, WithFile, NoTmp
<1>21. CASE AnswerAsync \/ AnswerLooks \/ AnswerGives \/ Connect \/ Disconnect \/ Gcode \/ Executed \/ Discard \/
            Discarded \/ NoPrint \/ Start \/ LookForFile \/ Claim \/ OpenFails \/ Open \/ Begins \/ PauseOrResume \/
            Stop \/ Stopped \/ PrintGcode \/ BusyPrinting \/ SendManual \/ ManualAcked \/ Fill \/ NextCell \/
            Finished \/ ManualEnds \/ CloseFile \/ RecordEnd \/ JournalEnd \/ AutoConnectTick \/ AutoResume \/
            JournalTick \/ LogGivesCard \/ PrintFails \/ FillBusy \/ LogTakesCard \/ UNCHANGED vars
  <2>1. UNCHANGED <<files, tmp, http, stored>>
    BY <1>21 DEF AnswerAsync, AnswerLooks, AnswerGives, Connect, Disconnect, Gcode, Executed, Discard, Discarded,
       NoPrint, Start, LookForFile, Claim, OpenFails, Open, Begins, PauseOrResume, Stop, Stopped, PrintGcode,
       BusyPrinting, SendManual, ManualAcked, Fill, NextCell, Finished, ManualEnds, CloseFile, RecordEnd,
       JournalEnd, AutoConnectTick, AutoResume, JournalTick, LogGivesCard, PrintFails, FillBusy, LogTakesCard, vars,
       cardVars
  <2> QED
    BY <1>0, <2>1 DEF StoredInv, AtHome
<1> QED
  BY <1>1, <1>2, <1>3, <1>4, <1>5, <1>6, <1>7, <1>8, <1>9, <1>10, <1>11, <1>12, <1>13, <1>14, <1>15, <1>16, <1>17,
     <1>18, <1>19, <1>20, <1>21 DEF Next, Clients, Server, Engine, Faulty

\* What the clients were told is on the card is there, whole: under its name or as upload.tmp, whatever fails.
THEOREM UploadAllOrNothingCorrect == Spec => []UploadAllOrNothing
<1>1. Init => UploadInv
  <2> SUFFICES ASSUME Init PROVE UploadInv
    OBVIOUS
  <2>1. TmpInv
    BY AtRest, Numbers DEF Init, TmpInv, Receives, Received, NoTmp, Half
  <2>2. StoredInv
    BY DEF Init, StoredInv
  <2> QED
    BY <2>1, <2>2 DEF UploadInv
<1>2. TypeInv /\ UploadInv /\ [Next]_vars => UploadInv'
  BY TmpInvKept, StoredInvKept DEF UploadInv
<1>3. UploadInv => UploadAllOrNothing
  BY DEF UploadInv, TmpInv, StoredInv, UploadAllOrNothing
<1>4. BoardInv => TypeInv
  BY DEF BoardInv
<1> QED
  BY <1>1, <1>2, <1>3, <1>4, BoardCorrect, PTL DEF Spec
=============================================================================

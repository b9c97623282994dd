------------------------------- MODULE Board -------------------------------
(***************************************************************************)
(* The board's two sides and what they share: the web server's task, which *)
(* serves one request at a time (uploads, deletions, commands for the      *)
(* printer), and the engine task of printer.cpp, which takes the commands  *)
(* out of a queue, runs prints from the SD card and answers.  They share   *)
(* the command objects, the card and its lock, the state the web server    *)
(* asks (printerFileInUse) and the one slot of asynchronous commands.      *)
(*                                                                         *)
(* The streaming of lines is PrintStream's and the journal Recovery's      *)
(* subject; here a print opens its file, reads it piece by piece under the *)
(* card's lock and ends.  A file's content is its version number; what a   *)
(* read returns is a cell, and a line is a run of cells.                   *)
(***************************************************************************)
EXTENDS Naturals, Sequences, FiniteSets

CONSTANTS
    Names,       \* file names
    None,        \* no name
    QueueLen,    \* length of cmdQ
    Cells,       \* cells of a file
    LineEnds,    \* cells that end a line
    BufCells,    \* cells one read of the card returns
    Types,       \* the commands that are posted
    Impatient,   \* commands whose client may give up before the answer
    Faults,      \* what may go wrong: the card is taken for longer than "upload", "close", "exists",
                 \* "open", "journal", a read at a "line start" or "in a line" waits for it; "rename" fails
    MaxPosts,    \* bound: commands of one boot
    MaxUploads,  \* bound: uploads
    MaxCrashes   \* bound: restarts of the board

ASSUME BoardAssumption ==
    /\ None \notin Names
    /\ QueueLen \in Nat \ {0} /\ MaxPosts \in Nat /\ MaxUploads \in Nat /\ MaxCrashes \in Nat
    /\ Cells \in Nat \ {0} /\ LineEnds \subseteq 1..Cells /\ BufCells \in Nat \ {0}

VARIABLES
    \* the card
    sd,          \* who holds sdMutex, or "free"
    files,       \* the version under each name, 0: no such file
    tmp,         \* upload.tmp
    journal,     \* the print the journal calls active
    \* shared by the two tasks
    cmdQ, cmd,   \* the queue of commands, the command objects
    gState, gFile, gInt, gJob,
    \* the web server's task
    http,
    \* the engine's task
    eng, rd,
    \* bookkeeping of the properties and bounds
    holes,       \* ghost: ways around the protection of a file in use that were taken
    stored,      \* files that the clients were told are on the card
    uploads, crashes

cardVars == <<sd, files, tmp, journal>>
jobVars  == <<gState, gFile, gInt>>
bounds   == <<uploads, crashes>>
vars == <<cardVars, cmdQ, cmd, jobVars, gJob, http, eng, rd, holes, stored, bounds>>

\* The version of a file cut short.
Half == MaxUploads + 2

NoFile  == [name |-> None, ver |-> 0]
NoInt   == [name |-> None, ver |-> 0, auto |-> FALSE]
NoJob   == [id |-> 0, seq |-> 0, done |-> TRUE, ok |-> FALSE]
NoCmd   == [type |-> "none", name |-> None, async |-> 0, mem |-> "none", abandoned |-> "no",
            done |-> FALSE, ok |-> FALSE]
NoTmp   == [name |-> None, ver |-> 0, whole |-> FALSE]
Idle    == [at |-> "idle", c |-> 0, file |-> NoFile]
Waiting == [at |-> "loop", c |-> 0, then |-> "loop", file |-> NoFile, man |-> 0, sent |-> FALSE]
NoRead  == [next |-> 1, buf |-> 0, from |-> 1, fed |-> 0, eof |-> FALSE]

Posted == {c \in 1..MaxPosts : cmd[c].mem # "none"}

\* Without the interrupted print.
FileInUsePrinting(n) == gState \in {"PRINTING", "PAUSED"} /\ gFile = n

\* printerFileInUse
FileInUse(n) == (gState \in {"PRINTING", "PAUSED"} /\ gFile = n) \/ gInt.name = n

\* The engine has found the command not abandoned and is about to wake its client.
Giving(c) == eng.at = "gives" /\ eng.c = c

\* Whoever waits for the lock longer than it is ready to wait goes without.
Taken(who) == who \in Faults /\ sd # "free"

-----------------------------------------------------------------------------
(* The web server: commands *)

NewCmd(type, name, async) == [NoCmd EXCEPT !.type = type, !.name = name, !.async = async, !.mem = "live"]

\* The objects are numbered in the order in which they are posted.
NextCmd == Cardinality(Posted) + 1

\* post: the command is queued and its client waits; the handler returns at once when the queue stays full.
Post(type, name) ==
    /\ http.at = "idle" /\ NextCmd <= MaxPosts
    /\ Len(cmdQ) < QueueLen
    /\ cmd' = [cmd EXCEPT ![NextCmd] = NewCmd(type, name, 0)]
    /\ cmdQ' = Append(cmdQ, NextCmd)
    /\ http' = [Idle EXCEPT !.at = "waits", !.c = NextCmd]
    /\ UNCHANGED <<cardVars, jobVars, gJob, eng, rd, holes, stored, bounds>>

\* printerGcodeAsync: the slot is taken first, the command is queued in a second step.
TakeSlot ==
    /\ http.at = "idle" /\ NextCmd <= MaxPosts
    /\ gJob.done /\ gJob.seq < MaxPosts
    /\ gJob' = [id |-> gJob.seq + 1, seq |-> gJob.seq + 1, done |-> FALSE, ok |-> FALSE]
    /\ http' = [Idle EXCEPT !.at = "async"]
    /\ UNCHANGED <<cardVars, cmdQ, cmd, jobVars, eng, rd, holes, stored, bounds>>

PostAsync ==
    /\ http.at = "async"
    /\ Len(cmdQ) < QueueLen
    /\ cmd' = [cmd EXCEPT ![NextCmd] = NewCmd("GCODE", None, gJob.id)]
    /\ cmdQ' = Append(cmdQ, NextCmd)
    /\ http' = Idle
    /\ UNCHANGED <<cardVars, jobVars, gJob, eng, rd, holes, stored, bounds>>

\* The queue is full and the slot stays taken.
AsyncRefusedTaken ==
    /\ http.at = "async"
    /\ Len(cmdQ) = QueueLen
    /\ http' = Idle
    /\ UNCHANGED <<cardVars, cmdQ, cmd, jobVars, gJob, eng, rd, holes, stored, bounds>>

AsyncRefused ==
    /\ http.at = "async"
    /\ Len(cmdQ) = QueueLen
    /\ gJob' = [gJob EXCEPT !.done = TRUE]
    /\ http' = Idle
    /\ UNCHANGED <<cardVars, cmdQ, cmd, jobVars, eng, rd, holes, stored, bounds>>

\* The client has its answer and frees the command.
Answered ==
    /\ http.at = "waits"
    /\ cmd[http.c].done
    /\ cmd' = [cmd EXCEPT ![http.c].mem = "freed"]
    /\ http' = Idle
    /\ UNCHANGED <<cardVars, cmdQ, jobVars, gJob, eng, rd, holes, stored, bounds>>

\* The wait ends without an answer; that the command is abandoned is noted in a second step.
TimedOut ==
    /\ http.at = "waits"
    /\ cmd[http.c].type \in Impatient
    /\ ~cmd[http.c].done
    /\ http' = [http EXCEPT !.at = "gives up"]
    /\ UNCHANGED <<cardVars, cmdQ, cmd, jobVars, gJob, eng, rd, holes, stored, bounds>>

\* The client frees the command when it gives up.
AbandonFreeing ==
    /\ http.at = "gives up"
    /\ cmd' = [cmd EXCEPT ![http.c].abandoned = "yes", ![http.c].mem = "freed"]
    /\ http' = Idle
    /\ UNCHANGED <<cardVars, cmdQ, jobVars, gJob, eng, rd, holes, stored, bounds>>

Abandon ==
    /\ http.at = "gives up"
    /\ cmd' = [cmd EXCEPT ![http.c].abandoned =
                        IF cmd[http.c].done \/ Giving(http.c) THEN "too late" ELSE "yes"]
    /\ http' = Idle
    /\ UNCHANGED <<cardVars, cmdQ, jobVars, gJob, eng, rd, holes, stored, bounds>>

-----------------------------------------------------------------------------
(* The web server: files *)

GiveCard == IF sd = "http" THEN "free" ELSE sd

\* What printerFileInUse goes by is ahead of the journal: the print of the file has ended, or the interrupted print is
\* forgotten, and the journal does not say so yet.
InGap(n) == \/ /\ eng.file.name = n
               /\ \/ eng.at \in {"closing", "recording", "journals", "discards"}
                  \/ eng.at \in {"answers", "gives"} /\ eng.then = "closing"
            \/ eng.at = "begins" /\ journal.name = n

\* A handler was told that the file is free, for its last look at it.
LastLook(n) == holes' = IF InGap(n) THEN holes \cup {"gap"} ELSE holes

UploadBegin(n) ==
    /\ http.at = "idle" /\ uploads < MaxUploads
    /\ ~FileInUse(n)
    /\ sd = "free"
    /\ tmp' = [name |-> n, ver |-> uploads + 2, whole |-> FALSE]
    /\ stored' = IF tmp.name # None /\ files[tmp.name] = 0 THEN stored \ {tmp.name} ELSE stored
    /\ uploads' = uploads + 1
    /\ http' = [Idle EXCEPT !.at = "receives", !.file = [name |-> n, ver |-> uploads + 2]]
    /\ UNCHANGED <<sd, files, journal, cmdQ, cmd, jobVars, gJob, eng, rd, holes, crashes>>

\* The bytes go to the card; the lock is taken for each piece.
UploadWrite ==
    /\ http.at = "receives"
    /\ sd = "free"
    /\ sd' = "http"
    /\ http' = [http EXCEPT !.at = "writes"]
    /\ UNCHANGED <<files, tmp, journal, cmdQ, cmd, jobVars, gJob, eng, rd, holes, stored, bounds>>

UploadWritten ==
    /\ http.at = "writes"
    /\ sd' = GiveCard
    /\ \E last \in BOOLEAN :
          /\ tmp' = [tmp EXCEPT !.whole = last]
          /\ http' = [http EXCEPT !.at = IF last THEN "received" ELSE "receives"]
    /\ UNCHANGED <<files, journal, cmdQ, cmd, jobVars, gJob, eng, rd, holes, stored, bounds>>

\* A cut connection is not told from the end of the file.
UploadFailsUnseen ==
    /\ http.at = "receives" \/ http.at = "writes"
    /\ sd' = GiveCard
    /\ http' = [http EXCEPT !.at = "received"]
    /\ UNCHANGED <<files, tmp, journal, cmdQ, cmd, jobVars, gJob, eng, rd, holes, stored, bounds>>

\* The connection is lost, a write fails, the card is busy, or size or checksum are wrong.
UploadFails ==
    /\ http.at \in {"receives", "writes"}
    /\ sd' = GiveCard
    /\ http' = [http EXCEPT !.at = "failed"]
    /\ UNCHANGED <<files, tmp, journal, cmdQ, cmd, jobVars, gJob, eng, rd, holes, stored, bounds>>

\* No second look.
UploadUnchecked ==
    /\ http.at = "received"
    /\ http' = [http EXCEPT !.at = "checked"]
    /\ UNCHANGED <<cardVars, cmdQ, cmd, jobVars, gJob, eng, rd, holes, stored, bounds>>

\* The second look at the file, before the lock is taken.
UploadChecked ==
    /\ http.at = "received"
    /\ IF FileInUse(http.file.name)
       THEN http' = [http EXCEPT !.at = "failed"] /\ UNCHANGED holes
       ELSE http' = [http EXCEPT !.at = "checked"] /\ LastLook(http.file.name)
    /\ UNCHANGED <<cardVars, cmdQ, cmd, jobVars, gJob, eng, rd, stored, bounds>>

\* give.take() is called for its effect: what follows happens without the lock when it was not to be had.
UploadLocks ==
    /\ http.at \in {"checked", "failed"}
    /\ \/ sd = "free" /\ sd' = "http"
       \/ Taken("upload") /\ UNCHANGED sd
    /\ http' = [http EXCEPT !.at = IF @ = "checked" THEN "replaces" ELSE "discards"]
    /\ UNCHANGED <<files, tmp, journal, cmdQ, cmd, jobVars, gJob, eng, rd, holes, stored, bounds>>

UploadRemoves ==
    /\ http.at = "replaces"
    /\ files' = [files EXCEPT ![http.file.name] = 0]
    /\ http' = [http EXCEPT !.at = "renames"]
    /\ UNCHANGED <<sd, tmp, journal, cmdQ, cmd, jobVars, gJob, eng, rd, holes, stored, bounds>>

UploadRenames ==
    /\ http.at = "renames"
    /\ \/ /\ files' = [files EXCEPT ![http.file.name] = IF tmp.whole THEN tmp.ver ELSE Half]
          /\ stored' = stored \cup {http.file.name}
       \/ /\ "rename" \in Faults
          /\ stored' = stored \ {http.file.name}
          /\ UNCHANGED files
    /\ tmp' = NoTmp
    /\ sd' = GiveCard
    /\ http' = Idle
    /\ UNCHANGED <<journal, cmdQ, cmd, jobVars, gJob, eng, rd, holes, bounds>>

UploadDiscards ==
    /\ http.at = "discards"
    /\ tmp' = NoTmp
    /\ sd' = GiveCard
    /\ http' = Idle
    /\ UNCHANGED <<files, journal, cmdQ, cmd, jobVars, gJob, eng, rd, holes, stored, bounds>>

DeleteLocks(n) ==
    /\ http.at = "idle" /\ files[n] # 0
    /\ sd = "free"
    /\ sd' = "http"
    /\ http' = [Idle EXCEPT !.at = "deletes", !.file = [name |-> n, ver |-> 0]]
    /\ UNCHANGED <<files, tmp, journal, cmdQ, cmd, jobVars, gJob, eng, rd, holes, stored, bounds>>

DeleteChecked ==
    /\ http.at = "deletes"
    /\ IF FileInUse(http.file.name)
       THEN http' = Idle /\ sd' = GiveCard /\ UNCHANGED holes
       ELSE http' = [http EXCEPT !.at = "removes"] /\ LastLook(http.file.name) /\ UNCHANGED sd
    /\ UNCHANGED <<files, tmp, journal, cmdQ, cmd, jobVars, gJob, eng, rd, stored, bounds>>

DeleteRemoves ==
    /\ http.at = "removes"
    /\ files' = [files EXCEPT ![http.file.name] = 0]
    /\ stored' = stored \ {http.file.name}
    /\ sd' = GiveCard
    /\ http' = Idle
    /\ UNCHANGED <<tmp, journal, cmdQ, cmd, jobVars, gJob, eng, rd, holes, bounds>>

\* The log writer, or a reader of the log, uses the card.
LogTakesCard ==
    /\ sd = "free"
    /\ sd' = "log"
    /\ UNCHANGED <<files, tmp, journal, cmdQ, cmd, jobVars, gJob, http, eng, rd, holes, stored, bounds>>

LogGivesCard ==
    /\ sd = "log"
    /\ sd' = "free"
    /\ UNCHANGED <<files, tmp, journal, cmdQ, cmd, jobVars, gJob, http, eng, rd, holes, stored, bounds>>

-----------------------------------------------------------------------------
(* The engine: answers *)

\* The engine has set the command's result and answers it, then goes on.
Answering(c, ok, then) ==
    /\ cmd' = [cmd EXCEPT ![c].ok = ok]
    /\ eng' = [eng EXCEPT !.at = "answers", !.c = c, !.then = then]

\* answerCmd of an asynchronous command.
AnswerAsync ==
    /\ eng.at = "answers" /\ cmd[eng.c].async # 0
    /\ gJob' = [gJob EXCEPT !.done = TRUE, !.ok = cmd[eng.c].ok]
    /\ cmd' = [cmd EXCEPT ![eng.c].mem = "freed"]
    /\ eng' = [eng EXCEPT !.at = eng.then, !.c = 0]
    /\ UNCHANGED <<cardVars, cmdQ, jobVars, http, rd, holes, stored, bounds>>

\* answerCmd of a command somebody waits for: whether it is abandoned is read under cmdMux ...
AnswerLooks ==
    /\ eng.at = "answers" /\ cmd[eng.c].async = 0
    /\ IF cmd[eng.c].abandoned = "no"
       THEN /\ eng' = [eng EXCEPT !.at = "gives"]
            /\ UNCHANGED cmd
       ELSE /\ cmd' = [cmd EXCEPT ![eng.c].mem = "freed"]
            /\ eng' = [eng EXCEPT !.at = eng.then, !.c = 0]
    /\ UNCHANGED <<cardVars, cmdQ, jobVars, gJob, http, rd, holes, stored, bounds>>

\* ... and the semaphore is given outside.
AnswerGives ==
    /\ eng.at = "gives"
    /\ cmd' = [cmd EXCEPT ![eng.c].done = TRUE]
    /\ eng' = [eng EXCEPT !.at = eng.then, !.c = 0]
    /\ UNCHANGED <<cardVars, cmdQ, jobVars, gJob, http, rd, holes, stored, bounds>>

-----------------------------------------------------------------------------
(* The engine: commands while nothing is printed *)

\* The journal is written unless the card is busy: then what it says of the last print stays.
JournalWrite(file) ==
    \/ sd = "free" /\ journal' = file /\ UNCHANGED holes
    \/ /\ Taken("journal")
       /\ holes' = IF journal = file THEN holes ELSE holes \cup {"stale"}
       /\ UNCHANGED journal

Command(type) == /\ cmdQ # <<>> /\ cmd[Head(cmdQ)].type = type
                 /\ cmdQ' = Tail(cmdQ)

Connect ==
    /\ eng.at = "loop" /\ Command("CONNECT")
    /\ \E opened \in BOOLEAN : /\ gState' = IF opened THEN "IDLE" ELSE "ERROR"
                               /\ Answering(Head(cmdQ), opened, "loop")
    /\ UNCHANGED <<cardVars, gFile, gInt, gJob, http, rd, holes, stored, bounds>>

\* DISCONNECT and SELECT close the link.
Disconnect ==
    /\ eng.at = "loop" /\ (Command("DISCONNECT") \/ Command("SELECT"))
    /\ gState' = "DISCONNECTED"
    /\ Answering(Head(cmdQ), TRUE, "loop")
    /\ UNCHANGED <<cardVars, gFile, gInt, gJob, http, rd, holes, stored, bounds>>

\* The printer appears or vanishes.
AutoConnectTick ==
    /\ eng.at = "loop"
    /\ gState' \in CASE gState = "DISCONNECTED" -> {"IDLE"} [] gState = "IDLE" -> {"DISCONNECTED"} [] OTHER -> {}
    /\ UNCHANGED <<cardVars, cmdQ, cmd, gFile, gInt, gJob, http, eng, rd, holes, stored, bounds>>

\* A command with nothing printing; a dangerous one is refused.
Gcode ==
    /\ eng.at = "loop" /\ Command("GCODE")
    /\ \/ /\ eng' = [eng EXCEPT !.at = "executes", !.c = Head(cmdQ)]
          /\ UNCHANGED cmd
       \/ Answering(Head(cmdQ), FALSE, "loop")
    /\ UNCHANGED <<cardVars, jobVars, gJob, http, rd, holes, stored, bounds>>

Executed ==
    /\ eng.at = "executes"
    /\ \E ok \in BOOLEAN : Answering(eng.c, ok, "loop")
    /\ UNCHANGED <<cardVars, cmdQ, jobVars, gJob, http, rd, holes, stored, bounds>>

\* The interrupted print is forgotten under the lock, then the journal is written.
Discard ==
    /\ eng.at = "loop" /\ Command("DISCARD")
    /\ gInt' = NoInt
    /\ eng' = [eng EXCEPT !.at = "discards", !.c = Head(cmdQ), !.file = [name |-> gInt.name, ver |-> gInt.ver]]
    /\ UNCHANGED <<cardVars, cmd, gState, gFile, gJob, http, rd, holes, stored, bounds>>

Discarded ==
    /\ eng.at = "discards"
    /\ IF eng.file.name = None THEN UNCHANGED <<journal, holes>> ELSE JournalWrite(NoFile)
    /\ Answering(eng.c, TRUE, "loop")
    /\ UNCHANGED <<sd, files, tmp, cmdQ, jobVars, gJob, http, rd, stored, bounds>>

NoPrint ==
    /\ eng.at = "loop" /\ (Command("PAUSE") \/ Command("RESUME") \/ Command("STOP"))
    /\ Answering(Head(cmdQ), FALSE, "loop")
    /\ UNCHANGED <<cardVars, jobVars, gJob, http, rd, holes, stored, bounds>>

\* START and RECOVER are refused, or look for the file.
Start ==
    /\ eng.at = "loop" /\ (Command("START") \/ Command("RECOVER"))
    /\ LET c    == Head(cmdQ)
           name == IF cmd[c].type = "START" THEN cmd[c].name ELSE gInt.name
       IN  \/ /\ gState = "IDLE" /\ name # None
              /\ eng' = [eng EXCEPT !.at = "looks", !.c = c, !.file = [name |-> name, ver |-> 0]]
              /\ UNCHANGED cmd
           \/ /\ gState # "IDLE" \/ cmd[c].type = "RECOVER"
              /\ Answering(c, FALSE, "loop")
    /\ UNCHANGED <<cardVars, jobVars, gJob, http, rd, holes, stored, bounds>>

LookForFile ==
    /\ eng.at = "looks"
    /\ \/ /\ sd = "free" /\ files[eng.file.name] # 0
          /\ eng' = [eng EXCEPT !.at = "claims"]
          /\ UNCHANGED cmd
       \/ /\ (sd = "free" /\ files[eng.file.name] = 0) \/ Taken("exists")
          /\ Answering(eng.c, FALSE, "loop")
    /\ UNCHANGED <<cardVars, cmdQ, jobVars, gJob, http, rd, holes, stored, bounds>>

\* Only now does printerFileInUse know of the print.
Claim ==
    /\ eng.at = "claims"
    /\ gFile' = eng.file.name
    /\ gState' = "PRINTING"
    /\ holes' = IF http.at \in {"checked", "replaces", "renames", "removes"} /\ http.file.name = eng.file.name
                THEN holes \cup {"late"} ELSE holes
    /\ Answering(eng.c, TRUE, "opens")
    /\ UNCHANGED <<cardVars, cmdQ, gInt, gJob, http, rd, stored, bounds>>

\* The board continues a print of its own accord, once.
AutoResume ==
    /\ eng.at = "loop"
    /\ gInt.auto /\ gState = "IDLE"
    /\ gInt' = [gInt EXCEPT !.auto = FALSE]
    /\ gFile' = gInt.name
    /\ gState' = "PRINTING"
    /\ eng' = [eng EXCEPT !.at = "opens", !.file = [name |-> gInt.name, ver |-> 0]]
    /\ UNCHANGED <<cardVars, cmdQ, cmd, gJob, http, rd, holes, stored, bounds>>

-----------------------------------------------------------------------------
(* The engine: a print *)

Min2(a, b) == IF a < b THEN a ELSE b

SetError == gState' = "ERROR"

\* The file cannot be opened, or the card is busy.
OpenFails ==
    /\ eng.at = "opens"
    /\ (sd = "free" /\ files[eng.file.name] = 0) \/ Taken("open")
    /\ SetError
    /\ eng' = Waiting
    /\ UNCHANGED <<cardVars, cmdQ, cmd, gFile, gInt, gJob, http, rd, holes, stored, bounds>>

Open ==
    /\ eng.at = "opens"
    /\ sd = "free" /\ files[eng.file.name] # 0
    /\ eng' = [eng EXCEPT !.at = "begins", !.file.ver = files[eng.file.name]]
    /\ gInt' = NoInt
    /\ rd' = NoRead
    /\ UNCHANGED <<cardVars, cmdQ, cmd, gState, gFile, gJob, http, holes, stored, bounds>>

\* The journal says what is printed, under the lock taken anew.
Begins ==
    /\ eng.at = "begins"
    /\ JournalWrite(eng.file)
    /\ eng' = [eng EXCEPT !.at = "prints"]
    /\ UNCHANGED <<sd, files, tmp, cmdQ, cmd, jobVars, gJob, http, rd, stored, bounds>>

\* Once a second: a write that failed is made up for.
JournalTick ==
    /\ eng.at = "prints" /\ journal # eng.file
    /\ sd = "free"
    /\ journal' = eng.file
    /\ UNCHANGED <<sd, files, tmp, cmdQ, cmd, jobVars, gJob, http, eng, rd, holes, stored, bounds>>

\* A short read is taken for a full buffer.
FillShort ==
    /\ eng.at = "prints" /\ gState = "PRINTING" /\ rd.buf = 0 /\ ~rd.eof
    /\ sd = "free"
    /\ rd' = IF rd.next > Cells
             THEN [rd EXCEPT !.eof = TRUE, !.fed = Cells, !.from = rd.next]
             ELSE [rd EXCEPT !.buf = BufCells]
    /\ UNCHANGED <<cardVars, cmdQ, cmd, jobVars, gJob, http, eng, holes, stored, bounds>>

\* LineReader.fill under the lock; the end of the file ends the last line.
Fill ==
    /\ eng.at = "prints" /\ gState = "PRINTING" /\ rd.buf = 0 /\ ~rd.eof
    /\ sd = "free"
    /\ rd' = IF rd.next > Cells
             THEN [rd EXCEPT !.eof = TRUE, !.fed = Cells, !.from = rd.next]
             ELSE [rd EXCEPT !.buf = Min2(BufCells, Cells - rd.next + 1)]
    /\ UNCHANGED <<cardVars, cmdQ, cmd, jobVars, gJob, http, eng, holes, stored, bounds>>

\* The call returns and what it had of the line is forgotten.
FillBusy ==
    /\ eng.at = "prints" /\ gState = "PRINTING" /\ rd.buf = 0 /\ ~rd.eof
    /\ Taken(IF rd.from = rd.next THEN "line start" ELSE "in a line")
    /\ rd' = [rd EXCEPT !.from = rd.next]
    /\ UNCHANGED <<cardVars, cmdQ, cmd, jobVars, gJob, http, eng, holes, stored, bounds>>

\* The end of a line is looked for only in what the call began with.
NextCellSplit ==
    /\ eng.at = "prints" /\ rd.buf > 0 /\ gState = "PRINTING"
    /\ rd' = [rd EXCEPT !.next = @ + 1, !.buf = @ - 1,
                        !.fed  = IF rd.next \in LineEnds \/ rd.buf = 1 THEN rd.next ELSE @,
                        !.from = IF rd.next \in LineEnds THEN rd.next + 1 ELSE @]
    /\ UNCHANGED <<cardVars, cmdQ, cmd, jobVars, gJob, http, eng, holes, stored, bounds>>

\* LineReader.next: cells are collected up to the end of the line, which is handed over.
NextCell ==
    /\ eng.at = "prints" /\ rd.buf > 0 /\ gState = "PRINTING"
    /\ rd' = [rd EXCEPT !.next = @ + 1, !.buf = @ - 1,
                        !.fed  = IF rd.next \in LineEnds THEN rd.next ELSE @,
                        !.from = IF rd.next \in LineEnds THEN rd.next + 1 ELSE @]
    /\ UNCHANGED <<cardVars, cmdQ, cmd, jobVars, gJob, http, eng, holes, stored, bounds>>

PauseOrResume ==
    /\ eng.at = "prints"
    /\ \/ Command("PAUSE") /\ gState' = "PAUSED"
       \/ Command("RESUME") /\ gState' = "PRINTING"
    /\ Answering(Head(cmdQ), TRUE, "prints")
    /\ UNCHANGED <<cardVars, gFile, gInt, gJob, http, rd, holes, stored, bounds>>

\* STOP is answered before it is carried out.
Stop ==
    /\ eng.at = "prints" /\ Command("STOP")
    /\ Answering(Head(cmdQ), TRUE, "stops")
    /\ UNCHANGED <<cardVars, jobVars, gJob, http, rd, holes, stored, bounds>>

Stopped ==
    /\ eng.at = "stops"
    /\ gState' = "IDLE"
    /\ eng' = [eng EXCEPT !.at = "closing"]
    /\ UNCHANGED <<cardVars, cmdQ, cmd, gFile, gInt, gJob, http, rd, holes, stored, bounds>>

\* A second command takes the place of the one that waits for the printer.
PrintGcodeReplacing ==
    /\ eng.at = "prints" /\ Command("GCODE")
    /\ \/ /\ eng' = [eng EXCEPT !.man = Head(cmdQ), !.sent = FALSE]
          /\ UNCHANGED cmd
       \/ Answering(Head(cmdQ), FALSE, "prints")
    /\ UNCHANGED <<cardVars, jobVars, gJob, http, rd, holes, stored, bounds>>

\* A command to be sent between the lines of the print: one at a time.
PrintGcode ==
    /\ eng.at = "prints" /\ Command("GCODE")
    /\ \/ /\ eng.man = 0
          /\ eng' = [eng EXCEPT !.man = Head(cmdQ), !.sent = FALSE]
          /\ UNCHANGED cmd
       \/ Answering(Head(cmdQ), FALSE, "prints")
    /\ UNCHANGED <<cardVars, jobVars, gJob, http, rd, holes, stored, bounds>>

BusyPrinting ==
    /\ eng.at = "prints"
    /\ \E type \in {"CONNECT", "DISCONNECT", "SELECT", "START", "RECOVER", "DISCARD"} : Command(type)
    /\ Answering(Head(cmdQ), FALSE, "prints")
    /\ UNCHANGED <<cardVars, jobVars, gJob, http, rd, holes, stored, bounds>>

\* The user's command goes out; one nobody waits for any more is dropped.
SendManual ==
    /\ eng.at = "prints" /\ eng.man # 0 /\ ~eng.sent
    /\ IF cmd[eng.man].abandoned # "no"
       THEN /\ cmd' = [cmd EXCEPT ![eng.man].mem = "freed"]
            /\ eng' = [eng EXCEPT !.man = 0]
       ELSE /\ eng' = [eng EXCEPT !.sent = TRUE]
            /\ UNCHANGED cmd
    /\ UNCHANGED <<cardVars, cmdQ, jobVars, gJob, http, rd, holes, stored, bounds>>

ManualAcked ==
    /\ eng.at = "prints" /\ eng.man # 0 /\ eng.sent
    /\ cmd' = [cmd EXCEPT ![eng.man].ok = TRUE]
    /\ eng' = [eng EXCEPT !.at = "answers", !.c = eng.man, !.then = "prints", !.man = 0]
    /\ UNCHANGED <<cardVars, cmdQ, jobVars, gJob, http, rd, holes, stored, bounds>>

Finished ==
    /\ eng.at = "prints" /\ rd.eof
    /\ gState' = "IDLE"
    /\ eng' = [eng EXCEPT !.at = "closing"]
    /\ UNCHANGED <<cardVars, cmdQ, cmd, gFile, gInt, gJob, http, rd, holes, stored, bounds>>

PrintFails ==
    /\ eng.at = "prints"
    /\ SetError
    /\ eng' = [eng EXCEPT !.at = "closing"]
    /\ UNCHANGED <<cardVars, cmdQ, cmd, gFile, gInt, gJob, http, rd, holes, stored, bounds>>

\* done: the command that waited for the printer is forgotten.
ManualEndsUnanswered ==
    /\ eng.at = "closing" /\ eng.man # 0
    /\ eng' = [eng EXCEPT !.man = 0]
    /\ UNCHANGED <<cardVars, cmdQ, cmd, jobVars, gJob, http, rd, holes, stored, bounds>>

\* done: a command still waiting for the printer fails.
ManualEnds ==
    /\ eng.at = "closing" /\ eng.man # 0
    /\ cmd' = [cmd EXCEPT ![eng.man].ok = FALSE]
    /\ eng' = [eng EXCEPT !.at = "answers", !.c = eng.man, !.then = "closing", !.man = 0]
    /\ UNCHANGED <<cardVars, cmdQ, jobVars, gJob, http, rd, holes, stored, bounds>>

\* The lock is given back whether it was got or not.
CloseFileGiving ==
    /\ eng.at = "closing" /\ eng.man = 0
    /\ sd = "free" \/ Taken("close")
    /\ sd' = "free"
    /\ eng' = [eng EXCEPT !.at = "recording"]
    /\ UNCHANGED <<files, tmp, journal, cmdQ, cmd, jobVars, gJob, http, rd, holes, stored, bounds>>

\* The file is closed under the lock, or without it; only a lock that was got is given back.
CloseFile ==
    /\ eng.at = "closing" /\ eng.man = 0
    /\ sd = "free" \/ Taken("close")
    /\ eng' = [eng EXCEPT !.at = "recording"]
    /\ UNCHANGED <<cardVars, cmdQ, cmd, jobVars, gJob, http, rd, holes, stored, bounds>>

\* A print cut off by an error becomes the interrupted print.
RecordEnd ==
    /\ eng.at = "recording"
    /\ gInt' = IF gState = "ERROR" THEN [name |-> eng.file.name, ver |-> eng.file.ver, auto |-> FALSE] ELSE gInt
    /\ eng' = [eng EXCEPT !.at = "journals"]
    /\ UNCHANGED <<cardVars, cmdQ, cmd, gState, gFile, gJob, http, rd, holes, stored, bounds>>

JournalEnd ==
    /\ eng.at = "journals"
    /\ JournalWrite(IF gState = "ERROR" THEN eng.file ELSE NoFile)
    /\ eng' = Waiting
    /\ rd' = NoRead
    /\ UNCHANGED <<sd, files, tmp, cmdQ, cmd, jobVars, gJob, http, stored, bounds>>

-----------------------------------------------------------------------------
\* The board restarts; what the journal says was being printed becomes the interrupted print.
Restart ==
    /\ crashes < MaxCrashes
    /\ crashes' = crashes + 1
    /\ sd' = "free"
    /\ cmdQ' = <<>>
    /\ cmd' = [c \in 1..MaxPosts |-> NoCmd]
    /\ gState' = "DISCONNECTED"
    /\ gFile' = None
    /\ gInt' = [name |-> journal.name, ver |-> journal.ver, auto |-> journal.name # None]
    /\ gJob' = NoJob
    /\ http' = Idle
    /\ eng' = Waiting
    /\ rd' = NoRead
    /\ UNCHANGED <<files, tmp, journal, holes, stored, uploads>>

Init ==
    /\ sd = "free"
    /\ files = [n \in Names |-> 1]
    /\ tmp = NoTmp
    /\ journal = NoFile
    /\ cmdQ = <<>>
    /\ cmd = [c \in 1..MaxPosts |-> NoCmd]
    /\ gState = "DISCONNECTED" /\ gFile = None /\ gInt = NoInt /\ gJob = NoJob
    /\ http = Idle /\ eng = Waiting /\ rd = NoRead
    /\ holes = {} /\ stored = Names
    /\ uploads = 0 /\ crashes = 0

Clients ==
    \/ \E type \in Types : \E n \in IF type = "START" THEN Names ELSE {None} : Post(type, n)
    \/ "GCODE" \in Types /\ TakeSlot
    \/ \E n \in Names : UploadBegin(n) \/ DeleteLocks(n)

Server ==
    \/ PostAsync \/ AsyncRefused \/ Answered \/ Abandon
    \/ UploadWrite \/ UploadWritten \/ UploadChecked \/ UploadLocks \/ UploadRemoves \/ UploadRenames \/ UploadDiscards
    \/ DeleteChecked \/ DeleteRemoves

Engine ==
    \/ AnswerAsync \/ AnswerLooks \/ AnswerGives
    \/ Connect \/ Disconnect \/ Gcode \/ Executed \/ Discard \/ Discarded \/ NoPrint
    \/ Start \/ LookForFile \/ Claim \/ OpenFails \/ Open \/ Begins
    \/ PauseOrResume \/ Stop \/ Stopped \/ PrintGcode \/ BusyPrinting \/ SendManual \/ ManualAcked
    \/ Fill \/ NextCell \/ Finished \/ ManualEnds \/ CloseFile \/ RecordEnd \/ JournalEnd

Faulty == TimedOut \/ UploadFails \/ PrintFails \/ FillBusy \/ LogTakesCard \/ Restart

Next == Clients \/ Server \/ Engine \/ AutoConnectTick \/ AutoResume \/ JournalTick \/ LogGivesCard \/ Faulty

Spec == Init /\ [][Next]_vars

\* Between two requests nobody has to send one.
Fairness ==
    /\ WF_vars(Server)
    /\ WF_vars(Engine)
    /\ WF_vars(LogGivesCard)

LiveSpec == Spec /\ Fairness

-----------------------------------------------------------------------------
(* Properties *)

Files == [name : Names \cup {None}, ver : 0..Half]

\* The types; a ticket of the queue, a line read and the card's lock stay within their bounds (Cmd, LineReader, sdMutex).
TypeOK ==
    /\ sd \in {"free", "http", "log"}
    /\ files \in [Names -> 0..Half]
    /\ tmp \in [name : Names \cup {None}, ver : 0..Half, whole : BOOLEAN]
    /\ journal \in Files
    /\ cmdQ \in Seq(1..MaxPosts) /\ Len(cmdQ) <= QueueLen
    /\ cmd \in [1..MaxPosts -> [type : Types \cup {"none", "GCODE"}, name : Names \cup {None}, async : 0..MaxPosts,
                               mem : {"none", "live", "freed"}, abandoned : {"no", "yes", "too late"},
                               done : BOOLEAN, ok : BOOLEAN]]
    /\ gState \in {"DISCONNECTED", "IDLE", "PRINTING", "PAUSED", "ERROR"}
    /\ gFile \in Names \cup {None}
    /\ gInt \in [name : Names \cup {None}, ver : 0..Half, auto : BOOLEAN]
    /\ gJob \in [id : 0..MaxPosts, seq : 0..MaxPosts, done : BOOLEAN, ok : BOOLEAN]
    /\ http \in [at : {"idle", "waits", "gives up", "async", "receives", "writes", "received", "checked", "failed",
                       "replaces", "discards", "renames", "deletes", "removes"},
                 c : 0..MaxPosts, file : Files]
    /\ eng \in [at : {"loop", "answers", "gives", "executes", "looks", "claims", "opens", "begins", "prints", "stops",
                      "closing", "recording", "journals", "discards"},
                c : 0..MaxPosts, then : {"loop", "opens", "prints", "stops", "closing"}, file : Files,
                man : 0..MaxPosts, sent : BOOLEAN]
    /\ rd \in [next : 1..(Cells + 1), buf : 0..BufCells, from : 1..(Cells + 1), fed : 0..Cells, eof : BOOLEAN]
    /\ holes \subseteq {"late", "gap", "stale"}
    /\ stored \subseteq Names
    /\ uploads \in 0..MaxUploads /\ crashes \in 0..MaxCrashes

\* The commands somebody still has in hand: queued, waited for, or with the engine.
Held == {cmdQ[i] : i \in 1..Len(cmdQ)} \cup ({http.c, eng.c, eng.man} \ {0})

\* Both sides decide on their own who frees a command (answerCmd, post).  Nobody touches one that the other side has
\* freed: the engine may answer at the moment the client gives up, or long after it.
NoUseAfterFree == \A c \in Held : cmd[c].mem = "live"

\* A command nobody has in hand has been freed, unless its client noted that it gives up after the engine had looked.
OnlyTheEdgeLeaks == \A c \in Posted : cmd[c].mem = "live" /\ c \notin Held => cmd[c].abandoned = "too late"

\* The slot of asynchronous commands is taken exactly while its command is on the way, and there is only one: otherwise
\* printerGcodeAsync refuses every further command, or a job gets the result of another.
JobHasItsCommand ==
    LET ways == {c \in Held : cmd[c].async # 0}
    IN  IF gJob.done THEN ways = {}
        ELSE \/ http.at = "async" /\ ways = {}
             \/ \E c \in ways : ways = {c} /\ cmd[c].async = gJob.id

Reads == eng.at \in {"begins", "prints"} \/ (eng.then = "prints" /\ eng.at \in {"answers", "gives"})

\* Nobody replaces or deletes the file the engine reads: its card space would be used again and the printer be fed
\* whatever lands there.  (Left out: a START whose client has given up may slip in after the last look, as it becomes
\* visible only when the file is claimed.)
PrintedFileIntact == "late" \notin holes /\ Reads => files[eng.file.name] = eng.file.ver

\* The file of an interrupted print is the one that was printed, so that its offset means something.  (Left out: a
\* handler whose last look falls where the journal still names a print that printerFileInUse no longer knows.)
InterruptedFileKept == holes = {} /\ gInt.name # None => files[gInt.name] = gInt.ver

\* What the clients were told is on the card is there whole: under its name or, when the board went down between the
\* removal of the old file and the renaming, as upload.tmp until the next upload.
UploadAllOrNothing ==
    /\ \A n \in Names : files[n] # Half
    /\ \A n \in stored : files[n] # 0 \/ (tmp.name = n /\ tmp.whole) \/ (http.file.name = n /\ http.at = "renames")

\* The printer gets the lines as they are in the file: one handed over begins where the last one ended.
LinesWhole == rd.eof \/ rd.from = rd.fed + 1

\* The card's lock is given back by who holds it: the engine, going without it when it waited too long, must not give it
\* (FreeRTOS would stop the board).
LockGivenByHolder ==
    [][crashes' = crashes => /\ sd = "http" /\ sd' # "http" => http' # http
                             /\ sd = "log" /\ sd' # "log" => <<http, eng>>' = <<http, eng>>]_vars

\* A client that waits is answered or gives up, whatever the printer does meanwhile: a print that ends under a command
\* that waits for the printer's ok answers it.
ClientsAnswered == http.at = "waits" ~> http.at = "idle"

\* A job once accepted is done some day.
JobEnds == ~gJob.done ~> gJob.done
=============================================================================

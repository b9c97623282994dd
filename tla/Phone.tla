------------------------------- MODULE Phone -------------------------------
(***************************************************************************)
(* The phone's service (PrinterService.java) watching a print that runs on *)
(* the board.  The board tells its state in one status answer; the phone   *)
(* has to conclude from a row of them that a print finished, was stopped   *)
(* or was cut off, over restarts of the board and lost answers.  On that   *)
(* conclusion it tells the user, and arms the automatic power-off, which   *)
(* cuts the plug of the board and the printer once they are cold.          *)
(*                                                                         *)
(* Threads: the users' requests and AutoConnectThread, one at a time under *)
(* commandLock (lock is what its holder does); a PollerThread per print,   *)
(* of which an old one may still be in its last poll; TempPollerThread.    *)
(* The pollers do not take commandLock.  A call to the board is one step:  *)
(* EspPrinterConnection is a monitor.  The board is as PrintStream and     *)
(* Recovery have it, seen from outside.                                    *)
(***************************************************************************)
EXTENDS Naturals, FiniteSets

CONSTANTS
    AUTO_CONNECT_MAX_FAILS,
    HasPlug,     \* a Tapo plug is set up, and the automatic power-off switched on
    EndsInText,  \* the file goes on after its last command (slicers append their settings)
    Others,      \* what clients other than this phone do: "start", "stop"
    Users,       \* what users of the phone do
    Faults,      \* what may go wrong: the answer to "start", "stop", "recover" or to the asking for the "time" is lost;
                 \* the "plug" does not answer;
                 \* a request gets commandLock between AutoConnectThread's look and its "knock"
    MaxRehearsals, \* bound: rehearsals (dry runs) another client starts
    MaxPrints,   \* bound: prints
    MaxBoots,    \* bound: boots of the board
    MaxPollers,  \* bound: poller threads alive at once
    MaxPlug      \* bound: times the plug is switched by somebody

ASSUME PhoneAssumption ==
    /\ HasPlug \in BOOLEAN /\ EndsInText \in BOOLEAN
    /\ AUTO_CONNECT_MAX_FAILS \in Nat /\ MaxPrints \in Nat /\ MaxRehearsals \in Nat /\ MaxPlug \in Nat
    /\ MaxBoots \in Nat \ {0} /\ MaxPollers \in Nat \ {0}

VARIABLES
    \* the board and the printer
    board,       \* what /printer/status tells, and whether the board has power
    print,       \* number of the newest print
    \* EspPrinterConnection
    conn,
    \* PrinterService
    phase, fileReady, autoShutoffArmed, plugOn, temp, autoConnectFails, lastBootId,
    lock,        \* what the holder of commandLock does
    pollers, cur,
    tempPoller, autoConnect,
    tapo,        \* how far a switching off by hand has come
    \* bookkeeping of the properties and bounds
    fate,        \* of every print
    told,        \* how often the user was told of a successful print, counted to one more than there can be
    plugs, rehearsals,
    behind       \* the newest print began behind this phone's back: another client started it, the answer to START was
                 \* lost, or the board had counted an end before it that this phone had yet to read

boardVars == <<board, print, fate>>
flags     == <<fileReady, autoShutoffArmed, plugOn, temp, autoConnectFails, lastBootId>>
threads   == <<pollers, cur, tempPoller, autoConnect>>
ghosts    == <<told, plugs, rehearsals, behind, tapo>>
vars == <<boardVars, conn, phase, flags, lock, threads, ghosts>>

Prints == 1..MaxPrints
Busy(b) == b.state \in {"PRINTING", "PAUSED"}
Watching == {"PRINTING", "PAUSED"}
Detached == phase \in {"DISCONNECTED", "ERROR"}
Reachable == board.on

-----------------------------------------------------------------------------
(* The board *)

\* How what runs ends: a rehearsal leaves what is told of the last print alone.
EndTold(how) == IF board.dry THEN board.lastEnd ELSE how
Fate(f) == fate' = IF board.dry THEN fate ELSE [fate EXCEPT ![print] = f]
BoardMoves == UNCHANGED <<conn, phase, flags, lock, threads, ghosts>>

\* A print starts; nothing of it has been executed.
Begins(b) == [b EXCEPT !.state = "PRINTING", !.left = TRUE, !.rec = FALSE, !.dry = FALSE]
BeginPrint ==
    /\ print < MaxPrints /\ board.on /\ board.state = "IDLE"
    /\ print' = print + 1
    /\ board' = Begins(board)
    /\ fate' = [fate EXCEPT ![print + 1] = "runs"]

\* A rehearsal drives the engine and the counter like a print, from START on and until the next one.
Rehearse ==
    /\ rehearsals < MaxRehearsals /\ rehearsals' = rehearsals + 1
    /\ board.on /\ board.state = "IDLE"
    /\ board' = [board EXCEPT !.state = "PRINTING", !.left = TRUE, !.dry = TRUE]
    /\ UNCHANGED <<print, fate, conn, phase, flags, lock, threads, told, plugs, behind, tapo>>

\* The last line has been acknowledged, its moves and M400 have not.
BoardReadsAll ==
    /\ ~EndsInText
    /\ board.state = "PRINTING" /\ board.left
    /\ board' = [board EXCEPT !.left = FALSE]
    /\ UNCHANGED <<print, fate>> /\ BoardMoves

BoardFinishes ==
    /\ board.state = "PRINTING"
    /\ board' = [board EXCEPT !.state = "IDLE", !.left = FALSE, !.finished = @ + 1, !.lastEnd = EndTold("finished")]
    /\ Fate("finished")
    /\ UNCHANGED print /\ BoardMoves

BoardFails ==
    /\ Busy(board)
    /\ board' = [board EXCEPT !.state = "ERROR", !.lastEnd = EndTold("error"), !.rec = @ \/ ~board.dry]
    /\ Fate("cut off")
    /\ UNCHANGED print /\ BoardMoves

\* A print stopped after its last line reads as finished when some print or rehearsal of this boot has.
Stops == /\ Busy(board)
         /\ board' = [board EXCEPT !.state = "IDLE", !.left = FALSE,
                          !.lastEnd = EndTold(IF board.finished > 0 /\ ~board.left THEN "finished" ELSE "stopped")]
         /\ Fate("stopped")
         /\ UNCHANGED print

OtherClient ==
    /\ \/ "start" \in Others /\ BeginPrint /\ behind' = TRUE
       \/ "stop" \in Others /\ Stops /\ UNCHANGED behind
    /\ UNCHANGED <<conn, phase, flags, lock, threads, told, plugs, rehearsals, tapo>>

\* The printer on the USB port is found, or is gone.
BoardConnects ==
    /\ board.on
    /\ \/ board.state = "DISCONNECTED" /\ board' = [board EXCEPT !.state = "IDLE"]
       \/ board.state = "IDLE" /\ board' = [board EXCEPT !.state = "DISCONNECTED"]
    /\ UNCHANGED <<print, fate>> /\ BoardMoves

\* What was found interrupted runs on.
Resumes ==
    /\ board.on /\ board.rec /\ board.state = "IDLE"
    /\ board' = Begins(board)
    /\ fate' = [fate EXCEPT ![print] = "runs"]
    /\ UNCHANGED print

\* The board continues it by itself.
BoardResumes == Resumes /\ BoardMoves

RealPrint == Busy(board) /\ ~board.dry
CutOff == fate' = IF RealPrint THEN [fate EXCEPT ![print] = "cut off"] ELSE fate

\* The counters of a boot start again.
Booted == [on |-> TRUE, boot |-> board.boot + 1, state |-> "DISCONNECTED", left |-> FALSE, finished |-> 0,
              lastEnd |-> "none", rec |-> board.rec \/ RealPrint, dry |-> FALSE]
BoardCrashes ==
    /\ board.on /\ board.boot < MaxBoots
    /\ board' = Booted
    /\ CutOff
    /\ UNCHANGED print /\ BoardMoves

PlugOff == /\ board' = [board EXCEPT !.on = FALSE, !.state = "DISCONNECTED", !.left = FALSE, !.rec = @ \/ RealPrint]
           /\ CutOff
           /\ UNCHANGED print

PlugOn == /\ ~board.on /\ board.boot < MaxBoots
          /\ board' = Booted
          /\ UNCHANGED <<print, fate>>

PlugButton ==
    /\ plugs < MaxPlug /\ plugs' = plugs + 1
    /\ (board.on /\ PlugOff) \/ PlugOn
    /\ UNCHANGED <<conn, phase, flags, lock, threads, told, rehearsals, behind, tapo>>

-----------------------------------------------------------------------------
(* EspPrinterConnection *)

\* The board has counted an end that this phone has yet to read.
Unread == conn.bootIdSeen = board.boot /\ conn.finishedSeen # board.finished

\* Connected anew: the counters of now are the ones already seen.
Seen(c) == [c EXCEPT !.finishedSeen = board.finished, !.bootIdSeen = board.boot]

Answer(res, c) == [res |-> res, conn |-> c]

\* A restart of the board is looked at as every other status.
ProgressBlind ==
    IF board.state = "ERROR" /\ board.left THEN Answer("error", conn)
    ELSE IF board.dry THEN Answer("not", conn)
    ELSE IF board.finished # conn.finishedSeen
    THEN Answer("done", [conn EXCEPT !.finishedSeen = board.finished, !.tracking = FALSE])
    ELSE IF Busy(board)
    THEN Answer(IF board.left THEN "byte" ELSE "all bytes", [conn EXCEPT !.tracking = TRUE])
    ELSE Answer("not", conn)

\* pollProgress: what one status means after the ones before it. A rehearsal is looked at before boot and counter.
Progress ==
    IF board.state = "ERROR" /\ board.left THEN Answer("error", conn)
    ELSE IF board.dry THEN Answer("not", conn)
    ELSE IF board.boot # conn.bootIdSeen
    THEN Answer(IF conn.tracking THEN "error" ELSE "not", [Seen(conn) EXCEPT !.tracking = FALSE])
    ELSE IF board.finished # conn.finishedSeen
    THEN Answer("done", [conn EXCEPT !.finishedSeen = board.finished, !.tracking = FALSE])
    ELSE IF Busy(board)
    THEN Answer(IF board.left THEN "byte" ELSE "all bytes", [conn EXCEPT !.tracking = TRUE])
    ELSE IF conn.tracking /\ ~conn.stopping /\ board.lastEnd # "stopped"
    THEN Answer("error", [conn EXCEPT !.tracking = FALSE])
    ELSE Answer("not", conn)

-----------------------------------------------------------------------------
(* Poller threads *)

Free == lock = "free"

NoPoller == [at |-> "ended", stop |-> FALSE, got |-> "none", saw |-> FALSE]

\* requestStop interrupts a sleep, not a request under way.
Stopped(p) == IF p.at # "asked" THEN NoPoller ELSE [p EXCEPT !.stop = TRUE]
StopPoller ==
    /\ cur' = 0
    /\ pollers' = IF cur = 0 THEN pollers ELSE [pollers EXCEPT ![cur] = Stopped(@)]

StartPoller == \E p \in 1..MaxPollers :
    LET old == IF cur = 0 THEN pollers ELSE [pollers EXCEPT ![cur] = Stopped(@)]
    IN  /\ old[p].at = "ended"
        /\ cur' = p
        /\ pollers' = [old EXCEPT ![p] = [NoPoller EXCEPT !.at = "sleeps"]]

\* What a status may tell of the temperature: as cold as the power-off wants it, or warmer, or nothing until the printer
\* has answered. Only the power-off looks at it: without a plug it is left out, and TempPollerThread with it.
Readings == IF board.state = "DISCONNECTED" \/ ~HasPlug THEN {"other"} ELSE {"cold", "other"}

\* pollTemperatures and pollProgress of pollOnce.
PollAsks(p) ==
    /\ pollers[p].at = "sleeps" /\ Reachable
    /\ pollers' = [pollers EXCEPT ![p].at = "asked", ![p].got = Progress.res]
    /\ conn' = Progress.conn
    /\ temp' \in Readings
    /\ UNCHANGED <<boardVars, phase, fileReady, autoShutoffArmed, plugOn, autoConnectFails, lastBootId,
                   lock, cur, tempPoller, autoConnect, ghosts>>

\* pollPrintTime asks again and gets no answer: what pollProgress said is thrown away.
PollForgets(p) ==
    /\ "time" \in Faults
    /\ pollers[p].at = "asked" /\ pollers[p].got # "error"
    /\ pollers' = [pollers EXCEPT ![p] = IF @.stop THEN NoPoller ELSE [@ EXCEPT !.at = "sleeps", !.got = "none"]]
    /\ UNCHANGED <<boardVars, conn, phase, flags, lock, cur, tempPoller, autoConnect, ghosts>>

\* The end is told by the counter only.
DoneByCounter(q) == q.got = "done"

\* parseProgress: done by the counter, by the bytes, or because the printing seen before is over.
Done(q) == q.got \in {"done", "all bytes"} \/ (q.got = "not" /\ q.saw)

\* The end of pollOnce under the service's monitor; nobody looks whether the thread was told to stop.
PollGoesOn(p) ==
    LET q == pollers[p]
    IN  /\ q.at = "asked" /\ q.got # "error" /\ ~Done(q)
        /\ pollers' = [pollers EXCEPT ![p] = IF q.stop THEN NoPoller
                           ELSE [q EXCEPT !.at = "sleeps", !.got = "none", !.saw = @ \/ q.got \in {"byte", "all bytes"}]]
        /\ UNCHANGED <<boardVars, conn, phase, flags, lock, cur, tempPoller, autoConnect, ghosts>>

PollDone(p) ==
    LET q == pollers[p]
    IN  /\ q.at = "asked" /\ Done(q)
        /\ phase' = "IDLE"
        /\ told' = IF told > MaxPrints THEN told ELSE told + 1
        /\ autoShutoffArmed' = TRUE
        /\ pollers' = [pollers EXCEPT ![p] = NoPoller]
        /\ UNCHANGED <<boardVars, conn, fileReady, plugOn, temp, autoConnectFails, lastBootId,
                       lock, cur, tempPoller, autoConnect, plugs, rehearsals, behind, tapo>>

\* Every end of the poller arms the power-off.
PollErrorArmed(p) ==
    /\ pollers[p].at = "asked" /\ pollers[p].got = "error"
    /\ phase' = "ERROR"
    /\ autoShutoffArmed' = TRUE
    /\ pollers' = [pollers EXCEPT ![p] = NoPoller]
    /\ UNCHANGED <<boardVars, conn, fileReady, plugOn, temp, autoConnectFails, lastBootId, lock, cur, tempPoller,
                   autoConnect, ghosts>>

\* Printer bridge error: the thread ends.
PollError(p) ==
    /\ pollers[p].at = "asked" /\ pollers[p].got = "error"
    /\ phase' = "ERROR"
    /\ pollers' = [pollers EXCEPT ![p] = NoPoller]
    /\ UNCHANGED <<boardVars, conn, flags, lock, cur, tempPoller, autoConnect, ghosts>>

-----------------------------------------------------------------------------
(* The automatic power-off *)

\* TempPollerThread leaves a running print to its poller.
TempPolls ==
    /\ tempPoller.at = "sleeps" /\ phase # "PRINTING" /\ Reachable
    /\ temp' \in Readings
    /\ tempPoller' = [tempPoller EXCEPT !.at = "checks"]
    /\ UNCHANGED <<boardVars, conn, phase, fileReady, autoShutoffArmed, plugOn, autoConnectFails, lastBootId,
                   lock, pollers, cur, autoConnect, ghosts>>

TempEnds == tempPoller' = [at |-> IF tempPoller.stop THEN "off" ELSE "sleeps", stop |-> FALSE]

MayCut == temp = "cold"

\* maybeAutoShutoff.
CheckShutoff ==
    /\ tempPoller.at = "checks"
    /\ LET cut == autoShutoffArmed /\ MayCut
       IN  /\ autoShutoffArmed' = (autoShutoffArmed /\ ~cut)
           /\ IF cut /\ HasPlug THEN tempPoller' = [tempPoller EXCEPT !.at = "switches"] ELSE TempEnds
    /\ UNCHANGED <<boardVars, conn, phase, fileReady, plugOn, temp, autoConnectFails, lastBootId,
                   lock, pollers, cur, autoConnect, ghosts>>

\* notePlug: a change of the plug ends the watch that waits for the printer to cool.
NotePlug(on) ==
    /\ plugOn' = on
    /\ autoShutoffArmed' = (autoShutoffArmed /\ plugOn \in {"unknown", on})

ShutoffSwitches ==
    /\ tempPoller.at = "switches"
    /\ \/ PlugOff /\ tempPoller' = [tempPoller EXCEPT !.at = "notes"]
       \/ "plug" \in Faults /\ TempEnds /\ UNCHANGED boardVars
    /\ UNCHANGED <<conn, phase, flags, lock, pollers, cur, autoConnect, ghosts>>

ShutoffNotes ==
    /\ tempPoller.at = "notes"
    /\ NotePlug("off") /\ TempEnds
    /\ UNCHANGED <<boardVars, conn, phase, fileReady, temp, autoConnectFails, lastBootId, lock, pollers, cur, autoConnect,
                   ghosts>>

\* PlugPollerThread.
PlugPolled ==
    /\ HasPlug /\ plugOn # (IF board.on THEN "on" ELSE "off")
    /\ NotePlug(IF board.on THEN "on" ELSE "off")
    /\ UNCHANGED <<boardVars, conn, phase, fileReady, temp, autoConnectFails, lastBootId, lock, threads, ghosts>>

\* A restart seen by checkBoard ends the watch as well.
CheckBoard ==
    /\ Reachable /\ board.boot # lastBootId
    /\ lastBootId' = board.boot
    /\ autoShutoffArmed' = FALSE
    /\ UNCHANGED <<boardVars, conn, phase, fileReady, plugOn, temp, autoConnectFails, lock, threads, ghosts>>

-----------------------------------------------------------------------------
(* Requests, under commandLock *)

Only(user) == user \in Users /\ Free
Keeps == UNCHANGED <<plugOn, temp, autoConnectFails, lastBootId>>

SelectSdFile ==
    /\ Only("select") /\ Reachable /\ ~fileReady
    /\ phase \notin Watching
    /\ phase' = IF conn.open THEN "UPLOAD_VERIFIED" ELSE "DISCONNECTED"
    /\ fileReady' = TRUE
    /\ Keeps /\ UNCHANGED <<boardVars, conn, autoShutoffArmed, lock, threads, ghosts>>

\* The link to the printer is opened unless the board prints or has opened it itself.
Opens == board' = IF Busy(board) THEN board ELSE [board EXCEPT !.state = "IDLE", !.left = FALSE]
SeenOpen == conn' = [Seen(conn) EXCEPT !.open = TRUE]

Tracking == conn' = [conn EXCEPT !.tracking = TRUE, !.stopping = FALSE]

\* The request is refused, does not arrive, or its answer does not.
StartPrint ==
    /\ Only("start") /\ fileReady /\ conn.open
    /\ phase \notin Watching
    /\ Tracking
    /\ \/ BeginPrint /\ behind' = Unread /\ lock' = "started"
       \/ BeginPrint /\ behind' = TRUE /\ "start" \in Faults /\ lock' = "start failed"
       \/ board.state # "IDLE" /\ lock' = "start failed" /\ UNCHANGED <<boardVars, behind>>
    /\ UNCHANGED <<phase, flags, threads, told, plugs, rehearsals, tapo>>

PrintStarted ==
    /\ lock = "started"
    /\ autoShutoffArmed' = FALSE
    /\ fileReady' = FALSE
    /\ phase' = "PRINTING"
    /\ StartPoller
    /\ lock' = "free"
    /\ Keeps /\ UNCHANGED <<boardVars, conn, tempPoller, autoConnect, ghosts>>

StartFailed ==
    /\ lock = "start failed"
    /\ phase' = "ERROR"
    /\ lock' = "free"
    /\ UNCHANGED <<boardVars, conn, flags, threads, ghosts>>

\* Also a print the phone does not follow, or a rehearsal. The request may not arrive, or its answer may not.
StopPrint ==
    /\ Only("stop")
    /\ conn' = [conn EXCEPT !.stopping = TRUE]
    /\ \/ Stops /\ lock' = "stopped"
       \/ Stops /\ "stop" \in Faults /\ UNCHANGED lock
       \/ (~Busy(board) \/ "stop" \in Faults) /\ UNCHANGED <<boardVars, lock>>
    /\ UNCHANGED <<phase, flags, threads, ghosts>>

PrintStopped ==
    /\ lock = "stopped"
    /\ phase' = "IDLE"
    /\ StopPoller
    /\ autoShutoffArmed' = TRUE
    /\ lock' = "free"
    /\ Keeps /\ UNCHANGED <<boardVars, conn, fileReady, tempPoller, autoConnect, ghosts>>

\* The same with pause: what is shown as printing may then have no poller.
PausePrint ==
    /\ Only("pause") /\ board.state = "PRINTING"
    /\ board' = [board EXCEPT !.state = "PAUSED"]
    /\ lock' = "paused"
    /\ UNCHANGED <<print, fate, conn, phase, flags, threads, ghosts>>

ResumePrint ==
    /\ Only("pause") /\ phase = "PAUSED"
    /\ \/ board.state = "PAUSED" /\ board' = [board EXCEPT !.state = "PRINTING"] /\ lock' = "resumed"
       \/ board.state # "PAUSED" /\ lock' = "start failed" /\ UNCHANGED board
    /\ UNCHANGED <<print, fate, conn, phase, flags, threads, ghosts>>

PausedOrResumed ==
    /\ lock \in {"paused", "resumed"}
    /\ phase' = IF lock = "paused" THEN "PAUSED" ELSE "PRINTING"
    /\ lock' = "free"
    /\ UNCHANGED <<boardVars, conn, flags, threads, ghosts>>

\* The call that resumes what the board found interrupted; a failure leaves the phase alone, and so does an answer
\* that is lost.
RecoverCall ==
    \/ /\ Resumes
       /\ conn' = [Seen(conn) EXCEPT !.tracking = TRUE, !.stopping = FALSE]
       /\ lock' = "recovered"
    \/ Resumes /\ "recover" \in Faults /\ Tracking /\ lock' = "free"
    \/ ~(Reachable /\ board.rec /\ board.state = "IDLE") /\ Tracking /\ lock' = "free" /\ UNCHANGED boardVars

\* recoverPrint connects first when it has to, and shows nothing of it.
RecoverPrint ==
    /\ Only("recover") /\ phase \notin Watching
    /\ IF conn.open THEN RecoverCall
       ELSE /\ Reachable /\ UNCHANGED <<print, fate>>
            /\ \/ Opens /\ SeenOpen /\ lock' = "recovering"
               \/ "recover" \in Faults /\ Opens /\ UNCHANGED <<conn, lock>>
    /\ UNCHANGED <<phase, flags, threads, ghosts>>

RecoverConnected == lock = "recovering" /\ RecoverCall /\ UNCHANGED <<phase, flags, threads, ghosts>>

PrintRecovered ==
    /\ lock = "recovered"
    /\ autoShutoffArmed' = FALSE
    /\ fileReady' = FALSE
    /\ phase' = "PRINTING"
    /\ StartPoller
    /\ lock' = "free"
    /\ Keeps /\ UNCHANGED <<boardVars, conn, tempPoller, autoConnect, ghosts>>

-----------------------------------------------------------------------------
(* Connecting *)

StopTempPoller == tempPoller' = IF tempPoller.at = "sleeps" THEN [at |-> "off", stop |-> FALSE]
                                ELSE [tempPoller EXCEPT !.stop = tempPoller.at # "off"]

ConnectCalls == phase' = "CONNECTING" /\ Opens /\ SeenOpen /\ lock' = "connected"

\* Connect by hand, also while a print is watched.
Connecting == IF phase \in Watching THEN "reconnect" ELSE "connect"

\* connectPrinter, by hand.
ConnectPrinter ==
    /\ Only(Connecting) /\ Reachable
    /\ ConnectCalls
    /\ autoConnectFails' = 0
    /\ UNCHANGED <<print, fate, fileReady, autoShutoffArmed, plugOn, temp, lastBootId, threads, ghosts>>

\* The rest of connectPrinter: a print found running is followed (resumeActiveSdPrintIfAny).
Attach ==
    /\ lock = "connected" /\ Reachable
    /\ LET p == Progress
       IN  /\ conn' = p.conn
           /\ IF p.res \in {"byte", "all bytes"}
              THEN phase' = "PRINTING" /\ StartPoller
              ELSE phase' = (IF fileReady THEN "UPLOAD_VERIFIED" ELSE "IDLE") /\ UNCHANGED <<pollers, cur>>
    /\ tempPoller' = [tempPoller EXCEPT !.at = IF @ = "off" /\ HasPlug THEN "sleeps" ELSE @, !.stop = FALSE]
    /\ lock' = "free"
    /\ UNCHANGED <<boardVars, flags, autoConnect, ghosts>>

\* The board went away before the connection was complete.
AttachFails ==
    /\ lock = "connected" /\ ~Reachable
    /\ phase' = "DISCONNECTED"
    /\ conn' = [conn EXCEPT !.open = FALSE]
    /\ lock' = "free"
    /\ UNCHANGED <<boardVars, flags, threads, ghosts>>

DisconnectCalls ==
    /\ StopPoller /\ StopTempPoller
    /\ conn' = [conn EXCEPT !.open = FALSE]
    /\ phase' = "DISCONNECTED"
    /\ temp' = "other"

\* The board closes the link unless it prints.
Disconnects ==
    /\ DisconnectCalls
    /\ board' = IF board.state = "IDLE" THEN [board EXCEPT !.state = "DISCONNECTED"] ELSE board

DisconnectPrinter ==
    /\ Only("connect") /\ phase # "DISCONNECTED"
    /\ Disconnects
    /\ UNCHANGED <<print, fate, fileReady, autoShutoffArmed, plugOn, autoConnectFails, lastBootId, lock,
                   autoConnect, ghosts>>

\* tapoPlugOff, the first two steps of it without commandLock: the plug, the note of it, and the disconnect behind it.
TapoPlugOff ==
    /\ HasPlug /\ "plug" \in Users /\ tapo = "idle" /\ plugs < MaxPlug /\ plugs' = plugs + 1
    /\ board.on /\ PlugOff
    /\ tapo' = "off"
    /\ UNCHANGED <<conn, phase, flags, lock, threads, told, rehearsals, behind>>

TapoNotes ==
    /\ tapo = "off" /\ tapo' = "noted"
    /\ NotePlug("off")
    /\ UNCHANGED <<boardVars, conn, phase, fileReady, temp, autoConnectFails, lastBootId, lock, threads, told, plugs,
                   rehearsals, behind>>

TapoDisconnects ==
    /\ tapo = "noted" /\ Free /\ tapo' = "idle"
    /\ Disconnects
    /\ UNCHANGED <<print, fate, fileReady, autoShutoffArmed, plugOn, autoConnectFails, lastBootId, lock,
                   autoConnect, told, plugs, rehearsals, behind>>

\* A print counts like anything else.
AutoSeesCounted ==
    /\ autoConnect = "sleeps" /\ Detached /\ Reachable
    /\ Busy(board) \/ board.state = "IDLE"
    /\ autoConnectFails < AUTO_CONNECT_MAX_FAILS

\* AutoConnectThread looks at the board without the lock: a print is followed however often connecting failed.
AutoSees ==
    /\ autoConnect = "sleeps" /\ Detached /\ Reachable
    /\ Busy(board) \/ (board.state = "IDLE" /\ autoConnectFails < AUTO_CONNECT_MAX_FAILS)

AutoConnectLooks ==
    /\ "knock" \in Faults /\ ~Free
    /\ AutoSees
    /\ autoConnect' = "knocks"
    /\ UNCHANGED <<boardVars, conn, phase, flags, lock, pollers, cur, tempPoller, ghosts>>

\* For two minutes after the plug was switched on it tries whatever the board tells.
AutoTries == /\ Free /\ Reachable
             /\ \/ autoConnect = "knocks"
                \/ AutoSees
                \/ autoConnect = "sleeps" /\ Detached /\ plugOn = "on" /\ autoConnectFails < AUTO_CONNECT_MAX_FAILS
             /\ autoConnect' = "sleeps"

\* The printer has just appeared on the board, or the plug was switched on: failures no longer count.
FailsForgotten ==
    /\ autoConnect = "sleeps" /\ autoConnectFails > 0
    /\ plugOn = "on" \/ (Detached /\ Reachable /\ (Busy(board) \/ board.state = "IDLE"))
    /\ autoConnectFails' = 0
    /\ UNCHANGED <<boardVars, conn, phase, fileReady, autoShutoffArmed, plugOn, temp, lastBootId, lock, threads, ghosts>>

AutoConnects ==
    /\ AutoTries
    /\ ConnectCalls
    /\ autoConnectFails' = 0
    /\ UNCHANGED <<print, fate, fileReady, autoShutoffArmed, plugOn, temp, lastBootId, pollers, cur,
                   tempPoller, ghosts>>

ConnectFailed(ph) ==
    /\ phase' = ph
    /\ board' = IF board.state = "IDLE" THEN [board EXCEPT !.state = "DISCONNECTED"] ELSE board
    /\ conn' = [conn EXCEPT !.open = FALSE]
    /\ UNCHANGED <<print, fate, fileReady, autoShutoffArmed, plugOn, temp, lastBootId, lock, pollers, cur,
                   tempPoller, ghosts>>

\* One of the calls fails.
ConnectPrinterFails ==
    /\ Only(Connecting)
    /\ ConnectFailed("ERROR")
    /\ autoConnectFails' = 0
    /\ UNCHANGED autoConnect

\* Failing to follow a print counts as well.
AutoConnectFailsCounted ==
    /\ AutoTries
    /\ ConnectFailed("DISCONNECTED")
    /\ autoConnectFails' = autoConnectFails + 1

\* A failed attempt of the thread is not shown, and counted unless a print is to be followed.
AutoConnectFails ==
    /\ AutoTries
    /\ ConnectFailed("DISCONNECTED")
    /\ autoConnectFails' = IF Busy(board) \/ autoConnectFails = AUTO_CONNECT_MAX_FAILS THEN autoConnectFails
                           ELSE autoConnectFails + 1

\* The board lost the printer behind our back.
NoticeLost ==
    /\ autoConnect = "sleeps" /\ Free /\ plugOn = "on" /\ phase = "IDLE"
    /\ Reachable /\ board.state \in {"DISCONNECTED", "ERROR"}
    /\ DisconnectCalls
    /\ UNCHANGED <<boardVars, fileReady, autoShutoffArmed, plugOn, autoConnectFails, lastBootId, lock,
                   autoConnect, ghosts>>

-----------------------------------------------------------------------------
\* The service runs: the plug and the board have been asked once.
Init ==
    /\ board = [on |-> TRUE, boot |-> 1, state |-> "IDLE", left |-> FALSE, finished |-> 0, lastEnd |-> "none", rec |-> FALSE,
                 dry |-> FALSE]
    /\ print = 0
    /\ conn = [open |-> FALSE, tracking |-> FALSE, stopping |-> FALSE, finishedSeen |-> 0, bootIdSeen |-> 1]
    /\ phase = "DISCONNECTED" /\ fileReady = FALSE /\ autoShutoffArmed = FALSE
    /\ plugOn = (IF HasPlug THEN "on" ELSE "unknown") /\ temp = "other" /\ autoConnectFails = 0 /\ lastBootId = 1
    /\ lock = "free"
    /\ pollers = [p \in 1..MaxPollers |-> NoPoller] /\ cur = 0
    /\ tempPoller = [at |-> "off", stop |-> FALSE] /\ autoConnect = "sleeps"
    /\ fate = [n \in Prints |-> "none"] /\ told = 0 /\ plugs = 0
    /\ rehearsals = 0 /\ behind = FALSE /\ tapo = "idle"

BoardSteps ==
    \/ BoardReadsAll \/ BoardFinishes \/ BoardFails \/ OtherClient \/ Rehearse \/ BoardConnects \/ BoardResumes
    \/ BoardCrashes \/ PlugButton

Poller == \E p \in 1..MaxPollers : PollAsks(p) \/ PollForgets(p) \/ PollGoesOn(p) \/ PollDone(p) \/ PollError(p)

Requests ==
    \/ SelectSdFile \/ StartPrint \/ StopPrint \/ PausePrint \/ ResumePrint \/ RecoverPrint
    \/ ConnectPrinter \/ ConnectPrinterFails \/ DisconnectPrinter \/ TapoPlugOff

Completions ==
    \/ PrintStarted \/ StartFailed \/ PrintStopped \/ PausedOrResumed \/ RecoverConnected \/ PrintRecovered \/ Attach \/ AttachFails

Pollings == TempPolls \/ CheckShutoff \/ ShutoffSwitches \/ ShutoffNotes \/ TapoNotes \/ TapoDisconnects \/ PlugPolled \/ CheckBoard
           \/ AutoConnectLooks \/ AutoConnects \/ AutoConnectFails \/ FailsForgotten \/ NoticeLost

Next == BoardSteps \/ Poller \/ Requests \/ Completions \/ Pollings
Spec == Init /\ [][Next]_vars

\* The threads run (a new poller waits for the last answer of an old one at the bound MaxPollers only); neither the answer
\* to the asking for the time nor the connection fails forever.
Fairness ==
    /\ \A p \in 1..MaxPollers : WF_vars(PollAsks(p)) /\ SF_vars(PollGoesOn(p) \/ PollDone(p) \/ PollError(p))
    /\ SF_vars(Completions)
    /\ SF_vars(AutoConnects)
LiveSpec == Spec /\ Fairness

-----------------------------------------------------------------------------
\* Every variable has its type: at most one poller of several is the current one.
TypeOK ==
    /\ board \in [on : BOOLEAN, boot : 1..MaxBoots, state : {"DISCONNECTED", "IDLE", "PRINTING", "PAUSED", "ERROR"},
                  left : BOOLEAN, finished : 0..MaxPrints + MaxRehearsals, lastEnd : {"none", "finished", "stopped", "error"},
                  rec : BOOLEAN, dry : BOOLEAN]
    /\ print \in 0..MaxPrints
    /\ conn \in [open : BOOLEAN, tracking : BOOLEAN, stopping : BOOLEAN, finishedSeen : 0..MaxPrints + MaxRehearsals,
                 bootIdSeen : 1..MaxBoots]
    /\ phase \in {"DISCONNECTED", "CONNECTING", "IDLE", "UPLOAD_VERIFIED", "PRINTING", "PAUSED", "ERROR"}
    /\ fileReady \in BOOLEAN /\ autoShutoffArmed \in BOOLEAN
    /\ plugOn \in {"unknown", "on", "off"} /\ temp \in {"cold", "other"}
    /\ autoConnectFails \in 0..AUTO_CONNECT_MAX_FAILS /\ lastBootId \in 1..MaxBoots
    /\ lock \in {"free", "started", "start failed", "stopped", "paused", "resumed", "recovering", "recovered", "connected"}
    /\ pollers \in [1..MaxPollers -> [at : {"sleeps", "asked", "ended"}, stop : BOOLEAN, saw : BOOLEAN,
                                      got : {"none", "error", "done", "byte", "all bytes", "not"}]]
    /\ cur \in 0..MaxPollers
    /\ tempPoller \in [at : {"off", "sleeps", "checks", "switches", "notes"}, stop : BOOLEAN]
    /\ autoConnect \in {"sleeps", "knocks"}
    /\ fate \in [Prints -> {"none", "runs", "finished", "stopped", "cut off"}]
    /\ told \in 0..MaxPrints + 1 /\ plugs \in 0..MaxPlug
    /\ rehearsals \in 0..MaxRehearsals /\ behind \in BOOLEAN /\ tapo \in {"idle", "off", "noted"}

Ended == {n \in Prints : fate[n] \in {"finished", "stopped"}}

\* pollOnce and pollProgress: as often as the user was told of a successful print, so many prints really came to
\* their end, finished or stopped by a user: no error, no crash of the board and no lost answer in between makes two
\* successes of one print, or one of a print that was cut off.
SuccessHasItsEnd == told <= Cardinality(Ended)

Cuts == tempPoller.at = "checks" /\ tempPoller'.at = "switches"

\* maybeAutoShutoff: errors, crashes and lost answers never make the automatic power-off: it is decided on only when
\* the newest print has come to its end, so that one that was cut off keeps the power it needs to be continued, and one
\* that runs is not switched off under way. (A START just answered is about to end the watch of the print before; a
\* print that began behind the phone's back may be cut: its first poll reads the end before it.)
CutsHaveTheirEnd == [][Cuts => print \in Ended \/ lock = "started" \/ behind]_vars

\* PollerThread: when a print it has seen running is over, for whatever reason, the phone stops showing it as
\* printing, also when the answers in which that was to be read were lost.
EndNoticed ==
    \A p \in 1..MaxPollers :
        (phase = "PRINTING" /\ cur = p /\ pollers[p].saw /\ ~Busy(board)) ~> (phase # "PRINTING" \/ Busy(board) \/ ~Reachable)

\* AutoConnectThread: a print running on the board that the phone does not follow is followed in the end, however
\* often connecting has failed before.
PrintFollowed == (Detached /\ Busy(board)) ~> (~Detached \/ ~Busy(board))

=============================================================================

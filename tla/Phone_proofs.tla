---------------------------- MODULE Phone_proofs ----------------------------
(***************************************************************************)
(* Proofs about Phone: the types, for every value of the constants, and    *)
(* what the phone concludes from its polls, for every number of prints,    *)
(* boots and switchings of the plug.                                       *)
(*                                                                         *)
(* The actions are first sorted by what they do to the board as it is seen *)
(* from outside; what the board promises is proved once for every kind.    *)
(***************************************************************************)
EXTENDS Phone, FiniteSetTheorems, TLAPS

USE PhoneAssumption

Ends0 == 0..MaxPrints + MaxRehearsals
BoardObject == [on : BOOLEAN, boot : 1..MaxBoots, state : {"DISCONNECTED", "IDLE", "PRINTING", "PAUSED", "ERROR"},
                left : BOOLEAN, finished : Ends0, lastEnd : {"none", "finished", "stopped", "error"}, rec : BOOLEAN, dry : BOOLEAN]
ConnObject == [open : BOOLEAN, tracking : BOOLEAN, stopping : BOOLEAN, finishedSeen : Ends0, bootIdSeen : 1..MaxBoots]
PollerObject == [at : {"sleeps", "asked", "ended"}, stop : BOOLEAN, saw : BOOLEAN,
                 got : {"none", "error", "done", "byte", "all bytes", "not"}]

PollerArray == [1..MaxPollers -> PollerObject]
TempObject == [at : {"off", "sleeps", "checks", "switches", "notes"}, stop : BOOLEAN]
Fails0 == 0..AUTO_CONNECT_MAX_FAILS
Boots == 1..MaxBoots
Plugs == 0..MaxPlug
Tolds == 0..MaxPrints + 1
Current == 0..MaxPollers
Dries == 0..MaxRehearsals

BoardTyped == /\ board \in BoardObject
              /\ print \in 0..MaxPrints
              /\ fate \in [Prints -> {"none", "runs", "finished", "stopped", "cut off"}]
              /\ rehearsals \in Dries

\* What is shown, and what is known of the plug.
ShownTyped ==
    /\ conn \in ConnObject
    /\ phase \in {"DISCONNECTED", "CONNECTING", "IDLE", "UPLOAD_VERIFIED", "PRINTING", "PAUSED", "ERROR"}
    /\ fileReady \in BOOLEAN /\ autoShutoffArmed \in BOOLEAN
    /\ plugOn \in {"unknown", "on", "off"} /\ temp \in {"cold", "other"}
ThreadsTyped ==
    /\ autoConnectFails \in Fails0 /\ lastBootId \in Boots
    /\ lock \in {"free", "started", "start failed", "stopped", "paused", "resumed", "recovering", "recovered", "connected"}
    /\ pollers \in PollerArray
    /\ cur \in Current
    /\ tempPoller \in TempObject
CountsTyped ==
    /\ autoConnect \in {"sleeps", "knocks"}
    /\ told \in Tolds /\ plugs \in Plugs
    /\ behind \in BOOLEAN /\ tapo \in {"idle", "off", "noted"}
ServiceTyped == ShownTyped /\ ThreadsTyped /\ CountsTyped

LEMMA Zeros == 0 \in Fails0 /\ 0 \in Plugs /\ 0 \in Tolds /\ 0 \in Current /\ 1 \in Boots /\ 0 \in Dries /\ 0 \in Ends0
BY DEF PhoneAssumption, Fails0, Plugs, Tolds, Current, Boots, Dries, Ends0

LEMMA TypedParts == TypeOK <=> BoardTyped /\ ServiceTyped
BY DEF TypeOK, BoardTyped, ServiceTyped, ShownTyped, ThreadsTyped, CountsTyped, BoardObject, ConnObject, PollerObject, PollerArray, TempObject, Fails0, Boots, Plugs, Tolds, Current, Dries, Ends0

-----------------------------------------------------------------------------
(* The board *)

LEMMA Numbers ==
    ASSUME BoardTyped
    PROVE  /\ MaxPrints \in Nat /\ MaxBoots \in Nat
           /\ print \in Nat /\ print <= MaxPrints
           /\ board.finished \in Nat /\ MaxRehearsals \in Nat /\ rehearsals \in Nat /\ rehearsals <= MaxRehearsals
           /\ board.boot \in Nat /\ 1 <= board.boot /\ board.boot <= MaxBoots
<1>1. board.finished \in 0..MaxPrints + MaxRehearsals /\ board.boot \in 1..MaxBoots /\ print \in 0..MaxPrints
      /\ rehearsals \in 0..MaxRehearsals
  BY DEF BoardTyped, BoardObject, Ends0, Dries
<1>2. MaxPrints \in Nat /\ MaxBoots \in Nat /\ MaxRehearsals \in Nat
  BY DEF PhoneAssumption
<1> QED
  BY ONLY <1>1, <1>2

Finished == {n \in Prints : fate[n] = "finished"}

Rehearsing == Busy(board) /\ board.dry
One(b) == IF b THEN 1 ELSE 0

\* A print that runs has not ended; what can be continued was cut off; what is counted as finished is, or was rehearsed.
BoardInv ==
    /\ RealPrint => print \in Prints /\ fate[print] = "runs" /\ ~board.rec
    /\ board.rec => print \in Prints /\ fate[print] = "cut off"
    /\ ~board.on => board.state = "DISCONNECTED"
    /\ \A n \in Prints : n > print => fate[n] = "none"
    /\ board.finished + One(Rehearsing) <= Cardinality(Finished) + rehearsals

\* The kinds of step, by what they do to the board.
Rests    == UNCHANGED <<board, print, fate>>
ReadsAll == board.state = "PRINTING" /\ board' = [board EXCEPT !.left = FALSE] /\ UNCHANGED <<print, fate>> /\ ~EndsInText
Finishes == /\ board.state = "PRINTING" /\ ~board.dry
            /\ board' = [board EXCEPT !.state = "IDLE", !.left = FALSE, !.finished = @ + 1, !.lastEnd = "finished"]
            /\ fate' = [fate EXCEPT ![print] = "finished"] /\ UNCHANGED print
Fails    == /\ RealPrint
            /\ board' = [board EXCEPT !.state = "ERROR", !.lastEnd = "error", !.rec = TRUE]
            /\ fate' = [fate EXCEPT ![print] = "cut off"] /\ UNCHANGED print
Ends     == /\ RealPrint
            /\ \E how \in {"finished", "stopped"} :
                  /\ board.left => how = "stopped"
                  /\ board' = [board EXCEPT !.state = "IDLE", !.left = FALSE, !.lastEnd = how]
            /\ fate' = [fate EXCEPT ![print] = "stopped"] /\ UNCHANGED print
\* A rehearsal ends, one way or another.
DryEnds  == /\ Rehearsing
            /\ \E s \in {"IDLE", "ERROR"}, l \in BOOLEAN, n \in {board.finished, board.finished + 1} :
                  board' = [board EXCEPT !.state = s, !.left = l, !.finished = n]
            /\ UNCHANGED <<print, fate>>
Starts   == /\ print < MaxPrints /\ board.on /\ board.state = "IDLE"
            /\ print' = print + 1 /\ board' = Begins(board) /\ fate' = [fate EXCEPT ![print + 1] = "runs"]
Reboots  == /\ board.boot < MaxBoots
            /\ board' = Booted /\ CutOff /\ UNCHANGED print
\* Nothing runs, before or after.
Settles  == /\ ~Busy(board) /\ \E s \in {"IDLE", "DISCONNECTED"}, l \in BOOLEAN :
                  /\ board' = [board EXCEPT !.state = s, !.left = l]
                  /\ s = "IDLE" => board.on
                  /\ l => board.left
                  /\ board.state = "ERROR" => phase' \notin Watching
            /\ UNCHANGED <<print, fate>>
Pauses   == /\ "pause" \in Users /\ Busy(board) /\ board' = [board EXCEPT !.state = IF @ = "PRINTING" THEN "PAUSED" ELSE "PRINTING"]
            /\ UNCHANGED <<print, fate>>

Kinds == Rests \/ ReadsAll \/ Finishes \/ Fails \/ Ends \/ DryEnds \/ Starts \/ Resumes \/ Reboots \/ PlugOff \/ Settles \/ Pauses
\* A rehearsal starts.
Rehearses == /\ rehearsals < MaxRehearsals /\ rehearsals' = rehearsals + 1
             /\ board.on /\ board.state = "IDLE"
             /\ board' = [board EXCEPT !.state = "PRINTING", !.left = TRUE, !.dry = TRUE]
             /\ UNCHANGED <<print, fate>>
BoardStep == Rehearses \/ (Kinds /\ UNCHANGED rehearsals)

LEMMA PlugOnReboots == ASSUME BoardTyped, BoardInv, PlugOn PROVE Reboots
<1>1. ~RealPrint
  BY DEF PlugOn, BoardInv, RealPrint, Busy
<1> QED
  BY <1>1 DEF PlugOn, Reboots, CutOff

LEMMA StopsEnds == ASSUME BoardTyped, Stops PROVE Kinds
<1>1. CASE board.dry
  <2>1. board' = [board EXCEPT !.state = "IDLE", !.left = FALSE, !.lastEnd = board.lastEnd]
    BY <1>1 DEF Stops, EndTold
  <2>2. [board EXCEPT !.state = "IDLE", !.left = FALSE, !.lastEnd = board.lastEnd]
        = [board EXCEPT !.state = "IDLE", !.left = FALSE, !.finished = board.finished]
    BY DEF BoardTyped, BoardObject
  <2>3. Rehearsing /\ UNCHANGED <<print, fate>>
    BY <1>1 DEF Stops, Fate, Rehearsing
  <2> QED BY <2>1, <2>2, <2>3 DEF DryEnds, Kinds
<1>2. CASE ~board.dry
  <2> DEFINE how == IF board.finished > 0 /\ ~board.left THEN "finished" ELSE "stopped"
  <2>1. board' = [board EXCEPT !.state = "IDLE", !.left = FALSE, !.lastEnd = how]
    BY <1>2 DEF Stops, EndTold
  <2>2. how \in {"finished", "stopped"} /\ (board.left => how = "stopped")
    OBVIOUS
  <2>3. RealPrint /\ fate' = [fate EXCEPT ![print] = "stopped"] /\ UNCHANGED print
    BY <1>2 DEF Stops, Fate, RealPrint
  <2> HIDE DEF how
  <2> QED BY <2>1, <2>2, <2>3 DEF Ends, Kinds
<1> QED
  BY <1>1, <1>2

LEMMA OpensSettles == ASSUME BoardTyped, Opens, board.on, UNCHANGED <<print, fate>>, phase' \notin Watching PROVE Kinds
<1>1. CASE Busy(board)
  BY <1>1 DEF Opens, Rests, Kinds
<1>2. CASE ~Busy(board)
  BY <1>2 DEF Opens, Settles, Kinds
<1> QED
  BY <1>1, <1>2

LEMMA ClosesSettles ==
    ASSUME BoardTyped, UNCHANGED <<print, fate>>,
           board' = IF board.state = "IDLE" THEN [board EXCEPT !.state = "DISCONNECTED"] ELSE board
    PROVE  Kinds
<1>1. [board EXCEPT !.state = "DISCONNECTED"] = [board EXCEPT !.state = "DISCONNECTED", !.left = board.left]
  BY DEF BoardTyped, BoardObject
<1>2. board.left \in BOOLEAN
  BY DEF BoardTyped, BoardObject
<1>3. CASE board.state = "IDLE"
  BY <1>1, <1>2, <1>3 DEF Settles, Busy, Kinds
<1>4. CASE board.state # "IDLE"
  BY <1>4 DEF Rests, Kinds
<1> QED
  BY <1>3, <1>4

LEMMA RecoverKinds == ASSUME BoardTyped, RecoverCall PROVE Kinds
BY DEF RecoverCall, Kinds, Rests, boardVars

LEMMA BoardKinds ==
    ASSUME BoardTyped, BoardInv, BoardSteps
    PROVE  BoardStep
<1> USE DEF BoardStep
<1>1. CASE BoardReadsAll
  BY <1>1 DEF BoardReadsAll, ReadsAll, Kinds, BoardMoves, ghosts
<1>2. CASE BoardFinishes
  <2>1. rehearsals' = rehearsals
    BY <1>2 DEF BoardFinishes, BoardMoves, ghosts
  <2>2. CASE board.dry
    <3>1. board' = [board EXCEPT !.state = "IDLE", !.left = FALSE, !.finished = @ + 1, !.lastEnd = board.lastEnd]
      BY <1>2, <2>2 DEF BoardFinishes, EndTold
    <3>2. board' = [board EXCEPT !.state = "IDLE", !.left = FALSE, !.finished = board.finished + 1]
      BY <3>1 DEF BoardTyped, BoardObject
    <3>3. Rehearsing /\ UNCHANGED <<print, fate>>
      BY <1>2, <2>2 DEF BoardFinishes, Fate, Rehearsing, Busy
    <3> QED BY <2>1, <3>2, <3>3 DEF DryEnds, Kinds
  <2>3. CASE ~board.dry
    BY <1>2, <2>1, <2>3 DEF BoardFinishes, Finishes, EndTold, Fate, Kinds
  <2> QED BY <2>2, <2>3
<1>3. CASE BoardFails
  <2>1. rehearsals' = rehearsals
    BY <1>3 DEF BoardFails, BoardMoves, ghosts
  <2>2. board.rec \in BOOLEAN /\ board.dry \in BOOLEAN /\ board.left \in BOOLEAN
    BY DEF BoardTyped, BoardObject
  <2>3. CASE board.dry
    <3>1. (board.rec \/ ~board.dry) = board.rec
      BY <2>2, <2>3
    <3>2. board' = [board EXCEPT !.state = "ERROR", !.lastEnd = board.lastEnd, !.rec = board.rec]
      BY <1>3, <2>3, <3>1 DEF BoardFails, EndTold
    <3>3. board' = [board EXCEPT !.state = "ERROR", !.left = board.left, !.finished = board.finished]
      BY <3>2 DEF BoardTyped, BoardObject
    <3>4. Rehearsing /\ UNCHANGED <<print, fate>>
      BY <1>3, <2>3 DEF BoardFails, Fate, Rehearsing
    <3> QED BY <2>1, <2>2, <3>3, <3>4 DEF DryEnds, Kinds
  <2>4. CASE ~board.dry
    <3>1. (board.rec \/ ~board.dry) = TRUE
      BY <2>2, <2>4
    <3> QED BY <1>3, <2>1, <2>4, <3>1 DEF BoardFails, Fails, EndTold, Fate, RealPrint, Kinds
  <2> QED BY <2>3, <2>4
<1>4. CASE OtherClient
  <2>1. rehearsals' = rehearsals
    BY <1>4 DEF OtherClient
  <2>2. BeginPrint \/ Stops
    BY <1>4 DEF OtherClient
  <2> QED BY <2>1, <2>2, StopsEnds DEF BeginPrint, Starts, Kinds
<1>5. CASE BoardConnects
  <2>1. board.state \in {"IDLE", "DISCONNECTED"} /\ board.on /\ UNCHANGED <<print, fate, rehearsals>>
    BY <1>5 DEF BoardConnects, BoardMoves, ghosts
  <2>2. board' = [board EXCEPT !.state = "IDLE"] \/ board' = [board EXCEPT !.state = "DISCONNECTED"]
    BY <1>5 DEF BoardConnects
  <2>3. \A s : [board EXCEPT !.state = s] = [board EXCEPT !.state = s, !.left = board.left]
    BY DEF BoardTyped, BoardObject
  <2>4. board.left \in BOOLEAN
    BY DEF BoardTyped, BoardObject
  <2> QED BY <2>1, <2>2, <2>3, <2>4 DEF Settles, Busy, Kinds
<1>6. CASE BoardResumes
  BY <1>6 DEF BoardResumes, BoardMoves, ghosts, Kinds
<1>7. CASE BoardCrashes
  BY <1>7 DEF BoardCrashes, Reboots, BoardMoves, ghosts, Kinds
<1>8. CASE PlugButton
  BY <1>8, PlugOnReboots DEF PlugButton, Kinds
<1>9. CASE Rehearse
  BY <1>9 DEF Rehearse, Rehearses
<1> QED
  BY <1>1, <1>2, <1>3, <1>4, <1>5, <1>6, <1>7, <1>8, <1>9 DEF BoardSteps

LEMMA RequestKinds ==
    ASSUME BoardTyped, BoardInv, Requests \/ RecoverConnected
    PROVE  BoardStep
<1> USE DEF Kinds
<1>1. CASE SelectSdFile
  BY <1>1 DEF SelectSdFile, Rests, boardVars, ghosts, BoardStep
<1>2. CASE StartPrint
  BY <1>2 DEF StartPrint, BeginPrint, Starts, Rests, boardVars, BoardStep
<1>3. CASE StopPrint
  <2>1. rehearsals' = rehearsals /\ (Stops \/ Rests)
    BY <1>3 DEF StopPrint, Rests, boardVars, ghosts
  <2> QED BY <2>1, StopsEnds DEF BoardStep
<1>4. CASE PausePrint \/ ResumePrint
  BY <1>4 DEF PausePrint, ResumePrint, Pauses, Rests, Busy, Only, ghosts, BoardStep
<1>5. CASE RecoverPrint
  <2>1. rehearsals' = rehearsals /\ phase' \notin Watching
    BY <1>5 DEF RecoverPrint, ghosts
  <2>2. RecoverCall \/ (Opens /\ board.on /\ UNCHANGED <<print, fate>>)
    BY <1>5 DEF RecoverPrint, Reachable
  <2> QED BY <2>1, <2>2, RecoverKinds, OpensSettles DEF BoardStep
<1>6. CASE ConnectPrinter
  <2>1. Opens /\ board.on /\ UNCHANGED <<print, fate, rehearsals>> /\ phase' \notin Watching
    BY <1>6 DEF ConnectPrinter, ConnectCalls, Reachable, ghosts, Watching
  <2> QED BY <2>1, OpensSettles DEF BoardStep
<1>7. CASE ConnectPrinterFails \/ DisconnectPrinter
  <2>1. /\ UNCHANGED <<print, fate, rehearsals>>
        /\ board' = IF board.state = "IDLE" THEN [board EXCEPT !.state = "DISCONNECTED"] ELSE board
    BY <1>7 DEF ConnectPrinterFails, ConnectFailed, DisconnectPrinter, Disconnects, ghosts
  <2> QED BY <2>1, ClosesSettles DEF BoardStep
<1>8. CASE TapoPlugOff
  BY <1>8 DEF TapoPlugOff, BoardStep
<1>9. CASE RecoverConnected
  <2>1. RecoverCall /\ rehearsals' = rehearsals
    BY <1>9 DEF RecoverConnected, ghosts
  <2> QED BY <2>1, RecoverKinds DEF BoardStep
<1> QED
  BY <1>1, <1>2, <1>3, <1>4, <1>5, <1>6, <1>7, <1>8, <1>9 DEF Requests

LEMMA PollingKinds ==
    ASSUME BoardTyped, BoardInv, Pollings
    PROVE  BoardStep
<1> USE DEF Kinds
<1>1. CASE TempPolls \/ CheckShutoff \/ ShutoffNotes \/ TapoNotes \/ PlugPolled \/ CheckBoard \/ AutoConnectLooks \/ FailsForgotten \/ NoticeLost
  BY <1>1 DEF TempPolls, CheckShutoff, ShutoffNotes, TapoNotes, PlugPolled, CheckBoard, AutoConnectLooks, FailsForgotten, NoticeLost,
              boardVars, ghosts, Rests, BoardStep
<1>2. CASE ShutoffSwitches
  BY <1>2 DEF ShutoffSwitches, Rests, boardVars, ghosts, BoardStep
<1>3. CASE AutoConnects
  <2>1. Opens /\ board.on /\ UNCHANGED <<print, fate, rehearsals>> /\ phase' \notin Watching
    BY <1>3 DEF AutoConnects, AutoTries, ConnectCalls, Reachable, ghosts, Watching
  <2> QED BY <2>1, OpensSettles DEF BoardStep
<1>4. CASE AutoConnectFails \/ TapoDisconnects
  <2>1. /\ UNCHANGED <<print, fate, rehearsals>>
        /\ board' = IF board.state = "IDLE" THEN [board EXCEPT !.state = "DISCONNECTED"] ELSE board
    BY <1>4 DEF AutoConnectFails, ConnectFailed, TapoDisconnects, Disconnects, ghosts
  <2> QED BY <2>1, ClosesSettles DEF BoardStep
<1> QED
  BY <1>1, <1>2, <1>3, <1>4 DEF Pollings

LEMMA StepKinds ==
    ASSUME BoardTyped, BoardInv, [Next]_vars
    PROVE  BoardStep
<1>1. CASE Poller
  BY <1>1 DEF Poller, PollAsks, PollForgets, PollGoesOn, PollDone, PollError, boardVars, ghosts, BoardStep, Kinds, Rests
<1>2. CASE UNCHANGED vars
  BY <1>2 DEF vars, boardVars, ghosts, BoardStep, Kinds, Rests
<1>3. CASE Completions /\ ~RecoverConnected
  BY <1>3 DEF Completions, PrintStarted, StartFailed, PrintStopped, PausedOrResumed, PrintRecovered, Attach, AttachFails,
              boardVars, ghosts, BoardStep, Kinds, Rests
<1> QED
  BY <1>1, <1>2, <1>3, BoardKinds, RequestKinds, PollingKinds DEF Next

LEMMA BeginsFields ==
    ASSUME BoardTyped
    PROVE  /\ Begins(board) \in BoardObject
           /\ Begins(board).state = "PRINTING" /\ Begins(board).left /\ ~Begins(board).rec /\ ~Begins(board).dry
           /\ Begins(board).on = board.on /\ Begins(board).boot = board.boot
           /\ Begins(board).finished = board.finished /\ Begins(board).lastEnd = board.lastEnd
BY DEF Begins, BoardTyped, BoardObject

LEMMA BootedFields ==
    ASSUME BoardTyped
    PROVE  /\ board.boot < MaxBoots => Booted \in BoardObject
           /\ Booted.state = "DISCONNECTED" /\ ~Booted.left /\ Booted.on /\ ~Booted.dry
           /\ Booted.boot = board.boot + 1 /\ Booted.finished = 0 /\ Booted.lastEnd = "none"
           /\ Booted.rec <=> board.rec \/ RealPrint
<1>1. board.boot < MaxBoots => board.boot + 1 \in 1..MaxBoots
  <2>1. board.boot \in 1..MaxBoots
    BY DEF BoardTyped, BoardObject
  <2> QED BY <2>1 DEF PhoneAssumption
<1>2. (board.rec \/ RealPrint) \in BOOLEAN
  BY Zenon
<1> DEFINE r == board.rec \/ RealPrint
           n == board.boot + 1
<1>4. Booted = [on |-> TRUE, boot |-> n, state |-> "DISCONNECTED", left |-> FALSE, finished |-> 0,
                lastEnd |-> "none", rec |-> r, dry |-> FALSE]
  BY DEF Booted
<1>5. r \in BOOLEAN /\ (r <=> board.rec \/ RealPrint) /\ n = board.boot + 1 /\ (board.boot < MaxBoots => n \in 1..MaxBoots)
  BY <1>1, <1>2
<1> HIDE DEF r, n
<1> QED
  BY <1>1, <1>4, <1>5, Zeros DEF BoardObject

LEMMA OffFields ==
    ASSUME BoardTyped, PlugOff
    PROVE  /\ board' \in BoardObject
           /\ board'.state = "DISCONNECTED" /\ ~board'.left /\ ~board'.on
           /\ board'.boot = board.boot /\ board'.finished = board.finished /\ board'.lastEnd = board.lastEnd
           /\ (board'.rec <=> board.rec \/ RealPrint) /\ (board'.dry <=> board.dry)
<1>1. (board.rec \/ RealPrint) \in BOOLEAN
  BY Zenon
<1> DEFINE r == board.rec \/ RealPrint
<1>2. board' = [board EXCEPT !.on = FALSE, !.state = "DISCONNECTED", !.left = FALSE, !.rec = r]
  BY DEF PlugOff
<1>3. r \in BOOLEAN /\ (r <=> board.rec \/ RealPrint)
  BY <1>1
<1> HIDE DEF r
<1> QED
  BY <1>2, <1>3 DEF BoardTyped, BoardObject

\* How many prints have ended one way.
LEMMA CountSmall ==
    ASSUME NEW S \in SUBSET Prints
    PROVE  IsFiniteSet(S) /\ Cardinality(S) \in Nat /\ Cardinality(S) <= MaxPrints
<1>1. IsFiniteSet(Prints) /\ Cardinality(Prints) = MaxPrints
  <2>1. 1 \in Int /\ MaxPrints \in Int /\ MaxPrints \in Nat
    BY DEF PhoneAssumption
  <2>2. Cardinality(1..MaxPrints) = IF 1 > MaxPrints THEN 0 ELSE MaxPrints - 1 + 1
    BY ONLY <2>1, FS_Interval
  <2> QED BY <2>1, <2>2, FS_Interval DEF Prints
<1> QED
  BY <1>1, FS_Subset, FS_CardinalityType

LEMMA CountOneMore ==
    ASSUME NEW S \in SUBSET Prints, NEW n \in Prints, n \notin S
    PROVE  Cardinality(S \cup {n}) = Cardinality(S) + 1
BY CountSmall, FS_AddElement

LEMMA FinishedGrows ==
    ASSUME BoardTyped, BoardInv, BoardStep
    PROVE  /\ Finished \subseteq Finished'
           /\ Cardinality(Finished) <= Cardinality(Finished')
           /\ Finishes => Cardinality(Finished') = Cardinality(Finished) + 1
<1>0. Finished \in SUBSET Prints /\ Cardinality(Finished) \in Nat
  <2>1. Finished \in SUBSET Prints
    BY DEF Finished
  <2> QED BY <2>1, CountSmall
<1>1. CASE Finishes
  <2>1. print \in Prints /\ fate[print] = "runs" /\ fate' = [fate EXCEPT ![print] = "finished"]
    BY <1>1 DEF Finishes, BoardInv, RealPrint, Busy
  <2>2. Finished' = Finished \cup {print} /\ print \notin Finished
    BY <2>1 DEF Finished, BoardTyped
  <2>3. Cardinality(Finished') = Cardinality(Finished) + 1
    BY <1>0, <2>1, <2>2, CountOneMore
  <2> QED BY <1>0, <2>2, <2>3
<1>2. CASE ~Finishes
  <2>1. Finished' = Finished
    <3>1. CASE Rests \/ ReadsAll \/ Settles \/ Pauses \/ DryEnds \/ Rehearses
      BY <3>1 DEF Rests, ReadsAll, Settles, Pauses, DryEnds, Rehearses, Finished
    <3>2. CASE Fails \/ Ends \/ Resumes
      <4>1. fate[print] # "finished"
        BY <3>2 DEF Fails, Ends, Resumes, BoardInv
      <4>2. fate' = [fate EXCEPT ![print] = "cut off"] \/ fate' = [fate EXCEPT ![print] = "stopped"] \/ fate' = [fate EXCEPT ![print] = "runs"]
        BY <3>2 DEF Fails, Ends, Resumes
      <4> QED BY <4>1, <4>2 DEF Finished, BoardTyped
    <3>3. CASE Starts
      <4>1. print + 1 \in Prints => fate[print + 1] = "none"
        <5>1. print + 1 > print
          <6>1. print \in Nat
            BY Numbers
          <6> QED BY ONLY <6>1
        <5> QED BY <5>1 DEF BoardInv
      <4> QED BY <3>3, <4>1 DEF Starts, Finished, BoardTyped
    <3>4. CASE Reboots \/ PlugOff
      <4>1. fate' = fate \/ (fate[print] # "finished" /\ fate' = [fate EXCEPT ![print] = "cut off"])
        BY <3>4 DEF Reboots, PlugOff, CutOff, BoardInv
      <4> QED BY <4>1 DEF Finished, BoardTyped
    <3> QED BY <1>2, <3>1, <3>2, <3>3, <3>4 DEF BoardStep, Kinds
  <2> QED BY <1>0, <1>2, <2>1
<1> QED
  BY <1>1, <1>2

\* One more end can be counted.
LEMMA RoomToCount ==
    ASSUME BoardTyped, BoardInv, (Finishes /\ BoardStep) \/ Rehearsing
    PROVE  board.finished + 1 \in Ends0
<1>1. Cardinality(Finished) \in Nat /\ Cardinality(Finished) <= MaxPrints
  <2>1. Finished \in SUBSET Prints
    BY DEF Finished
  <2> QED BY <2>1, CountSmall
<1>2. /\ MaxPrints \in Nat /\ MaxRehearsals \in Nat /\ board.finished \in Nat
      /\ rehearsals \in Nat /\ rehearsals <= MaxRehearsals
  BY Numbers
<1>3. board.finished + One(Rehearsing) <= Cardinality(Finished) + rehearsals
  BY DEF BoardInv
<1>4. CASE Rehearsing
  <2>1. One(Rehearsing) = 1
    BY <1>4 DEF One
  <2>2. board.finished + 1 <= Cardinality(Finished) + rehearsals
    BY <1>3, <2>1
  <2> QED BY ONLY <1>1, <1>2, <2>2 DEF Ends0
<1>5. CASE Finishes /\ BoardStep /\ ~Rehearsing
  <2>1. Finished' \in SUBSET Prints
    BY DEF Finished
  <2>2. Cardinality(Finished) + 1 <= MaxPrints
    <3>1. Cardinality(Finished') <= MaxPrints
      BY <2>1, CountSmall
    <3>2. Cardinality(Finished') = Cardinality(Finished) + 1
      BY <1>5, FinishedGrows
    <3> QED BY <3>1, <3>2
  <2>3. One(Rehearsing) = 0
    BY <1>5 DEF One
  <2>4. board.finished + 0 <= Cardinality(Finished) + rehearsals
    BY <1>3, <2>3
  <2> QED BY ONLY <1>1, <1>2, <2>2, <2>4 DEF Ends0
<1> QED
  BY <1>4, <1>5

LEMMA BoardTypedNext ==
    ASSUME BoardTyped, BoardInv, BoardStep
    PROVE  BoardTyped'
<1>0. rehearsals' \in Dries
  <2>1. rehearsals' = rehearsals \/ (rehearsals < MaxRehearsals /\ rehearsals' = rehearsals + 1)
    BY DEF BoardStep, Rehearses
  <2>2. rehearsals \in 0..MaxRehearsals /\ MaxRehearsals \in Nat
    BY Numbers DEF BoardTyped, Dries
  <2> QED BY ONLY <2>1, <2>2 DEF Dries
<1> USE <1>0 DEF BoardTyped, BoardObject
<1>1. CASE Rests \/ ReadsAll \/ Settles \/ Pauses \/ Rehearses
  BY <1>1 DEF Rests, ReadsAll, Settles, Pauses, Rehearses
<1>2. CASE Finishes
  BY <1>2, RoomToCount DEF Finishes
<1>7. CASE DryEnds
  <2>1. board.finished + 1 \in Ends0 /\ board.finished \in Ends0
    BY <1>7, RoomToCount DEF DryEnds
  <2>2. PICK s \in {"IDLE", "ERROR"}, l \in BOOLEAN, n \in {board.finished, board.finished + 1} :
            board' = [board EXCEPT !.state = s, !.left = l, !.finished = n]
    BY <1>7 DEF DryEnds
  <2>3. n \in Ends0 /\ UNCHANGED <<print, fate>>
    BY <1>7, <2>1 DEF DryEnds
  <2>4. board' \in BoardObject
    BY <2>2, <2>3
  <2> QED BY <2>3, <2>4
<1>8. CASE Ends
  <2>1. PICK how \in {"finished", "stopped"} : board' = [board EXCEPT !.state = "IDLE", !.left = FALSE, !.lastEnd = how]
    BY <1>8 DEF Ends
  <2>2. fate' = [fate EXCEPT ![print] = "stopped"] /\ print' = print
    BY <1>8 DEF Ends
  <2>3. board' \in BoardObject
    BY <2>1
  <2> QED BY <2>2, <2>3
<1>3. CASE Fails
  BY <1>3 DEF Fails
<1>9. CASE Resumes
  BY <1>9, BeginsFields DEF Resumes
<1>4. CASE Starts
  <2>1. print + 1 \in 0..MaxPrints
    <3>1. print \in Nat /\ MaxPrints \in Nat /\ print < MaxPrints
      BY <1>4, Numbers DEF Starts
    <3> QED BY ONLY <3>1
  <2> QED BY <1>4, <2>1, BeginsFields DEF Starts
<1>5. CASE Reboots
  BY <1>5, BootedFields DEF Reboots, CutOff
<1>6. CASE PlugOff
  BY <1>6, OffFields DEF PlugOff, CutOff
<1> QED
  BY <1>1, <1>2, <1>3, <1>4, <1>5, <1>6, <1>7, <1>8, <1>9 DEF BoardStep, Kinds

LEMMA CountKept ==
    ASSUME BoardTyped, BoardInv, BoardStep
    PROVE  board'.finished + One(Rehearsing') <= Cardinality(Finished') + rehearsals'
<1>1. /\ Cardinality(Finished) <= Cardinality(Finished')
      /\ board.finished + One(Rehearsing) <= Cardinality(Finished) + rehearsals
      /\ board.finished \in Nat /\ rehearsals \in Nat
  BY FinishedGrows, Numbers DEF BoardInv
<1>2. Cardinality(Finished) \in Nat /\ Cardinality(Finished') \in Nat
  <2>1. Finished \in SUBSET Prints /\ Finished' \in SUBSET Prints
    BY DEF Finished
  <2> QED BY <2>1, CountSmall
<1>3. One(Rehearsing) \in {0, 1} /\ One(Rehearsing') \in {0, 1}
  BY DEF One
<1>4. CASE Finishes /\ UNCHANGED rehearsals
  <2>1. board'.finished = board.finished + 1 /\ board'.state = "IDLE"
    BY <1>4 DEF Finishes, BoardTyped, BoardObject
  <2>2. One(Rehearsing') = 0
    BY <2>1 DEF One, Rehearsing, Busy
  <2>3. Cardinality(Finished') = Cardinality(Finished) + 1 /\ rehearsals' = rehearsals
    BY <1>4, FinishedGrows
  <2>4. board'.finished = board.finished + 1
    BY <2>1
  <2> QED BY ONLY <1>1, <1>2, <1>3, <2>2, <2>3, <2>4
<1>5. CASE DryEnds /\ UNCHANGED rehearsals
  <2>1. board'.finished \in {board.finished, board.finished + 1} /\ board'.state \in {"IDLE", "ERROR"}
    BY <1>5 DEF DryEnds, BoardTyped, BoardObject
  <2>2. One(Rehearsing') = 0
    BY <2>1 DEF One, Rehearsing, Busy
  <2>3. One(Rehearsing) = 1 /\ rehearsals' = rehearsals
    BY <1>5 DEF DryEnds, One
  <2> QED BY ONLY <1>1, <1>2, <1>3, <2>1, <2>2, <2>3
<1>6. CASE Rehearses
  <2>1. board'.finished = board.finished /\ rehearsals' = rehearsals + 1
    BY <1>6 DEF Rehearses, BoardTyped, BoardObject
  <2> QED BY ONLY <1>1, <1>2, <1>3, <2>1
<1>7. CASE ~Finishes /\ ~DryEnds /\ Kinds /\ UNCHANGED rehearsals
  <2>1. board'.finished \in {board.finished, 0} /\ (Rehearsing' => Rehearsing)
    <3>1. CASE Starts \/ Resumes
      <4>1. board' = Begins(board)
        BY <3>1 DEF Starts, Resumes
      <4>2. board'.finished = board.finished /\ ~board'.dry
        BY <4>1, BeginsFields
      <4> QED BY <4>2 DEF Rehearsing
    <3>2. CASE Reboots \/ PlugOff
      <4>1. board'.finished \in {board.finished, 0} /\ board'.state = "DISCONNECTED"
        BY <3>2, BootedFields, OffFields DEF Reboots
      <4> QED BY <4>1 DEF Rehearsing, Busy
    <3>3. CASE Rests
      BY <3>3 DEF Rests, Rehearsing, Busy
    <3>4. CASE ReadsAll \/ Pauses
      <4>1. Busy(board) /\ board'.finished = board.finished /\ (board'.dry <=> board.dry)
        BY <3>4 DEF ReadsAll, Pauses, Busy, BoardTyped, BoardObject
      <4> QED BY <4>1 DEF Rehearsing
    <3>5. CASE Fails \/ Ends
      <4>1. board'.state \in {"IDLE", "ERROR"} /\ board'.finished = board.finished
        BY <3>5 DEF Fails, Ends, BoardTyped, BoardObject
      <4> QED BY <4>1 DEF Rehearsing, Busy
    <3>6. CASE Settles
      <4>1. board'.state \in {"IDLE", "DISCONNECTED"} /\ board'.finished = board.finished
        BY <3>6 DEF Settles, BoardTyped, BoardObject
      <4> QED BY <4>1 DEF Rehearsing, Busy
    <3> QED BY <1>7, <3>1, <3>2, <3>3, <3>4, <3>5, <3>6 DEF Kinds
  <2>2. One(Rehearsing') <= One(Rehearsing) /\ rehearsals' = rehearsals
    BY <1>7, <2>1 DEF One
  <2>3. board'.finished \in {board.finished, 0}
    BY <2>1
  <2> QED BY ONLY <1>1, <1>2, <1>3, <2>2, <2>3
<1> QED
  BY <1>4, <1>5, <1>6, <1>7 DEF BoardStep

LEMMA FatesKept ==
    ASSUME BoardTyped, BoardInv, BoardStep
    PROVE  /\ RealPrint' => print' \in Prints /\ fate'[print'] = "runs" /\ ~board'.rec
           /\ board'.rec => print' \in Prints /\ fate'[print'] = "cut off"
           /\ ~board'.on => board'.state = "DISCONNECTED"
           /\ \A n \in Prints : n > print' => fate'[n] = "none"
<1>0. /\ \A n \in Prints : n > print => n # print /\ n > print
      /\ print < MaxPrints => print + 1 \in Prints /\ \A n \in Prints : n > print + 1 => n > print /\ n # print + 1
  <2>1. print \in Nat /\ MaxPrints \in Nat
    BY Numbers
  <2> QED BY ONLY <2>1 DEF Prints
<1>a. /\ RealPrint <=> Busy(board) /\ ~board.dry
      /\ RealPrint' <=> board'.state \in {"PRINTING", "PAUSED"} /\ ~board'.dry
  BY DEF RealPrint, Busy
<1>1. CASE Rests
  BY <1>1 DEF Rests, BoardInv, RealPrint, Busy
<1>2. CASE ReadsAll \/ Pauses
  <2>1. /\ Busy(board) /\ (board'.dry <=> board.dry) /\ (board'.rec <=> board.rec) /\ (board'.on <=> board.on) /\ board.on
        /\ UNCHANGED <<print, fate>>
    BY <1>2 DEF ReadsAll, Pauses, Busy, BoardTyped, BoardObject, BoardInv
  <2> QED BY <1>a, <2>1 DEF BoardInv
<1>3. CASE Settles
  <2>1. /\ board'.state \in {"IDLE", "DISCONNECTED"} /\ (board'.rec <=> board.rec) /\ (board'.on <=> board.on)
        /\ board'.state = "IDLE" => board.on
        /\ UNCHANGED <<print, fate>>
    BY <1>3 DEF Settles, BoardTyped, BoardObject
  <2> QED BY <1>a, <2>1 DEF BoardInv
<1>4. CASE DryEnds
  <2>1. /\ board'.state \in {"IDLE", "ERROR"} /\ (board'.rec <=> board.rec) /\ (board'.on <=> board.on) /\ board.on
        /\ UNCHANGED <<print, fate>>
    BY <1>4 DEF DryEnds, Rehearsing, Busy, BoardTyped, BoardObject, BoardInv
  <2> QED BY <1>a, <2>1 DEF BoardInv
<1>5. CASE Rehearses
  <2>1. /\ board'.dry /\ (board'.rec <=> board.rec) /\ (board'.on <=> board.on) /\ board.on
        /\ UNCHANGED <<print, fate>>
    BY <1>5 DEF Rehearses, BoardTyped, BoardObject
  <2> QED BY <1>a, <2>1 DEF BoardInv
<1>6. CASE Finishes \/ Ends
  <2>1. /\ RealPrint /\ board'.state = "IDLE" /\ (board'.rec <=> board.rec) /\ (board'.on <=> board.on)
        /\ print' = print
        /\ fate' = [fate EXCEPT ![print] = "finished"] \/ fate' = [fate EXCEPT ![print] = "stopped"]
    BY <1>6 DEF Finishes, Ends, RealPrint, Busy, BoardTyped, BoardObject
  <2>2. print \in Prints /\ ~board.rec /\ board.on
    BY <2>1 DEF BoardInv, RealPrint, Busy
  <2>3. \A n \in Prints : n > print => fate'[n] = fate[n]
    BY <1>0, <2>1 DEF BoardTyped
  <2> QED BY <1>0, <1>a, <2>1, <2>2, <2>3 DEF BoardInv
<1>7. CASE Fails
  <2>1. /\ RealPrint /\ board'.state = "ERROR" /\ (board'.on <=> board.on)
        /\ print' = print /\ fate' = [fate EXCEPT ![print] = "cut off"]
    BY <1>7 DEF Fails, BoardTyped, BoardObject
  <2>2. print \in Prints /\ board.on
    BY <2>1 DEF BoardInv, RealPrint, Busy
  <2>3. (\A n \in Prints : n > print => fate'[n] = fate[n]) /\ fate'[print] = "cut off"
    BY <1>0, <2>1, <2>2 DEF BoardTyped
  <2> QED BY <1>0, <1>a, <2>1, <2>2, <2>3 DEF BoardInv
<1>8. CASE Resumes
  <2>1. board' = Begins(board) /\ board.on /\ board.rec /\ print' = print /\ fate' = [fate EXCEPT ![print] = "runs"]
    BY <1>8 DEF Resumes
  <2>2. print \in Prints /\ ~board'.rec /\ board'.on
    BY <2>1, BeginsFields DEF BoardInv
  <2>3. (\A n \in Prints : n > print => fate'[n] = fate[n]) /\ fate'[print] = "runs"
    BY <1>0, <2>1, <2>2 DEF BoardTyped
  <2> QED BY <1>0, <1>a, <2>1, <2>2, <2>3 DEF BoardInv
<1>9. CASE Starts
  <2>1. print' = print + 1 /\ fate' = [fate EXCEPT ![print + 1] = "runs"] /\ board' = Begins(board) /\ board.on /\ print < MaxPrints
    BY <1>9 DEF Starts
  <2>2. ~board'.rec /\ board'.on /\ print + 1 \in Prints
    BY <1>0, <2>1, BeginsFields
  <2>3. (\A n \in Prints : n > print + 1 => fate'[n] = fate[n]) /\ fate'[print + 1] = "runs"
    BY <1>0, <2>1, <2>2 DEF BoardTyped
  <2> QED BY <1>0, <1>a, <2>1, <2>2, <2>3 DEF BoardInv
<1>10. CASE Reboots \/ PlugOff
  <2>1. /\ board'.state = "DISCONNECTED" /\ (board'.rec <=> board.rec \/ RealPrint)
        /\ print' = print /\ CutOff
    BY <1>10, BootedFields, OffFields DEF Reboots, PlugOff
  <2>2. CASE RealPrint
    <3>1. print \in Prints /\ fate' = [fate EXCEPT ![print] = "cut off"]
      BY <2>1, <2>2 DEF CutOff, BoardInv
    <3>2. (\A n \in Prints : n > print => fate'[n] = fate[n]) /\ fate'[print] = "cut off"
      BY <1>0, <3>1 DEF BoardTyped
    <3> QED BY <1>0, <1>a, <2>1, <3>1, <3>2 DEF BoardInv
  <2>3. CASE ~RealPrint
    <3>1. fate' = fate
      BY <2>1, <2>3 DEF CutOff
    <3> QED BY <1>a, <2>1, <2>3, <3>1 DEF BoardInv
  <2> QED BY <2>2, <2>3
<1> QED
  BY <1>1, <1>2, <1>3, <1>4, <1>5, <1>6, <1>7, <1>8, <1>9, <1>10 DEF BoardStep, Kinds

LEMMA BoardInvNext ==
    ASSUME BoardTyped, BoardInv, BoardStep
    PROVE  BoardInv'
BY CountKept, FatesKept DEF BoardInv

-----------------------------------------------------------------------------
(* The service *)

LEMMA ProgressTyped ==
    ASSUME BoardTyped, ServiceTyped
    PROVE  /\ Progress.res \in {"error", "done", "byte", "all bytes", "not"}
           /\ Progress.conn \in ConnObject
           /\ Progress.conn.open = conn.open /\ Progress.conn.stopping = conn.stopping
<1>1. board.finished \in Ends0 /\ board.boot \in 1..MaxBoots
  BY DEF BoardTyped, BoardObject
<1> QED
  BY <1>1 DEF Progress, Answer, Seen, ServiceTyped, ShownTyped, ThreadsTyped, CountsTyped, ConnObject

LEMMA ReadingTyped == Readings \subseteq {"cold", "other"}
BY DEF Readings

LEMMA StopPollerTyped ==
    ASSUME ServiceTyped
    PROVE  /\ NoPoller \in PollerObject
           /\ \A q \in PollerObject : Stopped(q) \in PollerObject
           /\ (StopPoller \/ StartPoller) => cur' \in Current /\ pollers' \in PollerArray
<1>1. NoPoller \in PollerObject
  BY DEF NoPoller, PollerObject
<1>2. \A q \in PollerObject : Stopped(q) \in PollerObject
  BY <1>1 DEF Stopped, PollerObject
<1>3. cur \in Current /\ (cur # 0 => cur \in 1..MaxPollers) /\ pollers \in PollerArray
  <2>1. cur \in Current /\ pollers \in PollerArray
    BY DEF ServiceTyped, ShownTyped, ThreadsTyped, CountsTyped
  <2>2. MaxPollers \in Nat
    BY DEF PhoneAssumption
  <2>3. cur # 0 => cur \in 1..MaxPollers
    BY ONLY <2>1, <2>2 DEF Current
  <2> QED BY <2>1, <2>3
<1>4. (IF cur = 0 THEN pollers ELSE [pollers EXCEPT ![cur] = Stopped(@)]) \in PollerArray
  BY <1>2, <1>3 DEF PollerArray
<1>5. 0 \in Current /\ \A p \in 1..MaxPollers : p \in Current
  BY Zeros DEF PhoneAssumption, Current
<1>6. [NoPoller EXCEPT !.at = "sleeps"] \in PollerObject
  BY DEF NoPoller, PollerObject
<1> QED
  BY <1>1, <1>2, <1>4, <1>5, <1>6 DEF StopPoller, StartPoller, PollerArray

LEMMA ConnectsTyped ==
    ASSUME BoardTyped, ServiceTyped
    PROVE  /\ Seen(conn) \in ConnObject /\ [conn EXCEPT !.open = FALSE] \in ConnObject
           /\ [Seen(conn) EXCEPT !.open = TRUE] \in ConnObject
           /\ [Seen(conn) EXCEPT !.tracking = TRUE, !.stopping = FALSE] \in ConnObject
           /\ [conn EXCEPT !.tracking = TRUE, !.stopping = FALSE] \in ConnObject
           /\ [conn EXCEPT !.stopping = TRUE] \in ConnObject
<1>1. board.finished \in Ends0 /\ board.boot \in 1..MaxBoots
  BY DEF BoardTyped, BoardObject
<1> QED
  BY <1>1 DEF Seen, ServiceTyped, ShownTyped, ThreadsTyped, CountsTyped, ConnObject

LEMMA DisconnectTyped ==
    ASSUME BoardTyped, ServiceTyped, DisconnectCalls
    PROVE  /\ cur' \in Current /\ pollers' \in PollerArray
           /\ tempPoller' \in TempObject
           /\ conn' \in ConnObject /\ phase' = "DISCONNECTED" /\ temp' = "other"
<1>1. tempPoller' \in TempObject
  BY DEF DisconnectCalls, StopTempPoller, ServiceTyped, ShownTyped, ThreadsTyped, CountsTyped, TempObject
<1> QED
  BY <1>1, StopPollerTyped, ConnectsTyped DEF DisconnectCalls

LEMMA PollsTyped ==
    ASSUME BoardTyped, ServiceTyped, Poller \/ Completions
    PROVE  ServiceTyped'
<1>1. ASSUME NEW p \in 1..MaxPollers, PollAsks(p) PROVE ServiceTyped'
  <2>1. pollers' \in PollerArray
    <3>1. pollers' = [pollers EXCEPT ![p].at = "asked", ![p].got = Progress.res]
      BY <1>1 DEF PollAsks
    <3>2. \A q \in PollerObject : [q EXCEPT !.at = "asked", !.got = Progress.res] \in PollerObject
      BY ProgressTyped DEF PollerObject
    <3>3. pollers \in PollerArray
      BY DEF ServiceTyped, ShownTyped, ThreadsTyped, CountsTyped
    <3> QED BY <3>1, <3>2, <3>3 DEF PollerArray
  <2>7. ShownTyped'
    BY <1>1, <2>1, ProgressTyped, ReadingTyped DEF PollAsks, boardVars, ghosts, ServiceTyped, ShownTyped
  <2>8. ThreadsTyped'
    BY <1>1, <2>1, ProgressTyped, ReadingTyped DEF PollAsks, boardVars, ghosts, ServiceTyped, ThreadsTyped
  <2>9. CountsTyped'
    BY <1>1, <2>1, ProgressTyped, ReadingTyped DEF PollAsks, boardVars, ghosts, ServiceTyped, CountsTyped
  <2> QED BY <2>7, <2>8, <2>9 DEF ServiceTyped
<1>2. ASSUME NEW p \in 1..MaxPollers, PollForgets(p) \/ PollGoesOn(p) PROVE ServiceTyped'
  <2>1. pollers[p] \in PollerObject
    BY DEF ServiceTyped, ShownTyped, ThreadsTyped, CountsTyped, PollerArray
  <2>2. (pollers[p].saw \/ pollers[p].got \in {"byte", "all bytes"}) \in BOOLEAN
    BY Zenon
  <2> DEFINE s == pollers[p].saw \/ pollers[p].got \in {"byte", "all bytes"}
  <2>3. s \in BOOLEAN
    BY <2>2
  <2>4. \/ pollers' = [pollers EXCEPT ![p] = NoPoller]
        \/ pollers' = [pollers EXCEPT ![p] = [pollers[p] EXCEPT !.at = "sleeps", !.got = "none"]]
        \/ pollers' = [pollers EXCEPT ![p] = [pollers[p] EXCEPT !.at = "sleeps", !.got = "none", !.saw = s]]
    <3>1. pollers \in [1..MaxPollers -> PollerObject]
      BY DEF ServiceTyped, ShownTyped, ThreadsTyped, CountsTyped, PollerArray
    <3>2. CASE PollForgets(p)
      BY <3>1, <3>2 DEF PollForgets
    <3>3. CASE PollGoesOn(p)
      BY <3>1, <3>3 DEF PollGoesOn, PollerObject
    <3> QED BY <1>2, <3>2, <3>3
  <2> HIDE DEF s
  <2>5. [pollers[p] EXCEPT !.at = "sleeps", !.got = "none"] \in PollerObject
        /\ [pollers[p] EXCEPT !.at = "sleeps", !.got = "none", !.saw = s] \in PollerObject
    BY <2>1, <2>3 DEF PollerObject
  <2>6. pollers' \in PollerArray
    BY <2>4, <2>5, StopPollerTyped DEF ServiceTyped, ShownTyped, ThreadsTyped, CountsTyped, PollerArray
  <2>7. ShownTyped'
    BY <1>2, <2>6 DEF PollForgets, PollGoesOn, flags, ghosts, boardVars, ServiceTyped, ShownTyped
  <2>8. ThreadsTyped'
    BY <1>2, <2>6 DEF PollForgets, PollGoesOn, flags, ghosts, ServiceTyped, ThreadsTyped
  <2>9. CountsTyped'
    BY <1>2, <2>6 DEF PollForgets, PollGoesOn, flags, ghosts, ServiceTyped, CountsTyped
  <2> QED BY <2>7, <2>8, <2>9 DEF ServiceTyped
<1>3. ASSUME NEW p \in 1..MaxPollers, PollDone(p) \/ PollError(p) PROVE ServiceTyped'
  <2>1. pollers' \in PollerArray
    BY <1>3, StopPollerTyped DEF PollDone, PollError, ServiceTyped, ShownTyped, ThreadsTyped, CountsTyped, PollerArray
  <2>2. told' \in Tolds
    <3>1. told \in Tolds /\ MaxPrints \in Nat
      BY DEF ServiceTyped, ShownTyped, ThreadsTyped, CountsTyped, PhoneAssumption, Tolds
    <3>2. told' = told \/ (told' = told + 1 /\ ~(told > MaxPrints))
      BY <1>3 DEF PollDone, PollError, ghosts
    <3> QED BY ONLY <3>1, <3>2 DEF Tolds
  <2>7. ShownTyped'
    BY <1>3, <2>1, <2>2 DEF PollDone, PollError, flags, ghosts, boardVars, ServiceTyped, ShownTyped
  <2>8. ThreadsTyped'
    BY <1>3, <2>1, <2>2 DEF PollDone, PollError, flags, ghosts, ServiceTyped, ThreadsTyped
  <2>9. CountsTyped'
    BY <1>3, <2>1, <2>2 DEF PollDone, PollError, flags, ghosts, ServiceTyped, CountsTyped
  <2> QED BY <2>7, <2>8, <2>9 DEF ServiceTyped
<1>4. CASE PrintStarted \/ PrintRecovered \/ PrintStopped
  <2>7. ShownTyped'
    BY <1>4, StopPollerTyped DEF PrintStarted, PrintRecovered, PrintStopped, Keeps, ghosts, boardVars, ServiceTyped, ShownTyped
  <2>8. ThreadsTyped'
    BY <1>4, StopPollerTyped DEF PrintStarted, PrintRecovered, PrintStopped, Keeps, ghosts, ServiceTyped, ThreadsTyped
  <2>9. CountsTyped'
    BY <1>4, StopPollerTyped DEF PrintStarted, PrintRecovered, PrintStopped, Keeps, ghosts, ServiceTyped, CountsTyped
  <2> QED BY <2>7, <2>8, <2>9 DEF ServiceTyped
<1>5. CASE StartFailed \/ PausedOrResumed
  <2>7. ShownTyped'
    BY <1>5 DEF StartFailed, PausedOrResumed, flags, threads, ghosts, boardVars, ServiceTyped, ShownTyped
  <2>8. ThreadsTyped'
    BY <1>5 DEF StartFailed, PausedOrResumed, flags, threads, ghosts, ServiceTyped, ThreadsTyped
  <2>9. CountsTyped'
    BY <1>5 DEF StartFailed, PausedOrResumed, flags, threads, ghosts, ServiceTyped, CountsTyped
  <2> QED BY <2>7, <2>8, <2>9 DEF ServiceTyped
<1>6. CASE Attach
  <2>1. tempPoller' \in TempObject
    BY <1>6 DEF Attach, ServiceTyped, ShownTyped, ThreadsTyped, CountsTyped, TempObject
  <2>2. conn' = Progress.conn
    BY <1>6 DEF Attach
  <2>3. cur' \in Current /\ pollers' \in PollerArray
    <3>1. StartPoller \/ UNCHANGED <<pollers, cur>>
      BY <1>6 DEF Attach
    <3> QED BY <3>1, StopPollerTyped DEF ServiceTyped, ShownTyped, ThreadsTyped, CountsTyped
  <2>4. phase' \in {"PRINTING", "UPLOAD_VERIFIED", "IDLE"}
    BY <1>6 DEF Attach
  <2>7. ShownTyped'
    BY <1>6, <2>1, <2>2, <2>3, <2>4, ProgressTyped DEF Attach, flags, boardVars, ghosts, ServiceTyped, ShownTyped
  <2>8. ThreadsTyped'
    BY <1>6, <2>1, <2>2, <2>3, <2>4, ProgressTyped DEF Attach, flags, boardVars, ghosts, ServiceTyped, ThreadsTyped
  <2>9. CountsTyped'
    BY <1>6, <2>1, <2>2, <2>3, <2>4, ProgressTyped DEF Attach, flags, boardVars, ghosts, ServiceTyped, CountsTyped
  <2> QED BY <2>7, <2>8, <2>9 DEF ServiceTyped
<1>7. CASE AttachFails
  <2>7. ShownTyped'
    BY <1>7, ConnectsTyped DEF AttachFails, flags, boardVars, threads, ghosts, ServiceTyped, ShownTyped
  <2>8. ThreadsTyped'
    BY <1>7, ConnectsTyped DEF AttachFails, flags, boardVars, threads, ghosts, ServiceTyped, ThreadsTyped
  <2>9. CountsTyped'
    BY <1>7, ConnectsTyped DEF AttachFails, flags, boardVars, threads, ghosts, ServiceTyped, CountsTyped
  <2> QED BY <2>7, <2>8, <2>9 DEF ServiceTyped
<1>8. CASE RecoverConnected
  <2>1. conn' \in ConnObject /\ lock' \in {"recovered", "free"}
    BY <1>8, ConnectsTyped DEF RecoverConnected, RecoverCall, Tracking
  <2>2. UNCHANGED <<phase, flags, threads, ghosts>>
    BY <1>8 DEF RecoverConnected
  <2>7. ShownTyped'
    BY <2>1, <2>2 DEF flags, ServiceTyped, ShownTyped
  <2>8. ThreadsTyped'
    BY <2>1, <2>2 DEF flags, threads, ServiceTyped, ThreadsTyped
  <2>9. CountsTyped'
    BY <2>2 DEF threads, ghosts, ServiceTyped, CountsTyped
  <2> QED BY <2>7, <2>8, <2>9 DEF ServiceTyped
<1> QED
  BY <1>1, <1>2, <1>3, <1>4, <1>5, <1>6, <1>7, <1>8 DEF Poller, Completions

LEMMA RequestsTyped ==
    ASSUME BoardTyped, ServiceTyped, Requests
    PROVE  ServiceTyped'
<1> USE DEF ServiceTyped, boardVars, flags, threads, ghosts, Keeps
<1>1. CASE SelectSdFile
  <2>7. ShownTyped'
    BY <1>1 DEF SelectSdFile, ServiceTyped, ShownTyped
  <2>8. ThreadsTyped'
    BY <1>1 DEF SelectSdFile, ServiceTyped, ThreadsTyped
  <2>9. CountsTyped'
    BY <1>1 DEF SelectSdFile, ServiceTyped, CountsTyped
  <2> QED BY <2>7, <2>8, <2>9 DEF ServiceTyped
<1>2. CASE StartPrint
  <2>1. /\ conn' \in ConnObject /\ lock' \in {"started", "start failed"}
        /\ UNCHANGED <<phase, flags, threads, told, plugs, tapo>>
    BY <1>2, ConnectsTyped DEF StartPrint, Tracking
  <2>2. behind' \in BOOLEAN
    <3>1. behind' = Unread \/ behind' = TRUE \/ behind' = behind
      BY <1>2, Zenon DEF StartPrint
    <3>2. Unread \in BOOLEAN
      BY Zenon DEF Unread
    <3> QED BY <3>1, <3>2 DEF CountsTyped
  <2>7. ShownTyped'
    BY <2>1 DEF ServiceTyped, ShownTyped
  <2>8. ThreadsTyped'
    BY <2>1 DEF ServiceTyped, ThreadsTyped
  <2>9. CountsTyped'
    BY <2>1, <2>2 DEF ServiceTyped, CountsTyped
  <2> QED BY <2>7, <2>8, <2>9 DEF ServiceTyped
<1>3. CASE StopPrint
  <2>7. ShownTyped'
    BY <1>3, ConnectsTyped DEF StopPrint, Stops, ServiceTyped, ShownTyped
  <2>8. ThreadsTyped'
    BY <1>3, ConnectsTyped DEF StopPrint, Stops, ServiceTyped, ThreadsTyped
  <2>9. CountsTyped'
    BY <1>3, ConnectsTyped DEF StopPrint, Stops, ServiceTyped, CountsTyped
  <2> QED BY <2>7, <2>8, <2>9 DEF ServiceTyped
<1>4. CASE PausePrint \/ ResumePrint
  <2>7. ShownTyped'
    BY <1>4 DEF PausePrint, ResumePrint, ServiceTyped, ShownTyped
  <2>8. ThreadsTyped'
    BY <1>4 DEF PausePrint, ResumePrint, ServiceTyped, ThreadsTyped
  <2>9. CountsTyped'
    BY <1>4 DEF PausePrint, ResumePrint, ServiceTyped, CountsTyped
  <2> QED BY <2>7, <2>8, <2>9 DEF ServiceTyped
<1>5. CASE RecoverPrint
  <2>1. conn' \in ConnObject /\ lock' \in {"recovered", "recovering", "free", lock}
    <3>1. RecoverCall \/ (SeenOpen /\ lock' = "recovering") \/ UNCHANGED <<conn, lock>>
      BY <1>5, Zenon DEF RecoverPrint
    <3> QED BY <3>1, ConnectsTyped DEF RecoverCall, Tracking, SeenOpen, ShownTyped
  <2>2. UNCHANGED <<phase, flags, threads, ghosts>>
    BY <1>5 DEF RecoverPrint
  <2>7. ShownTyped'
    BY <2>1, <2>2 DEF ServiceTyped, ShownTyped
  <2>8. ThreadsTyped'
    BY <2>1, <2>2 DEF ServiceTyped, ThreadsTyped
  <2>9. CountsTyped'
    BY <2>2 DEF ServiceTyped, CountsTyped
  <2> QED BY <2>7, <2>8, <2>9 DEF ServiceTyped
<1>6. CASE ConnectPrinter
  <2>7. ShownTyped'
    BY <1>6, Zeros, ConnectsTyped DEF ConnectPrinter, ConnectCalls, SeenOpen, ServiceTyped, ShownTyped
  <2>8. ThreadsTyped'
    BY <1>6, Zeros, ConnectsTyped DEF ConnectPrinter, ConnectCalls, SeenOpen, ServiceTyped, ThreadsTyped
  <2>9. CountsTyped'
    BY <1>6, Zeros, ConnectsTyped DEF ConnectPrinter, ConnectCalls, SeenOpen, ServiceTyped, CountsTyped
  <2> QED BY <2>7, <2>8, <2>9 DEF ServiceTyped
<1>7. CASE ConnectPrinterFails
  <2>7. ShownTyped'
    BY <1>7, Zeros, ConnectsTyped DEF ConnectPrinterFails, ConnectFailed, ServiceTyped, ShownTyped
  <2>8. ThreadsTyped'
    BY <1>7, Zeros, ConnectsTyped DEF ConnectPrinterFails, ConnectFailed, ServiceTyped, ThreadsTyped
  <2>9. CountsTyped'
    BY <1>7, Zeros, ConnectsTyped DEF ConnectPrinterFails, ConnectFailed, ServiceTyped, CountsTyped
  <2> QED BY <2>7, <2>8, <2>9 DEF ServiceTyped
<1>8. CASE DisconnectPrinter
  <2>7. ShownTyped'
    BY <1>8, DisconnectTyped DEF DisconnectPrinter, Disconnects, ServiceTyped, ShownTyped
  <2>8. ThreadsTyped'
    BY <1>8, DisconnectTyped DEF DisconnectPrinter, Disconnects, ServiceTyped, ThreadsTyped
  <2>9. CountsTyped'
    BY <1>8, DisconnectTyped DEF DisconnectPrinter, Disconnects, ServiceTyped, CountsTyped
  <2> QED BY <2>7, <2>8, <2>9 DEF ServiceTyped
<1>9. CASE TapoPlugOff
  <2>1. plugs' \in Plugs
    <3>1. plugs \in Plugs /\ MaxPlug \in Nat /\ plugs < MaxPlug /\ plugs' = plugs + 1
      BY <1>9 DEF TapoPlugOff, PhoneAssumption, Plugs, CountsTyped
    <3> QED BY ONLY <3>1 DEF Plugs
  <2>7. ShownTyped'
    BY <1>9 DEF TapoPlugOff, ServiceTyped, ShownTyped
  <2>8. ThreadsTyped'
    BY <1>9 DEF TapoPlugOff, ServiceTyped, ThreadsTyped
  <2>9. CountsTyped'
    BY <1>9, <2>1 DEF TapoPlugOff, ServiceTyped, CountsTyped
  <2> QED BY <2>7, <2>8, <2>9 DEF ServiceTyped
<1> QED
  BY <1>1, <1>2, <1>3, <1>4, <1>5, <1>6, <1>7, <1>8, <1>9 DEF Requests

LEMMA EndsTyped == ASSUME ServiceTyped, TempEnds PROVE tempPoller' \in TempObject
BY DEF TempEnds, ServiceTyped, ThreadsTyped, TempObject

LEMMA PollingsTyped ==
    ASSUME BoardTyped, ServiceTyped, Pollings
    PROVE  ServiceTyped'
<1> USE DEF ServiceTyped, boardVars, flags, threads, ghosts
<1>1. CASE TempPolls
  <2>7. ShownTyped'
    BY <1>1, ReadingTyped DEF TempPolls, ServiceTyped, ShownTyped
  <2>8. ThreadsTyped'
    BY <1>1 DEF TempPolls, ServiceTyped, ThreadsTyped, TempObject
  <2>9. CountsTyped'
    BY <1>1, ReadingTyped DEF TempPolls, ServiceTyped, CountsTyped
  <2> QED BY <2>7, <2>8, <2>9 DEF ServiceTyped
<1>2. CASE CheckShutoff
  <2>1. autoShutoffArmed' \in BOOLEAN
    BY <1>2, Zenon DEF CheckShutoff
  <2>2. tempPoller' \in TempObject
    <3>1. tempPoller' = [tempPoller EXCEPT !.at = "switches"] \/ TempEnds
      BY <1>2, Zenon DEF CheckShutoff
    <3>2. tempPoller \in TempObject
      BY DEF ThreadsTyped
    <3>3. [tempPoller EXCEPT !.at = "switches"] \in TempObject
      BY <3>2 DEF TempObject
    <3>4. TempEnds => tempPoller' \in TempObject
      BY DEF TempEnds, TempObject
    <3> QED BY <3>1, <3>3, <3>4
  <2>7. ShownTyped'
    BY <1>2, <2>1, <2>2 DEF CheckShutoff, ServiceTyped, ShownTyped
  <2>8. ThreadsTyped'
    BY <1>2, <2>1, <2>2 DEF CheckShutoff, ServiceTyped, ThreadsTyped
  <2>9. CountsTyped'
    BY <1>2, <2>1, <2>2 DEF CheckShutoff, ServiceTyped, CountsTyped
  <2> QED BY <2>7, <2>8, <2>9 DEF ServiceTyped
<1>3. CASE ShutoffSwitches
  <2>2. tempPoller' \in TempObject
    <3>1. tempPoller' = [tempPoller EXCEPT !.at = "notes"] \/ TempEnds
      BY <1>3, Zenon DEF ShutoffSwitches
    <3> QED BY <3>1, EndsTyped DEF ThreadsTyped, TempObject
  <2>7. ShownTyped'
    BY <1>3, <2>2 DEF ShutoffSwitches, ServiceTyped, ShownTyped
  <2>8. ThreadsTyped'
    BY <1>3, <2>2 DEF ShutoffSwitches, ServiceTyped, ThreadsTyped
  <2>9. CountsTyped'
    BY <1>3, <2>2 DEF ShutoffSwitches, ServiceTyped, CountsTyped
  <2> QED BY <2>7, <2>8, <2>9 DEF ServiceTyped
<1>10. CASE ShutoffNotes \/ TapoNotes
  <2>1. NotePlug("off")
    BY <1>10 DEF ShutoffNotes, TapoNotes
  <2>2. autoShutoffArmed' \in BOOLEAN /\ plugOn' = "off"
    BY <2>1, Zenon DEF NotePlug
  <2>3. tempPoller' \in TempObject
    <3>1. TempEnds \/ tempPoller' = tempPoller
      BY <1>10, Zenon DEF ShutoffNotes, TapoNotes
    <3> QED BY <3>1, EndsTyped DEF ThreadsTyped
  <2>7. ShownTyped'
    BY <1>10, <2>2 DEF ShutoffNotes, TapoNotes, ServiceTyped, ShownTyped
  <2>8. ThreadsTyped'
    BY <1>10, <2>3 DEF ShutoffNotes, TapoNotes, ServiceTyped, ThreadsTyped
  <2>9. CountsTyped'
    BY <1>10 DEF ShutoffNotes, TapoNotes, ServiceTyped, CountsTyped
  <2> QED BY <2>7, <2>8, <2>9 DEF ServiceTyped
<1>11. CASE TapoDisconnects
  <2>1. DisconnectCalls
    BY <1>11 DEF TapoDisconnects, Disconnects
  <2>7. ShownTyped'
    BY <1>11, <2>1, DisconnectTyped DEF TapoDisconnects, ServiceTyped, ShownTyped
  <2>8. ThreadsTyped'
    BY <1>11, <2>1, DisconnectTyped DEF TapoDisconnects, ServiceTyped, ThreadsTyped
  <2>9. CountsTyped'
    BY <1>11 DEF TapoDisconnects, ServiceTyped, CountsTyped
  <2> QED BY <2>7, <2>8, <2>9 DEF ServiceTyped
<1>4. CASE PlugPolled
  <2>1. autoShutoffArmed' \in BOOLEAN
    BY <1>4, Zenon DEF PlugPolled, NotePlug
  <2>2. plugOn' \in {"on", "off"}
    BY <1>4 DEF PlugPolled, NotePlug
  <2>7. ShownTyped'
    BY <1>4, <2>1, <2>2 DEF PlugPolled, ServiceTyped, ShownTyped
  <2>8. ThreadsTyped'
    BY <1>4, <2>1, <2>2 DEF PlugPolled, ServiceTyped, ThreadsTyped
  <2>9. CountsTyped'
    BY <1>4, <2>1, <2>2 DEF PlugPolled, ServiceTyped, CountsTyped
  <2> QED BY <2>7, <2>8, <2>9 DEF ServiceTyped
<1>5. CASE CheckBoard
  <2>1. board.boot \in Boots
    BY DEF BoardTyped, BoardObject, Boots
  <2>7. ShownTyped'
    BY <1>5, <2>1 DEF CheckBoard, ServiceTyped, ShownTyped
  <2>8. ThreadsTyped'
    BY <1>5, <2>1 DEF CheckBoard, ServiceTyped, ThreadsTyped
  <2>9. CountsTyped'
    BY <1>5, <2>1 DEF CheckBoard, ServiceTyped, CountsTyped
  <2> QED BY <2>7, <2>8, <2>9 DEF ServiceTyped
<1>6. CASE AutoConnectLooks
  <2>7. ShownTyped'
    BY <1>6 DEF AutoConnectLooks, ServiceTyped, ShownTyped
  <2>8. ThreadsTyped'
    BY <1>6 DEF AutoConnectLooks, ServiceTyped, ThreadsTyped
  <2>9. CountsTyped'
    BY <1>6 DEF AutoConnectLooks, ServiceTyped, CountsTyped
  <2> QED BY <2>7, <2>8, <2>9 DEF ServiceTyped
<1>7. CASE AutoConnects \/ FailsForgotten
  <2>7. ShownTyped'
    BY <1>7, Zeros, ConnectsTyped DEF AutoConnects, AutoTries, ConnectCalls, SeenOpen, FailsForgotten, ServiceTyped, ShownTyped
  <2>8. ThreadsTyped'
    BY <1>7, Zeros, ConnectsTyped DEF AutoConnects, AutoTries, ConnectCalls, SeenOpen, FailsForgotten, ServiceTyped, ThreadsTyped
  <2>9. CountsTyped'
    BY <1>7, Zeros, ConnectsTyped DEF AutoConnects, AutoTries, ConnectCalls, SeenOpen, FailsForgotten, ServiceTyped, CountsTyped
  <2> QED BY <2>7, <2>8, <2>9 DEF ServiceTyped
<1>8. CASE AutoConnectFails
  <2>1. autoConnectFails' \in Fails0
    <3>1. autoConnectFails \in Fails0 /\ AUTO_CONNECT_MAX_FAILS \in Nat
      BY DEF PhoneAssumption, Fails0, ThreadsTyped
    <3>2. autoConnectFails' = autoConnectFails \/ (autoConnectFails' = autoConnectFails + 1 /\ autoConnectFails # AUTO_CONNECT_MAX_FAILS)
      BY <1>8 DEF AutoConnectFails
    <3> QED BY ONLY <3>1, <3>2 DEF Fails0
  <2>7. ShownTyped'
    BY <1>8, <2>1, ConnectsTyped DEF AutoConnectFails, AutoTries, ConnectFailed, ServiceTyped, ShownTyped
  <2>8. ThreadsTyped'
    BY <1>8, <2>1, ConnectsTyped DEF AutoConnectFails, AutoTries, ConnectFailed, ServiceTyped, ThreadsTyped
  <2>9. CountsTyped'
    BY <1>8, <2>1, ConnectsTyped DEF AutoConnectFails, AutoTries, ConnectFailed, ServiceTyped, CountsTyped
  <2> QED BY <2>7, <2>8, <2>9 DEF ServiceTyped
<1>9. CASE NoticeLost
  <2>7. ShownTyped'
    BY <1>9, DisconnectTyped DEF NoticeLost, ServiceTyped, ShownTyped
  <2>8. ThreadsTyped'
    BY <1>9, DisconnectTyped DEF NoticeLost, ServiceTyped, ThreadsTyped
  <2>9. CountsTyped'
    BY <1>9, DisconnectTyped DEF NoticeLost, ServiceTyped, CountsTyped
  <2> QED BY <2>7, <2>8, <2>9 DEF ServiceTyped
<1> QED
  BY <1>1, <1>2, <1>3, <1>4, <1>5, <1>6, <1>7, <1>8, <1>9, <1>10, <1>11 DEF Pollings

LEMMA BoardStepsTyped ==
    ASSUME BoardTyped, ServiceTyped, BoardSteps
    PROVE  ServiceTyped'
<1>1. CASE PlugButton
  <2>1. plugs' \in Plugs
    <3>1. plugs \in Plugs /\ MaxPlug \in Nat /\ plugs < MaxPlug /\ plugs' = plugs + 1
      BY <1>1 DEF PlugButton, PhoneAssumption, ServiceTyped, ShownTyped, ThreadsTyped, CountsTyped, Plugs
    <3> QED BY ONLY <3>1 DEF Plugs
  <2>7. ShownTyped'
    BY <1>1, <2>1 DEF PlugButton, PlugOff, PlugOn, flags, threads, ServiceTyped, ShownTyped
  <2>8. ThreadsTyped'
    BY <1>1, <2>1 DEF PlugButton, PlugOff, PlugOn, flags, threads, ServiceTyped, ThreadsTyped
  <2>9. CountsTyped'
    BY <1>1, <2>1 DEF PlugButton, PlugOff, PlugOn, flags, threads, ServiceTyped, CountsTyped
  <2> QED BY <2>7, <2>8, <2>9 DEF ServiceTyped
<1>2. CASE ~PlugButton
  <2>1. UNCHANGED <<conn, phase, flags, lock, threads, told, plugs, tapo>> /\ behind' \in {behind, TRUE}
    BY <1>2 DEF BoardSteps, BoardMoves, BoardReadsAll, BoardFinishes, BoardFails, OtherClient, Rehearse, BoardConnects, BoardResumes,
                BoardCrashes, ghosts
  <2>7. ShownTyped'
    BY <2>1 DEF flags, threads, ServiceTyped, ShownTyped
  <2>8. ThreadsTyped'
    BY <2>1 DEF flags, threads, ServiceTyped, ThreadsTyped
  <2>9. CountsTyped'
    BY <2>1 DEF flags, threads, ServiceTyped, CountsTyped
  <2> QED BY <2>7, <2>8, <2>9 DEF ServiceTyped
<1> QED
  BY <1>1, <1>2

LEMMA TypedNext ==
    ASSUME BoardTyped, BoardInv, ServiceTyped, [Next]_vars
    PROVE  BoardTyped' /\ BoardInv' /\ ServiceTyped'
<1>1. ServiceTyped'
  <2>1. CASE UNCHANGED vars
    <3>1. ShownTyped'
      BY <2>1 DEF vars, boardVars, flags, threads, ghosts, ServiceTyped, ShownTyped
    <3>2. ThreadsTyped'
      BY <2>1 DEF vars, boardVars, flags, threads, ghosts, ServiceTyped, ThreadsTyped
    <3>3. CountsTyped'
      BY <2>1 DEF vars, boardVars, flags, threads, ghosts, ServiceTyped, CountsTyped
    <3> QED BY <3>1, <3>2, <3>3 DEF ServiceTyped
  <2> QED BY <2>1, BoardStepsTyped, PollsTyped, RequestsTyped, PollingsTyped DEF Next
<1> QED
  BY <1>1, StepKinds, BoardTypedNext, BoardInvNext

LEMMA TypedInit == ASSUME Init PROVE BoardTyped /\ BoardInv /\ ServiceTyped
<1>1. Finished = {}
  BY DEF Init, Finished
<1>2. Cardinality(Finished) = 0 /\ ~Rehearsing /\ ~RealPrint
  BY <1>1, FS_EmptySet DEF Init, Rehearsing, RealPrint, Busy
<1>3. 0 \in 0..MaxPrints /\ 1 \in 1..MaxBoots
  BY DEF PhoneAssumption
<1>4. BoardTyped
  BY <1>3, Zeros DEF Init, BoardTyped, BoardObject
<1>5. BoardInv
  <2>1. board.finished + One(Rehearsing) <= Cardinality(Finished) + rehearsals
    BY <1>2 DEF Init, One
  <2> QED BY <1>2, <2>1 DEF Init, BoardInv
<1>6. ServiceTyped
  <2>1. pollers \in PollerArray
    BY DEF Init, NoPoller, PollerObject, PollerArray
  <2>2. conn \in ConnObject /\ tempPoller \in TempObject
    BY <1>3, Zeros DEF Init, ConnObject, TempObject
  <2> QED BY <2>1, <2>2, Zeros DEF Init, ServiceTyped, ShownTyped, ThreadsTyped, CountsTyped
<1> QED
  BY <1>4, <1>5, <1>6

\* Every variable of the phone and of the board keeps its type: the counters stay within their bounds, however many
\* prints, boots and polls there are (a print is counted at its end only, so no boot counts more of them than ran).
THEOREM PhoneTypeCorrect == Spec => []TypeOK
<1>1. Init => BoardTyped /\ BoardInv /\ ServiceTyped
  BY TypedInit
<1>2. BoardTyped /\ BoardInv /\ ServiceTyped /\ [Next]_vars => BoardTyped' /\ BoardInv' /\ ServiceTyped'
  BY TypedNext
<1>3. BoardTyped /\ ServiceTyped => TypeOK
  BY TypedParts
<1> QED
  BY <1>1, <1>2, <1>3, PTL DEF Spec

-----------------------------------------------------------------------------
(* What a success stands for *)

\* One thread follows the print, from its start to its end: the answers of a thread that has been told to stop, of a
\* file whose bytes are over before its moves are, of a connection made anew or a pause under the thread's feet, of a
\* rehearsal, and a connection attempted on a state that is no more, do make successes that are none.
OneWatcher ==
    /\ MaxPollers = 1
    /\ EndsInText
    /\ MaxRehearsals = 0
    /\ "pause" \notin Users /\ "reconnect" \notin Users
    /\ "knock" \notin Faults

\* The thread will act on what it is told next.
Watches(p) == pollers[p].at # "ended" /\ ~pollers[p].stop
\* It has seen the print run, or is just being told so.
Sees(q) == q.got # "error" /\ (q.saw \/ q.got = "byte")
Holds == pollers[1].at = "asked" /\ Done(pollers[1])
Follows == Watches(1) /\ Sees(pollers[1])
SameBoot == board.on /\ conn.bootIdSeen = board.boot

\* An error keeps the bytes that were left; nobody pauses or rehearses.
LeftInv == /\ board.state \in {"PRINTING", "PAUSED", "ERROR"} => board.left
           /\ board.state # "PAUSED" /\ ~board.dry

\* Who follows a print, follows the one that is shown; what the service has seen of the board has been.
WatchInv ==
    /\ autoConnect = "sleeps"
    /\ Watches(1) => cur = 1 /\ phase = "PRINTING"
    /\ pollers[1].at = "sleeps" => ~pollers[1].stop /\ pollers[1].got = "none"
    /\ lock \in {"connected", "started", "recovering", "recovered", "start failed"} => phase \notin Watching
    /\ lock \notin {"paused", "resumed"}

SeenInv ==
    /\ conn.bootIdSeen <= board.boot
    /\ conn.bootIdSeen = board.boot => conn.finishedSeen <= board.finished

\* A print that was seen running in this boot runs, or its end can still be read.
SawInv == Follows /\ conn.tracking /\ SameBoot =>
    Busy(board) \/ conn.finishedSeen # board.finished \/ board.lastEnd = "stopped" \/ board.state = "ERROR"

\* The ends of prints that have yet to be told: one the counter shows, and one the thread has heard of or will.
Owed == Holds \/ (Follows /\ (~conn.tracking \/ (SameBoot /\ ~Busy(board) /\ board.lastEnd = "stopped")))
CreditInv == told + One(Unread) + One(Owed) <= Cardinality(Ended)

\* The newest print has come to its end, or began behind the phone's back; or the watch of the one before is about to end.
Over == print \in Ended \/ behind
Past == Over \/ lock = "started"
ArmedInv ==
    /\ autoShutoffArmed \/ Holds => Past
    /\ lock = "stopped" \/ Unread \/ (Follows /\ ~conn.tracking) => Over
    /\ board.on /\ board.lastEnd = "stopped" => Busy(board) \/ print \in Ended

Typed == BoardTyped /\ BoardInv /\ ServiceTyped

\* A step of the board when nobody rehearses.
PrintStep == Kinds /\ ~DryEnds /\ (Busy(board) => board.left)

LEMMA PrintSteps == ASSUME OneWatcher, Typed, LeftInv, BoardStep PROVE PrintStep
<1>1. ~Rehearses
  <2>1. rehearsals \in Nat /\ rehearsals <= 0
    BY Numbers DEF OneWatcher, Typed
  <2> QED BY <2>1 DEF Rehearses, OneWatcher
<1>2. ~DryEnds
  BY DEF DryEnds, Rehearsing, LeftInv
<1>3. Busy(board) => board.left
  BY DEF LeftInv, Busy
<1> QED
  BY <1>1, <1>2, <1>3 DEF PrintStep, BoardStep

LEMMA EndedGrows ==
    ASSUME Typed, PrintStep
    PROVE  /\ Ended \subseteq Ended'
           /\ Cardinality(Ended) \in Nat /\ Cardinality(Ended') \in Nat
           /\ Cardinality(Ended) <= Cardinality(Ended')
           /\ Finishes \/ Ends => Cardinality(Ended') = Cardinality(Ended) + 1 /\ print \in Ended'
<1> USE DEF Typed
<1>0. Cardinality(Ended) \in Nat /\ Cardinality(Ended') \in Nat
  <2>1. Ended \in SUBSET Prints /\ Ended' \in SUBSET Prints
    BY DEF Ended
  <2> QED BY <2>1, CountSmall
<1>1. CASE Finishes \/ Ends
  <2>1. print \in Prints /\ fate[print] = "runs"
        /\ (fate' = [fate EXCEPT ![print] = "finished"] \/ fate' = [fate EXCEPT ![print] = "stopped"])
    BY <1>1 DEF Finishes, Ends, BoardInv, RealPrint, Busy
  <2>2. Ended' = Ended \cup {print} /\ print \notin Ended /\ Ended \in SUBSET Prints
    BY <2>1 DEF Ended, BoardTyped
  <2>3. Cardinality(Ended') = Cardinality(Ended) + 1
    BY <2>1, <2>2, CountOneMore
  <2>4. Cardinality(Ended) <= Cardinality(Ended')
    BY ONLY <1>0, <2>3
  <2> QED BY <1>0, <2>2, <2>3, <2>4
<1>2. CASE ~(Finishes \/ Ends)
  <2>1. Ended' = Ended
    <3>1. CASE Rests \/ ReadsAll \/ Settles \/ Pauses
      BY <3>1 DEF Rests, ReadsAll, Settles, Pauses, Ended
    <3>2. CASE Fails \/ Resumes
      <4>1. fate[print] \notin {"finished", "stopped"}
        BY <3>2 DEF Fails, Resumes, BoardInv
      <4>2. fate' = [fate EXCEPT ![print] = "cut off"] \/ fate' = [fate EXCEPT ![print] = "runs"]
        BY <3>2 DEF Fails, Resumes
      <4> QED BY <4>1, <4>2 DEF Ended, BoardTyped
    <3>3. CASE Starts
      <4>1. print + 1 \in Prints => fate[print + 1] = "none"
        <5>1. print + 1 > print
          <6>1. print \in Nat
            BY Numbers
          <6> QED BY ONLY <6>1
        <5> QED BY <5>1 DEF BoardInv
      <4> QED BY <3>3, <4>1 DEF Starts, Ended, BoardTyped
    <3>4. CASE Reboots \/ PlugOff
      <4>1. fate' = fate \/ (fate[print] \notin {"finished", "stopped"} /\ fate' = [fate EXCEPT ![print] = "cut off"])
        BY <3>4 DEF Reboots, PlugOff, CutOff, BoardInv
      <4> QED BY <4>1 DEF Ended, BoardTyped
    <3> QED BY <1>2, <3>1, <3>2, <3>3, <3>4 DEF PrintStep, Kinds
  <2>2. Cardinality(Ended) <= Cardinality(Ended)
    BY ONLY <1>0
  <2> QED BY <1>0, <1>2, <2>1, <2>2
<1> QED
  BY <1>1, <1>2

LEMMA LeftInvNext ==
    ASSUME OneWatcher, Typed, LeftInv, PrintStep
    PROVE  LeftInv'
<1> USE DEF LeftInv, Typed, BoardTyped, BoardObject
<1>1. CASE Rests
  BY <1>1 DEF Rests
<1>7. CASE Finishes \/ Ends
  <2>1. board'.state = "IDLE" /\ (board'.dry <=> board.dry)
    BY <1>7 DEF Finishes, Ends
  <2> QED BY <2>1
<1>5. CASE Settles
  <2>1. board'.state \in {"IDLE", "DISCONNECTED"} /\ (board'.dry <=> board.dry)
    BY <1>5 DEF Settles
  <2> QED BY <2>1
<1>6. CASE Fails
  <2>1. board'.state = "ERROR" /\ (board'.left <=> board.left) /\ board.left /\ (board'.dry <=> board.dry)
    BY <1>6 DEF Fails, RealPrint, Busy
  <2> QED BY <2>1
<1>2. CASE ReadsAll \/ Pauses
  BY <1>2 DEF ReadsAll, Pauses, OneWatcher
<1>3. CASE Starts \/ Resumes
  BY <1>3, BeginsFields DEF Starts, Resumes
<1>4. CASE Reboots \/ PlugOff
  BY <1>4, BootedFields, OffFields DEF Reboots
<1> QED
  BY <1>1, <1>2, <1>3, <1>4, <1>5, <1>6, <1>7 DEF PrintStep, Kinds

\* What the service can tell of a step of the board.
LEMMA BoardFacts ==
    ASSUME Typed, PrintStep
    PROVE  \/ board'.boot = board.boot + 1
           \/ /\ board'.boot = board.boot /\ board'.finished = board.finished + 1 /\ board'.lastEnd = "finished"
              /\ Busy(board) /\ Cardinality(Ended') = Cardinality(Ended) + 1 /\ print \in Ended'
           \/ /\ board'.boot = board.boot /\ board'.finished = board.finished
              /\ \/ ~board'.on
                 \/ Busy(board)'
                 \/ board'.state = "ERROR" /\ board'.lastEnd = "error"
                 \/ board'.lastEnd = "stopped" /\ Cardinality(Ended') = Cardinality(Ended) + 1
                 \/ /\ board'.on = board.on /\ board'.lastEnd = board.lastEnd /\ ~Busy(board)
                    /\ board'.state = board.state \/ board.state # "ERROR" \/ phase' \notin Watching
<1> USE DEF Typed
<1>1. CASE Rests
  BY <1>1 DEF Rests, Busy
<1>2. CASE ReadsAll \/ Pauses
  BY <1>2 DEF ReadsAll, Pauses, Busy, BoardTyped, BoardObject
<1>3. CASE Finishes
  BY <1>3, EndedGrows DEF Finishes, Busy, BoardTyped, BoardObject
<1>4. CASE Fails
  BY <1>4 DEF Fails, BoardTyped, BoardObject
<1>5. CASE Ends
  <2>1. board.left
    BY <1>5 DEF Ends, RealPrint, PrintStep
  <2>2. board' = [board EXCEPT !.state = "IDLE", !.left = FALSE, !.lastEnd = "stopped"]
    BY <1>5, <2>1 DEF Ends
  <2>3. board'.boot = board.boot /\ board'.finished = board.finished /\ board'.lastEnd = "stopped"
    BY <2>2 DEF BoardTyped, BoardObject
  <2> QED BY <1>5, <2>3, EndedGrows
<1>6. CASE Starts \/ Resumes
  BY <1>6, BeginsFields DEF Starts, Resumes, Busy
<1>7. CASE Reboots
  BY <1>7, BootedFields DEF Reboots
<1>8. CASE PlugOff
  BY <1>8, OffFields
<1>9. CASE Settles
  <2>1. PICK s \in {"IDLE", "DISCONNECTED"}, l \in BOOLEAN :
            /\ board' = [board EXCEPT !.state = s, !.left = l]
            /\ board.state = "ERROR" => phase' \notin Watching
    BY <1>9 DEF Settles
  <2>2. ~Busy(board)
    BY <1>9 DEF Settles
  <2>3. board'.boot = board.boot /\ board'.finished = board.finished /\ board'.on = board.on /\ board'.lastEnd = board.lastEnd
    BY <2>1 DEF BoardTyped, BoardObject
  <2> QED BY <2>1, <2>2, <2>3
<1> QED
  BY <1>1, <1>2, <1>3, <1>4, <1>5, <1>6, <1>7, <1>8, <1>9 DEF PrintStep, Kinds

\* Who was stopped last in this boot, has been.
LEMMA StoppedKept ==
    ASSUME Typed, PrintStep, board.on /\ board.lastEnd = "stopped" => Busy(board) \/ print \in Ended
    PROVE  board'.on /\ board'.lastEnd = "stopped" => Busy(board)' \/ print' \in Ended'
<1> USE DEF Typed
<1>0. Ended \subseteq Ended' /\ (Finishes \/ Ends => print \in Ended')
  BY EndedGrows
<1>1. CASE Rests
  BY <1>0, <1>1 DEF Rests, Busy
<1>2. CASE ReadsAll \/ Pauses \/ Starts \/ Resumes
  BY <1>2, BeginsFields DEF ReadsAll, Pauses, Starts, Resumes, Busy, BoardTyped, BoardObject
<1>3. CASE Finishes \/ Ends
  BY <1>0, <1>3 DEF Finishes, Ends
<1>4. CASE Fails \/ Reboots \/ PlugOff
  BY <1>4, BootedFields, OffFields DEF Fails, Reboots, BoardTyped, BoardObject
<1>5. CASE Settles
  <2>1. ~Busy(board) /\ (board'.on <=> board.on) /\ board'.lastEnd = board.lastEnd /\ print' = print
    BY <1>5 DEF Settles, BoardTyped, BoardObject
  <2> QED BY <1>0, <2>1
<1> QED
  BY <1>1, <1>2, <1>3, <1>4, <1>5 DEF PrintStep, Kinds

LEMMA SeenNumbers ==
    ASSUME Typed
    PROVE  /\ conn.finishedSeen \in Nat /\ conn.bootIdSeen \in Nat /\ told \in Nat
           /\ board.finished \in Nat /\ board.boot \in Nat
<1>1. conn.finishedSeen \in 0..MaxPrints + MaxRehearsals /\ conn.bootIdSeen \in 1..MaxBoots
  BY DEF Typed, ServiceTyped, ShownTyped, ConnObject, Ends0
<1>2. told \in 0..MaxPrints + 1
  BY DEF Typed, ServiceTyped, CountsTyped, Tolds
<1>3. MaxPrints \in Nat /\ MaxBoots \in Nat /\ MaxRehearsals \in Nat
  BY DEF PhoneAssumption
<1>4. board.finished \in Nat /\ board.boot \in Nat
  BY Numbers DEF Typed
<1>5. conn.finishedSeen \in Nat /\ conn.bootIdSeen \in Nat /\ told \in Nat
  BY ONLY <1>1, <1>2, <1>3
<1> QED
  BY <1>4, <1>5

\* The balance of a step.
LEMMA Balance ==
    ASSUME NEW t \in Nat, NEW t1 \in Nat, NEW e \in Nat, NEW e1 \in Nat,
           NEW u, NEW u1, NEW o, NEW o1,
           t + One(u) + One(o) <= e, e <= e1,
           \/ t1 = t /\ (u1 => u) /\ (o1 => o)
           \/ t1 = t /\ (o1 => o) /\ e1 = e + 1
           \/ t1 = t /\ (u1 => u) /\ e1 = e + 1
           \/ t1 = t /\ u /\ ~u1
           \/ t1 <= t + 1 /\ o /\ ~o1 /\ (u1 => u)
    PROVE  t1 + One(u1) + One(o1) <= e1
BY DEF One

\* The steps between the answers: the thread learns nothing.
Same == conn'.tracking = conn.tracking /\ conn'.finishedSeen = conn.finishedSeen /\ conn'.bootIdSeen = conn.bootIdSeen
Calm == told' = told /\ Same /\ (Holds' => Holds) /\ (Follows' => Follows)
\* The steps while nobody follows a print.
Blind == told' = told /\ (Holds' => Holds) /\ ~Follows' /\ (Unread' => Unread)
\* Of no end is heard that was none.
News == /\ Unread' => Unread \/ print \in Ended'
        /\ Follows' /\ ~conn'.tracking => (Follows /\ ~conn.tracking) \/ Unread
        /\ Holds' => Holds \/ Unread \/ Owed

LEMMA SeenKept ==
    ASSUME Typed, SeenInv, PrintStep, Same
    PROVE  SeenInv'
<1>1. /\ conn.finishedSeen \in Nat /\ conn.bootIdSeen \in Nat /\ board.finished \in Nat /\ board.boot \in Nat
  BY SeenNumbers
<1>2. \/ board'.boot = board.boot + 1
      \/ board'.boot = board.boot /\ (board'.finished = board.finished \/ board'.finished = board.finished + 1)
  BY BoardFacts
<1>3. /\ conn.bootIdSeen <= board.boot
      /\ conn.bootIdSeen = board.boot => conn.finishedSeen <= board.finished
  BY DEF SeenInv
<1>4. conn'.finishedSeen = conn.finishedSeen /\ conn'.bootIdSeen = conn.bootIdSeen
  BY DEF Same
<1>5. /\ conn'.bootIdSeen <= board'.boot
      /\ conn'.bootIdSeen = board'.boot => conn'.finishedSeen <= board'.finished
  BY ONLY <1>1, <1>2, <1>3, <1>4
<1> QED
  BY <1>5 DEF SeenInv

LEMMA CreditStep ==
    ASSUME Typed, Typed', CreditInv, PrintStep,
           \/ told' = told /\ (Unread' => Unread) /\ (Owed' => Owed)
           \/ told' = told /\ (Owed' => Owed) /\ Cardinality(Ended') = Cardinality(Ended) + 1
           \/ told' = told /\ (Unread' => Unread) /\ Cardinality(Ended') = Cardinality(Ended) + 1
           \/ told' = told /\ Unread /\ ~Unread'
           \/ told' <= told + 1 /\ Owed /\ ~Owed' /\ (Unread' => Unread)
    PROVE  CreditInv'
<1>1. Cardinality(Ended) \in Nat /\ Cardinality(Ended') \in Nat /\ Cardinality(Ended) <= Cardinality(Ended')
  BY EndedGrows
<1>2. told \in Nat /\ told' \in Nat
  <2>1. told \in 0..MaxPrints + 1 /\ told' \in 0..MaxPrints + 1
    BY DEF Typed, ServiceTyped, CountsTyped, Tolds
  <2>2. MaxPrints \in Nat
    BY DEF PhoneAssumption
  <2> QED BY ONLY <2>1, <2>2
<1>3. told + One(Unread) + One(Owed) <= Cardinality(Ended)
  BY DEF CreditInv
<1> DEFINE u == Unread
           u1 == Unread'
           o == Owed
           o1 == Owed'
           e == Cardinality(Ended)
           e1 == Cardinality(Ended')
<1>4. /\ told + One(u) + One(o) <= e /\ e \in Nat /\ e1 \in Nat /\ e <= e1
      /\ \/ told' = told /\ (u1 => u) /\ (o1 => o)
         \/ told' = told /\ (o1 => o) /\ e1 = e + 1
         \/ told' = told /\ (u1 => u) /\ e1 = e + 1
         \/ told' = told /\ u /\ ~u1
         \/ told' <= told + 1 /\ o /\ ~o1 /\ (u1 => u)
  BY <1>1, <1>3
<1>5. told' + One(u1) + One(o1) <= e1 => CreditInv'
  BY DEF CreditInv, One
<1> HIDE DEF u, u1, o, o1, e, e1
<1> QED BY <1>2, <1>4, <1>5, Balance

LEMMA CalmKept ==
    ASSUME Typed, Typed', SeenInv, SawInv, CreditInv, WatchInv', PrintStep, Calm
    PROVE  SawInv' /\ CreditInv' /\ News
<1>1. /\ conn.finishedSeen \in Nat /\ conn.bootIdSeen \in Nat /\ board.finished \in Nat /\ board.boot \in Nat
  BY SeenNumbers
<1>2. conn'.tracking = conn.tracking /\ conn'.finishedSeen = conn.finishedSeen /\ conn'.bootIdSeen = conn.bootIdSeen
  BY DEF Calm, Same
<1>3. (board'.boot = board.boot + 1) => conn'.bootIdSeen # board'.boot
  <2>1. conn.bootIdSeen <= board.boot
    BY DEF SeenInv
  <2> QED BY ONLY <1>1, <1>2, <2>1
<1>4. (conn.bootIdSeen = board.boot /\ board'.finished = board.finished + 1) => conn'.finishedSeen # board'.finished
  <2>1. conn.bootIdSeen = board.boot => conn.finishedSeen <= board.finished
    BY DEF SeenInv
  <2> QED BY ONLY <1>1, <1>2, <2>1
<1>5. phase' \notin Watching => ~Follows'
  BY DEF WatchInv, Follows, Watching
<1>6. (Holds' => Holds) /\ (Follows' => Follows) /\ told' = told
  BY DEF Calm
<1>7. SawInv'
  <2> SUFFICES ASSUME Follows', conn'.tracking, SameBoot'
               PROVE  Busy(board)' \/ conn'.finishedSeen # board'.finished \/ board'.lastEnd = "stopped" \/ board'.state = "ERROR"
    BY DEF SawInv
  <2>1. board'.on /\ conn'.bootIdSeen = board'.boot
    BY DEF SameBoot
  <2>2. CASE board'.boot = board.boot + 1
    BY <1>3, <2>1, <2>2
  <2>3. CASE board'.boot = board.boot /\ board'.finished = board.finished + 1
    BY <1>2, <1>4, <2>1, <2>3
  <2>4. CASE /\ board'.boot = board.boot /\ board'.finished = board.finished
             /\ board'.on = board.on /\ board'.lastEnd = board.lastEnd /\ ~Busy(board)
             /\ board'.state = board.state \/ board.state # "ERROR" \/ phase' \notin Watching
    <3>1. conn.finishedSeen # board.finished \/ board.lastEnd = "stopped" \/ board.state = "ERROR"
      BY <1>2, <1>6, <2>1, <2>4 DEF SawInv, SameBoot
    <3> QED BY <1>2, <1>5, <2>4, <3>1
  <2> QED BY BoardFacts, <2>1, <2>2, <2>3, <2>4 DEF Typed
<1>8. CreditInv'
  <2>3. \/ (Unread' => Unread) /\ (Owed' => Owed)
        \/ (Owed' => Owed) /\ Cardinality(Ended') = Cardinality(Ended) + 1
        \/ (Unread' => Unread) /\ Cardinality(Ended') = Cardinality(Ended) + 1
    <3>1. CASE board'.boot = board.boot + 1
      <4>1. ~Unread' /\ ~SameBoot'
        BY <1>3, <3>1 DEF Unread, SameBoot
      <4>2. Owed' => Owed
        BY <1>2, <1>6, <4>1 DEF Owed
      <4> QED BY <4>1, <4>2
    <3>2. CASE /\ board'.boot = board.boot /\ board'.finished = board.finished + 1 /\ board'.lastEnd = "finished"
               /\ Cardinality(Ended') = Cardinality(Ended) + 1
      <4>1. Owed' => Owed
        BY <1>2, <1>6, <3>2 DEF Owed
      <4> QED BY <3>2, <4>1
    <3>3. CASE /\ board'.boot = board.boot /\ board'.finished = board.finished
               /\ Cardinality(Ended') = Cardinality(Ended) + 1
      <4>1. Unread' => Unread
        BY <1>2, <3>3 DEF Unread
      <4> QED BY <3>3, <4>1
    <3>4. CASE /\ board'.boot = board.boot /\ board'.finished = board.finished
               /\ ~board'.on \/ Busy(board)' \/ board'.lastEnd = "error"
      <4>1. Unread' => Unread
        BY <1>2, <3>4 DEF Unread
      <4>2. Owed' => Owed
        BY <1>2, <1>6, <3>4 DEF Owed, SameBoot
      <4> QED BY <4>1, <4>2
    <3>5. CASE /\ board'.boot = board.boot /\ board'.finished = board.finished
               /\ board'.on = board.on /\ board'.lastEnd = board.lastEnd /\ ~Busy(board)
      <4>1. Unread' => Unread
        BY <1>2, <3>5 DEF Unread
      <4>2. Owed' => Owed
        BY <1>2, <1>6, <3>5 DEF Owed, SameBoot
      <4> QED BY <4>1, <4>2
    <3> QED BY BoardFacts, <3>1, <3>2, <3>3, <3>4, <3>5 DEF Typed
  <2> QED BY <1>6, <2>3, CreditStep
<1>9. Unread' => Unread \/ print \in Ended'
  <2>1. CASE board'.boot = board.boot + 1
    BY <1>3, <2>1 DEF Unread
  <2>2. CASE board'.boot = board.boot /\ board'.finished = board.finished
    BY <1>2, <2>2 DEF Unread
  <2> QED BY BoardFacts, <2>1, <2>2
<1> QED
  BY <1>2, <1>6, <1>7, <1>8, <1>9 DEF News

LEMMA BlindKept ==
    ASSUME Typed, Typed', CreditInv, PrintStep, Blind
    PROVE  SawInv' /\ CreditInv' /\ News
<1>1. (Holds' => Holds) /\ ~Follows' /\ told' = told /\ (Unread' => Unread)
  BY DEF Blind
<1>2. Owed' => Owed
  BY <1>1 DEF Owed
<1> QED
  BY <1>1, <1>2, CreditStep DEF SawInv, News

-----------------------------------------------------------------------------
(* The one thread *)

LEMMA TheOne ==
    ASSUME OneWatcher, ServiceTyped
    PROVE  /\ 1..MaxPollers = {1} /\ cur \in {0, 1}
           /\ DOMAIN pollers = {1} /\ pollers[1] \in PollerObject
<1>1. 1..MaxPollers = {1} /\ 0..MaxPollers = {0, 1}
  <2>1. MaxPollers = 1
    BY DEF OneWatcher
  <2> QED BY ONLY <2>1
<1> QED
  BY <1>1 DEF ServiceTyped, ThreadsTyped, Current, PollerArray

LEMMA StopsWatch ==
    ASSUME OneWatcher, ServiceTyped, WatchInv, StopPoller
    PROVE  /\ ~Watches(1)' /\ cur' = 0 /\ pollers'[1].at # "sleeps"
           /\ Holds' => Holds
<1>1. pollers[1] \in PollerObject /\ cur \in {0, 1} /\ DOMAIN pollers = {1}
  BY TheOne
<1>2. CASE cur = 0
  <2>1. pollers' = pollers /\ cur' = 0
    BY <1>2 DEF StopPoller
  <2>2. ~Watches(1)
    <3>1. Watches(1) => cur = 1
      BY DEF WatchInv
    <3> QED BY <1>2, <3>1
  <2>3. pollers[1].at # "sleeps"
    BY <2>2 DEF WatchInv, Watches
  <2> QED BY <2>1, <2>2, <2>3 DEF Watches, Holds, Done
<1>3. CASE cur = 1
  <2>1. cur' = 0 /\ pollers'[1] = Stopped(pollers[1])
    BY <1>1, <1>3 DEF StopPoller
  <2>2. pollers'[1] = IF pollers[1].at # "asked" THEN NoPoller ELSE [pollers[1] EXCEPT !.stop = TRUE]
    BY <2>1 DEF Stopped
  <2>3. CASE pollers[1].at # "asked"
    <3>1. pollers'[1].at = "ended"
      BY <2>2, <2>3 DEF NoPoller
    <3> QED BY <2>1, <3>1 DEF Watches, Holds
  <2>4. CASE pollers[1].at = "asked"
    <3>1. /\ pollers'[1].at = "asked" /\ pollers'[1].stop = TRUE
          /\ pollers'[1].got = pollers[1].got /\ pollers'[1].saw = pollers[1].saw
      BY <1>1, <2>2, <2>4 DEF PollerObject
    <3> QED BY <2>1, <2>4, <3>1 DEF Watches, Holds, Done
  <2> QED BY <2>3, <2>4
<1> QED
  BY <1>1, <1>2, <1>3

LEMMA StartsWatch ==
    ASSUME OneWatcher, ServiceTyped, StartPoller
    PROVE  /\ cur' = 1 /\ pollers'[1].at = "sleeps" /\ ~pollers'[1].stop /\ pollers'[1].got = "none"
           /\ ~Holds' /\ ~Follows'
<1>1. 1..MaxPollers = {1} /\ cur \in {0, 1} /\ DOMAIN pollers = {1}
  BY TheOne
<1>2. cur' = 1 /\ pollers'[1] = [NoPoller EXCEPT !.at = "sleeps"]
  BY <1>1 DEF StartPoller
<1>3. pollers'[1] = [at |-> "sleeps", stop |-> FALSE, got |-> "none", saw |-> FALSE]
  BY <1>2 DEF NoPoller
<1> QED
  BY <1>2, <1>3 DEF Holds, Follows, Sees

\* The answers, as far as the numbers seen are concerned.
LEMMA ProgressSees ==
    ASSUME Typed, SeenInv, UNCHANGED board, conn' = Progress.conn
    PROVE  SeenInv' /\ (Unread' => Unread)
<1>1. /\ conn.finishedSeen \in Nat /\ conn.bootIdSeen \in Nat /\ board.finished \in Nat /\ board.boot \in Nat
  BY SeenNumbers
<1>2. \/ conn'.finishedSeen = conn.finishedSeen /\ conn'.bootIdSeen = conn.bootIdSeen
      \/ conn'.finishedSeen = board.finished /\ conn'.bootIdSeen = board.boot
      \/ conn'.finishedSeen = board.finished /\ conn'.bootIdSeen = conn.bootIdSeen
  <2>1. conn \in ConnObject
    BY DEF Typed, ServiceTyped, ShownTyped
  <2> QED BY <2>1 DEF Progress, Answer, Seen, ConnObject
<1>3. board' = board
  OBVIOUS
<1>4. /\ conn'.bootIdSeen <= board.boot
      /\ conn'.bootIdSeen = board.boot => conn'.finishedSeen <= board.finished
  <2>1. /\ conn.bootIdSeen <= board.boot
        /\ conn.bootIdSeen = board.boot => conn.finishedSeen <= board.finished
    BY DEF SeenInv
  <2> QED BY ONLY <1>1, <1>2, <2>1
<1> QED
  BY <1>2, <1>3, <1>4 DEF SeenInv, Unread

LEMMA RestSteps == ASSUME LeftInv, Rests PROVE PrintStep
BY DEF PrintStep, Kinds, DryEnds, Rehearsing, Rests, LeftInv, Busy

LEMMA AskKeeps ==
    ASSUME OneWatcher, Typed, Typed', LeftInv, WatchInv, SeenInv, SawInv, CreditInv, PollAsks(1)
    PROVE  WatchInv' /\ SeenInv' /\ SawInv' /\ CreditInv' /\ News
<1>1. /\ board' = board /\ Reachable /\ UNCHANGED <<phase, lock, cur, autoConnect, told>>
      /\ conn' = Progress.conn /\ pollers[1].at = "sleeps"
  BY DEF PollAsks, boardVars, ghosts
<1>2. /\ pollers'[1].at = "asked" /\ pollers'[1].got = Progress.res
      /\ pollers'[1].saw = pollers[1].saw /\ pollers'[1].stop = pollers[1].stop
  BY TheOne DEF Typed, PollAsks, PollerObject
<1>3. ~pollers[1].stop /\ pollers[1].got = "none" /\ Watches(1)
  BY <1>1 DEF WatchInv, Watches
<1>4. WatchInv'
  BY <1>1, <1>2, <1>3 DEF WatchInv, Watches
<1>5. SeenInv' /\ (Unread' => Unread)
  BY <1>1, ProgressSees
<1>6. PrintStep
  <2>1. Rests
    BY DEF Rests, PollAsks, boardVars
  <2> QED BY <2>1, RestSteps
<1>7. conn \in ConnObject
  BY DEF Typed, ServiceTyped, ShownTyped
<1> DEFINE saw == pollers[1].saw
<1>8. /\ Holds' <=> Progress.res \in {"done", "all bytes"} \/ (Progress.res = "not" /\ saw)
      /\ Follows' <=> Progress.res # "error" /\ (saw \/ Progress.res = "byte")
      /\ Follows <=> saw
      /\ ~Holds
  BY <1>1, <1>2, <1>3 DEF Holds, Done, Follows, Watches, Sees
<1> HIDE DEF saw
\* The six answers of pollProgress.
<1>a. CASE board.state = "ERROR" /\ board.left
  <2>1. Progress.res = "error"
    BY <1>a DEF Progress, Answer, LeftInv
  <2>2. ~Owed' /\ SawInv' /\ News
    BY <1>5, <1>8, <2>1 DEF Owed, SawInv, News
  <2> QED BY <1>1, <1>4, <1>5, <1>6, <2>2, CreditStep
<1>b. CASE ~(board.state = "ERROR" /\ board.left) /\ board.boot # conn.bootIdSeen
  <2>1. Progress.res = (IF conn.tracking THEN "error" ELSE "not") /\ Progress.conn = [Seen(conn) EXCEPT !.tracking = FALSE]
    BY <1>b DEF Progress, Answer, LeftInv
  <2>2. ~conn'.tracking
    BY <1>1, <1>7, <2>1 DEF Seen, ConnObject
  <2>3. Owed' => Owed
    BY <1>8, <2>1 DEF Owed
  <2>4. SawInv' /\ News
    <3>1. Holds' => Follows /\ ~conn.tracking
      BY <1>8, <2>1
    <3>2. Follows' => Follows /\ ~conn.tracking
      BY <1>8, <2>1
    <3> QED BY <1>5, <2>2, <3>1, <3>2 DEF SawInv, News, Owed
  <2> QED BY <1>1, <1>4, <1>5, <1>6, <2>3, <2>4, CreditStep
<1>c. CASE /\ ~(board.state = "ERROR" /\ board.left) /\ board.boot = conn.bootIdSeen
           /\ board.finished # conn.finishedSeen
  <2>1. Progress.res = "done" /\ Progress.conn = [conn EXCEPT !.finishedSeen = board.finished, !.tracking = FALSE]
    BY <1>c DEF Progress, Answer, LeftInv
  <2>2. ~conn'.tracking /\ conn'.finishedSeen = board.finished
    BY <1>1, <1>7, <2>1 DEF ConnObject
  <2>3. Unread /\ ~Unread'
    BY <1>1, <1>c, <2>2 DEF Unread
  <2>4. SawInv' /\ News
    BY <2>2, <2>3 DEF SawInv, News
  <2> QED BY <1>1, <1>4, <1>5, <1>6, <2>3, <2>4, CreditStep
<1> DEFINE Quiet == /\ ~(board.state = "ERROR" /\ board.left) /\ board.boot = conn.bootIdSeen
                    /\ board.finished = conn.finishedSeen
<1>d. CASE Quiet /\ Busy(board)
  <2>1. board.left
    BY <1>d DEF LeftInv, Busy
  <2>2. Progress.res = "byte" /\ Progress.conn = [conn EXCEPT !.tracking = TRUE]
    BY <1>d, <2>1 DEF Progress, Answer, LeftInv
  <2>3. conn'.tracking
    BY <1>1, <1>7, <2>2 DEF ConnObject
  <2>4. Busy(board)'
    BY <1>1, <1>d DEF Busy
  <2>5. ~Owed' /\ SawInv' /\ News
    BY <1>5, <1>8, <2>2, <2>3, <2>4 DEF Owed, SawInv, News
  <2> QED BY <1>1, <1>4, <1>5, <1>6, <2>5, CreditStep
<1>e. CASE Quiet /\ ~Busy(board) /\ conn.tracking /\ ~conn.stopping /\ board.lastEnd # "stopped"
  <2>1. Progress.res = "error"
    BY <1>e DEF Progress, Answer, LeftInv
  <2>2. ~Owed' /\ SawInv' /\ News
    BY <1>5, <1>8, <2>1 DEF Owed, SawInv, News
  <2> QED BY <1>1, <1>4, <1>5, <1>6, <2>2, CreditStep
<1>f. CASE Quiet /\ ~Busy(board) /\ ~(conn.tracking /\ ~conn.stopping /\ board.lastEnd # "stopped")
  <2>1. Progress.res = "not" /\ Progress.conn = conn
    BY <1>f DEF Progress, Answer, LeftInv
  <2>2. SameBoot /\ conn' = conn
    BY <1>1, <1>f, <2>1 DEF SameBoot, Reachable
  <2>3. Follows' => Follows
    BY <1>8, <2>1
  \* It was seen running in this boot, and runs no more: it was stopped, for an error would have been told.
  <2>4. Follows /\ conn.tracking => board.lastEnd = "stopped"
    BY <1>f, <2>2 DEF SawInv, LeftInv
  <2>5. Owed' => Owed
    <3>1. Owed' => Follows
      BY <1>8, <2>1, <2>3 DEF Owed
    <3> QED BY <1>f, <2>2, <2>4, <3>1 DEF Owed
  <2>6. SawInv'
    BY <1>1, <2>2, <2>3 DEF SawInv, SameBoot, Busy
  <2>7. News
    <3>1. Holds' => Owed
      <4>1. Holds' => Follows
        BY <1>8, <2>1
      <4> QED BY <1>f, <2>2, <2>4, <4>1 DEF Owed
    <3> QED BY <1>5, <2>2, <2>3, <3>1 DEF News
  <2> QED BY <1>1, <1>4, <1>5, <1>6, <2>5, <2>6, <2>7, CreditStep
<1> QED
  BY <1>a, <1>b, <1>c, <1>d, <1>e, <1>f

LEMMA PollKeeps ==
    ASSUME OneWatcher, Typed, Typed', LeftInv, WatchInv, SeenInv, SawInv, CreditInv,
           PollForgets(1) \/ PollGoesOn(1) \/ PollDone(1) \/ PollError(1)
    PROVE  WatchInv' /\ SeenInv' /\ SawInv' /\ CreditInv' /\ News
<1>1. /\ UNCHANGED <<board, print, fate>> /\ conn' = conn
      /\ UNCHANGED <<lock, cur, autoConnect>> /\ pollers[1].at = "asked"
  BY DEF PollForgets, PollGoesOn, PollDone, PollError, boardVars
<1>2. pollers[1] \in PollerObject /\ DOMAIN pollers = {1}
  BY TheOne DEF Typed
<1>3. Rests /\ PrintStep /\ Same
  BY <1>1, RestSteps DEF Rests, Same
<1>4. SeenInv'
  BY <1>3, SeenKept
<1>5. CASE PollForgets(1) \/ PollGoesOn(1)
  <2>1. told' = told /\ phase' = phase
    BY <1>5 DEF PollForgets, PollGoesOn, ghosts
  <2>2. \/ pollers'[1].at = "ended"
        \/ /\ pollers'[1].at = "sleeps" /\ pollers'[1].got = "none" /\ pollers'[1].stop = pollers[1].stop
           /\ ~pollers[1].stop /\ pollers[1].got # "error"
           /\ pollers'[1].saw => pollers[1].saw \/ pollers[1].got = "byte"
    <3>1. CASE PollForgets(1)
      <4>1. pollers'[1] = IF pollers[1].stop THEN NoPoller ELSE [pollers[1] EXCEPT !.at = "sleeps", !.got = "none"]
        BY <1>2, <3>1 DEF PollForgets
      <4>2. pollers[1].got # "error"
        BY <3>1 DEF PollForgets
      <4>3. pollers[1].stop => pollers'[1].at = "ended"
        BY <4>1 DEF NoPoller
      <4>4. ~pollers[1].stop => /\ pollers'[1].at = "sleeps" /\ pollers'[1].got = "none"
                                /\ pollers'[1].stop = pollers[1].stop /\ pollers'[1].saw = pollers[1].saw
        BY <1>2, <4>1 DEF PollerObject
      <4> QED BY <4>2, <4>3, <4>4, Zenon
    <3>2. CASE PollGoesOn(1)
      <4> DEFINE s == pollers[1].saw \/ pollers[1].got \in {"byte", "all bytes"}
      <4>1. pollers'[1] = IF pollers[1].stop THEN NoPoller
                          ELSE [pollers[1] EXCEPT !.at = "sleeps", !.got = "none", !.saw = s]
        BY <1>2, <3>2 DEF PollGoesOn
      <4>2. pollers[1].got # "error" /\ pollers[1].got # "all bytes"
        BY <3>2 DEF PollGoesOn, Done
      <4>3. s => pollers[1].saw \/ pollers[1].got = "byte"
        BY <4>2
      <4> HIDE DEF s
      <4>4. pollers[1].stop => pollers'[1].at = "ended"
        BY <4>1 DEF NoPoller
      <4>5. ~pollers[1].stop => /\ pollers'[1].at = "sleeps" /\ pollers'[1].got = "none"
                                /\ pollers'[1].stop = pollers[1].stop /\ pollers'[1].saw = s
        BY <1>2, <4>1 DEF PollerObject
      <4> QED BY <4>2, <4>3, <4>4, <4>5, Zenon
    <3> QED BY <1>5, <3>1, <3>2
  <2>3. ~Holds' /\ (Follows' => Follows)
    BY <1>1, <2>2 DEF Holds, Follows, Watches, Sees
  <2>4. WatchInv'
    BY <1>1, <2>1, <2>2 DEF WatchInv, Watches
  <2>5. Calm
    BY <1>3, <2>1, <2>3 DEF Calm
  <2> QED BY <1>3, <1>4, <2>4, <2>5, CalmKept
<1>6. CASE PollDone(1) \/ PollError(1)
  <2>1. pollers'[1].at = "ended" /\ phase' \in {"IDLE", "ERROR"}
    BY <1>2, <1>6 DEF PollDone, PollError, NoPoller
  <2>2. ~Holds' /\ ~Follows'
    BY <2>1 DEF Holds, Follows, Watches
  <2>3. WatchInv' /\ SawInv' /\ ~Owed'
    BY <1>1, <2>1, <2>2 DEF WatchInv, Watches, Watching, SawInv, Owed
  <2>4. (Unread' => Unread) /\ News
    BY <1>1, <2>2 DEF Unread, News
  <2>5. told' = told \/ (told' <= told + 1 /\ Owed)
    <3>1. CASE PollError(1)
      BY <3>1 DEF PollError, ghosts
    <3>2. CASE PollDone(1)
      <4>1. told \in Nat /\ (told' = told \/ told' = told + 1)
        BY <3>2, SeenNumbers DEF PollDone
      <4>2. told' <= told + 1
        BY ONLY <4>1
      <4> QED BY <3>2, <4>2 DEF PollDone, Owed, Holds
    <3> QED BY <1>6, <3>1, <3>2
  <2> QED BY <1>3, <1>4, <2>3, <2>4, <2>5, CreditStep
<1> QED
  BY <1>5, <1>6

Watched == WatchInv /\ SeenInv /\ SawInv /\ CreditInv

LEMMA NoneWatches == ASSUME WatchInv, phase # "PRINTING" PROVE ~Watches(1) /\ ~Follows
<1>1. Watches(1) => phase = "PRINTING"
  BY DEF WatchInv
<1> QED
  BY <1>1 DEF Follows

LEMMA CalmWatched ==
    ASSUME Typed, Typed', Watched, PrintStep, WatchInv', Calm
    PROVE  Watched' /\ News
<1>1. SeenInv'
  BY SeenKept DEF Calm, Watched
<1> QED
  BY <1>1, CalmKept DEF Watched

LEMMA BlindWatched ==
    ASSUME Typed, Typed', Watched, PrintStep, WatchInv', SeenInv', Blind
    PROVE  Watched' /\ News
BY BlindKept DEF Watched

\* Connected anew: nothing is unseen.
LEMMA SeenAnew ==
    ASSUME Typed, Typed', board'.boot = board.boot, board'.finished = board.finished,
           conn'.bootIdSeen = board.boot, conn'.finishedSeen = board.finished
    PROVE  SeenInv' /\ ~Unread'
<1>1. board.boot \in Nat /\ board.finished \in Nat
  BY SeenNumbers
<1>2. board.boot <= board.boot /\ board.finished <= board.finished
  BY ONLY <1>1
<1> QED
  BY <1>2 DEF SeenInv, Unread

\* The threads that are not about the print.
LEMMA AsideWatched ==
    ASSUME Typed, Typed', Watched, PrintStep,
           UNCHANGED <<conn, phase, lock, pollers, cur, autoConnect, told>>
    PROVE  Watched' /\ News
<1>1. WatchInv'
  BY DEF Watched, WatchInv, Watches
<1>2. Calm
  BY DEF Calm, Same, Holds, Done, Follows, Watches, Sees
<1> QED
  BY <1>1, <1>2, CalmWatched

LEMMA BoardStepsWatched ==
    ASSUME OneWatcher, LeftInv, Typed, Typed', Watched, BoardSteps
    PROVE  Watched' /\ News
<1>1. UNCHANGED <<conn, phase, lock, pollers, cur, autoConnect, told>>
  <2>1. CASE PlugButton
    BY <2>1 DEF PlugButton, threads
  <2>2. CASE ~PlugButton
    BY <2>2 DEF BoardSteps, BoardMoves, BoardReadsAll, BoardFinishes, BoardFails, OtherClient, Rehearse, BoardConnects, BoardResumes, BoardCrashes,
                threads, ghosts
  <2> QED BY <2>1, <2>2
<1>2. PrintStep
  BY BoardKinds, PrintSteps DEF Typed
<1> QED
  BY <1>1, <1>2, AsideWatched

LEMMA DisconnectWatched ==
    ASSUME OneWatcher, Typed, Typed', Watched, PrintStep, DisconnectCalls,
           UNCHANGED <<lock, autoConnect, told>>
    PROVE  Watched' /\ News
<1>1. StopPoller /\ phase' = "DISCONNECTED" /\ conn' = [conn EXCEPT !.open = FALSE]
  BY DEF DisconnectCalls
<1>2. ~Watches(1)' /\ pollers'[1].at # "sleeps" /\ (Holds' => Holds)
  BY <1>1, StopsWatch DEF Typed, Watched
<1>3. WatchInv'
  BY <1>1, <1>2 DEF Watched, WatchInv, Watching
<1>4. Same
  BY <1>1 DEF Same, Typed, ServiceTyped, ShownTyped, ConnObject
<1>5. Calm
  BY <1>2, <1>4 DEF Calm, Follows
<1> QED
  BY <1>3, <1>5, CalmWatched

LEMMA ConnectWatched ==
    ASSUME OneWatcher, Typed, Typed', Watched, PrintStep, ConnectCalls, phase # "PRINTING",
           autoConnect' = "sleeps", UNCHANGED <<pollers, cur, told>>
    PROVE  Watched' /\ News
<1>1. /\ phase' = "CONNECTING" /\ lock' = "connected" /\ conn' = [Seen(conn) EXCEPT !.open = TRUE]
      /\ board'.boot = board.boot /\ board'.finished = board.finished
  BY DEF ConnectCalls, Opens, SeenOpen, Typed, BoardTyped, BoardObject
<1>2. ~Watches(1) /\ ~Follows
  BY NoneWatches DEF Watched
<1>3. ~Watches(1)' /\ ~Follows' /\ (Holds' => Holds)
  BY <1>2 DEF Watches, Follows, Sees, Holds, Done
<1>4. WatchInv'
  BY <1>1, <1>3 DEF Watched, WatchInv, Watching
<1>5. conn'.bootIdSeen = board.boot /\ conn'.finishedSeen = board.finished
  BY <1>1 DEF Seen, Typed, ServiceTyped, ShownTyped, ConnObject
<1>6. SeenInv' /\ ~Unread'
  BY <1>1, <1>5, SeenAnew
<1>7. Blind
  BY <1>3, <1>6 DEF Blind
<1> QED
  BY <1>4, <1>6, <1>7, BlindWatched

LEMMA ConnectFailsWatched ==
    ASSUME OneWatcher, Typed, Typed', Watched, PrintStep, NEW ph \in {"ERROR", "DISCONNECTED"}, ConnectFailed(ph), phase # "PRINTING",
           autoConnect' = "sleeps"
    PROVE  Watched' /\ News
<1>1. phase' = ph /\ conn' = [conn EXCEPT !.open = FALSE] /\ UNCHANGED <<lock, pollers, cur, told>>
  BY DEF ConnectFailed, ghosts
<1>2. ~Watches(1) /\ ~Follows
  BY NoneWatches DEF Watched
<1>3. ~Watches(1)' /\ ~Follows' /\ (Holds' => Holds)
  BY <1>1, <1>2 DEF Watches, Follows, Sees, Holds, Done
<1>4. WatchInv'
  BY <1>1, <1>3 DEF Watched, WatchInv, Watching
<1>5. Same
  BY <1>1 DEF Same, Typed, ServiceTyped, ShownTyped, ConnObject
<1>6. Calm
  BY <1>1, <1>3, <1>5 DEF Calm
<1> QED
  BY <1>4, <1>6, CalmWatched

\* AutoConnectThread only connects what is not connected.
LEMMA TriesDetached == ASSUME WatchInv, AutoTries PROVE phase # "PRINTING" /\ autoConnect' = "sleeps"
BY DEF WatchInv, AutoTries, AutoSees, Detached

LEMMA PollingsWatched ==
    ASSUME OneWatcher, LeftInv, Typed, Typed', Watched, Pollings
    PROVE  Watched' /\ News
<1>0. PrintStep
  BY PollingKinds, PrintSteps DEF Typed
<1>1. CASE \/ TempPolls \/ CheckShutoff \/ ShutoffSwitches \/ ShutoffNotes \/ TapoNotes
           \/ PlugPolled \/ CheckBoard \/ FailsForgotten
  <2>1. UNCHANGED <<conn, phase, lock, pollers, cur, autoConnect, told>>
    BY <1>1 DEF TempPolls, CheckShutoff, ShutoffSwitches, ShutoffNotes, TapoNotes, PlugPolled, CheckBoard, FailsForgotten, threads, ghosts
  <2> QED BY <1>0, <2>1, AsideWatched
<1>2. CASE AutoConnectLooks
  BY <1>2 DEF AutoConnectLooks, OneWatcher
<1>3. CASE AutoConnects
  <2>1. AutoTries /\ ConnectCalls /\ UNCHANGED <<pollers, cur, told>>
    BY <1>3 DEF AutoConnects, ghosts
  <2>2. phase # "PRINTING" /\ autoConnect' = "sleeps"
    BY <2>1, TriesDetached DEF Watched
  <2> QED BY <1>0, <2>1, <2>2, ConnectWatched
<1>4. CASE AutoConnectFails
  <2>1. AutoTries /\ ConnectFailed("DISCONNECTED")
    BY <1>4 DEF AutoConnectFails
  <2>2. phase # "PRINTING" /\ autoConnect' = "sleeps"
    BY <2>1, TriesDetached DEF Watched
  <2> QED BY <1>0, <2>1, <2>2, ConnectFailsWatched
<1>5. CASE NoticeLost \/ TapoDisconnects
  <2>1. DisconnectCalls /\ UNCHANGED <<lock, autoConnect, told>>
    BY <1>5 DEF NoticeLost, TapoDisconnects, Disconnects, ghosts
  <2> QED BY <1>0, <2>1, DisconnectWatched
<1> QED
  BY <1>1, <1>2, <1>3, <1>4, <1>5 DEF Pollings

LEMMA RecoverWatched ==
    ASSUME OneWatcher, Typed, Typed', Watched, PrintStep, RecoverCall, phase \notin Watching,
           UNCHANGED <<phase, pollers, cur, autoConnect, told>>
    PROVE  Watched' /\ News
<1>1. \/ board' = Begins(board) /\ conn' = [Seen(conn) EXCEPT !.tracking = TRUE, !.stopping = FALSE]
      \/ (board' = Begins(board) \/ board' = board) /\ Tracking
  BY DEF RecoverCall, Resumes, boardVars
<1>2. lock' \in {"recovered", "free"}
  BY DEF RecoverCall
<1>3. ~Watches(1) /\ ~Follows
  BY NoneWatches DEF Watched, Watching
<1>4. ~Watches(1)' /\ ~Follows' /\ (Holds' => Holds)
  BY <1>3 DEF Watches, Follows, Sees, Holds, Done
<1>5. WatchInv'
  BY <1>2, <1>4 DEF Watched, WatchInv, Watching
<1>6. board'.boot = board.boot /\ board'.finished = board.finished
  BY <1>1, BeginsFields DEF Typed
<1>7. SeenInv' /\ (Unread' => Unread)
  <2>1. CASE conn' = [Seen(conn) EXCEPT !.tracking = TRUE, !.stopping = FALSE]
    <3>1. conn'.bootIdSeen = board.boot /\ conn'.finishedSeen = board.finished
      BY <2>1 DEF Seen, Typed, ServiceTyped, ShownTyped, ConnObject
    <3> QED BY <1>6, <3>1, SeenAnew
  <2>2. CASE Tracking
    <3>1. conn'.finishedSeen = conn.finishedSeen /\ conn'.bootIdSeen = conn.bootIdSeen
      BY <2>2 DEF Tracking, Typed, ServiceTyped, ShownTyped, ConnObject
    <3> QED BY <1>6, <3>1 DEF Watched, SeenInv, Unread
  <2> QED BY <1>1, <2>1, <2>2
<1>8. Blind
  BY <1>4, <1>7 DEF Blind
<1> QED
  BY <1>5, <1>7, <1>8, BlindWatched

LEMMA RequestsWatched ==
    ASSUME OneWatcher, LeftInv, Typed, Typed', Watched, Requests
    PROVE  Watched' /\ News
<1>0. PrintStep
  BY RequestKinds, PrintSteps DEF Typed
<1>1. CASE SelectSdFile
  <2>1. /\ UNCHANGED <<conn, lock, pollers, cur, autoConnect, told>>
        /\ phase \notin Watching /\ phase' \in {"UPLOAD_VERIFIED", "DISCONNECTED"}
    BY <1>1 DEF SelectSdFile, threads, ghosts
  <2>2. ~Watches(1)
    BY <2>1, NoneWatches DEF Watched, Watching
  <2>3. WatchInv'
    BY <2>1, <2>2 DEF Watched, WatchInv, Watching, Watches
  <2>4. Calm
    BY <2>1 DEF Calm, Same, Holds, Done, Follows, Watches, Sees
  <2> QED BY <1>0, <2>3, <2>4, CalmWatched
<1>2. CASE StartPrint
  <2>1. /\ UNCHANGED <<phase, pollers, cur, autoConnect, told>> /\ phase \notin Watching
        /\ lock' \in {"started", "start failed"} /\ Tracking
        /\ BeginPrint \/ UNCHANGED board
    BY <1>2 DEF StartPrint, threads, boardVars
  <2>2. ~Watches(1) /\ ~Follows
    BY <2>1, NoneWatches DEF Watched, Watching
  <2>3. ~Watches(1)' /\ ~Follows' /\ (Holds' => Holds)
    BY <2>1, <2>2 DEF Watches, Follows, Sees, Holds, Done
  <2>4. WatchInv'
    BY <2>1, <2>3 DEF Watched, WatchInv, Watching
  <2>5. conn'.finishedSeen = conn.finishedSeen /\ conn'.bootIdSeen = conn.bootIdSeen
    BY <2>1 DEF Tracking, Typed, ServiceTyped, ShownTyped, ConnObject
  <2>6. board'.boot = board.boot /\ board'.finished = board.finished
    BY <2>1, BeginsFields DEF BeginPrint, Typed
  <2>7. SeenInv' /\ (Unread' => Unread)
    BY <2>5, <2>6 DEF Watched, SeenInv, Unread
  <2>8. Blind
    BY <2>1, <2>3, <2>7 DEF Blind
  <2> QED BY <1>0, <2>4, <2>7, <2>8, BlindWatched
<1>3. CASE StopPrint
  <2>1. /\ UNCHANGED <<phase, pollers, cur, autoConnect, told>>
        /\ lock' = lock \/ lock' = "stopped"
        /\ conn' = [conn EXCEPT !.stopping = TRUE]
    BY <1>3 DEF StopPrint, threads, ghosts
  <2>2. WatchInv'
    BY <2>1 DEF Watched, WatchInv, Watches
  <2>3. Same
    BY <2>1 DEF Same, Typed, ServiceTyped, ShownTyped, ConnObject
  <2>4. Calm
    BY <2>1, <2>3 DEF Calm, Holds, Done, Follows, Watches, Sees
  <2> QED BY <1>0, <2>2, <2>4, CalmWatched
<1>4. CASE PausePrint \/ ResumePrint
  BY <1>4 DEF PausePrint, ResumePrint, Only, OneWatcher
<1>5. CASE RecoverPrint
  <2>1. UNCHANGED <<phase, pollers, cur, autoConnect, told>> /\ phase \notin Watching
    BY <1>5 DEF RecoverPrint, threads, ghosts
  <2>2. CASE RecoverCall
    BY <1>0, <2>1, <2>2, RecoverWatched
  <2>3. CASE Opens /\ ((SeenOpen /\ lock' = "recovering") \/ UNCHANGED <<conn, lock>>)
    <3>1. board'.boot = board.boot /\ board'.finished = board.finished
      BY <2>3 DEF Opens, Typed, BoardTyped, BoardObject
    <3>2. ~Watches(1) /\ ~Follows
      BY <2>1, NoneWatches DEF Watched, Watching
    <3>3. ~Watches(1)' /\ ~Follows' /\ (Holds' => Holds)
      BY <2>1, <3>2 DEF Watches, Follows, Sees, Holds, Done
    <3>4. WatchInv'
      BY <2>1, <2>3, <3>3 DEF Watched, WatchInv, Watching
    <3>5. CASE SeenOpen
      <4>1. conn'.bootIdSeen = board.boot /\ conn'.finishedSeen = board.finished
        BY <3>5 DEF SeenOpen, Seen, Typed, ServiceTyped, ShownTyped, ConnObject
      <4>2. SeenInv' /\ ~Unread'
        BY <3>1, <4>1, SeenAnew
      <4>3. Blind
        BY <2>1, <3>3, <4>2 DEF Blind
      <4> QED BY <1>0, <3>4, <4>2, <4>3, BlindWatched
    <3>6. CASE UNCHANGED conn
      <4>1. Calm
        BY <2>1, <3>3, <3>6 DEF Calm, Same
      <4> QED BY <1>0, <3>4, <4>1, CalmWatched
    <3> QED BY <2>3, <3>5, <3>6
  <2> QED BY <1>5, <2>2, <2>3 DEF RecoverPrint
<1>6. CASE ConnectPrinter
  <2>1. ConnectCalls /\ Only(Connecting) /\ UNCHANGED <<pollers, cur, told, autoConnect>>
    BY <1>6 DEF ConnectPrinter, threads, ghosts
  <2>2. phase # "PRINTING" /\ autoConnect' = "sleeps"
    BY <2>1 DEF Only, Connecting, Watching, OneWatcher, Watched, WatchInv
  <2> QED BY <1>0, <2>1, <2>2, ConnectWatched
<1>7. CASE ConnectPrinterFails
  <2>1. ConnectFailed("ERROR") /\ Only(Connecting) /\ UNCHANGED autoConnect
    BY <1>7 DEF ConnectPrinterFails
  <2>2. phase # "PRINTING" /\ autoConnect' = "sleeps"
    BY <2>1 DEF Only, Connecting, Watching, OneWatcher, Watched, WatchInv
  <2> QED BY <1>0, <2>1, <2>2, ConnectFailsWatched
<1>8. CASE DisconnectPrinter
  <2>1. DisconnectCalls /\ UNCHANGED <<lock, autoConnect, told>>
    BY <1>8 DEF DisconnectPrinter, Disconnects, ghosts
  <2> QED BY <1>0, <2>1, DisconnectWatched
<1>9. CASE TapoPlugOff
  <2>1. UNCHANGED <<conn, phase, lock, pollers, cur, autoConnect, told>>
    BY <1>9 DEF TapoPlugOff, threads
  <2> QED BY <1>0, <2>1, AsideWatched
<1> QED
  BY <1>1, <1>2, <1>3, <1>4, <1>5, <1>6, <1>7, <1>8, <1>9 DEF Requests

LEMMA CompletionsWatched ==
    ASSUME OneWatcher, LeftInv, Typed, Typed', Watched, Completions
    PROVE  Watched' /\ News
<1>7. CASE RecoverConnected
  <2>1. /\ UNCHANGED <<phase, pollers, cur, autoConnect, told>> /\ RecoverCall /\ lock = "recovering"
    BY <1>7 DEF RecoverConnected, threads, ghosts
  <2>2. PrintStep /\ phase \notin Watching
    BY <1>7, <2>1, RequestKinds, PrintSteps DEF Typed, Watched, WatchInv
  <2> QED BY <2>1, <2>2, RecoverWatched
<1> SUFFICES ASSUME ~RecoverConnected PROVE Watched' /\ News
  BY <1>7
<1>0. /\ UNCHANGED <<board, print, fate, autoConnect, told>> /\ PrintStep /\ lock' = "free"
  <2>1. UNCHANGED <<board, print, fate, autoConnect, told>> /\ lock' = "free"
    BY DEF Completions, PrintStarted, StartFailed, PrintStopped, PausedOrResumed, PrintRecovered, Attach, AttachFails,
           boardVars, ghosts, threads
  <2> QED BY <2>1, RestSteps DEF Rests
<1>1. CASE PrintStarted \/ PrintRecovered
  <2>1. StartPoller /\ phase' = "PRINTING" /\ conn' = conn
    BY <1>1 DEF PrintStarted, PrintRecovered
  <2>2. /\ cur' = 1 /\ pollers'[1].at = "sleeps" /\ ~pollers'[1].stop /\ pollers'[1].got = "none"
        /\ ~Holds' /\ ~Follows'
    BY <2>1, StartsWatch DEF Typed
  <2>3. WatchInv'
    BY <1>0, <2>1, <2>2 DEF Watched, WatchInv
  <2>4. Calm
    BY <1>0, <2>1, <2>2 DEF Calm, Same
  <2> QED BY <1>0, <2>3, <2>4, CalmWatched
<1>2. CASE StartFailed
  <2>1. UNCHANGED <<conn, pollers, cur>> /\ phase' = "ERROR" /\ lock = "start failed"
    BY <1>2 DEF StartFailed, threads
  <2>2. ~Watches(1)
    BY <2>1, NoneWatches DEF Watched, WatchInv, Watching
  <2>3. WatchInv'
    BY <1>0, <2>1, <2>2 DEF Watched, WatchInv, Watches
  <2>4. Calm
    BY <1>0, <2>1 DEF Calm, Same, Holds, Done, Follows, Watches, Sees
  <2> QED BY <1>0, <2>3, <2>4, CalmWatched
<1>3. CASE PrintStopped
  <2>1. StopPoller /\ phase' = "IDLE" /\ conn' = conn
    BY <1>3 DEF PrintStopped
  <2>2. ~Watches(1)' /\ pollers'[1].at # "sleeps" /\ (Holds' => Holds)
    BY <2>1, StopsWatch DEF Typed, Watched
  <2>3. WatchInv'
    BY <1>0, <2>1, <2>2 DEF Watched, WatchInv
  <2>4. Calm
    BY <1>0, <2>1, <2>2 DEF Calm, Same, Follows
  <2> QED BY <1>0, <2>3, <2>4, CalmWatched
<1>4. CASE PausedOrResumed
  BY <1>4 DEF PausedOrResumed, Watched, WatchInv
<1>5. CASE Attach
  <2>1. lock = "connected" /\ conn' = Progress.conn
    BY <1>5 DEF Attach
  <2>2. SeenInv' /\ (Unread' => Unread)
    BY <1>0, <2>1, ProgressSees DEF Watched
  <2>3. ~Watches(1) /\ ~Follows
    BY <2>1, NoneWatches DEF Watched, WatchInv, Watching
  <2>4. CASE phase' = "PRINTING" /\ StartPoller
    <3>1. /\ cur' = 1 /\ pollers'[1].at = "sleeps" /\ ~pollers'[1].stop /\ pollers'[1].got = "none"
          /\ ~Holds' /\ ~Follows'
      BY <2>4, StartsWatch DEF Typed
    <3>2. WatchInv'
      BY <1>0, <2>4, <3>1 DEF Watched, WatchInv
    <3>3. Blind
      BY <1>0, <2>2, <3>1 DEF Blind
    <3> QED BY <1>0, <2>2, <3>2, <3>3, BlindWatched
  <2>5. CASE UNCHANGED <<pollers, cur>>
    <3>1. ~Watches(1)' /\ ~Follows' /\ (Holds' => Holds)
      BY <2>3, <2>5 DEF Watches, Follows, Sees, Holds, Done
    <3>2. WatchInv'
      BY <1>0, <2>5, <3>1 DEF Watched, WatchInv
    <3>3. Blind
      BY <1>0, <2>2, <3>1 DEF Blind
    <3> QED BY <1>0, <2>2, <3>2, <3>3, BlindWatched
  <2> QED BY <1>5, <2>4, <2>5 DEF Attach
<1>6. CASE AttachFails
  <2>1. UNCHANGED <<pollers, cur>> /\ phase' = "DISCONNECTED" /\ conn' = [conn EXCEPT !.open = FALSE] /\ lock = "connected"
    BY <1>6 DEF AttachFails, threads
  <2>2. ~Watches(1)
    BY <2>1, NoneWatches DEF Watched, WatchInv, Watching
  <2>3. WatchInv'
    BY <1>0, <2>1, <2>2 DEF Watched, WatchInv, Watches
  <2>4. Same
    BY <2>1 DEF Same, Typed, ServiceTyped, ShownTyped, ConnObject
  <2>5. Calm
    BY <1>0, <2>1, <2>4 DEF Calm, Holds, Done, Follows, Watches, Sees
  <2> QED BY <1>0, <2>3, <2>5, CalmWatched
<1> QED
  BY <1>1, <1>2, <1>3, <1>4, <1>5, <1>6 DEF Completions

LEMMA WatchedNext ==
    ASSUME OneWatcher, Typed, Typed', LeftInv, Watched, [Next]_vars
    PROVE  Watched' /\ News
<1>1. CASE Poller
  <2>1. PollAsks(1) \/ PollForgets(1) \/ PollGoesOn(1) \/ PollDone(1) \/ PollError(1)
    BY <1>1, TheOne DEF Poller, Typed
  <2>2. CASE PollAsks(1)
    BY <2>2, AskKeeps DEF Watched
  <2>3. CASE ~PollAsks(1)
    BY <2>1, <2>3, PollKeeps DEF Watched
  <2> QED BY <2>2, <2>3
<1>2. CASE UNCHANGED vars
  <2>1. UNCHANGED <<conn, phase, lock, pollers, cur, autoConnect, told>> /\ Rests
    BY <1>2 DEF vars, boardVars, threads, ghosts, Rests
  <2> QED BY <2>1, RestSteps, AsideWatched
<1> QED
  BY <1>1, <1>2, BoardStepsWatched, RequestsWatched, CompletionsWatched, PollingsWatched DEF Next

\* Prints are started by requests and by other clients only.
LEMMA PrintStays ==
    ASSUME [Next]_vars, ~StartPrint, ~OtherClient
    PROVE  UNCHANGED <<print, behind>>
<1>1. CASE BoardSteps
  BY <1>1 DEF BoardSteps, BoardMoves, BoardReadsAll, BoardFinishes, BoardFails, Rehearse, BoardConnects, BoardResumes, Resumes,
              BoardCrashes, PlugButton, PlugOff, PlugOn, ghosts
<1>2. CASE Poller \/ UNCHANGED vars
  BY <1>2 DEF Poller, PollAsks, PollForgets, PollGoesOn, PollDone, PollError, vars, boardVars, ghosts
<1>3. CASE Requests
  BY <1>3 DEF Requests, SelectSdFile, StopPrint, Stops, PausePrint, ResumePrint, RecoverPrint, RecoverCall, Resumes, ConnectPrinter,
              ConnectPrinterFails, ConnectFailed, DisconnectPrinter, TapoPlugOff, PlugOff, boardVars, ghosts
<1>4. CASE Completions
  BY <1>4 DEF Completions, PrintStarted, StartFailed, PrintStopped, PausedOrResumed, RecoverConnected, RecoverCall, Resumes,
              PrintRecovered, Attach, AttachFails, boardVars, ghosts
<1>5. CASE Pollings
  BY <1>5 DEF Pollings, TempPolls, CheckShutoff, ShutoffSwitches, ShutoffNotes, TapoNotes, TapoDisconnects, PlugOff, PlugPolled,
              CheckBoard, AutoConnectLooks, AutoConnects, AutoConnectFails, ConnectFailed, FailsForgotten, NoticeLost, boardVars, ghosts
<1> QED
  BY <1>1, <1>2, <1>3, <1>4, <1>5 DEF Next

\* What arms the power-off.
LEMMA ArmedBy ==
    ASSUME OneWatcher, Typed, [Next]_vars, autoShutoffArmed'
    PROVE  autoShutoffArmed \/ lock = "stopped" \/ Holds
<1>1. CASE BoardSteps
  BY <1>1 DEF BoardSteps, BoardMoves, BoardReadsAll, BoardFinishes, BoardFails, OtherClient, Rehearse, BoardConnects, BoardResumes,
              BoardCrashes, PlugButton, flags
<1>2. CASE Poller
  <2>1. PollAsks(1) \/ PollForgets(1) \/ PollGoesOn(1) \/ PollDone(1) \/ PollError(1)
    BY <1>2, TheOne DEF Poller, Typed
  <2>2. CASE PollDone(1)
    BY <2>2 DEF PollDone, Holds
  <2>3. CASE ~PollDone(1)
    BY <2>1, <2>3 DEF PollAsks, PollForgets, PollGoesOn, PollError, flags
  <2> QED BY <2>2, <2>3
<1>3. CASE Requests
  BY <1>3 DEF Requests, SelectSdFile, StartPrint, StopPrint, PausePrint, ResumePrint, RecoverPrint, ConnectPrinter,
              ConnectPrinterFails, ConnectFailed, DisconnectPrinter, TapoPlugOff, flags
<1>4. CASE Completions
  BY <1>4 DEF Completions, PrintStarted, StartFailed, PrintStopped, PausedOrResumed, RecoverConnected, PrintRecovered, Attach,
              AttachFails, flags
<1>5. CASE Pollings
  BY <1>5 DEF Pollings, TempPolls, CheckShutoff, ShutoffSwitches, ShutoffNotes, TapoNotes, TapoDisconnects, PlugPolled, NotePlug,
              CheckBoard, AutoConnectLooks, AutoConnects, AutoConnectFails, ConnectFailed, FailsForgotten, NoticeLost, flags
<1>6. CASE UNCHANGED vars
  BY <1>6 DEF vars, flags
<1> QED
  BY <1>1, <1>2, <1>3, <1>4, <1>5, <1>6 DEF Next

LEMMA StoppedBy ==
    ASSUME [Next]_vars, lock' = "stopped"
    PROVE  lock = "stopped" \/ (StopPrint /\ Stops)
<1>1. CASE BoardSteps \/ Poller \/ UNCHANGED vars
  BY <1>1 DEF BoardSteps, BoardMoves, BoardReadsAll, BoardFinishes, BoardFails, OtherClient, Rehearse, BoardConnects, BoardResumes,
              BoardCrashes, PlugButton, Poller, PollAsks, PollForgets, PollGoesOn, PollDone, PollError, vars
<1>2. CASE StopPrint
  BY <1>2 DEF StopPrint
<1>3. CASE Requests /\ ~StopPrint
  BY <1>3 DEF Requests, SelectSdFile, StartPrint, PausePrint, ResumePrint, RecoverPrint, RecoverCall, ConnectPrinter, ConnectCalls,
              ConnectPrinterFails, ConnectFailed, DisconnectPrinter, TapoPlugOff
<1>4. CASE Completions
  BY <1>4 DEF Completions, PrintStarted, StartFailed, PrintStopped, PausedOrResumed, RecoverConnected, RecoverCall, PrintRecovered,
              Attach, AttachFails
<1>5. CASE Pollings
  BY <1>5 DEF Pollings, TempPolls, CheckShutoff, ShutoffSwitches, ShutoffNotes, TapoNotes, TapoDisconnects, PlugPolled, CheckBoard,
              AutoConnectLooks, AutoConnects, ConnectCalls, AutoConnectFails, ConnectFailed, FailsForgotten, NoticeLost
<1> QED
  BY <1>1, <1>2, <1>3, <1>4, <1>5 DEF Next

\* A START that has been answered is followed by a new watch.
LEMMA StartedBy ==
    ASSUME OneWatcher, Typed, [Next]_vars, lock = "started"
    PROVE  lock' = "started" \/ (~autoShutoffArmed' /\ ~Holds')
<1>1. CASE PrintStarted
  BY <1>1, StartsWatch DEF PrintStarted, Typed
<1>2. CASE BoardSteps \/ Poller \/ UNCHANGED vars
  BY <1>2 DEF BoardSteps, BoardMoves, BoardReadsAll, BoardFinishes, BoardFails, OtherClient, Rehearse, BoardConnects, BoardResumes,
              BoardCrashes, PlugButton, Poller, PollAsks, PollForgets, PollGoesOn, PollDone, PollError, vars
<1>3. CASE Requests
  BY <1>3 DEF Requests, SelectSdFile, StartPrint, StopPrint, PausePrint, ResumePrint, RecoverPrint, ConnectPrinter,
              ConnectPrinterFails, DisconnectPrinter, TapoPlugOff, Only, Free
<1>4. CASE Completions /\ ~PrintStarted
  BY <1>4 DEF Completions, StartFailed, PrintStopped, PausedOrResumed, RecoverConnected, PrintRecovered, Attach, AttachFails
<1>5. CASE Pollings
  BY <1>5 DEF Pollings, TempPolls, CheckShutoff, ShutoffSwitches, ShutoffNotes, TapoNotes, TapoDisconnects, PlugPolled, CheckBoard,
              AutoConnectLooks, AutoConnects, AutoTries, Free, AutoConnectFails, FailsForgotten, NoticeLost
<1> QED
  BY <1>1, <1>2, <1>3, <1>4, <1>5 DEF Next

\* The first of these prints began in front of the phone's eyes, with no end left unread: what it hears next is of this one.
LEMMA ArmedStarts ==
    ASSUME OneWatcher, Typed, Typed', Watched, ArmedInv, News, PrintStep, BeginPrint, StartPrint \/ OtherClient
    PROVE  ArmedInv'
<1>0. Busy(board)' /\ board'.boot = board.boot /\ board'.finished = board.finished
  <2>1. board' = Begins(board)
    BY DEF BeginPrint
  <2> QED BY <2>1, BeginsFields DEF Busy, Typed
<1>1. CASE behind'
  BY <1>0, <1>1 DEF ArmedInv, Past, Over
<1>2. CASE ~behind'
  <2>1. StartPrint
    BY <1>2 DEF OtherClient, Stops, BeginPrint, Busy
  <2>a. board.state = "IDLE" /\ Tracking /\ phase \notin Watching /\ UNCHANGED <<phase, pollers>>
    BY <2>1 DEF StartPrint, BeginPrint, threads
  <2>b. \/ behind' = Unread /\ lock' = "started"
        \/ behind' = TRUE
    BY <2>1, <2>a, Zenon DEF StartPrint
  <2>2. behind' = Unread /\ lock' = "started" /\ Tracking /\ phase \notin Watching /\ UNCHANGED <<phase, pollers>>
    BY <1>2, <2>a, <2>b, Zenon
  <2>3. ~Unread
    BY <1>2, <2>2, Zenon
  <2>4. conn'.finishedSeen = conn.finishedSeen /\ conn'.bootIdSeen = conn.bootIdSeen
    BY <2>2 DEF Tracking, Typed, ServiceTyped, ShownTyped, ConnObject
  <2>5. ~Unread'
    BY <1>0, <2>3, <2>4 DEF Unread
  <2>6. ~Follows
    BY <2>2, NoneWatches DEF Watched, Watching
  <2>7. ~Follows'
    BY <2>2, <2>6 DEF Follows, Watches, Sees
  <2> QED BY <1>0, <2>2, <2>5, <2>7 DEF ArmedInv, Past
<1> QED
  BY <1>1, <1>2

LEMMA ArmedKept ==
    ASSUME OneWatcher, LeftInv, Typed, Typed', ArmedInv, News, PrintStep, [Next]_vars, UNCHANGED <<print, behind>>
    PROVE  ArmedInv'
<1>0. /\ Ended \subseteq Ended'
      /\ Finishes \/ Ends => print \in Ended'
  BY EndedGrows
<1>1. Over => Over'
  BY <1>0 DEF Over
<1>2. Past => Past' \/ (~autoShutoffArmed' /\ ~Holds')
  BY <1>1, StartedBy DEF Past
<1>3. Unread' => Over'
  <2>1. Unread' => Unread \/ print \in Ended'
    BY DEF News
  <2> QED BY <1>1, <2>1 DEF ArmedInv, Over
<1>4. Follows' /\ ~conn'.tracking => Over'
  <2>1. Follows' /\ ~conn'.tracking => (Follows /\ ~conn.tracking) \/ Unread
    BY DEF News
  <2> QED BY <1>1, <2>1 DEF ArmedInv
<1>5. lock' = "stopped" => Over'
  <2> SUFFICES ASSUME lock' = "stopped" PROVE Over'
    OBVIOUS
  <2>1. lock = "stopped" \/ (StopPrint /\ Stops)
    BY StoppedBy
  <2>2. CASE Stops
    <3>1. RealPrint /\ fate' = [fate EXCEPT ![print] = "stopped"]
      BY <2>2 DEF Stops, Fate, RealPrint, LeftInv
    <3>2. print \in Prints
      BY <3>1 DEF Typed, BoardInv
    <3> QED BY <3>1, <3>2 DEF Over, Ended, Typed, BoardTyped
  <2> QED BY <1>1, <2>1, <2>2 DEF ArmedInv
<1>6. Holds' => Past \/ Over'
  <2>1. Holds' => Holds \/ Unread \/ Owed
    BY DEF News
  <2>2. Owed => Holds \/ (Follows /\ ~conn.tracking) \/ (board.on /\ board.lastEnd = "stopped" /\ ~Busy(board))
    BY DEF Owed, SameBoot
  <2>3. Owed => Past
    BY <2>2 DEF ArmedInv, Past, Over
  <2> QED BY <2>1, <2>3 DEF ArmedInv, Past
<1>7. autoShutoffArmed' => Past
  <2> SUFFICES ASSUME autoShutoffArmed' PROVE Past
    OBVIOUS
  <2>1. autoShutoffArmed \/ lock = "stopped" \/ Holds
    BY ArmedBy
  <2> QED BY <2>1 DEF ArmedInv, Past
<1>8. board'.on /\ board'.lastEnd = "stopped" => Busy(board)' \/ print' \in Ended'
  BY StoppedKept DEF ArmedInv
<1>9. autoShutoffArmed' \/ Holds' => Past'
  BY <1>2, <1>6, <1>7 DEF Past
<1> QED
  BY <1>3, <1>4, <1>5, <1>8, <1>9 DEF ArmedInv

LEMMA ArmedNext ==
    ASSUME OneWatcher, Typed, Typed', LeftInv, Watched, ArmedInv, News, [Next]_vars
    PROVE  ArmedInv'
<1>1. PrintStep
  BY StepKinds, PrintSteps DEF Typed
<1>2. CASE BeginPrint /\ (StartPrint \/ OtherClient)
  BY <1>1, <1>2, ArmedStarts
<1>3. CASE ~(BeginPrint /\ (StartPrint \/ OtherClient))
  <2>1. UNCHANGED <<print, behind>>
    <3>1. CASE StartPrint
      BY <1>3, <3>1 DEF StartPrint, boardVars
    <3>2. CASE OtherClient
      BY <1>3, <3>2 DEF OtherClient, Stops
    <3> QED BY <3>1, <3>2, PrintStays
  <2> QED BY <1>1, <2>1, ArmedKept
<1> QED
  BY <1>2, <1>3

LEMMA CutArmed ==
    ASSUME Typed, ArmedInv, [Next]_vars, tempPoller.at = "checks", tempPoller'.at = "switches"
    PROVE  Past
<1>1. autoShutoffArmed
  <2>0. tempPoller \in TempObject
    BY DEF Typed, ServiceTyped, ThreadsTyped
  <2>1. CASE BoardSteps \/ Poller \/ UNCHANGED vars
    <3>1. tempPoller' = tempPoller
      BY <2>1 DEF BoardSteps, BoardMoves, BoardReadsAll, BoardFinishes, BoardFails, OtherClient, Rehearse, BoardConnects,
                  BoardResumes, BoardCrashes, PlugButton, Poller, PollAsks, PollForgets, PollGoesOn, PollDone, PollError,
                  vars, threads
    <3> QED BY <3>1
  <2>2. CASE CheckShutoff
    <3>1. autoShutoffArmed \/ TempEnds
      BY <2>2, Zenon DEF CheckShutoff
    <3>2. TempEnds => tempPoller'.at # "switches"
      BY DEF TempEnds
    <3> QED BY <3>1, <3>2
  <2>3. CASE ShutoffSwitches \/ ShutoffNotes \/ TempPolls
    BY <2>3 DEF ShutoffSwitches, ShutoffNotes, TempPolls
  <2>4. CASE DisconnectCalls
    <3>1. tempPoller' = [tempPoller EXCEPT !.stop = tempPoller.at # "off"]
      BY <2>4 DEF DisconnectCalls, StopTempPoller
    <3>2. tempPoller'.at = tempPoller.at
      BY <2>0, <3>1 DEF TempObject
    <3> QED BY <3>2
  <2>5. CASE Attach
    <3>1. tempPoller'.at \in {"sleeps", tempPoller.at}
      BY <2>0, <2>5 DEF Attach, TempObject
    <3> QED BY <3>1
  <2>6. CASE (Requests \/ Completions \/ Pollings) /\ ~CheckShutoff /\ ~ShutoffSwitches /\ ~ShutoffNotes /\ ~TempPolls /\ ~DisconnectCalls /\ ~Attach
    <3>1. tempPoller' = tempPoller
      <4>1. CASE Requests
        BY <2>6, <4>1 DEF Requests, SelectSdFile, StartPrint, StopPrint, PausePrint, ResumePrint, RecoverPrint, ConnectPrinter,
                    ConnectPrinterFails, ConnectFailed, DisconnectPrinter, Disconnects, TapoPlugOff, threads
      <4>2. CASE Completions
        BY <2>6, <4>2 DEF Completions, PrintStarted, StartFailed, PrintStopped, PausedOrResumed, RecoverConnected, PrintRecovered,
                    AttachFails, threads
      <4>3. CASE Pollings
        BY <2>6, <4>3 DEF Pollings, PlugPolled, TapoNotes, TapoDisconnects, Disconnects, CheckBoard, AutoConnectLooks, AutoConnects, AutoConnectFails, ConnectFailed,
                    FailsForgotten, NoticeLost, threads
      <4> QED BY <2>6, <4>1, <4>2, <4>3
    <3> QED BY <3>1
  <2> QED BY <2>1, <2>2, <2>3, <2>4, <2>5, <2>6 DEF Next
<1> QED
  BY <1>1 DEF ArmedInv, Past

\* What holds of the one watcher, all together.
PhoneInv == Typed /\ LeftInv /\ Watched /\ ArmedInv

LEMMA PhoneBegins == ASSUME OneWatcher, Init PROVE PhoneInv
<1>1. Typed
  BY TypedInit DEF Typed
<1>2. /\ pollers[1] = [at |-> "ended", stop |-> FALSE, got |-> "none", saw |-> FALSE]
      /\ conn = [open |-> FALSE, tracking |-> FALSE, stopping |-> FALSE, finishedSeen |-> 0, bootIdSeen |-> 1]
      /\ board.on /\ board.boot = 1 /\ board.state = "IDLE" /\ board.finished = 0 /\ board.lastEnd = "none" /\ ~board.dry
      /\ phase = "DISCONNECTED" /\ lock = "free" /\ autoConnect = "sleeps" /\ cur = 0 /\ told = 0 /\ ~autoShutoffArmed
  BY <1>1, TheOne DEF Init, NoPoller, Typed
<1>3. ~Watches(1) /\ ~Holds /\ ~Follows /\ pollers[1].at # "sleeps"
  BY <1>2 DEF Watches, Holds, Follows
<1>4. LeftInv
  BY <1>2 DEF LeftInv
<1>5. WatchInv /\ SeenInv /\ SawInv
  BY <1>2, <1>3 DEF WatchInv, SeenInv, SawInv, Watching
<1>6. CreditInv
  <2>1. ~Unread /\ ~Owed
    BY <1>2, <1>3 DEF Unread, Owed
  <2>2. Ended = {}
    BY DEF Init, Ended
  <2>3. Cardinality(Ended) = 0
    BY <2>2, FS_EmptySet
  <2> QED BY <1>2, <2>1, <2>3 DEF CreditInv, One
<1>7. ArmedInv
  BY <1>2, <1>3 DEF ArmedInv, Unread
<1> QED
  BY <1>1, <1>4, <1>5, <1>6, <1>7 DEF PhoneInv, Watched

LEMMA PhoneKept == ASSUME OneWatcher, PhoneInv, [Next]_vars PROVE PhoneInv'
<1>1. Typed'
  BY TypedNext DEF PhoneInv, Typed
<1>2. LeftInv'
  BY StepKinds, PrintSteps, LeftInvNext DEF PhoneInv, Typed
<1>3. Watched' /\ News
  BY <1>1, WatchedNext DEF PhoneInv
<1>4. ArmedInv'
  BY <1>1, <1>3, ArmedNext DEF PhoneInv
<1> QED
  BY <1>1, <1>2, <1>3, <1>4 DEF PhoneInv

\* pollOnce and pollProgress: the user is told of a successful print at most as often as prints came to their end,
\* finished or stopped, whatever the number of prints, boots, switchings of the plug, lost answers and other clients.
THEOREM SuccessHasItsEndCorrect ==
    ASSUME OneWatcher
    PROVE  Spec => []SuccessHasItsEnd
<1>1. Init => PhoneInv
  BY PhoneBegins
<1>2. PhoneInv /\ [Next]_vars => PhoneInv'
  BY PhoneKept
<1>3. PhoneInv => SuccessHasItsEnd
  <2> SUFFICES ASSUME PhoneInv PROVE SuccessHasItsEnd
    OBVIOUS
  <2>1. told + One(Unread) + One(Owed) <= Cardinality(Ended) /\ One(Unread) \in {0, 1} /\ One(Owed) \in {0, 1}
    BY DEF PhoneInv, Watched, CreditInv, One
  <2>2. told \in Nat
    BY SeenNumbers DEF PhoneInv
  <2>3. Cardinality(Ended) \in Nat
    <3>1. Ended \in SUBSET Prints
      BY DEF Ended
    <3> QED BY <3>1, CountSmall
  <2>4. told <= Cardinality(Ended)
    BY ONLY <2>1, <2>2, <2>3
  <2> QED BY <2>4 DEF SuccessHasItsEnd
<1> QED
  BY <1>1, <1>2, <1>3, PTL DEF Spec

\* maybeAutoShutoff: the automatic power-off is decided on only when the newest print has come to its end, finished or
\* stopped, or has just been started, or began behind the phone's back: no error, no restart of the board and no lost
\* answer takes the board the power it needs to continue a print, or cuts one under way, however many ended before it.
THEOREM CutsHaveTheirEndCorrect ==
    ASSUME OneWatcher
    PROVE  Spec => CutsHaveTheirEnd
<1>1. Init => PhoneInv
  BY PhoneBegins
<1>2. PhoneInv /\ [Next]_vars => PhoneInv'
  BY PhoneKept
<1>3. PhoneInv /\ [Next]_vars => [Cuts => print \in Ended \/ lock = "started" \/ behind]_vars
  BY CutArmed DEF PhoneInv, Cuts, Past, Over
<1>4. Spec => [][Cuts => print \in Ended \/ lock = "started" \/ behind]_vars
  BY <1>1, <1>2, <1>3, PTL DEF Spec
<1> QED
  BY <1>4 DEF CutsHaveTheirEnd
=============================================================================

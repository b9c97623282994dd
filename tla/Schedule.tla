------------------------------ MODULE Schedule ------------------------------
(***************************************************************************)
(* The scheduled print (ScheduledPrintStore.java and its use in            *)
(* PrinterService.java): one job, its file on the board or still on the    *)
(* phone, changed by the dashboard's requests while                        *)
(* ScheduledPrintPollerThread takes it through plug, upload, connecting    *)
(* and start.  Each operation of the store is a monitor's and saves the    *)
(* job; the poller works on the Job object it got and compares it with the *)
(* stored one only here and there.  The app may be killed at any step.     *)
(***************************************************************************)
EXTENDS Integers

CONSTANTS
    MaxJobs,       \* bound: Job objects made
    MaxTime,       \* bound: the clock
    MaxRestarts,   \* bound: kills of the app
    Late           \* the dashboard may change the job between the poller's last look at it and what it does on it

LEAD  == 1         \* uploadLeadMs
RETRY == 1         \* SCHEDULED_PRINT_MAX_RETRY_MS
Files == 1..2
Times == 1..MaxTime - RETRY - 1   \* bound: for what times the user schedules

ASSUME ScheduleAssumption ==
    MaxJobs \in Nat /\ MaxTime \in Nat /\ MaxRestarts \in Nat /\ Late \in BOOLEAN

VARIABLES
    job, disk,     \* the Job object of the store, and the saved one
    objects,       \* Job objects made so far
    local,         \* file kept on the phone as scheduled_upload.gcode, 0 for none
    poller,        \* where ScheduledPrintPollerThread is, and the object it works on
    client,        \* the dashboard's request under way
    busy,          \* a print or an upload runs
    lock,          \* commandLock: "free", "poller" or "client"
    now,
    asked,         \* what the user has asked for: the file and the time, as far as the requests have returned
    starts,        \* starts of every object since the app runs
    restarts

vars == <<job, disk, objects, local, poller, client, busy, lock, now, asked, starts, restarts>>

NoJob == [id |-> 0, file |-> 0, at |-> 0, status |-> "none", local |-> FALSE]
Nothing == [file |-> 0, at |-> 0]
Sleeps == [at |-> "sleeps", job |-> NoJob, file |-> 0]
NoRequest == [op |-> "none", file |-> 0, at |-> 0]
NeedsUpload(j) == j.local
Pending(j) == j.status = "PENDING"

-----------------------------------------------------------------------------
(* ScheduledPrintStore *)

Save(j) == job' = j /\ disk' = j

\* Every change makes a new object.
Changed(j) == objects < MaxJobs /\ objects' = objects + 1 /\ Save([j EXCEPT !.id = objects + 1])
Change(j) == IF job = NoJob THEN UNCHANGED <<job, disk, objects>> ELSE Changed(j)

Reschedule(t)   == Change([job EXCEPT !.at = t, !.status = "PENDING"])
MarkUploaded(f) == Change([job EXCEPT !.file = f, !.local = FALSE])
MarkFailed      == Change([job EXCEPT !.status = "FAILED"])
Clear           == Save(NoJob) /\ UNCHANGED objects

-----------------------------------------------------------------------------
(* Requests of the dashboard; they do not take commandLock *)

\* Where the poller has looked at the job and now acts on what it saw.
Decided == {"fails", "sent", "marked", "checked", "started"}
MayChange == Late \/ poller.at \notin Decided
Requesting == UNCHANGED <<poller, busy, lock, now, starts, restarts>>

\* setScheduledPrint and cancelScheduledPrint first delete a file kept on the phone.
Asks(op, f, t) ==
    /\ client = NoRequest /\ MayChange
    /\ client' = [op |-> op, file |-> f, at |-> t]
    /\ local' = IF job.local THEN 0 ELSE local
    /\ UNCHANGED <<job, disk, objects, asked>> /\ Requesting

\* setScheduledPrintFromPhone: the received file takes the place of the one kept before.
KeepsFile(f, t) ==
    /\ client = NoRequest /\ MayChange
    /\ client' = [op |-> "set local", file |-> f, at |-> t]
    /\ local' = f
    /\ UNCHANGED <<job, disk, objects, asked>> /\ Requesting

SetsJob ==
    /\ client.op \in {"set", "set local"} /\ MayChange
    /\ Changed([file |-> client.file, at |-> client.at, status |-> "PENDING", local |-> client.op = "set local", id |-> 0])
    /\ asked' = [file |-> client.file, at |-> client.at]
    /\ client' = NoRequest
    /\ UNCHANGED local /\ Requesting

ClearsJob ==
    /\ client.op = "cancel" /\ MayChange
    /\ Clear
    /\ asked' = Nothing
    /\ client' = NoRequest
    /\ UNCHANGED local /\ Requesting

ReschedulesJob(t) ==
    /\ client = NoRequest /\ MayChange /\ job # NoJob
    /\ Reschedule(t)
    /\ asked' = [asked EXCEPT !.at = t]
    /\ UNCHANGED <<local, client>> /\ Requesting

\* A print started or an upload made by hand; it holds the lock only while it is started.
ByHand ==
    /\ lock = "free" /\ ~busy
    /\ busy' = TRUE
    /\ UNCHANGED <<job, disk, objects, local, poller, client, lock, now, asked, starts, restarts>>

Ends ==
    /\ busy
    /\ busy' = FALSE
    /\ UNCHANGED <<job, disk, objects, local, poller, client, lock, now, asked, starts, restarts>>

\* Another request takes its time under commandLock.
TakesLock ==
    /\ lock = "free" /\ lock' = "client"
    /\ UNCHANGED <<job, disk, objects, local, poller, client, busy, now, asked, starts, restarts>>

GivesLock ==
    /\ lock = "client" /\ lock' = "free"
    /\ UNCHANGED <<job, disk, objects, local, poller, client, busy, now, asked, starts, restarts>>

-----------------------------------------------------------------------------
(* ScheduledPrintPollerThread *)

Polls == UNCHANGED <<client, now, asked, restarts>>
Goes(at) == poller' = [poller EXCEPT !.at = at]
Rests == poller' = Sleeps
Nowhere == UNCHANGED <<job, disk, objects, local, busy, starts>>

\* The first half of runScheduledPrintIfDue and of sendScheduledFileIfDue.
Looks ==
    /\ poller.at = "sleeps" /\ Pending(job)
    /\ IF NeedsUpload(job)
       THEN /\ now >= job.at - LEAD
            /\ poller' = [Sleeps EXCEPT !.job = job, !.at = IF local = job.file THEN "sends" ELSE "fails"]
       ELSE now >= job.at /\ poller' = [Sleeps EXCEPT !.job = job, !.at = "runs"]
    /\ Nowhere /\ Polls /\ UNCHANGED lock

\* What is stored by now is marked, whatever job the reason was about.
Fails ==
    /\ poller.at = "fails"
    /\ MarkFailed
    /\ Rests
    /\ lock' = IF lock = "poller" THEN "free" ELSE lock
    /\ UNCHANGED <<local, busy, starts>> /\ Polls

\* commandLock is had: the printer is busy, or the plug is switched on.
SendLocks ==
    /\ poller.at = "sends" /\ lock = "free"
    /\ \/ ~busy /\ lock' = "poller" /\ Goes("powers")
       \/ busy /\ now > poller.job.at /\ lock' = "poller" /\ Goes("fails")
       \/ busy /\ now <= poller.job.at /\ Rests /\ UNCHANGED lock
    /\ Nowhere /\ Polls

\* A board that does not come up is tried again on every poll, without an end.
GivesUpNever == Rests /\ lock' = "free"

\* The board does not come up, or cannot be connected to: tried again until it is too late.
GivesUp == IF now - poller.job.at > RETRY THEN Goes("fails") /\ UNCHANGED lock ELSE Rests /\ lock' = "free"

BoardUp ==
    /\ poller.at = "powers"
    /\ \/ GivesUp
       \/ job = poller.job /\ Goes("uploads") /\ UNCHANGED lock
       \/ job # poller.job /\ Rests /\ lock' = "free"
    /\ Nowhere /\ Polls

\* upload has opened the file kept on the phone and has sent it, or failed.
Uploads ==
    /\ poller.at = "uploads"
    /\ \/ job # poller.job /\ Rests /\ lock' = "free"
       \/ job = poller.job /\ poller' = [poller EXCEPT !.at = "sent", !.file = poller.job.file] /\ UNCHANGED lock
       \/ job = poller.job /\ GivesUp
    /\ Nowhere /\ Polls

MarksUploaded ==
    /\ poller.at = "sent"
    /\ MarkUploaded(poller.file)
    /\ Goes("marked")
    /\ UNCHANGED <<local, busy, lock, starts>> /\ Polls

\* The copy on the phone goes; the job as it is now may be due.
DeletesCopy ==
    /\ poller.at = "marked"
    /\ local' = 0
    /\ lock' = "free"
    /\ IF Pending(job) /\ ~NeedsUpload(job) /\ now >= job.at
       THEN poller' = [Sleeps EXCEPT !.at = "runs", !.job = job]
       ELSE Rests
    /\ UNCHANGED <<job, disk, objects, busy, starts>> /\ Polls

\* commandLock is held for the look at the phase only.
RunLocksShortly ==
    /\ poller.at = "runs" /\ lock = "free"
    /\ Goes(IF busy THEN "fails" ELSE "connects")
    /\ Nowhere /\ Polls /\ UNCHANGED lock

RunLocks ==
    /\ poller.at = "runs" /\ lock = "free"
    /\ lock' = "poller"
    /\ Goes(IF busy THEN "fails" ELSE "connects")
    /\ Nowhere /\ Polls

\* The job is not looked at again.
ConnectsUnchecked ==
    /\ poller.at = "connects"
    /\ \/ GivesUp
       \/ Goes("checked") /\ UNCHANGED lock
    /\ Nowhere /\ Polls

\* Plug, boot and connecting are over; the job must still be the one of the beginning.
Connects ==
    /\ poller.at = "connects"
    /\ \/ GivesUp
       \/ job = poller.job /\ Goes("checked") /\ UNCHANGED lock
       \/ job # poller.job /\ Rests /\ lock' = "free"
    /\ Nowhere /\ Polls

\* selectSdFile and startPrint.
Starts ==
    /\ poller.at = "checked"
    /\ \/ /\ busy' = TRUE
          /\ starts' = [starts EXCEPT ![poller.job.id] = @ + 1]
          /\ Goes("started")
          /\ lock' = "free"
       \/ Goes("fails") /\ UNCHANGED <<busy, starts, lock>>
    /\ UNCHANGED <<job, disk, objects, local>> /\ Polls

\* The job is left for the next poll.
ForgetsToClear == poller.at = "started" /\ Rests /\ Nowhere /\ UNCHANGED lock /\ Polls

\* Outside commandLock.
Clears ==
    /\ poller.at = "started"
    /\ Clear
    /\ Rests
    /\ UNCHANGED <<local, busy, lock, starts>> /\ Polls

-----------------------------------------------------------------------------
Tick ==
    /\ now < MaxTime /\ now' = now + 1
    /\ UNCHANGED <<job, disk, objects, local, poller, client, busy, lock, asked, starts, restarts>>

\* The app is killed and started again; what is saved is loaded.
Restart ==
    /\ restarts < MaxRestarts /\ restarts' = restarts + 1
    /\ job' = disk
    /\ poller' = Sleeps /\ client' = NoRequest /\ lock' = "free"
    /\ starts' = [n \in 1..MaxJobs |-> 0]
    /\ UNCHANGED <<disk, objects, local, busy, now, asked>>

Init ==
    /\ job = NoJob /\ disk = NoJob /\ objects = 0 /\ local = 0
    /\ poller = Sleeps /\ client = NoRequest
    /\ busy = FALSE /\ lock = "free" /\ now = 0
    /\ asked = Nothing /\ starts = [n \in 1..MaxJobs |-> 0] /\ restarts = 0

Requests ==
    \/ \E f \in Files, t \in Times : Asks("set", f, t) \/ KeepsFile(f, t)
    \/ job # NoJob /\ Asks("cancel", 0, 0)
    \/ SetsJob \/ ClearsJob \/ \E t \in Times : ReschedulesJob(t)

Poller ==
    \/ Looks \/ Fails \/ SendLocks \/ BoardUp \/ Uploads \/ MarksUploaded \/ DeletesCopy
    \/ RunLocks \/ Connects \/ Starts \/ Clears

Next == Requests \/ Poller \/ ByHand \/ Ends \/ TakesLock \/ GivesLock \/ Tick \/ Restart
Spec == Init /\ [][Next]_vars

\* The thread runs, the clock goes on, and a lock that is free again and again is had.
Fairness == WF_vars(Poller) /\ SF_vars(SendLocks \/ RunLocks) /\ WF_vars(Tick) /\ WF_vars(GivesLock)
LiveSpec == Spec /\ Fairness

-----------------------------------------------------------------------------
JobObject == [id : 0..MaxJobs, file : {0} \cup Files, at : 0..MaxTime, status : {"none", "PENDING", "FAILED"}, local : BOOLEAN]

\* Every variable has its type, and the thread holds commandLock from having taken it until it has started the print.
TypeOK ==
    /\ job \in JobObject /\ disk \in JobObject
    /\ objects \in 0..MaxJobs /\ local \in {0} \cup Files
    /\ poller \in [at : {"sleeps", "sends", "powers", "uploads", "runs", "connects"} \cup Decided, job : JobObject,
                   file : {0} \cup Files]
    /\ client \in [op : {"none", "set", "set local", "cancel"}, file : {0} \cup Files, at : 0..MaxTime]
    /\ busy \in BOOLEAN /\ lock \in {"free", "poller", "client"} /\ now \in 0..MaxTime
    /\ poller.at \in {"powers", "uploads", "sent", "marked", "connects", "checked"} => lock = "poller"
    /\ asked \in [file : {0} \cup Files, at : 0..MaxTime]
    /\ starts \in [1..MaxJobs -> Nat] /\ restarts \in 0..MaxRestarts

\* runScheduledPrintIfDue: a job is started once as long as the app lives, whatever fails, is retried or changed.
StartsOnce == \A n \in 1..MaxJobs : starts[n] <= 1

\* What is started is what the user asked for last, not before its time: not a job cancelled, moved to a later time
\* or replaced while the plug, the upload or the connection took their time, nor another one's file.
StartsWhatWasAsked ==
    [][starts' # starts /\ restarts' = restarts => poller.job.file = asked.file /\ asked.at <= now]_vars

\* A job that is due is decided: it is started, fails, or is changed by the user.
JobDecided ==
    \A n \in 1..MaxJobs : (job.id = n /\ Pending(job) /\ now >= job.at /\ objects < MaxJobs) ~> (job.id # n \/ objects = MaxJobs)
=============================================================================

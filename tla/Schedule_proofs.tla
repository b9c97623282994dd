--------------------------- MODULE Schedule_proofs ---------------------------
(***************************************************************************)
(* Proofs about the scheduled print: the types; that a job is started once *)
(* for whatever is changed, fails or is tried again; that what is started  *)
(* is what the user asked for, as long as nothing is changed between the   *)
(* poller's last look and its step (Late = FALSE).                         *)
(***************************************************************************)
EXTENDS Schedule, TLAPS

\* The types of the stored jobs, of the poller and of the rest, apart.
JobTypeOK == job \in JobObject /\ disk \in JobObject /\ objects \in 0..MaxJobs

Places == {"sleeps", "sends", "powers", "uploads", "runs", "connects"} \cup Decided
Locked == {"powers", "uploads", "sent", "marked", "connects", "checked"}
PollerObject == [at : Places, job : JobObject, file : {0} \cup Files]
PollerTypeOK ==
    /\ poller \in PollerObject
    /\ lock \in {"free", "poller", "client"} /\ busy \in BOOLEAN
    /\ poller.at \in Locked => lock = "poller"

RestTypeOK ==
    /\ client \in [op : {"none", "set", "set local", "cancel"}, file : {0} \cup Files, at : 0..MaxTime]
    /\ asked \in [file : {0} \cup Files, at : 0..MaxTime]

ClockTypeOK ==
    /\ local \in {0} \cup Files /\ now \in 0..MaxTime /\ restarts \in 0..MaxRestarts
    /\ starts \in [1..MaxJobs -> Nat]

\* The parts are the whole of TypeOK.
LEMMA TypeParts == TypeOK <=> JobTypeOK /\ PollerTypeOK /\ RestTypeOK /\ ClockTypeOK
  BY DEF TypeOK, JobTypeOK, PollerTypeOK, RestTypeOK, ClockTypeOK, PollerObject, Places, Locked

\* The empty store is typed.
LEMMA NoJobTyped == NoJob \in JobObject
  BY ScheduleAssumption DEF JobObject, NoJob

\* A poller that sleeps is typed and holds no lock.
LEMMA SleepsTyped == Sleeps \in PollerObject /\ Sleeps.at \notin Locked /\ Sleeps.at = "sleeps"
  BY NoJobTyped DEF Sleeps, PollerObject, Places, Locked

\* A change of the stored job keeps the store typed.
LEMMA ChangedTyped ==
  ASSUME JobTypeOK, NEW j \in JobObject, Changed(j)
  PROVE  JobTypeOK'
<1>1. objects + 1 \in 0..MaxJobs
  BY ScheduleAssumption DEF Changed, JobTypeOK
<1>2. [j EXCEPT !.id = objects + 1] \in JobObject
  BY <1>1 DEF JobObject
<1> QED
  BY <1>1, <1>2 DEF Changed, Save, JobTypeOK

\* The times a request may name lie within the bound.
LEMMA ZeroTime == 0 \in 0..MaxTime /\ Times \subseteq 0..MaxTime
  BY ScheduleAssumption DEF Times, RETRY

\* A request may name any file, or none.
LEMMA FilesAre == Files \subseteq {0} \cup Files /\ 0 \in {0} \cup Files
  OBVIOUS

\* The bounds are numbers.
LEMMA TimesTyped == Times \subseteq 0..MaxTime /\ MaxJobs \in Nat /\ MaxTime \in Nat /\ MaxRestarts \in Nat
  BY ScheduleAssumption DEF Times, RETRY

\* Every step keeps the stored jobs typed.
LEMMA JobsTyped ==
  ASSUME JobTypeOK, PollerTypeOK, RestTypeOK, [Next]_vars
  PROVE  JobTypeOK'
<1>1. ASSUME NEW op \in {"set", "cancel"}, NEW f \in {0} \cup Files, NEW t \in 0..MaxTime, Asks(op, f, t)
      PROVE  JobTypeOK'
  BY <1>1 DEF Asks, Requesting, JobTypeOK
<1>2. ASSUME NEW f \in Files, NEW t \in Times, KeepsFile(f, t)
      PROVE  JobTypeOK'
  BY <1>2 DEF KeepsFile, Requesting, JobTypeOK
<1>3. CASE SetsJob
  <2>1. [file |-> client.file, at |-> client.at, status |-> "PENDING", local |-> client.op = "set local", id |-> 0]
          \in JobObject
    <3>1. client.file \in {0} \cup Files /\ client.at \in 0..MaxTime
      BY DEF RestTypeOK
    <3>2. PICK b \in BOOLEAN : b = (client.op = "set local")
      OBVIOUS
    <3>3. [file |-> client.file, at |-> client.at, status |-> "PENDING", local |-> b, id |-> 0] \in JobObject
      BY <3>1, ScheduleAssumption DEF JobObject
    <3> QED
      BY <3>2, <3>3
  <2> QED
    BY <1>3, <2>1, ChangedTyped DEF SetsJob
<1>4. CASE ClearsJob
  BY <1>4, NoJobTyped DEF ClearsJob, Requesting, Clear, Save, JobTypeOK
<1>5. ASSUME NEW t \in Times, ReschedulesJob(t)
      PROVE  JobTypeOK'
  <2>1. [job EXCEPT !.at = t, !.status = "PENDING"] \in JobObject
    BY <1>5, TimesTyped DEF JobTypeOK, JobObject
  <2> QED
    BY <1>5, <2>1, ChangedTyped DEF ReschedulesJob, Reschedule, Change
<1>6. CASE Looks
  BY <1>6 DEF Looks, Nowhere, Pending, JobTypeOK
<1>7. CASE Fails
  <2>1. [job EXCEPT !.status = "FAILED"] \in JobObject
    BY DEF JobTypeOK, JobObject
  <2> QED
    BY <1>7, <2>1, ChangedTyped DEF Fails, MarkFailed, Change, JobTypeOK
<1>8. CASE SendLocks
  BY <1>8 DEF SendLocks, Nowhere, JobTypeOK
<1>9. CASE BoardUp
  BY <1>9 DEF BoardUp, Nowhere, JobTypeOK
<1>10. CASE Uploads
  BY <1>10 DEF Uploads, Nowhere, JobTypeOK
<1>11. CASE MarksUploaded
  <2>1. [job EXCEPT !.file = poller.file, !.local = FALSE] \in JobObject
    BY DEF JobTypeOK, PollerTypeOK, PollerObject, JobObject, Files
  <2> QED
    BY <1>11, <2>1, ChangedTyped DEF MarksUploaded, MarkUploaded, Change, JobTypeOK
<1>12. CASE DeletesCopy
  BY <1>12 DEF DeletesCopy, Pending, JobTypeOK
<1>13. CASE RunLocks
  BY <1>13 DEF RunLocks, Nowhere, JobTypeOK
<1>14. CASE Connects
  BY <1>14 DEF Connects, Nowhere, JobTypeOK
<1>15. CASE Starts
  BY <1>15 DEF Starts, JobTypeOK
<1>16. CASE Clears
  BY <1>16, NoJobTyped DEF Clears, Clear, Save, JobTypeOK
<1>17. CASE ByHand
  BY <1>17 DEF ByHand, JobTypeOK
<1>18. CASE Ends
  BY <1>18 DEF Ends, JobTypeOK
<1>19. CASE TakesLock
  BY <1>19 DEF TakesLock, JobTypeOK
<1>20. CASE GivesLock
  BY <1>20 DEF GivesLock, JobTypeOK
<1>21. CASE Tick
  BY <1>21 DEF Tick, JobTypeOK
<1>22. CASE Restart
  BY <1>22 DEF Restart, JobTypeOK
<1>23. CASE UNCHANGED vars
  BY <1>23 DEF vars, JobTypeOK
<1> QED
  BY <1>1, <1>2, <1>3, <1>4, <1>5, <1>6, <1>7, <1>8, <1>9, <1>10, <1>11, <1>12, <1>13, <1>14, <1>15, <1>16, <1>17,
     <1>18, <1>19, <1>20, <1>21, <1>22, <1>23, ZeroTime, FilesAre DEF Next, Requests, Poller

\* Every step keeps the poller and the lock typed.
LEMMA PollersTyped ==
  ASSUME JobTypeOK, PollerTypeOK, RestTypeOK, [Next]_vars
  PROVE  PollerTypeOK'
<1>1. ASSUME NEW op \in {"set", "cancel"}, NEW f \in {0} \cup Files, NEW t \in 0..MaxTime, Asks(op, f, t)
      PROVE  PollerTypeOK'
  BY <1>1 DEF Asks, Requesting, PollerTypeOK
<1>2. ASSUME NEW f \in Files, NEW t \in Times, KeepsFile(f, t)
      PROVE  PollerTypeOK'
  BY <1>2 DEF KeepsFile, Requesting, PollerTypeOK
<1>3. CASE SetsJob
  BY <1>3 DEF SetsJob, Requesting, PollerTypeOK
<1>4. CASE ClearsJob
  BY <1>4 DEF ClearsJob, Requesting, PollerTypeOK
<1>5. ASSUME NEW t \in Times, ReschedulesJob(t)
      PROVE  PollerTypeOK'
  BY <1>5 DEF ReschedulesJob, Requesting, PollerTypeOK
<1>6. CASE Looks
  BY <1>6, SleepsTyped DEF Looks, Nowhere, Sleeps, NeedsUpload, Pending, PollerTypeOK, PollerObject, JobTypeOK,
     Places, Locked, Decided
<1>7. CASE Fails
  BY <1>7, SleepsTyped DEF Fails, Rests, PollerTypeOK, PollerObject, JobTypeOK, Places, Locked, Decided
<1>8. CASE SendLocks
  BY <1>8, SleepsTyped DEF SendLocks, Nowhere, Goes, Rests, PollerTypeOK, PollerObject, JobTypeOK, Places, Locked,
     Decided
<1>9. CASE BoardUp
  BY <1>9, SleepsTyped DEF BoardUp, Nowhere, Goes, Rests, GivesUp, PollerTypeOK, PollerObject, JobTypeOK, Places,
     Locked, Decided
<1>10. CASE Uploads
  <2>1. poller.job.file \in {0} \cup Files
    BY DEF PollerTypeOK, PollerObject, JobObject
  <2> QED
    BY <1>10, <2>1, SleepsTyped DEF Uploads, Nowhere, Goes, Rests, GivesUp, PollerTypeOK, PollerObject, Places,
       Locked, Decided
<1>11. CASE MarksUploaded
  BY <1>11, SleepsTyped DEF MarksUploaded, Goes, PollerTypeOK, PollerObject, JobTypeOK, Places, Locked, Decided
<1>12. CASE DeletesCopy
  <2>1. poller' \in {Sleeps, [Sleeps EXCEPT !.at = "runs", !.job = job]}
    BY <1>12 DEF DeletesCopy, Rests
  <2>2. [Sleeps EXCEPT !.at = "runs", !.job = job] \in PollerObject
    BY SleepsTyped DEF JobTypeOK, PollerObject, Places
  <2>3. poller' \in PollerObject /\ poller'.at \notin Locked
    BY <2>1, <2>2, SleepsTyped DEF PollerObject, Locked
  <2> QED
    BY <1>12, <2>3 DEF DeletesCopy, PollerTypeOK
<1>13. CASE RunLocks
  BY <1>13, SleepsTyped DEF RunLocks, Nowhere, Goes, PollerTypeOK, PollerObject, JobTypeOK, Places, Locked, Decided
<1>14. CASE Connects
  BY <1>14, SleepsTyped DEF Connects, Nowhere, Goes, Rests, GivesUp, PollerTypeOK, PollerObject, JobTypeOK, Places,
     Locked, Decided
<1>15. CASE Starts
  BY <1>15, SleepsTyped DEF Starts, Goes, PollerTypeOK, PollerObject, JobTypeOK, Places, Locked, Decided
<1>16. CASE Clears
  BY <1>16, SleepsTyped DEF Clears, Rests, PollerTypeOK, PollerObject, JobTypeOK, Places, Locked, Decided
<1>17. CASE ByHand
  BY <1>17 DEF ByHand, PollerTypeOK
<1>18. CASE Ends
  BY <1>18 DEF Ends, PollerTypeOK
<1>19. CASE TakesLock
  BY <1>19 DEF TakesLock, PollerTypeOK
<1>20. CASE GivesLock
  BY <1>20 DEF GivesLock, PollerTypeOK
<1>21. CASE Tick
  BY <1>21 DEF Tick, PollerTypeOK
<1>22. CASE Restart
  BY <1>22, SleepsTyped DEF Restart, NoRequest, PollerTypeOK, PollerObject, JobTypeOK, Places, Locked, Decided
<1>23. CASE UNCHANGED vars
  BY <1>23 DEF vars, PollerTypeOK, PollerObject, JobTypeOK, Places, Locked, Decided
<1> QED
  BY <1>1, <1>2, <1>3, <1>4, <1>5, <1>6, <1>7, <1>8, <1>9, <1>10, <1>11, <1>12, <1>13, <1>14, <1>15, <1>16, <1>17,
     <1>18, <1>19, <1>20, <1>21, <1>22, <1>23, ZeroTime, FilesAre DEF Next, Requests, Poller

\* Every step keeps the other variables typed.
LEMMA RestTyped ==
  ASSUME JobTypeOK, PollerTypeOK, RestTypeOK, [Next]_vars
  PROVE  RestTypeOK'
<1>1. ASSUME NEW op \in {"set", "cancel"}, NEW f \in {0} \cup Files, NEW t \in 0..MaxTime, Asks(op, f, t)
      PROVE  RestTypeOK'
  BY <1>1, TimesTyped, FilesAre DEF Asks, Requesting, RestTypeOK
<1>2. ASSUME NEW f \in Files, NEW t \in Times, KeepsFile(f, t)
      PROVE  RestTypeOK'
  BY <1>2, TimesTyped, FilesAre DEF KeepsFile, Requesting, RestTypeOK
<1>3. CASE SetsJob
  <2>1. asked' \in [file : {0} \cup Files, at : 0..MaxTime]
    BY <1>3 DEF SetsJob, RestTypeOK
  <2>2. client' \in [op : {"none", "set", "set local", "cancel"}, file : {0} \cup Files, at : 0..MaxTime]
    BY <1>3, ZeroTime, FilesAre DEF SetsJob, NoRequest
  <2> QED
    BY <1>3, <2>1, <2>2 DEF SetsJob, Requesting, RestTypeOK
<1>4. CASE ClearsJob
  <2>1. asked' \in [file : {0} \cup Files, at : 0..MaxTime]
    BY <1>4, ZeroTime, FilesAre DEF ClearsJob, Nothing
  <2>2. client' \in [op : {"none", "set", "set local", "cancel"}, file : {0} \cup Files, at : 0..MaxTime]
    BY <1>4, ZeroTime, FilesAre DEF ClearsJob, NoRequest
  <2> QED
    BY <1>4, <2>1, <2>2 DEF ClearsJob, Requesting, RestTypeOK
<1>5. ASSUME NEW t \in Times, ReschedulesJob(t)
      PROVE  RestTypeOK'
  BY <1>5, TimesTyped, FilesAre DEF ReschedulesJob, Requesting, RestTypeOK
<1>6. CASE Looks
  BY <1>6, TimesTyped, FilesAre DEF Looks, Polls, Pending, RestTypeOK
<1>7. CASE Fails
  BY <1>7, TimesTyped, FilesAre DEF Fails, Polls, RestTypeOK
<1>8. CASE SendLocks
  BY <1>8, TimesTyped, FilesAre DEF SendLocks, Polls, RestTypeOK
<1>9. CASE BoardUp
  BY <1>9, TimesTyped, FilesAre DEF BoardUp, Polls, RestTypeOK
<1>10. CASE Uploads
  BY <1>10, TimesTyped, FilesAre DEF Uploads, Polls, RestTypeOK
<1>11. CASE MarksUploaded
  BY <1>11, TimesTyped, FilesAre DEF MarksUploaded, Polls, RestTypeOK
<1>12. CASE DeletesCopy
  BY <1>12, TimesTyped, FilesAre DEF DeletesCopy, Polls, Pending, RestTypeOK
<1>13. CASE RunLocks
  BY <1>13, TimesTyped, FilesAre DEF RunLocks, Polls, RestTypeOK
<1>14. CASE Connects
  BY <1>14, TimesTyped, FilesAre DEF Connects, Polls, RestTypeOK
<1>15. CASE Starts
  BY <1>15, TimesTyped, FilesAre DEF Starts, Polls, RestTypeOK
<1>16. CASE Clears
  BY <1>16, TimesTyped, FilesAre DEF Clears, Polls, RestTypeOK
<1>17. CASE ByHand
  BY <1>17, TimesTyped, FilesAre DEF ByHand, RestTypeOK
<1>18. CASE Ends
  BY <1>18, TimesTyped, FilesAre DEF Ends, RestTypeOK
<1>19. CASE TakesLock
  BY <1>19, TimesTyped, FilesAre DEF TakesLock, RestTypeOK
<1>20. CASE GivesLock
  BY <1>20, TimesTyped, FilesAre DEF GivesLock, RestTypeOK
<1>21. CASE Tick
  BY <1>21, TimesTyped, FilesAre DEF Tick, RestTypeOK
<1>22. CASE Restart
  BY <1>22, ZeroTime, FilesAre DEF Restart, NoRequest, RestTypeOK
<1>23. CASE UNCHANGED vars
  BY <1>23 DEF vars, RestTypeOK
<1> QED
  BY <1>1, <1>2, <1>3, <1>4, <1>5, <1>6, <1>7, <1>8, <1>9, <1>10, <1>11, <1>12, <1>13, <1>14, <1>15, <1>16, <1>17,
     <1>18, <1>19, <1>20, <1>21, <1>22, <1>23, ZeroTime, FilesAre DEF Next, Requests, Poller

\* Every step keeps the clock and the counters typed.
LEMMA ClockTyped ==
  ASSUME JobTypeOK, PollerTypeOK, ClockTypeOK, [Next]_vars
  PROVE  ClockTypeOK'
<1>1. ASSUME NEW op \in {"set", "cancel"}, NEW f \in {0} \cup Files, NEW t \in 0..MaxTime, Asks(op, f, t)
      PROVE  ClockTypeOK'
  BY <1>1, TimesTyped, FilesAre DEF Asks, Requesting, ClockTypeOK
<1>2. ASSUME NEW f \in Files, NEW t \in Times, KeepsFile(f, t)
      PROVE  ClockTypeOK'
  BY <1>2, TimesTyped, FilesAre DEF KeepsFile, Requesting, ClockTypeOK
<1>3. CASE SetsJob
  BY <1>3, TimesTyped, FilesAre DEF SetsJob, Requesting, ClockTypeOK
<1>4. CASE ClearsJob
  BY <1>4, TimesTyped, FilesAre DEF ClearsJob, Requesting, ClockTypeOK
<1>5. ASSUME NEW t \in Times, ReschedulesJob(t)
      PROVE  ClockTypeOK'
  BY <1>5, TimesTyped, FilesAre DEF ReschedulesJob, Requesting, ClockTypeOK
<1>6. CASE Looks
  BY <1>6, TimesTyped, FilesAre DEF Looks, Polls, Nowhere, Pending, ClockTypeOK
<1>7. CASE Fails
  BY <1>7, TimesTyped, FilesAre DEF Fails, Polls, ClockTypeOK
<1>8. CASE SendLocks
  BY <1>8, TimesTyped, FilesAre DEF SendLocks, Polls, Nowhere, ClockTypeOK
<1>9. CASE BoardUp
  BY <1>9, TimesTyped, FilesAre DEF BoardUp, Polls, Nowhere, ClockTypeOK
<1>10. CASE Uploads
  BY <1>10, TimesTyped, FilesAre DEF Uploads, Polls, Nowhere, ClockTypeOK
<1>11. CASE MarksUploaded
  BY <1>11, TimesTyped, FilesAre DEF MarksUploaded, Polls, ClockTypeOK
<1>12. CASE DeletesCopy
  BY <1>12, TimesTyped, FilesAre DEF DeletesCopy, Polls, Pending, ClockTypeOK
<1>13. CASE RunLocks
  BY <1>13, TimesTyped, FilesAre DEF RunLocks, Polls, Nowhere, ClockTypeOK
<1>14. CASE Connects
  BY <1>14, TimesTyped, FilesAre DEF Connects, Polls, Nowhere, ClockTypeOK
<1>15. CASE Starts
  BY <1>15, TimesTyped, FilesAre DEF Starts, Polls, ClockTypeOK
<1>16. CASE Clears
  BY <1>16, TimesTyped, FilesAre DEF Clears, Polls, ClockTypeOK
<1>17. CASE ByHand
  BY <1>17, TimesTyped, FilesAre DEF ByHand, ClockTypeOK
<1>18. CASE Ends
  BY <1>18, TimesTyped, FilesAre DEF Ends, ClockTypeOK
<1>19. CASE TakesLock
  BY <1>19, TimesTyped, FilesAre DEF TakesLock, ClockTypeOK
<1>20. CASE GivesLock
  BY <1>20, TimesTyped, FilesAre DEF GivesLock, ClockTypeOK
<1>21. CASE Tick
  BY <1>21, TimesTyped, FilesAre DEF Tick, ClockTypeOK
<1>22. CASE Restart
  <2>1. starts' \in [1..MaxJobs -> Nat]
    BY <1>22 DEF Restart
  <2>2. restarts' \in 0..MaxRestarts
    BY <1>22, TimesTyped DEF Restart, ClockTypeOK
  <2> QED
    BY <1>22, <2>1, <2>2 DEF Restart, ClockTypeOK
<1>23. CASE UNCHANGED vars
  BY <1>23 DEF vars, ClockTypeOK
<1> QED
  BY <1>1, <1>2, <1>3, <1>4, <1>5, <1>6, <1>7, <1>8, <1>9, <1>10, <1>11, <1>12, <1>13, <1>14, <1>15, <1>16, <1>17,
     <1>18, <1>19, <1>20, <1>21, <1>22, <1>23, ZeroTime, FilesAre DEF Next, Requests, Poller

\* The state of the scheduled print is typed, for any number of jobs, restarts and any clock: the poller holds
\* commandLock wherever the code does.
THEOREM TypeCorrect == Spec => []TypeOK
<1>1. Init => TypeOK
  <2>1. Init => JobTypeOK
    BY NoJobTyped, ScheduleAssumption DEF Init, JobTypeOK
  <2>2. Init => PollerTypeOK
    BY SleepsTyped DEF Init, PollerTypeOK
  <2>3. Init => RestTypeOK
    BY ZeroTime DEF Init, RestTypeOK, NoRequest, Nothing
  <2>4. Init => ClockTypeOK
    BY TimesTyped DEF Init, ClockTypeOK
  <2> QED
    BY <2>1, <2>2, <2>3, <2>4, TypeParts
<1>2. TypeOK /\ [Next]_vars => TypeOK'
  <2> SUFFICES ASSUME TypeOK, [Next]_vars PROVE TypeOK'
    OBVIOUS
  <2>1. JobTypeOK' /\ PollerTypeOK' /\ RestTypeOK' /\ ClockTypeOK'
    BY TypeParts, JobsTyped, PollersTyped, RestTyped, ClockTyped
  <2> QED
    BY <2>1 DEF TypeOK, JobTypeOK, PollerTypeOK, RestTypeOK, ClockTypeOK, PollerObject, Places, Locked
<1> QED
  BY <1>1, <1>2, PTL DEF Spec

-----------------------------------------------------------------------------
(* Started once *)

\* The saved job is the one the store works on, and the objects it and the poller have were made.
Stored ==
    /\ disk = job
    /\ job.id <= objects /\ poller.job.id <= objects
    /\ Pending(job) => job.id >= 1

\* Only objects that were made have been started, none of them twice.
Counted == \A n \in 1..MaxJobs : starts[n] <= 1 /\ (starts[n] > 0 => n <= objects)

\* The stored job has not been started, unless the poller is about to clear it; the one on the way to its start
\* has not been started either.
Chosen == {"runs", "connects", "checked"}
NotAgain ==
    /\ \A n \in 1..MaxJobs : job.id = n /\ poller.at # "started" => starts[n] = 0
    /\ \A n \in 1..MaxJobs : poller.job.id = n /\ poller.at \in Chosen => starts[n] = 0
    /\ poller.at \in Chosen => poller.job.id \in 1..MaxJobs

OnceInv == Stored /\ Counted /\ NotAgain

\* How a step changes the stored job: it leaves it, or puts a new object in its place.
NewJob == objects < MaxJobs /\ objects' = objects + 1 /\ job'.id = objects + 1 /\ disk' = job'
SameJob == UNCHANGED <<job, disk, objects>>

\* Changed puts a new object in the place of the stored one.
LEMMA ChangedJob ==
  ASSUME NEW j \in JobObject, Changed(j)
  PROVE  NewJob
  BY DEF Changed, Save, NewJob, JobObject

\* Each of these steps leaves the stored job or replaces it.
LEMMA Replaced ==
  ASSUME JobTypeOK, PollerTypeOK, RestTypeOK
  PROVE  /\ SetsJob => NewJob /\ UNCHANGED <<poller, starts>>
         /\ \A t \in Times : ReschedulesJob(t) => NewJob
         /\ Fails => NewJob \/ (SameJob /\ job = NoJob)
         /\ MarksUploaded => NewJob \/ (SameJob /\ job = NoJob)
<1>1. ASSUME SetsJob PROVE NewJob /\ UNCHANGED <<poller, starts>>
  <2>1. client.file \in {0} \cup Files /\ client.at \in 0..MaxTime
    BY DEF RestTypeOK
  <2>2. PICK b \in BOOLEAN : b = (client.op = "set local")
    OBVIOUS
  <2>3. [file |-> client.file, at |-> client.at, status |-> "PENDING", local |-> b, id |-> 0] \in JobObject
    BY <2>1, ScheduleAssumption DEF JobObject
  <2> QED
    BY <1>1, <2>2, <2>3, ChangedJob DEF SetsJob, Requesting
<1>2. ASSUME NEW t \in Times, ReschedulesJob(t) PROVE NewJob
  <2>1. [job EXCEPT !.at = t, !.status = "PENDING"] \in JobObject
    BY TimesTyped DEF JobTypeOK, JobObject
  <2> QED
    BY <1>2, <2>1, ChangedJob DEF ReschedulesJob, Reschedule, Change
<1>3. ASSUME Fails PROVE NewJob \/ (SameJob /\ job = NoJob)
  <2>1. [job EXCEPT !.status = "FAILED"] \in JobObject
    BY DEF JobTypeOK, JobObject
  <2> QED
    BY <1>3, <2>1, ChangedJob DEF Fails, MarkFailed, Change, SameJob
<1>4. ASSUME MarksUploaded PROVE NewJob \/ (SameJob /\ job = NoJob)
  <2>1. [job EXCEPT !.file = poller.file, !.local = FALSE] \in JobObject
    BY DEF JobTypeOK, PollerTypeOK, PollerObject, JobObject, Files
  <2> QED
    BY <1>4, <2>1, ChangedJob DEF MarksUploaded, MarkUploaded, Change, SameJob
<1> QED
  BY <1>1, <1>2, <1>3, <1>4

\* How the poller goes on: it sleeps; it goes on with its job, towards the start only from there; it looks at the
\* stored job.
PollerMove ==
    /\ SameJob /\ starts' = starts /\ poller.at # "started" /\ poller'.at # "started"
    /\ \/ poller'.job.id = 0 /\ poller'.at = "sleeps"
       \/ poller'.job = poller.job /\ (poller'.at \in Chosen => poller.at \in Chosen)
       \/ poller'.job = job /\ Pending(job)

\* A poller that sleeps has no job in hand.
LEMMA SleepingJob == Sleeps.at = "sleeps" /\ Sleeps.job.id = 0
  BY DEF Sleeps, NoJob

\* What the poller does without touching the store is a PollerMove.
LEMMA Moves ==
  ASSUME JobTypeOK, PollerTypeOK,
         Looks \/ SendLocks \/ BoardUp \/ Uploads \/ DeletesCopy \/ RunLocks \/ Connects
  PROVE  PollerMove
<1>1. CASE Looks
  BY <1>1 DEF Looks, Nowhere, Sleeps, PollerMove, SameJob
<1>2. CASE SendLocks
  BY <1>2, SleepingJob DEF SendLocks, Nowhere, Goes, Rests, PollerMove, SameJob, PollerTypeOK, PollerObject, Chosen
<1>3. CASE BoardUp
  BY <1>3, SleepingJob DEF BoardUp, Nowhere, Goes, Rests, GivesUp, PollerMove, SameJob, PollerTypeOK, PollerObject,
     Chosen
<1>4. CASE Uploads
  BY <1>4, SleepingJob DEF Uploads, Nowhere, Goes, Rests, GivesUp, PollerMove, SameJob, PollerTypeOK, PollerObject,
     Chosen
<1>5. CASE DeletesCopy
  <2>1. CASE Pending(job) /\ ~NeedsUpload(job) /\ now >= job.at
    <3>1. poller'.job = job /\ poller'.at = "runs"
      BY <1>5, <2>1 DEF DeletesCopy, Sleeps
    <3> QED
      BY <1>5, <2>1, <3>1 DEF DeletesCopy, PollerMove, SameJob
  <2>2. CASE ~(Pending(job) /\ ~NeedsUpload(job) /\ now >= job.at)
    BY <1>5, <2>2, SleepingJob DEF DeletesCopy, Rests, PollerMove, SameJob
  <2> QED
    BY <2>1, <2>2
<1>6. CASE RunLocks
  BY <1>6 DEF RunLocks, Nowhere, Goes, PollerMove, SameJob, PollerTypeOK, PollerObject, Chosen
<1>7. CASE Connects
  BY <1>7, SleepingJob DEF Connects, Nowhere, Goes, Rests, GivesUp, PollerMove, SameJob, PollerTypeOK, PollerObject,
     Chosen
<1> QED
  BY <1>1, <1>2, <1>3, <1>4, <1>5, <1>6, <1>7

\* A PollerMove lets no stored job be started that was started before.
LEMMA MoveKeepsNotAgain ==
  ASSUME JobTypeOK, OnceInv, PollerMove
  PROVE  NotAgain'
<1>1. job.id \in 0..MaxJobs
  BY DEF JobTypeOK, JobObject
<1>2. Pending(job) => job.id \in 1..MaxJobs
  BY <1>1, ScheduleAssumption DEF OnceInv, Stored
<1>3. \A n \in 1..MaxJobs : job.id = n => starts[n] = 0
  BY DEF OnceInv, NotAgain, PollerMove
<1>4. job' = job /\ starts' = starts
  BY DEF PollerMove, SameJob
<1>5. CASE poller'.job.id = 0 /\ poller'.at = "sleeps"
  BY <1>3, <1>4, <1>5 DEF NotAgain, Chosen
<1>6. CASE poller'.job = poller.job /\ (poller'.at \in Chosen => poller.at \in Chosen)
  BY <1>3, <1>4, <1>6 DEF NotAgain, OnceInv
<1>7. CASE poller'.job = job /\ Pending(job)
  BY <1>2, <1>3, <1>4, <1>7 DEF NotAgain
<1> QED
  BY <1>5, <1>6, <1>7 DEF PollerMove

\* The saved job stays the stored one, of an object made.
LEMMA StoredKept ==
  ASSUME JobTypeOK, PollerTypeOK, RestTypeOK, ClockTypeOK, OnceInv, [Next]_vars
  PROVE  Stored'
<1>1. ASSUME NEW op \in {"set", "cancel"}, NEW f \in {0} \cup Files, NEW t \in 0..MaxTime, Asks(op, f, t)
      PROVE  Stored'
  BY <1>1, SleepingJob DEF Asks, Requesting, Stored, OnceInv, Pending, JobTypeOK, JobObject, PollerTypeOK,
     PollerObject
<1>2. ASSUME NEW f \in Files, NEW t \in Times, KeepsFile(f, t)
      PROVE  Stored'
  BY <1>2, SleepingJob DEF KeepsFile, Requesting, Stored, OnceInv, Pending, JobTypeOK, JobObject, PollerTypeOK,
     PollerObject
<1>3. CASE SetsJob
  BY <1>3, Replaced DEF NewJob, Stored, OnceInv, Pending, JobTypeOK, JobObject, PollerTypeOK, PollerObject
<1>4. CASE ClearsJob
  BY <1>4, SleepingJob DEF ClearsJob, Requesting, Clear, NoJob, Save, Stored, OnceInv, Pending, JobTypeOK,
     JobObject, PollerTypeOK, PollerObject
<1>5. ASSUME NEW t \in Times, ReschedulesJob(t)
      PROVE  Stored'
  BY <1>5, SleepingJob, Replaced DEF ReschedulesJob, Requesting, NewJob, SameJob, Stored, OnceInv, Pending,
     JobTypeOK, JobObject, PollerTypeOK, PollerObject
<1>6. CASE Looks
  BY <1>6, Moves DEF PollerMove, SameJob, Stored, OnceInv, Pending, JobTypeOK, JobObject, PollerTypeOK, PollerObject
<1>7. CASE Fails
  BY <1>7, SleepingJob, Replaced DEF Fails, Polls, Rests, NewJob, SameJob, Stored, OnceInv, Pending, JobTypeOK,
     JobObject, PollerTypeOK, PollerObject
<1>8. CASE SendLocks
  BY <1>8, Moves DEF PollerMove, SameJob, Stored, OnceInv, Pending, JobTypeOK, JobObject, PollerTypeOK, PollerObject
<1>9. CASE BoardUp
  BY <1>9, Moves DEF PollerMove, SameJob, Stored, OnceInv, Pending, JobTypeOK, JobObject, PollerTypeOK, PollerObject
<1>10. CASE Uploads
  BY <1>10, Moves DEF PollerMove, SameJob, Stored, OnceInv, Pending, JobTypeOK, JobObject, PollerTypeOK, PollerObject
<1>11. CASE MarksUploaded
  BY <1>11, SleepingJob, Replaced DEF MarksUploaded, Polls, Goes, NewJob, SameJob, Stored, OnceInv, Pending,
     JobTypeOK, JobObject, PollerTypeOK, PollerObject
<1>12. CASE DeletesCopy
  BY <1>12, Moves DEF PollerMove, SameJob, Stored, OnceInv, Pending, JobTypeOK, JobObject, PollerTypeOK, PollerObject
<1>13. CASE RunLocks
  BY <1>13, Moves DEF PollerMove, SameJob, Stored, OnceInv, Pending, JobTypeOK, JobObject, PollerTypeOK, PollerObject
<1>14. CASE Connects
  BY <1>14, Moves DEF PollerMove, SameJob, Stored, OnceInv, Pending, JobTypeOK, JobObject, PollerTypeOK, PollerObject
<1>15. CASE Starts
  BY <1>15, SleepingJob DEF Starts, Polls, Goes, Stored, OnceInv, Pending, JobTypeOK, JobObject, PollerTypeOK,
     PollerObject
<1>16. CASE Clears
  BY <1>16, SleepingJob DEF Clears, Polls, Clear, NoJob, Save, Rests, Stored, OnceInv, Pending, JobTypeOK,
     JobObject, PollerTypeOK, PollerObject
<1>17. CASE ByHand
  BY <1>17, SleepingJob DEF ByHand, Stored, OnceInv, Pending, JobTypeOK, JobObject, PollerTypeOK, PollerObject
<1>18. CASE Ends
  BY <1>18, SleepingJob DEF Ends, Stored, OnceInv, Pending, JobTypeOK, JobObject, PollerTypeOK, PollerObject
<1>19. CASE TakesLock
  BY <1>19, SleepingJob DEF TakesLock, Stored, OnceInv, Pending, JobTypeOK, JobObject, PollerTypeOK, PollerObject
<1>20. CASE GivesLock
  BY <1>20, SleepingJob DEF GivesLock, Stored, OnceInv, Pending, JobTypeOK, JobObject, PollerTypeOK, PollerObject
<1>21. CASE Tick
  BY <1>21, SleepingJob DEF Tick, Stored, OnceInv, Pending, JobTypeOK, JobObject, PollerTypeOK, PollerObject
<1>22. CASE Restart
  BY <1>22, SleepingJob DEF Restart, NoRequest, Stored, OnceInv, Pending, JobTypeOK, JobObject, PollerTypeOK,
     PollerObject
<1>23. CASE UNCHANGED vars
  BY <1>23 DEF vars, Stored, OnceInv, Pending, JobTypeOK, JobObject, PollerTypeOK, PollerObject
<1> QED
  BY <1>1, <1>2, <1>3, <1>4, <1>5, <1>6, <1>7, <1>8, <1>9, <1>10, <1>11, <1>12, <1>13, <1>14, <1>15, <1>16, <1>17,
     <1>18, <1>19, <1>20, <1>21, <1>22, <1>23, ZeroTime, FilesAre DEF Next, Requests, Poller

\* Only objects made are started, and none twice.
LEMMA CountedKept ==
  ASSUME JobTypeOK, PollerTypeOK, RestTypeOK, ClockTypeOK, OnceInv, [Next]_vars
  PROVE  Counted'
<1>1. ASSUME NEW op \in {"set", "cancel"}, NEW f \in {0} \cup Files, NEW t \in 0..MaxTime, Asks(op, f, t)
      PROVE  Counted'
  BY <1>1 DEF Asks, Requesting, Counted, OnceInv, JobTypeOK, ClockTypeOK
<1>2. ASSUME NEW f \in Files, NEW t \in Times, KeepsFile(f, t)
      PROVE  Counted'
  BY <1>2 DEF KeepsFile, Requesting, Counted, OnceInv, JobTypeOK, ClockTypeOK
<1>3. CASE SetsJob
  BY <1>3, Replaced DEF NewJob, Counted, OnceInv, JobTypeOK, ClockTypeOK
<1>4. CASE ClearsJob
  BY <1>4 DEF ClearsJob, Requesting, Clear, Counted, OnceInv, JobTypeOK, ClockTypeOK
<1>5. ASSUME NEW t \in Times, ReschedulesJob(t)
      PROVE  Counted'
  BY <1>5, Replaced DEF ReschedulesJob, Requesting, NewJob, SameJob, Counted, OnceInv, JobTypeOK, ClockTypeOK
<1>6. CASE Looks
  BY <1>6, Moves DEF PollerMove, SameJob, Counted, OnceInv, JobTypeOK, ClockTypeOK
<1>7. CASE Fails
  BY <1>7, Replaced DEF Fails, Polls, NewJob, SameJob, Counted, OnceInv, JobTypeOK, ClockTypeOK
<1>8. CASE SendLocks
  BY <1>8, Moves DEF PollerMove, SameJob, Counted, OnceInv, JobTypeOK, ClockTypeOK
<1>9. CASE BoardUp
  BY <1>9, Moves DEF PollerMove, SameJob, Counted, OnceInv, JobTypeOK, ClockTypeOK
<1>10. CASE Uploads
  BY <1>10, Moves DEF PollerMove, SameJob, Counted, OnceInv, JobTypeOK, ClockTypeOK
<1>11. CASE MarksUploaded
  BY <1>11, Replaced DEF MarksUploaded, Polls, NewJob, SameJob, Counted, OnceInv, JobTypeOK, ClockTypeOK
<1>12. CASE DeletesCopy
  BY <1>12, Moves DEF PollerMove, SameJob, Counted, OnceInv, JobTypeOK, ClockTypeOK
<1>13. CASE RunLocks
  BY <1>13, Moves DEF PollerMove, SameJob, Counted, OnceInv, JobTypeOK, ClockTypeOK
<1>14. CASE Connects
  BY <1>14, Moves DEF PollerMove, SameJob, Counted, OnceInv, JobTypeOK, ClockTypeOK
<1>15. CASE Starts
  <2>1. CASE UNCHANGED starts
    BY <1>15, <2>1 DEF Starts, Counted, OnceInv
  <2>2. CASE starts' = [starts EXCEPT ![poller.job.id] = starts[poller.job.id] + 1]
    <3>1. poller.job.id \in 1..MaxJobs /\ starts[poller.job.id] = 0 /\ poller.job.id <= objects
      BY <1>15 DEF Starts, OnceInv, NotAgain, Stored, Chosen
    <3> QED
      BY <1>15, <2>2, <3>1 DEF Starts, Counted, OnceInv, ClockTypeOK
  <2>3. starts' = starts \/ starts' = [starts EXCEPT ![poller.job.id] = starts[poller.job.id] + 1]
    BY <1>15 DEF Starts
  <2> QED
    BY <2>1, <2>2, <2>3
<1>16. CASE Clears
  BY <1>16 DEF Clears, Polls, Clear, Counted, OnceInv, JobTypeOK, ClockTypeOK
<1>17. CASE ByHand
  BY <1>17 DEF ByHand, Counted, OnceInv, JobTypeOK, ClockTypeOK
<1>18. CASE Ends
  BY <1>18 DEF Ends, Counted, OnceInv, JobTypeOK, ClockTypeOK
<1>19. CASE TakesLock
  BY <1>19 DEF TakesLock, Counted, OnceInv, JobTypeOK, ClockTypeOK
<1>20. CASE GivesLock
  BY <1>20 DEF GivesLock, Counted, OnceInv, JobTypeOK, ClockTypeOK
<1>21. CASE Tick
  BY <1>21 DEF Tick, Counted, OnceInv, JobTypeOK, ClockTypeOK
<1>22. CASE Restart
  BY <1>22, SleepingJob DEF Restart, Counted, OnceInv, JobTypeOK, ClockTypeOK
<1>23. CASE UNCHANGED vars
  BY <1>23 DEF vars, Counted, OnceInv, JobTypeOK, ClockTypeOK
<1> QED
  BY <1>1, <1>2, <1>3, <1>4, <1>5, <1>6, <1>7, <1>8, <1>9, <1>10, <1>11, <1>12, <1>13, <1>14, <1>15, <1>16, <1>17,
     <1>18, <1>19, <1>20, <1>21, <1>22, <1>23, ZeroTime, FilesAre DEF Next, Requests, Poller

\* What is stored or on its way has not been started.
LEMMA NotAgainKept ==
  ASSUME JobTypeOK, PollerTypeOK, RestTypeOK, ClockTypeOK, OnceInv, [Next]_vars
  PROVE  NotAgain'
<1>1. ASSUME NEW op \in {"set", "cancel"}, NEW f \in {0} \cup Files, NEW t \in 0..MaxTime, Asks(op, f, t)
      PROVE  NotAgain'
  BY <1>1, SleepingJob DEF Asks, Requesting, NotAgain, OnceInv, Stored, Counted, Chosen, Pending, JobTypeOK,
     ClockTypeOK
<1>2. ASSUME NEW f \in Files, NEW t \in Times, KeepsFile(f, t)
      PROVE  NotAgain'
  BY <1>2, SleepingJob DEF KeepsFile, Requesting, NotAgain, OnceInv, Stored, Counted, Chosen, Pending, JobTypeOK,
     ClockTypeOK
<1>3. CASE SetsJob
  BY <1>3, Replaced DEF NewJob, NotAgain, OnceInv, Stored, Counted, Chosen, Pending, JobTypeOK, ClockTypeOK
<1>4. CASE ClearsJob
  BY <1>4, SleepingJob DEF ClearsJob, Requesting, Clear, NoJob, Save, NotAgain, OnceInv, Stored, Counted, Chosen,
     Pending, JobTypeOK, ClockTypeOK
<1>5. ASSUME NEW t \in Times, ReschedulesJob(t)
      PROVE  NotAgain'
  BY <1>5, SleepingJob, Replaced DEF ReschedulesJob, Requesting, NewJob, SameJob, NotAgain, OnceInv, Stored,
     Counted, Chosen, Pending, JobTypeOK, ClockTypeOK
<1>6. CASE Looks
  BY <1>6, Moves, MoveKeepsNotAgain
<1>7. CASE Fails
  BY <1>7, SleepingJob, Replaced DEF Fails, Polls, Rests, NewJob, SameJob, NotAgain, OnceInv, Stored, Counted,
     Chosen, Pending, JobTypeOK, ClockTypeOK
<1>8. CASE SendLocks
  BY <1>8, Moves, MoveKeepsNotAgain
<1>9. CASE BoardUp
  BY <1>9, Moves, MoveKeepsNotAgain
<1>10. CASE Uploads
  BY <1>10, Moves, MoveKeepsNotAgain
<1>11. CASE MarksUploaded
  BY <1>11, SleepingJob, Replaced DEF MarksUploaded, Polls, Goes, NewJob, SameJob, NotAgain, OnceInv, Stored,
     Counted, Chosen, Pending, JobTypeOK, ClockTypeOK
<1>12. CASE DeletesCopy
  BY <1>12, Moves, MoveKeepsNotAgain
<1>13. CASE RunLocks
  BY <1>13, Moves, MoveKeepsNotAgain
<1>14. CASE Connects
  BY <1>14, Moves, MoveKeepsNotAgain
<1>15. CASE Starts
  <2>1. poller'.at \in {"started", "fails"} /\ poller'.job = poller.job
    BY <1>15 DEF Starts, Goes, PollerTypeOK, PollerObject
  <2>2. poller'.at = "fails" => UNCHANGED starts
    BY <1>15, <2>1 DEF Starts, Goes, PollerTypeOK, PollerObject
  <2> QED
    BY <1>15, <2>1, <2>2 DEF Starts, NotAgain, OnceInv, Chosen
<1>16. CASE Clears
  BY <1>16, SleepingJob DEF Clears, Polls, Clear, NoJob, Save, Rests, NotAgain, OnceInv, Stored, Counted, Chosen,
     Pending, JobTypeOK, ClockTypeOK
<1>17. CASE ByHand
  BY <1>17, SleepingJob DEF ByHand, NotAgain, OnceInv, Stored, Counted, Chosen, Pending, JobTypeOK, ClockTypeOK
<1>18. CASE Ends
  BY <1>18, SleepingJob DEF Ends, NotAgain, OnceInv, Stored, Counted, Chosen, Pending, JobTypeOK, ClockTypeOK
<1>19. CASE TakesLock
  BY <1>19, SleepingJob DEF TakesLock, NotAgain, OnceInv, Stored, Counted, Chosen, Pending, JobTypeOK, ClockTypeOK
<1>20. CASE GivesLock
  BY <1>20, SleepingJob DEF GivesLock, NotAgain, OnceInv, Stored, Counted, Chosen, Pending, JobTypeOK, ClockTypeOK
<1>21. CASE Tick
  BY <1>21, SleepingJob DEF Tick, NotAgain, OnceInv, Stored, Counted, Chosen, Pending, JobTypeOK, ClockTypeOK
<1>22. CASE Restart
  BY <1>22, SleepingJob DEF Restart, NoRequest, NotAgain, OnceInv, Stored, Counted, Chosen, Pending, JobTypeOK,
     ClockTypeOK
<1>23. CASE UNCHANGED vars
  BY <1>23 DEF vars, NotAgain, OnceInv, Stored, Counted, Chosen, Pending, JobTypeOK, ClockTypeOK
<1> QED
  BY <1>1, <1>2, <1>3, <1>4, <1>5, <1>6, <1>7, <1>8, <1>9, <1>10, <1>11, <1>12, <1>13, <1>14, <1>15, <1>16, <1>17,
     <1>18, <1>19, <1>20, <1>21, <1>22, <1>23, ZeroTime, FilesAre DEF Next, Requests, Poller

\* Whatever fails, is tried again or changed, and whenever, a job is not started twice as long as the app lives.
THEOREM StartsOnceCorrect == Spec => []StartsOnce
<1>1. Init => OnceInv
  BY SleepingJob, ScheduleAssumption DEF Init, OnceInv, Stored, Counted, NotAgain, NoJob, Pending, Chosen
<1>2. TypeOK /\ OnceInv /\ [Next]_vars => OnceInv'
  BY TypeParts, StoredKept, CountedKept, NotAgainKept DEF OnceInv
<1>3. OnceInv => StartsOnce
  BY DEF OnceInv, Counted, StartsOnce
<1> QED
  BY <1>1, <1>2, <1>3, TypeCorrect, PTL DEF Spec

-----------------------------------------------------------------------------
(* Started as asked *)

\* The stored job is what the user asked for last; what is on its way is due, and just before its start, and before
\* its upload is noted, it is the stored job still.
AskedIs == job # NoJob => job.file = asked.file /\ job.at = asked.at
Sure ==
    /\ poller.at \in Chosen => poller.job.at <= now /\ poller.job # NoJob
    /\ poller.at = "checked" => job = poller.job
    /\ poller.at = "sent" => job = poller.job /\ poller.file = poller.job.file
AskInv == disk = job /\ AskedIs /\ Sure

\* A job the store puts in the place of its own, and NoJob after Clear, have the file and the time asked for.
LEMMA AsAsked ==
  ASSUME JobTypeOK, PollerTypeOK, RestTypeOK, AskInv
  PROVE  /\ SetsJob => disk' = job' /\ AskedIs'
         /\ \A t \in Times : ReschedulesJob(t) => disk' = job' /\ AskedIs'
         /\ ClearsJob \/ Clears => disk' = job' /\ AskedIs'
         /\ Fails \/ MarksUploaded => disk' = job' /\ AskedIs'
<1>1. ASSUME SetsJob PROVE disk' = job' /\ AskedIs'
  BY <1>1 DEF SetsJob, Changed, Save, AskedIs
<1>2. ASSUME NEW t \in Times, ReschedulesJob(t) PROVE disk' = job' /\ AskedIs'
  BY <1>2 DEF ReschedulesJob, Reschedule, Change, Changed, Save, AskedIs, AskInv, JobTypeOK, JobObject, RestTypeOK
<1>3. ASSUME ClearsJob \/ Clears PROVE disk' = job' /\ AskedIs'
  BY <1>3 DEF ClearsJob, Clears, Clear, Save, AskedIs
<1>4. ASSUME Fails PROVE disk' = job' /\ AskedIs'
  <2>1. asked' = asked
    BY <1>4 DEF Fails, Polls
  <2>2. CASE job = NoJob
    BY <1>4, <2>1, <2>2 DEF Fails, MarkFailed, Change, AskedIs, AskInv
  <2>3. CASE job # NoJob
    <3>1. job.file = asked.file /\ job.at = asked.at
      BY <2>3 DEF AskInv, AskedIs
    <3>2. job' = [[job EXCEPT !.status = "FAILED"] EXCEPT !.id = objects + 1] /\ disk' = job'
      BY <1>4, <2>3 DEF Fails, MarkFailed, Change, Changed, Save
    <3>3. job'.file = job.file /\ job'.at = job.at
      BY <3>2 DEF JobTypeOK, JobObject
    <3> QED
      BY <2>1, <3>1, <3>2, <3>3 DEF AskedIs
  <2> QED
    BY <2>2, <2>3
<1>5. ASSUME MarksUploaded PROVE disk' = job' /\ AskedIs'
  BY <1>5 DEF MarksUploaded, Polls, MarkUploaded, Change, Changed, Save, AskedIs, AskInv, Sure, JobTypeOK, JobObject
<1> QED
  BY <1>1, <1>2, <1>3, <1>4, <1>5

\* A poller that sleeps has chosen nothing and marked nothing as sent.
LEMMA SleepingSure == Sleeps.at \notin Chosen /\ Sleeps.at # "sent"
  BY DEF Sleeps, Chosen

\* The stored job stays what was asked for.
LEMMA AskedKept ==
  ASSUME JobTypeOK, PollerTypeOK, RestTypeOK, ClockTypeOK, AskInv, [Next]_vars
  PROVE  disk' = job' /\ AskedIs'
<1>1. ASSUME NEW op \in {"set", "cancel"}, NEW f \in {0} \cup Files, NEW t \in 0..MaxTime, Asks(op, f, t)
      PROVE  disk' = job' /\ AskedIs'
  BY <1>1 DEF Asks, Requesting, AskInv, AskedIs
<1>2. ASSUME NEW f \in Files, NEW t \in Times, KeepsFile(f, t)
      PROVE  disk' = job' /\ AskedIs'
  BY <1>2 DEF KeepsFile, Requesting, AskInv, AskedIs
<1>3. CASE SetsJob
  BY <1>3, AsAsked
<1>4. CASE ClearsJob
  BY <1>4, AsAsked
<1>5. ASSUME NEW t \in Times, ReschedulesJob(t)
      PROVE  disk' = job' /\ AskedIs'
  BY <1>5, AsAsked
<1>6. CASE Looks
  BY <1>6 DEF Looks, Polls, Nowhere, Sleeps, Pending, NeedsUpload, AskInv, AskedIs
<1>7. CASE Fails
  BY <1>7, AsAsked
<1>8. CASE SendLocks
  BY <1>8 DEF SendLocks, Polls, Nowhere, Goes, Rests, AskInv, AskedIs
<1>9. CASE BoardUp
  BY <1>9 DEF BoardUp, Polls, Nowhere, Goes, Rests, GivesUp, AskInv, AskedIs
<1>10. CASE Uploads
  BY <1>10 DEF Uploads, Polls, Nowhere, Goes, Rests, GivesUp, AskInv, AskedIs
<1>11. CASE MarksUploaded
  BY <1>11, AsAsked
<1>12. CASE DeletesCopy
  BY <1>12 DEF DeletesCopy, Polls, Rests, Sleeps, Pending, NeedsUpload, AskInv, AskedIs
<1>13. CASE RunLocks
  BY <1>13 DEF RunLocks, Polls, Nowhere, Goes, AskInv, AskedIs
<1>14. CASE Connects
  BY <1>14 DEF Connects, Polls, Nowhere, Goes, Rests, GivesUp, AskInv, AskedIs
<1>15. CASE Starts
  BY <1>15 DEF Starts, Polls, Goes, AskInv, AskedIs
<1>16. CASE Clears
  BY <1>16, AsAsked
<1>17. CASE ByHand
  BY <1>17 DEF ByHand, AskInv, AskedIs
<1>18. CASE Ends
  BY <1>18 DEF Ends, AskInv, AskedIs
<1>19. CASE TakesLock
  BY <1>19 DEF TakesLock, AskInv, AskedIs
<1>20. CASE GivesLock
  BY <1>20 DEF GivesLock, AskInv, AskedIs
<1>21. CASE Tick
  BY <1>21 DEF Tick, AskInv, AskedIs
<1>22. CASE Restart
  BY <1>22 DEF Restart, NoRequest, AskInv, AskedIs
<1>23. CASE UNCHANGED vars
  BY <1>23 DEF vars, AskInv, AskedIs
<1> QED
  BY <1>1, <1>2, <1>3, <1>4, <1>5, <1>6, <1>7, <1>8, <1>9, <1>10, <1>11, <1>12, <1>13, <1>14, <1>15, <1>16, <1>17,
     <1>18, <1>19, <1>20, <1>21, <1>22, <1>23, ZeroTime, FilesAre DEF Next, Requests, Poller

\* What is on its way stays due, and as it was looked at.
LEMMA SureKept ==
  ASSUME ~Late, JobTypeOK, PollerTypeOK, RestTypeOK, ClockTypeOK, AskInv, [Next]_vars
  PROVE  Sure'
<1>1. ASSUME NEW op \in {"set", "cancel"}, NEW f \in {0} \cup Files, NEW t \in 0..MaxTime, Asks(op, f, t)
      PROVE  Sure'
  BY <1>1 DEF Asks, Requesting, AskInv, Sure
<1>2. ASSUME NEW f \in Files, NEW t \in Times, KeepsFile(f, t)
      PROVE  Sure'
  BY <1>2 DEF KeepsFile, Requesting, AskInv, Sure
<1>3. CASE SetsJob
  BY <1>3 DEF SetsJob, Requesting, MayChange, Decided, Sure, AskInv, Chosen
<1>4. CASE ClearsJob
  BY <1>4 DEF ClearsJob, Requesting, MayChange, Decided, Sure, AskInv, Chosen
<1>5. ASSUME NEW t \in Times, ReschedulesJob(t)
      PROVE  Sure'
  BY <1>5 DEF ReschedulesJob, Requesting, MayChange, Decided, Sure, AskInv, Chosen
<1>6. CASE Looks
  <2>1. job # NoJob
    BY <1>6 DEF Looks, Pending, NoJob
  <2>2. CASE NeedsUpload(job)
    <3>1. poller'.at \in {"sends", "fails"}
      BY <1>6, <2>2 DEF Looks, Sleeps
    <3> QED
      BY <3>1 DEF Sure, Chosen
  <2>3. CASE ~NeedsUpload(job)
    <3>1. poller'.at = "runs" /\ poller'.job = job /\ job.at <= now /\ now' = now
      BY <1>6, <2>3, TimesTyped DEF Looks, Sleeps, Polls, ClockTypeOK, JobTypeOK, JobObject
    <3> QED
      BY <2>1, <3>1 DEF Sure
  <2> QED
    BY <2>2, <2>3
<1>7. CASE Fails
  BY <1>7, SleepingSure DEF Fails, Rests, Sure, Chosen
<1>8. CASE SendLocks
  BY <1>8, SleepingSure DEF SendLocks, Polls, Nowhere, Goes, Rests, AskInv, Sure, Chosen, PollerTypeOK, PollerObject
<1>9. CASE BoardUp
  BY <1>9, SleepingSure DEF BoardUp, Polls, Nowhere, Goes, Rests, GivesUp, AskInv, Sure, Chosen, PollerTypeOK,
     PollerObject
<1>10. CASE Uploads
  BY <1>10, SleepingSure DEF Uploads, Polls, Nowhere, Goes, Rests, GivesUp, AskInv, Sure, Chosen, PollerTypeOK,
     PollerObject
<1>11. CASE MarksUploaded
  BY <1>11, SleepingSure DEF MarksUploaded, Polls, Goes, NewJob, SameJob, AskInv, Sure, Chosen, PollerTypeOK,
     PollerObject
<1>12. CASE DeletesCopy
  <2>1. CASE Pending(job) /\ ~NeedsUpload(job) /\ now >= job.at
    <3>1. job # NoJob
      BY <2>1 DEF Pending, NoJob
    <3>2. poller'.at = "runs" /\ poller'.job = job /\ job.at <= now /\ now' = now
      BY <1>12, <2>1, TimesTyped DEF DeletesCopy, Sleeps, Polls, ClockTypeOK, JobTypeOK, JobObject
    <3> QED
      BY <3>1, <3>2 DEF Sure
  <2>2. CASE ~(Pending(job) /\ ~NeedsUpload(job) /\ now >= job.at)
    BY <1>12, <2>2, SleepingSure DEF DeletesCopy, Rests, Sure, Chosen
  <2> QED
    BY <2>1, <2>2
<1>13. CASE RunLocks
  BY <1>13, SleepingSure DEF RunLocks, Polls, Nowhere, Goes, AskInv, Sure, Chosen, PollerTypeOK, PollerObject
<1>14. CASE Connects
  BY <1>14, SleepingSure DEF Connects, Polls, Nowhere, Goes, Rests, GivesUp, AskInv, Sure, Chosen, PollerTypeOK,
     PollerObject
<1>15. CASE Starts
  BY <1>15, SleepingSure DEF Starts, Polls, Goes, AskInv, Sure, Chosen, PollerTypeOK, PollerObject
<1>16. CASE Clears
  BY <1>16, SleepingSure DEF Clears, Rests, Sure, Chosen
<1>17. CASE ByHand
  BY <1>17 DEF ByHand, AskInv, Sure
<1>18. CASE Ends
  BY <1>18 DEF Ends, AskInv, Sure
<1>19. CASE TakesLock
  BY <1>19 DEF TakesLock, AskInv, Sure
<1>20. CASE GivesLock
  BY <1>20 DEF GivesLock, AskInv, Sure
<1>21. CASE Tick
  <2>1. poller.job.at \in 0..MaxTime /\ now \in 0..MaxTime
    BY DEF PollerTypeOK, PollerObject, JobObject, ClockTypeOK
  <2> QED
    BY <1>21, <2>1, TimesTyped DEF Tick, AskInv, Sure
<1>22. CASE Restart
  BY <1>22, SleepingSure DEF Restart, Sure, Chosen
<1>23. CASE UNCHANGED vars
  BY <1>23 DEF vars, AskInv, Sure, Chosen, PollerTypeOK, PollerObject
<1> QED
  BY <1>1, <1>2, <1>3, <1>4, <1>5, <1>6, <1>7, <1>8, <1>9, <1>10, <1>11, <1>12, <1>13, <1>14, <1>15, <1>16, <1>17,
     <1>18, <1>19, <1>20, <1>21, <1>22, <1>23, ZeroTime, FilesAre DEF Next, Requests, Poller

\* What is started is what the user asked for last, and not before its time, unless the stored job is changed in the
\* moment between the poller's last look at it and its step.
THEOREM StartsWhatWasAskedCorrect ==
  ASSUME ~Late
  PROVE  Spec => StartsWhatWasAsked
<1>1. Init => AskInv
  BY SleepingSure DEF Init, AskInv, AskedIs, Sure, Chosen
<1>2. TypeOK /\ AskInv /\ [Next]_vars => AskInv'
  BY TypeParts, AskedKept, SureKept DEF AskInv
<1>3. TypeOK /\ AskInv /\ [Next]_vars
         => (starts' # starts /\ restarts' = restarts => poller.job.file = asked.file /\ asked.at <= now)
  <2> SUFFICES ASSUME TypeOK, AskInv, [Next]_vars, starts' # starts, restarts' = restarts
               PROVE  poller.job.file = asked.file /\ asked.at <= now
    OBVIOUS
  <2>1. ~Restart
    BY TypeParts, TimesTyped DEF Restart, ClockTypeOK
  <2>2. Starts
    BY <2>1 DEF Next, Requests, Poller, vars, Asks, KeepsFile, SetsJob, ClearsJob, ReschedulesJob, Requesting,
       Looks, Fails,
       SendLocks, BoardUp, Uploads, MarksUploaded, DeletesCopy, RunLocks, Connects, Clears, Nowhere, ByHand, Ends,
       TakesLock, GivesLock, Tick
  <2>3. poller.at = "checked"
    BY <2>2 DEF Starts
  <2> QED
    BY <2>3 DEF AskInv, AskedIs, Sure, Chosen
<1>4. Spec => [](TypeOK /\ AskInv)
  BY <1>1, <1>2, TypeCorrect, PTL DEF Spec
<1> QED
  BY <1>3, <1>4, PTL DEF Spec, StartsWhatWasAsked

=============================================================================

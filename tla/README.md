# PrintHost, modelled in TLA+

PrintHost drives a Marlin 3D printer. An ESP32 on the printer's USB port keeps the gcode files on
an SD card and streams a print line by line (`src/esp32-firmware`, C/C++); a phone polls the board,
serves a dashboard, schedules prints, relays the camera and switches the printer's power
(`src/phone-app`, Java). A print has to survive damaged lines, lost answers, printer resets, board
crashes and power losses; no heater is left on by accident; files in use are not touched; the phone
draws the right conclusions from what the board tells it.

This directory holds the specifications of those parts, the TLC configurations that check them on
small instances and the TLAPS proofs of what holds for every instance. `PROJECT.json` lists the
runs, the mutants that show each property has teeth, the source lines behind every definition, the
hazards, the findings and the theorems.

    tlc -config MCRecovery.cfg Recovery.tla      # a run
    tlapm Recovery_proofs.tla                    # a proof module

## 1. Inventory

### Firmware

| part | state | operations | interacts with | what makes it correct |
|---|---|---|---|---|
| engine, streaming loop (`runPrint`) | FIFO of commands in flight, history ring of sent lines, window, throttle, resync flags, offset done | send a line, poll, probe, M400, user command; match answers; resynchronise; pause, stop | the printer over the link; network tasks through the mailbox | lines executed in order, exactly once; the offset done never ahead; user commands as answered; ends, with the heaters off |
| engine, journal and recovery | journal record on the SD card, `gInt`, RTC uptime beat, heaters and nozzle as it left them | write and read the journal, look, park, resume by itself, resume by the user, discard, connect | SD card shared with uploads and logs, the printer, users | no line skipped over a crash, nothing forgotten or revived, bounded automatic resumes, heaters not left on |
| engine, mailbox and tickets | queue of commands, ticket of an asynchronous gcode, abandoned flags | `post`, `answerCmd`, time out, file-in-use rule | the web server task and the engine task | every command answered once, nothing executed after it was given up, nothing freed twice |
| engine, status | snapshot under `gMutex` | publish, read | HTTP status handlers | a snapshot is consistent |
| USB link (`link_usb.cpp`) | device handle, receive stream | open, close, write, the driver's disconnect callback | engine, USB driver task | the handle is not used after the callback closed it |
| simulated printer (`link_sim.cpp`) | line counter, temperatures, queue of answers | `processLine` | engine | Marlin's line protocol |
| file store (`main.cpp`) | files on the SD card, temporary upload file | upload, rename, delete, hash | engine (file in use), phone | a file is old or new, never half; never replaced under a print |
| Wi-Fi, HTTP server, log, watchdog (`main.cpp`) | connection, log ring | reconnect, reboot when offline and idle | all | does not reboot a print |
| camera (`main.cpp`) | frame buffers | capture, stream | phone | - |
| crash report, DHT11 | saved panic, last reading | read | phone | - |
| USB host and CDC-ACM driver (vendored, patched by the project) | root port, pipes, device and its action flags, client's lists | plug, enumerate, open, submit, callback, close, recover the port | `link_usb.cpp` | the link ends up as the cable is; nothing stops the board |
| camera driver (vendored) | - | - | - | third party |

### Phone

| part | state | operations | what makes it correct |
|---|---|---|---|
| printer connection and pollers (`EspPrinterConnection`, `PrinterService`) | last status, `finished` counter and boot id seen | poll, start, recover, command | the end of a print is noticed exactly once, across board restarts |
| scheduled print (`ScheduledPrintStore`, `PrinterService`) | the stored job | schedule, cancel, run, restore after a restart | runs once, not after a cancel |
| automatic power-off (`AutoShutoffStore`, `TapoPlugController`) | armed flag, plug state | arm, decide on a poll, switch | never cuts the power of a running print |
| upload and SD commands (`EspStoreConnection`, name and size maps) | caches | upload, list, delete | the cache matches the card |
| alerts, door watch, web server, camera relay, panel, dashboard | connections | route, notify, draw | - |

### What is hard

* **Interleaving and order**: answers are matched to commands only by their order, and an `ok` may
  be lost, late or belong to a line that was thrown away (`printer.cpp:1142-1219`).
* **Crash recovery**: three memories (journal, RTC, the printer) survive a crash in different
  ways, and are read and rewritten over several boots (`printer.cpp:1941-1990`, `1560-1640`).
* **Partial failure**: every SD access may be refused for 500 ms (`printer.cpp:374`), every
  command may be unanswered.
* **Timeouts and retries**: resends, probes, the quiet time, the 180 s limit, `post`'s timeout.
* **Limits**: FIFO ring, history ring, the printer's 96-byte buffer, `AUTO_RESUME_MAX`.
* **Two tasks, one object**: commands are freed by whoever comes second (`printer.cpp:1904-1930`), the
  USB device is closed by the engine or by the driver's callback (`link_usb.cpp:33-62`), a file is
  checked, then removed (`main.cpp:1218-1227`).
* **Conclusions from polls**: the phone infers the end of a print from a counter and a boot id, over
  restarts and lost answers (`EspPrinterConnection.java`).
* **Liveness**: a paused print on a dead printer, polls and lines waiting for each other, a bed
  that nobody switches off.

The 40 hazards, each at its line and with the property that covers it or why none does, are in
`PROJECT.json`.

## 2. The modules

| module | models | checked by | proved in |
|---|---|---|---|
| `Marlin` | the printer's end of the wire, from `link_sim.cpp` | through `PrintStream` | with `PrintStream` |
| `PrintStream` | `runPrint` from `M110` to the end of the loop; extends `Marlin` | `stream`, `stream_live` | `PrintStream_proofs`, `StreamAcks_proofs` |
| `OrderedPrint` | what a print promises, four actions | refinement `KeepsPromise` in `stream` | `StreamAcks_proofs` |
| `MCStream` | the line lengths of the instance | | |
| `Recovery` | the engine task around the streaming loop: journal, interrupted record, boot, park, resumes, connection | `recovery`, `recovery_live`, `recovery_revived` | `Recovery_proofs` |
| `Board` | the web server's task and the engine task: commands, uploads, deletions, the file a print reads | `board_commands`, `board_files` | `Board_proofs`, `BoardFiles_proofs` |
| `MCBoard` | the symmetry of the file names | | |
| `Phone` | the phone's service: connection, pollers, automatic power-off, against the board from outside | `phone`, `phone_live` | `Phone_proofs` |
| `Schedule` | the scheduled print: stored job, dashboard requests, poller, restart of the app | `schedule` | `Schedule_proofs` |
| `UsbHost` | root port, hub driver, device flags, interrupts | through `UsbLink` | `UsbLink_proofs` |
| `UsbLink` | CDC driver, client task, `link_usb.cpp`, the engine's connection; extends `UsbHost` | `usb`, `usb_rearm` | `UsbLink_proofs` |

Three seams hold the parts together. `Recovery` takes from `PrintStream` that lines are executed in
order and acknowledged afterwards; `Board` leaves the streaming to `PrintStream` and the journal's
contents to `Recovery` and keeps of both which file is read and which file the journal names; `Phone`
sees the board as the other modules have it: it prints, finishes, fails, restarts, offers a record,
resumes by itself.

### Marlin and PrintStream

One behaviour is one print. `wire` and `rx` are the two directions of the serial link, first in
first out, as USB delivers them. `Marlin`'s actions are the cases of `processLine`; the engine's are
the branches of the loop in `runPrint`:

* receiving (`IgnoreOk`, `AckOldest`, `AckThroughPoll`, `ErrorReported`, `RestartReported`,
  `FatalReported`) is the chain of tests on an incoming line. `AckSlots(k)` is `ackHead` repeated k
  times: it moves `gBytesDone`, lets the throttle down, answers a user command, and ends the print
  at the `M400` slot;
* `Resynchronise` is what happens 250 ms after the last byte when an error was reported: the FIFO is
  thrown away, the restart line chosen from "Resend", "Last Line" or the oldest slot, `M400`
  forgotten so it goes out again, an unsent or repeatable user command kept, another answered;
* `ResendLine`, `SendManual`, `SendLine`, `SendFinish` are the branches of the sending loop, in its
  order (`resendFrom = 0` guards everything behind a resend, and so on); `SendPoll`, `Probe`,
  `StoppedResponding` are its timers;
* `Leave` and `SafeShutdown` are the exits.

A line is named by its position in the file and the offset just past it is the same number. A
slot's text is the line it carries. Time appears only as `Quiet` (250 ms) and `Silent` (seconds):
the printer answers faster than that unless it is dead or busy with a command of `SlowTypes`.

### Recovery

Recovery sees the streaming loop from outside, as PrintStream shows it: lines are executed in
order and acknowledged after they are executed (`ExecuteLine`, `AckLine`, at most `InFlight` lines
apart; `AckedWasExecuted` and `InOrder` of PrintStream). `M110` is acknowledged as offset 0, which
`AckM110` keeps as the code has it. The machine state after line k (heater targets, Z, ...) is
named k.

* `job` is the journal record, `JournalWrite` one rewrite of it that the busy card may refuse
  (`SdBusy` names which accesses: the file of a print, the first record of a print, the periodic
  one, the last one, the read at boot).
* `gInt` is the interrupted record with the flags of `printer.h`. `run` is where the engine task
  stands: nothing, the preamble of a resume (in two parts, because a crash between setting targets
  and placing the nozzle matters), `M110`, printing, and the park (likewise in two parts).
* `ScanFile`, `LookAtPrinter`, `RaiseNozzle` and `SwitchOffParked`, `DeclineAuto` or `AutoResume`,
  `BedOff` are `interruptedTick`; `Gone`, `AutoConnect` are `autoConnectTick`; `Start`,
  `Recover`, `RecoverAtHeight`, `Discard`, `Gcode`, `Connect`, `Disconnect`, `SelectLink` are
  `handleCmd`; `Beat` is the RTC uptime; `Crash` is the end of one boot and the start of the next
  (`printerInit`, `journalRead`).
* The printer is `powered`, `hotend`, `bed`, `pos` (the line executed last), `posKnown`, `lift`.
* `live` and `autos` are history variables: whether the print in the journal was started and has
  not ended, and how often in a row the board resumed without a user. `prevLong` and `bootLong`
  say what really happened to a boot, against `beatLong`, what the board believes.

### Board

Two tasks and what they share. `http` is where the web server's task stands (ESP-IDF's server runs one
handler at a time), `eng` where the engine task stands, one label for each point at which the other
task or a crash may come in between.

* **Commands.** A command is an object with a number (`cmd`), put into `cmdQ` by `post` (`Post`) or
  `printerGcodeAsync` (`TakeSlot`, `PostAsync`, `AsyncRefused`). `mem` says whether it is alive. The
  client frees it when it has its answer (`Answered`); when it gives up, the wait that ended (`TimedOut`)
  and the note under `cmdMux` (`Abandon`) are two steps, as are the engine's look at `abandoned`
  (`AnswerLooks`) and the semaphore it gives outside the lock (`AnswerGives`). A manual command during
  a print is held in `eng.man` until the printer's ok (`PrintGcode`, `SendManual`, `ManualAcked`) or the
  end of the print (`ManualEnds`). `gJob` is the one slot of asynchronous commands.
* **Files.** A file's content is its version; `tmp` is `upload.tmp`. An upload is `UploadBegin`,
  pieces under the card's lock, the second look (`UploadChecked`), the lock, `UploadRemoves`,
  `UploadRenames`, or `UploadDiscards`; a deletion is `DeleteLocks`, `DeleteChecked`, `DeleteRemoves`.
  `FileInUse` is `printerFileInUse`.
* **Prints.** `Start`, `LookForFile`, `Claim`, `Open`, `Begins` are `handleCmd` and the top of `runPrint`;
  `Fill`, `FillBusy`, `NextCell` are the `LineReader`, with a cell for a piece of a line and `rd.from` for
  where the line in hand began; `CloseFile`, `RecordEnd`, `JournalEnd` are the label `done`.
* `sd` is `sdMutex`, `Taken` a wait for it that ran out (the log writer is the third user). `holes` is a
  history variable: the known ways around the protection of a file in use, recorded when one is taken,
  so that the properties hold for everything else.

### Phone

The board is `board`, what one `/printer/status` answer tells; `print` and `fate` say what really
happened to each print and are read by the properties only. `conn` is `EspPrinterConnection` with
`finishedSeen`, `bootIdSeen`, `tracking` and `stopping`, and `Progress` is `pollProgress`: what one answer
means after the ones before it. `phase`, `fileReady`, `autoShutoffArmed` and so on are the fields of
`PrinterService`; `lock` is what the holder of `commandLock` does, so that a request is the call to
the board and, after an answer, the rest of the handler (`StartPrint` then `PrintStarted` or `StartFailed`,
...). `pollers` are the `PollerThread`s, of which an old one may still be in its last poll;
`PollAsks` is the question, `PollGoesOn`, `PollDone`, `PollError` and `PollForgets` what is made of the
answer. `TempPolls`, `CheckShutoff`, `ShutoffSwitches` are `TempPollerThread` with `maybeAutoShutoff`;
`AutoSees` to `NoticeLost` are `AutoConnectThread`.

### Schedule

`job` is the store's `Job` object, `disk` the saved one, and every change makes a new object, as the
code does and as the poller's comparisons rely on. `poller` is where `ScheduledPrintPollerThread`
stands and the object it works on; one step lies between any two of its waits (lock, plug, upload,
connection, start, clear). The dashboard's requests do not take `commandLock` and come in two steps where
a file kept on the phone is deleted first. `asked` is what the user has asked for, and is read by the
property only.

### UsbHost and UsbLink

`UsbHost` is the task `usb_lib` and the interrupts: the port with the event that waits, the debounce
lock and the second event a disconnection may bring (`hcd_dwc.c`); the hub driver's state, flags and
enumeration stage (`hub.c`), the enumeration in two pairs of stages, one whose transfers must succeed and
one for strings; the device's action flags, taken at once and worked off in the order of the code
(`usbh.c`). `UsbLink` adds the client side of `usb_host.c`, the CDC driver, `link_usb.cpp` and the engine's
`autoConnectTick`, with `handle` for the pointer `dev` (none, live, or stale after the device was freed)
and `ioMtx`. `panic` is set where the code would stop the board: an `ESP_ERROR_CHECK` or assertion that
fails, a freed handle that is used. The drivers' tasks run as the code starts them: the engine on one
core, `usb_lib` and the client with equal priority on the other; `Races = FALSE` says that interrupts
and the other core do not come into the gaps of a few microseconds listed in section 5.

Operators with names such as `SwitchOffIfRaised`, `AbandonFreeing` or `UploadUnchecked` stand directly
before the definition they are a wrong version of. No specification uses them; they are the mutants of
`PROJECT.json`.

## 3. The runs

### Passing

| run | instance | shows |
|---|---|---|
| `stream` (`MCStream.cfg`) | 4 lines, window 3, history 3, throttle 1, two user commands (one relative), 2 damaged lines, 1 lost answer, a restart | the printer executes the file in order; acknowledgements never ahead; the history ring is enough; a relative command at most once; "ok" means executed; heaters off; implements `OrderedPrint` |
| `stream_live` (`MCLive.cfg`) | 2 lines, windows 1 and 3 changed at any time, one damaged line, one lost answer, every failure | every print not kept paused ends; a dead printer is noticed also while paused |
| `recovery` (`MCRecovery.cfg`) | 3 lines, 1 in flight, 2 board restarts, 1 outage, 1 automatic resume, busy card at a print's file and at periodic records, unanswered commands, slow moves, printer restarts, users at any time | nothing skipped, forgotten or revived; automatic resumes bounded and only after a boot that lasted |
| `recovery_live` (`MCRecoveryLive.cfg`) | as above, card never busy, commands answered | a hotend found hot after a restart does not stay on |
| `board_commands` (`MCCommands.cfg`) | a queue of 1, 3 commands (START, STOP, a user's command waited for or asynchronous), clients that give up, a card that is taken; no restart | a command is freed by one side, used by none after it; the slot follows its command; clients and jobs get their answers |
| `board_files` (`MCFiles.cfg`) | 2 names (symmetric), 1 upload, deletions, 1 command per boot, 2 restarts, a taken card everywhere but inside a line, a rename that fails | a file in use is not touched; an upload is whole or nothing; lines are whole; a lock is given by its holder |
| `phone` (`MCPhone.cfg`) | 2 prints, 2 boots, 1 poller, a plug switched once by hand, the automatic power-off, start, stop and recovery by users, lost answers to the time question, a plug that fails | a print is called successful only when one ended; no automatic power-off before that |
| `phone_live` (`MCPhoneLive.cfg`) | 1 print, 1 boot, other clients that start and stop, connect and disconnect, pause, lost answers to START and STOP, a connection that slips in behind a request | the end of a print is noticed, a running print is followed again |
| `schedule` (`MCSchedule.cfg`) | 3 job objects, 2 files, clock to 4, 1 restart of the app | what is started is what was asked, once; a due job is decided |
| `usb` (`MCUsb.cfg`) | 2 plug-ins, 1 failed transfer, 1 Connect or Disconnect | nothing stops the board; the link ends up as the cable is |

Why the bounds are enough. A resynchronisation needs an error report and lines behind it: a window
of 3 gives two lines thrown away behind a damaged one, and two damaged lines let a second
resynchronisation start while resends of the first are going out. The ring of 3 wraps with 4 lines,
and the throttle of 1 lets the window open and close again. One lost answer shifts every later ok
by one slot until a poll's answer realigns them, which is the case the FIFO has to survive; a second
one is left out to keep the run within minutes. The run also keeps `LastN0 = {0}` and
`SlowTypes = {}`, because the end of this section says what happens otherwise, and `Starts = {0}`,
because a resumed print's `M110` is acknowledged as offset 0, which Recovery follows.

For Recovery, line 1 homes and heats, line 2 is printing, line 3 switches off, so an interruption can fall
before, between and after the lines that change the machine state; a second restart is what finds the
remains of a recovery that was cut off; with `AutoResumeMax = 1` the limit is reached by the first automatic
resume, and the second restart tries the next.

For Board, three commands through a queue of one place are a command in work, one held by the print and
one queued, or one refused; the files need a second name because an upload of one file and a print of
another meet in `upload.tmp` and in the lock, one upload because its handler is the only one that runs,
one command per boot because the second restart brings a third, and two restarts because a print
continued after the first has to be found by the second. A file is two cells read one at a time there, so
that a line crosses reads, and one cell read as if there were two in `board_commands`. For Phone, two
prints are what it takes to count an end twice or to credit the first's to the second, and two boots
what the boot id distinguishes. For Schedule, three objects are a job, its replacement, and the
marked or uploaded one. For USB, the second plug-in meets whatever the first left behind.

`SdBusy` of the `recovery` run leaves out "first", "last" and "boot". The card can be busy at those
moments too, and then the properties do fail: "last" is the finding `recovery_revived`; without the
first record a crash finds the print before it; without the read at boot there is no recovery at
all. The theorems say precisely which access each property depends on.

Deadlock is not checked (`CHECK_DEADLOCK FALSE`) because the models may stop: a print ends, the user
asks for nothing, and the bounds on crashes, posts and plugs run out.

### Findings: runs that show a violation

| run | property | what the code does |
|---|---|---|
| `recovery_revived` (`MCRevived.cfg`) | `EndedNotRevived` | the write that closes the journal is not repeated when the card is busy (`printer.cpp:374`), so the next boot finds an ended print interrupted |
| `usb_rearm` (`MCRearm.cfg`) | `ReceptionContinues` | `in_xfer_cb` polls again after a transient error (`cdc_acm_host.c:775`), but the error has halted the pipe, nothing clears it, and reception stops for good |

Each finding's full text, with the comment of the source it disagrees with, is in `PROJECT.json`.

### What the properties leave out

Other instances violate properties of these modules, or would violate a stronger form of them. They
have no run of their own; the definitions that show them are in the modules, and the conditions below
are what each passing run or theorem excludes.

Streaming (`PrintStream`):
* With a line counter that an earlier job left high (`LastN0`), a damaged `M110` is never sent again
  (`printer.cpp:1237`) and the printer skips the first lines: `InOrder` needs `LastN0 = {0}`.
* When `M400` takes longer than the quiet time (`SlowTypes`), its late ok is credited to the line re-sent
  after a resynchronisation and the print is reported finished early (`1218`; `FinishedMeansPrinted`).
* With a window of 1 and a lost poll answer, poll, probe and lines block each other until a live printer is
  given up after 180 s (`1400`; `SilentMeansDead`).

Recovery (`Recovery`):
* After a restart of the printer behind an adapter that stays connected, the record says that the printer
  kept its position (`1441`; `KeptMeansKept`).
* The first journal record of a resumed print is written before its machine state is set (`942`, `1024`;
  `JournalStateTrue`).
* Heater targets are taken as proof of a known position, and the preamble of a cold resume, or a user, sets
  them before anything is homed (`1605`, `858`; `AutoKnowsPosition`).
* When the park's move is not acknowledged in time nobody switches the bed off (`1595`, `1632`;
  `BedNotLeftOn`).

Board (`Board`), recorded in `holes` or excluded by `Faults`:
* "late": a START whose client has given up is still in the queue; it is claimed between an upload's or a
  deletion's last look (`main.cpp:1218`, `1272`) and the removal, and the print reads a file that is
  being removed.
* "gap": between the end of a print in ERROR and the record of it (`printer.cpp:1413-1445`), and between
  taking the interrupted print out of `gInt` and writing the journal at START and DISCARD (`939-942`,
  `1831-1834`), `printerFileInUse` does not know a file that the journal still names. A crash after that
  finds the journal naming a file that was replaced.
* "stale": the card was busy at a journal write, which leaves the name of the print before.
* A read that finds the card busy inside a line loses the line's first part (`276-285`); `LinesWhole` holds
  for reads that are busy where a line begins.
* `OnlyTheEdgeLeaks`: a client that gives up between the engine's look and its semaphore leaves its
  command to nobody. The code accepts this small leak.

Phone (`Phone`): the safety run has one poller thread and leaves out connecting by hand (`AutoConnectThread`
connects), a slipped-in connection, pausing, lost answers to START and STOP and other clients. Other clients,
lost answers and a first connection by hand do no harm (`SuccessHasItsEndCorrect`). With the rest a
success can be told that belongs to no print (`startPrint` does not take the counters of the moment as seen;
`connectPrinter` does so while a poller is alive; after a failed `resumePrint` the phase is ERROR while the
poller lives), and a power-off already decided may meet a print that starts.

Schedule (`Schedule`): `Late = FALSE` leaves out requests between the poller's last look and its step. A
job changed there is lost, cleared or marked failed with the old one (`markFailed` and `clear` hit whatever
is stored), a cancel after the last look still starts, and a kill between the start and the clearing starts
the job again in the next life of the app; `StartsOnce` counts one life.

USB (`UsbLink`): see section 5.

### Fairness

`PrintStream!Fairness`: the loop of `runPrint` keeps turning (it never blocks for longer than one
read), so receiving, resynchronising, polling, probing and giving up are weakly fair, and the
printer reads while it lives. Sending is strongly fair: a poll may fill the window again and again,
but polls are a second apart and a round trip is far shorter, so the loop finds the window open
infinitely often and sends then. Users owe nothing, hence the premise of `PrintEnds` that they do
not keep pausing.

`Recovery!Fairness`: `engineTask` calls `interruptedTick` in every turn while nothing prints, so
each of its steps that stays enabled is taken. Nothing is assumed of users, of the SD card, of the
periodic journal or of the connection. `HotendNotLeftOn` promises only what the engine can do: as long
as the record is there and the link is open. `recovery_live` leaves out unanswered commands: the
code sends these switch-offs once.

`Board!Fairness`: the web server's task goes on with the request it has, the engine task turns, and the
log writer gives the card back (`WF` of `Server`, `Engine`, `LogGivesCard`). Clients owe nothing, a
print need not fail, a wait need not run out.

`Phone!Fairness`: a poller asks (`WF`), and of its answers not all are thrown away by an unanswered second
question (`SF` of the rest of the poll, against `PollForgets`); a request that has its answer is
completed (`WF`); connecting, tried every few seconds, is not always in the way of a request and does not
fail forever (`SF` of `AutoConnects`).

`Schedule!Fairness`: the thread runs and the clock goes on (`WF` of `Poller`, `Tick`), whoever has
`commandLock` gives it back (`WF`), and a lock that is free again and again is had once
(`SF` of `SendLocks \/ RunLocks`; Java's monitors queue their threads).

`UsbLink!Fairness`: the tasks run as long as they have something to do. `usb_lib` and the driver's client
share a core, so the turn of `usb_lib` comes and goes (`SF` of `Lib`), and the client goes through all its
lists in turn (`SF` of `ControlCallback`, `TakesEndpoint("out")`, `Message`). The port reports a connection,
and a printer that is there answers control and OUT transfers (`WF`). It owes no IN data.

## 4. What is proved

All theorems are of the form `Spec => []Inv`, `Spec => [][A]_vars` or, for the refinement,
`Spec => Abstract!Spec`, for every value of the constants, from the assumptions named in the modules
(`MarlinAssumption`, `StreamAssumption`, `RecoveryAssumption`, `BoardAssumption`, `ScheduleAssumption`,
`PhoneAssumption`, `UsbHostAssumption`, `UsbLinkAssumption`) and those that the theorem states. Each invariant
below was first checked by TLC on an instance, then proved.

### The print

**`PrintStream_proofs`**

| theorem | assumes | inductive invariant |
|---|---|---|
| `TypeCorrect` | | the types, and how many slots there may be beyond the window: at most 6 from it and one more from a probe, which needs a FIFO without a poll; so the `MaxW >= 7` slots of the ring are enough |
| `InOrderCorrect` | `LastN0 = {0}` | `OrderInv`: a numbered line carries the file line of its number wherever it is (wire, history ring), and the printer's counter is the number of lines it executed as long as it lives; then a line is executed only if it is the next |
| `OneShotCorrect` | | `OneShotInv`: a relative user command is on the wire at most once, no longer there once executed, and in neither place before it is sent |
| `EndsColdCorrect` | | `ColdInv`: after `safeShutdown` its switch-off is the last command on the wire that concerns the heaters |

**`StreamAcks_proofs`** is about what an `ok` is worth. The engine matches answers to commands by their
order alone, so an `ok` that is lost shifts every later one to an older command, which is the safe
direction, and the answer to a poll shifts them back. `AckAssumption` is what this needs and no more: the
line counter starts at 0 (`LastN0 = {0}`), only oks are lost, never an error report (`Losable`), no answer is
slower than the quiet time (`SlowTypes = {}`), and the window stays closed until `M110` is acknowledged
(`Throttle >= 1`; the code's is 8). The first and the third are those whose counterexamples section 3
tells. After a lost error report the ok behind it is credited to the line that was
thrown away. How many lines are
damaged, how many oks are lost, when the printer fails and what users send is left open.

The invariant `StreamInv`, which holds while the print runs, has five parts:

* `FifoInv`: the lines in flight have consecutive numbers up to the one before the next, each records the
  offset behind it, `M110` is the oldest slot if it is there, a user's command has one slot at most;
* `CreditInv`: there is a number d (of oks that were lost) such that the j-th answer on the way is for slot
  d + j of the FIFO, a temperature for a poll, and everything up to that slot was carried out (`Credited`); a
  line that was thrown away is behind every slot that has an ok (`Blocked`); while nothing went wrong what is on
  the wire is the rest of the FIFO, slot by slot (`Aligned`);
* `PendingInv`: a resynchronisation has a line to restart from;
* `NumberInv`: what the printer asks for is the line behind those it executed, and the engine's
  `resendFrom` and `lastGood` agree with it;
* `WireInv`: what is on the wire is not executed a second time, and after an error nothing on it is executed
  at all.

`ResultInv` says what the others are for, and survives the print's end: the acknowledged offset was
executed, an answered command was executed, a finished print was executed to its last line.

| theorem | assumes | inductive invariant |
|---|---|---|
| `AckedCorrect`, `OkMeansExecutedCorrect`, `FinishedCorrect` | `AckAssumption` | `AckInv`: types, `OrderInv`, `ResultInv`, and `StreamInv` while the print runs |
| `ResendAvailableCorrect` | the same, and no window wider than the ring (`HistAssumption`; the code has 6 and 16) | with `KeptInv`: `RingInv`, the ring holds the last `Hist` lines and the printer is never more behind; `GapInv`, no new line goes out beyond what the printer wants next: either that line is in flight, or the window is still closed |
| `PromiseKept` | `AckAssumption`, `Starts = {0}` | `PromiseInv`: `AckInv`, `ColdInv`, and `BytesInv`, the offset is monotonic because no slot in flight lies behind it. Every action is then shown to be a step of `OrderedPrint` or a stutter. A resumed print is left out because its `M110` is acknowledged as offset 0 for a moment, which `Recovery` follows |

### Journal and recovery

**`Recovery_proofs`**: first the types, with which a print runs exactly when `PRINTING` is reported. The 33
actions are then sorted into eleven kinds of step, by what they do to the few fields that matter
(`StepKinds`), and each invariant is shown to survive each kind.

| theorem | assumes | inductive invariant |
|---|---|---|
| `TypeCorrect` | | the types |
| `NeverForgottenCorrect` | "first", "boot" not in `SdBusy` | `KeepInv`: a live print is in the journal, and printing or on record |
| `EndedNotRevivedCorrect` | "last" not in `SdBusy` | `EndInv`: an active journal, a running print and a record each imply a live print; a running print has no record beside it |
| `AutoBoundedCorrect` | "first" not in `SdBusy` | `CountInv`: the journal, the engine and the boot record each carry at least the automatic resumes made |
| `NothingSkippedCorrect` | "first" not in `SdBusy` | `PlaceInv`: every offset a print may continue from (journal, record, resume base, acknowledged) lies behind the printer; while a resume begins, behind its base |
| `AutoAfterLongBootCorrect` | | `OriginInv`: the uptime that survives a restart (`rtcBeat`) is never more than the boot lasted, and a record found at boot that is not a crash loop's was left by a boot that lasted or a power loss. Only a restart makes such a record (`OriginOutcome`) |

### The board's tasks

**`Board_proofs`** shows the types in six parts, then sorts the 56 actions by what they do to the
commands. `BoardInv` adds to the types `MailInv`: every command is in one place of the engine (`Parted`:
queued, in work, or held by the print, never in two); the engine, the client or nobody has it, and `mem`,
`abandoned` and `done` say who (`CmdInv`); what the engine is about to answer was not abandoned when it
looked (`GivenUp`); the slot is taken exactly while its command is on the way (`JobInv`).

| theorem | statement |
|---|---|
| `TypeCorrect` | the types; the queue and what was read of a file within their bounds |
| `NoUseAfterFreeCorrect` | a command in anybody's hands has not been freed |
| `OnlyTheEdgeLeaksCorrect` | a command in nobody's hands was freed, but for the one edge |
| `JobHasItsCommandCorrect` | the slot and its command belong together |
| `LockGivenByHolderCorrect` | the card's lock is given back by who holds it |

**`BoardFiles_proofs`** sorts the same actions into kinds of step by what they do to files, record and
journal.

| theorem | assumes | inductive invariant |
|---|---|---|
| `PrintedFileIntactCorrect` | | `UseInv`: a print is known to `printerFileInUse` from its claim to its end (`Owned`); no handler past its last look has a file in hand that is printed or on record (`Safe`, `AutoSafe`), but for the recorded holes; what is read is what was opened (`SameFile`) |
| `InterruptedFileKeptCorrect` | | the same, with `Recorded`: without a hole taken the journal names the print in progress or the interrupted one, in the version that was printed, which is what a restart makes the record from |
| `UploadAllOrNothingCorrect` | | `UploadInv`: what `upload.tmp` holds at each point of the handler, and that a stored file is there or is `upload.tmp` |
| `LinesWholeCorrect` | "in a line" not in `Faults` | `LinesWhole` with the types |

**`Schedule_proofs`**

| theorem | assumes | inductive invariant |
|---|---|---|
| `TypeCorrect` | | types, with the lock each stretch of the poller holds |
| `StartsOnceCorrect` | | `OnceInv`: the stored, saved and chosen objects are among those made; one that was started is neither stored as pending nor chosen again |
| `StartsWhatWasAskedCorrect` | `~Late` | `AskInv`: the stored job is what was asked for, the saved one the same, and past its last look the poller's object is the stored one and due |

### The phone

**`Phone_proofs`**: the actions are sorted by what they do to the board as it is seen from outside (`BoardStep`:
it rests, begins, is paused or resumed, ends, fails, restarts or loses its power), and what the board promises is
shown once for every kind (`BoardInv`: what runs has not ended, what can be continued was cut off, and the
counter of finished prints is at most their number).

| theorem | assumes | inductive invariant |
|---|---|---|
| `PhoneTypeCorrect` | | the types with `BoardInv`, which bounds the counters |
| `SuccessHasItsEndCorrect` | `OneWatcher` | `PhoneInv`: see below |
| `CutsHaveTheirEndCorrect` | `OneWatcher` | the same, and `ArmedInv`: the automatic power-off is armed, or about to be, only after a print came to its end |

The phone has no message that says "this print ended": it compares a counter and a boot id with those it
saw last, or reads a text. That no end is counted twice is a bookkeeping over both (`CreditInv`): the successes
told, plus one if the board's counter shows an end the phone has not read, plus one if the poller holds
an end it has still to tell or is bound to conclude one, are never more than the prints that ended. To keep it, a
poller that saw its print run in this boot either still sees it running or can still read its end
(`SawInv`), what the phone has seen is never ahead of the board (`SeenInv`), and the poller that lives is the one
that is shown (`WatchInv`).

`OneWatcher` excludes what makes the property false, each shown by TLC on an instance: a second poller
thread beside one that was told to stop, a connection made anew under a print, a pause, a slipped-in
connection (`"knock"`), a file that ends with its last command, so that no bytes are left while the last moves are
still being done (`EndsInText = FALSE`; slicers append their settings).
Everything else is left open: any number of prints, boots and switchings of the plug, other clients that
start and stop prints, a connection made by hand while no print is followed, lost answers to START, STOP and to
the time question.

### The link

**`UsbLink_proofs`**: `~Races` is assumed throughout, which is to say that nothing comes into the gaps of
section 5. Neither theorem holds without it: with `Races = TRUE` TLC finds a violation of `NoPanic`, and with two
plug-ins one of `TypeOK`.

| theorem | assumes | inductive invariant |
|---|---|---|
| `TypeCorrect` | `~Races` | `Inv`, in five parts: below |
| `NoPanicCorrect` | `~Races` | the same |

The types alone are not inductive: that `ref` and `ctrl` of the device never leave 0..1, and that `msgs` holds one
message at most, rests on what three tasks and the interrupts owe each other. `Inv` says it in 22 named conjuncts:

* the port and `usb_lib`: the hub driver's state follows the port's (`PortInv`), and an event of the port is never
  without the flag that announces it, so a port about to be recovered has none (`EventInv`);
* the device: it is listed exactly while the hub driver is active or its end is under way (`DevInv`), the port is
  recovered once and after the device is gone (`RecoverInv`), a transfer is checked when it has come back (`EnumInv`);
* its flags: freed only when nobody has it open (`ActInv`), its end told once and to an end (`GoneOnce`), and as long
  as the client still has to deal with a lost device no port is enabled (`GoneInv`). The last is where the
  enumeration's debounce matters;
* the pipes: a finished transfer is on the client's list or in its hands, one of the two (`PipeInv`); when the end of
  the device is told no transfer of an endpoint is in flight, when the client closes it none waits for a callback
  (`QuietInv`, `ClosedInv`);
* the handle: `ioMtx`, the handle, the driver's device and the position of the two tasks that may close it determine
  each other (`MutexInv`, `HandleInv`, `CdcInv`), the device is open exactly while the driver has it (`RefInv`), and a
  request is in flight exactly while the engine waits for it (`WaitInv`), so none is when the default pipe is freed.

First come lemmas that say what an action does to the records it changes, field by field (`AnswerStep`,
`PortLostStep`, `CancelStep`); the rest goes conjunct by conjunct, one lemma each (`LibKept` to `WaitKept`), one step
per action.

**Only model-checked**: everything temporal under fairness (`PrintEnds`, `DeadPrinterNoticed`, `HotendNotLeftOn`,
`ClientsAnswered`, `JobEnds`, `EndNoticed`, `PrintFollowed`, `JobDecided`, `LinkFollowsCable`). Liveness, `ENABLED`, induction over data and `RECURSIVE` operators are out of
the prover's reach; the modules use no recursion. `AckedWasExecuted` and its companions outside
`AckAssumption`, and the phone's properties outside `OneWatcher`, are not claimed: they do not hold there.

## 5. What is not modelled

Within the modelled parts:

* **Streaming**: the connect and warm-up before `M110`, the status snapshot published while printing; the
  `M110` of a resumed print is followed in Recovery only. Text, checksums and the 199 characters kept of a
  line are abstracted to the line's position; damage is an event.
* **Recovery**: rehearsals (dry run and skip), a resume from an offset the user chooses and one the user
  forces to be warm, a restart of the printer during the preamble, the temperatures reached, the exact height
  of the nozzle (`lift` counts the raises).
* **Board**: listing, download, hashing and unpacking of uploads, which change no file; what a START does to
  the printer before the file is opened; the contents of the journal but for the file's name.
* **Phone**: macros, calibration, manual commands and uploads by hand; the alerts that follow from a phase.
* **USB**: one port, one device, no hubs. Left out: the second reset and the descriptors of the enumeration,
  the notification endpoint, isochronous and interrupt pipes, disabling a port, power management, the
  receive buffer of the link and its lines.

What `Races = FALSE` of the USB runs excludes. Each of these needs an interrupt or the other core within
microseconds, or a failure the drivers do not repair; with `Races = TRUE` TLC finds a violation of `NoPanic`
or `LinkFollowsCable` for those the model has:

* The printer is pulled after the clean-up stage of the enumeration was taken and before it ran: the
  device's flags are lost and the port is never recovered (`usbh.c:199-211`).
* The engine closes a live link: the interface is released while the client task still has the cancelled
  poll's callback to run, and `ESP_ERROR_CHECK` stops the board (`cdc_acm_host.c:692-701`).
* The printer is pulled between the claim of the interface and the first poll, which is under
  `ESP_ERROR_CHECK` (`cdc_acm_host.c:234`).
* `cdc_acm_host_send_custom_request` uses the handle without `ioMtx` while the callback closes it.
* A second port event between taking the recovery and `hcd_port_recover`, which refuses a port with an event.
* The message DEV_GONE is handled while a transfer's callback is still to come (`InOrderOfLists`).
* A control request that times out leaves its count of transfers in flight, which an assertion finds
  at the close; this one is not in the model.

Not excluded, and the reason for the premise `~faulted` of `LinkFollowsCable`: a failed transfer during the
enumeration waits for the printer to be plugged in again, and a failed one in the string stages leaves the
default pipe halted, so that opening fails until then.

Parts without a module:

* **Camera, DHT11, crash report** (`main.cpp`, `dht11.cpp`, `crash.cpp`), the Wi-Fi connection, the log and
  the web server's routes: input and output without a decision about a print. The watchdog's reboot is one
  of the crashes of Recovery and Board.
* **Phone uploads and SD commands** (`EspStoreConnection`, the name and size maps): requests whose effect on
  the board is in Board, and when the phone makes them in Schedule. **Door, alerts, HTTP and
  WebSocket server, camera relay, panel, dashboard**: routing, byte framing and drawing.
* **The vendored camera driver** (`components/esp32-camera`) and the parts of the USB driver for hubs,
  isochronous transfers and descriptors: third-party code for hardware registers. Together with the user
  interface they are most of the repository's lines: the map covers about a ninth of all lines of code,
  among them two thirds of `printer.cpp` and half of `hub.c`.

## 6. How the parts were chosen

The order was: first what decides the print itself (the streaming loop, then journal and recovery), then
what the two tasks of the board share (commands and files), then the conclusions the phone draws (end of a
print, power-off, schedule), then the link below. The proofs follow the same order; for each component
they begin with the types and go to the properties whose violation would cost a print, a file or the board.
What the run instances and the proofs leave open is named in sections 3 to 5: all liveness is checked on
instances only, and so is the link when something comes into its gaps.

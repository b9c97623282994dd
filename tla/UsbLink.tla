------------------------------ MODULE UsbLink ------------------------------
(***************************************************************************)
(* The link to a printer on the USB port: link_usb.cpp and what the engine *)
(* does with it while no print runs (printer.cpp), the CDC driver          *)
(* (cdc_acm_host.c) and the client side of usb_host.c, over UsbHost.       *)
(* The engine task runs on one core, the driver's client task and usb_lib  *)
(* share the other; both the engine and the client may close the device.   *)
(***************************************************************************)
EXTENDS UsbHost

CONSTANTS MaxRequests   \* bound: Connect and Disconnect of the user

ASSUME UsbLinkAssumption == MaxRequests \in Nat

VARIABLES
    cdc,       \* the driver's device: "none", "claimed", "open" when on its list, "closing" when it calls nobody any more
    handle,    \* `dev` of link_usb.cpp: "none", "live", or "stale" when it points to freed memory
    devGone,
    ioMtx,     \* who holds it: "free", "engine", "client"
    client,    \* where the client task is, and the endpoint it works on
    engine,    \* where the engine task is, the handle it works with, the setup requests still to make, whether one failed
    semaphore, \* what a finished transfer has left for the engine: out and control
    gState,    \* "IDLE" or "DISCONNECTED" (or ERROR after a Connect that failed, which is treated alike)
    userDisconnected, requests

linkVarsButEngine == <<cdc, handle, devGone, ioMtx, client, semaphore, gState, userDisconnected, requests>>
linkVars == <<cdc, handle, devGone, ioMtx, client, engine, semaphore, gState, userDisconnected, requests>>
vars == <<hostVars, linkVars>>

SETUPS == 2     \* requests of LinkUsb::open: baud rate, line format
IsOpen == handle # "none" /\ ~devGone
Step(at) == engine' = [engine EXCEPT !.at = at]

-----------------------------------------------------------------------------
(* closeDev and cdc_acm_host_close, by whoever has claimed the handle *)

\* claimDevForClose; a handle whose device is not on the driver's list closes nothing.
Closes == handle = "live"
ClaimsHandle(who) == handle' = "none" /\ ioMtx' = IF Closes THEN who ELSE ioMtx
TakesHandleUnlocked(who) == ClaimsHandle(who)   \* mutated: the mutex of the writes is not taken
TakesHandle(who) == ioMtx = "free" /\ ClaimsHandle(who)

Busy(p) == pipes[p].urb # "idle" \/ pipes[p].pending \/ (client.at = "callback" /\ client.ep = p)
Endable == \A p \in Endpoints : ~Busy(p)

\* No user callbacks from here on; the poll of the IN endpoint is cancelled: halt, flush, clear.
CancelsPoll ==
    /\ cdc' = "closing"
    /\ pipes' = [pipes EXCEPT !["in"] = Cleared(Retired(@))]

\* usb_host_interface_release
ReleasesInterface ==
    /\ pipes' = [p \in Pipes |-> IF p \in Endpoints THEN NoPipe ELSE pipes[p]]
    /\ IF Endable THEN UNCHANGED panic ELSE Panic("interface still in use")

\* cdc_acm_device_remove
RemovesDevice ==
    /\ dev' = ClosedDevice(dev)
    /\ Notify(IF ClosedDevice(dev).pending /\ ~dev.pending THEN {"usbh"} ELSE {})
    /\ IF CloseFails(dev) THEN Panic("control transfer in flight") ELSE UNCHANGED panic
    /\ cdc' = "none"
Stale(h) == IF h = "live" THEN "stale" ELSE h

-----------------------------------------------------------------------------
(* The client task: usb_host_client_handle_events *)

ClientHas == msgs # <<>> \/ ctrlDone.there \/ \E p \in Endpoints : pipes[p].pending
LibWaits == lib.at \in {"wait", "debounce", "reset", "resetting"}
\* Tasks of equal priority on one core: each runs until it waits, unless the tick comes in between.
ClientTurn == Races \/ LibWaits

\* _handle_pending_ep takes an endpoint from the list...
TakesEndpoint(p) ==
    /\ client.at = "wait" /\ ClientTurn /\ pipes[p].pending
    /\ client' = [at |-> "callback", ep |-> p]
    /\ pipes' = [pipes EXCEPT ![p].pending = FALSE, ![p].error = FALSE]
    /\ IF pipes[p].error /\ pipes[p].state # "halted" THEN Panic("flush of an active pipe") ELSE UNCHANGED panic
    /\ UNCHANGED <<plugged, plugs, faults, faulted, port, hub, dev, lib, work, msgs, ctrlDone>>
    /\ UNCHANGED <<cdc, handle, devGone, ioMtx, engine, semaphore, gState, userDisconnected, requests>>

\* ... and runs its transfer's callback.  in_xfer_cb polls again after data and after an error, if the pipe takes it.
PollsAgain(urb) == urb \in {"ok", "error"}
InCallback ==
    /\ client.at = "callback" /\ client.ep = "in"
    /\ LET r == pipes["in"]
           again == PollsAgain(r.urb) /\ Enabled /\ r.state = "active"
       IN pipes' = [pipes EXCEPT !["in"].urb = IF r.urb \notin Finished THEN @ ELSE IF again THEN "inflight" ELSE "idle"]
    /\ client' = [at |-> "wait", ep |-> "none"]
    /\ UNCHANGED <<plugged, plugs, faults, faulted, port, hub, dev, lib, work, msgs, ctrlDone, panic>>
    /\ UNCHANGED <<cdc, handle, devGone, ioMtx, engine, semaphore, gState, userDisconnected, requests>>

\* out_xfer_cb
OutCallback ==
    /\ client.at = "callback" /\ client.ep = "out"
    /\ pipes' = [pipes EXCEPT !["out"].urb = IF @ \in Finished THEN "idle" ELSE @]
    /\ semaphore' = IF pipes["out"].urb \in Finished THEN [semaphore EXCEPT !.out = TRUE] ELSE semaphore
    /\ client' = [at |-> "wait", ep |-> "none"]
    /\ UNCHANGED <<plugged, plugs, faults, faulted, port, hub, dev, lib, work, msgs, ctrlDone, panic>>
    /\ UNCHANGED <<cdc, handle, devGone, ioMtx, engine, gState, userDisconnected, requests>>

ControlCallback ==
    /\ client.at = "wait" /\ ClientTurn /\ ctrlDone.there
    /\ ctrlDone' = [there |-> FALSE, ok |-> FALSE]
    /\ semaphore' = [semaphore EXCEPT !.ctrl = IF ctrlDone.ok THEN "ok" ELSE "failed"]
    /\ UNCHANGED <<plugged, plugs, faults, faulted, port, pipes, hub, dev, lib, work, msgs, panic>>
    /\ UNCHANGED <<cdc, handle, devGone, ioMtx, client, engine, gState, userDisconnected, requests>>

\* usb_event_cb and onEvent; the messages come after the endpoints and the control transfers.
InOrderOfLists == Races \/ ~(ctrlDone.there \/ \E p \in Endpoints : pipes[p].pending)
Message ==
    /\ client.at = "wait" /\ ClientTurn /\ msgs # <<>> /\ InOrderOfLists
    /\ msgs' = Tail(msgs)
    /\ IF cdc = "open"
       THEN devGone' = TRUE /\ client' = [client EXCEPT !.at = "closeDev"]
       ELSE UNCHANGED <<devGone, client>>
    /\ UNCHANGED <<plugged, plugs, faults, faulted, port, pipes, hub, dev, lib, work, ctrlDone, panic>>
    /\ UNCHANGED <<cdc, handle, ioMtx, engine, semaphore, gState, userDisconnected, requests>>

\* closeDev; the engine may be in a setup request with the handle, which takes no mutex.
EngineOutOfHandle == Races \/ engine.at # "waiting"
ClientClaims ==
    /\ client.at = "closeDev" /\ EngineOutOfHandle
    /\ TakesHandle("client")
    /\ client' = [client EXCEPT !.at = IF Closes THEN "halt" ELSE "wait"]
    /\ UNCHANGED <<plugged, plugs, faults, faulted, port, pipes, hub, dev, lib, work, msgs, ctrlDone, panic>>
    /\ UNCHANGED <<cdc, devGone, engine, semaphore, gState, userDisconnected, requests>>

ClientCancels ==
    /\ client.at = "halt"
    /\ CancelsPoll
    /\ client' = [client EXCEPT !.at = "release"]
    /\ UNCHANGED <<plugged, plugs, faults, faulted, port, hub, dev, lib, work, msgs, ctrlDone, panic>>
    /\ UNCHANGED <<handle, devGone, ioMtx, engine, semaphore, gState, userDisconnected, requests>>

ClientReleases ==
    /\ client.at = "release"
    /\ ReleasesInterface
    /\ client' = [client EXCEPT !.at = "remove"]
    /\ UNCHANGED <<plugged, plugs, faults, faulted, port, hub, dev, lib, work, msgs, ctrlDone>>
    /\ UNCHANGED <<cdc, handle, devGone, ioMtx, engine, semaphore, gState, userDisconnected, requests>>

ClientRemoves ==
    /\ client.at = "remove"
    /\ RemovesDevice
    /\ client' = [client EXCEPT !.at = "wait"]
    /\ handle' = Stale(handle)
    /\ engine' = [engine EXCEPT !.handle = Stale(@)]
    /\ ioMtx' = "free"
    /\ UNCHANGED <<plugged, plugs, faults, faulted, port, pipes, hub, lib, msgs, ctrlDone>>
    /\ UNCHANGED <<devGone, semaphore, gState, userDisconnected, requests>>

-----------------------------------------------------------------------------
(* The engine task: closing *)

EngineCloses ==
    /\ engine.at = "closeDev"
    /\ TakesHandle("engine")
    /\ Step(IF Closes THEN "halt" ELSE "closed")
    /\ UNCHANGED <<hostVars, cdc, devGone, client, semaphore, gState, userDisconnected, requests>>

\* The client task runs the cancelled transfer's callback before the engine gets to the release.
CallbackFirst == Races \/ Endable
NoCallback(p) == Races \/ (~pipes[p].pending /\ client.ep # p)
EngineCancels ==
    /\ engine.at = "halt" /\ NoCallback("in")
    /\ CancelsPoll
    /\ Step("release")
    /\ UNCHANGED <<plugged, plugs, faults, faulted, port, hub, dev, lib, work, msgs, ctrlDone, panic>>
    /\ UNCHANGED <<handle, devGone, ioMtx, client, semaphore, gState, userDisconnected, requests>>

EngineReleases ==
    /\ engine.at = "release" /\ CallbackFirst
    /\ ReleasesInterface
    /\ Step("remove")
    /\ UNCHANGED <<plugged, plugs, faults, faulted, port, hub, dev, lib, work, msgs, ctrlDone>>
    /\ UNCHANGED <<cdc, handle, devGone, ioMtx, client, semaphore, gState, userDisconnected, requests>>

\* usb_lib takes a device from the pending list at once, unless another core gets in between.
Settled == Races \/ ~dev.pending
EngineRemoves ==
    /\ engine.at = "remove" /\ Settled
    /\ RemovesDevice
    /\ Step("closed")
    /\ handle' = Stale(handle)
    /\ ioMtx' = "free"
    /\ UNCHANGED <<plugged, plugs, faults, faulted, port, pipes, hub, lib, msgs, ctrlDone>>
    /\ UNCHANGED <<devGone, client, semaphore, gState, userDisconnected, requests>>

EngineClosed ==
    /\ engine.at = "closed"
    /\ Step("idle") /\ gState' = "DISCONNECTED"
    /\ UNCHANGED <<hostVars, cdc, handle, devGone, ioMtx, client, semaphore, userDisconnected, requests>>

-----------------------------------------------------------------------------
(* The engine task: autoConnectTick, Connect and Disconnect *)

Turn == engine.at = "idle"

\* The printer was switched off or unplugged while connected.
NoticeGone ==
    /\ Turn /\ gState = "IDLE" /\ ~IsOpen
    /\ Step("closeDev")
    /\ UNCHANGED <<hostVars, cdc, handle, devGone, ioMtx, client, semaphore, gState, userDisconnected, requests>>

\* LinkUsb::open
StartsOpen == devGone' = FALSE /\ Step(IF handle = "none" THEN "find" ELSE "failed")

AutoConnect ==
    /\ Turn /\ gState = "DISCONNECTED" /\ ~userDisconnected /\ dev.listed
    /\ StartsOpen
    /\ UNCHANGED <<hostVars, cdc, handle, ioMtx, client, semaphore, gState, userDisconnected, requests>>

Request == Turn /\ requests < MaxRequests /\ requests' = requests + 1

Connect ==
    /\ Request
    /\ userDisconnected' = FALSE
    /\ IF IsOpen THEN gState' = "IDLE" /\ UNCHANGED <<devGone, engine>>
       ELSE StartsOpen /\ UNCHANGED gState
    /\ UNCHANGED <<hostVars, cdc, handle, ioMtx, client, semaphore>>

\* Only a disconnect of a live link is the user's choice.
Disconnect ==
    /\ Request
    /\ userDisconnected' = IF IsOpen /\ gState = "IDLE" THEN TRUE ELSE userDisconnected
    /\ Step("closeDev")
    /\ UNCHANGED <<hostVars, cdc, handle, devGone, ioMtx, client, semaphore, gState>>

\* DISCONNECTED, or ERROR after a failed Connect: autoConnectTick goes on either way.
OpenFailed ==
    /\ engine.at = "failed"
    /\ Step("idle") /\ gState' = "DISCONNECTED"
    /\ UNCHANGED <<hostVars, cdc, handle, devGone, ioMtx, client, semaphore, userDisconnected, requests>>

-----------------------------------------------------------------------------
(* The engine task: LinkUsb::open and cdc_acm_host_open, which waits for   *)
(* a close of the client to end (open_close_mutex)                         *)

\* cdc_acm_find_and_open_usb_device
Found ==
    /\ engine.at = "find" /\ cdc = "none" /\ Opens(dev) /\ Settled
    /\ dev' = [dev EXCEPT !.ref = @ + 1]
    /\ Step("claim")
    /\ UNCHANGED <<plugged, plugs, faults, faulted, port, pipes, hub, lib, work, msgs, ctrlDone, panic, linkVarsButEngine>>

NotFound ==
    /\ engine.at = "find" /\ cdc = "none" /\ ~Opens(dev)
    /\ Step("failed")
    /\ UNCHANGED <<hostVars, linkVarsButEngine>>

\* usb_host_interface_claim allocates the pipes; if the port is gone by now, the device is closed again.
Claim ==
    /\ engine.at = "claim" /\ (Enabled \/ Settled)
    /\ IF Enabled
       THEN /\ pipes' = [p \in Pipes |-> IF p \in Endpoints THEN NewPipe ELSE pipes[p]]
            /\ cdc' = "claimed" /\ Step("submit")
            /\ UNCHANGED <<dev, work, panic>>
       ELSE /\ RemovesDevice /\ Step("failed") /\ UNCHANGED pipes
    /\ UNCHANGED <<plugged, plugs, faults, faulted, port, hub, lib, msgs, ctrlDone>>
    /\ UNCHANGED <<handle, devGone, ioMtx, client, semaphore, gState, userDisconnected, requests>>

\* The first poll, checked with ESP_ERROR_CHECK; then the device is on the driver's list.
FirstPoll ==
    /\ engine.at = "submit"
    /\ IF Accepts("in") THEN UNCHANGED panic ELSE Panic("poll refused")
    /\ pipes' = [pipes EXCEPT !["in"].urb = "inflight"]
    /\ cdc' = "open" /\ Step("assign")
    /\ UNCHANGED <<plugged, plugs, faults, faulted, port, hub, dev, lib, work, msgs, ctrlDone>>
    /\ UNCHANGED <<handle, devGone, ioMtx, client, semaphore, gState, userDisconnected, requests>>

Assign ==
    /\ engine.at = "assign"
    /\ handle' = "live"
    /\ engine' = [at |-> "setup", handle |-> "none", left |-> SETUPS, failed |-> FALSE]
    /\ UNCHANGED <<hostVars, cdc, devGone, ioMtx, client, semaphore, gState, userDisconnected, requests>>

\* cdc_acm_host_send_custom_request sets the baud rate and the line format; the handle is read without the mutex.
RequestSetup ==
    /\ engine.at = "setup" /\ engine.left > 0
    /\ IF handle = "stale" THEN Panic("freed handle") ELSE UNCHANGED panic
    /\ IF handle # "none" /\ Accepts("ep0")
       THEN /\ pipes' = [pipes EXCEPT !["ep0"].urb = "inflight"]
            /\ dev' = [dev EXCEPT !.ctrl = @ + 1]
            /\ semaphore' = [semaphore EXCEPT !.ctrl = "none"]
            /\ engine' = [engine EXCEPT !.at = "waiting", !.handle = handle]
       ELSE /\ engine' = [engine EXCEPT !.left = @ - 1, !.failed = TRUE]
            /\ UNCHANGED <<pipes, dev, semaphore>>
    /\ UNCHANGED <<plugged, plugs, faults, faulted, port, hub, lib, work, msgs, ctrlDone>>
    /\ UNCHANGED <<cdc, handle, devGone, ioMtx, client, gState, userDisconnected, requests>>

SetupAnswered ==
    /\ engine.at = "waiting" /\ semaphore.ctrl # "none"
    /\ IF engine.handle = "stale" THEN Panic("freed handle") ELSE UNCHANGED panic
    /\ engine' = [at |-> "setup", handle |-> "none", left |-> engine.left - 1,
                  failed |-> engine.failed \/ semaphore.ctrl = "failed"]
    /\ semaphore' = [semaphore EXCEPT !.ctrl = "none"]
    /\ UNCHANGED <<plugged, plugs, faults, faulted, port, pipes, hub, dev, lib, work, msgs, ctrlDone>>
    /\ UNCHANGED <<cdc, handle, devGone, ioMtx, client, gState, userDisconnected, requests>>

Opened ==
    /\ engine.at = "setup" /\ engine.left = 0
    /\ IF engine.failed THEN Step("closeDev") /\ UNCHANGED gState
       ELSE Step("idle") /\ gState' = "IDLE"
    /\ UNCHANGED <<hostVars, cdc, handle, devGone, ioMtx, client, semaphore, userDisconnected, requests>>

-----------------------------------------------------------------------------
(* The engine task: idleTick writes M105 (LinkUsb::writeBytes, cdc_acm_host_data_tx_blocking) *)

Write ==
    /\ Turn /\ gState = "IDLE" /\ IsOpen /\ ioMtx = "free"
    /\ IF handle = "stale" THEN Panic("freed handle") ELSE UNCHANGED panic
    /\ Accepts("out")
    /\ pipes' = [pipes EXCEPT !["out"].urb = "inflight"]
    /\ semaphore' = [semaphore EXCEPT !.out = FALSE]
    /\ ioMtx' = "engine"
    /\ engine' = [engine EXCEPT !.at = "writing", !.handle = handle]
    /\ UNCHANGED <<plugged, plugs, faults, faulted, port, hub, dev, lib, work, msgs, ctrlDone>>
    /\ UNCHANGED <<cdc, handle, devGone, client, gState, userDisconnected, requests>>

WriteEnds ==
    /\ IF engine.handle = "stale" THEN Panic("freed handle") ELSE UNCHANGED panic
    /\ ioMtx' = "free"
    /\ engine' = [engine EXCEPT !.at = "idle", !.handle = "none"]

WriteDone ==
    /\ engine.at = "writing" /\ semaphore.out
    /\ WriteEnds
    /\ semaphore' = [semaphore EXCEPT !.out = FALSE]
    /\ UNCHANGED <<plugged, plugs, faults, faulted, port, pipes, hub, dev, lib, work, msgs, ctrlDone>>
    /\ UNCHANGED <<cdc, handle, devGone, client, gState, userDisconnected, requests>>

\* The printer takes nothing for a second: the endpoint is reset.
WriteTimeout ==
    /\ engine.at = "writing" /\ ~semaphore.out /\ faults < MaxFaults /\ NoCallback("out")
    /\ faults' = faults + 1
    /\ pipes' = [pipes EXCEPT !["out"] = Cleared(Retired(@))]
    /\ WriteEnds
    /\ UNCHANGED <<plugged, plugs, faulted, port, hub, dev, lib, work, msgs, ctrlDone>>
    /\ UNCHANGED <<cdc, handle, devGone, client, semaphore, gState, userDisconnected, requests>>

-----------------------------------------------------------------------------
(* The system *)

\* The client task shares the core of usb_lib: neither interrupts the other, unless the tick comes in between.
ClientBusy == client.at \in {"callback", "halt", "release", "remove"}
LibTurn == Races \/ ~ClientBusy
\* A debounce is long: the client has dealt with the device that was there before (its message names that device).
ClientCaughtUp == Races \/ lib.at # "debounce" \/ (msgs = <<>> /\ client.at = "wait")
\* The printer is not pulled between the claim of the interface and the first poll, a few microseconds later.
NotBeforePoll == Races \/ engine.at # "submit"

Init ==
    /\ HostInit
    /\ cdc = "none" /\ handle = "none" /\ devGone = FALSE /\ ioMtx = "free"
    /\ client = [at |-> "wait", ep |-> "none"]
    /\ engine = [at |-> "idle", handle |-> "none", left |-> 0, failed |-> FALSE]
    /\ semaphore = [out |-> FALSE, ctrl |-> "none"]
    /\ gState = "DISCONNECTED" /\ userDisconnected = FALSE /\ requests = 0

Client ==
    \/ \E p \in Endpoints : TakesEndpoint(p)
    \/ InCallback \/ OutCallback \/ ControlCallback \/ Message
    \/ ClientClaims \/ ClientCancels \/ ClientReleases \/ ClientRemoves
Engine ==
    \/ EngineCloses \/ EngineCancels \/ EngineReleases \/ EngineRemoves \/ EngineClosed
    \/ NoticeGone \/ AutoConnect \/ OpenFailed
    \/ Found \/ NotFound \/ Claim \/ FirstPoll \/ Assign \/ RequestSetup \/ SetupAnswered \/ Opened
    \/ Write \/ WriteDone
Lib == (LibTake \/ LibGoesOn) /\ LibTurn /\ ClientCaughtUp /\ UNCHANGED linkVars
User == Connect \/ Disconnect
Bus == (Interrupt \/ Plug \/ (Unplug /\ NotBeforePoll)) /\ UNCHANGED linkVars

Next == Runs /\ (Lib \/ Client \/ Engine \/ WriteTimeout \/ User \/ Bus)

\* Every task goes on as long as it has something to do, the client goes through all its lists in turn; the port reports a connection, the printer answers what waits for it.
Fairness ==
    /\ SF_vars(Runs /\ Lib) /\ WF_vars(Runs /\ Client) /\ WF_vars(Runs /\ Engine)
    /\ SF_vars(Runs /\ ControlCallback) /\ SF_vars(Runs /\ TakesEndpoint("out")) /\ SF_vars(Runs /\ Message)
    /\ WF_vars(Runs /\ ConnectionInterrupt /\ UNCHANGED linkVars)
    /\ \A p \in {"ep0", "out"} : WF_vars(Runs /\ Completes(p) /\ UNCHANGED linkVars)
Spec == Init /\ [][Next]_vars /\ Fairness

-----------------------------------------------------------------------------
(* Properties *)

\* Everything has its type; one control transfer at most is in flight, one client has the device open.
TypeOK ==
    /\ HostTypeOK
    /\ cdc \in {"none", "claimed", "open", "closing"} /\ handle \in {"none", "live", "stale"} /\ devGone \in BOOLEAN
    /\ ioMtx \in {"free", "engine", "client"}
    /\ client \in [at: {"wait", "callback", "closeDev", "halt", "release", "remove"}, ep: Endpoints \cup {"none"}]
    /\ engine.at \in {"idle", "closeDev", "halt", "release", "remove", "closed", "failed", "find", "claim", "submit",
                      "assign", "setup", "waiting", "writing"}
    /\ engine.handle \in {"none", "live", "stale"} /\ engine.left \in 0..SETUPS /\ engine.failed \in BOOLEAN
    /\ semaphore \in [out: BOOLEAN, ctrl: {"none", "ok", "failed"}]
    /\ gState \in {"IDLE", "DISCONNECTED"} /\ userDisconnected \in BOOLEAN /\ requests \in 0..MaxRequests

\* Nothing stops the board: no interface is released in use, no freed handle is used by a write (link_usb.cpp:33-41),
\* the port is recovered only when it can be, the device is freed with no transfer in flight.
NoPanic == panic = "none"

\* The link follows the cable (autoConnectTick, printer.cpp:1456-1460): a printer that stays plugged in, without a failed
\* transfer or a wish of the user to the contrary, ends up connected; one that stays away ends up disconnected.
LinkFollowsCable ==
    /\ <>[](plugged /\ ~faulted /\ ~userDisconnected) => <>[](IsOpen /\ gState = "IDLE")
    /\ <>[](~plugged) => <>[](gState = "DISCONNECTED" /\ ~IsOpen)

\* "after a transient error [...] poll again, otherwise reception stops for good" (cdc_acm_host.c:773): as long as the
\* link is open the printer is polled for what it says, again and again.
ReceptionContinues == <>[](IsOpen /\ plugged) => []<>(pipes["in"].urb = "inflight")
=============================================================================

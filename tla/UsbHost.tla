------------------------------ MODULE UsbHost ------------------------------
(***************************************************************************)
(* The USB host below the link to the printer (components/usb): the root   *)
(* port and its pipes (hcd_dwc.c), the hub driver that enumerates what is  *)
(* plugged in and recovers the port (hub.c), the device object and its     *)
(* action flags (usbh.c), all run by the task usb_lib and by interrupts    *)
(* that may come at any moment.  One root port, one device, no hubs.       *)
(***************************************************************************)
EXTENDS Naturals, Sequences

CONSTANTS
    MaxPlugs,      \* bound: times the printer is plugged in
    MaxFaults,     \* bound: transfers that fail
    Races          \* interrupts, and tasks on the other core, may come into gaps of a few microseconds

ASSUME UsbHostAssumption == MaxPlugs \in Nat /\ MaxFaults \in Nat /\ Races \in BOOLEAN

VARIABLES
    plugged, plugs,
    faults,
    faulted,       \* a transfer has failed since the printer was plugged in
    port,          \* port_t: state, the event waiting, the debounce lock, whether a second event may follow
    pipes,         \* the default pipe, the bulk IN and the bulk OUT pipe
    hub,           \* hub_driver_t: driver_state, action flags, enumeration stage
    dev,           \* device_t
    lib,           \* where usb_host_lib_handle_events is
    work,          \* process_pending_flags
    msgs,          \* the client's event queue
    ctrlDone,      \* a finished control transfer on the client's list
    panic          \* what stopped the board, "none" while it runs

hostVars == <<plugged, plugs, faults, faulted, port, pipes, hub, dev, lib, work, msgs, ctrlDone, panic>>

Pipes == {"ep0", "in", "out"}
Endpoints == {"in", "out"}
NoPipe == [state |-> "none", urb |-> "idle", pending |-> FALSE, error |-> FALSE]
NewPipe == [NoPipe EXCEPT !.state = "active"]
NoDev == [there |-> FALSE, listed |-> FALSE, pending |-> FALSE, actions |-> {}, gone |-> FALSE, ref |-> 0, ctrl |-> 0]
NewDev == [NoDev EXCEPT !.there = TRUE]

Enabled == port.state = "enabled"      \* conn_dev_ena
Finished == {"ok", "error", "stall", "retired"}

-----------------------------------------------------------------------------
(* Operations of the HCD and of the device object, used by every task *)

\* hcd_urb_enqueue
Accepts(p) == Enabled /\ pipes[p].state = "active" /\ pipes[p].urb = "idle"

\* HCD_PIPE_CMD_HALT and HCD_PIPE_CMD_FLUSH; the callback puts an endpoint on the client's pending list.
Retired(r) == IF r.urb = "inflight" THEN [r EXCEPT !.state = "halted", !.urb = "retired", !.pending = TRUE, !.error = FALSE]
              ELSE [r EXCEPT !.state = "halted"]
\* HCD_PIPE_CMD_CLEAR
Cleared(r) == IF Enabled THEN [r EXCEPT !.state = "active"] ELSE r

\* _dev_set_actions: a device that is on the pending list already keeps its old flags.
SetActions(d, a) == IF d.pending THEN d ELSE [d EXCEPT !.pending = TRUE, !.actions = a]

LastClosedForgotten(d) == d   \* mutated: nobody asks for the port's recovery
\* usbh_dev_close
LastClosed(d) == IF d.gone THEN SetActions(d, {"free"}) ELSE d
ClosedDevice(d) == LET e == [d EXCEPT !.ref = @ - 1] IN IF e.ref = 0 THEN LastClosed(e) ELSE e
CloseFails(d) == d.ref = 1 /\ d.ctrl # 0
\* usbh_dev_open
Opens(d) == d.listed /\ ~d.gone

Notify(s) == work' = work \cup s
Panic(what) == panic' = what
Runs == panic = "none"

-----------------------------------------------------------------------------
(* The cable and the interrupts *)

RootEvent == hub' = [hub EXCEPT !.actions = @ \cup {"root"}] /\ Notify({"hub"})

Plug ==
    /\ ~plugged /\ plugs < MaxPlugs
    /\ plugged' = TRUE /\ plugs' = plugs + 1 /\ faulted' = FALSE
    /\ UNCHANGED <<faults, port, pipes, hub, dev, lib, work, msgs, ctrlDone, panic>>

\* The connection interrupt; it locks further ones until the debounce.
ConnectionInterrupt ==
    /\ plugged /\ port.state = "disconnected" /\ ~port.locked
    /\ port' = [port EXCEPT !.event = "connection", !.locked = TRUE]
    /\ RootEvent
    /\ UNCHANGED <<plugged, plugs, faults, faulted, pipes, dev, lib, msgs, ctrlDone, panic>>

\* Gaps between taking a flag and acting on it in which the code loses a port event or stops.
InGap ==
    \/ lib.at = "hub" /\ lib.acts = {"enum"} /\ hub.stage = "cleanup"
    \/ lib.at = "hub" /\ "recover" \in lib.acts /\ "root" \notin lib.acts
    \/ lib.at \in {"hub take", "hub"} /\ dev.listed /\ dev.pending
Quiet == Races \/ ~InGap

\* The printer is switched off or the cable pulled; the port notices at once unless its interrupts are locked.
Unplug ==
    /\ plugged /\ Quiet
    /\ plugged' = FALSE
    /\ IF port.state \in {"disabled", "resetting", "enabled"}
       THEN /\ port' = [port EXCEPT !.state = "recovery", !.event = "disconnection", !.locked = TRUE, !.again = Enabled]
            /\ RootEvent
       ELSE UNCHANGED <<port, hub, work>>
    /\ UNCHANGED <<plugs, faults, faulted, pipes, dev, lib, msgs, ctrlDone, panic>>

\* The port's enable bit falls as well: a second event while the port waits for its recovery.
SecondEvent ==
    /\ port.again /\ Quiet
    /\ port' = [port EXCEPT !.event = "error", !.again = FALSE]
    /\ RootEvent
    /\ UNCHANGED <<plugged, plugs, faults, faulted, pipes, dev, lib, msgs, ctrlDone, panic>>

\* The callback of a pipe: the hub's while it enumerates, then default_pipe_callback; pipe_callback of an endpoint.
Callback(p, flags) ==
    IF p # "ep0" THEN UNCHANGED <<hub, dev, work>>
    ELSE IF dev.listed
    THEN dev' = SetActions(dev, flags) /\ Notify(IF dev.pending THEN {} ELSE {"usbh"}) /\ UNCHANGED hub
    ELSE hub' = [hub EXCEPT !.actions = @ \cup {"enum"}] /\ Notify({"hub"}) /\ UNCHANGED dev

Completes(p) ==
    /\ plugged /\ Enabled /\ pipes[p].urb = "inflight"
    /\ pipes' = [pipes EXCEPT ![p].urb = "ok", ![p].pending = p \in Endpoints, ![p].error = FALSE]
    /\ Callback(p, {"dequeue"})
    /\ UNCHANGED <<plugged, plugs, faults, faulted, port, lib, msgs, ctrlDone, panic>>

\* A transient error: the pipe is halted.
Fails(p) ==
    /\ plugged /\ Enabled /\ pipes[p].urb = "inflight" /\ faults < MaxFaults
    /\ faults' = faults + 1 /\ faulted' = TRUE
    /\ pipes' = [pipes EXCEPT ![p].state = "halted", ![p].urb = "error", ![p].pending = p \in Endpoints, ![p].error = p \in Endpoints]
    /\ Callback(p, {"flush", "dequeue", "clear"})
    /\ UNCHANGED <<plugged, plugs, port, lib, msgs, ctrlDone, panic>>

\* A string descriptor the device does not have.
Stalls ==
    /\ plugged /\ Enabled /\ pipes["ep0"].urb = "inflight" /\ hub.stage = "check string"
    /\ pipes' = [pipes EXCEPT !["ep0"].state = "halted", !["ep0"].urb = "stall"]
    /\ Callback("ep0", {"dequeue", "clear"})
    /\ UNCHANGED <<plugged, plugs, faults, faulted, port, lib, msgs, ctrlDone, panic>>

-----------------------------------------------------------------------------
(* usb_lib: usb_host_lib_handle_events *)

LibTake ==
    /\ lib.at = "wait" /\ work # {}
    /\ lib' = [lib EXCEPT !.at = "usbh", !.todo = work]
    /\ work' = {}
    /\ UNCHANGED <<plugged, plugs, faults, faulted, port, pipes, hub, dev, msgs, ctrlDone, panic>>

Rest(acts, at) == IF acts = {} THEN [lib EXCEPT !.at = at, !.acts = {}] ELSE [lib EXCEPT !.acts = acts]

\* usbh_process takes the device and its flags from the pending list, as long as there is one.
UsbhTake ==
    /\ lib.at = "usbh"
    /\ IF "usbh" \in lib.todo /\ dev.pending
       THEN /\ lib' = [lib EXCEPT !.at = "device", !.acts = dev.actions]
            /\ dev' = [dev EXCEPT !.pending = FALSE, !.actions = {}]
       ELSE lib' = [lib EXCEPT !.at = "hub take"] /\ UNCHANGED dev
    /\ UNCHANGED <<plugged, plugs, faults, faulted, port, pipes, hub, work, msgs, ctrlDone, panic>>

Device(a, before) == lib.at = "device" /\ a \in lib.acts /\ lib.acts \cap before = {}

\* handle_pipe_halt_and_flush
HaltAndFlush ==
    /\ Device("halt", {})
    /\ pipes' = [p \in Pipes |-> IF p \in Endpoints /\ pipes[p].state # "none" THEN Retired(pipes[p]) ELSE pipes[p]]
    /\ lib' = Rest(lib.acts \ {"halt"}, "usbh")
    /\ UNCHANGED <<plugged, plugs, faults, faulted, port, hub, dev, work, msgs, ctrlDone, panic>>

\* The default pipe is halted and flushed, its transfers dequeued to the client, and made active again.
DequeuedUncounted(d, n) == d   \* mutated: the transfers stay in flight
Dequeued(d, n) == [d EXCEPT !.ctrl = @ - n]
DefaultPipe ==
    /\ lib.at = "device" /\ lib.acts \cap {"flush", "dequeue", "clear"} # {} /\ "halt" \notin lib.acts
    /\ LET flush == "flush" \in lib.acts
           old == pipes["ep0"]
           now == IF flush THEN Retired(old) ELSE old
           done == "dequeue" \in lib.acts /\ now.urb \in Finished
           called == flush /\ old.urb = "inflight"
       IN /\ pipes' = [pipes EXCEPT !["ep0"] = LET r == IF done THEN [now EXCEPT !.urb = "idle", !.pending = FALSE] ELSE now
                                              IN IF "clear" \in lib.acts THEN Cleared(r) ELSE r]
          /\ ctrlDone' = IF done THEN [there |-> TRUE, ok |-> now.urb = "ok"] ELSE ctrlDone
          /\ dev' = LET d == IF called THEN SetActions(dev, {"dequeue"}) ELSE dev
                    IN IF done THEN Dequeued(d, 1) ELSE d
          /\ Notify(IF called /\ ~dev.pending THEN {"usbh"} ELSE {})
    /\ lib' = Rest(lib.acts \ {"flush", "dequeue", "clear"}, "usbh")
    /\ UNCHANGED <<plugged, plugs, faults, faulted, port, hub, msgs, panic>>

EarlyFlags == {"halt", "flush", "dequeue", "clear"}

\* DEV_GONE to the client, if it has the device open.
SendGone ==
    /\ Device("gone", EarlyFlags)
    /\ msgs' = IF dev.ref > 0 THEN Append(msgs, "gone") ELSE msgs
    /\ lib' = Rest(lib.acts \ {"gone"}, "usbh")
    /\ UNCHANGED <<plugged, plugs, faults, faulted, port, pipes, hub, dev, work, ctrlDone, panic>>

\* NEW_DEV to the clients: the CDC driver has no use for it.
SendNew ==
    /\ Device("new", EarlyFlags \cup {"gone", "free"})
    /\ lib' = Rest(lib.acts \ {"new"}, "usbh")
    /\ UNCHANGED <<plugged, plugs, faults, faulted, port, pipes, hub, dev, work, msgs, ctrlDone, panic>>

\* DEV_FLAG_ACTION_FREE_AND_RECOVER
Free ==
    /\ Device("free", EarlyFlags \cup {"gone"})
    /\ IF pipes["ep0"].urb = "idle" THEN UNCHANGED panic ELSE Panic("default pipe in use")
    /\ dev' = NoDev
    /\ pipes' = [pipes EXCEPT !["ep0"] = NoPipe]
    /\ hub' = [hub EXCEPT !.actions = @ \cup {"recover"}]
    /\ Notify({"hub"})
    /\ lib' = Rest({}, "usbh")
    /\ UNCHANGED <<plugged, plugs, faults, faulted, port, msgs, ctrlDone>>

-----------------------------------------------------------------------------
(* usb_lib: hub_process *)

HubTake ==
    /\ lib.at = "hub take"
    /\ IF "hub" \in lib.todo /\ hub.actions # {}
       THEN lib' = [lib EXCEPT !.at = "hub", !.acts = hub.actions] /\ hub' = [hub EXCEPT !.actions = {}]
       ELSE lib' = [lib EXCEPT !.at = "wait", !.todo = {}] /\ UNCHANGED hub
    /\ UNCHANGED <<plugged, plugs, faults, faulted, port, pipes, dev, work, msgs, ctrlDone, panic>>

HubDone(a) == lib' = Rest(lib.acts \ {a}, "hub take")

\* usbh_hub_pass_event
PassedEvent(d) ==
    IF d.ref = 0 THEN SetActions([d EXCEPT !.gone = TRUE], {"free"})
    ELSE SetActions([d EXCEPT !.gone = TRUE], {"halt", "flush", "dequeue", "gone"})

\* root_port_handle_events, a disconnection or an error
PortLost ==
    /\ lib.at = "hub" /\ "root" \in lib.acts /\ port.event \in {"disconnection", "error"}
    /\ port' = [port EXCEPT !.event = "none"]
    /\ HubDone("root")
    /\ \/ /\ hub.state \in {"powered", "enum failed"}
          /\ hub' = [hub EXCEPT !.state = "recovery", !.actions = @ \cup {"recover"}]
          /\ UNCHANGED <<dev, work>>
       \/ /\ hub.state = "enum"
          /\ hub' = [hub EXCEPT !.state = "recovery", !.actions = @ \cup {"enum"}, !.stage = "cleanup failed"]
          /\ UNCHANGED <<dev, work>>
       \/ /\ hub.state = "active"
          /\ hub' = [hub EXCEPT !.state = "recovery"]
          /\ dev' = PassedEvent(dev)
          /\ Notify(IF dev.pending THEN {} ELSE {"usbh"})
       \/ /\ hub.state = "recovery"
          /\ UNCHANGED <<hub, dev, work>>
    /\ UNCHANGED <<plugged, plugs, faults, faulted, pipes, msgs, ctrlDone, panic>>

\* A flag whose event was read before.
NoEvent ==
    /\ lib.at = "hub" /\ "root" \in lib.acts /\ port.event = "none"
    /\ HubDone("root")
    /\ UNCHANGED <<plugged, plugs, faults, faulted, port, pipes, hub, dev, work, msgs, ctrlDone, panic>>

\* root_port_handle_events, a connection: hcd_port_handle_event waits for the debounce...
Connection ==
    /\ lib.at = "hub" /\ "root" \in lib.acts /\ port.event = "connection"
    /\ port' = [port EXCEPT !.event = "none"]
    /\ lib' = [lib EXCEPT !.at = "debounce"]
    /\ UNCHANGED <<plugged, plugs, faults, faulted, pipes, hub, dev, work, msgs, ctrlDone, panic>>

Debounced ==
    /\ lib.at = "debounce"
    /\ port' = [port EXCEPT !.state = IF plugged THEN "disabled" ELSE "disconnected", !.locked = FALSE]
    /\ lib' = [lib EXCEPT !.at = "reset"]
    /\ UNCHANGED <<plugged, plugs, faults, faulted, pipes, hub, dev, work, msgs, ctrlDone, panic>>

After(acts) == [lib EXCEPT !.at = IF acts = {} THEN "hub take" ELSE "hub", !.acts = acts]

\* ... and the port is reset, unless it has another event by now.
ResetPort ==
    /\ lib.at = "reset"
    /\ IF port.state = "disabled" /\ port.event = "none"
       THEN port' = [port EXCEPT !.state = "resetting"] /\ lib' = [lib EXCEPT !.at = "resetting"]
       ELSE lib' = After(lib.acts \ {"root"}) /\ UNCHANGED port
    /\ UNCHANGED <<plugged, plugs, faults, faulted, pipes, hub, dev, work, msgs, ctrlDone, panic>>

ResetDone ==
    /\ lib.at = "resetting"
    /\ IF port.state = "resetting"
       THEN /\ port' = [port EXCEPT !.state = "enabled"]
            /\ hub' = [hub EXCEPT !.state = "enum", !.stage = "start", !.actions = @ \cup {"enum"}]
       ELSE UNCHANGED <<port, hub>>
    /\ lib' = After(lib.acts \ {"root"})
    /\ UNCHANGED <<plugged, plugs, faults, faulted, pipes, dev, work, msgs, ctrlDone, panic>>

\* hcd_port_recover and power on
Recoverable == port.state = "recovery" /\ port.event = "none" /\ \A p \in Pipes : pipes[p].state = "none"
Recover ==
    /\ lib.at = "hub" /\ "recover" \in lib.acts /\ "root" \notin lib.acts
    /\ IF Recoverable THEN UNCHANGED panic ELSE Panic("port not recoverable")
    /\ port' = [state |-> "disconnected", event |-> "none", locked |-> FALSE, again |-> FALSE]
    /\ hub' = [hub EXCEPT !.state = "powered"]
    /\ HubDone("recover")
    /\ UNCHANGED <<plugged, plugs, faults, faulted, pipes, dev, work, msgs, ctrlDone>>

-----------------------------------------------------------------------------
(* Enumeration: enum_handle_events, one stage; a stage that waits for no   *)
(* callback asks for the next one.  Requests that must succeed are one     *)
(* pair of stages here, requests for strings another.                      *)

Enum(stage) == lib.at = "hub" /\ lib.acts = {"enum"} /\ hub.stage = stage
Stage(s) == hub' = [hub EXCEPT !.stage = s, !.actions = IF s \in {"none", "check", "check string"} THEN @ ELSE @ \cup {"enum"}]
StageDone == HubDone("enum")

EnumStart ==
    /\ Enum("start")
    /\ IF Enabled
       THEN dev' = NewDev /\ pipes' = [pipes EXCEPT !["ep0"] = NewPipe] /\ Stage("get")
       ELSE Stage("none") /\ UNCHANGED <<dev, pipes>>
    /\ StageDone
    /\ UNCHANGED <<plugged, plugs, faults, faulted, port, work, msgs, ctrlDone, panic>>

EnumTransfer(stage, check, failed) ==
    /\ Enum(stage)
    /\ IF Accepts("ep0")
       THEN pipes' = [pipes EXCEPT !["ep0"].urb = "inflight"] /\ Stage(check)
       ELSE Stage(failed) /\ UNCHANGED pipes
    /\ StageDone
    /\ UNCHANGED <<plugged, plugs, faults, faulted, port, dev, work, msgs, ctrlDone, panic>>

EnumCheck(stage, next, failed) ==
    /\ Enum(stage)
    /\ LET r == pipes["ep0"] IN
       /\ IF r.urb \in Finished THEN UNCHANGED panic ELSE Panic("no transfer to check")
       /\ pipes' = [pipes EXCEPT !["ep0"] = [(IF r.urb = "stall" THEN Cleared(r) ELSE r) EXCEPT !.urb = "idle"]]
       /\ Stage(IF r.urb = "ok" THEN next ELSE failed)
    /\ StageDone
    /\ UNCHANGED <<plugged, plugs, faults, faulted, port, dev, work, msgs, ctrlDone>>

\* enum_stage_cleanup and usbh_hub_enum_done
EnumCleanup ==
    /\ Enum("cleanup")
    /\ hub' = [hub EXCEPT !.state = "active", !.stage = "none"]
    /\ dev' = SetActions([dev EXCEPT !.listed = TRUE], {"new"})
    /\ Notify({"usbh"})
    /\ StageDone
    /\ UNCHANGED <<plugged, plugs, faults, faulted, port, pipes, msgs, ctrlDone, panic>>

\* enum_stage_cleanup_failed; the flush of the pipe may ask for one more stage.
\* mutated: the failure of an enumeration does not recover the port
AfterFailureWaiting(state) == [hub EXCEPT !.state = "enum failed", !.stage = "none"]
AfterFailure(state) == IF state = "recovery" THEN [hub EXCEPT !.actions = @ \cup {"recover"}, !.stage = "none"]
                       ELSE [hub EXCEPT !.state = "enum failed", !.stage = "none"]
EnumFailed ==
    /\ Enum("cleanup failed")
    /\ LET h == AfterFailure(hub.state)
           flushed == pipes["ep0"].urb = "inflight"
       IN /\ hub' = IF flushed THEN [h EXCEPT !.actions = @ \cup {"enum"}] ELSE h
          /\ Notify(IF flushed THEN {"hub"} ELSE {})
    /\ dev' = NoDev
    /\ pipes' = [pipes EXCEPT !["ep0"] = NoPipe]
    /\ StageDone
    /\ UNCHANGED <<plugged, plugs, faults, faulted, port, msgs, ctrlDone, panic>>

EnumNothing ==
    /\ Enum("none")
    /\ StageDone
    /\ UNCHANGED <<plugged, plugs, faults, faulted, port, pipes, hub, dev, work, msgs, ctrlDone, panic>>

-----------------------------------------------------------------------------

HostInit ==
    /\ plugged = FALSE /\ plugs = 0 /\ faults = 0 /\ faulted = FALSE
    /\ port = [state |-> "disconnected", event |-> "none", locked |-> FALSE, again |-> FALSE]
    /\ pipes = [p \in Pipes |-> NoPipe]
    /\ hub = [state |-> "powered", actions |-> {}, stage |-> "none"]
    /\ dev = NoDev
    /\ lib = [at |-> "wait", todo |-> {}, acts |-> {}]
    /\ work = {} /\ msgs = <<>>
    /\ ctrlDone = [there |-> FALSE, ok |-> FALSE]
    /\ panic = "none"

Cable == Plug \/ Unplug
Interrupt == ConnectionInterrupt \/ SecondEvent \/ Stalls \/ \E p \in Pipes : Completes(p) \/ Fails(p)

\* usb_lib goes on with what it has taken.
LibGoesOn ==
    \/ UsbhTake \/ HaltAndFlush \/ DefaultPipe \/ SendGone \/ SendNew \/ Free
    \/ HubTake \/ PortLost \/ NoEvent \/ Connection \/ Debounced \/ ResetPort \/ ResetDone \/ Recover
    \/ EnumStart \/ EnumTransfer("get", "check", "cleanup failed") \/ EnumCheck("check", "get string", "cleanup failed")
    \/ EnumTransfer("get string", "check string", "cleanup") \/ EnumCheck("check string", "cleanup", "cleanup")
    \/ EnumCleanup \/ EnumFailed \/ EnumNothing

HostTypeOK ==
    /\ plugged \in BOOLEAN /\ plugs \in 0..MaxPlugs /\ faults \in 0..MaxFaults /\ faulted \in BOOLEAN
    /\ port \in [state: {"disconnected", "disabled", "resetting", "enabled", "recovery"},
                 event: {"none", "connection", "disconnection", "error"}, locked: BOOLEAN, again: BOOLEAN]
    /\ pipes \in [Pipes -> [state: {"none", "active", "halted"}, urb: {"idle", "inflight"} \cup Finished,
                            pending: BOOLEAN, error: BOOLEAN]]
    /\ hub \in [state: {"powered", "enum", "enum failed", "active", "recovery"}, actions: SUBSET {"root", "recover", "enum"},
                stage: {"none", "start", "get", "check", "get string", "check string", "cleanup", "cleanup failed"}]
    /\ dev \in [there: BOOLEAN, listed: BOOLEAN, pending: BOOLEAN, gone: BOOLEAN, ref: 0..1, ctrl: 0..1,
                actions: SUBSET {"halt", "flush", "dequeue", "clear", "gone", "free", "new"}]
    /\ lib.at \in {"wait", "usbh", "device", "hub take", "hub", "debounce", "reset", "resetting"}
    /\ lib.todo \subseteq {"usbh", "hub"} /\ work \subseteq {"usbh", "hub"}
    /\ msgs \in Seq({"gone"}) /\ Len(msgs) <= 1
    /\ ctrlDone \in [there: BOOLEAN, ok: BOOLEAN]
=============================================================================
